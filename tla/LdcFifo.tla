------------------------------ MODULE LdcFifo ------------------------------
(***************************************************************************)
(* What one direction of a guest to guest LDC channel promises: packets    *)
(* arrive once and in the order they were sent.  Packets may be dropped    *)
(* only while an end reconfigures or gives up its queue: the sender drops  *)
(* the newest ones (what is still in its transmit queue), the receiver the *)
(* oldest ones (what is already in its receive queue).                     *)
(***************************************************************************)
EXTENDS Integers, Sequences

CONSTANT MaxPkts       \* packets are numbered 1..MaxPkts in sending order

VARIABLES chan,        \* the packets on their way, oldest first
          next,        \* the number of the next packet
          last,        \* the last packet handed to the receiving guest
          txconf,      \* the sender is between the start and the end of a flush
          rxconf       \* the receiver is

fvars == <<chan, next, last, txconf, rxconf>>

Init == chan = <<>> /\ next = 1 /\ last = 0 /\ txconf = FALSE /\ rxconf = FALSE

Send == \E k \in 1 .. MaxPkts :
  /\ next + k - 1 <= MaxPkts
  /\ chan' = chan \o [i \in 1 .. k |-> next + i - 1]
  /\ next' = next + k
  /\ UNCHANGED <<last, txconf, rxconf>>

Receive == \E k \in 1 .. Len(chan) :
  /\ chan' = SubSeq(chan, k + 1, Len(chan))
  /\ last' = chan[k]
  /\ UNCHANGED <<next, txconf, rxconf>>

TxFlush ==
  /\ txconf \/ txconf'
  /\ \E k \in 0 .. Len(chan) : chan' = SubSeq(chan, 1, k)
  /\ txconf' \in BOOLEAN
  /\ UNCHANGED <<next, last, rxconf>>

RxFlush ==
  /\ rxconf \/ rxconf'
  /\ \E k \in 0 .. Len(chan) : chan' = SubSeq(chan, k + 1, Len(chan))
  /\ rxconf' \in BOOLEAN
  /\ UNCHANGED <<next, last, txconf>>

Next == Send \/ Receive \/ TxFlush \/ RxFlush

Spec == Init /\ [][Next]_fvars
=============================================================================
