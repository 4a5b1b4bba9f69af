------------------------------ MODULE HvMondo -------------------------------
(***************************************************************************)
(* The hypervisor cross-call ("HV mondo") protocol between strands:        *)
(* hvmondo_send, hvmondo_wait and hvmondo_recv of                          *)
(* greatlakes/common/src/chipsubr.s, the interrupt entry hvxcall_mondo of  *)
(* intr.s and the idle loop start_work of main.s that leads to             *)
(* hvmondo_wait.                                                           *)
(*                                                                         *)
(* Each strand has one mailbox (STRAND_XCALL_MBOX): a command word that is *)
(* IDLE, BUSY or NEWMONDO, and a buffer of NWORDS words.  A sender claims  *)
(* the command word with a compare-and-swap, copies its mondo word by      *)
(* word, stores NEWMONDO and only then pokes the target's HVXCALL vector   *)
(* interrupt.  The target copies the words out after the interrupt and     *)
(* frees the mailbox.  Each word of a mondo carries the mondo's identity,  *)
(* so a torn copy is visible.                                              *)
(***************************************************************************)
EXTENDS Integers, Sequences

CONSTANTS Strands,     \* the hardware strands
          NWORDS,      \* words in a mondo buffer (8 in chipsubr.s)
          MaySend,     \* the pairs <<s, t>> such that s sends mondos to t
          MaxSends     \* bound: how many mondos one strand sends

ASSUME HvMondoAssumption == /\ NWORDS \in Nat \ {0}
                            /\ MaxSends \in Nat
                            /\ MaySend \subseteq Strands \X Strands

Word == 1 .. NWORDS
Mondos == Strands \X (1 .. MaxSends)      \* sender and its send count
NoMondo == <<>>                           \* contents of a word never written
Command == {"HXMB_IDLE", "HXMB_BUSY", "HXMB_NEWMONDO"}

VARIABLES
  command,    \* command[t]: XCMB_COMMAND of strand t's mailbox
  mondobuf,   \* mondobuf[t][w]: XCMB_MONDOBUF of strand t's mailbox
  pending,    \* pending[t]: the VECINTR_HVXCALL bit in ASI_INTR_UDB_R of t
  pc,         \* pc[s]: where strand s is
  tgt,        \* tgt[s]: the strand s is sending to (%g1 of hvmondo_send)
  tx,         \* tx[s]: STRAND_HV_TXMONDO, the mondo s is sending
  rx,         \* rx[s][w]: STRAND_HV_RXMONDO, the mondo s has received
  wd,         \* wd[s]: next word s copies
  sent,       \* sent[s]: number of mondos s has started to send
  delivered   \* history: the mondos strand t has handled, oldest first

vars == <<command, mondobuf, pending, pc, tgt, tx, rx, wd, sent, delivered>>

(* "run": guest or hypervisor code that neither sends nor receives, with   *)
(* interrupts enabled when in the guest; "wait": hvmondo_wait.             *)
Sending == {"cas", "copy", "signal", "poke"}
Receiving == {"recv", "rcopy", "release"}
PC == {"run", "wait", "handle", "abort"} \cup Sending \cup Receiving

Init == /\ command = [t \in Strands |-> "HXMB_IDLE"]
        /\ mondobuf = [t \in Strands |-> [w \in Word |-> NoMondo]]
        /\ pending = [t \in Strands |-> FALSE]
        /\ pc = [s \in Strands |-> "run"]
        /\ tgt = [s \in Strands |-> s]
        /\ tx = [s \in Strands |-> NoMondo]
        /\ rx = [s \in Strands |-> [w \in Word |-> NoMondo]]
        /\ wd = [s \in Strands |-> 1]
        /\ sent = [s \in Strands |-> 0]
        /\ delivered = [t \in Strands |-> <<>>]

-----------------------------------------------------------------------------
(* hvmondo_send                                                            *)

(* The caller has filled its TXMONDO buffer and names the target strand.   *)
hvmondo_send(s, t) ==
  /\ pc[s] = "run"
  /\ <<s, t>> \in MaySend
  /\ sent[s] < MaxSends
  /\ sent' = [sent EXCEPT ![s] = @ + 1]
  /\ tx' = [tx EXCEPT ![s] = <<s, sent[s] + 1>>]
  /\ tgt' = [tgt EXCEPT ![s] = t]
  /\ pc' = [pc EXCEPT ![s] = "cas"]
  /\ UNCHANGED <<command, mondobuf, pending, rx, wd, delivered>>

(* The casxa that claims the target's mailbox; while it fails the sender   *)
(* spins, which is the action not being enabled.                           *)
send_cas(s) ==
  /\ pc[s] = "cas"
  /\ command[tgt[s]] = "HXMB_IDLE"
  /\ command' = [command EXCEPT ![tgt[s]] = "HXMB_BUSY"]
  /\ wd' = [wd EXCEPT ![s] = 1]
  /\ pc' = [pc EXCEPT ![s] = "copy"]
  /\ UNCHANGED <<mondobuf, pending, tgt, tx, rx, sent, delivered>>

(* Mutant: the copy loop stops one word early.                             *)
send_copy_short(s) ==
  /\ pc[s] = "copy"
  /\ mondobuf' = [mondobuf EXCEPT ![tgt[s]] = [@ EXCEPT ![wd[s]] = tx[s]]]
  /\ wd' = [wd EXCEPT ![s] = IF @ + 1 = NWORDS THEN 1 ELSE @ + 1]
  /\ pc' = [pc EXCEPT ![s] = IF wd[s] + 1 = NWORDS THEN "signal" ELSE @]
  /\ UNCHANGED <<command, pending, tgt, tx, rx, sent, delivered>>

(* Mutant: the word offset runs past the buffer.                           *)
send_copy_overrun(s) ==
  /\ pc[s] = "copy"
  /\ mondobuf' = [mondobuf EXCEPT ![tgt[s]] = [@ EXCEPT ![wd[s]] = tx[s]]]
  /\ wd' = [wd EXCEPT ![s] = @ + 1]
  /\ pc' = [pc EXCEPT ![s] = IF wd[s] = NWORDS THEN "signal" ELSE @]
  /\ UNCHANGED <<command, pending, tgt, tx, rx, sent, delivered>>

(* One MV(_o): a word of the mondo goes to the mailbox buffer.             *)
send_copy(s) ==
  /\ pc[s] = "copy"
  /\ mondobuf' = [mondobuf EXCEPT ![tgt[s]] = [@ EXCEPT ![wd[s]] = tx[s]]]
  /\ wd' = [wd EXCEPT ![s] = IF @ = NWORDS THEN 1 ELSE @ + 1]
  /\ pc' = [pc EXCEPT ![s] = IF wd[s] = NWORDS THEN "signal" ELSE @]
  /\ UNCHANGED <<command, pending, tgt, tx, rx, sent, delivered>>

send_signal(s) ==
  /\ pc[s] = "signal"
  /\ command' = [command EXCEPT ![tgt[s]] = "HXMB_NEWMONDO"]
  /\ pc' = [pc EXCEPT ![s] = "poke"]
  /\ UNCHANGED <<mondobuf, pending, tgt, tx, rx, wd, sent, delivered>>

(* Mutant: the target is not interrupted.                                  *)
send_poke_none(s) ==
  /\ pc[s] = "poke"
  /\ pc' = [pc EXCEPT ![s] = "run"]
  /\ UNCHANGED <<command, mondobuf, pending, tgt, tx, rx, wd, sent, delivered>>

send_poke(s) ==
  /\ pc[s] = "poke"
  /\ pending' = [pending EXCEPT ![tgt[s]] = TRUE]
  /\ pc' = [pc EXCEPT ![s] = "run"]
  /\ UNCHANGED <<command, mondobuf, tgt, tx, rx, wd, sent, delivered>>

-----------------------------------------------------------------------------
(* Taking the interrupt                                                    *)

(* vecintr in the guest: reading ASI_INTR_UDB_R clears the pending bit;    *)
(* HVXCALL goes to hvxcall_mondo and on to handle_hvmondo.                 *)
hvxcall_mondo(s) ==
  /\ pc[s] = "run"
  /\ pending[s]
  /\ pending' = [pending EXCEPT ![s] = FALSE]
  /\ pc' = [pc EXCEPT ![s] = "recv"]
  /\ UNCHANGED <<command, mondobuf, tgt, tx, rx, wd, sent, delivered>>

(* start_work found no slot to run: the strand calls hvmondo_wait.         *)
start_work(s) ==
  /\ pc[s] = "run"
  /\ pc' = [pc EXCEPT ![s] = "wait"]
  /\ UNCHANGED <<command, mondobuf, pending, tgt, tx, rx, wd, sent, delivered>>

(* Mutant: any vector ends the wait, not only HVXCALL.                     *)
hvmondo_wait_any(s) ==
  /\ pc[s] = "wait"
  /\ pending' = [pending EXCEPT ![s] = FALSE]
  /\ pc' = [pc EXCEPT ![s] = "recv"]
  /\ UNCHANGED <<command, mondobuf, tgt, tx, rx, wd, sent, delivered>>

(* The strand leaves hvmondo_wait on an HVXCALL vector only; it reads, and *)
(* so drops, every other vector, which leaves the state here as it is.     *)
hvmondo_wait(s) ==
  /\ pc[s] = "wait"
  /\ pending[s]
  /\ pending' = [pending EXCEPT ![s] = FALSE]
  /\ pc' = [pc EXCEPT ![s] = "recv"]
  /\ UNCHANGED <<command, mondobuf, tgt, tx, rx, wd, sent, delivered>>

-----------------------------------------------------------------------------
(* hvmondo_recv                                                            *)

(* Mutant: the mailbox is freed before it is copied.                       *)
recv_check_free(s) ==
  /\ pc[s] = "recv"
  /\ command[s] # "HXMB_BUSY"
  /\ pc' = [pc EXCEPT ![s] = IF command[s] = "HXMB_NEWMONDO" THEN "rcopy" ELSE "abort"]
  /\ command' = [command EXCEPT ![s] = "HXMB_IDLE"]
  /\ wd' = [wd EXCEPT ![s] = 1]
  /\ UNCHANGED <<mondobuf, pending, tgt, tx, rx, sent, delivered>>

(* Spins while BUSY; anything but NEWMONDO after that is HVABORT.          *)
recv_check(s) ==
  /\ pc[s] = "recv"
  /\ command[s] # "HXMB_BUSY"
  /\ pc' = [pc EXCEPT ![s] = IF command[s] = "HXMB_NEWMONDO" THEN "rcopy" ELSE "abort"]
  /\ wd' = [wd EXCEPT ![s] = 1]
  /\ UNCHANGED <<command, mondobuf, pending, tgt, tx, rx, sent, delivered>>

recv_copy(s) ==
  /\ pc[s] = "rcopy"
  /\ rx' = [rx EXCEPT ![s] = [@ EXCEPT ![wd[s]] = mondobuf[s][wd[s]]]]
  /\ wd' = [wd EXCEPT ![s] = IF @ = NWORDS THEN 1 ELSE @ + 1]
  /\ pc' = [pc EXCEPT ![s] = IF wd[s] = NWORDS THEN "release" ELSE @]
  /\ UNCHANGED <<command, mondobuf, pending, tgt, tx, sent, delivered>>

(* Mutant: the mailbox is not freed.                                       *)
recv_release_keep(s) ==
  /\ pc[s] = "release"
  /\ delivered' = [delivered EXCEPT ![s] = Append(@, rx[s][1])]
  /\ pc' = [pc EXCEPT ![s] = "handle"]
  /\ UNCHANGED <<command, mondobuf, pending, tgt, tx, rx, wd, sent>>

recv_release(s) ==
  /\ pc[s] = "release"
  /\ command' = [command EXCEPT ![s] = "HXMB_IDLE"]
  /\ delivered' = [delivered EXCEPT ![s] = Append(@, rx[s][1])]
  /\ pc' = [pc EXCEPT ![s] = "handle"]
  /\ UNCHANGED <<mondobuf, pending, tgt, tx, rx, wd, sent>>

(* handle_hvmondo dispatches on the first word of RXMONDO and ends in      *)
(* start_work, which runs a vcpu or waits again.                           *)
handle_hvmondo(s) ==
  /\ pc[s] = "handle"
  /\ pc' = [pc EXCEPT ![s] = "run"]
  /\ UNCHANGED <<command, mondobuf, pending, tgt, tx, rx, wd, sent, delivered>>

-----------------------------------------------------------------------------
Send(s) == send_cas(s) \/ send_copy(s) \/ send_signal(s) \/ send_poke(s)
Receive(s) == \/ hvxcall_mondo(s) \/ hvmondo_wait(s)
              \/ recv_check(s) \/ recv_copy(s) \/ recv_release(s)
              \/ handle_hvmondo(s)

Next == \E s \in Strands :
          \/ \E t \in Strands : hvmondo_send(s, t)
          \/ Send(s)
          \/ Receive(s)
          \/ start_work(s)

(* A strand executes its instructions; an enabled vector interrupt is      *)
(* eventually taken.  Nothing obliges a strand to start a send.            *)
(* casxa on a contended mailbox succeeds in the end: strong fairness.      *)
Fairness == \A s \in Strands : /\ WF_vars(send_copy(s) \/ send_signal(s) \/ send_poke(s))
                               /\ SF_vars(send_cas(s))
                               /\ SF_vars(hvxcall_mondo(s) \/ hvmondo_wait(s))
                               /\ WF_vars(recv_check(s) \/ recv_copy(s) \/ recv_release(s)
                                          \/ handle_hvmondo(s))

Spec == Init /\ [][Next]_vars
FairSpec == Spec /\ Fairness

-----------------------------------------------------------------------------
(* Properties                                                              *)

TypeOK == /\ command \in [Strands -> Command]
          /\ mondobuf \in [Strands -> [Word -> Mondos \cup {NoMondo}]]
          /\ pending \in [Strands -> BOOLEAN]
          /\ pc \in [Strands -> PC]
          /\ tgt \in [Strands -> Strands]
          /\ tx \in [Strands -> Mondos \cup {NoMondo}]
          /\ rx \in [Strands -> [Word -> Mondos \cup {NoMondo}]]
          /\ wd \in [Strands -> Word]
          /\ sent \in [Strands -> 0 .. MaxSends]
          /\ delivered \in [Strands -> Seq(Mondos \cup {NoMondo})]

(* The HVABORT "mbox idle or non-mondo command" of hvmondo_recv is         *)
(* unreachable: an HVXCALL interrupt always finds a complete mondo.        *)
NoMboxAbort == \A s \in Strands : pc[s] # "abort"

(* No two strands ever write the same mailbox: between the successful      *)
(* casxa of hvmondo_send and its NEWMONDO store the sender owns the box,   *)
(* and the receiver is not reading it.                                     *)
MailboxOwned ==
  \A s \in Strands : pc[s] \in {"copy", "signal"} =>
     /\ pc[tgt[s]] \notin {"rcopy", "release"}
     /\ \A r \in Strands \ {s} :
           pc[r] \in {"copy", "signal"} => tgt[r] # tgt[s]

(* The mondo handle_hvmondo dispatches on is one mondo some strand sent,   *)
(* never words of two: RXMONDO is not torn by a sender that claims the     *)
(* mailbox while the receiver copies it.                                   *)
IntactMondo ==
  \A t \in Strands : pc[t] = "handle" =>
     \E m \in Mondos : \A w \in Word : rx[t][w] = m

(* The inductive invariant.  Owners of a mailbox: a sender between its     *)
(* casxa and its NEWMONDO store (BUSY); then, one after the other, that    *)
(* sender until it pokes, the pending interrupt, and the receiver up to    *)
(* its release (NEWMONDO).  At most one of them holds the box at a time.   *)
BusyOwner ==
  \A s \in Strands : pc[s] \in {"copy", "signal"} =>
     /\ command[tgt[s]] = "HXMB_BUSY"
     /\ \A r \in Strands \ {s} : pc[r] \in {"copy", "signal"} => tgt[r] # tgt[s]

PokeOwner ==
  \A s \in Strands : pc[s] = "poke" =>
     /\ command[tgt[s]] = "HXMB_NEWMONDO"
     /\ ~pending[tgt[s]]
     /\ pc[tgt[s]] \notin Receiving
     /\ \A r \in Strands \ {s} : pc[r] = "poke" => tgt[r] # tgt[s]

InterruptOwner ==
  \A t \in Strands : /\ pending[t] => /\ command[t] = "HXMB_NEWMONDO"
                                      /\ pc[t] \notin Receiving
                     /\ pc[t] \in Receiving => command[t] = "HXMB_NEWMONDO"

(* What the words hold while they are copied in and out.                   *)
CopiedIn(s) ==
  /\ pc[s] \in Sending => tx[s] \in Mondos
  /\ pc[s] = "copy" => \A w \in Word : w < wd[s] => mondobuf[tgt[s]][w] = tx[s]
  /\ pc[s] = "signal" => \A w \in Word : mondobuf[tgt[s]][w] = tx[s]

Complete(t) ==
  command[t] = "HXMB_NEWMONDO" => \E m \in Mondos : \A w \in Word : mondobuf[t][w] = m

CopiedOut(t) ==
  /\ pc[t] = "rcopy" => \A w \in Word : w < wd[t] => rx[t][w] = mondobuf[t][w]
  /\ pc[t] = "release" => \A w \in Word : rx[t][w] = mondobuf[t][w]

Contents == \A s \in Strands : CopiedIn(s) /\ Complete(s) /\ CopiedOut(s)

MailboxInv == /\ NoMboxAbort
              /\ BusyOwner
              /\ PokeOwner
              /\ InterruptOwner
              /\ Contents
              /\ IntactMondo

(* The word protocol implements the one-place mailbox: a mondo appears in  *)
(* the box, whole, when NEWMONDO is stored, and leaves it, once, when the  *)
(* receiver frees the box.                                                 *)
Box(t) == IF command[t] = "HXMB_NEWMONDO" THEN mondobuf[t][1] ELSE NoMondo
Mailbox == INSTANCE XcallMailbox WITH box <- [t \in Strands |-> Box(t)]
ImplementsMailbox == Mailbox!Spec

(* A mondo in a box or delivered was numbered by its sender before the one *)
(* the sender is working on: no mondo is put in a box twice.               *)
Fresh == /\ \A s \in Strands : pc[s] \in Sending => tx[s] = <<s, sent[s]>>
         /\ \A r \in Strands, k \in 1 .. MaxSends : Mailbox!Used(<<r, k>>) =>
              /\ k <= sent[r]
              /\ pc[r] \in {"cas", "copy", "signal"} => k < sent[r]

(* Every hvmondo_send ("NOTE: blocks for the moment") returns, when the    *)
(* strands that may be sent to do not themselves wait on each other, and a *)
(* mondo whose NEWMONDO has been stored is eventually handled.             *)
MondosFlow ==
  /\ \A s \in Strands : pc[s] \in Sending ~> pc[s] = "run"
  /\ \A t \in Strands : command[t] = "HXMB_NEWMONDO" ~> pc[t] = "handle"
=============================================================================
