----------------------------- MODULE LdcChannel -----------------------------
(***************************************************************************)
(* One direction of a guest to guest logical domain channel (ldc.s): the   *)
(* sender's transmit ring, the receiver's receive ring, the copy between   *)
(* them that the receiver's hypercall makes, the link status the sender    *)
(* reads and the interrupts with which each end wakes the other.           *)
(*                                                                         *)
(* "S" is a vcpu of the sending guest, "R" one of the receiving guest; a   *)
(* guest makes one LDC hypercall on a channel at a time.  There is no lock *)
(* in this code: every store another guest can see is a step of its own.   *)
(* Offsets count queue elements instead of bytes, so alignment errors do   *)
(* not occur; packets are numbered and 0 is what a new buffer holds.       *)
(***************************************************************************)
EXTENDS Integers, Sequences

CONSTANTS MaxPkts,       \* bound: packets the sender sends
          Sizes,         \* queue sizes the guests use
          MAX_PKT_COPY,  \* LDC_MAX_PKT_COPY, packets copied by one hypercall
          MaxConf,       \* bound: reconfigurations of a queue in use, and exits
          Coordinated    \* the sending side gives up or changes its queue only
                         \* while the receiver is not copying from it

ASSUME LdcAssumption ==
  /\ MaxPkts \in Nat /\ MaxConf \in Nat
  /\ MAX_PKT_COPY \in Nat \ {0}
  /\ Sizes # {} /\ Sizes \subseteq {2, 4, 8, 16}   \* a power of 2
  /\ Coordinated \in BOOLEAN

MaxSize == CHOOSE n \in Sizes : \A m \in Sizes : m <= n
Slots == 0 .. MaxSize - 1
Garbage == [i \in Slots |-> 0]
Ends == {"S", "R"}
Peer(e) == IF e = "S" THEN "R" ELSE "S"

VARIABLES
  tx,       \* the sender's transmit queue: head, tail, size and what is in it
  rx,       \* the receiver's receive queue, likewise
  updated,  \* rx_updated of the receiver's endpoint
  valid,    \* rx_mapreg.valid of the receiver's endpoint
  istate,   \* istate[e]: rx_mapreg.state of each endpoint
  mondo,    \* mondo[e]: an interrupt of this channel waits in e's device queue
  pc,       \* pc[e]: what the guest, or the hypervisor on its behalf, is doing
  handler,  \* handler[e]: e is in the interrupt handler and will acknowledge
  pull,     \* registers of guest_to_guest_pull_data: head, tail, count, budget
  conf,     \* conf[e]: the queue size that e is setting
  flag,     \* the sender's register: rx_updated as it was read
  next,     \* the next packet
  confs,    \* reconfigurations so far
  last, owed, late   \* history: the last packet received; what the sender has
                     \* not been told yet, and had not been when it last asked

queues == <<tx, rx>>
intr == <<valid, istate, mondo>>
hist == <<last, owed, late>>
vars == <<queues, updated, intr, pc, handler, pull, conf, flag, next, confs, hist>>

NoPull == [h |-> 0, t |-> 0, n |-> 0, left |-> 0]
Queue(n) == [head |-> 0, tail |-> 0, size |-> n, buf |-> Garbage]

(* res_ldc_commit_config                                                   *)
Init ==
  /\ tx = Queue(0) /\ rx = Queue(0)
  /\ updated = TRUE /\ valid = FALSE
  /\ istate = [e \in Ends |-> "IDLE"]
  /\ mondo = [e \in Ends |-> FALSE]
  /\ pc = [e \in Ends |-> "run"]
  /\ handler = [e \in Ends |-> FALSE]
  /\ pull = NoPull
  /\ conf = [e \in Ends |-> 0]
  /\ flag = FALSE
  /\ next = 1 /\ confs = 0
  /\ last = 0 /\ owed = "nothing" /\ late = "nothing"

Goto(e, l) == pc' = [pc EXCEPT ![e] = l]

(* The number of elements in queue q, and their contents from the head on. *)
Used(q) == IF q.size = 0 THEN 0 ELSE (q.tail - q.head) % q.size
Window(q, from, n) == [i \in 1 .. n |-> q.buf[(from + i - 1) % q.size]]

(* The end of a flush: where (re)configuring leaves the two pointers.      *)
NewTail(q, n) == IF q.tail > n - 1 THEN 0 ELSE q.tail

Pulling == pc["R"] \in {"pull", "copy", "rxtail", "txhead"}
TxConf == pc["S"] \in {"tq_tail", "tq_head", "tq_size", "exit_chk", "exit_cas", "tx_exit", "tx_down"}
MayFlush(q) == q.size # 0 => confs < MaxConf
Flushed(q) == confs' = IF q.size = 0 THEN confs ELSE confs + 1

-----------------------------------------------------------------------------
(* Interrupts: hv_ldc_cpu_notify of the other end, and the guest's calls.  *)

(* Where the hypercall of e continues once the other end is notified.      *)
Notified(e) == IF pc[e] \in {"exit_chk", "exit_cas"} THEN IF e = "S" THEN "tx_exit" ELSE "rx_reset"
               ELSE IF e = "S" THEN "run" ELSE "get"

(* The peer's interrupt is valid and IDLE, or nothing is sent.             *)
notify_chk(e) ==
  /\ pc[e] \in {"chk", "exit_chk"}
  /\ Goto(e, IF (Peer(e) = "R" => valid) /\ istate[Peer(e)] = "IDLE"
             THEN IF pc[e] = "chk" THEN "cas" ELSE "exit_cas"
             ELSE Notified(e))
  /\ UNCHANGED <<queues, updated, intr, handler, pull, conf, flag, next, confs, hist>>

(* IDLE becomes DELIVERED for one notifier only, which sends the mondo.    *)
Deliver(e) ==
  /\ mondo' = IF istate[e] = "IDLE" THEN [mondo EXCEPT ![e] = TRUE] ELSE mondo
  /\ istate' = [istate EXCEPT ![e] = "DELIVERED"]

notify_cas(e) ==
  /\ pc[e] \in {"cas", "exit_cas"}
  /\ Deliver(Peer(e))
  /\ Goto(e, Notified(e))
  /\ UNCHANGED <<queues, updated, valid, handler, pull, conf, flag, next, confs, hist>>

(* The guest takes the interrupt and asks for the state of its queue.      *)
take_mondo(e) ==
  /\ pc[e] = "run" /\ mondo[e]
  /\ mondo' = [mondo EXCEPT ![e] = FALSE]
  /\ handler' = [handler EXCEPT ![e] = TRUE]
  /\ Goto(e, IF e = "S" THEN "status" ELSE "get")
  /\ UNCHANGED <<queues, updated, valid, istate, pull, conf, flag, next, confs, hist>>

(* Mutant: the queues are not checked.                                     *)
setstate_nocheck(e) ==
  /\ pc[e] = "ack"
  /\ istate' = [istate EXCEPT ![e] = "IDLE"]
  /\ handler' = [handler EXCEPT ![e] = FALSE]
  /\ Goto(e, "run")
  /\ UNCHANGED <<queues, updated, valid, mondo, pull, conf, flag, next, confs, hist>>

(* ldc_vintr_setstate(INTR_IDLE) at the end of the handler.  The sender's  *)
(* own receive queue, the other direction, has nothing to check.           *)
ldc_vintr_setstate(e) ==
  /\ pc[e] = "ack"
  /\ istate' = [istate EXCEPT ![e] = "IDLE"]
  /\ handler' = [handler EXCEPT ![e] = FALSE]
  /\ Goto(e, IF e = "R" /\ valid THEN "pkts" ELSE "run")
  /\ UNCHANGED <<queues, updated, valid, mondo, pull, conf, flag, next, confs, hist>>

ldc_vintr_setvalid(v) ==
  /\ pc["R"] = "run"
  /\ v # valid
  /\ valid' = v
  /\ Goto("R", IF v THEN "valid" ELSE "run")
  /\ UNCHANGED <<queues, updated, istate, mondo, handler, pull, conf, flag, next, confs, hist>>

setvalid_idle ==
  /\ pc["R"] = "valid"
  /\ Goto("R", IF istate["R"] = "IDLE" THEN "pkts" ELSE "run")
  /\ UNCHANGED <<queues, updated, intr, handler, pull, conf, flag, next, confs, hist>>

(* Mutant: only the receive queue is looked at.                            *)
chk_pkts_rx ==
  /\ pc["R"] = "pkts"
  /\ Goto("R", IF rx.head # rx.tail THEN "pkts_cas" ELSE "run")
  /\ UNCHANGED <<queues, updated, intr, handler, pull, conf, flag, next, confs, hist>>

(* hv_ldc_chk_pkts looks at both queues, and interrupts its own guest.     *)
hv_ldc_chk_pkts ==
  /\ pc["R"] = "pkts"
  /\ Goto("R", IF rx.head # rx.tail \/ tx.head # tx.tail THEN "pkts_cas" ELSE "run")
  /\ UNCHANGED <<queues, updated, intr, handler, pull, conf, flag, next, confs, hist>>

chk_pkts_cas ==
  /\ pc["R"] = "pkts_cas"
  /\ Deliver("R")
  /\ Goto("R", "run")
  /\ UNCHANGED <<queues, updated, valid, handler, pull, conf, flag, next, confs, hist>>

-----------------------------------------------------------------------------
(* The sender.                                                             *)

(* Mutant: a wrapped tail may catch up with the head.                      *)
ValidTail_full(t) ==
  /\ t < tx.size
  /\ IF tx.tail >= tx.head THEN t > tx.tail \/ t <= tx.head
                           ELSE t > tx.tail /\ t <= tx.head

(* The checks of ldc_tx_set_qtail on the new tail t.                       *)
ValidTail(t) ==
  /\ t < tx.size
  /\ IF tx.tail >= tx.head THEN t > tx.tail \/ t < tx.head
                           ELSE t > tx.tail /\ t < tx.head

(* The guest has put packets into the elements up to the new tail.         *)
hcall_ldc_tx_set_qtail(t) ==
  LET k == (t - tx.tail) % tx.size
      at(i) == (i - tx.tail) % tx.size
  IN /\ pc["S"] = "run"
     /\ tx.size # 0
     /\ ValidTail(t)
     /\ next + k - 1 <= MaxPkts
     /\ tx' = [tx EXCEPT !.tail = t,
                         !.buf = [i \in Slots |-> IF i < tx.size /\ at(i) < k
                                                  THEN next + at(i) ELSE tx.buf[i]]]
     /\ next' = next + k
     /\ Goto("S", "peek")
     /\ UNCHANGED <<rx, updated, intr, handler, pull, conf, flag, confs, hist>>

(* The receiver is interrupted only if its queue exists and is empty.      *)
guest_to_guest_tx_set_tail ==
  /\ pc["S"] = "peek"
  /\ Goto("S", IF rx.size # 0 /\ rx.head = rx.tail THEN "chk" ELSE "run")
  /\ UNCHANGED <<queues, updated, intr, handler, pull, conf, flag, next, confs, hist>>

(* ldc_tx_qconf: base, tail (if it is out of range), head and, last, size; *)
(* only the size if it becomes 0.                                          *)
hcall_ldc_tx_qconf(n) ==
  /\ pc["S"] = "run"
  /\ MayFlush(tx)
  /\ Coordinated => ~Pulling
  /\ n # tx.size \/ (n # 0 /\ tx.head # tx.tail)
  /\ tx' = IF n = 0 THEN tx ELSE [tx EXCEPT !.buf = Garbage]
  /\ conf' = [conf EXCEPT !["S"] = n]
  /\ Goto("S", IF n = 0 THEN "tq_size" ELSE "tq_tail")
  /\ Flushed(tx)
  /\ UNCHANGED <<rx, updated, intr, handler, pull, flag, next, hist>>

tx_qconf_tail ==
  /\ pc["S"] = "tq_tail"
  /\ tx' = [tx EXCEPT !.tail = NewTail(tx, conf["S"])]
  /\ Goto("S", "tq_head")
  /\ UNCHANGED <<rx, updated, intr, handler, pull, conf, flag, next, confs, hist>>

tx_qconf_head ==
  /\ pc["S"] = "tq_head"
  /\ tx' = [tx EXCEPT !.head = tx.tail]
  /\ Goto("S", "tq_size")
  /\ UNCHANGED <<rx, updated, intr, handler, pull, conf, flag, next, confs, hist>>

tx_qconf_size ==
  /\ pc["S"] = "tq_size"
  /\ tx' = [tx EXCEPT !.size = conf["S"]]
  /\ conf' = [conf EXCEPT !["S"] = 0]
  /\ Goto("S", "run")
  /\ UNCHANGED <<rx, updated, intr, handler, pull, flag, next, confs, hist>>

(* Mutant: rx_updated is cleared even if it was not set when read.         *)
tx_get_state_clear ==
  /\ \/ /\ pc["S"] = "status" /\ tx.size = 0
        /\ Goto("S", "ack")
        /\ UNCHANGED <<flag, late>>
     \/ /\ pc["S"] \in {"status", "run"} /\ tx.size # 0
        /\ flag' = updated
        /\ late' = owed
        /\ Goto("S", "st_clear")
  /\ UNCHANGED <<queues, updated, intr, handler, pull, conf, next, confs, last, owed>>

(* EINVAL without a transmit queue; else the channel status,               *)
(* GET_GUEST_QUEUE_STATUS: read rx_updated, clear it if it was set, then   *)
(* read rx_qsize.                                                          *)
hcall_ldc_tx_get_state ==
  /\ \/ /\ pc["S"] = "status" /\ tx.size = 0
        /\ Goto("S", "ack")
        /\ UNCHANGED <<flag, late>>
     \/ /\ pc["S"] \in {"status", "run"} /\ tx.size # 0
        /\ flag' = updated
        /\ late' = owed
        /\ Goto("S", IF updated THEN "st_clear" ELSE "st_size")
  /\ UNCHANGED <<queues, updated, intr, handler, pull, conf, next, confs, last, owed>>

status_clear ==
  /\ pc["S"] = "st_clear"
  /\ updated' = FALSE
  /\ Goto("S", "st_size")
  /\ UNCHANGED <<queues, intr, handler, pull, conf, flag, next, confs, hist>>

Status == IF rx.size = 0 THEN "DOWN" ELSE IF flag THEN "RESET" ELSE "UP"

status_size ==
  /\ pc["S"] = "st_size"
  /\ owed' = IF Status = "UP" THEN owed ELSE "nothing"
  /\ flag' = FALSE /\ late' = "nothing"
  /\ Goto("S", IF handler["S"] THEN "ack" ELSE "run")
  /\ UNCHANGED <<queues, updated, intr, handler, pull, conf, next, confs, last>>

(* c_guest_exit of the sending guest: its transmit queue is gone.  If its  *)
(* own receive queue (the other direction) is not configured, that is all; *)
(* else the receiver is notified and the pointers are reset.               *)
tx_guest_exit ==
  /\ pc["S"] \in {"run", "status", "ack"}
  /\ tx.size # 0 /\ MayFlush(tx)
  /\ Coordinated => ~Pulling
  /\ tx' = [tx EXCEPT !.size = 0]
  /\ \E l \in {"exit_chk", "tx_down"} : Goto("S", l)
  /\ Flushed(tx)
  /\ UNCHANGED <<rx, updated, intr, handler, pull, conf, flag, next, hist>>

tx_reset ==
  /\ pc["S"] = "tx_exit"
  /\ tx' = [tx EXCEPT !.head = 0, !.tail = 0]
  /\ Goto("S", "tx_down")
  /\ UNCHANGED <<rx, updated, intr, handler, pull, conf, flag, next, confs, hist>>

(* The guest may boot again; its driver makes the interrupt IDLE.  What    *)
(* was in the vcpu's device queue is gone.                                 *)
tx_guest_boot ==
  /\ pc["S"] = "tx_down"
  /\ mondo' = [mondo EXCEPT !["S"] = FALSE]
  /\ Goto("S", "ack")
  /\ UNCHANGED <<queues, updated, valid, istate, handler, pull, conf, flag, next, confs, hist>>

-----------------------------------------------------------------------------
(* The receiver.                                                           *)

(* ldc_rx_get_state, from the handler or at any other time.                *)
hcall_ldc_rx_get_state ==
  /\ pc["R"] = "get" \/ (pc["R"] = "run" /\ rx.size # 0)
  /\ Coordinated => pc["S"] \notin {"tq_tail", "tq_head", "tq_size"}
  /\ pull' = IF rx.size = 0 \/ tx.size = 0 THEN NoPull ELSE [NoPull EXCEPT !.left = MAX_PKT_COPY]
  /\ Goto("R", IF rx.size = 0 THEN IF handler["R"] THEN "ack" ELSE "run"
               ELSE IF tx.size = 0 THEN "got" ELSE "pull")
  /\ UNCHANGED <<queues, updated, intr, handler, conf, flag, next, confs, hist>>

(* What can be copied without wrapping: from the transmit queue, into the  *)
(* receive queue (one element stays free) and in this hypercall.           *)
FromTx == IF tx.tail >= tx.head THEN tx.tail - tx.head ELSE tx.size - tx.head
IntoRx == IF rx.head > rx.tail THEN rx.head - rx.tail - 1
          ELSE rx.size - rx.tail - (IF rx.head = 0 THEN 1 ELSE 0)
ToCopy == LET n == IF FromTx >= IntoRx THEN IntoRx ELSE FromTx
          IN IF pull.left - n > 0 THEN n ELSE pull.left

guest_to_guest_pull_data ==
  /\ pc["R"] = "pull"
  /\ IF pull.left <= 0 \/ FromTx = 0 \/ IntoRx = 0
     THEN Goto("R", "got") /\ pull' = NoPull
     ELSE /\ pull' = [h |-> tx.head, t |-> rx.tail, n |-> ToCopy, left |-> pull.left - ToCopy]
          /\ Goto("R", "copy")
  /\ UNCHANGED <<queues, updated, intr, handler, conf, flag, next, confs, hist>>

(* The copy loop; a count that is not positive still copies one word.      *)
pull_copy ==
  /\ pc["R"] = "copy"
  /\ rx' = [rx EXCEPT !.buf = [i \in Slots |->
              IF pull.n <= 0 /\ i = pull.t THEN 0
              ELSE IF pull.t <= i /\ i < pull.t + pull.n
              THEN tx.buf[pull.h + i - pull.t] ELSE rx.buf[i]]]
  /\ Goto("R", "rxtail")
  /\ UNCHANGED <<tx, updated, intr, handler, pull, conf, flag, next, confs, hist>>

(* offset & (size - 1); a size of 0 masks nothing.                         *)
Mask(offset, size) == IF size = 0 THEN offset ELSE offset % size

(* Mutant: the tail does not wrap.                                         *)
pull_rx_tail_nowrap ==
  /\ pc["R"] = "rxtail"
  /\ rx' = [rx EXCEPT !.tail = pull.t + pull.n]
  /\ Goto("R", "txhead")
  /\ UNCHANGED <<tx, updated, intr, handler, pull, conf, flag, next, confs, hist>>

pull_rx_tail ==
  /\ pc["R"] = "rxtail"
  /\ rx' = [rx EXCEPT !.tail = Mask(pull.t + pull.n, rx.size)]
  /\ Goto("R", "txhead")
  /\ UNCHANGED <<tx, updated, intr, handler, pull, conf, flag, next, confs, hist>>

pull_tx_head ==
  /\ pc["R"] = "txhead"
  /\ tx' = [tx EXCEPT !.head = Mask(pull.h + pull.n, tx.size)]
  /\ Goto("R", "pull")
  /\ UNCHANGED <<rx, updated, intr, handler, pull, conf, flag, next, confs, hist>>

(* The guest sees head and tail: packets to read, or done.                 *)
rx_state_returned ==
  /\ pc["R"] = "got"
  /\ Goto("R", IF rx.head # rx.tail THEN "consume" ELSE IF handler["R"] THEN "ack" ELSE "run")
  /\ UNCHANGED <<queues, updated, intr, handler, pull, conf, flag, next, confs, hist>>

(* The checks of ldc_rx_set_qhead on the new head h.                       *)
ValidHead(h) ==
  /\ h < rx.size
  /\ IF rx.head >= rx.tail THEN h > rx.head \/ h <= rx.tail
                           ELSE h > rx.head /\ h <= rx.tail

(* The guest has read the packets up to the new head.  It asks again until *)
(* the queue is empty; in the handler it may acknowledge first.            *)
hcall_ldc_rx_set_qhead(h) ==
  /\ pc["R"] = "consume"
  /\ ValidHead(h)
  /\ rx' = [rx EXCEPT !.head = h]
  /\ last' = rx.buf[(h - 1) % rx.size]
  /\ \E l \in {"get", "ack"} : (l = "ack" => handler["R"]) /\ Goto("R", l)
  /\ UNCHANGED <<tx, updated, intr, handler, pull, conf, flag, next, confs, owed, late>>

(* ldc_rx_qconf: base and pointers, then rx_updated if the queue was in    *)
(* use, then the size; or only the size and rx_updated.  Either way the    *)
(* sender is notified.                                                     *)
hcall_ldc_rx_qconf(n) ==
  /\ pc["R"] = "run"
  /\ MayFlush(rx)
  /\ n # rx.size \/ (n # 0 /\ rx.head # rx.tail)
  /\ rx' = IF n = 0 THEN [rx EXCEPT !.size = 0]
           ELSE [rx EXCEPT !.buf = Garbage, !.tail = NewTail(rx, n), !.head = NewTail(rx, n)]
  /\ conf' = [conf EXCEPT !["R"] = n]
  /\ Goto("R", IF n = 0 \/ rx.size # 0 THEN "rq_upd" ELSE "rq_size")
  /\ Flushed(rx)
  /\ UNCHANGED <<tx, updated, intr, handler, pull, flag, next, hist>>

rx_qconf_updated ==
  /\ pc["R"] = "rq_upd"
  /\ updated' = TRUE
  /\ owed' = "reset"
  /\ Goto("R", IF conf["R"] = 0 THEN "chk" ELSE "rq_size")
  /\ UNCHANGED <<queues, intr, handler, pull, conf, flag, next, confs, last, late>>

rx_qconf_size ==
  /\ pc["R"] = "rq_size"
  /\ rx' = [rx EXCEPT !.size = conf["R"]]
  /\ conf' = [conf EXCEPT !["R"] = 0]
  /\ Goto("R", "chk")
  /\ UNCHANGED <<tx, updated, intr, handler, pull, flag, next, confs, hist>>

(* c_guest_exit of the receiving guest: the queue is gone, the sender is   *)
(* notified, the pointers are reset; the guest boots again and its driver  *)
(* makes the interrupt IDLE.  The vcpu's device queue is gone too.         *)
rx_guest_exit ==
  /\ pc["R"] \in {"run", "get", "consume", "ack"}
  /\ rx.size # 0 /\ MayFlush(rx)
  /\ rx' = [rx EXCEPT !.size = 0]
  /\ owed' = IF owed = "nothing" THEN "exit" ELSE owed
  /\ mondo' = [mondo EXCEPT !["R"] = FALSE]
  /\ Goto("R", "exit_chk")
  /\ Flushed(rx)
  /\ UNCHANGED <<tx, updated, valid, istate, handler, pull, conf, flag, next, last, late>>

rx_reset ==
  /\ pc["R"] = "rx_reset"
  /\ rx' = [rx EXCEPT !.head = 0, !.tail = 0]
  /\ mondo' = [mondo EXCEPT !["R"] = FALSE]
  /\ Goto("R", "ack")
  /\ UNCHANGED <<tx, updated, valid, istate, handler, pull, conf, flag, next, confs, hist>>

-----------------------------------------------------------------------------
S_Steps == \/ guest_to_guest_tx_set_tail \/ tx_qconf_tail \/ tx_qconf_head \/ tx_qconf_size
           \/ status_clear \/ status_size \/ tx_reset
           \/ (pc["S"] = "status" /\ hcall_ldc_tx_get_state)
           \/ notify_chk("S") \/ notify_cas("S") \/ ldc_vintr_setstate("S")

R_Steps == \/ setvalid_idle \/ hv_ldc_chk_pkts \/ chk_pkts_cas
           \/ guest_to_guest_pull_data \/ pull_copy \/ pull_rx_tail \/ pull_tx_head
           \/ rx_state_returned \/ rx_qconf_updated \/ rx_qconf_size \/ rx_reset
           \/ \E h \in Slots : hcall_ldc_rx_set_qhead(h)
           \/ (pc["R"] = "get" /\ hcall_ldc_rx_get_state)
           \/ notify_chk("R") \/ notify_cas("R") \/ ldc_vintr_setstate("R")

Next == \/ S_Steps \/ R_Steps
        \/ \E t \in Slots : hcall_ldc_tx_set_qtail(t)
        \/ \E n \in Sizes \cup {0} : hcall_ldc_tx_qconf(n) \/ hcall_ldc_rx_qconf(n)
        \/ hcall_ldc_tx_get_state \/ tx_guest_exit \/ tx_guest_boot
        \/ hcall_ldc_rx_get_state \/ rx_guest_exit
        \/ \E v \in BOOLEAN : ldc_vintr_setvalid(v)
        \/ \E e \in Ends : take_mondo(e)

Spec == Init /\ [][Next]_vars

(* The hypervisor runs a hypercall it has begun to its end, a guest takes  *)
(* its interrupts and runs its handler, and the receiving guest goes on    *)
(* configuring its queue and enabling its interrupt.  Nothing obliges the  *)
(* sender to send or to boot again, nor either guest to reconfigure or     *)
(* exit.                                                                   *)
FairSpec == /\ Spec
            /\ WF_vars(S_Steps) /\ WF_vars(R_Steps)
            /\ \A e \in Ends : SF_vars(take_mondo(e))
            /\ SF_vars(ldc_vintr_setvalid(TRUE))
            /\ SF_vars(rx.size = 0 /\ \E n \in Sizes : hcall_ldc_rx_qconf(n))

-----------------------------------------------------------------------------
(* The points between two loads or stores of the queues at which a guest's *)
(* strand may be: of the sender, and of the receiver.                      *)
S_PC == {"run", "peek", "chk", "cas", "tq_tail", "tq_head", "tq_size", "status", "st_clear", "st_size",
         "ack", "exit_chk", "exit_cas", "tx_exit", "tx_down"}
R_PC == {"run", "get", "pull", "copy", "rxtail", "txhead", "got", "consume", "ack", "pkts", "pkts_cas", "valid",
         "rq_upd", "rq_size", "chk", "cas", "exit_chk", "exit_cas", "rx_reset"}

(* Types; the indices of a configured queue are inside it.                *)
TypeOK ==
  /\ \A q \in {tx, rx} : /\ q.head \in Slots /\ q.tail \in Slots
                         /\ q.size \in Sizes \cup {0}
                         /\ q.size # 0 /\ ~TxConf => q.head < q.size /\ q.tail < q.size
                         /\ q.buf \in [Slots -> 0 .. MaxPkts]
  /\ updated \in BOOLEAN /\ valid \in BOOLEAN /\ flag \in BOOLEAN
  /\ istate \in [Ends -> {"IDLE", "DELIVERED"}]
  /\ mondo \in [Ends -> BOOLEAN] /\ handler \in [Ends -> BOOLEAN]
  /\ pc \in [Ends -> S_PC \cup R_PC] /\ pc["S"] \in S_PC /\ pc["R"] \in R_PC
  /\ conf \in [Ends -> Sizes \cup {0}]
  /\ next \in 1 .. MaxPkts + 1 /\ last \in 0 .. MaxPkts /\ confs \in 0 .. MaxConf
  /\ owed \in {"nothing", "reset", "exit"} /\ late \in {"nothing", "reset", "exit"}
  /\ pull.n <= MAX_PKT_COPY /\ pull.left \in 0 .. MAX_PKT_COPY

(* The packets on their way: those in the receive queue, then those in the *)
(* transmit queue that have not been copied yet.                           *)
TxFrom == IF pc["R"] = "txhead" THEN pull.h + pull.n ELSE tx.head
InTx == IF tx.size = 0 \/ TxConf THEN <<>>
        ELSE Window(tx, TxFrom, (tx.tail - TxFrom) % tx.size)
InRx == IF rx.size = 0 \/ pc["R"] \in {"rq_upd", "rq_size"} THEN <<>>
        ELSE Window(rx, rx.head, Used(rx))

(* Refinement: packets arrive once and in order; only a guest that         *)
(* reconfigures or gives up its queue loses any (ldc_tx_set_qtail,         *)
(* guest_to_guest_pull_data, ldc_rx_set_qhead).                            *)
Fifo == INSTANCE LdcFifo WITH chan <- InRx \o InTx,
                              txconf <- TxConf,
                              rxconf <- pc["R"] \in {"rq_upd", "rq_size", "chk", "exit_chk"}
FifoSpec == Fifo!Spec

(* Between hypercalls a transmit queue holds only packets that the sender  *)
(* has put into it: "we mark the queue empty" when it is (re)configured,   *)
(* and the end of a pull under way does not move the head past the tail    *)
(* (hcall_ldc_tx_qconf against guest_to_guest_pull_data).                  *)
FlushEmpties ==
  pc["S"] = "run" /\ ~Pulling => \A i \in DOMAIN InTx : InTx[i] # 0

(* Packets that wait are packets the receiving guest knows of: when it is  *)
(* idle with its interrupt enabled and none pending, and no send is under  *)
(* way, nothing is waiting (guest_to_guest_tx_set_tail against             *)
(* ldc_vintr_setstate, ldc_vintr_setvalid and hv_ldc_chk_pkts).            *)
NoLostWakeup ==
  /\ pc = [e \in Ends |-> "run"]
  /\ valid /\ ~mondo["R"] /\ rx.size # 0
  => InRx \o InTx = <<>>

(* A sender that asks for the channel status after the receiver has        *)
(* reconfigured its queue is not told that the link has been UP all along  *)
(* (rx_updated in GET_GUEST_QUEUE_STATUS against ldc_rx_qconf).            *)
ResetSeen == pc["S"] = "st_size" /\ late = "reset" => Status # "UP"

(* The same for a receiver whose guest has exited (c_guest_exit).          *)
ExitSeen == pc["S"] = "st_size" /\ late = "exit" => Status # "UP"

(* The receiver is woken for every packet: once the sender pauses (it sends *)
(* MaxPkts packets in all) the channel drains, whatever the interleaving of *)
(* its last send with the receiver's last acknowledgement.                  *)
Delivered == []<>(InRx \o InTx = <<>>)
=============================================================================
