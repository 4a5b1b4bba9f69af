----------------------------- MODULE LdcProofs -----------------------------
(***************************************************************************)
(* Proofs about LdcChannel for any number of packets and reconfigurations, *)
(* any queue sizes and any number of packets copied by one hypercall; last *)
(* that it implements LdcFifo, when the sender changes its queue only      *)
(* while it is not copied from (Coordinated).                              *)
(***************************************************************************)
EXTENDS LdcChannel, SequenceTheorems, TLAPS

TxConfPc == {"tq_tail", "tq_head", "tq_size", "exit_chk", "exit_cas", "tx_exit", "tx_down"}
Queues == [head : Slots, tail : Slots, size : Sizes \cup {0}, buf : [Slots -> 0 .. MaxPkts]]
Owed == {"nothing", "reset", "exit"}

PcTypes ==
  /\ pc \in [Ends -> S_PC \cup R_PC] /\ pc["S"] \in S_PC /\ pc["R"] \in R_PC
  /\ handler \in [Ends -> BOOLEAN]
IntrTypes ==
  /\ valid \in BOOLEAN
  /\ istate \in [Ends -> {"IDLE", "DELIVERED"}] /\ mondo \in [Ends -> BOOLEAN]
StatusTypes ==
  /\ updated \in BOOLEAN /\ flag \in BOOLEAN
  /\ owed \in Owed /\ late \in Owed
CountTypes ==
  /\ next \in 1 .. MaxPkts + 1 /\ last \in 0 .. MaxPkts /\ confs \in 0 .. MaxConf
  /\ conf \in [Ends -> Sizes \cup {0}]

(* Where the pointers of the transmit queue are, through the steps that    *)
(* change its size.  TxDown: the sending guest has exited.                 *)
TxDown == pc["S"] \in {"exit_chk", "exit_cas", "tx_exit", "tx_down"}
TxShape ==
  /\ tx \in Queues
  /\ tx.size # 0 /\ ~TxConf => tx.head < tx.size /\ tx.tail < tx.size
  /\ pc["S"] \in {"tq_tail", "tq_head"} => conf["S"] # 0
  /\ pc["S"] = "tq_head" => tx.tail < conf["S"]
  /\ pc["S"] = "tq_size" /\ conf["S"] # 0 => tx.head < conf["S"] /\ tx.tail = tx.head
  /\ TxDown => tx.size = 0
RxShape ==
  /\ rx \in Queues
  /\ rx.size # 0 => rx.head < rx.size /\ rx.tail < rx.size
  /\ pc["R"] \in {"rq_upd", "rq_size"} =>
       IF conf["R"] = 0 THEN rx.size = 0 /\ pc["R"] = "rq_upd" ELSE rx.head < conf["R"] /\ rx.tail = rx.head

(* A copy under way: the receiver's registers against the two queues. The  *)
(* transmit queue can only have become longer since they were read, and    *)
(* the elements still fit into the receive queue.                          *)
PullInv ==
  /\ pull \in [h : Nat, t : Nat, n : Nat, left : 0 .. MAX_PKT_COPY]
  /\ pull.n <= MAX_PKT_COPY
  /\ Pulling => tx.size # 0 /\ rx.size # 0 /\ ~TxConf
  /\ pc["R"] \in {"copy", "rxtail", "txhead"} =>
       /\ pull.h = tx.head /\ pull.n > 0 /\ pull.h + pull.n <= tx.size
       /\ pull.n <= (IF tx.tail >= tx.head THEN tx.tail - tx.head ELSE tx.size - tx.head)
  /\ pc["R"] \in {"copy", "rxtail"} =>
       /\ pull.t = rx.tail /\ pull.n <= IntoRx
       /\ pull.t + pull.n <= rx.size
  /\ pc["R"] = "txhead" => rx.head # rx.tail
  /\ pc["R"] = "pull" /\ pull.left < MAX_PKT_COPY => rx.head # rx.tail

TypeInv == PcTypes /\ IntrTypes /\ StatusTypes /\ CountTypes /\ TxShape /\ RxShape /\ PullInv

(* What the sender has been told of the receiver's queue.                  *)
ResetInv ==
  /\ pc["S"] = "st_clear" => flag
  /\ owed = "reset" => updated \/ (pc["S"] = "st_size" /\ flag)
  /\ pc["S"] = "st_size" /\ late = "reset" => flag

(* The interrupt of the receiver: DELIVERED until its handler, or the exit *)
(* of its guest, has made it IDLE again.                                   *)
IntrInv ==
  /\ handler["R"] => pc["R"] \in {"get", "pull", "copy", "rxtail", "txhead", "got", "consume", "ack",
                                  "exit_chk", "exit_cas", "rx_reset"}
  /\ istate["R"] = "DELIVERED" =>
       mondo["R"] \/ handler["R"] \/ pc["R"] \in {"exit_chk", "exit_cas", "rx_reset", "ack"}

(* A receiver that is not going to look at its queues by itself has        *)
(* nothing in its own, and what is in the transmit queue its sender is     *)
(* about to announce.                                                      *)
TxEmpty == tx.size = 0 \/ TxConf \/ tx.head = tx.tail
Returning == pc["R"] = "run" \/ (pc["R"] = "got" /\ rx.head = rx.tail /\ ~handler["R"])
WakeInv ==
  valid /\ rx.size # 0 /\ ~mondo["R"] /\ Returning =>
    /\ rx.head = rx.tail
    /\ TxEmpty \/ pc["S"] \in {"peek", "chk", "cas"}

-----------------------------------------------------------------------------
(* The actions of the next-state relation, one by one.                     *)
LEMMA Cases ==
  ASSUME Next
  PROVE  \/ \E e \in Ends : notify_chk(e) \/ notify_cas(e) \/ take_mondo(e) \/ ldc_vintr_setstate(e)
         \/ (\E v \in BOOLEAN : ldc_vintr_setvalid(v)) \/ setvalid_idle \/ hv_ldc_chk_pkts \/ chk_pkts_cas
         \/ (\E t \in Slots : hcall_ldc_tx_set_qtail(t)) \/ guest_to_guest_tx_set_tail
         \/ (\E n \in Sizes \cup {0} : hcall_ldc_tx_qconf(n)) \/ tx_qconf_tail \/ tx_qconf_head \/ tx_qconf_size
         \/ hcall_ldc_tx_get_state \/ status_clear \/ status_size \/ tx_guest_exit \/ tx_reset \/ tx_guest_boot
         \/ hcall_ldc_rx_get_state \/ guest_to_guest_pull_data \/ pull_copy \/ pull_rx_tail \/ pull_tx_head
         \/ rx_state_returned \/ (\E h \in Slots : hcall_ldc_rx_set_qhead(h))
         \/ (\E n \in Sizes \cup {0} : hcall_ldc_rx_qconf(n)) \/ rx_qconf_updated \/ rx_qconf_size
         \/ rx_guest_exit \/ rx_reset
<1>1. "S" \in Ends /\ "R" \in Ends
  BY DEF Ends
<1> QED BY <1>1 DEF Next, S_Steps, R_Steps

LEMMA SizeFacts ==
  /\ MaxSize \in Sizes /\ \A n \in Sizes : n \in {2, 4, 8, 16} /\ n <= MaxSize
  /\ Slots = 0 .. MaxSize - 1 /\ 0 \in Slots /\ Slots \subseteq Nat
  /\ \A n \in Sizes : 0 .. n - 1 \subseteq Slots
  /\ MaxPkts \in Nat /\ MaxConf \in Nat /\ MAX_PKT_COPY \in Nat \ {0}
<1>1. \E n \in Sizes : \A m \in Sizes : m <= n
  <2>1. CASE 16 \in Sizes
    BY <2>1, LdcAssumption
  <2>2. CASE 16 \notin Sizes /\ 8 \in Sizes
    BY <2>2, LdcAssumption
  <2>3. CASE 16 \notin Sizes /\ 8 \notin Sizes /\ 4 \in Sizes
    BY <2>3, LdcAssumption
  <2>4. CASE 16 \notin Sizes /\ 8 \notin Sizes /\ 4 \notin Sizes
    <3>1. PICK n \in Sizes : TRUE
      BY LdcAssumption
    <3>2. \A m \in Sizes : m = 2
      BY <2>4, LdcAssumption
    <3> QED BY <3>1, <3>2
  <2> QED BY <2>1, <2>2, <2>3, <2>4
<1>2. MaxSize \in Sizes /\ \A m \in Sizes : m <= MaxSize
  BY <1>1 DEF MaxSize
<1>3. \A n \in Sizes : n \in {2, 4, 8, 16}
  BY LdcAssumption
<1> QED BY <1>2, <1>3, LdcAssumption DEF Slots

LEMMA ModRange ==
  ASSUME NEW n \in {2, 4, 8, 16}, NEW a \in Int
  PROVE  a % n \in 0 .. n - 1
  OBVIOUS

LEMMA NextPc == PcTypes /\ Next => PcTypes'
<1> SUFFICES ASSUME PcTypes, Next PROVE PcTypes'
  OBVIOUS
<1>a. ASSUME NEW l \in S_PC, Goto("S", l), handler' \in [Ends -> BOOLEAN] PROVE PcTypes'
  BY <1>a DEF PcTypes, Goto, Ends
<1>b. ASSUME NEW l \in R_PC, Goto("R", l), handler' \in [Ends -> BOOLEAN] PROVE PcTypes'
  BY <1>b DEF PcTypes, Goto, Ends
<1>c. handler \in [Ends -> BOOLEAN] /\ pc["S"] \in S_PC /\ pc["R"] \in R_PC
  BY DEF PcTypes
<1>1. ASSUME NEW e \in Ends, notify_chk(e) \/ notify_cas(e) \/ take_mondo(e) \/ ldc_vintr_setstate(e) PROVE PcTypes'
  <2>1. handler' \in [Ends -> BOOLEAN]
    BY <1>1, <1>c DEF notify_chk, notify_cas, take_mondo, ldc_vintr_setstate
  <2>2. CASE e = "S"
    <3>1. \E l \in {"run", "cas", "exit_cas", "tx_exit", "status"} : Goto("S", l)
      <4>1. Notified("S") \in {"run", "tx_exit"}
        BY DEF Notified
      <4>2. CASE notify_chk("S")
        BY <4>1, <4>2 DEF notify_chk
      <4>3. CASE notify_cas("S") \/ take_mondo("S") \/ ldc_vintr_setstate("S")
        BY <4>1, <4>3 DEF notify_cas, take_mondo, ldc_vintr_setstate
      <4> QED BY <1>1, <2>2, <4>2, <4>3
    <3>2. PICK l \in {"run", "cas", "exit_cas", "tx_exit", "status"} : Goto("S", l)
      BY <3>1
    <3>3. l \in S_PC
      BY DEF S_PC
    <3> QED BY <2>1, <3>2, <3>3, <1>a
  <2>3. CASE e = "R"
    <3>1. PICK l \in {"run", "rx_reset", "get", "cas", "exit_cas", "pkts"} : Goto("R", l)
      BY <1>1, <2>3 DEF notify_chk, notify_cas, take_mondo, ldc_vintr_setstate, Notified
    <3>2. l \in R_PC
      BY DEF R_PC
    <3> QED BY <2>1, <3>1, <3>2, <1>b
  <2> QED BY <2>2, <2>3 DEF Ends
<1>2. CASE (\E v \in BOOLEAN : ldc_vintr_setvalid(v)) \/ setvalid_idle \/ hv_ldc_chk_pkts \/ chk_pkts_cas
  BY <1>2, <1>b, <1>c DEF ldc_vintr_setvalid, setvalid_idle, hv_ldc_chk_pkts, chk_pkts_cas, R_PC
<1>3. CASE (\E t \in Slots : hcall_ldc_tx_set_qtail(t)) \/ guest_to_guest_tx_set_tail
           \/ (\E n \in Sizes \cup {0} : hcall_ldc_tx_qconf(n)) \/ tx_qconf_tail
  BY <1>3, <1>a, <1>c DEF hcall_ldc_tx_set_qtail, guest_to_guest_tx_set_tail, hcall_ldc_tx_qconf, tx_qconf_tail, S_PC
<1>4. CASE tx_qconf_head \/ tx_qconf_size \/ hcall_ldc_tx_get_state \/ status_clear \/ status_size \/ tx_guest_exit
           \/ tx_reset \/ tx_guest_boot
  BY <1>4, <1>a, <1>c DEF tx_qconf_head, tx_qconf_size, hcall_ldc_tx_get_state, status_clear, status_size,
                          tx_guest_exit, tx_reset, tx_guest_boot, S_PC
<1>5. CASE hcall_ldc_rx_get_state \/ guest_to_guest_pull_data \/ pull_copy \/ pull_rx_tail \/ pull_tx_head
  BY <1>5, <1>b, <1>c DEF hcall_ldc_rx_get_state, guest_to_guest_pull_data, pull_copy, pull_rx_tail, pull_tx_head, R_PC
<1>6. CASE rx_state_returned \/ (\E h \in Slots : hcall_ldc_rx_set_qhead(h))
           \/ (\E n \in Sizes \cup {0} : hcall_ldc_rx_qconf(n))
  BY <1>6, <1>b, <1>c DEF rx_state_returned, hcall_ldc_rx_set_qhead, hcall_ldc_rx_qconf, R_PC
<1>7. CASE rx_qconf_updated \/ rx_qconf_size \/ rx_guest_exit \/ rx_reset
  BY <1>7, <1>b, <1>c DEF rx_qconf_updated, rx_qconf_size, rx_guest_exit, rx_reset, R_PC
<1> QED BY <1>1, <1>2, <1>3, <1>4, <1>5, <1>6, <1>7, Cases

LEMMA NextIntr == IntrTypes /\ Next => IntrTypes'
<1> SUFFICES ASSUME IntrTypes, Next PROVE IntrTypes'
  OBVIOUS
<1> USE DEF IntrTypes
<1>0. ASSUME UNCHANGED intr PROVE IntrTypes'
  BY <1>0 DEF intr
<1>d. ASSUME NEW e \in Ends, Deliver(e), UNCHANGED valid PROVE IntrTypes'
  BY <1>d DEF Deliver
<1>p. \A e \in Ends : Peer(e) \in Ends
  BY DEF Ends, Peer
<1>1. ASSUME NEW e \in Ends, notify_chk(e) \/ notify_cas(e) \/ take_mondo(e) \/ ldc_vintr_setstate(e) PROVE IntrTypes'
  <2>1. CASE notify_chk(e)
    BY <2>1, <1>0 DEF notify_chk
  <2>2. CASE notify_cas(e)
    BY <2>2, <1>d, <1>p DEF notify_cas
  <2>3. CASE take_mondo(e)
    BY <2>3 DEF take_mondo
  <2>4. CASE ldc_vintr_setstate(e)
    BY <2>4 DEF ldc_vintr_setstate
  <2> QED BY <1>1, <2>1, <2>2, <2>3, <2>4
<1>2. CASE (\E v \in BOOLEAN : ldc_vintr_setvalid(v)) \/ setvalid_idle \/ hv_ldc_chk_pkts
  BY <1>2, <1>0 DEF ldc_vintr_setvalid, setvalid_idle, hv_ldc_chk_pkts
<1>3. CASE chk_pkts_cas
  BY <1>3, <1>d DEF chk_pkts_cas, Ends
<1>4. CASE (\E t \in Slots : hcall_ldc_tx_set_qtail(t)) \/ guest_to_guest_tx_set_tail
           \/ (\E n \in Sizes \cup {0} : hcall_ldc_tx_qconf(n)) \/ tx_qconf_tail
  BY <1>4, <1>0 DEF hcall_ldc_tx_set_qtail, guest_to_guest_tx_set_tail, hcall_ldc_tx_qconf, tx_qconf_tail
<1>5. CASE tx_qconf_head \/ tx_qconf_size \/ hcall_ldc_tx_get_state \/ status_clear \/ status_size \/ tx_guest_exit
           \/ tx_reset \/ tx_guest_boot
  BY <1>5, <1>0 DEF tx_qconf_head, tx_qconf_size, hcall_ldc_tx_get_state, status_clear, status_size,
                          tx_guest_exit, tx_reset, tx_guest_boot
<1>6. CASE hcall_ldc_rx_get_state \/ guest_to_guest_pull_data \/ pull_copy \/ pull_rx_tail \/ pull_tx_head
  BY <1>6, <1>0 DEF hcall_ldc_rx_get_state, guest_to_guest_pull_data, pull_copy, pull_rx_tail, pull_tx_head
<1>7. CASE rx_state_returned \/ (\E h \in Slots : hcall_ldc_rx_set_qhead(h))
           \/ (\E n \in Sizes \cup {0} : hcall_ldc_rx_qconf(n)) \/ rx_qconf_updated \/ rx_qconf_size
  BY <1>7, <1>0 DEF rx_state_returned, hcall_ldc_rx_set_qhead, hcall_ldc_rx_qconf, rx_qconf_updated, rx_qconf_size
<1>8. CASE rx_guest_exit \/ rx_reset
  BY <1>8 DEF rx_guest_exit, rx_reset
<1> QED BY <1>1, <1>2, <1>3, <1>4, <1>5, <1>6, <1>7, <1>8, Cases

LEMMA NextStatus == StatusTypes /\ Next => StatusTypes'
<1> SUFFICES ASSUME StatusTypes, Next PROVE StatusTypes'
  OBVIOUS
<1> USE DEF StatusTypes, Owed
<1>0. ASSUME UNCHANGED <<updated, flag, owed, late>> PROVE StatusTypes'
  BY <1>0
<1>1. ASSUME NEW e \in Ends, notify_chk(e) \/ notify_cas(e) \/ take_mondo(e) \/ ldc_vintr_setstate(e) PROVE StatusTypes'
  BY <1>1, <1>0 DEF notify_chk, notify_cas, take_mondo, ldc_vintr_setstate, hist
<1>2. CASE (\E v \in BOOLEAN : ldc_vintr_setvalid(v)) \/ setvalid_idle \/ hv_ldc_chk_pkts \/ chk_pkts_cas
  BY <1>2, <1>0 DEF ldc_vintr_setvalid, setvalid_idle, hv_ldc_chk_pkts, chk_pkts_cas, hist
<1>3. CASE (\E t \in Slots : hcall_ldc_tx_set_qtail(t)) \/ guest_to_guest_tx_set_tail
           \/ (\E n \in Sizes \cup {0} : hcall_ldc_tx_qconf(n)) \/ tx_qconf_tail
  BY <1>3, <1>0 DEF hcall_ldc_tx_set_qtail, guest_to_guest_tx_set_tail, hcall_ldc_tx_qconf, tx_qconf_tail, hist
<1>4. CASE tx_qconf_head \/ tx_qconf_size \/ tx_guest_exit \/ tx_reset \/ tx_guest_boot
  BY <1>4, <1>0 DEF tx_qconf_head, tx_qconf_size, tx_guest_exit, tx_reset, tx_guest_boot, hist
<1>5. CASE hcall_ldc_tx_get_state \/ status_clear \/ status_size
  BY <1>5 DEF hcall_ldc_tx_get_state, status_clear, status_size, hist
<1>6. CASE hcall_ldc_rx_get_state \/ guest_to_guest_pull_data \/ pull_copy \/ pull_rx_tail \/ pull_tx_head
  BY <1>6, <1>0 DEF hcall_ldc_rx_get_state, guest_to_guest_pull_data, pull_copy, pull_rx_tail, pull_tx_head, hist
<1>7. CASE rx_state_returned \/ (\E h \in Slots : hcall_ldc_rx_set_qhead(h))
           \/ (\E n \in Sizes \cup {0} : hcall_ldc_rx_qconf(n)) \/ rx_qconf_size \/ rx_reset
  BY <1>7, <1>0 DEF rx_state_returned, hcall_ldc_rx_set_qhead, hcall_ldc_rx_qconf, rx_qconf_size, rx_reset, hist
<1>8. CASE rx_qconf_updated \/ rx_guest_exit
  BY <1>8 DEF rx_qconf_updated, rx_guest_exit
<1> QED BY <1>1, <1>2, <1>3, <1>4, <1>5, <1>6, <1>7, <1>8, Cases

LEMMA NextCount == TxShape /\ RxShape /\ CountTypes /\ Next => CountTypes'
<1> SUFFICES ASSUME TxShape, RxShape, CountTypes, Next PROVE CountTypes'
  OBVIOUS
<1>0. ASSUME UNCHANGED <<next, last, confs, conf>> PROVE CountTypes'
  BY <1>0 DEF CountTypes
<1>t. /\ next \in 1 .. MaxPkts + 1 /\ last \in 0 .. MaxPkts /\ confs \in 0 .. MaxConf
      /\ conf \in [Ends -> Sizes \cup {0}] /\ MaxPkts \in Nat /\ MaxConf \in Nat
  BY SizeFacts DEF CountTypes
<1>f. ASSUME NEW q, MayFlush(q), Flushed(q) PROVE confs' \in 0 .. MaxConf
  BY <1>f, <1>t DEF MayFlush, Flushed
<1>1. ASSUME NEW e \in Ends, notify_chk(e) \/ notify_cas(e) \/ take_mondo(e) \/ ldc_vintr_setstate(e) PROVE CountTypes'
  BY <1>1, <1>0 DEF notify_chk, notify_cas, take_mondo, ldc_vintr_setstate, hist
<1>2. CASE (\E v \in BOOLEAN : ldc_vintr_setvalid(v)) \/ setvalid_idle \/ hv_ldc_chk_pkts \/ chk_pkts_cas
  BY <1>2, <1>0 DEF ldc_vintr_setvalid, setvalid_idle, hv_ldc_chk_pkts, chk_pkts_cas, hist
<1>3. CASE guest_to_guest_tx_set_tail \/ tx_qconf_tail \/ tx_qconf_head \/ tx_reset \/ tx_guest_boot
           \/ hcall_ldc_tx_get_state \/ status_clear \/ status_size
  BY <1>3, <1>0 DEF guest_to_guest_tx_set_tail, tx_qconf_tail, tx_qconf_head, tx_reset, tx_guest_boot,
                    hcall_ldc_tx_get_state, status_clear, status_size, hist
<1>4. CASE hcall_ldc_rx_get_state \/ guest_to_guest_pull_data \/ pull_copy \/ pull_rx_tail \/ pull_tx_head
           \/ rx_state_returned \/ rx_qconf_updated \/ rx_reset
  BY <1>4, <1>0 DEF hcall_ldc_rx_get_state, guest_to_guest_pull_data, pull_copy, pull_rx_tail, pull_tx_head,
                    rx_state_returned, rx_qconf_updated, rx_reset, hist
<1>5. ASSUME NEW t \in Slots, hcall_ldc_tx_set_qtail(t) PROVE CountTypes'
  <2> DEFINE k == (t - tx.tail) % tx.size
  <2>1. tx.size # 0 /\ next + k - 1 <= MaxPkts /\ next' = next + k /\ UNCHANGED <<last, confs, conf>>
    BY <1>5 DEF hcall_ldc_tx_set_qtail, hist
  <2>2. tx.size \in {2, 4, 8, 16} /\ tx.tail \in Int /\ t \in Int
    BY <2>1, SizeFacts DEF TxShape, Queues
  <2>3. k \in Nat
    BY <2>2, ModRange
  <2> QED BY <2>1, <2>3, <1>t DEF CountTypes
<1>6. CASE (\E n \in Sizes \cup {0} : hcall_ldc_tx_qconf(n)) \/ tx_guest_exit
  BY <1>6, <1>t, <1>f DEF hcall_ldc_tx_qconf, tx_guest_exit, hist, CountTypes
<1>7. CASE (\E n \in Sizes \cup {0} : hcall_ldc_rx_qconf(n)) \/ rx_guest_exit
  BY <1>7, <1>t, <1>f DEF hcall_ldc_rx_qconf, rx_guest_exit, hist, CountTypes
<1>8. CASE tx_qconf_size \/ rx_qconf_size
  BY <1>8, <1>t DEF tx_qconf_size, rx_qconf_size, hist, CountTypes
<1>9. ASSUME NEW h \in Slots, hcall_ldc_rx_set_qhead(h) PROVE CountTypes'
  <2>1. h < rx.size /\ last' = rx.buf[(h - 1) % rx.size] /\ UNCHANGED <<next, confs, conf>>
    BY <1>9 DEF hcall_ldc_rx_set_qhead, ValidHead
  <2>2. rx.size \in Sizes /\ h \in Int /\ rx.buf \in [Slots -> 0 .. MaxPkts]
    BY <2>1, SizeFacts DEF RxShape, Queues
  <2>3. (h - 1) % rx.size \in Slots
    BY <2>2, ModRange, SizeFacts
  <2> QED BY <2>1, <2>2, <2>3, <1>t DEF CountTypes
<1> QED BY <1>1, <1>2, <1>3, <1>4, <1>5, <1>6, <1>7, <1>8, <1>9, Cases

(* What the sender is told.                                                *)
LEMMA NextReset == PcTypes /\ StatusTypes /\ ResetInv /\ Next => ResetInv'
<1> SUFFICES ASSUME PcTypes, StatusTypes, ResetInv, Next PROVE ResetInv'
  OBVIOUS
<1>p. pc \in [Ends -> S_PC \cup R_PC]
  BY DEF PcTypes
<1>0. ASSUME UNCHANGED <<updated, flag, owed, late>>, pc'["S"] = pc["S"] \/ pc'["S"] \notin {"st_clear", "st_size"},
             pc["S"] = "st_size" => pc'["S"] = "st_size"
      PROVE  ResetInv'
  BY <1>0 DEF ResetInv
<1>s. ASSUME NEW l, Goto("S", l), pc["S"] # "st_size", l \notin {"st_clear", "st_size"}, UNCHANGED <<updated, flag, owed, late>>
      PROVE  ResetInv'
  BY <1>s, <1>p, <1>0 DEF Goto, Ends
<1>r. ASSUME NEW l, Goto("R", l), UNCHANGED <<updated, flag, owed, late>> PROVE ResetInv'
  BY <1>r, <1>p, <1>0 DEF Goto, Ends
<1>1. ASSUME NEW e \in Ends, notify_chk(e) \/ notify_cas(e) \/ take_mondo(e) \/ ldc_vintr_setstate(e) PROVE ResetInv'
  <2>1. UNCHANGED <<updated, flag, owed, late>>
    BY <1>1 DEF notify_chk, notify_cas, take_mondo, ldc_vintr_setstate, hist
  <2>2. CASE e = "R"
    BY <1>1, <2>1, <2>2, <1>r DEF notify_chk, notify_cas, take_mondo, ldc_vintr_setstate
  <2>3. CASE e = "S"
    <3>1. CASE notify_chk("S")
      BY <3>1, <2>1, <1>s DEF notify_chk, Notified
    <3>2. CASE notify_cas("S")
      BY <3>2, <2>1, <1>s DEF notify_cas, Notified
    <3>3. CASE take_mondo("S") \/ ldc_vintr_setstate("S")
      BY <3>3, <2>1, <1>s DEF take_mondo, ldc_vintr_setstate
    <3> QED BY <1>1, <2>3, <3>1, <3>2, <3>3
  <2> QED BY <2>2, <2>3 DEF Ends
<1>2. CASE (\E v \in BOOLEAN : ldc_vintr_setvalid(v)) \/ setvalid_idle \/ hv_ldc_chk_pkts \/ chk_pkts_cas
  BY <1>2, <1>r DEF ldc_vintr_setvalid, setvalid_idle, hv_ldc_chk_pkts, chk_pkts_cas, hist
<1>3. CASE (\E t \in Slots : hcall_ldc_tx_set_qtail(t)) \/ guest_to_guest_tx_set_tail
           \/ (\E n \in Sizes \cup {0} : hcall_ldc_tx_qconf(n)) \/ tx_qconf_tail
  BY <1>3, <1>s DEF hcall_ldc_tx_set_qtail, guest_to_guest_tx_set_tail, hcall_ldc_tx_qconf, tx_qconf_tail, hist
<1>4. CASE tx_qconf_head \/ tx_qconf_size \/ tx_guest_exit \/ tx_reset \/ tx_guest_boot
  BY <1>4, <1>s DEF tx_qconf_head, tx_qconf_size, tx_guest_exit, tx_reset, tx_guest_boot, hist
<1>5. CASE hcall_ldc_tx_get_state
  BY <1>5, <1>p DEF hcall_ldc_tx_get_state, Goto, Ends, ResetInv, StatusTypes
<1>6. CASE status_clear
  BY <1>6, <1>p DEF status_clear, Goto, Ends, ResetInv, hist
<1>7. CASE status_size
  BY <1>7, <1>p DEF status_size, Goto, Ends, ResetInv, Status
<1>8. CASE hcall_ldc_rx_get_state \/ guest_to_guest_pull_data \/ pull_copy \/ pull_rx_tail \/ pull_tx_head
  BY <1>8, <1>r DEF hcall_ldc_rx_get_state, guest_to_guest_pull_data, pull_copy, pull_rx_tail, pull_tx_head, hist
<1>9. CASE rx_state_returned \/ (\E h \in Slots : hcall_ldc_rx_set_qhead(h))
           \/ (\E n \in Sizes \cup {0} : hcall_ldc_rx_qconf(n)) \/ rx_qconf_size \/ rx_reset
  BY <1>9, <1>r DEF rx_state_returned, hcall_ldc_rx_set_qhead, hcall_ldc_rx_qconf, rx_qconf_size, rx_reset, hist
<1>10. CASE rx_qconf_updated
  BY <1>10, <1>p DEF rx_qconf_updated, Goto, Ends, ResetInv
<1>11. CASE rx_guest_exit
  BY <1>11, <1>p DEF rx_guest_exit, Goto, Ends, ResetInv, StatusTypes, Owed
<1> QED BY <1>1, <1>2, <1>3, <1>4, <1>5, <1>6, <1>7, <1>8, <1>9, <1>10, <1>11, Cases

(* A sender that asks for the status of the channel after the receiver has *)
(* reconfigured its queue is told: for any queue sizes, and whether or not *)
(* the two guests coordinate (GET_GUEST_QUEUE_STATUS against ldc_rx_qconf).*)
THEOREM ResetIsSeen == Spec => []ResetSeen
<1>1. Init => PcTypes /\ StatusTypes /\ ResetInv
  BY DEF Init, PcTypes, StatusTypes, ResetInv, Owed, S_PC, R_PC, Ends
<1>2. PcTypes /\ StatusTypes /\ ResetInv /\ [Next]_vars => (PcTypes /\ StatusTypes /\ ResetInv)'
  <2>1. PcTypes /\ StatusTypes /\ ResetInv /\ UNCHANGED vars => (PcTypes /\ StatusTypes /\ ResetInv)'
    BY DEF vars, hist, PcTypes, StatusTypes, ResetInv
  <2> QED BY <2>1, NextPc, NextStatus, NextReset
<1>3. ResetInv => ResetSeen
  BY DEF ResetInv, ResetSeen, Status
<1> QED BY <1>1, <1>2, <1>3, PTL DEF Spec

-----------------------------------------------------------------------------
(* The queues.                                                             *)
LEMMA QueueFields ==
  ASSUME NEW q \in Queues
  PROVE  /\ q.head \in Slots /\ q.tail \in Slots /\ q.head \in Nat /\ q.tail \in Nat
         /\ q.size \in Sizes \cup {0} /\ q.size \in Nat
         /\ q.buf \in [Slots -> 0 .. MaxPkts]
         /\ q.size # 0 => q.size \in Sizes /\ q.size \in {2, 4, 8, 16}
  BY SizeFacts DEF Queues

LEMMA GarbageType == Garbage \in [Slots -> 0 .. MaxPkts]
  BY SizeFacts DEF Garbage

LEMMA GarbageQueue ==
  ASSUME NEW q \in Queues
  PROVE  [q EXCEPT !.buf = Garbage] \in Queues
  BY GarbageType DEF Queues

(* A step that leaves the transmit queue and the changes of its size alone.*)
LEMMA TxFrame ==
  ASSUME TxShape, UNCHANGED tx, conf'["S"] = conf["S"],
         pc'["S"] = pc["S"] \/ (~TxConf /\ ~TxConf') \/ (TxDown /\ TxDown')
  PROVE  TxShape'
  BY DEF TxShape, TxConf, TxDown

LEMMA NextTx ==
  ASSUME TypeInv, Coordinated, Next
  PROVE  TxShape'
<1>p. /\ pc \in [Ends -> S_PC \cup R_PC] /\ conf \in [Ends -> Sizes \cup {0}] /\ tx \in Queues /\ TxShape
      /\ "S" \in Ends /\ "R" \in Ends /\ \A n \in Sizes : n # 0
  BY SizeFacts DEF TypeInv, PcTypes, CountTypes, TxShape, Ends
<1>q. /\ tx.head \in Slots /\ tx.tail \in Slots /\ tx.head \in Nat /\ tx.tail \in Nat
      /\ tx.size \in Sizes \cup {0} /\ tx.size \in Nat
      /\ tx.buf \in [Slots -> 0 .. MaxPkts]
      /\ tx.size # 0 => tx.size \in Sizes /\ tx.size \in {2, 4, 8, 16}
  BY <1>p, QueueFields
<1>s. ASSUME NEW l, Goto("S", l), ~TxConf, l \notin TxConfPc, UNCHANGED <<tx, conf>>
      PROVE  TxShape'
  BY <1>s, <1>p, TxFrame DEF Goto, TxConf, TxConfPc
<1>r. ASSUME NEW l, Goto("R", l), UNCHANGED tx, conf'["S"] = conf["S"] PROVE TxShape'
  BY <1>r, <1>p, TxFrame DEF Goto
<1>1. ASSUME NEW e \in Ends, notify_chk(e) \/ notify_cas(e) \/ take_mondo(e) \/ ldc_vintr_setstate(e) PROVE TxShape'
  <2>1. UNCHANGED <<tx, conf>>
    BY <1>1 DEF notify_chk, notify_cas, take_mondo, ldc_vintr_setstate, queues
  <2>2. CASE e = "R"
    BY <1>1, <2>1, <2>2, <1>r DEF notify_chk, notify_cas, take_mondo, ldc_vintr_setstate
  <2>3. CASE e = "S"
    <3>1. CASE notify_chk("S") \/ notify_cas("S")
      <4>1. /\ pc["S"] \in {"chk", "cas"} => pc'["S"] \in {"cas", "run"}
            /\ pc["S"] \in {"exit_chk", "exit_cas"} => pc'["S"] \in {"exit_cas", "tx_exit"}
            /\ pc["S"] \in {"chk", "cas", "exit_chk", "exit_cas"}
        BY <3>1, <1>p DEF notify_chk, notify_cas, Notified, Goto
      <4>2. (~TxConf /\ ~TxConf') \/ (TxDown /\ TxDown')
        BY <4>1 DEF TxConf, TxDown
      <4> QED BY <2>1, <4>2, <1>p, TxFrame
    <3>2. CASE take_mondo("S") \/ ldc_vintr_setstate("S")
      BY <3>2, <2>1, <1>s DEF take_mondo, ldc_vintr_setstate, TxConf, TxConfPc
    <3> QED BY <1>1, <2>3, <3>1, <3>2
  <2> QED BY <2>2, <2>3 DEF Ends
<1>2. CASE (\E v \in BOOLEAN : ldc_vintr_setvalid(v)) \/ setvalid_idle \/ hv_ldc_chk_pkts \/ chk_pkts_cas
  BY <1>2, <1>r DEF ldc_vintr_setvalid, setvalid_idle, hv_ldc_chk_pkts, chk_pkts_cas, queues
<1>3. CASE guest_to_guest_tx_set_tail \/ hcall_ldc_tx_get_state \/ status_clear \/ status_size
  BY <1>3, <1>s DEF guest_to_guest_tx_set_tail, hcall_ldc_tx_get_state, status_clear, status_size, queues, TxConf, TxConfPc
<1>4. CASE hcall_ldc_rx_get_state \/ guest_to_guest_pull_data \/ pull_copy \/ pull_rx_tail \/ rx_state_returned
  BY <1>4, <1>r DEF hcall_ldc_rx_get_state, guest_to_guest_pull_data, pull_copy, pull_rx_tail, rx_state_returned, queues
<1>5. CASE (\E h \in Slots : hcall_ldc_rx_set_qhead(h)) \/ rx_qconf_updated \/ rx_guest_exit \/ rx_reset
  BY <1>5, <1>r DEF hcall_ldc_rx_set_qhead, rx_qconf_updated, rx_guest_exit, rx_reset, queues
<1>6. CASE (\E n \in Sizes \cup {0} : hcall_ldc_rx_qconf(n)) \/ rx_qconf_size
  BY <1>6, <1>p, <1>r DEF hcall_ldc_rx_qconf, rx_qconf_size
<1>7. ASSUME NEW t \in Slots, hcall_ldc_tx_set_qtail(t) PROVE TxShape'
  <2> DEFINE k == (t - tx.tail) % tx.size
             at(i) == (i - tx.tail) % tx.size
             b == [i \in Slots |-> IF i < tx.size /\ at(i) < k THEN next + at(i) ELSE tx.buf[i]]
  <2>1. /\ pc["S"] = "run" /\ pc'["S"] = "peek" /\ tx.size # 0 /\ t < tx.size /\ next + k - 1 <= MaxPkts
        /\ tx' = [tx EXCEPT !.tail = t, !.buf = b]
    BY <1>7, <1>p DEF hcall_ldc_tx_set_qtail, ValidTail, Goto
  <2>2. next \in 1 .. MaxPkts + 1 /\ MaxPkts \in Nat
    BY SizeFacts DEF TypeInv, CountTypes
  <2>3. k \in Nat /\ \A i \in Slots : at(i) \in Nat
    <3>1. \A a \in Int : a % tx.size \in Nat
      BY <1>q, <2>1, ModRange
    <3>2. t - tx.tail \in Int /\ \A i \in Slots : i - tx.tail \in Int
      BY <1>q, SizeFacts
    <3> QED BY <3>1, <3>2
  <2>4. b \in [Slots -> 0 .. MaxPkts]
    <3>1. ASSUME NEW i \in Slots PROVE (IF i < tx.size /\ at(i) < k THEN next + at(i) ELSE tx.buf[i]) \in 0 .. MaxPkts
      <4> HIDE DEF k, at
      <4> QED BY <2>1, <2>2, <2>3, <1>q
    <3> QED BY <3>1
  <2> HIDE DEF b
  <2>5. tx' \in Queues /\ tx'.tail = t /\ tx'.head = tx.head /\ tx'.size = tx.size
    BY <2>1, <2>4, <1>p DEF Queues
  <2>6. tx.head < tx.size
    BY <1>p, <2>1 DEF TxShape, TxConf, TxDown
  <2> QED BY <2>1, <2>5, <2>6 DEF TxShape, TxConf, TxDown
<1>8. ASSUME NEW n \in Sizes \cup {0}, hcall_ldc_tx_qconf(n) PROVE TxShape'
  <2>1. /\ pc["S"] = "run" /\ pc'["S"] = IF n = 0 THEN "tq_size" ELSE "tq_tail"
        /\ tx' = IF n = 0 THEN tx ELSE [tx EXCEPT !.buf = Garbage]
        /\ conf'["S"] = n
    BY <1>8, <1>p DEF hcall_ldc_tx_qconf, Goto
  <2>2. tx' \in Queues
    BY <2>1, <1>p, GarbageQueue
  <2> QED BY <2>1, <2>2 DEF TxShape, TxConf, TxDown
<1>9. CASE tx_qconf_tail
  <2>1. /\ pc["S"] = "tq_tail" /\ pc'["S"] = "tq_head" /\ UNCHANGED conf
        /\ tx' = [tx EXCEPT !.tail = NewTail(tx, conf["S"])]
    BY <1>9, <1>p DEF tx_qconf_tail, Goto
  <2>2. conf["S"] \in Sizes
    BY <2>1, <1>p DEF TxShape
  <2>3. NewTail(tx, conf["S"]) \in Slots /\ NewTail(tx, conf["S"]) < conf["S"]
    BY <2>2, <1>q, SizeFacts DEF NewTail
  <2>4. tx' \in Queues /\ tx'.tail = NewTail(tx, conf["S"])
    BY <2>1, <2>3, <1>p DEF Queues
  <2> QED BY <2>1, <2>2, <2>3, <2>4, <1>p DEF TxShape, TxConf, TxDown
<1>10. CASE tx_qconf_head
  <2>1. /\ pc["S"] = "tq_head" /\ pc'["S"] = "tq_size" /\ UNCHANGED conf /\ tx' = [tx EXCEPT !.head = tx.tail]
    BY <1>10, <1>p DEF tx_qconf_head, Goto
  <2>2. tx' \in Queues /\ tx'.head = tx.tail /\ tx'.tail = tx.tail
    BY <2>1, <1>p, <1>q DEF Queues
  <2> QED BY <2>1, <2>2, <1>p DEF TxShape, TxConf, TxDown
<1>11. CASE tx_qconf_size
  <2>1. /\ pc["S"] = "tq_size" /\ pc'["S"] = "run" /\ tx' = [tx EXCEPT !.size = conf["S"]]
    BY <1>11, <1>p DEF tx_qconf_size, Goto
  <2>2. tx' \in Queues /\ tx'.head = tx.head /\ tx'.tail = tx.tail /\ tx'.size = conf["S"]
    BY <2>1, <1>p DEF Queues
  <2> QED BY <2>1, <2>2, <1>p DEF TxShape, TxConf, TxDown
<1>12. CASE tx_guest_exit
  <2>1. /\ pc'["S"] \in {"exit_chk", "tx_down"} /\ tx' = [tx EXCEPT !.size = 0]
    BY <1>12, <1>p DEF tx_guest_exit, Goto
  <2>2. tx' \in Queues /\ tx'.size = 0
    BY <2>1, <1>p DEF Queues
  <2> QED BY <2>1, <2>2 DEF TxShape
<1>13. CASE tx_reset \/ tx_guest_boot
  <2>1. /\ pc["S"] \in {"tx_exit", "tx_down"} /\ pc'["S"] \in {"tx_down", "ack"}
        /\ UNCHANGED tx \/ tx' = [tx EXCEPT !.head = 0, !.tail = 0]
    BY <1>13, <1>p DEF tx_reset, tx_guest_boot, Goto, queues
  <2>2. tx' \in Queues /\ tx'.size = tx.size /\ tx.size = 0
    BY <2>1, <1>p, SizeFacts DEF Queues, TxShape, TxDown
  <2> QED BY <2>1, <2>2 DEF TxShape
<1>14. CASE pull_tx_head
  <2>1. /\ pc["R"] = "txhead" /\ pc'["S"] = pc["S"] /\ UNCHANGED conf
        /\ tx' = [tx EXCEPT !.head = Mask(pull.h + pull.n, tx.size)]
    BY <1>14, <1>p DEF pull_tx_head, Goto
  <2>2. tx.size # 0 /\ ~TxConf /\ pull.h + pull.n \in Int
    BY <2>1 DEF TypeInv, PullInv, Pulling
  <2>3. Mask(pull.h + pull.n, tx.size) \in 0 .. tx.size - 1
    BY <2>2, <1>q, ModRange DEF Mask
  <2>4. Mask(pull.h + pull.n, tx.size) \in Slots
    BY <2>2, <2>3, <1>q, SizeFacts
  <2>5. tx' \in Queues /\ tx'.head = Mask(pull.h + pull.n, tx.size) /\ tx'.tail = tx.tail /\ tx'.size = tx.size
    BY <2>1, <2>4, <1>p DEF Queues
  <2> QED BY <2>1, <2>2, <2>3, <2>5, <1>p, <1>q DEF TxShape, TxConf, TxDown
<1> QED BY <1>1, <1>2, <1>3, <1>4, <1>5, <1>6, <1>7, <1>8, <1>9, <1>10, <1>11, <1>12, <1>13, <1>14, Cases

LEMMA RxFrame ==
  ASSUME RxShape, UNCHANGED rx, conf'["R"] = conf["R"],
         pc'["R"] = pc["R"] \/ pc'["R"] \notin {"rq_upd", "rq_size"}
  PROVE  RxShape'
  BY DEF RxShape

LEMMA NextRx ==
  ASSUME TypeInv, Coordinated, Next
  PROVE  RxShape'
<1>p. /\ pc \in [Ends -> S_PC \cup R_PC] /\ conf \in [Ends -> Sizes \cup {0}] /\ rx \in Queues /\ RxShape
      /\ "S" \in Ends /\ "R" \in Ends /\ \A n \in Sizes : n # 0
  BY SizeFacts DEF TypeInv, PcTypes, CountTypes, RxShape, Ends
<1>q. /\ rx.head \in Slots /\ rx.tail \in Slots /\ rx.head \in Nat /\ rx.tail \in Nat
      /\ rx.size \in Sizes \cup {0} /\ rx.size \in Nat
      /\ rx.buf \in [Slots -> 0 .. MaxPkts]
      /\ rx.size # 0 => rx.size \in Sizes /\ rx.size \in {2, 4, 8, 16}
  BY <1>p, QueueFields
<1>s. ASSUME NEW l, Goto("S", l), UNCHANGED rx, conf'["R"] = conf["R"] PROVE RxShape'
  BY <1>s, <1>p, RxFrame DEF Goto
<1>r. ASSUME NEW l, Goto("R", l), UNCHANGED <<rx, conf>>, l \notin {"rq_upd", "rq_size"} PROVE RxShape'
  BY <1>r, <1>p, RxFrame DEF Goto
<1>1. ASSUME NEW e \in Ends, notify_chk(e) \/ notify_cas(e) \/ take_mondo(e) \/ ldc_vintr_setstate(e) PROVE RxShape'
  <2>1. UNCHANGED <<rx, conf>>
    BY <1>1 DEF notify_chk, notify_cas, take_mondo, ldc_vintr_setstate, queues
  <2>2. CASE e = "S"
    BY <1>1, <2>1, <2>2, <1>s DEF notify_chk, notify_cas, take_mondo, ldc_vintr_setstate
  <2>3. CASE e = "R"
    <3>1. CASE notify_chk("R")
      BY <3>1, <2>1, <1>r DEF notify_chk, Notified
    <3>2. CASE notify_cas("R")
      BY <3>2, <2>1, <1>r DEF notify_cas, Notified
    <3>3. CASE take_mondo("R") \/ ldc_vintr_setstate("R")
      BY <3>3, <2>1, <1>r DEF take_mondo, ldc_vintr_setstate
    <3> QED BY <1>1, <2>3, <3>1, <3>2, <3>3
  <2> QED BY <2>2, <2>3 DEF Ends
<1>2. CASE (\E v \in BOOLEAN : ldc_vintr_setvalid(v)) \/ setvalid_idle \/ hv_ldc_chk_pkts \/ chk_pkts_cas
  BY <1>2, <1>r DEF ldc_vintr_setvalid, setvalid_idle, hv_ldc_chk_pkts, chk_pkts_cas, queues
<1>3. CASE (\E t \in Slots : hcall_ldc_tx_set_qtail(t)) \/ guest_to_guest_tx_set_tail
           \/ tx_qconf_tail \/ tx_qconf_head \/ tx_reset \/ tx_guest_boot \/ tx_guest_exit
  BY <1>3, <1>s DEF hcall_ldc_tx_set_qtail, guest_to_guest_tx_set_tail, tx_qconf_tail, tx_qconf_head, tx_reset, tx_guest_boot,
                    tx_guest_exit, queues
<1>4. CASE hcall_ldc_tx_get_state \/ status_clear \/ status_size
  BY <1>4, <1>s DEF hcall_ldc_tx_get_state, status_clear, status_size, queues
<1>5. CASE (\E n \in Sizes \cup {0} : hcall_ldc_tx_qconf(n)) \/ tx_qconf_size
  BY <1>5, <1>p, <1>s DEF hcall_ldc_tx_qconf, tx_qconf_size
<1>6. CASE hcall_ldc_rx_get_state \/ guest_to_guest_pull_data \/ pull_tx_head \/ rx_state_returned
  BY <1>6, <1>r DEF hcall_ldc_rx_get_state, guest_to_guest_pull_data, pull_tx_head, rx_state_returned, queues
<1>7. CASE pull_copy
  <2> DEFINE b == [i \in Slots |-> IF pull.n <= 0 /\ i = pull.t THEN 0
                                   ELSE IF pull.t <= i /\ i < pull.t + pull.n
                                   THEN tx.buf[pull.h + i - pull.t] ELSE rx.buf[i]]
  <2>1. pc["R"] = "copy" /\ pc'["R"] = "rxtail" /\ rx' = [rx EXCEPT !.buf = b] /\ UNCHANGED conf
    BY <1>7, <1>p DEF pull_copy, Goto
  <2>2. /\ pull.h \in Nat /\ pull.n \in Nat /\ pull.t \in Nat /\ pull.n > 0 /\ pull.h + pull.n <= tx.size /\ tx.size # 0
        /\ tx \in Queues
    BY <2>1 DEF TypeInv, PullInv, Pulling, TxShape
  <2>3. tx.size \in Sizes /\ tx.buf \in [Slots -> 0 .. MaxPkts] /\ tx.size \in Nat
    BY <2>2, QueueFields
  <2>4. b \in [Slots -> 0 .. MaxPkts]
    <3>1. ASSUME NEW i \in Slots, pull.t <= i, i < pull.t + pull.n PROVE tx.buf[pull.h + i - pull.t] \in 0 .. MaxPkts
      <4>1. pull.h + i - pull.t \in 0 .. tx.size - 1
        BY <2>2, <2>3, <3>1, SizeFacts
      <4>2. pull.h + i - pull.t \in Slots
        BY <4>1, <2>3, SizeFacts
      <4> QED BY <4>2, <2>3
    <3>2. \A i \in Slots : rx.buf[i] \in 0 .. MaxPkts
      BY <1>q
    <3>3. 0 \in 0 .. MaxPkts
      BY SizeFacts
    <3> QED BY <3>1, <3>2, <3>3
  <2> HIDE DEF b
  <2>5. rx' \in Queues /\ rx'.head = rx.head /\ rx'.tail = rx.tail /\ rx'.size = rx.size
    BY <2>1, <2>4, <1>p DEF Queues
  <2> QED BY <2>1, <2>5, <1>p DEF RxShape
<1>8. CASE pull_rx_tail
  <2>1. /\ pc["R"] = "rxtail" /\ pc'["R"] = "txhead" /\ UNCHANGED conf
        /\ rx' = [rx EXCEPT !.tail = Mask(pull.t + pull.n, rx.size)]
    BY <1>8, <1>p DEF pull_rx_tail, Goto
  <2>2. rx.size # 0 /\ pull.t + pull.n \in Int
    BY <2>1 DEF TypeInv, PullInv, Pulling
  <2>3. Mask(pull.t + pull.n, rx.size) \in 0 .. rx.size - 1
    BY <2>2, <1>q, ModRange DEF Mask
  <2>4. Mask(pull.t + pull.n, rx.size) \in Slots
    BY <2>2, <2>3, <1>q, SizeFacts
  <2>5. rx' \in Queues /\ rx'.tail = Mask(pull.t + pull.n, rx.size) /\ rx'.head = rx.head /\ rx'.size = rx.size
    BY <2>1, <2>4, <1>p DEF Queues
  <2> QED BY <2>1, <2>2, <2>3, <2>5, <1>p, <1>q DEF RxShape
<1>9. ASSUME NEW h \in Slots, hcall_ldc_rx_set_qhead(h) PROVE RxShape'
  <2>1. h < rx.size /\ rx' = [rx EXCEPT !.head = h] /\ UNCHANGED conf /\ pc'["R"] \in {"get", "ack"}
    BY <1>9, <1>p DEF hcall_ldc_rx_set_qhead, ValidHead, Goto
  <2>2. rx' \in Queues /\ rx'.head = h /\ rx'.tail = rx.tail /\ rx'.size = rx.size
    BY <2>1, <1>p DEF Queues
  <2> QED BY <2>1, <2>2, <1>p, <1>q DEF RxShape
<1>10. ASSUME NEW n \in Sizes \cup {0}, hcall_ldc_rx_qconf(n) PROVE RxShape'
  <2>1. /\ pc'["R"] = (IF n = 0 \/ rx.size # 0 THEN "rq_upd" ELSE "rq_size") /\ conf'["R"] = n
        /\ rx' = IF n = 0 THEN [rx EXCEPT !.size = 0]
                 ELSE [rx EXCEPT !.buf = Garbage, !.tail = NewTail(rx, n), !.head = NewTail(rx, n)]
    BY <1>10, <1>p DEF hcall_ldc_rx_qconf, Goto
  <2>2. CASE n = 0
    <3>1. rx' \in Queues /\ rx'.size = 0
      BY <2>1, <2>2, <1>p DEF Queues
    <3> QED BY <2>1, <2>2, <3>1 DEF RxShape
  <2>3. CASE n # 0
    <3>1. NewTail(rx, n) \in Slots /\ NewTail(rx, n) < n /\ NewTail(rx, n) <= rx.tail
      BY <2>3, <1>q, SizeFacts DEF NewTail
    <3>2. rx' \in Queues /\ rx'.size = rx.size /\ rx'.head = NewTail(rx, n) /\ rx'.tail = NewTail(rx, n)
      BY <2>1, <2>3, <3>1, <1>p, GarbageType DEF Queues
    <3>3. rx.size # 0 => NewTail(rx, n) < rx.size
      BY <3>1, <1>p, <1>q, SizeFacts DEF RxShape
    <3> QED BY <2>1, <2>3, <3>1, <3>2, <3>3 DEF RxShape
  <2> QED BY <2>2, <2>3
<1>11. CASE rx_qconf_updated
  <2>1. /\ pc["R"] = "rq_upd" /\ pc'["R"] = (IF conf["R"] = 0 THEN "chk" ELSE "rq_size") /\ UNCHANGED <<rx, conf>>
    BY <1>11, <1>p DEF rx_qconf_updated, Goto, queues
  <2> QED BY <2>1, <1>p DEF RxShape
<1>12. CASE rx_qconf_size
  <2>1. /\ pc["R"] = "rq_size" /\ pc'["R"] = "chk" /\ rx' = [rx EXCEPT !.size = conf["R"]]
    BY <1>12, <1>p DEF rx_qconf_size, Goto
  <2>2. rx' \in Queues /\ rx'.head = rx.head /\ rx'.tail = rx.tail /\ rx'.size = conf["R"]
    BY <2>1, <1>p DEF Queues
  <2> QED BY <2>1, <2>2, <1>p DEF RxShape
<1>13. CASE rx_guest_exit
  <2>1. /\ pc'["R"] = "exit_chk" /\ rx' = [rx EXCEPT !.size = 0]
    BY <1>13, <1>p DEF rx_guest_exit, Goto
  <2>2. rx' \in Queues /\ rx'.size = 0
    BY <2>1, <1>p DEF Queues
  <2> QED BY <2>1, <2>2 DEF RxShape
<1>14. CASE rx_reset
  <2>1. /\ pc'["R"] = "ack" /\ rx' = [rx EXCEPT !.head = 0, !.tail = 0]
    BY <1>14, <1>p DEF rx_reset, Goto
  <2>2. rx' \in Queues /\ rx'.size = rx.size /\ rx'.head = 0 /\ rx'.tail = 0
    BY <2>1, <1>p, SizeFacts DEF Queues
  <2> QED BY <2>1, <2>2, <1>q, SizeFacts DEF RxShape
<1> QED BY <1>1, <1>2, <1>3, <1>4, <1>5, <1>6, <1>7, <1>8, <1>9, <1>10, <1>11, <1>12, <1>13, <1>14, Cases

-----------------------------------------------------------------------------
(* The copy.                                                               *)
LEMMA MaskFacts ==
  ASSUME NEW n \in {2, 4, 8, 16}, NEW a \in Nat, a <= n
  PROVE  Mask(a, n) = IF a = n THEN 0 ELSE a
<1>1. n # 0 /\ n % n = 0 /\ (a < n => a % n = a)
  OBVIOUS
<1> QED BY <1>1 DEF Mask

LEMMA PullFrame ==
  ASSUME PullInv, UNCHANGED pull, UNCHANGED <<tx, rx>>, pc'["R"] = pc["R"] \/ ~Pulling',
         Pulling' => ~TxConf'
  PROVE  PullInv'
<1>1. Pulling' => Pulling /\ pc'["R"] = pc["R"]
  BY DEF Pulling
<1> QED BY <1>1 DEF PullInv, Pulling, IntoRx

LEMMA NextPull ==
  ASSUME TypeInv, Coordinated, Next
  PROVE  PullInv'
<1>p. /\ pc \in [Ends -> S_PC \cup R_PC] /\ tx \in Queues /\ rx \in Queues /\ TxShape /\ RxShape /\ PullInv
      /\ "S" \in Ends /\ "R" \in Ends /\ MAX_PKT_COPY \in Nat \ {0}
  BY SizeFacts DEF TypeInv, PcTypes, TxShape, RxShape, Ends
<1>q. /\ tx.head \in Nat /\ tx.tail \in Nat /\ tx.size \in Nat /\ (tx.size # 0 => tx.size \in {2, 4, 8, 16})
      /\ rx.head \in Nat /\ rx.tail \in Nat /\ rx.size \in Nat /\ (rx.size # 0 => rx.size \in {2, 4, 8, 16})
  BY <1>p, QueueFields
<1>s. ASSUME NEW l, Goto("S", l), UNCHANGED <<pull, tx, rx>>, Pulling => l \notin TxConfPc
      PROVE  PullInv'
  <2>1. pc'["R"] = pc["R"] /\ pc'["S"] = l
    BY <1>s, <1>p DEF Goto
  <2> QED BY <1>s, <2>1, <1>p, PullFrame DEF Pulling, TxConf, TxConfPc
<1>n. ASSUME NEW l, Goto("S", l), UNCHANGED pull, UNCHANGED rx, ~Pulling PROVE PullInv'
  <2>1. pc'["R"] = pc["R"]
    BY <1>n, <1>p DEF Goto
  <2> QED BY <1>n, <2>1, <1>p DEF PullInv, Pulling
<1>r. ASSUME NEW l, Goto("R", l), UNCHANGED pull, l \notin {"pull", "copy", "rxtail", "txhead"} PROVE PullInv'
  <2>1. pc'["R"] = l
    BY <1>r, <1>p DEF Goto
  <2> QED BY <1>r, <2>1, <1>p DEF PullInv, Pulling
<1>1. ASSUME NEW e \in Ends, notify_chk(e) \/ notify_cas(e) \/ take_mondo(e) \/ ldc_vintr_setstate(e) PROVE PullInv'
  <2>1. UNCHANGED <<tx, rx, pull>>
    BY <1>1 DEF notify_chk, notify_cas, take_mondo, ldc_vintr_setstate, queues
  <2>2. CASE e = "R"
    <3>1. CASE notify_chk("R")
      BY <3>1, <2>1, <1>r DEF notify_chk, Notified
    <3>2. CASE notify_cas("R")
      BY <3>2, <2>1, <1>r DEF notify_cas, Notified
    <3>3. CASE take_mondo("R") \/ ldc_vintr_setstate("R")
      BY <3>3, <2>1, <1>r DEF take_mondo, ldc_vintr_setstate
    <3> QED BY <1>1, <2>2, <3>1, <3>2, <3>3
  <2>3. CASE e = "S"
    <3>1. CASE notify_chk("S") \/ notify_cas("S")
      <4>1. /\ pc["S"] \in {"chk", "cas"} => pc'["S"] \in {"cas", "run"}
            /\ pc["S"] \in {"chk", "cas", "exit_chk", "exit_cas"}
            /\ pc'["R"] = pc["R"]
        BY <3>1, <1>p DEF notify_chk, notify_cas, Notified, Goto
      <4>2. Pulling' => ~TxConf'
        BY <4>1, <1>p DEF PullInv, Pulling, TxConf
      <4> QED BY <2>1, <4>1, <4>2, <1>p, PullFrame
    <3>2. CASE take_mondo("S") \/ ldc_vintr_setstate("S")
      BY <3>2, <2>1, <1>s DEF take_mondo, ldc_vintr_setstate, TxConfPc
    <3> QED BY <1>1, <2>3, <3>1, <3>2
  <2> QED BY <2>2, <2>3 DEF Ends
<1>2. CASE (\E v \in BOOLEAN : ldc_vintr_setvalid(v)) \/ setvalid_idle \/ hv_ldc_chk_pkts \/ chk_pkts_cas
  BY <1>2, <1>r DEF ldc_vintr_setvalid, setvalid_idle, hv_ldc_chk_pkts, chk_pkts_cas, queues
<1>3. CASE guest_to_guest_tx_set_tail \/ hcall_ldc_tx_get_state \/ status_clear \/ status_size
  BY <1>3, <1>s DEF guest_to_guest_tx_set_tail, hcall_ldc_tx_get_state, status_clear, status_size, queues, TxConfPc
<1>4. CASE tx_qconf_tail \/ tx_qconf_head \/ tx_qconf_size \/ tx_reset \/ tx_guest_boot
  <2>1. ~Pulling
    BY <1>4, <1>p DEF tx_qconf_tail, tx_qconf_head, tx_qconf_size, tx_reset, tx_guest_boot, PullInv, TxConf
  <2> QED BY <1>4, <2>1, <1>n DEF tx_qconf_tail, tx_qconf_head, tx_qconf_size, tx_reset, tx_guest_boot, queues
<1>5. CASE (\E n \in Sizes \cup {0} : hcall_ldc_tx_qconf(n)) \/ tx_guest_exit
  BY <1>5, <1>n DEF hcall_ldc_tx_qconf, tx_guest_exit
<1>6. ASSUME NEW t \in Slots, hcall_ldc_tx_set_qtail(t) PROVE PullInv'
  <2>1. /\ pc'["R"] = pc["R"] /\ pc'["S"] = "peek" /\ UNCHANGED <<rx, pull>> /\ ValidTail(t)
        /\ tx'.head = tx.head /\ tx'.size = tx.size /\ tx'.tail = t
    BY <1>6, <1>p DEF hcall_ldc_tx_set_qtail, Goto, Queues
  <2>2. t \in Nat /\ pull.n \in Nat
    BY <1>p, SizeFacts DEF PullInv
  <2>3. pc["R"] \in {"copy", "rxtail", "txhead"} =>
          pull.n <= (IF tx'.tail >= tx'.head THEN tx'.tail - tx'.head ELSE tx'.size - tx'.head)
    <3> SUFFICES ASSUME pc["R"] \in {"copy", "rxtail", "txhead"}
                 PROVE  pull.n <= (IF t >= tx.head THEN t - tx.head ELSE tx.size - tx.head)
      BY <2>1
    <3>1. /\ pull.n <= (IF tx.tail >= tx.head THEN tx.tail - tx.head ELSE tx.size - tx.head)
          /\ tx.size # 0 /\ ~TxConf
      BY <1>p DEF PullInv, Pulling
    <3>2. tx.tail < tx.size
      BY <3>1, <1>p DEF TxShape
    <3> QED BY <2>1, <2>2, <3>1, <3>2, <1>q DEF ValidTail
  <2> QED BY <2>1, <2>3, <1>p DEF PullInv, Pulling, TxConf, IntoRx
<1>7. CASE hcall_ldc_rx_get_state
  <2>1. CASE rx.size = 0 \/ tx.size = 0
    <3>1. pull' = NoPull /\ pc'["R"] \in {"ack", "run", "got"}
      BY <1>7, <2>1, <1>p DEF hcall_ldc_rx_get_state, Goto
    <3> QED BY <3>1, <1>p DEF PullInv, Pulling, NoPull
  <2>2. CASE rx.size # 0 /\ tx.size # 0
    <3>1. pull' = [NoPull EXCEPT !.left = MAX_PKT_COPY] /\ pc'["R"] = "pull" /\ UNCHANGED <<tx, rx>> /\ ~TxConf
          /\ pc'["S"] = pc["S"]
      BY <1>7, <2>2, <1>p DEF hcall_ldc_rx_get_state, Goto, queues, TxShape, TxDown, TxConf
    <3>2. pull' = [h |-> 0, t |-> 0, n |-> 0, left |-> MAX_PKT_COPY]
      BY <3>1 DEF NoPull
    <3>3. /\ pull' \in [h : Nat, t : Nat, n : Nat, left : 0 .. MAX_PKT_COPY]
          /\ pull'.n <= MAX_PKT_COPY /\ ~(pull'.left < MAX_PKT_COPY)
      BY <3>2, <1>p
    <3> QED BY <2>2, <3>1, <3>3 DEF PullInv, Pulling, TxConf
  <2> QED BY <2>1, <2>2
<1>8. CASE guest_to_guest_pull_data
  <2>0. tx.size # 0 /\ rx.size # 0 /\ ~TxConf /\ pull.left \in 0 .. MAX_PKT_COPY /\ pc["R"] = "pull"
    BY <1>8, <1>p DEF guest_to_guest_pull_data, PullInv, Pulling
  <2>1. CASE pull.left <= 0 \/ FromTx = 0 \/ IntoRx = 0
    <3>1. pull' = NoPull /\ pc'["R"] = "got"
      BY <1>8, <2>1, <1>p DEF guest_to_guest_pull_data, Goto
    <3> QED BY <3>1, <1>p DEF PullInv, Pulling, NoPull
  <2>2. CASE ~(pull.left <= 0 \/ FromTx = 0 \/ IntoRx = 0)
    <3>1. /\ pull' = [h |-> tx.head, t |-> rx.tail, n |-> ToCopy, left |-> pull.left - ToCopy]
          /\ pc'["R"] = "copy" /\ UNCHANGED <<tx, rx>> /\ pc'["S"] = pc["S"]
      BY <1>8, <2>2, <1>p DEF guest_to_guest_pull_data, Goto, queues
    <3>2. tx.head < tx.size /\ tx.tail < tx.size /\ rx.head < rx.size /\ rx.tail < rx.size
      BY <2>0, <1>p DEF TxShape, RxShape
    <3>3. FromTx \in Nat /\ IntoRx \in Nat /\ FromTx > 0 /\ IntoRx > 0 /\ pull.left > 0
          /\ tx.head + FromTx <= tx.size /\ rx.tail + IntoRx <= rx.size
      BY <2>0, <2>2, <3>2, <1>q DEF FromTx, IntoRx
    <3>4. ToCopy \in Nat /\ ToCopy > 0 /\ ToCopy <= FromTx /\ ToCopy <= IntoRx /\ ToCopy <= pull.left
      BY <2>0, <3>3 DEF ToCopy
    <3>5. /\ pull'.h = tx.head /\ pull'.t = rx.tail /\ pull'.n = ToCopy /\ pull'.left = pull.left - ToCopy
          /\ pull' \in [h : Nat, t : Nat, n : Nat, left : 0 .. MAX_PKT_COPY]
      <4>1. pull.left - ToCopy \in 0 .. MAX_PKT_COPY
        BY <2>0, <3>4, <1>p
      <4> QED BY <3>1, <3>4, <4>1, <1>q
    <3>6. pull'.n <= MAX_PKT_COPY
      BY <2>0, <3>4, <3>5, <1>p
    <3>7. tx.head + ToCopy <= tx.size /\ rx.tail + ToCopy <= rx.size
      BY <3>3, <3>4, <1>q
    <3> QED BY <2>0, <3>1, <3>4, <3>5, <3>6, <3>7 DEF PullInv, Pulling, TxConf, IntoRx, FromTx
  <2> QED BY <2>1, <2>2
<1>9. CASE pull_copy
  <2>1. /\ pc["R"] = "copy" /\ pc'["R"] = "rxtail" /\ UNCHANGED <<tx, pull>> /\ pc'["S"] = pc["S"]
        /\ rx'.head = rx.head /\ rx'.tail = rx.tail /\ rx'.size = rx.size
    BY <1>9, <1>p DEF pull_copy, Goto, Queues
  <2> QED BY <2>1, <1>p DEF PullInv, Pulling, TxConf, IntoRx
<1>10. CASE pull_rx_tail
  <2>1. /\ pc["R"] = "rxtail" /\ pc'["R"] = "txhead" /\ UNCHANGED <<tx, pull>> /\ pc'["S"] = pc["S"]
        /\ rx'.head = rx.head /\ rx'.tail = Mask(pull.t + pull.n, rx.size) /\ rx'.size = rx.size
    BY <1>10, <1>p DEF pull_rx_tail, Goto, Queues
  <2>2. /\ pull.t = rx.tail /\ pull.n > 0 /\ pull.n <= IntoRx /\ pull.t + pull.n <= rx.size /\ pull.n \in Nat
        /\ pull.t \in Nat /\ rx.size # 0
    BY <2>1, <1>p DEF PullInv, Pulling
  <2>3. rx'.tail = IF pull.t + pull.n = rx.size THEN 0 ELSE pull.t + pull.n
    BY <2>1, <2>2, <1>q, MaskFacts
  <2>4. rx'.head # rx'.tail
    BY <2>1, <2>2, <2>3, <1>q DEF IntoRx
  <2> QED BY <2>1, <2>4, <1>p DEF PullInv, Pulling, TxConf
<1>11. CASE pull_tx_head
  <2>1. /\ pc["R"] = "txhead" /\ pc'["R"] = "pull" /\ UNCHANGED <<rx, pull>> /\ pc'["S"] = pc["S"] /\ tx'.size = tx.size
    BY <1>11, <1>p DEF pull_tx_head, Goto, Queues
  <2> QED BY <2>1, <1>p DEF PullInv, Pulling, TxConf
<1>12. CASE rx_state_returned \/ (\E h \in Slots : hcall_ldc_rx_set_qhead(h))
  BY <1>12, <1>r DEF rx_state_returned, hcall_ldc_rx_set_qhead
<1>13. CASE (\E n \in Sizes \cup {0} : hcall_ldc_rx_qconf(n)) \/ rx_qconf_updated
  BY <1>13, <1>r DEF hcall_ldc_rx_qconf, rx_qconf_updated
<1>14. CASE rx_qconf_size \/ rx_guest_exit \/ rx_reset
  BY <1>14, <1>r DEF rx_qconf_size, rx_guest_exit, rx_reset
<1> QED BY <1>1, <1>2, <1>3, <1>4, <1>5, <1>6, <1>7, <1>8, <1>9, <1>10, <1>11, <1>12, <1>13, <1>14, Cases

LEMMA InitType == Init => TypeInv
<1> SUFFICES ASSUME Init PROVE TypeInv
  OBVIOUS
<1> USE SizeFacts DEF Init
<1>1. PcTypes
  BY DEF PcTypes, S_PC, R_PC, Ends
<1>2. IntrTypes /\ StatusTypes
  BY DEF IntrTypes, StatusTypes, Owed
<1>3. CountTypes
  BY DEF CountTypes
<1>4. Queue(0) \in Queues
  BY GarbageType DEF Queue, Queues
<1>5. TxShape /\ RxShape
  BY <1>4 DEF TxShape, RxShape, TxConf, Queue, Ends
<1>6. PullInv
  BY DEF PullInv, Pulling, NoPull, Ends
<1> QED BY <1>1, <1>2, <1>3, <1>5, <1>6 DEF TypeInv

LEMMA NextType ==
  ASSUME Coordinated
  PROVE  TypeInv /\ [Next]_vars => TypeInv'
<1>1. TypeInv /\ UNCHANGED vars => TypeInv'
  BY DEF vars, queues, intr, hist, TypeInv, PcTypes, IntrTypes, StatusTypes, CountTypes, TxShape, TxConf, TxDown,
         RxShape, PullInv, Pulling, IntoRx
<1>2. TypeInv /\ Next => TypeInv'
  <2> SUFFICES ASSUME TypeInv, Next PROVE TypeInv'
    OBVIOUS
  <2>1. PcTypes /\ IntrTypes /\ StatusTypes /\ CountTypes /\ TxShape /\ RxShape
    BY DEF TypeInv
  <2> QED BY <2>1, NextPc, NextIntr, NextStatus, NextCount, NextTx, NextRx, NextPull DEF TypeInv
<1> QED BY <1>1, <1>2

(* The offsets of both queues stay inside them, and a copy never takes     *)
(* more than one hypercall may, while the sending guest leaves its queue   *)
(* alone during a copy.                                                    *)
THEOREM TypeCorrect ==
  ASSUME Coordinated
  PROVE  Spec => []TypeOK
<1>1. TypeInv => TypeOK
  <2> SUFFICES ASSUME TypeInv PROVE TypeOK
    OBVIOUS
  <2>1. /\ tx.head \in Slots /\ tx.tail \in Slots /\ tx.size \in Sizes \cup {0} /\ tx.buf \in [Slots -> 0 .. MaxPkts]
        /\ rx.head \in Slots /\ rx.tail \in Slots /\ rx.size \in Sizes \cup {0} /\ rx.buf \in [Slots -> 0 .. MaxPkts]
    BY QueueFields DEF TypeInv, TxShape, RxShape
  <2>2. /\ tx.size # 0 /\ ~TxConf => tx.head < tx.size /\ tx.tail < tx.size
        /\ rx.size # 0 /\ ~TxConf => rx.head < rx.size /\ rx.tail < rx.size
    BY DEF TypeInv, TxShape, RxShape
  <2>3. pc \in [Ends -> S_PC \cup R_PC] /\ pc["S"] \in S_PC /\ pc["R"] \in R_PC
    BY DEF TypeInv, PcTypes
  <2>4. /\ updated \in BOOLEAN /\ valid \in BOOLEAN /\ flag \in BOOLEAN
        /\ istate \in [Ends -> {"IDLE", "DELIVERED"}] /\ mondo \in [Ends -> BOOLEAN] /\ handler \in [Ends -> BOOLEAN]
        /\ owed \in {"nothing", "reset", "exit"} /\ late \in {"nothing", "reset", "exit"}
    BY DEF TypeInv, IntrTypes, StatusTypes, PcTypes, Owed
  <2>5. /\ conf \in [Ends -> Sizes \cup {0}]
        /\ next \in 1 .. MaxPkts + 1 /\ last \in 0 .. MaxPkts /\ confs \in 0 .. MaxConf
        /\ pull.n <= MAX_PKT_COPY /\ pull.left \in 0 .. MAX_PKT_COPY
    BY DEF TypeInv, CountTypes, PullInv
  <2> QED BY <2>1, <2>2, <2>3, <2>4, <2>5 DEF TypeOK
<1> QED BY <1>1, InitType, NextType, PTL DEF Spec

-----------------------------------------------------------------------------
(* Wake-ups.                                                               *)
LEMMA NextIntrInv == PcTypes /\ IntrTypes /\ IntrInv /\ Next => IntrInv'
<1> SUFFICES ASSUME PcTypes, IntrTypes, IntrInv, Next PROVE IntrInv'
  OBVIOUS
<1>p. /\ pc \in [Ends -> S_PC \cup R_PC] /\ "S" \in Ends /\ "R" \in Ends /\ handler \in [Ends -> BOOLEAN]
      /\ istate \in [Ends -> {"IDLE", "DELIVERED"}] /\ mondo \in [Ends -> BOOLEAN]
  BY DEF PcTypes, IntrTypes, Ends
<1>s. ASSUME NEW l, Goto("S", l), handler'["R"] = handler["R"], istate'["R"] = istate["R"], mondo'["R"] = mondo["R"]
      PROVE  IntrInv'
  BY <1>s, <1>p DEF Goto, IntrInv
<1>r. ASSUME NEW l, Goto("R", l), UNCHANGED <<istate, mondo, handler>>,
             handler["R"] => l \in {"get", "pull", "copy", "rxtail", "txhead", "got", "consume", "ack",
                                  "exit_chk", "exit_cas", "rx_reset"},
             pc["R"] \in {"exit_chk", "exit_cas", "rx_reset", "ack"} => l \in {"exit_chk", "exit_cas", "rx_reset", "ack"}
      PROVE  IntrInv'
  BY <1>r, <1>p DEF Goto, IntrInv
<1>1. ASSUME NEW e \in Ends, notify_chk(e) PROVE IntrInv'
  <2>1. CASE e = "S"
    BY <1>1, <2>1, <1>s DEF notify_chk, intr
  <2>2. CASE e = "R"
    <3>0. "R" # "S"
      OBVIOUS
    <3>1. /\ pc["R"] = "exit_chk" \/ pc["R"] = "chk"
          /\ pc["R"] = "exit_chk" => Notified("R") = "rx_reset"
          /\ pc["R"] = "chk" => Notified("R") = "get"
      <4>1. pc["R"] = "exit_chk" \/ pc["R"] = "chk"
        BY <1>1, <2>2 DEF notify_chk
      <4>2. pc["R"] = "exit_chk" => Notified("R") = "rx_reset"
        BY <3>0 DEF Notified
      <4>3. pc["R"] = "chk" => Notified("R") = "get"
        BY <3>0 DEF Notified
      <4> QED BY <4>1, <4>2, <4>3
    <3>2. handler["R"] => pc["R"] # "chk"
      BY DEF IntrInv
    <3> QED BY <1>1, <2>2, <3>1, <3>2, <1>r DEF notify_chk, intr
  <2> QED BY <2>1, <2>2 DEF Ends
<1>2. ASSUME NEW e \in Ends, notify_cas(e) PROVE IntrInv'
  <2>1. CASE e = "S"
    <3>1. /\ istate'["R"] = "DELIVERED" /\ mondo'["R"] = (mondo["R"] \/ istate["R"] = "IDLE") /\ UNCHANGED handler
          /\ pc'["R"] = pc["R"]
      BY <1>2, <2>1, <1>p DEF notify_cas, Deliver, Peer, Goto
    <3> QED BY <3>1, <1>p DEF IntrInv
  <2>2. CASE e = "R"
    <3>0. "R" # "S"
      OBVIOUS
    <3>1. \/ pc["R"] = "exit_cas" /\ pc'["R"] = "rx_reset"
          \/ pc["R"] = "cas" /\ pc'["R"] = "get"
      <4>1. /\ pc["R"] = "exit_cas" \/ pc["R"] = "cas"
            /\ pc'["R"] = Notified("R")
        BY <1>2, <2>2, <1>p DEF notify_cas, Goto
      <4>2. pc["R"] = "exit_cas" => Notified("R") = "rx_reset"
        BY <3>0 DEF Notified
      <4>3. pc["R"] = "cas" => Notified("R") = "get"
        BY <3>0 DEF Notified
      <4> QED BY <4>1, <4>2, <4>3
    <3>2. istate'["R"] = istate["R"] /\ mondo'["R"] = mondo["R"] /\ UNCHANGED handler
      BY <1>2, <2>2, <1>p DEF notify_cas, Deliver, Peer
    <3> QED BY <3>1, <3>2 DEF IntrInv
  <2> QED BY <2>1, <2>2 DEF Ends
<1>3. ASSUME NEW e \in Ends, take_mondo(e) \/ ldc_vintr_setstate(e) PROVE IntrInv'
  <2>1. CASE e = "S"
    BY <1>3, <2>1, <1>p, <1>s DEF take_mondo, ldc_vintr_setstate
  <2>2. CASE e = "R" /\ take_mondo("R")
    <3>1. handler'["R"] /\ pc'["R"] = "get"
      BY <2>2, <1>p DEF take_mondo, Goto
    <3> QED BY <3>1 DEF IntrInv
  <2>3. CASE e = "R" /\ ldc_vintr_setstate("R")
    <3>1. ~handler'["R"] /\ istate'["R"] = "IDLE"
      BY <2>3, <1>p DEF ldc_vintr_setstate
    <3> QED BY <3>1 DEF IntrInv
  <2> QED BY <1>3, <2>1, <2>2, <2>3 DEF Ends
<1>4. CASE (\E v \in BOOLEAN : ldc_vintr_setvalid(v)) \/ setvalid_idle \/ hv_ldc_chk_pkts
  <2>1. ~handler["R"]
    BY <1>4 DEF ldc_vintr_setvalid, setvalid_idle, hv_ldc_chk_pkts, IntrInv
  <2> QED BY <1>4, <2>1, <1>r DEF ldc_vintr_setvalid, setvalid_idle, hv_ldc_chk_pkts, intr
<1>5. CASE chk_pkts_cas
  <2>1. /\ istate'["R"] = "DELIVERED" /\ mondo'["R"] = (mondo["R"] \/ istate["R"] = "IDLE") /\ UNCHANGED handler
        /\ pc'["R"] = "run" /\ pc["R"] = "pkts_cas"
    BY <1>5, <1>p DEF chk_pkts_cas, Deliver, Goto
  <2> QED BY <2>1, <1>p DEF IntrInv
<1>6. CASE (\E t \in Slots : hcall_ldc_tx_set_qtail(t)) \/ guest_to_guest_tx_set_tail
           \/ (\E n \in Sizes \cup {0} : hcall_ldc_tx_qconf(n)) \/ tx_qconf_tail
  BY <1>6, <1>s DEF hcall_ldc_tx_set_qtail, guest_to_guest_tx_set_tail, hcall_ldc_tx_qconf, tx_qconf_tail, intr
<1>7. CASE tx_qconf_head \/ tx_qconf_size \/ tx_guest_exit \/ tx_reset \/ tx_guest_boot
           \/ hcall_ldc_tx_get_state \/ status_clear \/ status_size
  BY <1>7, <1>s, <1>p DEF tx_qconf_head, tx_qconf_size, tx_guest_exit, tx_reset, tx_guest_boot, hcall_ldc_tx_get_state,
                          status_clear, status_size, intr
<1>8. CASE hcall_ldc_rx_get_state \/ guest_to_guest_pull_data \/ pull_copy \/ pull_rx_tail \/ pull_tx_head
           \/ rx_state_returned
  BY <1>8, <1>r DEF hcall_ldc_rx_get_state, guest_to_guest_pull_data, pull_copy, pull_rx_tail, pull_tx_head,
                    rx_state_returned, intr
<1>9. CASE \E h \in Slots : hcall_ldc_rx_set_qhead(h)
  BY <1>9, <1>r DEF hcall_ldc_rx_set_qhead, intr
<1>10. CASE (\E n \in Sizes \cup {0} : hcall_ldc_rx_qconf(n)) \/ rx_qconf_updated \/ rx_qconf_size
  <2>1. ~handler["R"]
    BY <1>10 DEF hcall_ldc_rx_qconf, rx_qconf_updated, rx_qconf_size, IntrInv
  <2> QED BY <1>10, <2>1, <1>r DEF hcall_ldc_rx_qconf, rx_qconf_updated, rx_qconf_size, intr
<1>11. CASE rx_guest_exit \/ rx_reset
  <2>1. pc'["R"] \in {"exit_chk", "ack"}
    BY <1>11, <1>p DEF rx_guest_exit, rx_reset, Goto
  <2> QED BY <2>1 DEF IntrInv
<1> QED BY <1>1, <1>2, <1>3, <1>4, <1>5, <1>6, <1>7, <1>8, <1>9, <1>10, <1>11, Cases

(* Steps of either end that do not touch what the receiver waits for.      *)
LEMMA WakeFrameS ==
  ASSUME WakeInv, pc'["R"] = pc["R"], UNCHANGED <<rx, valid, handler>>, mondo["R"] => mondo'["R"],
         \/ UNCHANGED tx /\ (pc["S"] \notin {"peek", "chk", "cas"} \/ pc'["S"] \in {"peek", "chk", "cas"})
            /\ (TxConf => TxConf')
         \/ TxEmpty'
         \/ pc'["S"] \in {"peek", "chk", "cas"}
  PROVE  WakeInv'
  BY DEF WakeInv, Returning, TxEmpty, TxConf

LEMMA WakeFrameR ==
  ASSUME ~Returning'
  PROVE  WakeInv'
  BY DEF WakeInv

LEMMA NextWake ==
  ASSUME TypeInv, IntrInv, WakeInv, Coordinated, Next
  PROVE  WakeInv'
<1>p. /\ pc \in [Ends -> S_PC \cup R_PC] /\ "S" \in Ends /\ "R" \in Ends /\ handler \in [Ends -> BOOLEAN]
      /\ istate \in [Ends -> {"IDLE", "DELIVERED"}] /\ mondo \in [Ends -> BOOLEAN] /\ valid \in BOOLEAN
      /\ tx \in Queues /\ rx \in Queues /\ TxShape /\ RxShape /\ PullInv
  BY DEF TypeInv, PcTypes, IntrTypes, TxShape, RxShape, Ends
(* What is left to the receiver when it stops looking by itself. *)
<1>i. pc["R"] \in {"run", "pkts", "pkts_cas", "valid", "got"} /\ ~handler["R"] /\ ~mondo["R"] => istate["R"] = "IDLE"
  BY <1>p DEF IntrInv
<1>h. pc["R"] \in {"run", "pkts", "pkts_cas", "valid"} => ~handler["R"]
  BY DEF IntrInv
<1>r. ASSUME NEW l, Goto("R", l), l \notin {"run", "got"} PROVE WakeInv'
  BY <1>r, <1>p, WakeFrameR DEF Goto, Returning
<1>s. ASSUME NEW l, Goto("S", l), UNCHANGED <<tx, rx, valid, handler>>, mondo'["R"] = mondo["R"],
             pc["S"] \notin {"peek", "chk", "cas"}, ~TxConf
      PROVE  WakeInv'
  <2>1. pc'["R"] = pc["R"] /\ pc'["S"] = l
    BY <1>s, <1>p DEF Goto
  <2> QED BY <1>s, <2>1, WakeFrameS
<1>1. ASSUME NEW e \in Ends, notify_chk(e) PROVE WakeInv'
  <2>1. CASE e = "R"
    <3>1. PICK l : Goto("R", l) /\ l \in {"cas", "exit_cas", "get", "rx_reset"}
      <4>1. Notified("R") \in {"get", "rx_reset"}
        BY DEF Notified
      <4> QED BY <1>1, <2>1, <4>1 DEF notify_chk
    <3> QED BY <3>1, <1>r
  <2>2. CASE e = "S"
    <3>0. Peer("S") = "R"
      BY DEF Peer
    <3>1. /\ pc["S"] \in {"chk", "exit_chk"} /\ pc'["R"] = pc["R"] /\ UNCHANGED <<tx, rx, valid, handler, mondo>>
          /\ valid /\ istate["R"] = "IDLE" /\ pc["S"] = "chk" => pc'["S"] = "cas"
          /\ pc["S"] = "exit_chk" => pc'["S"] \in {"exit_cas", "tx_exit"}
      BY <1>1, <2>2, <1>p, <3>0 DEF notify_chk, Notified, Goto, queues, intr
    <3>2. CASE pc["S"] = "exit_chk"
      BY <3>1, <3>2, WakeFrameS DEF TxConf
    <3>3. CASE pc["S"] = "chk" /\ valid /\ istate["R"] = "IDLE"
      BY <3>1, <3>3, WakeFrameS
    <3>4. CASE pc["S"] = "chk" /\ ~(valid /\ istate["R"] = "IDLE")
      BY <3>1, <3>4, <1>i, <1>h DEF WakeInv, Returning
    <3> QED BY <3>1, <3>2, <3>3, <3>4
  <2> QED BY <2>1, <2>2 DEF Ends
<1>2. ASSUME NEW e \in Ends, notify_cas(e) PROVE WakeInv'
  <2>1. CASE e = "R"
    <3>1. PICK l : Goto("R", l) /\ l \in {"get", "rx_reset"}
      BY <1>2, <2>1 DEF notify_cas, Notified
    <3> QED BY <3>1, <1>r
  <2>2. CASE e = "S"
    <3>1. /\ pc'["R"] = pc["R"] /\ UNCHANGED <<tx, rx, valid, handler>>
          /\ mondo'["R"] = (mondo["R"] \/ istate["R"] = "IDLE")
      BY <1>2, <2>2, <1>p DEF notify_cas, Deliver, Peer, Goto, queues
    <3> QED BY <3>1, <1>i, <1>h DEF WakeInv, Returning
  <2> QED BY <2>1, <2>2 DEF Ends
<1>3. ASSUME NEW e \in Ends, take_mondo(e) PROVE WakeInv'
  <2>1. CASE e = "S"
    <3>1. /\ pc["S"] = "run" /\ pc'["R"] = pc["R"] /\ UNCHANGED <<tx, rx, valid>>
          /\ mondo'["R"] = mondo["R"] /\ handler'["R"] = handler["R"]
      BY <1>3, <2>1, <1>p DEF take_mondo, Goto, queues
    <3> QED BY <3>1 DEF WakeInv, Returning, TxEmpty, TxConf
  <2>2. CASE e = "R"
    BY <1>3, <2>2, <1>r DEF take_mondo
  <2> QED BY <2>1, <2>2 DEF Ends
<1>4. ASSUME NEW e \in Ends, ldc_vintr_setstate(e) PROVE WakeInv'
  <2>1. CASE e = "S"
    <3>1. /\ pc["S"] = "ack" /\ pc'["R"] = pc["R"] /\ UNCHANGED <<tx, rx, valid, mondo>>
          /\ handler'["R"] = handler["R"]
      BY <1>4, <2>1, <1>p DEF ldc_vintr_setstate, Goto, queues
    <3> QED BY <3>1 DEF WakeInv, Returning, TxEmpty, TxConf
  <2>2. CASE e = "R" /\ valid
    BY <1>4, <2>2, <1>r DEF ldc_vintr_setstate
  <2>3. CASE e = "R" /\ ~valid
    BY <1>4, <2>3 DEF ldc_vintr_setstate, WakeInv
  <2> QED BY <2>1, <2>2, <2>3 DEF Ends
<1>5. ASSUME NEW v \in BOOLEAN, ldc_vintr_setvalid(v) PROVE WakeInv'
  <2>1. CASE v
    BY <1>5, <2>1, <1>r DEF ldc_vintr_setvalid
  <2>2. CASE ~v
    BY <1>5, <2>2 DEF ldc_vintr_setvalid, WakeInv
  <2> QED BY <2>1, <2>2
<1>6. CASE setvalid_idle
  <2>1. CASE istate["R"] = "IDLE"
    BY <1>6, <2>1, <1>r DEF setvalid_idle
  <2>2. CASE istate["R"] # "IDLE"
    <3>1. mondo["R"]
      BY <1>6, <2>2, <1>i, <1>h DEF setvalid_idle
    <3> QED BY <1>6, <3>1 DEF setvalid_idle, intr, WakeInv
  <2> QED BY <2>1, <2>2
<1>7. CASE hv_ldc_chk_pkts
  <2>1. CASE rx.head # rx.tail \/ tx.head # tx.tail
    BY <1>7, <2>1, <1>r DEF hv_ldc_chk_pkts
  <2>2. CASE ~(rx.head # rx.tail \/ tx.head # tx.tail)
    BY <1>7, <2>2 DEF hv_ldc_chk_pkts, queues, WakeInv, TxEmpty
  <2> QED BY <2>1, <2>2
<1>8. CASE chk_pkts_cas
  <2>1. mondo'["R"] = (mondo["R"] \/ istate["R"] = "IDLE") /\ pc["R"] = "pkts_cas"
    BY <1>8, <1>p DEF chk_pkts_cas, Deliver
  <2> QED BY <2>1, <1>i, <1>h DEF WakeInv
<1>9. ASSUME NEW t \in Slots, hcall_ldc_tx_set_qtail(t) PROVE WakeInv'
  <2>1. pc'["R"] = pc["R"] /\ pc'["S"] = "peek" /\ UNCHANGED <<rx, valid, handler, mondo>>
    BY <1>9, <1>p DEF hcall_ldc_tx_set_qtail, Goto, intr
  <2> QED BY <2>1, WakeFrameS
<1>10. CASE guest_to_guest_tx_set_tail
  <2>1. /\ pc["S"] = "peek" /\ pc'["R"] = pc["R"] /\ UNCHANGED <<tx, rx, valid, handler, mondo>>
        /\ pc'["S"] = IF rx.size # 0 /\ rx.head = rx.tail THEN "chk" ELSE "run"
    BY <1>10, <1>p DEF guest_to_guest_tx_set_tail, Goto, queues, intr
  <2> QED BY <2>1 DEF WakeInv, Returning
<1>11. CASE (\E n \in Sizes \cup {0} : hcall_ldc_tx_qconf(n)) \/ tx_guest_exit \/ tx_qconf_tail \/ tx_qconf_head
  <2>1. pc'["R"] = pc["R"] /\ UNCHANGED <<rx, valid, handler, mondo>> /\ TxConf'
    BY <1>11, <1>p DEF hcall_ldc_tx_qconf, tx_guest_exit, tx_qconf_tail, tx_qconf_head, Goto, intr, TxConf
  <2> QED BY <2>1, WakeFrameS DEF TxEmpty
<1>12. CASE tx_qconf_size \/ tx_reset \/ tx_guest_boot
  <2>1. pc'["R"] = pc["R"] /\ UNCHANGED <<rx, valid, handler>> /\ mondo'["R"] = mondo["R"]
    BY <1>12, <1>p DEF tx_qconf_size, tx_reset, tx_guest_boot, Goto, intr, queues
  <2>2. TxEmpty'
    BY <1>12, <1>p DEF tx_qconf_size, tx_reset, tx_guest_boot, queues, TxShape, TxDown, TxEmpty, Queues
  <2> QED BY <2>1, <2>2, WakeFrameS
<1>13. CASE hcall_ldc_tx_get_state \/ status_clear \/ status_size
  BY <1>13, <1>s DEF hcall_ldc_tx_get_state, status_clear, status_size, queues, intr, TxConf
<1>14. CASE hcall_ldc_rx_get_state
  <2>1. CASE rx.size = 0
    BY <1>14, <2>1 DEF hcall_ldc_rx_get_state, queues, WakeInv
  <2>2. CASE rx.size # 0 /\ tx.size # 0
    BY <1>14, <2>2, <1>r DEF hcall_ldc_rx_get_state
  <2>3. CASE rx.size # 0 /\ tx.size = 0
    <3>1. UNCHANGED <<tx, rx>> /\ pc'["R"] = "got"
      BY <1>14, <2>3, <1>p DEF hcall_ldc_rx_get_state, queues, Goto
    <3> QED BY <2>3, <3>1 DEF WakeInv, Returning, TxEmpty
  <2> QED BY <2>1, <2>2, <2>3
<1>15. CASE guest_to_guest_pull_data
  <2>0. /\ tx.size # 0 /\ rx.size # 0 /\ ~TxConf /\ pull.left \in 0 .. MAX_PKT_COPY /\ pc["R"] = "pull"
        /\ (pull.left < MAX_PKT_COPY => rx.head # rx.tail) /\ UNCHANGED <<tx, rx>>
    BY <1>15, <1>p DEF guest_to_guest_pull_data, PullInv, Pulling, queues
  <2>1. CASE pull.left <= 0 \/ FromTx = 0 \/ IntoRx = 0
    <3>1. pc'["R"] = "got" /\ pc'["S"] = pc["S"]
      BY <1>15, <2>1, <1>p DEF guest_to_guest_pull_data, Goto
    <3>2. /\ tx.head < tx.size /\ tx.tail < tx.size /\ rx.head < rx.size /\ rx.tail < rx.size
          /\ tx.head \in Nat /\ tx.tail \in Nat /\ tx.size \in Nat
          /\ rx.head \in Nat /\ rx.tail \in Nat /\ rx.size \in {2, 4, 8, 16}
      BY <2>0, <1>p, QueueFields DEF TxShape, RxShape
    <3>3. rx.head = rx.tail => IntoRx # 0 /\ ~(pull.left <= 0)
      BY <2>0, <3>2, SizeFacts DEF IntoRx
    <3>4. rx.head = rx.tail => tx.head = tx.tail
      BY <2>1, <3>2, <3>3 DEF FromTx
    <3> QED BY <2>0, <3>1, <3>4 DEF WakeInv, Returning, TxEmpty
  <2>2. CASE ~(pull.left <= 0 \/ FromTx = 0 \/ IntoRx = 0)
    BY <1>15, <2>2, <1>r DEF guest_to_guest_pull_data
  <2> QED BY <2>1, <2>2
<1>16. CASE pull_copy \/ pull_rx_tail \/ pull_tx_head \/ (\E h \in Slots : hcall_ldc_rx_set_qhead(h))
  BY <1>16, <1>r DEF pull_copy, pull_rx_tail, pull_tx_head, hcall_ldc_rx_set_qhead
<1>17. CASE rx_state_returned
  <2>1. CASE rx.head # rx.tail \/ handler["R"]
    BY <1>17, <2>1, <1>r DEF rx_state_returned
  <2>2. CASE ~(rx.head # rx.tail \/ handler["R"])
    <3>1. pc["R"] = "got" /\ UNCHANGED <<tx, rx, valid, mondo, handler>> /\ pc'["S"] = pc["S"]
      BY <1>17, <1>p DEF rx_state_returned, queues, intr, Goto
    <3> QED BY <2>2, <3>1 DEF WakeInv, Returning, TxEmpty, TxConf
  <2> QED BY <2>1, <2>2
<1>18. CASE (\E n \in Sizes \cup {0} : hcall_ldc_rx_qconf(n)) \/ rx_qconf_updated \/ rx_qconf_size
  BY <1>18, <1>r DEF hcall_ldc_rx_qconf, rx_qconf_updated, rx_qconf_size
<1>19. CASE rx_guest_exit \/ rx_reset
  BY <1>19, <1>r DEF rx_guest_exit, rx_reset
<1> QED BY <1>1, <1>2, <1>3, <1>4, <1>5, <1>6, <1>7, <1>8, <1>9, <1>10, <1>11, <1>12, <1>13, <1>14, <1>15, <1>16,
           <1>17, <1>18, <1>19, Cases

LEMMA EmptyWindow ==
  ASSUME NEW q, NEW from
  PROVE  Window(q, from, 0) = <<>>
<1>1. 1 .. 0 = {}
  OBVIOUS
<1>2. Window(q, from, 0) = [i \in {} |-> q.buf[(from + i - 1) % q.size]]
  BY <1>1 DEF Window
<1> QED BY <1>2

(* No wake-up is lost: whatever the interleaving of a send, its peek at    *)
(* the receive queue and its notification with the receiver's reads,       *)
(* acknowledgements and changes of its interrupt, packets never wait       *)
(* behind an idle receiver without an interrupt on its way.                *)
THEOREM WakeupsArrive ==
  ASSUME Coordinated
  PROVE  Spec => []NoLostWakeup
<1>1. Init => IntrInv /\ WakeInv
  BY DEF Init, IntrInv, WakeInv, Ends
<1>2. TypeInv /\ IntrInv /\ WakeInv /\ [Next]_vars => IntrInv' /\ WakeInv'
  <2>1. IntrInv /\ WakeInv /\ UNCHANGED vars => IntrInv' /\ WakeInv'
    BY DEF vars, queues, intr, IntrInv, WakeInv, Returning, TxEmpty, TxConf
  <2>2. TypeInv => PcTypes /\ IntrTypes
    BY DEF TypeInv
  <2> QED BY <2>1, <2>2, NextIntrInv, NextWake
<1>3. TypeInv /\ WakeInv => NoLostWakeup
  <2> SUFFICES ASSUME TypeInv, WakeInv, pc = [e \in Ends |-> "run"], valid, ~mondo["R"], rx.size # 0
               PROVE  InRx \o InTx = <<>>
    BY DEF NoLostWakeup
  <2>1. pc["S"] = "run" /\ pc["R"] = "run"
    BY DEF Ends
  <2>2. rx.head = rx.tail /\ TxEmpty /\ ~TxConf
    BY <2>1 DEF WakeInv, Returning, TxConf
  <2>3. rx \in Queues /\ tx \in Queues
    BY DEF TypeInv, TxShape, RxShape
  <2>4. /\ rx.size \in {2, 4, 8, 16} /\ rx.head \in Nat /\ tx.head \in Nat
        /\ tx.size # 0 => tx.size \in {2, 4, 8, 16} /\ tx.head = tx.tail
    BY <2>2, <2>3, QueueFields DEF TxEmpty
  <2>5. Used(rx) = 0
    BY <2>2, <2>4 DEF Used
  <2>6. InRx = <<>>
    BY <2>1, <2>5, EmptyWindow DEF InRx
  <2>7. TxFrom = tx.head
    BY <2>1 DEF TxFrom
  <2>8. tx.size # 0 => (tx.tail - TxFrom) % tx.size = 0
    BY <2>4, <2>7
  <2>9. InTx = <<>>
    BY <2>8, EmptyWindow DEF InTx
  <2> QED BY <2>6, <2>9
<1> QED BY <1>1, <1>2, <1>3, InitType, NextType, PTL DEF Spec

-----------------------------------------------------------------------------
(* The channel is a FIFO.                                                  *)

(* The elements copied are those of the transmit queue until the receive   *)
(* queue is seen to have them.                                             *)
CopyInv == pc["R"] = "rxtail" => \A j \in 0 .. pull.n - 1 : rx.buf[pull.t + j] = tx.buf[pull.h + j]

(* Where the receive queue exists, and has something in it.                *)
InUse ==
  /\ pc["R"] \in {"got", "consume"} => rx.size # 0
  /\ pc["R"] = "consume" => rx.head # rx.tail
  /\ pc["R"] \in {"exit_chk", "exit_cas", "rx_reset"} => rx.size = 0

FifoInv == CopyInv /\ InUse

-----------------------------------------------------------------------------
(* Positions in a queue.                                                   *)

LEMMA ModSub ==
  ASSUME NEW n \in {2, 4, 8, 16}, NEW a \in 0 .. n - 1, NEW b \in 0 .. n
  PROVE  (a - b) % n = IF a >= b THEN a - b ELSE a - b + n
<1>2. CASE n = 2
  BY <1>2
<1>4. CASE n = 4
  BY <1>4
<1>8. CASE n = 8
  BY <1>8
<1>16. CASE n = 16
  BY <1>16
<1> QED BY <1>2, <1>4, <1>8, <1>16

LEMMA ModAdd ==
  ASSUME NEW n \in {2, 4, 8, 16}, NEW a \in 0 .. 2 * n - 1
  PROVE  a % n = IF a < n THEN a ELSE a - n
<1>2. CASE n = 2
  BY <1>2
<1>4. CASE n = 4
  BY <1>4
<1>8. CASE n = 8
  BY <1>8
<1>16. CASE n = 16
  BY <1>16
<1> QED BY <1>2, <1>4, <1>8, <1>16

LEMMA ModMod ==
  ASSUME NEW n \in {2, 4, 8, 16}, NEW a \in Int, NEW b \in Int
  PROVE  ((a % n) + b) % n = (a + b) % n
<1>2. CASE n = 2
  BY <1>2
<1>4. CASE n = 4
  BY <1>4
<1>8. CASE n = 8
  BY <1>8
<1>16. CASE n = 16
  BY <1>16
<1> QED BY <1>2, <1>4, <1>8, <1>16

-----------------------------------------------------------------------------
(* Windows of a circular buffer.                                           *)
Pkts == 0 .. MaxPkts

LEMMA WindowSeq ==
  ASSUME NEW q \in Queues, q.size # 0, NEW from \in Nat, NEW n \in Nat
  PROVE  /\ Window(q, from, n) \in Seq(Pkts) /\ Len(Window(q, from, n)) = n
         /\ \A i \in 1 .. n : Window(q, from, n)[i] = q.buf[(from + i - 1) % q.size]
<1>1. ASSUME NEW i \in 1 .. n PROVE q.buf[(from + i - 1) % q.size] \in Pkts
  <2>1. (from + i - 1) % q.size \in 0 .. q.size - 1
    BY QueueFields, ModRange
  <2>2. (from + i - 1) % q.size \in Slots
    BY <2>1, QueueFields, SizeFacts
  <2> QED BY <2>2, QueueFields DEF Pkts
<1>2. Window(q, from, n) \in [1 .. n -> Pkts]
  BY <1>1 DEF Window
<1> QED BY <1>2 DEF Window

(* Two windows with the same elements are the same sequence.               *)
LEMMA WindowSame ==
  ASSUME NEW p \in Queues, NEW q \in Queues, p.size # 0, q.size # 0, NEW from \in Nat, NEW to \in Nat, NEW n \in Nat,
         \A i \in 1 .. n : p.buf[(from + i - 1) % p.size] = q.buf[(to + i - 1) % q.size]
  PROVE  Window(p, from, n) = Window(q, to, n)
  BY DEF Window

LEMMA IsConcat ==
  ASSUME NEW S, NEW a \in Seq(S), NEW b \in Seq(S), NEW c \in Seq(S), Len(c) = Len(a) + Len(b),
         \A i \in 1 .. Len(a) : c[i] = a[i], \A i \in 1 .. Len(b) : c[Len(a) + i] = b[i]
  PROVE  c = a \o b
<1>1. /\ a \o b \in Seq(S) /\ Len(a \o b) = Len(a) + Len(b) /\ Len(a) \in Nat /\ Len(b) \in Nat
      /\ \A i \in 1 .. Len(a) + Len(b) : (a \o b)[i] = IF i <= Len(a) THEN a[i] ELSE b[i - Len(a)]
  BY ConcatProperties, LenProperties
<1>2. ASSUME NEW i \in 1 .. Len(c) PROVE c[i] = (a \o b)[i]
  <2>1. CASE i <= Len(a)
    BY <2>1, <1>1
  <2>2. CASE i > Len(a)
    <3>1. i - Len(a) \in 1 .. Len(b) /\ Len(a) + (i - Len(a)) = i
      BY <2>2, <1>1
    <3> QED BY <2>2, <3>1, <1>1
  <2> QED BY <2>1, <2>2, <1>1
<1> QED BY <1>1, <1>2, SeqEqual

LEMMA WindowSplit ==
  ASSUME NEW q \in Queues, q.size # 0, NEW from \in Nat, NEW n \in Nat, NEW k \in Nat
  PROVE  Window(q, from, n + k) = Window(q, from, n) \o Window(q, from + n, k)
<1> DEFINE a == Window(q, from, n)  b == Window(q, from + n, k)  c == Window(q, from, n + k)
<1>0. from + n \in Nat /\ n + k \in Nat
  OBVIOUS
<1>a. a \in Seq(Pkts) /\ Len(a) = n /\ \A i \in 1 .. n : a[i] = q.buf[(from + i - 1) % q.size]
  BY WindowSeq
<1>b. b \in Seq(Pkts) /\ Len(b) = k /\ \A i \in 1 .. k : b[i] = q.buf[(from + n + i - 1) % q.size]
  BY <1>0, WindowSeq
<1>c. c \in Seq(Pkts) /\ Len(c) = n + k /\ \A i \in 1 .. n + k : c[i] = q.buf[(from + i - 1) % q.size]
  BY <1>0, WindowSeq
<1>d. \A i \in 1 .. n : c[i] = a[i]
  BY <1>a, <1>c
<1>e. ASSUME NEW i \in 1 .. k PROVE c[n + i] = b[i]
  <2>1. n + i \in 1 .. n + k /\ from + (n + i) - 1 = from + n + i - 1
    OBVIOUS
  <2> QED BY <1>b, <1>c, <2>1
<1> HIDE DEF a, b, c
<1>4. c = a \o b
  BY <1>a, <1>b, <1>c, <1>d, <1>e, IsConcat
<1> QED BY <1>4 DEF a, b, c

LEMMA WindowShift ==
  ASSUME NEW q \in Queues, q.size # 0, NEW from \in Nat, NEW n \in Nat
  PROVE  Window(q, from % q.size, n) = Window(q, from, n)
<1>1. from % q.size \in Nat /\ q.size \in {2, 4, 8, 16}
  BY QueueFields, ModRange
<1>2. ASSUME NEW i \in 1 .. n PROVE q.buf[((from % q.size) + i - 1) % q.size] = q.buf[(from + i - 1) % q.size]
  <2>1. ((from % q.size) + (i - 1)) % q.size = (from + (i - 1)) % q.size
    BY <1>1, ModMod
  <2>2. /\ (from % q.size) + (i - 1) = (from % q.size) + i - 1
        /\ from + (i - 1) = from + i - 1
    BY <1>1
  <2> QED BY <2>1, <2>2
<1> QED BY <1>1, <1>2, WindowSame

(* The end of a concatenation.                                             *)
LEMMA DropFirst ==
  ASSUME NEW S, NEW a \in Seq(S), NEW b \in Seq(S)
  PROVE  SubSeq(a \o b, Len(a) + 1, Len(a \o b)) = b
<1> DEFINE c == SubSeq(a \o b, Len(a) + 1, Len(a \o b))
<1>1. /\ a \o b \in Seq(S) /\ Len(a \o b) = Len(a) + Len(b) /\ Len(a) \in Nat /\ Len(b) \in Nat
      /\ \A i \in 1 .. Len(a) + Len(b) : (a \o b)[i] = IF i <= Len(a) THEN a[i] ELSE b[i - Len(a)]
  BY ConcatProperties, LenProperties
<1>2. \A i \in Len(a) + 1 .. Len(a \o b) : (a \o b)[i] \in S
  BY <1>1, ElementOfSeq
<1>3. /\ c \in Seq(S) /\ Len(c) = Len(b)
      /\ \A i \in 1 .. Len(b) : c[i] = (a \o b)[Len(a) + i]
  BY <1>1, <1>2, SubSeqProperties
<1>4. \A i \in 1 .. Len(b) : c[i] = b[i]
  BY <1>1, <1>3
<1> QED BY <1>3, <1>4, SeqEqual

LEMMA KeepFirst ==
  ASSUME NEW S, NEW a \in Seq(S), NEW b \in Seq(S)
  PROVE  SubSeq(a \o b, 1, Len(a)) = a
<1> DEFINE c == SubSeq(a \o b, 1, Len(a))
<1>1. /\ a \o b \in Seq(S) /\ Len(a \o b) = Len(a) + Len(b) /\ Len(a) \in Nat /\ Len(b) \in Nat
      /\ \A i \in 1 .. Len(a) + Len(b) : (a \o b)[i] = IF i <= Len(a) THEN a[i] ELSE b[i - Len(a)]
  BY ConcatProperties, LenProperties
<1>2. \A i \in 1 .. Len(a) : (a \o b)[i] \in S
  BY <1>1, ElementOfSeq
<1>3. /\ c \in Seq(S) /\ Len(c) = Len(a)
      /\ \A i \in 1 .. Len(a) : c[i] = (a \o b)[i]
  BY <1>1, <1>2, SubSeqProperties
<1>4. \A i \in 1 .. Len(a) : c[i] = a[i]
  BY <1>1, <1>3
<1> QED BY <1>3, <1>4, SeqEqual
-----------------------------------------------------------------------------
(* What a send does to the transmit queue.                                 *)

(* The distance of element i from the tail, and the elements in use.       *)
Beyond(i) == (i - tx.tail) % tx.size
Unread == (tx.tail - tx.head) % tx.size

(* The elements between the head and the old tail stay, the new ones       *)
(* follow.                                                                 *)
LEMMA SendBuf ==
  ASSUME TypeInv, NEW t \in Slots, hcall_ldc_tx_set_qtail(t)
  PROVE  /\ tx.size \in {2, 4, 8, 16} /\ tx.size \in Nat /\ tx \in Queues /\ ~TxConf
         /\ tx.head \in 0 .. tx.size - 1 /\ tx.tail \in 0 .. tx.size - 1 /\ t \in 0 .. tx.size - 1
         /\ Beyond(t) \in 1 .. tx.size - 1 /\ Unread \in 0 .. tx.size - 1 /\ Unread + Beyond(t) < tx.size
         /\ t = IF tx.tail + Beyond(t) < tx.size THEN tx.tail + Beyond(t) ELSE tx.tail + Beyond(t) - tx.size
         /\ Unread = IF tx.tail >= tx.head THEN tx.tail - tx.head ELSE tx.tail - tx.head + tx.size
         /\ next + Beyond(t) - 1 <= MaxPkts
         /\ tx' \in Queues /\ tx'.size = tx.size /\ tx'.head = tx.head /\ tx'.tail = t
         /\ \A i \in 0 .. tx.size - 1 : tx'.buf[i] = IF Beyond(i) < Beyond(t) THEN next + Beyond(i) ELSE tx.buf[i]
<1> DEFINE s == tx.size
           k == Beyond(t)
<1>1. tx \in Queues /\ s # 0 /\ ~TxConf /\ ValidTail(t) /\ next + k - 1 <= MaxPkts
  BY DEF hcall_ldc_tx_set_qtail, TypeInv, TxShape, TxConf, Beyond
<1>2. /\ s \in {2, 4, 8, 16} /\ s \in Sizes /\ tx.head \in 0 .. s - 1 /\ tx.tail \in 0 .. s - 1 /\ t \in 0 .. s - 1
      /\ s \in Nat
  BY <1>1, QueueFields, SizeFacts DEF TypeInv, TxShape, ValidTail
<1>3. k = (IF t >= tx.tail THEN t - tx.tail ELSE t - tx.tail + s)
  BY <1>2, ModSub DEF Beyond
<1>4. Unread = (IF tx.tail >= tx.head THEN tx.tail - tx.head ELSE tx.tail - tx.head + s)
  BY <1>2, ModSub DEF Unread
<1>5. /\ k \in 1 .. s - 1 /\ Unread \in 0 .. s - 1 /\ Unread + k < s
      /\ t = IF tx.tail + k < s THEN tx.tail + k ELSE tx.tail + k - s
  <2> HIDE DEF k
  <2> QED BY <1>1, <1>2, <1>3, <1>4 DEF ValidTail
<1> DEFINE nb == [i \in Slots |-> IF i < s /\ Beyond(i) < k THEN next + Beyond(i) ELSE tx.buf[i]]
<1>6. tx' = [tx EXCEPT !.tail = t, !.buf = nb]
  BY DEF hcall_ldc_tx_set_qtail, Beyond
<1>7. ASSUME NEW i \in Slots PROVE (IF i < s /\ Beyond(i) < k THEN next + Beyond(i) ELSE tx.buf[i]) \in 0 .. MaxPkts
  <2>1. CASE i < s /\ Beyond(i) < k
    <3>1. i - tx.tail \in Int
      BY <1>2, SizeFacts
    <3>2. Beyond(i) \in 0 .. s - 1
      BY <3>1, <1>2, ModRange DEF Beyond
    <3>3. next \in 1 .. MaxPkts + 1 /\ MaxPkts \in Nat
      BY SizeFacts DEF TypeInv, CountTypes
    <3> HIDE DEF k
    <3> QED BY <2>1, <3>2, <3>3, <1>1, <1>2, <1>5
  <2>2. CASE ~(i < s /\ Beyond(i) < k)
    BY <2>2, <1>1, QueueFields
  <2> QED BY <2>1, <2>2
<1>8. nb \in [Slots -> 0 .. MaxPkts] /\ \A i \in 0 .. s - 1 : nb[i] = IF Beyond(i) < k THEN next + Beyond(i) ELSE tx.buf[i]
  <2>1. 0 .. s - 1 \subseteq Slots
    BY <1>2, SizeFacts
  <2>2. \A i \in 0 .. s - 1 : i < s
    BY <1>2
  <2> HIDE DEF k
  <2> QED BY <1>7, <2>1, <2>2
<1> HIDE DEF nb
<1>9. tx' \in Queues /\ tx'.size = s /\ tx'.head = tx.head /\ tx'.tail = t /\ tx'.buf = nb
  BY <1>1, <1>6, <1>8 DEF Queues
<1> QED BY <1>1, <1>2, <1>4, <1>5, <1>8, <1>9

(* What is in the transmit queue stays where it is.                        *)
LEMMA SendKeeps ==
  ASSUME TypeInv, NEW t \in Slots, hcall_ldc_tx_set_qtail(t), NEW i \in Nat, i < Unread
  PROVE  tx'.buf[(tx.head + i) % tx.size] = tx.buf[(tx.head + i) % tx.size]
<1> DEFINE s == tx.size
           k == Beyond(t)
           p == (tx.head + i) % s
<1>1. /\ s \in {2, 4, 8, 16} /\ s \in Nat /\ tx.head \in 0 .. s - 1 /\ tx.tail \in 0 .. s - 1
      /\ k \in 1 .. s - 1 /\ Unread \in 0 .. s - 1 /\ Unread + k < s
      /\ Unread = (IF tx.tail >= tx.head THEN tx.tail - tx.head ELSE tx.tail - tx.head + s)
      /\ \A j \in 0 .. s - 1 : tx'.buf[j] = IF Beyond(j) < k THEN next + Beyond(j) ELSE tx.buf[j]
  BY SendBuf
<1> HIDE DEF k
<1>2. tx.head + i \in 0 .. 2 * s - 1
  BY <1>1
<1>3. p = (IF tx.head + i < s THEN tx.head + i ELSE tx.head + i - s)
  <2>1. s \in {2, 4, 8, 16} /\ s \in Nat /\ tx.head \in 0 .. s - 1 /\ i \in Nat
    BY <1>1
  <2>2. \A a \in 0 .. 2 * s - 1 : a % s = IF a < s THEN a ELSE a - s
    BY <2>1, ModAdd
  <2> QED BY ONLY <2>1, <2>2, <1>2
<1> HIDE DEF p
<1>4. p \in 0 .. s - 1
  BY <1>1, <1>3
<1>5. Beyond(p) = IF p >= tx.tail THEN p - tx.tail ELSE p - tx.tail + s
  BY <1>1, <1>4, ModSub DEF Beyond
<1>6. ~(Beyond(p) < k)
  BY <1>1, <1>3, <1>4, <1>5
<1>7. tx'.buf[p] = tx.buf[p]
  BY <1>1, <1>4, <1>6
<1> QED BY <1>7 DEF p

(* The new packets are numbered from next on.                              *)
LEMMA SendAdds ==
  ASSUME TypeInv, NEW t \in Slots, hcall_ldc_tx_set_qtail(t), NEW i \in Nat, i < Beyond(t)
  PROVE  tx'.buf[(tx.tail + i) % tx.size] = next + i
<1> DEFINE s == tx.size
           k == Beyond(t)
           p == (tx.tail + i) % s
<1>1. /\ s \in {2, 4, 8, 16} /\ s \in Nat /\ tx.tail \in 0 .. s - 1
      /\ k \in 1 .. s - 1
      /\ \A j \in 0 .. s - 1 : tx'.buf[j] = IF Beyond(j) < k THEN next + Beyond(j) ELSE tx.buf[j]
  BY SendBuf
<1>0. i < k
  OBVIOUS
<1> HIDE DEF k
<1>2. tx.tail + i \in 0 .. 2 * s - 1
  BY <1>0, <1>1
<1>3. p = (IF tx.tail + i < s THEN tx.tail + i ELSE tx.tail + i - s)
  BY <1>1, <1>2, ModAdd
<1> HIDE DEF p
<1>4. p \in 0 .. s - 1
  BY <1>0, <1>1, <1>3
<1>5. Beyond(p) = IF p >= tx.tail THEN p - tx.tail ELSE p - tx.tail + s
  BY <1>1, <1>4, ModSub DEF Beyond
<1>6. Beyond(p) = i
  BY <1>0, <1>1, <1>3, <1>4, <1>5
<1>7. tx'.buf[p] = next + i
  BY <1>0, <1>1, <1>4, <1>6
<1> QED BY <1>7 DEF p

-----------------------------------------------------------------------------
(* CopyInv and InUse are invariants.                                       *)
LEMMA CopySend ==
  ASSUME TypeInv, CopyInv, NEW t \in Slots, hcall_ldc_tx_set_qtail(t)
  PROVE  CopyInv'
<1>1. pc'["R"] = pc["R"] /\ UNCHANGED <<rx, pull>>
  BY DEF hcall_ldc_tx_set_qtail, Goto, TypeInv, PcTypes, Ends
<1> SUFFICES ASSUME pc["R"] = "rxtail", NEW j \in 0 .. pull.n - 1
             PROVE  rx.buf[pull.t + j] = tx'.buf[pull.h + j]
  BY <1>1 DEF CopyInv
<1>2. /\ pull.h = tx.head /\ pull.n \in Nat /\ pull.h + pull.n <= tx.size
      /\ pull.n <= (IF tx.tail >= tx.head THEN tx.tail - tx.head ELSE tx.size - tx.head)
  BY DEF TypeInv, PullInv
<1>3. /\ tx.size \in {2, 4, 8, 16} /\ tx.size \in Nat /\ tx.head \in 0 .. tx.size - 1 /\ tx.tail \in 0 .. tx.size - 1
      /\ Unread = IF tx.tail >= tx.head THEN tx.tail - tx.head ELSE tx.tail - tx.head + tx.size
  BY SendBuf
<1>4. j \in Nat /\ j < Unread /\ tx.head + j \in 0 .. tx.size - 1
  BY <1>2, <1>3
<1>5. (tx.head + j) % tx.size = tx.head + j
  BY <1>3, <1>4
<1>6. tx'.buf[tx.head + j] = tx.buf[tx.head + j]
  BY <1>4, <1>5, SendKeeps
<1> QED BY <1>2, <1>6 DEF CopyInv

LEMMA CopyCopies ==
  ASSUME TypeInv, pull_copy
  PROVE  CopyInv'
<1>1. /\ pc["R"] = "copy" /\ UNCHANGED <<tx, pull>> /\ rx \in Queues
      /\ rx' = [rx EXCEPT !.buf = [i \in Slots |->
              IF pull.n <= 0 /\ i = pull.t THEN 0
              ELSE IF pull.t <= i /\ i < pull.t + pull.n
              THEN tx.buf[pull.h + i - pull.t] ELSE rx.buf[i]]]
  BY DEF pull_copy, TypeInv, RxShape
<1>2. /\ pull.n \in Nat /\ pull.n > 0 /\ pull.t \in Nat /\ pull.h \in Nat /\ pull.t + pull.n <= rx.size /\ rx.size # 0
  BY <1>1 DEF TypeInv, PullInv, Pulling
<1>3. rx.size \in Nat /\ 0 .. rx.size - 1 \subseteq Slots
  BY <1>1, <1>2, QueueFields, SizeFacts
<1> SUFFICES ASSUME NEW j \in 0 .. pull.n - 1 PROVE rx'.buf[pull.t + j] = tx.buf[pull.h + j]
  BY <1>1 DEF CopyInv
<1>4. /\ pull.t + j \in Slots /\ pull.t <= pull.t + j /\ pull.t + j < pull.t + pull.n /\ ~(pull.n <= 0)
      /\ pull.h + (pull.t + j) - pull.t = pull.h + j
  <2>1. pull.t + j \in 0 .. rx.size - 1
    BY <1>2, <1>3
  <2> QED BY <2>1, <1>2, <1>3
<1>5. rx'.buf[pull.t + j] = tx.buf[pull.h + (pull.t + j) - pull.t]
  BY <1>1, <1>4 DEF Queues
<1> QED BY <1>4, <1>5

LEMMA NextCopy ==
  ASSUME TypeInv, CopyInv, Coordinated, Next
  PROVE  CopyInv'
<1>p. pc \in [Ends -> S_PC \cup R_PC] /\ "S" \in Ends /\ "R" \in Ends
  BY DEF TypeInv, PcTypes, Ends
<1>s. ASSUME NEW l, Goto("S", l), UNCHANGED <<tx, rx, pull>> PROVE CopyInv'
  <2>1. pc'["R"] = pc["R"]
    BY <1>s, <1>p DEF Goto
  <2> QED BY <1>s, <2>1 DEF CopyInv
<1>n. ASSUME NEW l, Goto("S", l), ~Pulling PROVE CopyInv'
  BY <1>n, <1>p DEF Goto, CopyInv, Pulling
<1>r. ASSUME NEW l, Goto("R", l), l # "rxtail" PROVE CopyInv'
  BY <1>r, <1>p DEF Goto, CopyInv
<1>1. ASSUME NEW e \in Ends, notify_chk(e) \/ notify_cas(e) \/ take_mondo(e) \/ ldc_vintr_setstate(e) PROVE CopyInv'
  <2>1. UNCHANGED <<tx, rx, pull>>
    BY <1>1 DEF notify_chk, notify_cas, take_mondo, ldc_vintr_setstate, queues
  <2>2. CASE e = "R"
    BY <1>1, <2>2, <1>r DEF notify_chk, notify_cas, Notified, take_mondo, ldc_vintr_setstate
  <2>3. CASE e = "S"
    BY <1>1, <2>1, <2>3, <1>s DEF notify_chk, notify_cas, take_mondo, ldc_vintr_setstate
  <2> QED BY <2>2, <2>3 DEF Ends
<1>2. CASE (\E v \in BOOLEAN : ldc_vintr_setvalid(v)) \/ setvalid_idle \/ hv_ldc_chk_pkts \/ chk_pkts_cas
  BY <1>2, <1>r DEF ldc_vintr_setvalid, setvalid_idle, hv_ldc_chk_pkts, chk_pkts_cas
<1>3. CASE guest_to_guest_tx_set_tail \/ hcall_ldc_tx_get_state \/ status_clear \/ status_size
  BY <1>3, <1>s DEF guest_to_guest_tx_set_tail, hcall_ldc_tx_get_state, status_clear, status_size, queues
<1>4. CASE tx_qconf_tail \/ tx_qconf_head \/ tx_qconf_size \/ tx_reset \/ tx_guest_boot
  <2>1. ~Pulling
    BY <1>4 DEF tx_qconf_tail, tx_qconf_head, tx_qconf_size, tx_reset, tx_guest_boot, TypeInv, PullInv, TxConf
  <2> QED BY <1>4, <2>1, <1>n DEF tx_qconf_tail, tx_qconf_head, tx_qconf_size, tx_reset, tx_guest_boot
<1>5. CASE (\E n \in Sizes \cup {0} : hcall_ldc_tx_qconf(n)) \/ tx_guest_exit
  BY <1>5, <1>n DEF hcall_ldc_tx_qconf, tx_guest_exit
<1>6. CASE hcall_ldc_rx_get_state \/ guest_to_guest_pull_data \/ pull_rx_tail \/ pull_tx_head
  BY <1>6, <1>r DEF hcall_ldc_rx_get_state, guest_to_guest_pull_data, pull_rx_tail, pull_tx_head
<1>7. CASE rx_state_returned \/ (\E h \in Slots : hcall_ldc_rx_set_qhead(h))
           \/ (\E n \in Sizes \cup {0} : hcall_ldc_rx_qconf(n))
  BY <1>7, <1>r DEF rx_state_returned, hcall_ldc_rx_set_qhead, hcall_ldc_rx_qconf
<1>8. CASE rx_qconf_updated \/ rx_qconf_size \/ rx_guest_exit \/ rx_reset
  BY <1>8, <1>r DEF rx_qconf_updated, rx_qconf_size, rx_guest_exit, rx_reset
<1> QED BY <1>1, <1>2, <1>3, <1>4, <1>5, <1>6, <1>7, <1>8, CopySend, CopyCopies, Cases

LEMMA NextInUse ==
  ASSUME TypeInv, InUse, Next
  PROVE  InUse'
<1>p. pc \in [Ends -> S_PC \cup R_PC] /\ "S" \in Ends /\ "R" \in Ends /\ rx \in Queues
  BY DEF TypeInv, PcTypes, Ends, RxShape
<1>s. ASSUME NEW l, Goto("S", l), UNCHANGED rx PROVE InUse'
  <2>1. pc'["R"] = pc["R"]
    BY <1>s, <1>p DEF Goto
  <2> QED BY <1>s, <2>1 DEF InUse
<1>r. ASSUME NEW l, Goto("R", l), l \notin {"got", "consume", "exit_chk", "exit_cas", "rx_reset"} PROVE InUse'
  BY <1>r, <1>p DEF Goto, InUse
<1>1. ASSUME NEW e \in Ends, notify_chk(e) \/ notify_cas(e) \/ take_mondo(e) \/ ldc_vintr_setstate(e) PROVE InUse'
  <2>1. UNCHANGED rx
    BY <1>1 DEF notify_chk, notify_cas, take_mondo, ldc_vintr_setstate, queues
  <2>2. CASE e = "R"
    <3>1. CASE notify_chk("R") \/ notify_cas("R")
      <4>1. CASE pc["R"] \in {"exit_chk", "exit_cas"}
        <5>1. pc'["R"] \in {"exit_cas", "rx_reset"}
          BY <3>1, <4>1, <1>p DEF notify_chk, notify_cas, Notified, Goto
        <5> QED BY <4>1, <5>1, <2>1 DEF InUse
      <4>2. CASE pc["R"] \notin {"exit_chk", "exit_cas"}
        BY <3>1, <4>2, <1>r DEF notify_chk, notify_cas, Notified
      <4> QED BY <4>1, <4>2
    <3>2. CASE take_mondo("R") \/ ldc_vintr_setstate("R")
      BY <3>2, <1>r DEF take_mondo, ldc_vintr_setstate
    <3> QED BY <1>1, <2>2, <3>1, <3>2
  <2>3. CASE e = "S"
    BY <1>1, <2>1, <2>3, <1>s DEF notify_chk, notify_cas, take_mondo, ldc_vintr_setstate
  <2> QED BY <2>2, <2>3 DEF Ends
<1>2. CASE (\E v \in BOOLEAN : ldc_vintr_setvalid(v)) \/ setvalid_idle \/ hv_ldc_chk_pkts \/ chk_pkts_cas
  BY <1>2, <1>r DEF ldc_vintr_setvalid, setvalid_idle, hv_ldc_chk_pkts, chk_pkts_cas
<1>3. CASE (\E t \in Slots : hcall_ldc_tx_set_qtail(t)) \/ guest_to_guest_tx_set_tail
           \/ (\E n \in Sizes \cup {0} : hcall_ldc_tx_qconf(n)) \/ tx_qconf_tail \/ tx_qconf_head
  BY <1>3, <1>s DEF hcall_ldc_tx_set_qtail, guest_to_guest_tx_set_tail, hcall_ldc_tx_qconf, tx_qconf_tail, tx_qconf_head,
                    queues
<1>4. CASE tx_qconf_size \/ hcall_ldc_tx_get_state \/ status_clear \/ status_size \/ tx_guest_exit \/ tx_reset \/ tx_guest_boot
  BY <1>4, <1>s DEF tx_qconf_size, hcall_ldc_tx_get_state, status_clear, status_size, tx_guest_exit, tx_reset, tx_guest_boot, queues
<1>5. CASE hcall_ldc_rx_get_state
  <2>1. UNCHANGED rx /\ pc'["R"] = (IF rx.size = 0 THEN IF handler["R"] THEN "ack" ELSE "run"
                                    ELSE IF tx.size = 0 THEN "got" ELSE "pull")
    BY <1>5, <1>p DEF hcall_ldc_rx_get_state, queues, Goto
  <2> QED BY <2>1 DEF InUse
<1>6. CASE guest_to_guest_pull_data
  <2>1. UNCHANGED rx /\ pc["R"] = "pull" /\ pc'["R"] \in {"got", "copy"}
    BY <1>6, <1>p DEF guest_to_guest_pull_data, queues, Goto
  <2>2. rx.size # 0
    BY <2>1 DEF TypeInv, PullInv, Pulling
  <2> QED BY <2>1, <2>2 DEF InUse
<1>7. CASE pull_copy \/ pull_rx_tail \/ pull_tx_head \/ (\E h \in Slots : hcall_ldc_rx_set_qhead(h))
  BY <1>7, <1>r DEF pull_copy, pull_rx_tail, pull_tx_head, hcall_ldc_rx_set_qhead
<1>8. CASE rx_state_returned
  <2>1. /\ UNCHANGED rx /\ pc["R"] = "got"
        /\ pc'["R"] = IF rx.head # rx.tail THEN "consume" ELSE IF handler["R"] THEN "ack" ELSE "run"
    BY <1>8, <1>p DEF rx_state_returned, queues, Goto
  <2> QED BY <2>1 DEF InUse
<1>9. CASE (\E n \in Sizes \cup {0} : hcall_ldc_rx_qconf(n)) \/ rx_qconf_updated \/ rx_qconf_size \/ rx_reset
  BY <1>9, <1>r DEF hcall_ldc_rx_qconf, rx_qconf_updated, rx_qconf_size, rx_reset
<1>10. CASE rx_guest_exit
  <2>1. pc'["R"] = "exit_chk" /\ rx'.size = 0
    BY <1>10, <1>p DEF rx_guest_exit, Goto, Queues
  <2> QED BY <2>1 DEF InUse
<1> QED BY <1>1, <1>2, <1>3, <1>4, <1>5, <1>6, <1>7, <1>8, <1>9, <1>10, Cases

-----------------------------------------------------------------------------
(* The two halves of the channel.                                          *)
RxConf == pc["R"] \in {"rq_upd", "rq_size", "chk", "exit_chk"}
RxOpen == rx.size # 0 /\ pc["R"] \notin {"rq_upd", "rq_size"}
TxOpen == tx.size # 0 /\ ~TxConf

LEMMA RxWindow ==
  ASSUME TypeInv, RxOpen
  PROVE  /\ rx \in Queues /\ rx.size \in {2, 4, 8, 16} /\ rx.size \in Nat
         /\ rx.head \in 0 .. rx.size - 1 /\ rx.tail \in 0 .. rx.size - 1
         /\ InRx = Window(rx, rx.head, Used(rx))
         /\ Used(rx) = IF rx.tail >= rx.head THEN rx.tail - rx.head ELSE rx.tail - rx.head + rx.size
         /\ Used(rx) \in 0 .. rx.size - 1
<1>1. /\ rx \in Queues /\ rx.size \in {2, 4, 8, 16} /\ rx.size \in Nat /\ rx.size # 0
      /\ rx.head \in 0 .. rx.size - 1 /\ rx.tail \in 0 .. rx.size - 1
  BY QueueFields DEF TypeInv, RxShape, RxOpen
<1>2. Used(rx) = (rx.tail - rx.head) % rx.size
  BY <1>1 DEF Used
<1>3. (rx.tail - rx.head) % rx.size = IF rx.tail >= rx.head THEN rx.tail - rx.head ELSE rx.tail - rx.head + rx.size
  BY <1>1, ModSub
<1>4. InRx = Window(rx, rx.head, Used(rx))
  BY DEF InRx, RxOpen
<1>5. Used(rx) = IF rx.tail >= rx.head THEN rx.tail - rx.head ELSE rx.tail - rx.head + rx.size
  BY <1>2, <1>3
<1>6. Used(rx) \in 0 .. rx.size - 1
  BY <1>1, <1>5
<1> QED BY <1>1, <1>4, <1>5, <1>6

LEMMA TxWindow ==
  ASSUME TypeInv, TxOpen
  PROVE  /\ tx \in Queues /\ tx.size \in {2, 4, 8, 16} /\ tx.size \in Nat
         /\ tx.head \in 0 .. tx.size - 1 /\ tx.tail \in 0 .. tx.size - 1 /\ TxFrom \in 0 .. tx.size
         /\ InTx = Window(tx, TxFrom, (tx.tail - TxFrom) % tx.size)
         /\ (tx.tail - TxFrom) % tx.size = IF tx.tail >= TxFrom THEN tx.tail - TxFrom ELSE tx.tail - TxFrom + tx.size
         /\ (tx.tail - TxFrom) % tx.size \in 0 .. tx.size - 1
<1>1. /\ tx \in Queues /\ tx.size \in {2, 4, 8, 16} /\ tx.size \in Nat /\ tx.size # 0
      /\ tx.head \in 0 .. tx.size - 1 /\ tx.tail \in 0 .. tx.size - 1
  BY QueueFields DEF TypeInv, TxShape, TxOpen
<1>2. TxFrom \in 0 .. tx.size
  <2>1. CASE pc["R"] = "txhead"
    <3>1. pull.h \in Nat /\ pull.n \in Nat /\ pull.h + pull.n <= tx.size
      BY <2>1 DEF TypeInv, PullInv
    <3> QED BY <2>1, <3>1, <1>1 DEF TxFrom
  <2>2. CASE pc["R"] # "txhead"
    BY <2>2, <1>1 DEF TxFrom
  <2> QED BY <2>1, <2>2
<1>3. (tx.tail - TxFrom) % tx.size = IF tx.tail >= TxFrom THEN tx.tail - TxFrom ELSE tx.tail - TxFrom + tx.size
  BY <1>1, <1>2, ModSub
<1>4. InTx = Window(tx, TxFrom, (tx.tail - TxFrom) % tx.size)
  BY DEF InTx, TxOpen
<1>5. (tx.tail - TxFrom) % tx.size \in 0 .. tx.size - 1
  BY <1>1, <1>2, ModRange
<1> QED BY <1>1, <1>2, <1>3, <1>4, <1>5

LEMMA InRxSeq ==
  ASSUME TypeInv
  PROVE  InRx \in Seq(Pkts)
<1>1. CASE RxOpen
  <2>1. /\ rx \in Queues /\ rx.size # 0 /\ rx.head \in Nat /\ Used(rx) \in Nat
        /\ InRx = Window(rx, rx.head, Used(rx))
    BY <1>1, RxWindow
  <2> QED BY <2>1, WindowSeq
<1>2. CASE ~RxOpen
  BY <1>2, EmptySeq DEF InRx, RxOpen
<1> QED BY <1>1, <1>2

LEMMA InTxSeq ==
  ASSUME TypeInv
  PROVE  InTx \in Seq(Pkts)
<1>1. CASE TxOpen
  BY <1>1, TxWindow, WindowSeq
<1>2. CASE ~TxOpen
  BY <1>2, EmptySeq DEF InTx, TxOpen
<1> QED BY <1>1, <1>2

LEMMA InRxSame ==
  ASSUME UNCHANGED rx, (pc'["R"] \in {"rq_upd", "rq_size"}) <=> (pc["R"] \in {"rq_upd", "rq_size"})
  PROVE  InRx' = InRx
<1>1. CASE rx.size = 0 \/ pc["R"] \in {"rq_upd", "rq_size"}
  BY <1>1 DEF InRx
<1>2. CASE ~(rx.size = 0 \/ pc["R"] \in {"rq_upd", "rq_size"})
  BY <1>2 DEF InRx, Window, Used
<1> QED BY <1>1, <1>2

LEMMA InTxSame ==
  ASSUME UNCHANGED tx, pc'["R"] = "txhead" <=> pc["R"] = "txhead", pc["R"] = "txhead" => UNCHANGED pull, TxConf' <=> TxConf
  PROVE  InTx' = InTx
<1>1. CASE tx.size = 0 \/ TxConf
  BY <1>1 DEF InTx
<1>2. CASE ~(tx.size = 0 \/ TxConf)
  <2>1. TxFrom' = TxFrom
    BY DEF TxFrom
  <2> QED BY <1>2, <2>1 DEF InTx, Window
<1> QED BY <1>1, <1>2

-----------------------------------------------------------------------------
(* The steps of LdcFifo, from what a step does to the two halves.          *)
LEMMA Stutters ==
  ASSUME InRx' = InRx, InTx' = InTx, UNCHANGED <<next, last>>, TxConf' <=> TxConf, RxConf' <=> RxConf
  PROVE  UNCHANGED Fifo!fvars
<1>1. (InRx \o InTx)' = InRx \o InTx
  OBVIOUS
<1>2. TxConf' = TxConf
  BY DEF TxConf
<1>3. (pc["R"] \in {"rq_upd", "rq_size", "chk", "exit_chk"})' = (pc["R"] \in {"rq_upd", "rq_size", "chk", "exit_chk"})
  BY DEF RxConf
<1> QED BY <1>1, <1>2, <1>3 DEF Fifo!fvars

LEMMA FlushesTx ==
  ASSUME TypeInv, InRx' = InRx, InTx' = <<>>, UNCHANGED <<next, last>>, TxConf \/ TxConf', RxConf' <=> RxConf
  PROVE  Fifo!Next
<1>1. InRx \in Seq(Pkts) /\ InTx \in Seq(Pkts)
  BY InRxSeq, InTxSeq
<1>2. (InRx \o InTx)' = InRx
  BY <1>1, ConcatEmptySeq
<1>3. SubSeq(InRx \o InTx, 1, Len(InRx)) = InRx
  BY <1>1, KeepFirst
<1>4. Len(InRx) \in 0 .. Len(InRx \o InTx)
  BY <1>1, ConcatProperties, LenProperties
<1>5. TxConf' \in BOOLEAN
  BY DEF TxConf
<1>6. (pc["R"] \in {"rq_upd", "rq_size", "chk", "exit_chk"})' = (pc["R"] \in {"rq_upd", "rq_size", "chk", "exit_chk"})
  BY DEF RxConf
<1>7. Fifo!TxFlush
  BY <1>2, <1>3, <1>4, <1>5, <1>6 DEF Fifo!TxFlush
<1> QED BY <1>7 DEF Fifo!Next

LEMMA FlushesRx ==
  ASSUME TypeInv, InRx' = <<>>, InTx' = InTx, UNCHANGED <<next, last>>, RxConf \/ RxConf', TxConf' <=> TxConf
  PROVE  Fifo!Next
<1>1. InRx \in Seq(Pkts) /\ InTx \in Seq(Pkts)
  BY InRxSeq, InTxSeq
<1>2. (InRx \o InTx)' = InTx
  BY <1>1, ConcatEmptySeq
<1>3. SubSeq(InRx \o InTx, Len(InRx) + 1, Len(InRx \o InTx)) = InTx
  BY <1>1, DropFirst
<1>4. Len(InRx) \in 0 .. Len(InRx \o InTx)
  BY <1>1, ConcatProperties, LenProperties
<1>5. RxConf' \in BOOLEAN
  BY DEF RxConf
<1>6. TxConf' = TxConf
  BY DEF TxConf
<1>7. Fifo!RxFlush
  BY <1>2, <1>3, <1>4, <1>5, <1>6 DEF Fifo!RxFlush, RxConf
<1> QED BY <1>7 DEF Fifo!Next

(* The receiver ends its reconfiguration.                                  *)
LEMMA FlushesNone ==
  ASSUME TypeInv, InRx' = InRx, InTx' = InTx, UNCHANGED <<next, last>>, RxConf \/ RxConf', TxConf' <=> TxConf
  PROVE  Fifo!Next
<1> DEFINE c == InRx \o InTx
<1>1. c \in Seq(Pkts)
  BY InRxSeq, InTxSeq, ConcatProperties
<1>2. c' = c
  OBVIOUS
<1>3. SubSeq(c, 0 + 1, Len(c)) = c
  <2> HIDE DEF c
  <2>1. Len(c) \in Nat
    BY <1>1, LenProperties
  <2>2. SubSeq(c, 1, Len(c)) = c
    BY <1>1, SubSeqFull
  <2> QED BY <2>2
<1>4. 0 \in 0 .. Len(c)
  <2> HIDE DEF c
  <2> QED BY <1>1, LenProperties
<1>5. RxConf' \in BOOLEAN
  BY DEF RxConf
<1>6. TxConf' = TxConf
  BY DEF TxConf
<1>7. Fifo!RxFlush
  BY <1>2, <1>3, <1>4, <1>5, <1>6 DEF Fifo!RxFlush, RxConf
<1> QED BY <1>7 DEF Fifo!Next

-----------------------------------------------------------------------------
(* The packets of each half through the steps that move them.              *)

(* A send appends the new packets to the transmit queue.                   *)
LEMMA SendStep ==
  ASSUME TypeInv, TypeInv', NEW t \in Slots, hcall_ldc_tx_set_qtail(t)
  PROVE  Fifo!Next
<1> DEFINE k == Beyond(t)
           s == tx.size
           n == (tx.tail - TxFrom) % s
           new == [i \in 1 .. k |-> next + i - 1]
<1>1. /\ pc["S"] = "run" /\ pc'["S"] = "peek" /\ pc'["R"] = pc["R"] /\ UNCHANGED <<rx, pull, last>>
      /\ next' = next + k /\ next + k - 1 <= MaxPkts /\ s # 0
  BY DEF hcall_ldc_tx_set_qtail, Goto, TypeInv, PcTypes, Ends, hist, Beyond
<1>2. TxOpen /\ TxOpen' /\ ~TxConf /\ ~TxConf' /\ tx'.size = s /\ tx' \in Queues
  BY <1>1, SendBuf DEF TxOpen, TxConf
<1>3. InRx' = InRx /\ TxFrom' = TxFrom
  <2>1. InRx' = InRx
    BY <1>1, InRxSame
  <2>2. tx'.head = tx.head
    BY SendBuf
  <2> QED BY <1>1, <2>1, <2>2 DEF TxFrom
<1>4. /\ s \in {2, 4, 8, 16} /\ s \in Nat /\ tx \in Queues
      /\ tx.head \in 0 .. s - 1 /\ tx.tail \in 0 .. s - 1 /\ TxFrom \in 0 .. s
      /\ n = (IF tx.tail >= TxFrom THEN tx.tail - TxFrom ELSE tx.tail - TxFrom + s)
      /\ InTx = Window(tx, TxFrom, n) /\ n \in 0 .. s - 1
  BY <1>2, TxWindow
<1>5. /\ t \in 0 .. s - 1 /\ k \in 1 .. s - 1 /\ Unread \in 0 .. s - 1 /\ Unread + k < s
      /\ t = (IF tx.tail + k < s THEN tx.tail + k ELSE tx.tail + k - s) /\ tx'.tail = t
      /\ Unread = IF tx.tail >= tx.head THEN tx.tail - tx.head ELSE tx.tail - tx.head + s
  BY SendBuf
<1> HIDE DEF k, n
<1>6. TxFrom = tx.head \/ (tx.head <= TxFrom /\ TxFrom - tx.head <= Unread)
  <2>1. CASE pc["R"] = "txhead"
    <3>1. /\ pull.h = tx.head /\ pull.n \in Nat /\ TxFrom = pull.h + pull.n
          /\ pull.n <= (IF tx.tail >= tx.head THEN tx.tail - tx.head ELSE s - tx.head)
      BY <2>1 DEF TypeInv, PullInv, TxFrom
    <3> QED BY <3>1, <1>4, <1>5
  <2>2. CASE pc["R"] # "txhead"
    BY <2>2 DEF TxFrom
  <2> QED BY <2>1, <2>2
<1>7. (t - TxFrom) % s = n + k
  <2>1. (t - TxFrom) % s = IF t >= TxFrom THEN t - TxFrom ELSE t - TxFrom + s
    BY <1>4, <1>5, ModSub
  <2> DEFINE m == (t - TxFrom) % s
  <2>2. m = IF t >= TxFrom THEN t - TxFrom ELSE t - TxFrom + s
    BY <2>1
  <2> HIDE DEF m
  <2>3. m = n + k
    BY <2>2, <1>4, <1>5, <1>6
  <2> QED BY <2>3 DEF m
<1>n. /\ TxFrom \in Nat /\ n \in Nat /\ k \in Nat /\ TxFrom + n \in Nat /\ tx'.size # 0
      /\ n = Unread - (TxFrom - tx.head) /\ TxFrom >= tx.head
  BY <1>1, <1>2, <1>4, <1>5, <1>6
<1>8. InTx' = Window(tx', TxFrom, n + k)
  BY <1>2, <1>3, <1>5, <1>7 DEF InTx, TxOpen
<1>9. InTx' = Window(tx', TxFrom, n) \o Window(tx', TxFrom + n, k)
  <2>1. ASSUME NEW q \in Queues, q.size # 0, NEW from \in Nat, NEW a \in Nat, NEW b \in Nat
        PROVE  Window(q, from, a + b) = Window(q, from, a) \o Window(q, from + a, b)
    BY <2>1, WindowSplit
  <2>2. tx' \in Queues /\ tx'.size # 0 /\ TxFrom \in Nat /\ n \in Nat /\ k \in Nat
    BY <1>2, <1>n
  <2>3. Window(tx', TxFrom, n + k) = Window(tx', TxFrom, n) \o Window(tx', TxFrom + n, k)
    BY <2>1, <2>2, Zenon
  <2> QED BY <2>3, <1>8
<1>10. Window(tx', TxFrom, n) = Window(tx, TxFrom, n)
  <2>1. ASSUME NEW i \in 1 .. n PROVE tx'.buf[(TxFrom + i - 1) % s] = tx.buf[(TxFrom + i - 1) % s]
    <3> DEFINE j == TxFrom - tx.head + i - 1
    <3>1. j \in Nat /\ j < Unread /\ tx.head + j = TxFrom + i - 1
      BY <1>4, <1>5, <1>n
    <3> HIDE DEF j
    <3> QED BY <3>1, SendKeeps
  <2>2. \A i \in 1 .. n : tx'.buf[(TxFrom + i - 1) % tx'.size] = tx.buf[(TxFrom + i - 1) % tx.size]
    BY <2>1, <1>2
  <2>3. tx \in Queues /\ tx' \in Queues /\ tx.size # 0
    BY <1>1, <1>2, <1>4
  <2> QED BY <2>2, <2>3, <1>n DEF Window
<1>11. Window(tx', TxFrom + n, k) = new
  <2>1. ASSUME NEW i \in 1 .. k PROVE tx'.buf[(TxFrom + n + i - 1) % s] = next + i - 1
    <3>1. (TxFrom + n) % s = tx.tail % s
      BY <1>4
    <3>2. (TxFrom + n + (i - 1)) % s = (tx.tail + (i - 1)) % s
      <4>1. TxFrom + n \in Int /\ tx.tail \in Int /\ i - 1 \in Int
        BY <1>4, <1>5, <1>n
      <4>2. /\ (((TxFrom + n) % s) + (i - 1)) % s = (TxFrom + n + (i - 1)) % s
            /\ ((tx.tail % s) + (i - 1)) % s = (tx.tail + (i - 1)) % s
        BY <4>1, <1>4, ModMod
      <4> QED BY <3>1, <4>2
    <3>3. i - 1 \in Nat /\ i - 1 < k
      BY <1>5
    <3>4. tx'.buf[(tx.tail + (i - 1)) % s] = next + (i - 1)
      BY <3>3, SendAdds DEF k
    <3>5. TxFrom + n + (i - 1) = TxFrom + n + i - 1 /\ next + (i - 1) = next + i - 1
      BY <1>4, <1>5 DEF TypeInv, CountTypes
    <3> QED BY <3>2, <3>4, <3>5
  <2> QED BY <2>1, <1>2 DEF Window
<1>12. InTx' = InTx \o new
  BY <1>4, <1>9, <1>10, <1>11
<1>13. InRx \in Seq(Pkts) /\ InTx \in Seq(Pkts) /\ new \in Seq(Pkts)
  <2>1. next \in 1 .. MaxPkts + 1 /\ MaxPkts \in Nat
    BY SizeFacts DEF TypeInv, CountTypes
  <2>2. \A i \in 1 .. k : next + i - 1 \in Pkts
    BY <2>1, <1>1, <1>5 DEF Pkts
  <2>3. k \in Nat
    BY <1>5
  <2>4. new \in Seq(Pkts)
    BY <2>2, <2>3, IsASeq
  <2> QED BY <2>4, InRxSeq, InTxSeq
<1>14. (InRx \o InTx)' = (InRx \o InTx) \o new
  <2> HIDE DEF new
  <2>1. (InRx \o InTx)' = InRx \o (InTx \o new)
    BY <1>3, <1>12
  <2> QED BY <2>1, <1>13, ConcatAssociative
<1>15. k \in 1 .. MaxPkts
  BY <1>1, <1>5, SizeFacts DEF TypeInv, CountTypes
<1>16. TxConf' = TxConf /\ RxConf' = RxConf
  BY <1>1, <1>2 DEF TxConf, RxConf
<1>17. Fifo!Send
  BY <1>1, <1>14, <1>15, <1>16 DEF Fifo!Send, RxConf
<1> QED BY <1>17 DEF Fifo!Next

(* A copy writes only elements outside the receiver's window.              *)
LEMMA CopyStep ==
  ASSUME TypeInv, TypeInv', pull_copy
  PROVE  UNCHANGED Fifo!fvars
<1> DEFINE s == rx.size
           u == Used(rx)
<1>1. /\ pc["R"] = "copy" /\ pc'["R"] = "rxtail" /\ pc'["S"] = pc["S"] /\ UNCHANGED <<tx, pull, next, last>>
      /\ rx' = [rx EXCEPT !.buf = [i \in Slots |->
              IF pull.n <= 0 /\ i = pull.t THEN 0
              ELSE IF pull.t <= i /\ i < pull.t + pull.n
              THEN tx.buf[pull.h + i - pull.t] ELSE rx.buf[i]]]
  BY DEF pull_copy, Goto, TypeInv, PcTypes, Ends, hist
<1>2. RxOpen /\ rx \in Queues
  BY <1>1 DEF TypeInv, PullInv, Pulling, RxOpen, RxShape
<1>3. /\ s \in {2, 4, 8, 16} /\ s \in Nat /\ rx.head \in 0 .. s - 1 /\ rx.tail \in 0 .. s - 1
      /\ InRx = Window(rx, rx.head, u)
      /\ u = (IF rx.tail >= rx.head THEN rx.tail - rx.head ELSE rx.tail - rx.head + s)
      /\ u \in 0 .. s - 1
  BY <1>2, RxWindow
<1>4. /\ pull.t = rx.tail /\ pull.n \in Nat /\ pull.n > 0
      /\ pull.n <= (IF rx.head > rx.tail THEN rx.head - rx.tail - 1 ELSE s - rx.tail - (IF rx.head = 0 THEN 1 ELSE 0))
  BY <1>1 DEF TypeInv, PullInv, IntoRx
<1>5. rx'.head = rx.head /\ rx'.tail = rx.tail /\ rx'.size = s
  BY <1>1, <1>2 DEF Queues
<1>6. InRx' = Window(rx', rx.head, u)
  BY <1>1, <1>2, <1>5 DEF InRx, RxOpen, Used
<1> HIDE DEF u
<1>7. ASSUME NEW i \in 1 .. u PROVE rx'.buf[(rx.head + i - 1) % s] = rx.buf[(rx.head + i - 1) % s]
  <2> DEFINE a == rx.head + i - 1
             p == a % s
  <2>1. a \in 0 .. 2 * s - 1
    BY <1>3
  <2>2. p = IF a < s THEN a ELSE a - s
    <3> HIDE DEF a
    <3> QED BY <2>1, <1>3, ModAdd
  <2> HIDE DEF p
  <2>3. p \in 0 .. s - 1 /\ ~(pull.t <= p /\ p < pull.t + pull.n) /\ ~(pull.n <= 0)
    BY <2>2, <1>3, <1>4
  <2>4. p \in Slots
    BY <2>3, <1>2, <1>3, QueueFields, SizeFacts DEF RxOpen
  <2>5. rx'.buf[p] = rx.buf[p]
    BY <2>3, <2>4, <1>1, <1>2 DEF Queues
  <2> QED BY <2>5 DEF p
<1>8. InRx' = InRx
  BY <1>3, <1>5, <1>6, <1>7 DEF Window
<1>9. InTx' = InTx
  BY <1>1, InTxSame DEF TxConf
<1> QED BY <1>1, <1>8, <1>9, Stutters DEF TxConf, RxConf

(* The new tail of the receive queue moves the packets from one half to    *)
(* the other.                                                              *)
LEMMA MoveRx ==
  ASSUME TypeInv, FifoInv, pull_rx_tail
  PROVE  InRx' = InRx \o Window(tx, tx.head, pull.n)
<1> DEFINE s == rx.size
           u == Used(rx)
           n == pull.n
<1>1. /\ pc["R"] = "rxtail" /\ pc'["R"] = "txhead" /\ rx' = [rx EXCEPT !.tail = Mask(pull.t + n, s)]
  BY DEF pull_rx_tail, Goto, TypeInv, PcTypes, Ends
<1>2. RxOpen /\ rx \in Queues /\ tx \in Queues /\ tx.size # 0 /\ s # 0
  BY <1>1 DEF TypeInv, PullInv, Pulling, RxOpen, RxShape, TxShape
<1>3. /\ s \in {2, 4, 8, 16} /\ s \in Nat /\ rx.head \in 0 .. s - 1 /\ rx.tail \in 0 .. s - 1
      /\ InRx = Window(rx, rx.head, u)
      /\ u = (IF rx.tail >= rx.head THEN rx.tail - rx.head ELSE rx.tail - rx.head + s)
      /\ u \in 0 .. s - 1
  BY <1>2, RxWindow
<1>4. /\ pull.t = rx.tail /\ n \in Nat /\ n > 0 /\ pull.h = tx.head /\ pull.t + n <= s /\ pull.h + n <= tx.size
      /\ n <= (IF rx.head > rx.tail THEN rx.head - rx.tail - 1 ELSE s - rx.tail - (IF rx.head = 0 THEN 1 ELSE 0))
  BY <1>1 DEF TypeInv, PullInv, IntoRx
<1>5. /\ rx'.head = rx.head /\ rx'.tail = (IF rx.tail + n = s THEN 0 ELSE rx.tail + n) /\ rx'.size = s /\ rx'.buf = rx.buf
  <2>1. rx'.head = rx.head /\ rx'.tail = Mask(rx.tail + n, s) /\ rx'.size = s /\ rx'.buf = rx.buf
    BY <1>1, <1>2, <1>4 DEF Queues
  <2> QED BY <2>1, <1>3, <1>4, MaskFacts
<1>6. Used(rx)' = u + n
  <2>1. rx'.tail \in 0 .. s - 1
    BY <1>3, <1>4, <1>5
  <2>2. Used(rx)' = (rx'.tail - rx.head) % s
    BY <1>2, <1>5 DEF Used
  <2>3. (rx'.tail - rx.head) % s = IF rx'.tail >= rx.head THEN rx'.tail - rx.head ELSE rx'.tail - rx.head + s
    BY <2>1, <1>3, ModSub
  <2> DEFINE m == (rx'.tail - rx.head) % s
  <2>4. m = IF rx'.tail >= rx.head THEN rx'.tail - rx.head ELSE rx'.tail - rx.head + s
    BY <2>3
  <2> HIDE DEF m, u
  <2>5. m = u + n
    BY <2>4, <1>3, <1>4, <1>5
  <2> QED BY <2>2, <2>5 DEF m
<1> HIDE DEF u
<1>7. InRx' = Window(rx, rx.head, u + n)
  <2>1. InRx' = Window(rx', rx.head, u + n)
    BY <1>1, <1>2, <1>5, <1>6 DEF InRx
  <2> QED BY <2>1, <1>5 DEF Window
<1>8. Window(rx, rx.head, u + n) = Window(rx, rx.head, u) \o Window(rx, rx.head + u, n)
  <2>1. rx \in Queues /\ rx.size # 0 /\ rx.head \in Nat /\ u \in Nat /\ n \in Nat
    BY <1>2, <1>3, <1>4
  <2> HIDE DEF n
  <2> QED BY <2>1, WindowSplit, Zenon
<1>9. Window(rx, rx.head + u, n) = Window(tx, tx.head, n)
  <2>1. ASSUME NEW i \in 1 .. n PROVE rx.buf[(rx.head + u + i - 1) % s] = tx.buf[(tx.head + i - 1) % tx.size]
    <3>1. i - 1 \in 0 .. n - 1
      BY <1>4
    <3>2. rx.buf[rx.tail + (i - 1)] = tx.buf[tx.head + (i - 1)]
      BY <3>1, <1>1, <1>4 DEF FifoInv, CopyInv
    <3> DEFINE a == rx.head + u + i - 1
    <3>3. a \in 0 .. 2 * s - 1 /\ (a = rx.tail + (i - 1) \/ a = rx.tail + (i - 1) + s) /\ rx.tail + (i - 1) < s
      BY <1>3, <1>4
    <3>4. a % s = rx.tail + (i - 1)
      <4>1. a % s = IF a < s THEN a ELSE a - s
        <5> HIDE DEF a
        <5> QED BY <3>3, <1>3, ModAdd
      <4> HIDE DEF a
      <4> QED BY <4>1, <3>3, <1>3
    <3>5. (tx.head + i - 1) % tx.size = tx.head + (i - 1)
      <4>1. tx.size \in {2, 4, 8, 16} /\ tx.size \in Nat /\ tx.head \in Nat
        BY <1>2, QueueFields
      <4> DEFINE b == tx.head + i - 1
      <4>2. b \in 0 .. tx.size - 1 /\ b = tx.head + (i - 1)
        BY <4>1, <1>4
      <4> HIDE DEF b
      <4>3. b % tx.size = b
        BY <4>1, <4>2
      <4> QED BY <4>2, <4>3 DEF b
    <3> QED BY <3>2, <3>4, <3>5
  <2> QED BY <2>1 DEF Window
<1> QED BY <1>3, <1>7, <1>8, <1>9

LEMMA MoveTx ==
  ASSUME TypeInv, TypeInv', pull_rx_tail
  PROVE  InTx = Window(tx, tx.head, pull.n) \o InTx'
<1> DEFINE s == tx.size
           u == (tx.tail - tx.head) % s
           n == pull.n
<1>1. pc["R"] = "rxtail" /\ pc'["R"] = "txhead" /\ pc'["S"] = pc["S"] /\ UNCHANGED <<tx, pull>>
  BY DEF pull_rx_tail, Goto, TypeInv, PcTypes, Ends
<1>2. TxOpen /\ TxOpen' /\ TxFrom = tx.head /\ tx.size # 0
  BY <1>1 DEF TypeInv, PullInv, Pulling, TxOpen, TxConf, TxFrom
<1>3. /\ tx \in Queues /\ s \in {2, 4, 8, 16} /\ s \in Nat
      /\ tx.head \in 0 .. s - 1 /\ tx.tail \in 0 .. s - 1
      /\ InTx = Window(tx, tx.head, u)
      /\ u = (IF tx.tail >= tx.head THEN tx.tail - tx.head ELSE tx.tail - tx.head + s)
  BY <1>2, TxWindow
<1> HIDE DEF u
<1>4. /\ n \in Nat /\ n > 0 /\ pull.h = tx.head /\ tx.head + n <= s
      /\ n <= (IF tx.tail >= tx.head THEN tx.tail - tx.head ELSE s - tx.head)
  BY <1>1 DEF TypeInv, PullInv
<1>5. TxFrom' = tx.head + n
  BY <1>1, <1>4 DEF TxFrom
<1>6. (tx.tail - (tx.head + n)) % s = u - n /\ u - n \in Nat
  <2> DEFINE f == tx.head + n
             m == (tx.tail - f) % s
  <2>1. f \in 0 .. s
    BY <1>3, <1>4
  <2>2. m = IF tx.tail >= f THEN tx.tail - f ELSE tx.tail - f + s
    <3> HIDE DEF f
    <3> QED BY <2>1, <1>3, ModSub
  <2> HIDE DEF m
  <2>3. m = u - n /\ u - n \in Nat
    BY <2>2, <1>3, <1>4
  <2> QED BY <2>3 DEF m
<1>7. InTx' = Window(tx, tx.head + n, u - n)
  <2>1. InTx' = Window(tx', TxFrom', (tx'.tail - TxFrom') % tx'.size)
    BY <1>2 DEF InTx, TxOpen
  <2> QED BY <2>1, <1>1, <1>5, <1>6
<1>8. InTx = Window(tx, tx.head, n) \o Window(tx, tx.head + n, u - n)
  <2> DEFINE k == u - n
  <2>1. n + k = u /\ k \in Nat
    BY <1>3, <1>4, <1>6
  <2>2. tx \in Queues /\ tx.size # 0 /\ tx.head \in Nat /\ n \in Nat
    BY <1>2, <1>3, <1>4
  <2> HIDE DEF k, n
  <2>3. Window(tx, tx.head, n + k) = Window(tx, tx.head, n) \o Window(tx, tx.head + n, k)
    BY <2>1, <2>2, WindowSplit, Zenon
  <2> QED BY <2>1, <2>3, <1>3 DEF k
<1> QED BY <1>7, <1>8

LEMMA MoveStep ==
  ASSUME TypeInv, TypeInv', FifoInv, pull_rx_tail
  PROVE  UNCHANGED Fifo!fvars
<1> DEFINE w == Window(tx, tx.head, pull.n)
<1>1. pc["R"] = "rxtail" /\ pc'["R"] = "txhead" /\ pc'["S"] = pc["S"] /\ UNCHANGED <<tx, next, last>>
  BY DEF pull_rx_tail, Goto, TypeInv, PcTypes, Ends, hist
<1>2. InRx' = InRx \o w /\ InTx = w \o InTx'
  BY MoveRx, MoveTx
<1>3. w \in Seq(Pkts)
  <2>1. tx \in Queues /\ tx.size # 0 /\ pull.n \in Nat
    BY <1>1 DEF TypeInv, TxShape, PullInv, Pulling
  <2>2. tx.head \in Nat
    BY <2>1, QueueFields
  <2> QED BY <2>1, <2>2, WindowSeq
<1>4. InRx \in Seq(Pkts) /\ InTx' \in Seq(Pkts)
  <2>1. (TypeInv => InTx \in Seq(Pkts))'
    BY InTxSeq, PTL
  <2> QED BY <2>1, InRxSeq DEF Pkts
<1>5. InRx' \o InTx' = InRx \o InTx
  <2> HIDE DEF w
  <2>1. (InRx \o w) \o InTx' = InRx \o (w \o InTx')
    BY <1>3, <1>4, ConcatAssociative
  <2> QED BY <1>2, <2>1
<1>6. TxConf' = TxConf /\ RxConf' = RxConf
  BY <1>1 DEF TxConf, RxConf
<1> QED BY <1>1, <1>5, <1>6 DEF Fifo!fvars, RxConf

(* The new head of the transmit queue is where the sender's half already   *)
(* begins.                                                                 *)
LEMMA HeadStep ==
  ASSUME TypeInv, pull_tx_head
  PROVE  UNCHANGED Fifo!fvars
<1> DEFINE s == tx.size
           f == pull.h + pull.n
           n == (tx.tail - f) % s
<1>1. /\ pc["R"] = "txhead" /\ pc'["R"] = "pull" /\ pc'["S"] = pc["S"] /\ UNCHANGED <<rx, pull, next, last>>
      /\ tx' = [tx EXCEPT !.head = Mask(f, s)]
  BY DEF pull_tx_head, Goto, TypeInv, PcTypes, Ends, hist
<1>2. TxOpen /\ TxFrom = f /\ s # 0 /\ ~TxConf'
  BY <1>1 DEF TypeInv, PullInv, Pulling, TxOpen, TxConf, TxFrom
<1>3. /\ tx \in Queues /\ s \in {2, 4, 8, 16} /\ s \in Nat /\ tx.tail \in 0 .. s - 1 /\ f \in 0 .. s
      /\ InTx = Window(tx, f, n) /\ n \in 0 .. s - 1
  BY <1>2, TxWindow
<1>4. tx'.head = f % s /\ tx'.tail = tx.tail /\ tx'.size = s /\ tx'.buf = tx.buf
  BY <1>1, <1>2, <1>3 DEF Queues, Mask
<1>5. InTx' = Window(tx', f % s, (tx.tail - (f % s)) % s)
  <2>1. TxFrom' = tx'.head
    BY <1>1 DEF TxFrom
  <2>2. InTx' = Window(tx', TxFrom', (tx'.tail - TxFrom') % tx'.size)
    BY <1>2, <1>4 DEF InTx
  <2> HIDE DEF f, s
  <2>3. TxFrom' = f % s /\ tx'.tail = tx.tail /\ tx'.size = s
    BY <2>1, <1>4
  <2> QED BY <2>2, <2>3, Zenon
<1>6. (tx.tail - (f % s)) % s = n
  <2> HIDE DEF f
  <2>1. f % s = IF f = s THEN 0 ELSE f
    <3>1. f \in Nat /\ f <= s
      BY <1>3
    <3> QED BY <3>1, <1>2, <1>3, MaskFacts DEF Mask
  <2>2. (tx.tail - s) % s = tx.tail % s
    BY <1>3
  <2> QED BY <2>1, <2>2, <1>3
<1>7. InTx' = Window(tx, f % s, n)
  BY <1>4, <1>5, <1>6 DEF Window
<1>8. Window(tx, f % s, n) = Window(tx, f, n)
  <2>1. f \in Nat /\ n \in Nat
    BY <1>3
  <2> HIDE DEF f, n
  <2> QED BY <2>1, <1>2, <1>3, WindowShift
<1>9. InTx' = InTx
  BY <1>3, <1>7, <1>8
<1>10. InRx' = InRx
  BY <1>1, InRxSame
<1> QED BY <1>1, <1>9, <1>10, Stutters DEF TxConf, RxConf

(* The receiving guest takes the oldest packets.                           *)
LEMMA ReceiveStep ==
  ASSUME TypeInv, FifoInv, NEW h \in Slots, hcall_ldc_rx_set_qhead(h)
  PROVE  Fifo!Next
<1> DEFINE s == rx.size
           u == Used(rx)
           k == (h - rx.head) % s
           a == Window(rx, rx.head, k)
           b == Window(rx, rx.head + k, u - k)
<1>1. /\ pc["R"] = "consume" /\ pc'["R"] \in {"get", "ack"} /\ pc'["S"] = pc["S"] /\ UNCHANGED <<tx, pull, next>>
      /\ rx' = [rx EXCEPT !.head = h] /\ last' = rx.buf[(h - 1) % s] /\ ValidHead(h)
  BY DEF hcall_ldc_rx_set_qhead, Goto, TypeInv, PcTypes, Ends
<1>2. RxOpen /\ rx \in Queues /\ s # 0 /\ rx.head # rx.tail
  BY <1>1 DEF TypeInv, RxOpen, RxShape, FifoInv, InUse
<1>3. /\ s \in {2, 4, 8, 16} /\ s \in Nat /\ rx.head \in 0 .. s - 1 /\ rx.tail \in 0 .. s - 1
      /\ InRx = Window(rx, rx.head, u)
      /\ u = (IF rx.tail >= rx.head THEN rx.tail - rx.head ELSE rx.tail - rx.head + s)
      /\ u \in 0 .. s - 1
  BY <1>2, RxWindow
<1>4. h \in 0 .. s - 1
  BY <1>1, <1>3, SizeFacts DEF ValidHead
<1>5. k = (IF h >= rx.head THEN h - rx.head ELSE h - rx.head + s)
  BY <1>3, <1>4, ModSub
<1>6. rx'.head = h /\ rx'.tail = rx.tail /\ rx'.size = s /\ rx'.buf = rx.buf
  BY <1>1, <1>2 DEF Queues
<1> HIDE DEF u, k
<1>7. k \in 1 .. u /\ u - k \in Nat /\ rx.head + k \in Nat /\ (rx.head + k = h \/ rx.head + k = h + s)
  BY <1>1, <1>2, <1>3, <1>4, <1>5 DEF ValidHead
<1>8. Used(rx)' = u - k
  <2>1. Used(rx)' = (rx.tail - h) % s
    BY <1>2, <1>6 DEF Used
  <2> DEFINE m == (rx.tail - h) % s
  <2>2. m = IF rx.tail >= h THEN rx.tail - h ELSE rx.tail - h + s
    BY <1>3, <1>4, ModSub
  <2> HIDE DEF m
  <2>3. m = u - k
    BY <1>1, <1>2, <1>3, <1>4, <1>5, <2>2 DEF ValidHead
  <2> QED BY <2>1, <2>3 DEF m
<1>9. (rx.head + k) % s = h
  <2>1. h % s = h /\ (h + s) % s = h
    BY <1>3, <1>4
  <2> QED BY <2>1, <1>7
<1>10. InRx' = b
  <2>1. InRx' = Window(rx', h, u - k)
    BY <1>1, <1>2, <1>6, <1>8 DEF InRx
  <2>2. Window(rx', h, u - k) = Window(rx, h, u - k)
    BY <1>6 DEF Window
  <2> DEFINE f == rx.head + k
             m == u - k
  <2>3. f \in Nat /\ m \in Nat
    BY <1>7
  <2>4. Window(rx, f % s, m) = Window(rx, f, m)
    <3> HIDE DEF f, m
    <3> QED BY <2>3, <1>2, WindowShift
  <2> QED BY <2>1, <2>2, <2>4, <1>9
<1>11. InRx = a \o b
  <2> DEFINE m == u - k
  <2>1. k + m = u /\ k \in Nat /\ m \in Nat /\ rx.head \in Nat
    BY <1>3, <1>7
  <2> HIDE DEF m
  <2>2. Window(rx, rx.head, k + m) = Window(rx, rx.head, k) \o Window(rx, rx.head + k, m)
    BY <2>1, <1>2, WindowSplit, Zenon
  <2> QED BY <2>1, <2>2, <1>3 DEF m
<1>12. /\ a \in Seq(Pkts) /\ Len(a) = k /\ \A i \in 1 .. k : a[i] = rx.buf[(rx.head + i - 1) % s]
       /\ b \in Seq(Pkts) /\ InTx \in Seq(Pkts)
  <2>1. k \in Nat /\ rx.head \in Nat
    BY <1>3, <1>7
  <2> QED BY <2>1, <1>2, <1>7, WindowSeq, InTxSeq
<1>13. InTx' = InTx
  BY <1>1, InTxSame DEF TxConf
<1>14. last' = a[k]
  <2>1. a[k] = rx.buf[(rx.head + k - 1) % s]
    BY <1>7, <1>12
  <2>2. (rx.head + k - 1) % s = (h - 1) % s
    <3>1. rx.head + k - 1 = h - 1 \/ rx.head + k - 1 = h - 1 + s
      <4>1. k \in Nat /\ h \in Nat /\ s \in Nat /\ rx.head \in Nat
        BY <1>3, <1>4, <1>7
      <4> QED BY ONLY <4>1, <1>7
    <3>2. (h - 1 + s) % s = (h - 1) % s
      BY <1>3, <1>4
    <3> QED BY <3>1, <3>2
  <2> QED BY <2>1, <2>2, <1>1
<1> HIDE DEF a, b
<1>15. InRx \o InTx = a \o (b \o InTx)
  BY <1>11, <1>12, ConcatAssociative
<1>16. b \o InTx \in Seq(Pkts)
  BY <1>12, ConcatProperties
<1>17. SubSeq(InRx \o InTx, k + 1, Len(InRx \o InTx)) = b \o InTx
  BY <1>12, <1>15, <1>16, DropFirst
<1>18. (InRx \o InTx)[k] = a[k] /\ k \in 1 .. Len(InRx \o InTx)
  <2> DEFINE c == b \o InTx
  <2>1. c \in Seq(Pkts)
    BY <1>16
  <2> HIDE DEF c
  <2>2. /\ Len(a \o c) = Len(a) + Len(c) /\ Len(c) \in Nat
        /\ \A i \in 1 .. Len(a) + Len(c) : (a \o c)[i] = IF i <= Len(a) THEN a[i] ELSE c[i - Len(a)]
    BY <2>1, <1>12, ConcatProperties, LenProperties
  <2>3. k \in 1 .. Len(a \o c) /\ (a \o c)[k] = a[k]
    BY <2>2, <1>7, <1>12
  <2> QED BY <2>3, <1>15 DEF c
<1>19. (InRx \o InTx)' = b \o InTx
  BY <1>10, <1>13
<1>20. TxConf' = TxConf /\ RxConf' = RxConf
  BY <1>1 DEF TxConf, RxConf
<1>21. Fifo!Receive
  BY <1>1, <1>14, <1>17, <1>18, <1>19, <1>20 DEF Fifo!Receive, RxConf
<1> QED BY <1>21 DEF Fifo!Next

-----------------------------------------------------------------------------
(* Steps that move no packet, and steps that drop some.                    *)
LEMMA QuietSender ==
  ASSUME TypeInv, NEW l, Goto("S", l), UNCHANGED <<tx, rx, pull, next, last>>,
         l \in TxConfPc <=> TxConf
  PROVE  UNCHANGED Fifo!fvars
<1>1. pc'["R"] = pc["R"] /\ (TxConf' <=> TxConf)
  BY DEF Goto, TypeInv, PcTypes, Ends, TxConf, TxConfPc
<1>2. InRx' = InRx
  BY <1>1, InRxSame
<1>3. InTx' = InTx
  BY <1>1, InTxSame
<1> QED BY <1>1, <1>2, <1>3, Stutters DEF RxConf

LEMMA QuietReceiver ==
  ASSUME TypeInv, NEW l, Goto("R", l), UNCHANGED <<tx, rx, next, last>>,
         pc["R"] \notin {"txhead", "rq_upd", "rq_size", "chk", "exit_chk"},
         l \notin {"txhead", "rq_upd", "rq_size", "chk", "exit_chk"}
  PROVE  UNCHANGED Fifo!fvars
<1>1. pc'["R"] = l /\ pc'["S"] = pc["S"]
  BY DEF Goto, TypeInv, PcTypes, Ends
<1>2. InRx' = InRx
  BY <1>1, InRxSame
<1>3. InTx' = InTx
  BY <1>1, InTxSame DEF TxConf
<1> QED BY <1>1, <1>2, <1>3, Stutters DEF RxConf, TxConf

LEMMA TxFlushStep ==
  ASSUME TypeInv, TypeInv', Coordinated,
         (\E n \in Sizes \cup {0} : hcall_ldc_tx_qconf(n)) \/ tx_qconf_tail \/ tx_qconf_head \/ tx_qconf_size
           \/ tx_guest_exit \/ tx_reset \/ tx_guest_boot
  PROVE  Fifo!Next
<1>1. pc'["R"] = pc["R"] /\ UNCHANGED <<rx, next, last>> /\ (TxConf \/ TxConf')
  BY DEF hcall_ldc_tx_qconf, tx_qconf_tail, tx_qconf_head, tx_qconf_size, tx_guest_exit, tx_reset, tx_guest_boot, Goto, TypeInv, PcTypes,
         Ends, TxConf, hist, queues
<1>2. InRx' = InRx
  BY <1>1, InRxSame
<1>3. InTx' = <<>>
  <2>1. CASE TxConf'
    BY <2>1 DEF InTx
  <2>2. CASE ~TxConf'
    <3>1. tx_qconf_size \/ tx_reset \/ tx_guest_boot
      BY <2>2 DEF hcall_ldc_tx_qconf, tx_qconf_tail, tx_qconf_head, tx_guest_exit, Goto, TypeInv, PcTypes, Ends, TxConf
    <3>2. tx'.size = 0 \/ tx'.head = tx'.tail
      BY <3>1 DEF tx_qconf_size, tx_reset, tx_guest_boot, TypeInv, TxShape, TxDown, Queues, queues
    <3>3. pc["R"] # "txhead"
      BY <3>1 DEF tx_qconf_size, tx_reset, tx_guest_boot, TypeInv, PullInv, Pulling, TxConf
    <3>4. CASE tx'.size # 0
      <4>1. TxFrom' = tx'.tail
        BY <3>2, <3>3, <3>4, <1>1 DEF TxFrom
      <4>2. tx'.size \in {2, 4, 8, 16} /\ tx'.tail \in Nat
        <5>1. tx' \in Queues
          BY DEF TypeInv, TxShape
        <5> QED BY <5>1, <3>4, QueueFields
      <4>3. (tx'.tail - TxFrom') % tx'.size = 0
        BY <4>1, <4>2
      <4>4. InTx' = Window(tx', TxFrom', (tx'.tail - TxFrom') % tx'.size)
        BY <2>2, <3>4 DEF InTx
      <4> QED BY <4>3, <4>4, EmptyWindow
    <3>5. CASE tx'.size = 0
      BY <3>5 DEF InTx
    <3> QED BY <3>4, <3>5
  <2> QED BY <2>1, <2>2
<1> QED BY <1>1, <1>2, <1>3, FlushesTx DEF RxConf

LEMMA RxFlushStep ==
  ASSUME TypeInv, TypeInv', (\E n \in Sizes \cup {0} : hcall_ldc_rx_qconf(n)) \/ rx_qconf_updated \/ rx_qconf_size \/ rx_guest_exit
  PROVE  Fifo!Next
<1>1. /\ pc'["S"] = pc["S"] /\ UNCHANGED <<tx, next, last, pull>> /\ RxConf' /\ pc["R"] # "txhead" /\ pc'["R"] # "txhead"
  BY DEF hcall_ldc_rx_qconf, rx_qconf_updated, rx_qconf_size, rx_guest_exit, Goto, TypeInv, PcTypes, Ends, RxConf, hist, queues
<1>2. InTx' = InTx
  BY <1>1, InTxSame DEF TxConf
<1>3. InRx' = <<>>
  <2>1. CASE rx'.size = 0 \/ pc'["R"] \in {"rq_upd", "rq_size"}
    BY <2>1 DEF InRx
  <2>2. CASE ~(rx'.size = 0 \/ pc'["R"] \in {"rq_upd", "rq_size"})
    <3>1. rx_qconf_size /\ rx'.head = rx'.tail
      <4>1. CASE rx_qconf_updated
        <5>1. pc["R"] = "rq_upd" /\ pc'["R"] = (IF conf["R"] = 0 THEN "chk" ELSE "rq_size") /\ UNCHANGED rx
          BY <4>1 DEF rx_qconf_updated, Goto, TypeInv, PcTypes, Ends, queues
        <5> QED BY <5>1, <2>2 DEF TypeInv, RxShape
      <4>2. CASE (\E n \in Sizes \cup {0} : hcall_ldc_rx_qconf(n)) \/ rx_guest_exit
        BY <4>2, <2>2 DEF hcall_ldc_rx_qconf, rx_guest_exit, Goto, TypeInv, PcTypes, Ends, RxShape, Queues
      <4>3. CASE rx_qconf_size
        BY <4>3, <2>2 DEF rx_qconf_size, TypeInv, RxShape, Queues
      <4> QED BY <4>1, <4>2, <4>3
    <3>2. rx'.size \in {2, 4, 8, 16} /\ rx'.tail \in Nat
      <4>1. rx' \in Queues
        BY DEF TypeInv, RxShape
      <4> QED BY <4>1, <2>2, QueueFields
    <3>3. Used(rx)' = 0
      BY <3>1, <3>2 DEF Used
    <3>4. InRx' = Window(rx', rx'.head, Used(rx)')
      BY <2>2 DEF InRx
    <3> QED BY <3>3, <3>4, EmptyWindow
  <2> QED BY <2>1, <2>2
<1> QED BY <1>1, <1>2, <1>3, FlushesRx DEF TxConf

(* The end of a reset, and the notification that follows a change.         *)
LEMMA RxResetStep ==
  ASSUME TypeInv, FifoInv, rx_reset
  PROVE  UNCHANGED Fifo!fvars
<1>1. /\ pc["R"] = "rx_reset" /\ pc'["R"] = "ack" /\ pc'["S"] = pc["S"] /\ UNCHANGED <<tx, next, last, pull>>
      /\ rx' = [rx EXCEPT !.head = 0, !.tail = 0]
  BY DEF rx_reset, Goto, TypeInv, PcTypes, Ends, hist
<1>2. rx.size = 0 /\ rx'.size = 0
  BY <1>1 DEF FifoInv, InUse, TypeInv, RxShape, Queues
<1>3. InRx' = InRx
  BY <1>2 DEF InRx
<1>4. InTx' = InTx
  BY <1>1, InTxSame DEF TxConf
<1> QED BY <1>1, <1>3, <1>4, Stutters DEF RxConf, TxConf

LEMMA RxNotifyStep ==
  ASSUME TypeInv, notify_chk("R")
  PROVE  Fifo!Next
<1>1. /\ pc["R"] \in {"chk", "exit_chk"} /\ pc'["R"] \in {"cas", "exit_cas", "rx_reset", "get"} /\ pc'["S"] = pc["S"]
      /\ UNCHANGED <<tx, rx, next, last, pull>>
  BY DEF notify_chk, Notified, Goto, TypeInv, PcTypes, Ends, hist, queues
<1>2. InRx' = InRx
  BY <1>1, InRxSame
<1>3. InTx' = InTx
  BY <1>1, InTxSame DEF TxConf
<1> QED BY <1>1, <1>2, <1>3, FlushesNone DEF RxConf, TxConf

LEMMA FifoStep ==
  ASSUME TypeInv, TypeInv', FifoInv, Coordinated, Next
  PROVE  Fifo!Next \/ UNCHANGED Fifo!fvars
<1>p. pc["S"] \in S_PC /\ pc["R"] \in R_PC
  BY DEF TypeInv, PcTypes
<1>1. ASSUME NEW e \in Ends, notify_chk(e) \/ notify_cas(e) \/ take_mondo(e) \/ ldc_vintr_setstate(e)
      PROVE  Fifo!Next \/ UNCHANGED Fifo!fvars
  <2>1. UNCHANGED <<tx, rx, pull, next, last>>
    BY <1>1 DEF notify_chk, notify_cas, take_mondo, ldc_vintr_setstate, queues, hist
  <2>2. CASE e = "R"
    <3>1. CASE notify_cas("R")
      BY <3>1, <2>1, QuietReceiver DEF notify_cas, Notified
    <3>2. CASE take_mondo("R") \/ ldc_vintr_setstate("R")
      BY <3>2, <2>1, QuietReceiver DEF take_mondo, ldc_vintr_setstate
    <3> QED BY <1>1, <2>2, <3>1, <3>2, RxNotifyStep
  <2>3. CASE e = "S"
    <3>1. CASE notify_chk("S") \/ notify_cas("S")
      <4>1. CASE pc["S"] \in {"chk", "cas"}
        <5>1. Goto("S", "cas") \/ Goto("S", "run")
          BY <3>1, <4>1 DEF notify_chk, notify_cas, Notified
        <5> QED BY <2>1, <4>1, <5>1, QuietSender DEF TxConf, TxConfPc
      <4>2. CASE pc["S"] \in {"exit_chk", "exit_cas"}
        <5>1. Goto("S", "exit_cas") \/ Goto("S", "tx_exit")
          BY <3>1, <4>2 DEF notify_chk, notify_cas, Notified
        <5> QED BY <2>1, <4>2, <5>1, QuietSender DEF TxConf, TxConfPc
      <4> QED BY <3>1, <4>1, <4>2 DEF notify_chk, notify_cas
    <3>2. CASE take_mondo("S") \/ ldc_vintr_setstate("S")
      BY <3>2, <2>1, QuietSender DEF take_mondo, ldc_vintr_setstate, TxConf, TxConfPc
    <3> QED BY <1>1, <2>3, <3>1, <3>2
  <2> QED BY <2>2, <2>3 DEF Ends
<1>2. CASE (\E v \in BOOLEAN : ldc_vintr_setvalid(v)) \/ setvalid_idle \/ hv_ldc_chk_pkts \/ chk_pkts_cas
  BY <1>2, QuietReceiver DEF ldc_vintr_setvalid, setvalid_idle, hv_ldc_chk_pkts, chk_pkts_cas, queues, hist
<1>3. CASE guest_to_guest_tx_set_tail \/ hcall_ldc_tx_get_state \/ status_clear \/ status_size
  <2>1. ~TxConf
    BY <1>3 DEF guest_to_guest_tx_set_tail, hcall_ldc_tx_get_state, status_clear, status_size, TxConf
  <2> QED BY <1>3, <2>1, QuietSender DEF guest_to_guest_tx_set_tail, hcall_ldc_tx_get_state, status_clear, status_size,
                                         queues, hist, TxConfPc
<1>4. CASE hcall_ldc_rx_get_state \/ guest_to_guest_pull_data \/ rx_state_returned
  BY <1>4, QuietReceiver DEF hcall_ldc_rx_get_state, guest_to_guest_pull_data, rx_state_returned, queues, hist
<1> QED BY <1>1, <1>2, <1>3, <1>4, Cases, SendStep, CopyStep, MoveStep, HeadStep, ReceiveStep, TxFlushStep, RxFlushStep,
           RxResetStep

-----------------------------------------------------------------------------
(* Packets arrive once, in the order they were sent, and only an end that  *)
(* reconfigures or gives up its queue drops any: every step of the two     *)
(* rings, the copy between them (guest_to_guest_pull_data) and the calls   *)
(* of both guests is a step of LdcFifo or changes nothing it sees.         *)
THEOREM ChannelIsFifo ==
  ASSUME Coordinated
  PROVE  Spec => FifoSpec
<1>1. Init => FifoInv /\ Fifo!Init
  <2> SUFFICES ASSUME Init PROVE FifoInv /\ Fifo!Init
    OBVIOUS
  <2>1. FifoInv
    BY DEF Init, FifoInv, CopyInv, InUse, Ends
  <2>2. InRx = <<>> /\ InTx = <<>>
    BY DEF Init, InRx, InTx, Queue
  <2>3. InRx \o InTx = <<>>
    BY <2>2
  <2>4. TxConf = FALSE /\ (pc["R"] \in {"rq_upd", "rq_size", "chk", "exit_chk"}) = FALSE
    BY DEF Init, TxConf, Ends
  <2> QED BY <2>1, <2>3, <2>4 DEF Init, Fifo!Init
<1>2. TypeInv /\ FifoInv /\ [Next]_vars => FifoInv'
  <2>1. FifoInv /\ UNCHANGED vars => FifoInv'
    BY DEF vars, queues, FifoInv, CopyInv, InUse
  <2> QED BY <2>1, NextCopy, NextInUse DEF FifoInv
<1>3. TypeInv /\ TypeInv' /\ FifoInv /\ [Next]_vars => [Fifo!Next]_(Fifo!fvars)
  <2>1. UNCHANGED vars => UNCHANGED Fifo!fvars
    <3> SUFFICES ASSUME UNCHANGED vars PROVE UNCHANGED Fifo!fvars
      OBVIOUS
    <3>1. UNCHANGED <<tx, rx, pc, pull, next, last>>
      BY DEF vars, queues, hist
    <3>2. InRx' = InRx /\ InTx' = InTx
      BY <3>1, InRxSame, InTxSame DEF TxConf
    <3> QED BY <3>1, <3>2, Stutters DEF TxConf, RxConf
  <2> QED BY <2>1, FifoStep
<1> QED BY <1>1, <1>2, <1>3, InitType, NextType, PTL DEF Spec, FifoSpec, Fifo!Spec
=============================================================================
