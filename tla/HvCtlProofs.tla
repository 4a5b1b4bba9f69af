---------------------------- MODULE HvCtlProofs ----------------------------
(***************************************************************************)
(* Proofs about HvCtl for any number of guests and strands, any length of  *)
(* Zeus's queue and any width of the sequence numbers.                     *)
(***************************************************************************)
EXTENDS HvCtl, SequenceTheorems, FiniteSetTheorems, TLAPS

Seqn == 0 .. SEQMOD - 1
AllValues == (UNION {Values(i) : i \in Infos}) \cup {Unknown}

CtlTypes ==
  /\ ctl \in [state : {"UNCONNECTED", "CHALLENGED", "CONNECTED"}, zeus_seq : Seqn, hv_seq : Seqn]
  /\ cb \in {"none", "pkt", "stat", "send"}
  /\ ibuf \in Packets /\ obuf \in Messages

QueueTypes ==
  /\ ldcLock \in Strands \cup {Nobody}
  /\ rxq \in Seq(Messages) /\ Len(rxq) < QLEN
  /\ qconf \in BOOLEAN /\ (~qconf => rxq = <<>>)

GuestTypes ==
  /\ val \in [Guests -> [Infos -> AllValues]]
  /\ \A g \in Guests, i \in Infos : val[g][i] \in Values(i)
  /\ busy \in [Guests -> [Infos -> BOOLEAN]]
  /\ asyncLock \in [Guests -> [Infos -> Strands \cup {Control, Nobody}]]
  /\ asyncBuf \in [Guests -> [info : Infos, val : AllValues]]
  /\ launch \subseteq Guests

StrandTypes ==
  strand \in [Strands -> [pc : {"idle", "notify", "ntake", "nsend", "exit", "check", "data", "hsend"},
                          role : {"guest", "launch", "exit", "reset"},
                          info : Infos, val : AllValues]]

ZeusTypes ==
  /\ zeus \in [up : BOOLEAN, waiting : BOOLEAN,
               session : {"none", "hello", "challenged", "response", "up"}, seq : Seqn, expect : Seqn]
  /\ owed \subseteq Keys

TypeInv == CtlTypes /\ QueueTypes /\ GuestTypes /\ StrandTypes /\ ZeusTypes

(* What the answer r to the manager's last packet means for the session:   *)
(* if the manager will go on with it, both sides count alike.              *)
Agree(r, state) ==
  ctl.state = state /\ ctl.zeus_seq = zeus.seq /\ ctl.hv_seq = Next16(r.seqn)
Answers(r) ==
  r.st \notin Refusals =>
    /\ zeus.session = "hello" /\ r.op = "challenge" => Agree(r, "CHALLENGED")
    /\ zeus.session = "response" /\ r.op = "response" => Agree(r, "CONNECTED")
    /\ zeus.session = "up" => Agree(r, "CONNECTED")

(* The packet handed over is the one the hypervisor expects.               *)
Expected(state) ==
  /\ ctl.state = state /\ ctl.zeus_seq = ibuf.seqn /\ ctl.hv_seq = zeus.expect
Handed ==
  /\ zeus.seq = Next16(ibuf.seqn)
  /\ zeus.session = "hello" => ibuf.op = "hello"
  /\ zeus.session = "response" => ibuf.op = "response" /\ Expected("CHALLENGED")
  /\ zeus.session = "up" => ibuf.op # "hello" /\ Expected("CONNECTED")

(* The session: one packet is outstanding at a time.  Its answer is still  *)
(* to be made, waits in hvctl_obuf or is the one reply in the queue.       *)
SessionInv ==
  /\ zeus.up = qconf
  /\ cb # "none" => zeus.waiting /\ zeus.up
  /\ zeus.waiting => zeus.session # "challenged"
  /\ ~zeus.waiting => zeus.session \in {"none", "challenged", "up"}
  /\ ~zeus.waiting /\ zeus.session = "challenged" =>
       ctl.state = "CHALLENGED" /\ ctl.zeus_seq = zeus.seq /\ ctl.hv_seq = zeus.expect
  /\ SessionAgrees
  /\ cb = "pkt" => Handed
  /\ cb = "stat" => Handed /\ ibuf.op = "get_res_stat" /\ ctl.state = "CONNECTED" /\ InSequence
                    /\ zeus.session \in {"none", "up"}
  /\ cb = "send" => obuf.kind = "reply" /\ Answers(obuf)

ReplyInv ==
  \A n \in DOMAIN rxq : rxq[n].kind = "reply" =>
    /\ zeus.waiting /\ cb = "none" /\ Answers(rxq[n])
    /\ \A m \in DOMAIN rxq : rxq[m].kind = "reply" => m = n

(* Who holds the locks of a guest: the control channel between the two     *)
(* halves of a query, a hypercall from its store to its return, and a      *)
(* strand that has read the state to notify it, until it holds the         *)
(* channel's lock.                                                         *)
QueryLock == cb = "stat" => asyncLock[ibuf.key[1]][StatusLock(ibuf.key[2])] = Control
StrandLocks(s) ==
  /\ strand[s].pc \in {"check", "data", "hsend"} =>
       /\ strand[s].info \in HcallInfos
       /\ asyncLock[GuestOf[s]][HcallLock(strand[s].info)] = s
  /\ strand[s].pc = "ntake" => asyncLock[GuestOf[s]]["state"] = s
  /\ strand[s].pc = "nsend" => ldcLock = s
LockInv == QueryLock /\ \A s \in Strands : StrandLocks(s)

(* The strands that have read a state and not sent it are the ones in      *)
(* captured, and only the oldest is past the guest's lock.                 *)
Notifying == {"ntake", "nsend"}
Captures(g) ==
  \A n \in DOMAIN captured[g] :
    /\ GuestOf[captured[g][n]] = g
    /\ strand[captured[g][n]].pc \in Notifying
    /\ strand[captured[g][n]].pc = "nsend" => n = 1
    /\ \A m \in DOMAIN captured[g] : captured[g][m] = captured[g][n] => m = n
IsCaptured(s) ==
  strand[s].pc \in Notifying => \E n \in DOMAIN captured[GuestOf[s]] : captured[GuestOf[s]][n] = s
CapturedInv ==
  /\ captured \in [Guests -> Seq(Strands)]
  /\ \A g \in Guests : Captures(g)
  /\ \A s \in Strands : IsCaptured(s)

-----------------------------------------------------------------------------
LEMMA SeqnFacts ==
  /\ 0 \in Seqn /\ 1 \in Seqn
  /\ \A n \in Nat : Next16(n) \in Seqn /\ (n + RANDOM_SEQ_OFFSET) % SEQMOD \in Seqn
  /\ Seqn \subseteq Nat
<1>1. SEQMOD \in Nat /\ SEQMOD > 1
  BY BoundsAreNat
<1>2. \A a \in Nat : a % SEQMOD \in 0 .. SEQMOD - 1
  BY <1>1
<1> QED BY <1>1, <1>2 DEF Seqn, Next16, RANDOM_SEQ_OFFSET

LEMMA InfoFacts ==
  /\ "state" \in Infos /\ Infos \subseteq {"state", "soft_state", "tod"} /\ HcallInfos \subseteq Infos
  /\ \A i \in Infos : StatusLock(i) \in Infos /\ HcallLock(i) \in Infos
  /\ \A i \in Infos : Values(i) \subseteq AllValues
  /\ Unknown \in AllValues
  /\ GuestStates = Values("state") /\ GuestStates \subseteq AllValues
  /\ NoKey \in Keys
<1>1. "state" \in Infos /\ Infos \subseteq {"state", "soft_state", "tod"} /\ HcallInfos \subseteq Infos
  BY InfosKnown DEF Infos
<1>2. \A i \in Infos : StatusLock(i) \in Infos /\ HcallLock(i) \in Infos
  BY <1>1 DEF StatusLock, HcallLock
<1>3. \A i \in Infos : Values(i) \subseteq AllValues
  BY Zenon DEF AllValues
<1>4. Values("state") = GuestStates
  BY DEF Values
<1>5. NoKey \in Keys
  <2>1. PICK g \in Guests : TRUE
    BY SomeGuest
  <2>2. <<g, "state">> \in Keys
    BY <1>1 DEF Keys
  <2> QED BY <2>2 DEF NoKey
<1>6. Unknown \in AllValues
  BY DEF AllValues
<1>7. GuestStates \subseteq AllValues
  BY <1>1, <1>3, <1>4
<1> QED BY <1>1, <1>2, <1>3, <1>4, <1>5, <1>6, <1>7

LEMMA MessageFacts ==
  /\ NoReply \in Messages /\ NoPacket \in Packets
  /\ \A op \in Ops \cup {"challenge"}, st \in {"ok", "eillegal"} \cup Refusals, n \in Seqn, k \in Keys, v \in AllValues :
       Reply(op, st, n, k, v) \in Messages
  /\ \A k \in Keys, v \in AllValues : Notice(k, v) \in Messages
  /\ \A op \in Ops, n \in Seqn, b \in BOOLEAN, k \in Keys : Packet(op, n, b, k) \in Packets
<1>1. \A op \in Ops \cup {"challenge"}, st \in {"ok", "eillegal"} \cup Refusals, n \in Seqn, k \in Keys, v \in AllValues :
       Reply(op, st, n, k, v) \in Messages
  BY DEF Messages, Reply, Seqn, AllValues
<1>2. \A k \in Keys, v \in AllValues : Notice(k, v) \in Messages
  BY SeqnFacts DEF Messages, Notice, Seqn, AllValues
<1>3. \A op \in Ops, n \in Seqn, b \in BOOLEAN, k \in Keys : Packet(op, n, b, k) \in Packets
  BY DEF Packets, Packet, Seqn
<1>4. "hello" \in Ops /\ "ok" \in {"ok", "eillegal"} \cup Refusals
  BY DEF Ops
<1> QED BY <1>1, <1>2, <1>3, <1>4, SeqnFacts, InfoFacts DEF NoReply, NoPacket

LEMMA PacketFields ==
  ASSUME NEW p \in Packets
  PROVE  /\ p.op \in Ops /\ p.seqn \in Seqn /\ p.good \in BOOLEAN /\ p.key \in Keys
         /\ p.key[1] \in Guests /\ p.key[2] \in Infos
<1>1. p.op \in Ops /\ p.seqn \in Seqn /\ p.good \in BOOLEAN /\ p.key \in Keys
  BY DEF Packets, Seqn
<1> QED BY <1>1 DEF Keys

(* A send keeps the queue within its elements but one.                     *)
LEMMA SendType ==
  ASSUME QueueTypes, NEW m \in Messages, hv_ldc_send_pkt(m), UNCHANGED qconf
  PROVE  rxq' \in Seq(Messages) /\ Len(rxq') < QLEN /\ (~qconf' => rxq' = <<>>)
<1>1. CASE qconf /\ ~Full
  <2>1. rxq' = Append(rxq, m)
    BY <1>1 DEF hv_ldc_send_pkt
  <2>2. Len(rxq') = Len(rxq) + 1 /\ rxq' \in Seq(Messages) /\ Len(rxq) \in Nat
    BY <2>1 DEF QueueTypes
  <2> QED BY <1>1, <2>2, BoundsAreNat DEF QueueTypes, Full
<1>2. CASE ~(qconf /\ ~Full)
  BY <1>2 DEF hv_ldc_send_pkt, QueueTypes
<1> QED BY <1>1, <1>2

LEMMA InitType == Init => TypeInv
<1> SUFFICES ASSUME Init PROVE TypeInv
  OBVIOUS
<1> USE SeqnFacts, InfoFacts, MessageFacts DEF Init
<1>1. CtlTypes
  BY DEF CtlTypes
<1>2. QueueTypes
  <2>1. <<>> \in Seq(Messages) /\ Len(<<>>) = 0 /\ 0 < QLEN
    BY EmptySeq, BoundsAreNat
  <2> QED BY <2>1 DEF QueueTypes
<1>3. GuestTypes
  <2>1. \A i \in Infos : (CASE i = "state" -> "RESETTING"
                            [] i = "soft_state" -> "TRANSITION"
                            [] OTHER -> 0) \in Values(i)
    BY DEF Values, GuestStates
  <2>2. NoAsync \in [info : Infos, val : AllValues]
    BY DEF NoAsync
  <2>3. val \in [Guests -> [Infos -> AllValues]] /\ \A g \in Guests, i \in Infos : val[g][i] \in Values(i)
    BY <2>1
  <2> QED BY <2>2, <2>3 DEF GuestTypes
<1>4. StrandTypes
  BY DEF StrandTypes, Idle
<1>5. ZeusTypes
  BY DEF ZeusTypes
<1> QED BY <1>1, <1>2, <1>3, <1>4, <1>5 DEF TypeInv

(* An answer is a message, and the counters it leaves are in range.        *)
LEMMA ReplyType ==
  ASSUME CtlTypes, NEW st \in {"ok", "eillegal"} \cup Refusals, NEW v \in AllValues, NEW zseq \in Seqn,
         NEW state \in {"UNCONNECTED", "CHALLENGED", "CONNECTED"}, reply_cmd(state, zseq, st, v)
  PROVE  CtlTypes'
<1>1. ibuf.op \in Ops /\ ibuf.key \in Keys
  BY PacketFields DEF CtlTypes
<1>2. ctl.hv_seq \in Seqn /\ Next16(ctl.hv_seq) \in Seqn
  BY SeqnFacts DEF CtlTypes
<1>3. obuf' \in Messages
  BY <1>1, <1>2, MessageFacts DEF reply_cmd
<1> QED BY <1>2, <1>3, MessageFacts DEF reply_cmd, Processed, CtlTypes

LEMMA HelloType ==
  ASSUME CtlTypes, op_start_hello
  PROVE  CtlTypes'
<1>1. ibuf.op \in Ops /\ ibuf.key \in Keys /\ ibuf.seqn \in Nat
  BY PacketFields, SeqnFacts DEF CtlTypes
<1> DEFINE zseq == Next16(ibuf.seqn)
           hseq == (zseq + RANDOM_SEQ_OFFSET) % SEQMOD
<1>2. zseq \in Seqn /\ hseq \in Seqn /\ Next16(hseq) \in Seqn
  BY <1>1, SeqnFacts
<1>3. obuf' \in Messages
  BY <1>1, <1>2, MessageFacts, InfoFacts DEF op_start_hello, Refusals, Ops
<1> QED BY <1>2, <1>3, MessageFacts DEF op_start_hello, Processed, CtlTypes

(* The actions, one by one.                                                *)
LEMMA Cases ==
  ASSUME Next
  PROVE  \/ hv_control_pkt \/ op_guest_start \/ get_guest_status \/ get_guest_status_end \/ svc_reply
         \/ \E s \in Strands :
              \/ launch_boot_cpu(s) \/ exit_end(s)
              \/ notify_busy(s) \/ notify_capture(s) \/ notify_take(s) \/ notify_send(s)
              \/ hcall_busy(s) \/ hcall_build(s) \/ hcall_data(s) \/ hcall_send(s)
              \/ \E role \in {"exit", "reset"} : exit_begin(s, role)
              \/ \E i \in HcallInfos : \E v \in Values(i) : hcall_store(s, i, v)
         \/ zeus_connect \/ (\E k \in Keys : zeus_query(k)) \/ zeus_read \/ zeus_start
         \/ \E op \in Ops, k \in Keys : zeus_command(op, k)
         \/ \E op \in {"hello", "response", "get_res_stat"}, skip, good \in BOOLEAN :
              zeus_stray(op, skip, good)
         \/ zeus_reset
  BY DEF Next, Progress, ControlStep, StrandStep, GuestEvent, ZeusStep, ZeusEvent

(* Zeus's strand inside hv_control_pkt.                                    *)
LEMMA ControlType ==
  ASSUME TypeInv,
         hv_control_pkt \/ op_guest_start \/ get_guest_status \/ get_guest_status_end \/ svc_reply
  PROVE  TypeInv'
<1> USE DEF TypeInv
<1>0. /\ ctl.zeus_seq \in Seqn /\ Next16(ctl.zeus_seq) \in Seqn /\ ctl.hv_seq \in Seqn
      /\ ibuf.op \in Ops /\ ibuf.key \in Keys /\ ibuf.key[1] \in Guests /\ ibuf.key[2] \in Infos
  BY PacketFields, SeqnFacts DEF CtlTypes
<1>1. CASE hv_control_pkt
  <2>1. CtlTypes'
    <3>1. CASE pkt_unconnected
      BY <3>1, <1>0, ReplyType, HelloType, InfoFacts DEF pkt_unconnected, Refusals
    <3>2. CASE pkt_challenged
      BY <3>2, <1>0, ReplyType, HelloType, InfoFacts DEF pkt_challenged, Refusals, BadSequence
    <3>3. CASE pkt_connected
      BY <3>3, <1>0, ReplyType, HelloType, InfoFacts DEF pkt_connected, Refusals, BadSequence
    <3> QED BY <1>1, <3>1, <3>2, <3>3 DEF hv_control_pkt
  <2> QED BY <1>1, <2>1 DEF hv_control_pkt, QueueTypes, GuestTypes, StrandTypes, ZeusTypes, guestVars, zeusVars
<1>2. CASE op_guest_start
  <2>1. CtlTypes'
    BY <1>2, <1>0, ReplyType, InfoFacts DEF op_guest_start
  <2>2. GuestTypes'
    <3>1. /\ val' \in [Guests -> [Infos -> AllValues]]
          /\ \A g \in Guests, i \in Infos : val'[g][i] \in Values(i)
      BY <1>2, <1>0, InfoFacts DEF op_guest_start, GuestTypes, GuestStates
    <3> QED BY <1>2, <1>0, <3>1 DEF op_guest_start, GuestTypes
  <2> QED BY <1>2, <2>1, <2>2 DEF op_guest_start, QueueTypes, StrandTypes, ZeusTypes, zeusVars
<1>3. CASE get_guest_status
  <2>1. val[ibuf.key[1]][ibuf.key[2]] \in AllValues
    BY <1>0 DEF GuestTypes
  <2>2. CtlTypes'
    BY <1>3, <1>0, <2>1, MessageFacts DEF get_guest_status, CtlTypes
  <2>3. GuestTypes'
    <3>1. asyncLock' \in [Guests -> [Infos -> Strands \cup {Control, Nobody}]]
      BY <1>3, <1>0, InfoFacts DEF get_guest_status, GuestTypes
    <3> QED BY <1>3, <3>1 DEF get_guest_status, GuestTypes
  <2> QED BY <1>3, <2>2, <2>3 DEF get_guest_status, QueueTypes, StrandTypes, ZeusTypes, zeusVars
<1>4. CASE get_guest_status_end
  <2>1. obuf.val \in AllValues
    BY DEF CtlTypes, Messages, AllValues
  <2>2. CtlTypes'
    BY <1>4, <1>0, <2>1, ReplyType DEF get_guest_status_end
  <2>3. GuestTypes'
    <3>1. asyncLock' \in [Guests -> [Infos -> Strands \cup {Control, Nobody}]]
      BY <1>4, <1>0, InfoFacts DEF get_guest_status_end, GuestTypes
    <3>2. busy' \in [Guests -> [Infos -> BOOLEAN]]
      BY <1>4, <1>0 DEF get_guest_status_end, GuestTypes
    <3> QED BY <1>4, <3>1, <3>2 DEF get_guest_status_end, GuestTypes
  <2> QED BY <1>4, <2>2, <2>3 DEF get_guest_status_end, QueueTypes, StrandTypes, ZeusTypes, zeusVars
<1>5. CASE svc_reply
  <2>1. QueueTypes'
    BY <1>5, SendType DEF svc_reply, CtlTypes, QueueTypes
  <2>2. CtlTypes'
    BY <1>5, MessageFacts DEF svc_reply, CtlTypes
  <2> QED BY <1>5, <2>1, <2>2 DEF svc_reply, GuestTypes, StrandTypes, ZeusTypes, guestVars, zeusVars
<1> QED BY <1>1, <1>2, <1>3, <1>4, <1>5

(* The strands that launch, exit, notify and make hypercalls.              *)
LEMMA StrandType ==
  ASSUME TypeInv, NEW s \in Strands,
         \/ launch_boot_cpu(s) \/ exit_end(s)
         \/ notify_busy(s) \/ notify_capture(s) \/ notify_take(s) \/ notify_send(s)
         \/ hcall_busy(s) \/ hcall_build(s) \/ hcall_data(s) \/ hcall_send(s)
         \/ \E role \in {"exit", "reset"} : exit_begin(s, role)
         \/ \E i \in HcallInfos : \E v \in Values(i) : hcall_store(s, i, v)
  PROVE  TypeInv'
<1> USE DEF TypeInv
<1>g. GuestOf[s] \in Guests
  BY GuestOfType
<1>s. /\ strand[s].info \in Infos /\ strand[s].val \in AllValues
      /\ HcallLock(strand[s].info) \in Infos
  BY InfoFacts DEF StrandTypes
<1>i. Idle \in [pc : {"idle", "notify", "ntake", "nsend", "exit", "check", "data", "hsend"},
                role : {"guest", "launch", "exit", "reset"}, info : Infos, val : AllValues]
  BY InfoFacts DEF Idle
<1>c. ASSUME UNCHANGED <<ctlVars, zeusVars>>, QueueTypes', GuestTypes', StrandTypes' PROVE TypeInv'
  BY <1>c DEF CtlTypes, ZeusTypes, ctlVars, zeusVars
<1>q. ASSUME UNCHANGED <<ldcLock, rxq, qconf>> PROVE QueueTypes'
  BY <1>q DEF QueueTypes
<1>1. CASE launch_boot_cpu(s)
  <2>1. StrandTypes'
    BY <1>1, <1>i DEF launch_boot_cpu, StrandTypes, Idle
  <2>2. GuestTypes'
    <3>1. /\ val' \in [Guests -> [Infos -> AllValues]]
          /\ \A g \in Guests, i \in Infos : val'[g][i] \in Values(i)
      <4> DEFINE new == [i \in Infos |-> CASE i = "state" -> "NORMAL"
                                           [] i = "soft_state" -> "TRANSITION"
                                           [] OTHER -> val[GuestOf[s]][i]]
      <4>1. val' = [val EXCEPT ![GuestOf[s]] = new]
        BY <1>1 DEF launch_boot_cpu
      <4>2. \A i \in Infos : new[i] \in Values(i)
        BY <1>g DEF GuestTypes, Values, GuestStates
      <4>3. \A i \in Infos : new[i] \in AllValues
        BY <4>2, InfoFacts
      <4>4. new \in [Infos -> AllValues]
        BY <4>3
      <4>5. \A g \in Guests : val'[g] = IF g = GuestOf[s] THEN new ELSE val[g]
        BY <4>1 DEF GuestTypes
      <4>6. val' \in [Guests -> [Infos -> AllValues]]
        BY <4>1, <4>4 DEF GuestTypes
      <4> QED BY <4>2, <4>5, <4>6 DEF GuestTypes
    <3> QED BY <1>1, <3>1 DEF launch_boot_cpu, GuestTypes
  <2> QED BY <1>1, <2>1, <2>2, <1>c, <1>q DEF launch_boot_cpu
<1>2. CASE exit_end(s)
  <2>1. StrandTypes'
    BY <1>2 DEF exit_end, Step, StrandTypes
  <2>2. GuestTypes'
    <3>1. /\ val' \in [Guests -> [Infos -> AllValues]]
          /\ \A g \in Guests, i \in Infos : val'[g][i] \in Values(i)
      BY <1>2, <1>g, InfoFacts DEF exit_end, GuestTypes, GuestStates
    <3> QED BY <1>2, <3>1 DEF exit_end, GuestTypes
  <2> QED BY <1>2, <2>1, <2>2, <1>c, <1>q DEF exit_end
<1>3. CASE notify_busy(s)
  <2>1. StrandTypes'
    BY <1>3, <1>i DEF notify_busy, notify_return, StrandTypes
  <2>2. GuestTypes'
    BY <1>3, <1>g DEF notify_busy, notify_return, GuestTypes
  <2> QED BY <1>3, <2>1, <2>2, <1>c, <1>q DEF notify_busy
<1>4. CASE notify_capture(s)
  <2>0. val[GuestOf[s]]["state"] \in AllValues
    BY <1>g, InfoFacts DEF GuestTypes
  <2>1. StrandTypes'
    BY <1>4, <2>0 DEF notify_capture, StrandTypes
  <2>2. GuestTypes'
    <3>1. asyncLock' \in [Guests -> [Infos -> Strands \cup {Control, Nobody}]]
      BY <1>4, <1>g, InfoFacts DEF notify_capture, GuestTypes
    <3>2. busy' \in [Guests -> [Infos -> BOOLEAN]]
      BY <1>4, <1>g, InfoFacts DEF notify_capture, GuestTypes
    <3> QED BY <1>4, <3>1, <3>2 DEF notify_capture, GuestTypes
  <2> QED BY <1>4, <2>1, <2>2, <1>c, <1>q DEF notify_capture
<1>5. CASE notify_take(s)
  <2>1. StrandTypes'
    BY <1>5 DEF notify_take, Step, StrandTypes
  <2>2. GuestTypes'
    <3>1. asyncLock' \in [Guests -> [Infos -> Strands \cup {Control, Nobody}]]
      BY <1>5, <1>g, InfoFacts DEF notify_take, GuestTypes
    <3> QED BY <1>5, <3>1 DEF notify_take, GuestTypes
  <2>3. QueueTypes'
    BY <1>5 DEF notify_take, QueueTypes
  <2> QED BY <1>5, <2>1, <2>2, <2>3, <1>c DEF notify_take
<1>6. CASE notify_send(s)
  <2>1. StrandTypes'
    BY <1>6, <1>i DEF notify_send, notify_return, StrandTypes
  <2>2. GuestTypes'
    BY <1>6, <1>g DEF notify_send, notify_return, GuestTypes
  <2>3. Notice(<<GuestOf[s], "state">>, strand[s].val) \in Messages
    BY <1>g, <1>s, MessageFacts, InfoFacts DEF Keys
  <2>4. QueueTypes'
    BY <1>6, <2>3, SendType DEF notify_send, QueueTypes
  <2> QED BY <1>6, <2>1, <2>2, <2>4, <1>c DEF notify_send
<1>7. CASE hcall_busy(s)
  <2>1. StrandTypes'
    BY <1>7, <1>i DEF hcall_busy, hcall_return, StrandTypes
  <2>2. GuestTypes'
    <3>1. asyncLock' \in [Guests -> [Infos -> Strands \cup {Control, Nobody}]]
      BY <1>7, <1>g, <1>s DEF hcall_busy, hcall_return, GuestTypes
    <3> QED BY <1>7, <3>1 DEF hcall_busy, GuestTypes
  <2> QED BY <1>7, <2>1, <2>2, <1>c, <1>q DEF hcall_busy
<1>8. CASE hcall_build(s)
  <2>1. StrandTypes'
    BY <1>8 DEF hcall_build, Step, StrandTypes
  <2>2. GuestTypes'
    <3>1. busy' \in [Guests -> [Infos -> BOOLEAN]]
      BY <1>8, <1>g, <1>s DEF hcall_build, GuestTypes
    <3>2. asyncBuf' \in [Guests -> [info : Infos, val : AllValues]]
      BY <1>8, <1>g, <1>s DEF hcall_build, GuestTypes
    <3> QED BY <1>8, <3>1, <3>2 DEF hcall_build, GuestTypes
  <2> QED BY <1>8, <2>1, <2>2, <1>c, <1>q DEF hcall_build
<1>9. CASE hcall_data(s)
  <2>1. StrandTypes'
    BY <1>9 DEF hcall_data, Step, StrandTypes
  <2>2. GuestTypes'
    <3>1. asyncBuf' \in [Guests -> [info : Infos, val : AllValues]]
      BY <1>9, <1>g, <1>s DEF hcall_data, GuestTypes
    <3> QED BY <1>9, <3>1 DEF hcall_data, GuestTypes
  <2> QED BY <1>9, <2>1, <2>2, <1>c, <1>q DEF hcall_data
<1>10. CASE hcall_send(s)
  <2>1. StrandTypes'
    BY <1>10, <1>i DEF hcall_send, hcall_return, StrandTypes
  <2>2. GuestTypes'
    <3>1. asyncLock' \in [Guests -> [Infos -> Strands \cup {Control, Nobody}]]
      BY <1>10, <1>g, <1>s DEF hcall_send, hcall_return, GuestTypes
    <3>2. asyncBuf' \in [Guests -> [info : Infos, val : AllValues]]
      BY <1>10, <1>g, InfoFacts DEF hcall_send, GuestTypes, NoAsync
    <3> QED BY <1>10, <3>1, <3>2 DEF hcall_send, GuestTypes
  <2>3. Notice(<<GuestOf[s], asyncBuf[GuestOf[s]].info>>, asyncBuf[GuestOf[s]].val) \in Messages
    <3>1. asyncBuf[GuestOf[s]].info \in Infos /\ asyncBuf[GuestOf[s]].val \in AllValues
      BY <1>g DEF GuestTypes
    <3> QED BY <1>g, <3>1, MessageFacts DEF Keys
  <2>4. QueueTypes'
    BY <1>10, <2>3, SendType DEF hcall_send, QueueTypes
  <2> QED BY <1>10, <2>1, <2>2, <2>4, <1>c DEF hcall_send
<1>11. ASSUME NEW role \in {"exit", "reset"}, exit_begin(s, role) PROVE TypeInv'
  <2>1. StrandTypes'
    BY <1>11, <1>i DEF exit_begin, StrandTypes, Idle
  <2>2. GuestTypes'
    <3>1. /\ val' \in [Guests -> [Infos -> AllValues]]
          /\ \A g \in Guests, i \in Infos : val'[g][i] \in Values(i)
      BY <1>11, <1>g, InfoFacts DEF exit_begin, GuestTypes, GuestStates
    <3> QED BY <1>11, <3>1 DEF exit_begin, GuestTypes
  <2> QED BY <1>11, <2>1, <2>2, <1>c, <1>q DEF exit_begin
<1>12. ASSUME NEW i \in HcallInfos, NEW v \in Values(i), hcall_store(s, i, v) PROVE TypeInv'
  <2>0. i \in Infos /\ v \in AllValues /\ HcallLock(i) \in Infos
    BY InfoFacts
  <2>1. StrandTypes'
    BY <1>12, <1>i, <2>0 DEF hcall_store, StrandTypes, Idle
  <2>2. GuestTypes'
    <3>1. /\ val' \in [Guests -> [Infos -> AllValues]]
          /\ \A g \in Guests, j \in Infos : val'[g][j] \in Values(j)
      <4>1. val' = [val EXCEPT ![GuestOf[s]][i] = v]
        BY <1>12 DEF hcall_store
      <4>2. \A g \in Guests, j \in Infos : val'[g][j] = IF g = GuestOf[s] /\ j = i THEN v ELSE val[g][j]
        BY <4>1, <1>g, <2>0 DEF GuestTypes
      <4> QED BY <4>1, <4>2, <1>g, <2>0, <1>12 DEF GuestTypes
    <3>2. asyncLock' \in [Guests -> [Infos -> Strands \cup {Control, Nobody}]]
      BY <1>12, <1>g, <2>0 DEF hcall_store, GuestTypes
    <3> QED BY <1>12, <3>1, <3>2 DEF hcall_store, GuestTypes
  <2> QED BY <1>12, <2>1, <2>2, <1>c, <1>q DEF hcall_store
<1> QED BY <1>1, <1>2, <1>3, <1>4, <1>5, <1>6, <1>7, <1>8, <1>9, <1>10, <1>11, <1>12

(* The manager.                                                            *)
LEMMA HandType ==
  ASSUME TypeInv, NEW p \in Packets, NEW session \in {"none", "hello", "response", "up"}, Hand(p, session),
         owed' \subseteq Keys
  PROVE  TypeInv'
<1>1. p.seqn \in Nat
  BY PacketFields, SeqnFacts
<1>2. ZeusTypes'
  BY <1>1, SeqnFacts DEF TypeInv, Hand, ZeusTypes
<1>3. CtlTypes'
  BY DEF TypeInv, Hand, CtlTypes
<1> QED BY <1>2, <1>3 DEF TypeInv, Hand, QueueTypes, GuestTypes, StrandTypes, guestVars

LEMMA ZeusType ==
  ASSUME TypeInv,
         \/ zeus_connect \/ (\E k \in Keys : zeus_query(k)) \/ zeus_read \/ zeus_start
         \/ \E op \in Ops, k \in Keys : zeus_command(op, k)
         \/ \E op \in {"hello", "response", "get_res_stat"}, skip, good \in BOOLEAN :
              zeus_stray(op, skip, good)
         \/ zeus_reset
  PROVE  TypeInv'
<1>0. zeus.seq \in Seqn /\ zeus.seq \in Nat /\ owed \subseteq Keys
  BY SeqnFacts DEF TypeInv, ZeusTypes
<1>1. CASE zeus_connect
  <2>1. Packet("hello", 1, TRUE, NoKey) \in Packets /\ Packet("response", zeus.seq, TRUE, NoKey) \in Packets
    BY <1>0, MessageFacts, SeqnFacts, InfoFacts DEF Ops
  <2> QED BY <1>1, <1>0, <2>1, HandType DEF zeus_connect
<1>2. ASSUME NEW k \in Keys, zeus_query(k) PROVE TypeInv'
  <2>1. Packet("get_res_stat", zeus.seq, TRUE, k) \in Packets
    BY <1>0, MessageFacts DEF Ops
  <2> QED BY <1>2, <1>0, <2>1, HandType DEF zeus_query
<1>3. ASSUME NEW op \in Ops, NEW k \in Keys, zeus_command(op, k) PROVE TypeInv'
  <2>1. Packet(op, zeus.seq, TRUE, k) \in Packets
    BY <1>0, MessageFacts
  <2> QED BY <1>3, <1>0, <2>1, HandType DEF zeus_command
<1>4. ASSUME NEW op \in {"hello", "response", "get_res_stat"}, NEW skip \in BOOLEAN, NEW good \in BOOLEAN,
             zeus_stray(op, skip, good)
      PROVE  TypeInv'
  <2>1. Packet(op, IF skip THEN Next16(zeus.seq) ELSE zeus.seq, good, NoKey) \in Packets
    BY <1>0, MessageFacts, SeqnFacts, InfoFacts DEF Ops
  <2> QED BY <1>4, <1>0, <2>1, HandType DEF zeus_stray
<1>5. CASE zeus_read
  <2> DEFINE r == Head(rxq)
  <2>1. /\ rxq # <<>> /\ rxq \in Seq(Messages) /\ Len(rxq) < QLEN
    BY <1>5 DEF zeus_read, TypeInv, QueueTypes
  <2>2. /\ r \in Messages /\ Tail(rxq) \in Seq(Messages) /\ Len(Tail(rxq)) = Len(rxq) - 1 /\ Len(rxq) \in Nat
    BY <2>1, HeadTailProperties, LenProperties
  <2>3. QueueTypes'
    <3>1. Len(Tail(rxq)) < QLEN
      BY <2>1, <2>2, BoundsAreNat
    <3>2. qconf
      BY <2>1 DEF TypeInv, QueueTypes
    <3> QED BY <1>5, <2>2, <3>1, <3>2 DEF zeus_read, TypeInv, QueueTypes
  <2>4. r.seqn \in Nat /\ r.key \in Keys
    BY <2>2, SeqnFacts DEF Messages, Seqn
  <2>5. AfterReply(r) \in {"none", "hello", "challenged", "response", "up"}
    BY DEF AfterReply
  <2>6. zeus' \in [up : BOOLEAN, waiting : BOOLEAN,
                   session : {"none", "hello", "challenged", "response", "up"}, seq : Seqn, expect : Seqn]
    BY <1>5, <2>4, <2>5, SeqnFacts DEF zeus_read, TypeInv, ZeusTypes
  <2>7. owed' \subseteq Keys
    BY <1>5, <2>4, <1>0 DEF zeus_read
  <2> QED BY <1>5, <2>3, <2>6, <2>7
          DEF zeus_read, TypeInv, CtlTypes, GuestTypes, StrandTypes, ZeusTypes, ctlVars, guestVars
<1>6. CASE zeus_start
  <2>1. rxq = <<>> => QueueTypes'
    BY <1>6 DEF zeus_start, TypeInv, QueueTypes
  <2> QED BY <1>6, <2>1
          DEF zeus_start, TypeInv, QueueTypes, CtlTypes, GuestTypes, StrandTypes, ZeusTypes, ctlVars, guestVars
<1>7. CASE zeus_reset
  <2>1. QueueTypes'
    <3>1. <<>> \in Seq(Messages) /\ Len(<<>>) = 0 /\ 0 < QLEN
      BY EmptySeq, BoundsAreNat
    <3> QED BY <1>7, <3>1 DEF zeus_reset, TypeInv, QueueTypes
  <2>2. ZeusTypes'
    BY <1>7, SeqnFacts DEF zeus_reset, TypeInv, ZeusTypes
  <2> QED BY <1>7, <2>1, <2>2 DEF zeus_reset, TypeInv, CtlTypes, GuestTypes, StrandTypes, ctlVars, guestVars
<1> QED BY <1>1, <1>2, <1>3, <1>4, <1>5, <1>6, <1>7

LEMMA NextType == TypeInv /\ [Next]_vars => TypeInv'
<1> SUFFICES ASSUME TypeInv, [Next]_vars PROVE TypeInv'
  OBVIOUS
<1>1. CASE UNCHANGED vars
  BY <1>1 DEF vars, ctlVars, guestVars, zeusVars, TypeInv, CtlTypes, QueueTypes, GuestTypes, StrandTypes, ZeusTypes
<1>2. CASE Next
  BY <1>2, Cases, ControlType, StrandType, ZeusType
<1> QED BY <1>1, <1>2

(* Sequence numbers stay in their width, locks have one holder at a time,  *)
(* and Zeus's queue never holds more than its elements but one.            *)
THEOREM TypeCorrect == Spec => []TypeOK
<1>1. TypeInv => TypeOK
  BY DEF TypeInv, CtlTypes, QueueTypes, GuestTypes, ZeusTypes, TypeOK, Seqn
<1> QED BY <1>1, InitType, NextType, PTL DEF Spec

-----------------------------------------------------------------------------
(* A packet on its way into Zeus's queue.                                  *)
LEMMA Sent ==
  ASSUME QueueTypes, NEW m \in Messages, hv_ldc_send_pkt(m)
  PROVE  \/ rxq' = rxq
         \/ /\ DOMAIN rxq = 1 .. Len(rxq) /\ Len(rxq) \in Nat /\ DOMAIN rxq' = 1 .. Len(rxq) + 1
            /\ \A n \in DOMAIN rxq : rxq'[n] = rxq[n]
            /\ rxq'[Len(rxq) + 1] = m
<1>1. CASE qconf /\ ~Full
  BY <1>1, AppendProperties, LenProperties DEF hv_ldc_send_pkt, QueueTypes
<1>2. CASE ~(qconf /\ ~Full)
  BY <1>2 DEF hv_ldc_send_pkt
<1> QED BY <1>1, <1>2

(* Notifications do not disturb the session.                               *)
LEMMA NoticeSession ==
  ASSUME TypeInv, SessionInv, ReplyInv, UNCHANGED <<ctlVars, qconf, zeusVars>>,
         UNCHANGED rxq \/ \E m \in Messages : m.kind = "notice" /\ hv_ldc_send_pkt(m)
  PROVE  SessionInv' /\ ReplyInv'
<1>1. UNCHANGED <<ctl, cb, ibuf, obuf, qconf, zeus>>
  BY DEF ctlVars, zeusVars
<1>2. SessionInv'
  BY <1>1 DEF SessionInv, SessionAgrees, Handed, Expected, InSequence, Answers, Agree
<1>3. \A r : Answers(r)' <=> Answers(r)
  BY <1>1 DEF Answers, Agree
<1>4. CASE UNCHANGED rxq
  BY <1>1, <1>2, <1>3, <1>4 DEF ReplyInv
<1>5. ASSUME NEW m \in Messages, m.kind = "notice", hv_ldc_send_pkt(m), rxq' # rxq PROVE ReplyInv'
  <2>1. /\ DOMAIN rxq = 1 .. Len(rxq) /\ Len(rxq) \in Nat /\ DOMAIN rxq' = 1 .. Len(rxq) + 1
        /\ \A n \in DOMAIN rxq : rxq'[n] = rxq[n]
        /\ rxq'[Len(rxq) + 1] = m
    BY <1>5, Sent DEF TypeInv
  <2>2. \A n \in DOMAIN rxq' : rxq'[n].kind = "reply" => n \in DOMAIN rxq /\ rxq'[n] = rxq[n]
    BY <2>1, <1>5
  <2> QED BY <1>1, <1>3, <2>2 DEF ReplyInv
<1> QED BY <1>2, <1>4, <1>5

LEMMA StrandSession ==
  ASSUME TypeInv, SessionInv, ReplyInv, NEW s \in Strands,
         \/ launch_boot_cpu(s) \/ exit_end(s)
         \/ notify_busy(s) \/ notify_capture(s) \/ notify_take(s) \/ notify_send(s)
         \/ hcall_busy(s) \/ hcall_build(s) \/ hcall_data(s) \/ hcall_send(s)
         \/ \E role \in {"exit", "reset"} : exit_begin(s, role)
         \/ \E i \in HcallInfos : \E v \in Values(i) : hcall_store(s, i, v)
  PROVE  SessionInv' /\ ReplyInv'
<1>g. GuestOf[s] \in Guests
  BY GuestOfType
<1>1. CASE notify_send(s)
  <2> DEFINE m == Notice(<<GuestOf[s], "state">>, strand[s].val)
  <2>1. m \in Messages /\ m.kind = "notice"
    <3>1. strand[s].val \in AllValues
      BY DEF TypeInv, StrandTypes
    <3>2. <<GuestOf[s], "state">> \in Keys
      BY <1>g, InfoFacts DEF Keys
    <3> QED BY <3>1, <3>2, MessageFacts DEF Notice
  <2>2. hv_ldc_send_pkt(m) /\ UNCHANGED <<ctlVars, qconf, zeusVars>>
    BY <1>1 DEF notify_send
  <2> QED BY <2>1, <2>2, NoticeSession
<1>2. CASE hcall_send(s)
  <2> DEFINE m == Notice(<<GuestOf[s], asyncBuf[GuestOf[s]].info>>, asyncBuf[GuestOf[s]].val)
  <2>1. m \in Messages /\ m.kind = "notice"
    <3>1. asyncBuf[GuestOf[s]].info \in Infos /\ asyncBuf[GuestOf[s]].val \in AllValues
      BY <1>g DEF TypeInv, GuestTypes
    <3>2. <<GuestOf[s], asyncBuf[GuestOf[s]].info>> \in Keys
      BY <1>g, <3>1 DEF Keys
    <3> QED BY <3>1, <3>2, MessageFacts DEF Notice
  <2>2. hv_ldc_send_pkt(m) /\ UNCHANGED <<ctlVars, qconf, zeusVars>>
    BY <1>2 DEF hcall_send
  <2> QED BY <2>1, <2>2, NoticeSession
<1>3. ASSUME UNCHANGED <<ctlVars, rxq, qconf, zeusVars>> PROVE SessionInv' /\ ReplyInv'
  BY <1>3, NoticeSession
<1>4. CASE \/ launch_boot_cpu(s) \/ exit_end(s) \/ notify_busy(s) \/ notify_capture(s) \/ notify_take(s)
           \/ \E role \in {"exit", "reset"} : exit_begin(s, role)
  BY <1>3, <1>4 DEF launch_boot_cpu, exit_end, notify_busy, notify_capture, notify_take, exit_begin
<1>5. CASE \/ hcall_busy(s) \/ hcall_build(s) \/ hcall_data(s)
           \/ \E i \in HcallInfos : \E v \in Values(i) : hcall_store(s, i, v)
  BY <1>3, <1>5 DEF hcall_busy, hcall_build, hcall_data, hcall_store
<1> QED BY <1>1, <1>2, <1>4, <1>5

(* The session from the packet to the answer in hvctl_obuf.                *)
LEMMA Answered ==
  ASSUME TypeInv, SessionInv, ReplyInv, cb \in {"pkt", "stat"}, UNCHANGED <<rxq, qconf, zeus>>, cb' = "send",
         obuf'.kind = "reply", Answers(obuf)'
  PROVE  SessionInv' /\ ReplyInv'
<1>1. zeus.waiting /\ zeus.up
  BY DEF SessionInv
<1>2. SessionInv'
  BY <1>1 DEF SessionInv, SessionAgrees
<1>3. \A n \in DOMAIN rxq : rxq[n].kind # "reply"
  BY DEF ReplyInv
<1> QED BY <1>2, <1>3 DEF ReplyInv

(* reply_cmd with the next number of the session, or with a refusal.       *)
LEMMA ReplyAnswers ==
  ASSUME TypeInv, NEW state, NEW zseq, NEW st, NEW v, reply_cmd(state, zseq, st, v), UNCHANGED zeus, Handed,
         \/ st \in Refusals
         \/ /\ ctl.state # "UNCONNECTED" /\ InSequence /\ zseq = Next16(ctl.zeus_seq)
            /\ state = "CONNECTED" /\ st \notin Refusals
  PROVE  obuf'.kind = "reply" /\ Answers(obuf)' /\ cb' = "send"
<1>1. /\ obuf' = Reply(ibuf.op, st, ctl.hv_seq, ibuf.key, v) /\ cb' = "send"
      /\ ctl' = [state |-> IF st \in {"bad_seqn", "eauth"} THEN "UNCONNECTED" ELSE state,
                 zeus_seq |-> zseq, hv_seq |-> Next16(ctl.hv_seq)]
  BY DEF reply_cmd, Processed
<1>2. /\ obuf'.kind = "reply" /\ obuf'.st = st /\ obuf'.op = ibuf.op /\ obuf'.seqn = ctl.hv_seq
  BY <1>1 DEF Reply
<1>3. CASE st \in Refusals
  BY <1>1, <1>2, <1>3 DEF Answers
<1>4. CASE /\ ctl.state # "UNCONNECTED" /\ InSequence /\ zseq = Next16(ctl.zeus_seq)
           /\ state = "CONNECTED" /\ st \notin Refusals
  <2>1. ctl'.state = "CONNECTED" /\ ctl'.zeus_seq = zseq /\ ctl'.hv_seq = Next16(ctl.hv_seq)
    BY <1>1, <1>4 DEF Refusals
  <2>2. zeus.seq = zseq
    BY <1>4 DEF Handed, InSequence
  <2>3. zeus.session = "hello" => ibuf.op = "hello"
    BY DEF Handed
  <2> QED BY <1>1, <1>2, <2>1, <2>2, <2>3 DEF Answers, Agree
<1> QED BY <1>3, <1>4

LEMMA HelloAnswers ==
  ASSUME TypeInv, op_start_hello, UNCHANGED zeus, Handed, ibuf.op = "hello"
  PROVE  obuf'.kind = "reply" /\ Answers(obuf)' /\ cb' = "send"
<1> DEFINE zseq == Next16(ibuf.seqn)
           hseq == (zseq + RANDOM_SEQ_OFFSET) % SEQMOD
<1>1. /\ ctl' = [state |-> IF ibuf.good THEN "CHALLENGED" ELSE "UNCONNECTED",
                 zeus_seq |-> zseq, hv_seq |-> Next16(hseq)]
      /\ obuf' = Reply(IF ibuf.good THEN "challenge" ELSE "hello",
                       IF ibuf.good THEN "ok" ELSE "enotsupp", hseq, ibuf.key, Unknown)
      /\ cb' = "send"
  BY DEF op_start_hello, Processed
<1> HIDE DEF zseq, hseq
<1>2. obuf'.kind = "reply" /\ obuf'.seqn = hseq /\ (obuf'.st \notin Refusals => ibuf.good)
  BY <1>1 DEF Reply, Refusals
<1>3. zeus.session \notin {"response", "up"} /\ zeus.seq = zseq
  BY DEF Handed, zseq
<1>4. ibuf.good => ctl'.state = "CHALLENGED" /\ ctl'.zeus_seq = zseq /\ ctl'.hv_seq = Next16(hseq)
  BY <1>1
<1> QED BY <1>1, <1>2, <1>3, <1>4 DEF Answers, Agree

LEMMA ControlSession ==
  ASSUME TypeInv, SessionInv, ReplyInv,
         hv_control_pkt \/ op_guest_start \/ get_guest_status \/ get_guest_status_end \/ svc_reply
  PROVE  SessionInv' /\ ReplyInv'
<1>1. CASE hv_control_pkt
  <2>1. cb = "pkt" /\ UNCHANGED <<rxq, qconf, zeus>> /\ Handed
    BY <1>1 DEF hv_control_pkt, zeusVars, SessionInv
  <2>2. CASE pkt_unconnected
    BY <2>1, <2>2, ReplyAnswers, HelloAnswers, Answered DEF pkt_unconnected, Refusals
  <2>3. CASE pkt_challenged
    BY <2>1, <2>3, ReplyAnswers, HelloAnswers, Answered DEF pkt_challenged, BadSequence, Refusals
  <2>4. CASE pkt_connected
    BY <2>1, <2>4, ReplyAnswers, HelloAnswers, Answered DEF pkt_connected, BadSequence, Refusals
  <2> QED BY <1>1, <2>2, <2>3, <2>4 DEF hv_control_pkt
<1>2. CASE op_guest_start
  <2>1. /\ cb = "pkt" /\ UNCHANGED <<rxq, qconf, zeus>> /\ Handed /\ ctl.state # "UNCONNECTED" /\ InSequence
    BY <1>2 DEF op_guest_start, Executes, zeusVars, SessionInv
  <2>2. PICK st \in {"ok", "eillegal"} : reply_cmd("CONNECTED", Next16(ctl.zeus_seq), st, Unknown)
    BY <1>2 DEF op_guest_start
  <2>3. st \notin Refusals
    BY DEF Refusals
  <2> QED BY <2>1, <2>2, <2>3, ReplyAnswers, Answered
<1>3. CASE get_guest_status
  <2>1. /\ cb = "pkt" /\ cb' = "stat" /\ UNCHANGED <<rxq, qconf, zeus, ctl, ibuf>> /\ Handed
        /\ ctl.state = "CONNECTED" /\ ibuf.op = "get_res_stat" /\ InSequence
    BY <1>3 DEF get_guest_status, Executes, zeusVars, SessionInv
  <2>2. zeus.session \in {"none", "up"}
    BY <2>1 DEF Handed, Expected, SessionInv, TypeInv, ZeusTypes
  <2>3. SessionInv'
    BY <2>1, <2>2 DEF SessionInv, SessionAgrees, Handed, Expected, InSequence
  <2> QED BY <2>1, <2>3 DEF ReplyInv
<1>4. CASE get_guest_status_end
  <2>1. /\ cb = "stat" /\ UNCHANGED <<rxq, qconf, zeus>> /\ Handed /\ ctl.state # "UNCONNECTED" /\ InSequence
    BY <1>4 DEF get_guest_status_end, zeusVars, SessionInv
  <2>2. reply_cmd("CONNECTED", Next16(ctl.zeus_seq), "ok", obuf.val) /\ "ok" \notin Refusals
    BY <1>4 DEF get_guest_status_end, Refusals
  <2> QED BY <2>1, <2>2, ReplyAnswers, Answered
<1>5. CASE svc_reply
  <2>1. /\ cb = "send" /\ cb' = "none" /\ UNCHANGED <<ctl, ibuf, qconf, zeus>> /\ hv_ldc_send_pkt(obuf)
        /\ obuf.kind = "reply" /\ Answers(obuf) /\ zeus.waiting
    BY <1>5 DEF svc_reply, zeusVars, SessionInv
  <2>2. SessionInv'
    BY <2>1 DEF SessionInv, SessionAgrees
  <2>3. \A n \in DOMAIN rxq : rxq[n].kind # "reply"
    BY <2>1 DEF ReplyInv
  <2>4. \A r : Answers(r)' <=> Answers(r)
    BY <2>1 DEF Answers, Agree
  <2>5. obuf \in Messages
    BY DEF TypeInv, CtlTypes
  <2>6. CASE UNCHANGED rxq
    <3>1. \A n \in DOMAIN rxq' : rxq'[n].kind # "reply"
      BY <2>3, <2>6
    <3> QED BY <2>2, <3>1 DEF ReplyInv
  <2>7. CASE rxq' # rxq
    <3>1. /\ DOMAIN rxq = 1 .. Len(rxq) /\ Len(rxq) \in Nat /\ DOMAIN rxq' = 1 .. Len(rxq) + 1
          /\ \A n \in DOMAIN rxq : rxq'[n] = rxq[n]
          /\ rxq'[Len(rxq) + 1] = obuf
      BY <2>1, <2>5, <2>7, Sent DEF TypeInv
    <3>2. \A n \in DOMAIN rxq' : n \in DOMAIN rxq \/ n = Len(rxq) + 1
      BY <3>1
    <3>3. \A n \in DOMAIN rxq' : rxq'[n].kind = "reply" => n = Len(rxq) + 1
      BY <3>1, <3>2, <2>3
    <3>4. SUFFICES ASSUME NEW n \in DOMAIN rxq', rxq'[n].kind = "reply"
                   PROVE  /\ zeus'.waiting /\ cb' = "none" /\ Answers(rxq[n])'
                          /\ \A m \in DOMAIN rxq' : rxq'[m].kind = "reply" => m = n
      BY <2>2 DEF ReplyInv
    <3>5. n = Len(rxq) + 1 /\ rxq'[n] = obuf
      BY <3>1, <3>3, <3>4
    <3>6. Answers(rxq[n])'
      BY <2>1, <3>5 DEF Answers, Agree
    <3> QED BY <2>1, <3>3, <3>5, <3>6
  <2> QED BY <2>2, <2>6, <2>7
<1> QED BY <1>1, <1>2, <1>3, <1>4, <1>5

(* The manager hands over a packet of the session it believes in.          *)
LEMMA HandSession ==
  ASSUME TypeInv, SessionInv, ReplyInv, NEW p \in Packets, NEW session \in {"none", "hello", "response", "up"},
         Hand(p, session),
         session = "hello" => p.op = "hello",
         session = "response" => p.op = "response" /\ zeus.session = "challenged" /\ p.seqn = zeus.seq,
         session = "up" => p.op # "hello" /\ zeus.session = "up" /\ p.seqn = zeus.seq
  PROVE  SessionInv' /\ ReplyInv'
<1>1. /\ cb = "none" /\ cb' = "pkt" /\ zeus.up /\ ~zeus.waiting /\ ibuf' = p /\ UNCHANGED <<ctl, obuf, rxq, qconf>>
      /\ zeus' = [zeus EXCEPT !.waiting = TRUE, !.session = session, !.seq = Next16(p.seqn)]
  BY DEF Hand
<1>2. /\ zeus'.waiting /\ zeus'.up = zeus.up /\ zeus'.session = session /\ zeus'.seq = Next16(p.seqn)
      /\ zeus'.expect = zeus.expect
  BY <1>1 DEF TypeInv, ZeusTypes
<1>3. Handed'
  BY <1>1, <1>2 DEF Handed, Expected, SessionInv, SessionAgrees
<1>4. SessionInv'
  BY <1>1, <1>2, <1>3 DEF SessionInv, SessionAgrees
<1>5. \A n \in DOMAIN rxq : rxq[n].kind # "reply"
  BY <1>1 DEF ReplyInv
<1> QED BY <1>1, <1>4, <1>5 DEF ReplyInv

(* The manager takes the oldest packet off its queue.                      *)
LEMMA ReadSession ==
  ASSUME TypeInv, SessionInv, ReplyInv, zeus_read
  PROVE  SessionInv' /\ ReplyInv'
<1> DEFINE r == Head(rxq)
<1>1. /\ cb = "none" /\ rxq # <<>> /\ rxq' = Tail(rxq) /\ rxq \in Seq(Messages)
      /\ UNCHANGED <<ctl, cb, ibuf, obuf, qconf>>
  BY DEF zeus_read, ctlVars, TypeInv, QueueTypes
<1>2. /\ DOMAIN rxq = 1 .. Len(rxq) /\ Len(rxq) \in Nat \ {0} /\ r = rxq[1]
      /\ DOMAIN rxq' = 1 .. Len(rxq) - 1 /\ \A n \in 1 .. Len(rxq) - 1 : rxq'[n] = rxq[n + 1]
  BY <1>1, HeadTailProperties, LenProperties, EmptySeq
<1>3. 1 \in DOMAIN rxq /\ \A n \in DOMAIN rxq' : n + 1 \in DOMAIN rxq /\ rxq'[n] = rxq[n + 1] /\ n \in Nat \ {0}
  BY <1>2
<1>4. CASE r.kind = "notice"
  <2>1. UNCHANGED zeus
    BY <1>4 DEF zeus_read
  <2>2. SessionInv'
    BY <1>1, <2>1 DEF SessionInv, SessionAgrees
  <2>3. \A x : Answers(x)' <=> Answers(x)
    BY <1>1, <2>1 DEF Answers, Agree
  <2>4. ReplyInv'
    <3> SUFFICES ASSUME NEW n \in DOMAIN rxq', rxq'[n].kind = "reply"
                 PROVE  /\ zeus'.waiting /\ cb' = "none" /\ Answers(rxq[n])'
                        /\ \A m \in DOMAIN rxq' : rxq'[m].kind = "reply" => m = n
      BY DEF ReplyInv
    <3>1. n + 1 \in DOMAIN rxq /\ rxq[n + 1].kind = "reply"
      BY <1>3
    <3>2. /\ zeus.waiting /\ Answers(rxq[n + 1])
          /\ \A m \in DOMAIN rxq : rxq[m].kind = "reply" => m = n + 1
      BY <3>1 DEF ReplyInv
    <3>3. \A m \in DOMAIN rxq' : rxq'[m].kind = "reply" => m = n
      BY <1>3, <3>2
    <3> QED BY <1>1, <1>3, <2>1, <2>3, <3>2, <3>3
  <2> QED BY <2>2, <2>4
<1>5. CASE r.kind # "notice"
  <2> DEFINE session == AfterReply(r)
  <2>1. r.kind = "reply" /\ zeus.waiting /\ Answers(r) /\ \A m \in DOMAIN rxq : rxq[m].kind = "reply" => m = 1
    <3>1. r \in Messages
      BY <1>1, <1>2, <1>3, ElementOfSeq
    <3>2. r.kind = "reply"
      BY <3>1, <1>5 DEF Messages
    <3> QED BY <3>2, <1>2, <1>3 DEF ReplyInv
  <2>2. zeus' = [zeus EXCEPT !.waiting = FALSE, !.session = session,
                             !.expect = IF session = "none" THEN 0 ELSE Next16(r.seqn)]
    BY <1>5 DEF zeus_read
  <2>3. session \in {"none", "challenged", "up"}
    BY DEF AfterReply
  <2>a. session = "challenged" => r.st \notin Refusals /\ r.op = "challenge" /\ zeus.session = "hello"
    BY DEF AfterReply
  <2>b. session = "up" => r.st \notin Refusals /\ (zeus.session = "up" \/ (r.op = "response" /\ zeus.session = "response"))
    BY DEF AfterReply
  <2> HIDE DEF r
  <2>4. session = "challenged" => Agree(r, "CHALLENGED")
    BY <2>1, <2>a DEF Answers
  <2>5. session = "up" => Agree(r, "CONNECTED")
    BY <2>1, <2>b DEF Answers
  <2> HIDE DEF session
  <2>6. /\ ~zeus'.waiting /\ zeus'.session = session /\ zeus'.up = zeus.up /\ zeus'.seq = zeus.seq
        /\ session # "none" => zeus'.expect = Next16(r.seqn)
    BY <2>2 DEF TypeInv, ZeusTypes
  <2>7. SessionInv'
    BY <1>1, <2>3, <2>4, <2>5, <2>6 DEF SessionInv, SessionAgrees, Agree
  <2>8. \A n \in DOMAIN rxq' : rxq'[n].kind # "reply"
    BY <1>3, <2>1
  <2> QED BY <2>7, <2>8 DEF ReplyInv
<1> QED BY <1>4, <1>5

LEMMA ZeusSession ==
  ASSUME TypeInv, SessionInv, ReplyInv,
         \/ zeus_connect \/ (\E k \in Keys : zeus_query(k)) \/ zeus_read \/ zeus_start
         \/ \E op \in Ops, k \in Keys : zeus_command(op, k)
         \/ \E op \in {"hello", "response", "get_res_stat"}, skip, good \in BOOLEAN :
              zeus_stray(op, skip, good)
         \/ zeus_reset
  PROVE  SessionInv' /\ ReplyInv'
<1>0. zeus.seq \in Seqn /\ zeus.seq \in Nat
  BY SeqnFacts DEF TypeInv, ZeusTypes
<1>1. CASE zeus_connect
  <2>1. Packet("hello", 1, TRUE, NoKey) \in Packets /\ Packet("response", zeus.seq, TRUE, NoKey) \in Packets
    BY <1>0, MessageFacts, SeqnFacts, InfoFacts DEF Ops
  <2>2. CASE zeus.session = "none" /\ Hand(Packet("hello", 1, TRUE, NoKey), "hello")
    BY <2>1, <2>2, HandSession DEF Packet
  <2>3. CASE zeus.session = "challenged" /\ Hand(Packet("response", zeus.seq, TRUE, NoKey), "response")
    BY <2>1, <2>3, HandSession DEF Packet
  <2> QED BY <1>1, <2>2, <2>3 DEF zeus_connect
<1>2. ASSUME NEW k \in Keys, zeus_query(k) PROVE SessionInv' /\ ReplyInv'
  <2>1. Packet("get_res_stat", zeus.seq, TRUE, k) \in Packets
    BY <1>0, MessageFacts DEF Ops
  <2> QED BY <1>2, <2>1, HandSession DEF zeus_query, Packet
<1>3. ASSUME NEW op \in Ops, NEW k \in Keys, zeus_command(op, k) PROVE SessionInv' /\ ReplyInv'
  <2>1. Packet(op, zeus.seq, TRUE, k) \in Packets
    BY <1>0, MessageFacts
  <2> QED BY <1>3, <2>1, HandSession DEF zeus_command, Packet
<1>4. ASSUME NEW op \in {"hello", "response", "get_res_stat"}, NEW skip \in BOOLEAN, NEW good \in BOOLEAN,
             zeus_stray(op, skip, good)
      PROVE  SessionInv' /\ ReplyInv'
  <2>1. Packet(op, IF skip THEN Next16(zeus.seq) ELSE zeus.seq, good, NoKey) \in Packets
    BY <1>0, MessageFacts, SeqnFacts, InfoFacts DEF Ops
  <2> QED BY <1>4, <2>1, HandSession DEF zeus_stray
<1>5. CASE zeus_start
  <2>1. /\ ~zeus.up /\ zeus' = [zeus EXCEPT !.up = TRUE] /\ qconf' = TRUE
        /\ UNCHANGED <<ctl, cb, ibuf, obuf, rxq>>
    BY <1>5 DEF zeus_start, ctlVars
  <2>2. /\ zeus'.up /\ zeus'.waiting = zeus.waiting /\ zeus'.session = zeus.session /\ zeus'.seq = zeus.seq
        /\ zeus'.expect = zeus.expect
    BY <2>1 DEF TypeInv, ZeusTypes
  <2>3. cb = "none" /\ rxq = <<>>
    BY <2>1 DEF SessionInv, TypeInv, QueueTypes, CtlTypes
  <2>4. SessionInv'
    BY <2>1, <2>2, <2>3 DEF SessionInv, SessionAgrees
  <2> QED BY <2>1, <2>3, <2>4 DEF ReplyInv
<1>6. CASE zeus_reset
  <2>1. /\ cb = "none" /\ UNCHANGED <<ctl, cb, ibuf, obuf>> /\ rxq' = <<>> /\ qconf' = FALSE
        /\ zeus'.up = FALSE /\ zeus'.waiting = FALSE /\ zeus'.session = "none"
    BY <1>6 DEF zeus_reset, ctlVars, TypeInv, ZeusTypes
  <2>2. SessionInv'
    BY <2>1 DEF SessionInv, SessionAgrees
  <2>3. DOMAIN rxq' = {}
    BY <2>1
  <2> QED BY <2>2, <2>3 DEF ReplyInv
<1> QED BY <1>1, <1>2, <1>3, <1>4, <1>5, <1>6, ReadSession

(* Whenever the manager believes it is connected, both sides agree on the  *)
(* session and on the next number of each, for any width of the numbers.   *)
THEOREM SessionsAgree == Spec => []SessionAgrees
<1>1. Init => SessionInv /\ ReplyInv
  <2> SUFFICES ASSUME Init PROVE SessionInv /\ ReplyInv
    OBVIOUS
  <2>1. zeus.session = "none" /\ zeus.up = qconf /\ cb = "none" /\ ~zeus.waiting
    BY DEF Init
  <2>2. SessionInv
    BY <2>1 DEF SessionInv, SessionAgrees
  <2>3. rxq = <<>>
    BY DEF Init
  <2>4. DOMAIN rxq = {}
    BY <2>3
  <2> QED BY <2>2, <2>4 DEF ReplyInv
<1>2. TypeInv /\ SessionInv /\ ReplyInv /\ [Next]_vars => SessionInv' /\ ReplyInv'
  <2> SUFFICES ASSUME TypeInv, SessionInv, ReplyInv, [Next]_vars PROVE SessionInv' /\ ReplyInv'
    OBVIOUS
  <2>1. CASE UNCHANGED vars
    BY <2>1, NoticeSession DEF vars
  <2>2. CASE Next
    BY <2>2, Cases, ControlSession, StrandSession, ZeusSession
  <2> QED BY <2>1, <2>2
<1>3. SessionInv => SessionAgrees
  BY DEF SessionInv
<1> QED BY <1>1, <1>2, <1>3, InitType, NextType, PTL DEF Spec

-----------------------------------------------------------------------------
(* The locks: a step of one strand, or of the control channel, takes locks *)
(* nobody holds and releases its own, so the others keep theirs.           *)
LEMMA OthersKeepLocks ==
  ASSUME TypeInv, LockInv, NEW w \in Strands \cup {Control},
         \A g \in Guests, i \in Infos : asyncLock'[g][i] = asyncLock[g][i] \/ asyncLock[g][i] \in {w, Nobody},
         ldcLock' = ldcLock \/ ldcLock \in {w, Nobody}
  PROVE  /\ \A t \in Strands : t # w /\ strand'[t] = strand[t] => StrandLocks(t)'
         /\ w # Control /\ cb' = cb /\ ibuf' = ibuf => QueryLock'
<1>1. ASSUME NEW t \in Strands, t # w, strand'[t] = strand[t] PROVE StrandLocks(t)'
  <2>1. t # Nobody /\ GuestOf[t] \in Guests
    BY LockHolders, GuestOfType
  <2>2. StrandLocks(t)
    BY DEF LockInv
  <2>3. "state" \in Infos /\ \A i \in HcallInfos : HcallLock(i) \in Infos
    BY InfoFacts
  <2> QED BY <1>1, <2>1, <2>2, <2>3 DEF StrandLocks
<1>2. ASSUME w # Control, cb' = cb, ibuf' = ibuf PROVE QueryLock'
  <2>1. ibuf.key[1] \in Guests /\ StatusLock(ibuf.key[2]) \in Infos
    BY PacketFields, InfoFacts DEF TypeInv, CtlTypes
  <2>2. Control # Nobody
    BY DEF Control, Nobody
  <2>3. QueryLock
    BY DEF LockInv
  <2> QED BY <1>2, <2>1, <2>2, <2>3 DEF QueryLock
<1> QED BY <1>1, <1>2

(* One strand's step.                                                      *)
LEMMA StrandKeepsLocks ==
  ASSUME TypeInv, LockInv, NEW s \in Strands, \A t \in Strands : t # s => strand'[t] = strand[t],
         UNCHANGED <<cb, ibuf>>,
         \A g \in Guests, i \in Infos : asyncLock'[g][i] = asyncLock[g][i] \/ asyncLock[g][i] \in {s, Nobody},
         ldcLock' = ldcLock \/ ldcLock \in {s, Nobody},
         StrandLocks(s)'
  PROVE  LockInv'
<1>1. s # Control
  BY LockHolders
<1>2. \A t \in Strands : t # s => StrandLocks(t)'
  BY OthersKeepLocks
<1>3. QueryLock'
  BY <1>1, OthersKeepLocks
<1> QED BY <1>2, <1>3 DEF LockInv

(* A change of one lock of a guest.                                        *)
LEMMA OneLock ==
  ASSUME TypeInv, NEW g \in Guests, NEW i \in Infos, NEW v, asyncLock' = [asyncLock EXCEPT ![g][i] = v]
  PROVE  \A h \in Guests, j \in Infos : asyncLock'[h][j] = asyncLock[h][j] \/ (h = g /\ j = i)
  BY DEF TypeInv, GuestTypes

LEMMA StrandLock ==
  ASSUME TypeInv, LockInv, NEW s \in Strands,
         \/ launch_boot_cpu(s) \/ exit_end(s)
         \/ notify_busy(s) \/ notify_capture(s) \/ notify_take(s) \/ notify_send(s)
         \/ hcall_busy(s) \/ hcall_build(s) \/ hcall_data(s) \/ hcall_send(s)
         \/ \E role \in {"exit", "reset"} : exit_begin(s, role)
         \/ \E i \in HcallInfos : \E v \in Values(i) : hcall_store(s, i, v)
  PROVE  LockInv'
<1>g. GuestOf[s] \in Guests /\ "state" \in Infos /\ HcallInfos \subseteq Infos
      /\ (\A i \in HcallInfos : HcallLock(i) \in Infos) /\ StrandLocks(s)
  BY GuestOfType, InfoFacts DEF LockInv
<1>1. ASSUME \A t \in Strands : t # s => strand'[t] = strand[t], UNCHANGED <<ctlVars, ldcLock, asyncLock>>,
             \/ strand'[s].pc \notin {"check", "data", "hsend", "ntake", "nsend"}
             \/ /\ strand[s].pc \in {"check", "data"} /\ strand'[s].pc \in {"data", "hsend"}
                /\ strand'[s].info = strand[s].info
      PROVE  LockInv'
  <2>1. StrandLocks(s)'
    BY <1>1, <1>g DEF StrandLocks
  <2> QED BY <1>1, <2>1, StrandKeepsLocks DEF ctlVars
<1>2. CASE launch_boot_cpu(s)
  BY <1>1, <1>2 DEF launch_boot_cpu, Idle, TypeInv, StrandTypes, guestVars
<1>3. CASE exit_end(s)
  BY <1>1, <1>3 DEF exit_end, Step, TypeInv, StrandTypes
<1>4. CASE notify_busy(s)
  BY <1>1, <1>4 DEF notify_busy, notify_return, Idle, TypeInv, StrandTypes
<1>5. CASE \E role \in {"exit", "reset"} : exit_begin(s, role)
  BY <1>1, <1>5 DEF exit_begin, Idle, TypeInv, StrandTypes
<1>6. CASE hcall_build(s)
  BY <1>1, <1>6 DEF hcall_build, Step, TypeInv, StrandTypes
<1>7. CASE hcall_data(s)
  BY <1>1, <1>7 DEF hcall_data, Step, TypeInv, StrandTypes
<1>8. CASE notify_capture(s)
  <2>1. /\ \A t \in Strands : t # s => strand'[t] = strand[t]
        /\ strand'[s].pc = "ntake" /\ UNCHANGED <<cb, ibuf, ldcLock>>
        /\ asyncLock[GuestOf[s]]["state"] = Nobody
        /\ asyncLock' = [asyncLock EXCEPT ![GuestOf[s]]["state"] = s]
    BY <1>8 DEF notify_capture, TypeInv, StrandTypes, ctlVars
  <2>2. asyncLock'[GuestOf[s]]["state"] = s
    BY <2>1, <1>g DEF TypeInv, GuestTypes
  <2>a. \A h \in Guests, j \in Infos : asyncLock'[h][j] = asyncLock[h][j] \/ (h = GuestOf[s] /\ j = "state")
    BY <2>1, <1>g, OneLock
  <2>3. StrandLocks(s)'
    BY <2>1, <2>2, <2>a DEF StrandLocks
  <2> QED BY <2>1, <2>2, <2>a, <2>3, StrandKeepsLocks
<1>9. CASE notify_take(s)
  <2>1. /\ \A t \in Strands : t # s => strand'[t] = strand[t]
        /\ strand[s].pc = "ntake" /\ strand'[s].pc = "nsend" /\ UNCHANGED <<cb, ibuf>> /\ ldcLock = Nobody /\ ldcLock' = s
        /\ asyncLock' = [asyncLock EXCEPT ![GuestOf[s]]["state"] = Nobody]
    BY <1>9 DEF notify_take, Step, TypeInv, StrandTypes, ctlVars
  <2>2. \A h \in Guests, j \in Infos : asyncLock'[h][j] = asyncLock[h][j] \/ (h = GuestOf[s] /\ j = "state")
    BY <2>1, <1>g, OneLock
  <2>3. asyncLock[GuestOf[s]]["state"] = s
    BY <2>1, <1>g DEF StrandLocks
  <2>4. StrandLocks(s)'
    BY <2>1 DEF StrandLocks
  <2> QED BY <2>1, <2>2, <2>3, <2>4, StrandKeepsLocks
<1>10. CASE notify_send(s)
  <2>1. /\ \A t \in Strands : t # s => strand'[t] = strand[t]
        /\ strand'[s].pc = "idle" /\ UNCHANGED <<cb, ibuf, asyncLock>> /\ ldcLock = s
    BY <1>10 DEF notify_send, notify_return, Idle, TypeInv, StrandTypes, ctlVars
  <2>2. StrandLocks(s)'
    BY <2>1 DEF StrandLocks
  <2> QED BY <2>1, <2>2, StrandKeepsLocks
<1>11. CASE hcall_busy(s) \/ hcall_send(s)
  <2>1. /\ \A t \in Strands : t # s => strand'[t] = strand[t]
        /\ strand'[s].pc = "idle" /\ UNCHANGED <<cb, ibuf, ldcLock>> /\ strand[s].pc \in {"check", "hsend"}
        /\ asyncLock' = [asyncLock EXCEPT ![GuestOf[s]][HcallLock(strand[s].info)] = Nobody]
    BY <1>11 DEF hcall_busy, hcall_send, hcall_return, Idle, TypeInv, StrandTypes, ctlVars
  <2>2. strand[s].info \in HcallInfos /\ asyncLock[GuestOf[s]][HcallLock(strand[s].info)] = s
    BY <2>1, <1>g DEF StrandLocks
  <2>3. \A h \in Guests, j \in Infos :
          asyncLock'[h][j] = asyncLock[h][j] \/ (h = GuestOf[s] /\ j = HcallLock(strand[s].info))
    BY <2>1, <2>2, <1>g, OneLock
  <2>4. StrandLocks(s)'
    BY <2>1 DEF StrandLocks
  <2> QED BY <2>1, <2>2, <2>3, <2>4, StrandKeepsLocks
<1>12. ASSUME NEW i \in HcallInfos, NEW v \in Values(i), hcall_store(s, i, v) PROVE LockInv'
  <2>1. /\ \A t \in Strands : t # s => strand'[t] = strand[t]
        /\ strand'[s].pc = "check" /\ strand'[s].info = i /\ UNCHANGED <<cb, ibuf, ldcLock>>
        /\ asyncLock[GuestOf[s]][HcallLock(i)] = Nobody
        /\ asyncLock' = [asyncLock EXCEPT ![GuestOf[s]][HcallLock(i)] = s]
    BY <1>12 DEF hcall_store, Idle, TypeInv, StrandTypes, ctlVars
  <2>2. asyncLock'[GuestOf[s]][HcallLock(i)] = s
    BY <2>1, <1>g DEF TypeInv, GuestTypes
  <2>a. \A h \in Guests, j \in Infos : asyncLock'[h][j] = asyncLock[h][j] \/ (h = GuestOf[s] /\ j = HcallLock(i))
    BY <2>1, <1>g, OneLock
  <2>3. StrandLocks(s)'
    BY <2>1, <2>2, <2>a DEF StrandLocks
  <2> QED BY <2>1, <2>2, <2>a, <2>3, StrandKeepsLocks
<1> QED BY <1>2, <1>3, <1>4, <1>5, <1>6, <1>7, <1>8, <1>9, <1>10, <1>11, <1>12

LEMMA ControlLock ==
  ASSUME TypeInv, LockInv,
         hv_control_pkt \/ op_guest_start \/ get_guest_status \/ get_guest_status_end \/ svc_reply
  PROVE  LockInv'
<1>k. ibuf.key[1] \in Guests /\ StatusLock(ibuf.key[2]) \in Infos
  BY PacketFields, InfoFacts DEF TypeInv, CtlTypes
<1>c. \A t \in Strands : t # Control
  BY LockHolders
<1>1. CASE hv_control_pkt \/ op_guest_start \/ svc_reply
  <2>1. UNCHANGED <<strand, asyncLock, ldcLock>> /\ cb' \in {"send", "none"}
    BY <1>1 DEF hv_control_pkt, op_guest_start, svc_reply, pkt_unconnected, pkt_challenged, pkt_connected,
                op_start_hello, BadSequence, reply_cmd, Processed, guestVars
  <2> QED BY <2>1 DEF LockInv, QueryLock, StrandLocks
<1>2. CASE get_guest_status
  <2>1. /\ UNCHANGED <<strand, ldcLock, ibuf>>
        /\ asyncLock[ibuf.key[1]][StatusLock(ibuf.key[2])] = Nobody
        /\ asyncLock' = [asyncLock EXCEPT ![ibuf.key[1]][StatusLock(ibuf.key[2])] = Control]
    BY <1>2 DEF get_guest_status
  <2>2. asyncLock'[ibuf.key[1]][StatusLock(ibuf.key[2])] = Control
    BY <2>1, <1>k DEF TypeInv, GuestTypes
  <2>a. \A h \in Guests, j \in Infos :
             asyncLock'[h][j] = asyncLock[h][j] \/ (h = ibuf.key[1] /\ j = StatusLock(ibuf.key[2]))
    BY <2>1, <1>k, OneLock
  <2>3. \A t \in Strands : StrandLocks(t)'
    BY <2>1, <2>2, <2>a, <1>c, OthersKeepLocks
  <2>4. QueryLock'
    BY <2>1, <2>2, <2>a DEF QueryLock
  <2> QED BY <2>3, <2>4 DEF LockInv
<1>3. CASE get_guest_status_end
  <2>1. /\ UNCHANGED <<strand, ldcLock>> /\ cb = "stat" /\ cb' = "send"
        /\ asyncLock' = [asyncLock EXCEPT ![ibuf.key[1]][StatusLock(ibuf.key[2])] = Nobody]
    BY <1>3 DEF get_guest_status_end, reply_cmd, Processed
  <2>2. asyncLock[ibuf.key[1]][StatusLock(ibuf.key[2])] = Control
    BY <2>1 DEF LockInv, QueryLock
  <2>3. \A h \in Guests, j \in Infos :
          asyncLock'[h][j] = asyncLock[h][j] \/ (h = ibuf.key[1] /\ j = StatusLock(ibuf.key[2]))
    BY <2>1, <1>k, OneLock
  <2>4. \A t \in Strands : StrandLocks(t)'
    BY <2>1, <2>2, <2>3, <1>c, OthersKeepLocks
  <2> QED BY <2>1, <2>4 DEF LockInv, QueryLock
<1> QED BY <1>1, <1>2, <1>3

(* The manager holds no lock.                                              *)
LEMMA ZeusKeeps ==
  ASSUME \/ zeus_connect \/ (\E k \in Keys : zeus_query(k)) \/ zeus_read \/ zeus_start
         \/ \E op \in Ops, k \in Keys : zeus_command(op, k)
         \/ \E op \in {"hello", "response", "get_res_stat"}, skip, good \in BOOLEAN :
              zeus_stray(op, skip, good)
         \/ zeus_reset
  PROVE  UNCHANGED <<strand, asyncLock, ldcLock, captured>> /\ (cb' = "stat" => cb = "stat" /\ ibuf' = ibuf)
<1>1. ASSUME NEW p, NEW session, Hand(p, session)
      PROVE  UNCHANGED <<strand, asyncLock, ldcLock, captured>> /\ cb' # "stat"
  BY <1>1 DEF Hand, guestVars
<1>2. CASE zeus_connect \/ (\E k \in Keys : zeus_query(k)) \/ (\E op \in Ops, k \in Keys : zeus_command(op, k))
           \/ (\E op \in {"hello", "response", "get_res_stat"}, skip, good \in BOOLEAN : zeus_stray(op, skip, good))
  BY <1>1, <1>2 DEF zeus_connect, zeus_query, zeus_command, zeus_stray
<1>3. CASE zeus_read \/ zeus_start \/ zeus_reset
  BY <1>3 DEF zeus_read, zeus_start, zeus_reset, guestVars, ctlVars
<1> QED BY <1>2, <1>3

LEMMA NextLock == TypeInv /\ LockInv /\ [Next]_vars => LockInv'
<1> SUFFICES ASSUME TypeInv, LockInv, [Next]_vars PROVE LockInv'
  OBVIOUS
<1>1. ASSUME UNCHANGED <<strand, asyncLock, ldcLock>>, cb' = "stat" => cb = "stat" /\ ibuf' = ibuf PROVE LockInv'
  BY <1>1 DEF LockInv, QueryLock, StrandLocks
<1>2. CASE UNCHANGED vars
  BY <1>1, <1>2 DEF vars, ctlVars, guestVars
<1>3. CASE Next
  BY <1>1, <1>3, Cases, StrandLock, ControlLock, ZeusKeeps
<1> QED BY <1>2, <1>3

LEMMA InitLock == Init => LockInv
  BY DEF Init, LockInv, QueryLock, StrandLocks, Idle


-----------------------------------------------------------------------------
(* The order of notifications.                                             *)

(* A step that neither captures a state nor sends one.                     *)
LEMMA CapturedFrame ==
  ASSUME CapturedInv, UNCHANGED captured,
         \A t \in Strands : \/ strand'[t].pc = strand[t].pc
                            \/ strand[t].pc \notin Notifying /\ strand'[t].pc \notin Notifying
  PROVE  CapturedInv'
<1>1. captured \in [Guests -> Seq(Strands)]
  BY DEF CapturedInv
<1>2. ASSUME NEW g \in Guests PROVE Captures(g)'
  <2>1. captured[g] \in Seq(Strands) /\ Captures(g)
    BY <1>1 DEF CapturedInv
  <2>2. \A n \in DOMAIN captured[g] : captured[g][n] \in Strands
    BY <2>1, ElementOfSeq, LenProperties
  <2>3. \A n \in DOMAIN captured[g] : strand'[captured[g][n]].pc = strand[captured[g][n]].pc
    BY <2>1, <2>2 DEF Captures
  <2> QED BY <2>1, <2>3 DEF Captures
<1>3. ASSUME NEW s \in Strands PROVE IsCaptured(s)'
  <2>1. IsCaptured(s)
    BY DEF CapturedInv
  <2> QED BY <2>1 DEF IsCaptured
<1> QED BY <1>1, <1>2, <1>3 DEF CapturedInv

(* A guest whose strands a step leaves alone.                              *)
LEMMA OtherGuests ==
  ASSUME CapturedInv, NEW s \in Strands, \A t \in Strands : t # s => strand'[t] = strand[t],
         \A g \in Guests : g # GuestOf[s] => captured'[g] = captured[g]
  PROVE  /\ \A g \in Guests : g # GuestOf[s] => Captures(g)'
         /\ \A t \in Strands : GuestOf[t] # GuestOf[s] => IsCaptured(t)'
<1>1. ASSUME NEW g \in Guests, g # GuestOf[s] PROVE Captures(g)'
  <2>1. captured[g] \in Seq(Strands) /\ Captures(g)
    BY DEF CapturedInv
  <2>2. \A n \in DOMAIN captured[g] : captured[g][n] \in Strands
    BY <2>1, ElementOfSeq, LenProperties
  <2>3. \A n \in DOMAIN captured[g] : captured[g][n] # s
    BY <1>1, <2>1 DEF Captures
  <2>4. \A n \in DOMAIN captured[g] : strand'[captured[g][n]] = strand[captured[g][n]]
    BY <2>2, <2>3
  <2> QED BY <1>1, <2>1, <2>4 DEF Captures
<1>2. ASSUME NEW t \in Strands, GuestOf[t] # GuestOf[s] PROVE IsCaptured(t)'
  <2>1. IsCaptured(t) /\ GuestOf[t] \in Guests
    BY GuestOfType DEF CapturedInv
  <2>2. strand'[t] = strand[t] /\ captured'[GuestOf[t]] = captured[GuestOf[t]]
    BY <1>2, <2>1
  <2> QED BY <2>1, <2>2 DEF IsCaptured
<1> QED BY <1>1, <1>2

(* What the entries of one guest are.                                      *)
LEMMA CapturedFacts ==
  ASSUME CapturedInv, NEW g \in Guests
  PROVE  /\ captured[g] \in Seq(Strands) /\ DOMAIN captured[g] = 1 .. Len(captured[g]) /\ Len(captured[g]) \in Nat
         /\ \A n \in DOMAIN captured[g] :
              /\ captured[g][n] \in Strands /\ GuestOf[captured[g][n]] = g
              /\ strand[captured[g][n]].pc \in Notifying
              /\ strand[captured[g][n]].pc = "nsend" => n = 1
              /\ \A m \in DOMAIN captured[g] : captured[g][m] = captured[g][n] => m = n
         /\ \A t \in Strands : GuestOf[t] = g /\ strand[t].pc \in Notifying =>
              \E n \in DOMAIN captured[g] : captured[g][n] = t
<1>1. captured[g] \in Seq(Strands) /\ Captures(g)
  BY DEF CapturedInv
<1>2. DOMAIN captured[g] = 1 .. Len(captured[g]) /\ Len(captured[g]) \in Nat
  BY <1>1, LenProperties
<1>3. \A n \in DOMAIN captured[g] : captured[g][n] \in Strands
  BY <1>1, <1>2, ElementOfSeq
<1>4. \A t \in Strands : GuestOf[t] = g /\ strand[t].pc \in Notifying =>
        \E n \in DOMAIN captured[g] : captured[g][n] = t
  BY DEF CapturedInv, IsCaptured
<1> QED BY <1>1, <1>2, <1>3, <1>4 DEF Captures

LEMMA CaptureKeeps ==
  ASSUME TypeInv, LockInv, CapturedInv, NEW s \in Strands, notify_capture(s)
  PROVE  CapturedInv'
<1> DEFINE g == GuestOf[s]
           c == captured[g]
<1>g. g \in Guests
  BY GuestOfType
<1>1. /\ strand[s].pc = "notify" /\ strand'[s].pc = "ntake" /\ asyncLock[g]["state"] = Nobody
      /\ \A t \in Strands : t # s => strand'[t] = strand[t]
      /\ captured' = [captured EXCEPT ![g] = Append(c, s)]
  BY DEF notify_capture, TypeInv, StrandTypes
<1>2. captured \in [Guests -> Seq(Strands)]
  BY DEF CapturedInv
<1>3. captured'[g] = Append(c, s) /\ \A h \in Guests : h # g => captured'[h] = captured[h]
  BY <1>1, <1>2, <1>g
<1>4. captured' \in [Guests -> Seq(Strands)]
  <2>1. Append(c, s) \in Seq(Strands)
    BY <1>2, <1>g, AppendProperties
  <2> QED BY <1>1, <1>2, <2>1
<1>f. /\ c \in Seq(Strands) /\ DOMAIN c = 1 .. Len(c) /\ Len(c) \in Nat
      /\ \A n \in DOMAIN c :
           /\ c[n] \in Strands /\ GuestOf[c[n]] = g /\ strand[c[n]].pc \in Notifying
           /\ strand[c[n]].pc = "nsend" => n = 1
           /\ \A m \in DOMAIN c : c[m] = c[n] => m = n
      /\ \A t \in Strands : GuestOf[t] = g /\ strand[t].pc \in Notifying => \E n \in DOMAIN c : c[n] = t
  BY <1>g, CapturedFacts
<1> DEFINE d == captured'[g]
<1>5. /\ DOMAIN d = 1 .. Len(c) + 1 /\ \A n \in DOMAIN c : d[n] = c[n] /\ d[Len(c) + 1] = s
  BY <1>3, <1>f, AppendProperties, LenProperties
<1>6. d[Len(c) + 1] = s
  BY <1>3, <1>f, AppendProperties
<1> HIDE DEF c, d, g
<1>7. \A n \in DOMAIN c : c[n] # s /\ strand'[c[n]] = strand[c[n]]
  BY <1>1, <1>f DEF Notifying
<1>8. \A n \in DOMAIN d : n \in DOMAIN c \/ n = Len(c) + 1
  BY <1>5, <1>f
<1>9. \A n \in DOMAIN d :
        /\ GuestOf[d[n]] = g /\ strand'[d[n]].pc \in Notifying
        /\ strand'[d[n]].pc = "nsend" => n = 1
        /\ \A m \in DOMAIN d : d[m] = d[n] => m = n
  <2> SUFFICES ASSUME NEW n \in DOMAIN d
               PROVE  /\ GuestOf[d[n]] = g /\ strand'[d[n]].pc \in Notifying
                      /\ strand'[d[n]].pc = "nsend" => n = 1
                      /\ \A m \in DOMAIN d : d[m] = d[n] => m = n
    OBVIOUS
  <2>1. CASE n \in DOMAIN c
    <3>1. d[n] = c[n] /\ strand'[d[n]] = strand[c[n]]
      BY <2>1, <1>5, <1>7
    <3>2. \A m \in DOMAIN d : d[m] = d[n] => m = n
      BY <2>1, <3>1, <1>5, <1>6, <1>7, <1>8, <1>f
    <3> QED BY <2>1, <3>1, <3>2, <1>f
  <2>2. CASE n = Len(c) + 1
    <3>1. \A m \in DOMAIN d : d[m] = d[n] => m = n
      BY <2>2, <1>5, <1>6, <1>7, <1>8
    <3>2. d[n] = s /\ strand'[d[n]].pc = "ntake"
      BY <2>2, <1>6, <1>1
    <3> QED BY <3>1, <3>2 DEF Notifying, g
  <2> QED BY <2>1, <2>2, <1>8
<1>10. Captures(g)'
  BY <1>9 DEF Captures, d, g
<1>11. ASSUME NEW t \in Strands, GuestOf[t] = g PROVE IsCaptured(t)'
  <2>1. CASE t = s
    <3>1. Len(c) + 1 \in DOMAIN d
      BY <1>5, <1>f
    <3> QED BY <2>1, <3>1, <1>6 DEF IsCaptured, d, g
  <2>2. CASE t # s
    <3>1. strand'[t] = strand[t]
      BY <2>2, <1>1
    <3>2. ASSUME strand[t].pc \in Notifying PROVE \E n \in DOMAIN d : d[n] = t
      <4>1. PICK n \in DOMAIN c : c[n] = t
        BY <1>11, <3>2, <1>f
      <4>2. n \in DOMAIN d /\ d[n] = t
        BY <4>1, <1>5, <1>f
      <4> QED BY <4>2
    <3> QED BY <1>11, <3>1, <3>2 DEF IsCaptured, d
  <2> QED BY <2>1, <2>2
<1>12. (\A h \in Guests : h # GuestOf[s] => Captures(h)') /\ \A t \in Strands : GuestOf[t] # GuestOf[s] => IsCaptured(t)'
  BY <1>1, <1>3, OtherGuests DEF g
<1> QED BY <1>4, <1>10, <1>11, <1>12 DEF CapturedInv, g

LEMMA TakeKeeps ==
  ASSUME TypeInv, LockInv, CapturedInv, NEW s \in Strands, notify_take(s)
  PROVE  CapturedInv'
<1> DEFINE g == GuestOf[s]
           c == captured[g]
<1>g. g \in Guests
  BY GuestOfType
<1>1. /\ strand[s].pc = "ntake" /\ strand'[s].pc = "nsend" /\ ldcLock = Nobody
      /\ \A t \in Strands : t # s => strand'[t] = strand[t]
      /\ UNCHANGED captured
  BY DEF notify_take, Step, TypeInv, StrandTypes
<1>f. /\ c \in Seq(Strands) /\ DOMAIN c = 1 .. Len(c) /\ Len(c) \in Nat
      /\ \A n \in DOMAIN c :
           /\ c[n] \in Strands /\ GuestOf[c[n]] = g /\ strand[c[n]].pc \in Notifying
           /\ strand[c[n]].pc = "nsend" => n = 1
           /\ \A m \in DOMAIN c : c[m] = c[n] => m = n
      /\ \A t \in Strands : GuestOf[t] = g /\ strand[t].pc \in Notifying => \E n \in DOMAIN c : c[n] = t
  BY <1>g, CapturedFacts
<1>2. \A t \in Strands : t # Nobody /\ StrandLocks(t)
  BY LockHolders DEF LockInv
<1>3. \A n \in DOMAIN c : c[n] = s
  <2> SUFFICES ASSUME NEW n \in DOMAIN c PROVE c[n] = s
    OBVIOUS
  <2>1. c[n] \in Strands /\ GuestOf[c[n]] = g /\ strand[c[n]].pc \in Notifying
    BY <1>f
  <2>2. strand[c[n]].pc = "ntake"
    BY <2>1, <1>1, <1>2 DEF StrandLocks, Notifying
  <2> QED BY <2>1, <2>2, <1>1, <1>2 DEF StrandLocks
<1>4. PICK k \in DOMAIN c : c[k] = s
  BY <1>1, <1>f DEF Notifying
<1>5. 1 \in DOMAIN c /\ \A n \in DOMAIN c : n = 1
  BY <1>3, <1>4, <1>f
<1>6. Captures(g)'
  BY <1>1, <1>3, <1>5 DEF Captures, Notifying
<1>7. ASSUME NEW t \in Strands, GuestOf[t] = g PROVE IsCaptured(t)'
  <2>1. CASE t = s
    BY <2>1, <1>4, <1>1 DEF IsCaptured
  <2>2. CASE t # s
    BY <2>2, <1>1, <1>7, <1>f DEF IsCaptured
  <2> QED BY <2>1, <2>2
<1>8. (\A h \in Guests : h # GuestOf[s] => Captures(h)') /\ \A t \in Strands : GuestOf[t] # GuestOf[s] => IsCaptured(t)'
  BY <1>1, OtherGuests
<1> QED BY <1>1, <1>6, <1>7, <1>8 DEF CapturedInv

LEMMA SendKeeps ==
  ASSUME TypeInv, LockInv, CapturedInv, NEW s \in Strands, notify_send(s)
  PROVE  CapturedInv'
<1> DEFINE g == GuestOf[s]
           c == captured[g]
<1>g. g \in Guests
  BY GuestOfType
<1>1. /\ strand[s].pc = "nsend" /\ strand'[s].pc = "idle"
      /\ \A t \in Strands : t # s => strand'[t] = strand[t]
      /\ captured' = [captured EXCEPT ![g] = Tail(c)]
  BY DEF notify_send, notify_return, Idle, TypeInv, StrandTypes
<1>2. captured \in [Guests -> Seq(Strands)]
  BY DEF CapturedInv
<1>3. captured'[g] = Tail(c) /\ \A h \in Guests : h # g => captured'[h] = captured[h]
  BY <1>1, <1>2, <1>g
<1>f. /\ c \in Seq(Strands) /\ DOMAIN c = 1 .. Len(c) /\ Len(c) \in Nat
      /\ \A n \in DOMAIN c :
           /\ c[n] \in Strands /\ GuestOf[c[n]] = g /\ strand[c[n]].pc \in Notifying
           /\ strand[c[n]].pc = "nsend" => n = 1
           /\ \A m \in DOMAIN c : c[m] = c[n] => m = n
      /\ \A t \in Strands : GuestOf[t] = g /\ strand[t].pc \in Notifying => \E n \in DOMAIN c : c[n] = t
  BY <1>g, CapturedFacts
<1>4. 1 \in DOMAIN c /\ c[1] = s
  <2>1. PICK k \in DOMAIN c : c[k] = s
    BY <1>1, <1>f DEF Notifying
  <2> QED BY <2>1, <1>1, <1>f
<1>5. c # <<>>
  BY <1>4, <1>f, EmptySeq
<1> DEFINE d == captured'[g]
<1>6. d \in Seq(Strands) /\ DOMAIN d = 1 .. Len(c) - 1 /\ \A n \in 1 .. Len(c) - 1 : d[n] = c[n + 1]
  BY <1>3, <1>5, <1>f, HeadTailProperties, LenProperties
<1>7. captured' \in [Guests -> Seq(Strands)]
  BY <1>1, <1>2, <1>3, <1>6
<1> HIDE DEF c, d, g
<1>8. \A n \in DOMAIN d : n + 1 \in DOMAIN c /\ n + 1 # 1 /\ n \in Nat /\ d[n] = c[n + 1]
  BY <1>6, <1>f
<1>9. \A n \in DOMAIN c : n # 1 => c[n] # s /\ strand'[c[n]] = strand[c[n]]
  BY <1>1, <1>4, <1>f
<1>10. \A n \in DOMAIN d :
        /\ GuestOf[d[n]] = g /\ strand'[d[n]].pc \in Notifying
        /\ strand'[d[n]].pc = "nsend" => n = 1
        /\ \A m \in DOMAIN d : d[m] = d[n] => m = n
  <2> SUFFICES ASSUME NEW n \in DOMAIN d
               PROVE  /\ GuestOf[d[n]] = g /\ strand'[d[n]].pc \in Notifying
                      /\ strand'[d[n]].pc = "nsend" => n = 1
                      /\ \A m \in DOMAIN d : d[m] = d[n] => m = n
    OBVIOUS
  <2>1. n + 1 \in DOMAIN c /\ n + 1 # 1 /\ n \in Nat /\ d[n] = c[n + 1] /\ strand'[d[n]] = strand[c[n + 1]]
    BY <1>8, <1>9
  <2>2. \A m \in DOMAIN d : d[m] = d[n] => m = n
    <3> SUFFICES ASSUME NEW m \in DOMAIN d, d[m] = d[n] PROVE m = n
      OBVIOUS
    <3>1. m + 1 = n + 1 /\ m \in Nat
      BY <2>1, <1>8, <1>f
    <3> QED BY <2>1, <3>1
  <2> QED BY <2>1, <2>2, <1>f
<1>11. Captures(g)'
  BY <1>10 DEF Captures, d, g
<1>12. ASSUME NEW t \in Strands, GuestOf[t] = g PROVE IsCaptured(t)'
  <2>1. CASE t = s
    BY <2>1, <1>1 DEF IsCaptured, Notifying
  <2>2. CASE t # s
    <3>1. strand'[t] = strand[t]
      BY <2>2, <1>1
    <3>2. ASSUME strand[t].pc \in Notifying PROVE \E n \in DOMAIN d : d[n] = t
      <4>1. PICK n \in DOMAIN c : c[n] = t
        BY <1>12, <3>2, <1>f
      <4>2. n # 1
        BY <4>1, <2>2, <1>4
      <4>3. n - 1 \in 1 .. Len(c) - 1 /\ (n - 1) + 1 = n
        BY <4>1, <4>2, <1>f
      <4>4. n - 1 \in DOMAIN d /\ d[n - 1] = t
        BY <4>1, <4>3, <1>6
      <4> QED BY <4>4
    <3> QED BY <1>12, <3>1, <3>2 DEF IsCaptured, d
  <2> QED BY <2>1, <2>2
<1>13. (\A h \in Guests : h # GuestOf[s] => Captures(h)') /\ \A t \in Strands : GuestOf[t] # GuestOf[s] => IsCaptured(t)'
  BY <1>1, <1>3, OtherGuests DEF g
<1> QED BY <1>7, <1>11, <1>12, <1>13 DEF CapturedInv, g

LEMMA NextCaptured == TypeInv /\ LockInv /\ CapturedInv /\ [Next]_vars => CapturedInv'
<1> SUFFICES ASSUME TypeInv, LockInv, CapturedInv, [Next]_vars PROVE CapturedInv'
  OBVIOUS
<1>0. ASSUME UNCHANGED <<strand, captured>> PROVE CapturedInv'
  BY <1>0, CapturedFrame
<1>1. CASE UNCHANGED vars
  BY <1>0, <1>1 DEF vars, guestVars
<1>2. CASE hv_control_pkt \/ op_guest_start \/ get_guest_status \/ get_guest_status_end \/ svc_reply
  BY <1>0, <1>2 DEF hv_control_pkt, op_guest_start, get_guest_status, get_guest_status_end, svc_reply, guestVars
<1>3. ASSUME NEW s \in Strands,
             \/ launch_boot_cpu(s) \/ exit_end(s) \/ notify_busy(s)
             \/ hcall_busy(s) \/ hcall_build(s) \/ hcall_data(s) \/ hcall_send(s)
             \/ \E role \in {"exit", "reset"} : exit_begin(s, role)
             \/ \E i \in HcallInfos : \E v \in Values(i) : hcall_store(s, i, v)
      PROVE  CapturedInv'
  <2>1. ASSUME strand[s].pc \notin Notifying, strand'[s].pc \notin Notifying, UNCHANGED captured,
               \A t \in Strands : t # s => strand'[t] = strand[t]
        PROVE  CapturedInv'
    <3>1. \A t \in Strands : \/ strand'[t].pc = strand[t].pc
                             \/ strand[t].pc \notin Notifying /\ strand'[t].pc \notin Notifying
      BY <2>1
    <3> QED BY <2>1, <3>1, CapturedFrame
  <2>2. CASE launch_boot_cpu(s) \/ \E role \in {"exit", "reset"} : exit_begin(s, role)
    BY <2>1, <2>2 DEF launch_boot_cpu, exit_begin, Idle, Notifying, TypeInv, StrandTypes
  <2>3. CASE exit_end(s) \/ hcall_build(s) \/ hcall_data(s)
    BY <2>1, <2>3 DEF exit_end, hcall_build, hcall_data, Step, Notifying, TypeInv, StrandTypes
  <2>4. CASE notify_busy(s)
    BY <2>1, <2>4 DEF notify_busy, notify_return, Idle, Notifying, TypeInv, StrandTypes
  <2>5. CASE hcall_busy(s) \/ hcall_send(s)
    BY <2>1, <2>5 DEF hcall_busy, hcall_send, hcall_return, Idle, Notifying, TypeInv, StrandTypes
  <2>6. CASE \E i \in HcallInfos : \E v \in Values(i) : hcall_store(s, i, v)
    BY <2>1, <2>6 DEF hcall_store, Idle, Notifying, TypeInv, StrandTypes
  <2> QED BY <1>3, <2>2, <2>3, <2>4, <2>5, <2>6
<1>4. CASE Next
  BY <1>0, <1>2, <1>3, <1>4, Cases, ZeusKeeps, CaptureKeeps, TakeKeeps, SendKeeps
<1> QED BY <1>1, <1>4

LEMMA InitCaptured == Init => CapturedInv
<1> SUFFICES ASSUME Init PROVE CapturedInv
  OBVIOUS
<1>1. captured = [g \in Guests |-> <<>>] /\ \A s \in Strands : strand[s].pc = "idle"
  BY DEF Init, Idle
<1>2. captured \in [Guests -> Seq(Strands)]
  BY <1>1, EmptySeq
<1>3. ASSUME NEW g \in Guests PROVE DOMAIN captured[g] = {}
  <2>1. captured[g] = <<>>
    BY <1>1
  <2> QED BY <2>1
<1> QED BY <1>1, <1>2, <1>3 DEF CapturedInv, Captures, IsCaptured, Notifying

(* State notifications of a guest leave in the order in which its state    *)
(* was read, whatever the number of guests and of strands: the strand that *)
(* holds the channel's lock to send one is the oldest of its guest that    *)
(* has read a state and not sent it (guest_state_notify takes              *)
(* hvctl_ldc_lock before it releases async_lock).                          *)
THEOREM NotifiedInOrder == Spec => []NotifyOrder
<1>1. CapturedInv => NotifyOrder
  <2> SUFFICES ASSUME CapturedInv, NEW s \in Strands, strand[s].pc = "nsend"
               PROVE  Head(captured[GuestOf[s]]) = s
    BY DEF NotifyOrder
  <2> DEFINE c == captured[GuestOf[s]]
  <2>1. GuestOf[s] \in Guests
    BY GuestOfType
  <2>2. c \in Seq(Strands) /\ DOMAIN c = 1 .. Len(c) /\ Len(c) \in Nat
    BY <2>1, CapturedFacts
  <2>3. PICK n \in DOMAIN c : c[n] = s
    BY <2>1, CapturedFacts DEF Notifying
  <2>4. n = 1
    BY <2>1, <2>3, CapturedFacts
  <2>5. c # <<>>
    BY <2>2, <2>3
  <2> QED BY <2>2, <2>3, <2>4, <2>5, HeadTailProperties
<1> QED BY <1>1, InitType, NextType, InitLock, NextLock, InitCaptured, NextCaptured, PTL DEF Spec

-----------------------------------------------------------------------------
(* How many notifications can be on their way to Zeus, and what it knows   *)
(* once none is.  The time of day is left out: hcall_tod_set takes the     *)
(* lock of another value, and both statements are false with it.           *)

NoTod == "tod" \notin HcallInfos

(* A notification of k: on a strand that has marked k busy to send it, or  *)
(* in Zeus's queue; and the answer to a query of k, in hvctl_obuf or in    *)
(* the queue.                                                              *)
InFlight(s, k) ==
  /\ GuestOf[s] = k[1]
  /\ \/ k[2] = "state" /\ strand[s].pc \in {"ntake", "nsend"}
     \/ k[2] = strand[s].info /\ strand[s].pc \in {"data", "hsend"}
NoticeAt(n, k) == rxq[n].kind = "notice" /\ rxq[n].key = k
AnswerAt(n, k) == rxq[n].kind = "reply" /\ rxq[n].op = "get_res_stat" /\ rxq[n].key = k
Answering(k) == cb = "send" /\ obuf.op = "get_res_stat" /\ obuf.key = k
Busy(k) == busy[k[1]][k[2]]

(* A query clears async_busy, so a second notification may follow one that *)
(* Zeus has not read.  The first of the two is then ahead of the answer:   *)
(* its strand has the channel's lock, or it is in the queue already.       *)
OldNotice(a, k) ==
  \/ a = 0
  \/ /\ a \in DOMAIN rxq /\ NoticeAt(a, k)
     /\ Answering(k) \/ \E p \in DOMAIN rxq : AnswerAt(p, k) /\ a < p
OldSender(b, k) ==
  \/ b = Nobody
  \/ b \in Strands /\ InFlight(b, k) /\ strand[b].pc = "nsend" /\ Answering(k)

(* Besides that one, a is its place and b its strand, there is at most one *)
(* notification of k, and k is busy while there is.                        *)
AtMostOne(k, a, b) ==
  /\ a = 0 \/ b = Nobody
  /\ \A n \in DOMAIN rxq : NoticeAt(n, k) /\ n # a =>
       /\ Busy(k)
       /\ \A m \in DOMAIN rxq : NoticeAt(m, k) /\ m # a => m = n
       /\ \A s \in Strands : InFlight(s, k) => s = b
  /\ \A s \in Strands : InFlight(s, k) /\ s # b =>
       /\ Busy(k)
       /\ \A t \in Strands : InFlight(t, k) /\ t # b => t = s
Counted(k, a, b) == OldNotice(a, k) /\ OldSender(b, k) /\ AtMostOne(k, a, b)
Cap(k) == \E a \in Nat, b \in Strands \cup {Nobody} : Counted(k, a, b)
CapInv == \A k \in Keys : Cap(k)

(* The guest's one asynchronous buffer holds what the strand at work on it *)
(* will send.                                                              *)
BufInv == \A s \in Strands : strand[s].pc \in {"data", "hsend"} => asyncBuf[GuestOf[s]].info = strand[s].info

(* What the proofs below start from.                                       *)
Base == TypeInv /\ SessionInv /\ ReplyInv /\ LockInv

-----------------------------------------------------------------------------
LEMMA BaseInvariant == Spec => []Base
<1>1. Init => SessionInv /\ ReplyInv
  <2> SUFFICES ASSUME Init PROVE SessionInv /\ ReplyInv
    OBVIOUS
  <2>1. zeus.session = "none" /\ zeus.up = qconf /\ cb = "none" /\ ~zeus.waiting /\ rxq = <<>>
    BY DEF Init
  <2>2. DOMAIN rxq = {}
    BY <2>1
  <2> QED BY <2>1, <2>2 DEF SessionInv, SessionAgrees, ReplyInv
<1>2. TypeInv /\ SessionInv /\ ReplyInv /\ [Next]_vars => SessionInv' /\ ReplyInv'
  <2> SUFFICES ASSUME TypeInv, SessionInv, ReplyInv, [Next]_vars PROVE SessionInv' /\ ReplyInv'
    OBVIOUS
  <2>1. CASE UNCHANGED vars
    BY <2>1, NoticeSession DEF vars
  <2>2. CASE Next
    BY <2>2, Cases, ControlSession, StrandSession, ZeusSession
  <2> QED BY <2>1, <2>2
<1> QED BY <1>1, <1>2, InitType, NextType, InitLock, NextLock, PTL DEF Spec, Base

LEMMA NoTodFacts ==
  ASSUME NoTod
  PROVE  /\ HcallInfos \subseteq {"soft_state"} /\ Infos \subseteq {"state", "soft_state"}
         /\ \A i \in Infos : HcallLock(i) = i /\ StatusLock(i) = i
         /\ \A k \in Keys : k[1] \in Guests /\ k[2] \in Infos /\ k = <<k[1], k[2]>>
<1>1. HcallInfos \subseteq {"soft_state"} /\ Infos \subseteq {"state", "soft_state"}
  BY InfosKnown DEF NoTod, Infos
<1>2. \A i \in Infos : HcallLock(i) = i /\ StatusLock(i) = i
  BY <1>1 DEF HcallLock, StatusLock
<1>3. \A k \in Keys : k[1] \in Guests /\ k[2] \in Infos /\ k = <<k[1], k[2]>>
  BY DEF Keys
<1> QED BY <1>1, <1>2, <1>3

LEMMA QueueFacts ==
  ASSUME TypeInv
  PROVE  /\ rxq \in Seq(Messages) /\ DOMAIN rxq = 1 .. Len(rxq) /\ Len(rxq) \in Nat
         /\ \A n \in DOMAIN rxq : n \in Nat /\ n # 0 /\ rxq[n] \in Messages
<1>1. rxq \in Seq(Messages)
  BY DEF TypeInv, QueueTypes
<1>2. DOMAIN rxq = 1 .. Len(rxq) /\ Len(rxq) \in Nat
  BY <1>1, LenProperties
<1> QED BY <1>1, <1>2, ElementOfSeq

(* A notification of k is on a strand that holds the lock of k or, at      *)
(* nsend, the channel's.                                                   *)
LEMMA FlightLocks ==
  ASSUME NoTod, Base, NEW k \in Keys, NEW s \in Strands, InFlight(s, k)
  PROVE  /\ strand[s].pc # "nsend" => asyncLock[k[1]][k[2]] = s
         /\ strand[s].pc = "nsend" => ldcLock = s
         /\ strand[s].pc \in {"ntake", "nsend", "data", "hsend"}
         /\ strand[s].pc \in {"ntake", "nsend"} <=> k[2] = "state"
<1>1. StrandLocks(s)
  BY DEF Base, LockInv
<1>2. strand[s].pc \in {"data", "hsend"} => strand[s].info = "soft_state" /\ HcallLock(strand[s].info) = strand[s].info
  BY <1>1, NoTodFacts, InfoFacts DEF StrandLocks
<1> QED BY <1>1, <1>2 DEF StrandLocks, InFlight

(* While no answer is on its way there is no first one of two.             *)
LEMMA NoneOld ==
  ASSUME TypeInv, NEW k \in Keys, NEW a \in Nat, NEW b \in Strands \cup {Nobody}, Counted(k, a, b),
         ~Answering(k), \A p \in DOMAIN rxq : ~AnswerAt(p, k)
  PROVE  a = 0 /\ b = Nobody
  BY DEF Counted, OldNotice, OldSender

(* A step that leaves the queue and the notifications of k as they are.    *)
LEMMA CapFrame ==
  ASSUME NEW k \in Keys, Cap(k), UNCHANGED rxq, Answering(k) => Answering(k)', Busy(k)' <=> Busy(k),
         \A s \in Strands : InFlight(s, k)' <=> InFlight(s, k),
         \A s \in Strands : InFlight(s, k) /\ strand[s].pc = "nsend" => strand'[s].pc = "nsend"
  PROVE  Cap(k)'
<1>1. PICK a \in Nat, b \in Strands \cup {Nobody} : Counted(k, a, b)
  BY DEF Cap
<1>2. \A n \in DOMAIN rxq : (NoticeAt(n, k)' <=> NoticeAt(n, k)) /\ (AnswerAt(n, k)' <=> AnswerAt(n, k))
  BY DEF NoticeAt, AnswerAt
<1>3. OldNotice(a, k)'
  BY <1>1, <1>2 DEF Counted, OldNotice
<1>4. OldSender(b, k)'
  BY <1>1 DEF Counted, OldSender
<1>5. AtMostOne(k, a, b)'
  BY <1>1, <1>2 DEF Counted, AtMostOne
<1> QED BY <1>3, <1>4, <1>5 DEF Cap, Counted

(* A strand that has marked what it will notify.                           *)
LEMMA CapCapture ==
  ASSUME NEW k \in Keys, Cap(k), NEW s \in Strands, UNCHANGED <<rxq, cb, obuf>>,
         \A t \in Strands : t # s => strand'[t] = strand[t],
         ~InFlight(s, k),
         InFlight(s, k)' => ~Busy(k) /\ Busy(k)',
         ~InFlight(s, k)' => (Busy(k)' <=> Busy(k))
  PROVE  Cap(k)'
<1>0. \A t \in Strands : t # s => (InFlight(t, k)' <=> InFlight(t, k))
  BY DEF InFlight
<1>1. CASE ~InFlight(s, k)'
  <2>1. \A t \in Strands : InFlight(t, k)' <=> InFlight(t, k)
    BY <1>0, <1>1
  <2>2. \A t \in Strands : InFlight(t, k) /\ strand[t].pc = "nsend" => strand'[t].pc = "nsend"
    BY <1>1
  <2>3. Answering(k) => Answering(k)'
    BY DEF Answering
  <2> QED BY <1>1, <2>1, <2>2, <2>3, CapFrame
<1>2. CASE InFlight(s, k)'
  <2>1. PICK a \in Nat, b \in Strands \cup {Nobody} : Counted(k, a, b)
    BY DEF Cap
  <2>2. \A n \in DOMAIN rxq : (NoticeAt(n, k)' <=> NoticeAt(n, k)) /\ (AnswerAt(n, k)' <=> AnswerAt(n, k))
    BY DEF NoticeAt, AnswerAt
  <2>3. /\ \A n \in DOMAIN rxq : NoticeAt(n, k) => n = a
        /\ \A t \in Strands : InFlight(t, k) => t = b
        /\ b # s \/ b = Nobody
    BY <1>2, <2>1 DEF Counted, AtMostOne, OldSender
  <2>4. OldNotice(a, k)'
    BY <2>1, <2>2 DEF Counted, OldNotice, Answering
  <2>5. OldSender(b, k)'
    BY <2>1, <2>3, <1>0 DEF Counted, OldSender, Answering
  <2>6. AtMostOne(k, a, b)'
    BY <2>1, <2>2, <2>3, <1>0, <1>2 DEF Counted, AtMostOne
  <2> QED BY <2>4, <2>5, <2>6 DEF Cap, Counted
<1> QED BY <1>1, <1>2

(* A strand that sends its notification, or loses it.                      *)
LEMMA CapSend ==
  ASSUME TypeInv, NEW k \in Keys, Cap(k), NEW s \in Strands, UNCHANGED <<cb, obuf, busy>>,
         \A t \in Strands : t # s => strand'[t] = strand[t],
         NEW m \in Messages, hv_ldc_send_pkt(m), m.kind = "notice", s # Nobody,
         InFlight(s, k) <=> m.key = k, ~InFlight(s, k)'
  PROVE  Cap(k)'
<1>n. PICK new \in Nat : new = Len(rxq) + 1
  BY QueueFacts DEF Base
<1>a. Answering(k)' <=> Answering(k)
  BY DEF Answering
<1>b. Busy(k)' <=> Busy(k)
  BY DEF Busy
<1>0. \A t \in Strands : t # s => (InFlight(t, k)' <=> InFlight(t, k))
  BY DEF InFlight
<1>1. PICK a \in Nat, b \in Strands \cup {Nobody} : Counted(k, a, b)
  BY DEF Cap
<1>q. DOMAIN rxq = 1 .. Len(rxq) /\ Len(rxq) \in Nat /\ \A n \in DOMAIN rxq : n \in Nat /\ n # 0
  BY QueueFacts
<1>2. CASE rxq' = rxq
  <2>1. \A n \in DOMAIN rxq : (NoticeAt(n, k)' <=> NoticeAt(n, k)) /\ (AnswerAt(n, k)' <=> AnswerAt(n, k))
    BY <1>2 DEF NoticeAt, AnswerAt
  <2>2. OldNotice(a, k)'
    BY <1>1, <1>2, <1>a, <2>1 DEF Counted, OldNotice
  <2>3. CASE b = s
    <3>1. AtMostOne(k, a, Nobody)'
      BY <1>1, <1>0, <1>b, <1>2, <2>1, <2>3 DEF Counted, AtMostOne
    <3>2. OldSender(Nobody, k)'
      BY DEF OldSender
    <3> QED BY <2>2, <3>1, <3>2 DEF Cap, Counted
  <2>4. CASE b # s
    <3>1. AtMostOne(k, a, b)'
      BY <1>1, <1>0, <1>b, <1>2, <2>1, <2>4 DEF Counted, AtMostOne
    <3>2. OldSender(b, k)'
      BY <1>1, <1>0, <1>a, <2>4 DEF Counted, OldSender
    <3> QED BY <2>2, <3>1, <3>2 DEF Cap, Counted
  <2> QED BY <2>3, <2>4
<1>3. CASE rxq' # rxq
  <2>1. /\ DOMAIN rxq' = 1 .. new /\ rxq'[new] = m /\ \A n \in DOMAIN rxq : rxq'[n] = rxq[n]
    BY <1>3, <1>n, Sent DEF TypeInv
  <2>2. /\ new \in Nat /\ new # 0 /\ new \in DOMAIN rxq' /\ new \notin DOMAIN rxq
        /\ \A n \in DOMAIN rxq' : n \in DOMAIN rxq \/ n = new
        /\ \A n \in DOMAIN rxq : n \in DOMAIN rxq'
    BY <1>n, <1>q, <2>1
  <2>3. \A n \in DOMAIN rxq : (NoticeAt(n, k)' <=> NoticeAt(n, k)) /\ (AnswerAt(n, k)' <=> AnswerAt(n, k))
    BY <2>1 DEF NoticeAt, AnswerAt
  <2>4. NoticeAt(new, k)' <=> InFlight(s, k)
    BY <2>1 DEF NoticeAt
  <2>5. a # new
    BY <1>1, <2>2 DEF Counted, OldNotice
  <2>6. CASE b = s
    <3>1. a = 0 /\ InFlight(s, k) /\ Answering(k)
      BY <1>1, <2>6 DEF Counted, AtMostOne, OldSender
    <3>2. OldNotice(new, k)'
      BY <3>1, <2>2, <2>4, <1>a DEF OldNotice
    <3>3. OldSender(Nobody, k)'
      BY DEF OldSender
    <3>4. AtMostOne(k, new, Nobody)'
      BY <1>1, <1>0, <1>b, <2>2, <2>3, <2>6, <3>1, <1>q DEF Counted, AtMostOne
    <3> QED BY <3>2, <3>3, <3>4, <2>2 DEF Cap, Counted
  <2>7. CASE b # s
    <3>1. OldNotice(a, k)'
      BY <1>1, <2>2, <2>3, <1>a DEF Counted, OldNotice
    <3>2. OldSender(b, k)'
      BY <1>1, <1>0, <1>a, <2>7 DEF Counted, OldSender
    <3>3. AtMostOne(k, a, b)'
      BY <1>1, <1>0, <1>b, <2>2, <2>3, <2>4, <2>5, <2>7 DEF Counted, AtMostOne
    <3> QED BY <3>1, <3>2, <3>3 DEF Cap, Counted
  <2> QED BY <2>6, <2>7
<1> QED BY <1>2, <1>3

(* The end of a query: k is no longer busy, and what is on its way is the  *)
(* first of two that there may be now.                                     *)
LEMMA CapQueried ==
  ASSUME NoTod, Base, NEW k \in Keys, Cap(k), get_guest_status_end
  PROVE  Cap(k)'
<1>1. /\ cb = "stat" /\ cb' = "send" /\ obuf' = Reply(ibuf.op, "ok", ctl.hv_seq, ibuf.key, obuf.val)
      /\ UNCHANGED <<rxq, strand>> /\ busy' = [busy EXCEPT ![ibuf.key[1]][ibuf.key[2]] = FALSE]
  BY DEF get_guest_status_end, reply_cmd, Processed
<1>2. ibuf.op = "get_res_stat" /\ ibuf.key \in Keys
  BY <1>1, PacketFields DEF Base, SessionInv, TypeInv, CtlTypes
<1>3. \A s \in Strands : InFlight(s, k)' <=> InFlight(s, k)
  BY <1>1 DEF InFlight
<1>4. ~Answering(k) /\ \A n \in DOMAIN rxq : ~AnswerAt(n, k)
  BY <1>1 DEF Base, ReplyInv, Answering, AnswerAt
<1>5. CASE k # ibuf.key
  <2>1. Busy(k)' <=> Busy(k)
    <3>1. k[1] # ibuf.key[1] \/ k[2] # ibuf.key[2]
      BY <1>5, <1>2, NoTodFacts
    <3> QED BY <1>1, <1>2, <3>1, NoTodFacts DEF Busy, Base, TypeInv, GuestTypes
  <2>2. Answering(k) => Answering(k)'
    BY <1>4
  <2> QED BY <1>1, <1>3, <2>1, <2>2, CapFrame
<1>6. CASE k = ibuf.key
  <2>1. PICK a \in Nat, b \in Strands \cup {Nobody} : Counted(k, a, b)
    BY DEF Cap
  <2>2. a = 0 /\ b = Nobody
    BY <2>1, <1>4, NoneOld DEF Base
  <2>3. \A n \in DOMAIN rxq : NoticeAt(n, k)' <=> NoticeAt(n, k)
    BY <1>1 DEF NoticeAt
  <2>4. Answering(k)'
    BY <1>1, <1>2, <1>6 DEF Answering, Reply
  <2>5. \A s \in Strands : s # Nobody /\ s # Control
    BY LockHolders
  <2>6. \A s \in Strands : InFlight(s, k) => strand[s].pc = "nsend"
    <3>1. asyncLock[k[1]][k[2]] = Control
      BY <1>1, <1>6, NoTodFacts DEF Base, LockInv, QueryLock
    <3> QED BY <2>5, <3>1, FlightLocks
  <2>7. \A n \in DOMAIN rxq : n \in Nat /\ n # 0
    BY QueueFacts DEF Base
  <2>8. ASSUME NEW n \in DOMAIN rxq, NoticeAt(n, k) PROVE Cap(k)'
    <3>1. OldNotice(n, k)' /\ OldSender(Nobody, k)'
      BY <1>1, <2>3, <2>4, <2>8 DEF OldNotice, OldSender
    <3>2. AtMostOne(k, n, Nobody)'
      BY <1>1, <1>3, <2>1, <2>2, <2>3, <2>5, <2>7, <2>8 DEF Counted, AtMostOne
    <3> QED BY <2>7, <3>1, <3>2 DEF Cap, Counted
  <2>9. ASSUME NEW s \in Strands, InFlight(s, k) PROVE Cap(k)'
    <3>1. OldNotice(0, k)' /\ OldSender(s, k)'
      BY <1>1, <1>3, <2>4, <2>6, <2>9 DEF OldNotice, OldSender
    <3>2. AtMostOne(k, 0, s)'
      BY <1>1, <1>3, <2>1, <2>2, <2>3, <2>5, <2>7, <2>9 DEF Counted, AtMostOne
    <3> QED BY <3>1, <3>2 DEF Cap, Counted
  <2>10. ASSUME \A n \in DOMAIN rxq : ~NoticeAt(n, k), \A s \in Strands : ~InFlight(s, k) PROVE Cap(k)'
    <3>1. OldNotice(0, k)' /\ OldSender(Nobody, k)'
      BY DEF OldNotice, OldSender
    <3>2. AtMostOne(k, 0, Nobody)'
      BY <1>1, <1>3, <2>3, <2>10 DEF AtMostOne
    <3> QED BY <3>1, <3>2 DEF Cap, Counted
  <2> QED BY <2>8, <2>9, <2>10
<1> QED BY <1>5, <1>6

(* The answer follows the first one into the queue.                        *)
LEMMA CapAnswer ==
  ASSUME Base, NEW k \in Keys, Cap(k), svc_reply
  PROVE  Cap(k)'
<1>n. PICK new \in Nat : new = Len(rxq) + 1
  BY QueueFacts DEF Base
<1>1. /\ cb = "send" /\ cb' = "none" /\ ldcLock = Nobody /\ UNCHANGED <<strand, busy>> /\ rxq' = Append(rxq, obuf)
      /\ obuf.kind = "reply"
  <2>1. qconf
    BY DEF svc_reply, Base, SessionInv
  <2> QED BY <2>1 DEF svc_reply, hv_ldc_send_pkt, guestVars, Base, SessionInv
<1>q. DOMAIN rxq = 1 .. Len(rxq) /\ Len(rxq) \in Nat /\ \A n \in DOMAIN rxq : n \in Nat /\ n # 0
  BY QueueFacts DEF Base
<1>2. /\ DOMAIN rxq' = 1 .. new /\ rxq'[new] = obuf /\ \A n \in DOMAIN rxq : rxq'[n] = rxq[n]
  BY <1>1, <1>n, AppendProperties, LenProperties DEF Base, TypeInv, QueueTypes, CtlTypes
<1>3. /\ new \in DOMAIN rxq' /\ \A n \in DOMAIN rxq' : n \in DOMAIN rxq \/ n = new
      /\ \A n \in DOMAIN rxq : n \in DOMAIN rxq' /\ n < new
  BY <1>n, <1>q, <1>2
<1>4. \A n \in DOMAIN rxq : (NoticeAt(n, k)' <=> NoticeAt(n, k)) /\ (AnswerAt(n, k)' <=> AnswerAt(n, k))
  BY <1>2 DEF NoticeAt, AnswerAt
<1>5. ~NoticeAt(new, k)' /\ (Answering(k) => AnswerAt(new, k)')
  BY <1>1, <1>2 DEF NoticeAt, AnswerAt, Answering
<1>6. PICK a \in Nat, b \in Strands \cup {Nobody} : Counted(k, a, b)
  BY DEF Cap
<1>7. b = Nobody
  <2>1. \A s \in Strands : s # Nobody /\ StrandLocks(s)
    BY LockHolders DEF Base, LockInv
  <2> QED BY <1>1, <1>6, <2>1 DEF Counted, OldSender, StrandLocks
<1>8. OldNotice(a, k)'
  BY <1>3, <1>4, <1>5, <1>6 DEF Counted, OldNotice
<1>9. OldSender(b, k)'
  BY <1>7 DEF OldSender
<1>10. \A s \in Strands : InFlight(s, k)' <=> InFlight(s, k)
  BY <1>1 DEF InFlight
<1>11. AtMostOne(k, a, b)'
  BY <1>1, <1>3, <1>4, <1>5, <1>6, <1>10 DEF Counted, AtMostOne, Busy
<1> QED BY <1>8, <1>9, <1>11 DEF Cap, Counted

(* Zeus reads the oldest packet.                                           *)
LEMMA Shift ==
  ASSUME TypeInv, zeus_read
  PROVE  /\ 1 \in DOMAIN rxq /\ rxq[1] = Head(rxq)
         /\ \A n \in DOMAIN rxq' : n \in Nat /\ n # 0 /\ n + 1 \in DOMAIN rxq /\ rxq'[n] = rxq[n + 1]
         /\ \A n \in DOMAIN rxq : n \in Nat /\ (n # 1 => n - 1 \in DOMAIN rxq' /\ rxq'[n - 1] = rxq[n])
<1>1. rxq # <<>> /\ rxq' = Tail(rxq) /\ rxq \in Seq(Messages)
  BY DEF zeus_read, TypeInv, QueueTypes
<1>2. /\ DOMAIN rxq = 1 .. Len(rxq) /\ Len(rxq) \in Nat \ {0} /\ Head(rxq) = rxq[1]
      /\ DOMAIN rxq' = 1 .. Len(rxq) - 1 /\ \A n \in 1 .. Len(rxq) - 1 : rxq'[n] = rxq[n + 1]
  BY <1>1, HeadTailProperties, LenProperties, EmptySeq
<1>3. \A n \in DOMAIN rxq' : n \in Nat /\ n # 0 /\ n + 1 \in DOMAIN rxq /\ rxq'[n] = rxq[n + 1]
  BY <1>2
<1>4. ASSUME NEW n \in DOMAIN rxq, n # 1 PROVE n - 1 \in DOMAIN rxq' /\ rxq'[n - 1] = rxq[n]
  <2>1. n \in Nat /\ n - 1 \in DOMAIN rxq' /\ (n - 1) + 1 = n
    BY <1>2, <1>4
  <2> QED BY <1>3, <2>1
<1> QED BY <1>2, <1>3, <1>4

LEMMA CapRead ==
  ASSUME Base, NEW k \in Keys, Cap(k), zeus_read
  PROVE  Cap(k)'
<1>1. cb = "none" /\ UNCHANGED <<cb, obuf, strand, busy>>
  BY DEF zeus_read, ctlVars, guestVars
<1>2. PICK a \in Nat, b \in Strands \cup {Nobody} : Counted(k, a, b)
  BY DEF Cap
<1>3. /\ \A n \in DOMAIN rxq' : /\ n \in Nat /\ n # 0 /\ n + 1 \in DOMAIN rxq
                                /\ NoticeAt(n, k)' <=> NoticeAt(n + 1, k)
      /\ \A n \in DOMAIN rxq : n \in Nat /\ (n # 1 => /\ n - 1 \in DOMAIN rxq'
                                                      /\ NoticeAt(n - 1, k)' <=> NoticeAt(n, k)
                                                      /\ AnswerAt(n - 1, k)' <=> AnswerAt(n, k))
  BY Shift DEF Base, NoticeAt, AnswerAt
<1>4. b = Nobody /\ OldSender(b, k)'
  BY <1>1, <1>2 DEF Counted, OldSender, Answering
<1>5. \A s \in Strands : InFlight(s, k)' <=> InFlight(s, k)
  BY <1>1 DEF InFlight
<1> DEFINE c == IF a \in {0, 1} THEN 0 ELSE a - 1
<1>6. c \in Nat /\ \A n \in Nat : n # 0 => (n = c <=> n + 1 = a)
  BY <1>2
<1>7. OldNotice(c, k)'
  <2>1. CASE a \in {0, 1}
    BY <2>1 DEF OldNotice
  <2>2. CASE a \notin {0, 1}
    <3>1. PICK p \in DOMAIN rxq : a \in DOMAIN rxq /\ NoticeAt(a, k) /\ AnswerAt(p, k) /\ a < p
      BY <1>1, <1>2, <2>2 DEF Counted, OldNotice, Answering
    <3>2. p # 1 /\ a - 1 < p - 1 /\ p \in Nat
      BY <2>2, <3>1, <1>3
    <3>3. a - 1 \in DOMAIN rxq' /\ NoticeAt(a - 1, k)' /\ p - 1 \in DOMAIN rxq' /\ AnswerAt(p - 1, k)'
      BY <2>2, <3>1, <3>2, <1>3
    <3> QED BY <2>2, <3>2, <3>3 DEF OldNotice
  <2> QED BY <2>1, <2>2
<1> HIDE DEF c
<1>8. \A n, m \in DOMAIN rxq' : n + 1 = m + 1 => n = m
  BY <1>3
<1>9. AtMostOne(k, c, b)'
  BY <1>1, <1>2, <1>3, <1>4, <1>5, <1>6, <1>8 DEF Counted, AtMostOne, Busy
<1> QED BY <1>4, <1>6, <1>7, <1>9 DEF Cap, Counted

(* The control domain resets.                                              *)
LEMMA CapReset ==
  ASSUME Base, NEW k \in Keys, Cap(k), zeus_reset
  PROVE  Cap(k)'
<1>1. cb = "none" /\ UNCHANGED <<cb, obuf, strand, busy>> /\ rxq' = <<>>
  BY DEF zeus_reset, ctlVars, guestVars
<1>2. PICK a \in Nat, b \in Strands \cup {Nobody} : Counted(k, a, b)
  BY DEF Cap
<1>3. b = Nobody /\ OldSender(b, k)' /\ OldNotice(0, k)'
  BY <1>1, <1>2 DEF Counted, OldSender, OldNotice, Answering
<1>4. \A s \in Strands : InFlight(s, k)' <=> InFlight(s, k)
  BY <1>1 DEF InFlight
<1>5. DOMAIN rxq' = {}
  BY <1>1
<1>6. AtMostOne(k, 0, b)'
  BY <1>1, <1>2, <1>3, <1>4, <1>5 DEF Counted, AtMostOne, Busy
<1> QED BY <1>3, <1>6 DEF Cap, Counted

(* What a strand's step does to the notifications.                         *)
LEMMA StrandCap ==
  ASSUME NoTod, Base, BufInv, NEW k \in Keys, Cap(k), NEW s \in Strands,
         \/ launch_boot_cpu(s) \/ exit_end(s)
         \/ notify_busy(s) \/ notify_capture(s) \/ notify_take(s) \/ notify_send(s)
         \/ hcall_busy(s) \/ hcall_build(s) \/ hcall_data(s) \/ hcall_send(s)
         \/ \E role \in {"exit", "reset"} : exit_begin(s, role)
         \/ \E i \in HcallInfos : \E v \in Values(i) : hcall_store(s, i, v)
  PROVE  Cap(k)'
<1>g. /\ GuestOf[s] \in Guests /\ strand[s].info \in Infos /\ "state" \in Infos /\ k[1] \in Guests /\ k[2] \in Infos
      /\ s # Nobody
  BY GuestOfType, InfoFacts, NoTodFacts, LockHolders DEF Base, TypeInv, StrandTypes
<1>1. ASSUME \A t \in Strands : t # s => strand'[t] = strand[t], UNCHANGED <<rxq, cb, obuf, busy>>,
             InFlight(s, k)' <=> InFlight(s, k), strand[s].pc # "nsend"
      PROVE  Cap(k)'
  <2>1. \A t \in Strands : InFlight(t, k)' <=> InFlight(t, k)
    BY <1>1 DEF InFlight
  <2>2. \A t \in Strands : InFlight(t, k) /\ strand[t].pc = "nsend" => strand'[t].pc = "nsend"
    BY <1>1
  <2>3. (Answering(k) => Answering(k)') /\ (Busy(k)' <=> Busy(k))
    BY <1>1 DEF Answering, Busy
  <2> QED BY <1>1, <2>1, <2>2, <2>3, CapFrame
<1>2. CASE launch_boot_cpu(s)
  <2>1. /\ \A t \in Strands : t # s => strand'[t] = strand[t]
        /\ strand[s].pc = "idle" /\ strand'[s].pc = "notify" /\ UNCHANGED <<rxq, cb, obuf, busy>>
    BY <1>2 DEF launch_boot_cpu, Idle, Base, TypeInv, StrandTypes, ctlVars
  <2> QED BY <1>1, <2>1 DEF InFlight
<1>11. ASSUME NEW role \in {"exit", "reset"}, exit_begin(s, role) PROVE Cap(k)'
  <2>1. /\ \A t \in Strands : t # s => strand'[t] = strand[t]
        /\ strand[s].pc = "idle" /\ strand'[s].pc = "exit" /\ UNCHANGED <<rxq, cb, obuf, busy>>
    BY <1>11 DEF exit_begin, Idle, Base, TypeInv, StrandTypes, ctlVars
  <2> QED BY <1>1, <2>1 DEF InFlight
<1>3. CASE exit_end(s) \/ notify_busy(s)
  <2>1. /\ \A t \in Strands : t # s => strand'[t] = strand[t]
        /\ strand[s].pc \in {"exit", "notify"} /\ strand'[s].pc \in {"notify", "idle"} /\ UNCHANGED <<rxq, cb, obuf, busy>>
    BY <1>3 DEF exit_end, notify_busy, notify_return, Step, Idle, Base, TypeInv, StrandTypes, ctlVars
  <2> QED BY <1>1, <2>1 DEF InFlight
<1>4. CASE hcall_busy(s)
  <2>1. /\ \A t \in Strands : t # s => strand'[t] = strand[t]
        /\ strand[s].pc = "check" /\ strand'[s].pc = "idle" /\ UNCHANGED <<rxq, cb, obuf, busy>>
    BY <1>4 DEF hcall_busy, hcall_return, Idle, Base, TypeInv, StrandTypes, ctlVars
  <2> QED BY <1>1, <2>1 DEF InFlight
<1>12. ASSUME NEW i \in HcallInfos, NEW v \in Values(i), hcall_store(s, i, v) PROVE Cap(k)'
  <2>1. /\ \A t \in Strands : t # s => strand'[t] = strand[t]
        /\ strand[s].pc = "idle" /\ strand'[s].pc = "check" /\ UNCHANGED <<rxq, cb, obuf, busy>>
    BY <1>12 DEF hcall_store, Idle, Base, TypeInv, StrandTypes, ctlVars
  <2> QED BY <1>1, <2>1 DEF InFlight
<1>5. CASE notify_take(s)
  <2>1. /\ \A t \in Strands : t # s => strand'[t] = strand[t]
        /\ strand[s].pc = "ntake" /\ strand'[s].pc = "nsend" /\ UNCHANGED <<rxq, cb, obuf, busy>>
    BY <1>5 DEF notify_take, Step, Base, TypeInv, StrandTypes, ctlVars
  <2> QED BY <1>1, <2>1 DEF InFlight
<1>6. CASE hcall_data(s)
  <2>1. /\ \A t \in Strands : t # s => strand'[t] = strand[t]
        /\ strand[s].pc = "data" /\ strand'[s].pc = "hsend" /\ strand'[s].info = strand[s].info
        /\ UNCHANGED <<rxq, cb, obuf, busy>>
    BY <1>6 DEF hcall_data, Step, Base, TypeInv, StrandTypes, ctlVars
  <2> QED BY <1>1, <2>1 DEF InFlight
<1>7. CASE notify_capture(s)
  <2>1. /\ \A t \in Strands : t # s => strand'[t] = strand[t]
        /\ strand[s].pc = "notify" /\ strand'[s].pc = "ntake" /\ UNCHANGED <<rxq, cb, obuf>>
        /\ ~busy[GuestOf[s]]["state"] /\ busy' = [busy EXCEPT ![GuestOf[s]]["state"] = TRUE]
    BY <1>7 DEF notify_capture, Base, TypeInv, StrandTypes, ctlVars
  <2>2. ~InFlight(s, k) /\ (InFlight(s, k)' <=> GuestOf[s] = k[1] /\ k[2] = "state")
    BY <2>1 DEF InFlight
  <2>3. /\ InFlight(s, k)' => ~Busy(k) /\ Busy(k)'
        /\ ~InFlight(s, k)' => (Busy(k)' <=> Busy(k))
    BY <1>g, <2>1, <2>2 DEF Busy, Base, TypeInv, GuestTypes
  <2> QED BY <2>1, <2>2, <2>3, CapCapture
<1>8. CASE hcall_build(s)
  <2>1. /\ \A t \in Strands : t # s => strand'[t] = strand[t]
        /\ strand[s].pc = "check" /\ strand'[s].pc = "data" /\ strand'[s].info = strand[s].info
        /\ UNCHANGED <<rxq, cb, obuf>>
        /\ ~busy[GuestOf[s]][strand[s].info] /\ busy' = [busy EXCEPT ![GuestOf[s]][strand[s].info] = TRUE]
    BY <1>8 DEF hcall_build, Step, Base, TypeInv, StrandTypes, ctlVars
  <2>2. ~InFlight(s, k) /\ (InFlight(s, k)' <=> GuestOf[s] = k[1] /\ k[2] = strand[s].info)
    BY <2>1 DEF InFlight
  <2>3. /\ InFlight(s, k)' => ~Busy(k) /\ Busy(k)'
        /\ ~InFlight(s, k)' => (Busy(k)' <=> Busy(k))
    BY <1>g, <2>1, <2>2 DEF Busy, Base, TypeInv, GuestTypes
  <2> QED BY <2>1, <2>2, <2>3, CapCapture
<1>9. CASE notify_send(s)
  <2> DEFINE m == Notice(<<GuestOf[s], "state">>, strand[s].val)
  <2>1. /\ \A t \in Strands : t # s => strand'[t] = strand[t]
        /\ strand[s].pc = "nsend" /\ strand'[s].pc = "idle" /\ UNCHANGED <<cb, obuf, busy>> /\ hv_ldc_send_pkt(m)
    BY <1>9 DEF notify_send, notify_return, Idle, Base, TypeInv, StrandTypes, ctlVars
  <2>2. strand[s].val \in AllValues /\ <<GuestOf[s], "state">> \in Keys
    BY <1>g DEF Base, TypeInv, StrandTypes, Keys
  <2>3. m \in Messages /\ m.kind = "notice" /\ m.key = <<GuestOf[s], "state">>
    BY <2>2, MessageFacts DEF Notice
  <2>4. InFlight(s, k) <=> m.key = k
    <3>1. InFlight(s, k) <=> GuestOf[s] = k[1] /\ k[2] = "state"
      BY <2>1 DEF InFlight
    <3>2. k = <<k[1], k[2]>>
      BY NoTodFacts
    <3> QED BY <3>1, <3>2, <2>3
  <2>5. ~InFlight(s, k)'
    BY <2>1 DEF InFlight
  <2> HIDE DEF m
  <2> QED BY <1>g, <2>1, <2>3, <2>4, <2>5, CapSend DEF Base
<1>10. CASE hcall_send(s)
  <2> DEFINE m == Notice(<<GuestOf[s], asyncBuf[GuestOf[s]].info>>, asyncBuf[GuestOf[s]].val)
  <2>1. /\ \A t \in Strands : t # s => strand'[t] = strand[t]
        /\ strand[s].pc = "hsend" /\ strand'[s].pc = "idle" /\ UNCHANGED <<cb, obuf, busy>> /\ hv_ldc_send_pkt(m)
    BY <1>10 DEF hcall_send, hcall_return, Idle, Base, TypeInv, StrandTypes, ctlVars
  <2>2. asyncBuf[GuestOf[s]].info = strand[s].info /\ asyncBuf[GuestOf[s]].val \in AllValues
    BY <1>g, <2>1 DEF Base, TypeInv, GuestTypes, BufInv
  <2>3. m \in Messages /\ m.kind = "notice" /\ m.key = <<GuestOf[s], strand[s].info>>
    <3>1. <<GuestOf[s], strand[s].info>> \in Keys
      BY <1>g DEF Keys
    <3> QED BY <2>2, <3>1, MessageFacts DEF Notice
  <2>4. InFlight(s, k) <=> m.key = k
    <3>1. InFlight(s, k) <=> GuestOf[s] = k[1] /\ k[2] = strand[s].info
      BY <2>1 DEF InFlight
    <3>2. k = <<k[1], k[2]>>
      BY NoTodFacts
    <3> QED BY <3>1, <3>2, <2>3
  <2>5. ~InFlight(s, k)'
    BY <2>1 DEF InFlight
  <2> HIDE DEF m
  <2> QED BY <1>g, <2>1, <2>3, <2>4, <2>5, CapSend DEF Base
<1> QED BY <1>2, <1>3, <1>4, <1>5, <1>6, <1>7, <1>8, <1>9, <1>10, <1>11, <1>12

LEMMA NextCap == NoTod /\ Base /\ BufInv /\ CapInv /\ [Next]_vars => CapInv'
<1> SUFFICES ASSUME NoTod, Base, BufInv, [Next]_vars, NEW k \in Keys, Cap(k) PROVE Cap(k)'
  BY DEF CapInv
<1>1. ASSUME UNCHANGED <<rxq, strand, busy>>, Answering(k) => Answering(k)' PROVE Cap(k)'
  <2>1. (\A s \in Strands : InFlight(s, k)' <=> InFlight(s, k)) /\ (Busy(k)' <=> Busy(k))
    BY <1>1 DEF InFlight, Busy
  <2> QED BY <1>1, <2>1, CapFrame
<1>2. CASE UNCHANGED vars
  BY <1>1, <1>2 DEF vars, guestVars, ctlVars, Answering
<1>3. CASE hv_control_pkt \/ op_guest_start \/ get_guest_status
  BY <1>1, <1>3 DEF hv_control_pkt, op_guest_start, get_guest_status, Executes, guestVars, Answering
<1>4. CASE \/ zeus_connect \/ (\E q \in Keys : zeus_query(q)) \/ zeus_start
           \/ \E op \in Ops, q \in Keys : zeus_command(op, q)
           \/ \E op \in {"hello", "response", "get_res_stat"}, skip, good \in BOOLEAN : zeus_stray(op, skip, good)
  <2>1. ASSUME NEW p, NEW session, Hand(p, session) PROVE Cap(k)'
    BY <1>1, <2>1 DEF Hand, guestVars, Answering
  <2>2. CASE zeus_start
    BY <1>1, <2>2 DEF zeus_start, guestVars, ctlVars, Answering
  <2> QED BY <1>4, <2>1, <2>2 DEF zeus_connect, zeus_query, zeus_command, zeus_stray
<1>5. CASE Next
  BY <1>3, <1>4, <1>5, Cases, StrandCap, CapQueried, CapAnswer, CapRead, CapReset
<1> QED BY <1>2, <1>5

LEMMA NextBuf == NoTod /\ Base /\ BufInv /\ [Next]_vars => BufInv'
<1> SUFFICES ASSUME NoTod, Base, BufInv, [Next]_vars PROVE BufInv'
  OBVIOUS
<1>t. /\ strand \in [Strands -> [pc : {"idle", "notify", "ntake", "nsend", "exit", "check", "data", "hsend"},
                                 role : {"guest", "launch", "exit", "reset"}, info : Infos, val : AllValues]]
      /\ asyncBuf \in [Guests -> [info : Infos, val : AllValues]]
  BY DEF Base, TypeInv, StrandTypes, GuestTypes
<1>1. ASSUME UNCHANGED <<strand, asyncBuf>> PROVE BufInv'
  BY <1>1 DEF BufInv
<1>2. CASE UNCHANGED vars
  BY <1>1, <1>2 DEF vars, guestVars
<1>3. CASE hv_control_pkt \/ op_guest_start \/ get_guest_status \/ get_guest_status_end \/ svc_reply
  BY <1>1, <1>3 DEF hv_control_pkt, op_guest_start, get_guest_status, get_guest_status_end, svc_reply, guestVars
<1>4. CASE \/ zeus_connect \/ (\E q \in Keys : zeus_query(q)) \/ zeus_read \/ zeus_start \/ zeus_reset
           \/ \E op \in Ops, q \in Keys : zeus_command(op, q)
           \/ \E op \in {"hello", "response", "get_res_stat"}, skip, good \in BOOLEAN : zeus_stray(op, skip, good)
  <2>1. ASSUME NEW p, NEW session, Hand(p, session) PROVE BufInv'
    BY <1>1, <2>1 DEF Hand, guestVars
  <2>2. CASE zeus_read \/ zeus_start \/ zeus_reset
    BY <1>1, <2>2 DEF zeus_read, zeus_start, zeus_reset, guestVars
  <2> QED BY <1>4, <2>1, <2>2 DEF zeus_connect, zeus_query, zeus_command, zeus_stray
<1>5. ASSUME NEW s \in Strands,
             \/ launch_boot_cpu(s) \/ exit_end(s)
             \/ notify_busy(s) \/ notify_capture(s) \/ notify_take(s) \/ notify_send(s)
             \/ hcall_busy(s) \/ hcall_build(s) \/ hcall_data(s) \/ hcall_send(s)
             \/ \E role \in {"exit", "reset"} : exit_begin(s, role)
             \/ \E i \in HcallInfos : \E v \in Values(i) : hcall_store(s, i, v)
      PROVE  BufInv'
  <2>g. GuestOf[s] \in Guests
    BY GuestOfType
  (* Another strand at work on the buffer of the same guest would hold the *)
  (* same lock.                                                            *)
  <2>0. \A t \in Strands : t # s /\ GuestOf[t] = GuestOf[s] /\ strand[t].pc \in {"data", "hsend"} =>
          strand[s].pc \notin {"check", "data", "hsend"}
    <3>1. StrandLocks(s) /\ \A t \in Strands : StrandLocks(t)
      BY DEF Base, LockInv
    <3>2. \A t \in Strands : strand[t].pc \in {"check", "data", "hsend"} =>
            asyncLock[GuestOf[t]]["soft_state"] = t
      BY <3>1, NoTodFacts, InfoFacts DEF StrandLocks
    <3> QED BY <3>2
  <2>1. ASSUME \A t \in Strands : t # s => strand'[t] = strand[t], UNCHANGED asyncBuf,
               strand'[s].pc \notin {"data", "hsend"}
        PROVE  BufInv'
    BY <2>1 DEF BufInv
  <2>2. CASE launch_boot_cpu(s) \/ exit_end(s)
    <3>1. CASE launch_boot_cpu(s)
      BY <2>1, <3>1, <1>t DEF launch_boot_cpu, Idle
    <3>2. CASE exit_end(s)
      BY <2>1, <3>2, <1>t DEF exit_end, Step
    <3> QED BY <2>2, <3>1, <3>2
  <2>8. ASSUME NEW role \in {"exit", "reset"}, exit_begin(s, role) PROVE BufInv'
    BY <2>1, <2>8, <1>t DEF exit_begin, Idle
  <2>3. CASE notify_busy(s) \/ notify_capture(s) \/ notify_take(s) \/ notify_send(s)
    <3>1. /\ \A t \in Strands : t # s => strand'[t] = strand[t]
          /\ strand'[s].pc \notin {"data", "hsend"} /\ UNCHANGED asyncBuf
      BY <2>3, <1>t DEF notify_busy, notify_capture, notify_take, notify_send, notify_return, Step, Idle
    <3> QED BY <2>1, <3>1
  <2>4. CASE hcall_busy(s)
    BY <2>1, <2>4, <1>t DEF hcall_busy, hcall_return, Idle
  <2>9. ASSUME NEW i \in HcallInfos, NEW v \in Values(i), hcall_store(s, i, v) PROVE BufInv'
    BY <2>1, <2>9, <1>t DEF hcall_store, Idle
  <2>5. CASE hcall_build(s)
    <3>1. /\ \A t \in Strands : t # s => strand'[t] = strand[t]
          /\ strand[s].pc = "check" /\ strand'[s].info = strand[s].info
          /\ \A h \in Guests : h # GuestOf[s] => asyncBuf'[h] = asyncBuf[h]
          /\ asyncBuf'[GuestOf[s]].info = strand[s].info
      BY <2>5, <2>g, <1>t DEF hcall_build, Step
    <3> QED BY <2>0, <3>1, GuestOfType DEF BufInv
  <2>6. CASE hcall_data(s)
    <3>1. /\ \A t \in Strands : t # s => strand'[t] = strand[t]
          /\ strand[s].pc = "data" /\ strand'[s].info = strand[s].info
          /\ \A h \in Guests : asyncBuf'[h].info = asyncBuf[h].info
      BY <2>6, <2>g, <1>t DEF hcall_data, Step
    <3> QED BY <3>1, GuestOfType DEF BufInv
  <2>7. CASE hcall_send(s)
    <3>1. /\ \A t \in Strands : t # s => strand'[t] = strand[t]
          /\ strand[s].pc = "hsend" /\ strand'[s].pc = "idle"
          /\ \A h \in Guests : h # GuestOf[s] => asyncBuf'[h] = asyncBuf[h]
      BY <2>7, <2>g, <1>t DEF hcall_send, hcall_return, Idle
    <3> QED BY <2>0, <3>1, GuestOfType DEF BufInv
  <2> QED BY <1>5, <2>2, <2>3, <2>4, <2>5, <2>6, <2>7, <2>8, <2>9
<1>6. CASE Next
  BY <1>3, <1>4, <1>5, <1>6, Cases
<1> QED BY <1>2, <1>6

LEMMA InitCap == Init => CapInv /\ BufInv
<1> SUFFICES ASSUME Init PROVE CapInv /\ BufInv
  OBVIOUS
<1>1. rxq = <<>> /\ \A s \in Strands : strand[s].pc = "idle"
  BY DEF Init, Idle
<1>2. DOMAIN rxq = {}
  BY <1>1
<1>3. ASSUME NEW k \in Keys PROVE Counted(k, 0, Nobody)
  BY <1>1, <1>2 DEF Counted, OldNotice, OldSender, AtMostOne, InFlight
<1> QED BY <1>1, <1>3 DEF CapInv, Cap, BufInv

-----------------------------------------------------------------------------
(* Room for one notification of every value, one more and an answer.       *)
Provisioned == NoTod /\ IsFiniteSet(Guests) /\ QLEN >= Cardinality(Keys) + 3

(* At most one key is being answered.                                      *)
LEMMA OneAnswer ==
  ASSUME Base, NEW k \in Keys, NEW l \in Keys,
         Answering(k) \/ \E p \in DOMAIN rxq : AnswerAt(p, k),
         Answering(l) \/ \E p \in DOMAIN rxq : AnswerAt(p, l)
  PROVE  k = l
  BY DEF Base, ReplyInv, Answering, AnswerAt

(* The places of Zeus's queue, but one, and what takes them.               *)
Old == <<NoKey[1], "old">>
Rep == <<NoKey[1], "reply">>
Slots == Keys \cup {Old, Rep}

LEMMA SlotFacts ==
  ASSUME Provisioned
  PROVE  /\ Old # Rep /\ Old \notin Keys /\ Rep \notin Keys
         /\ IsFiniteSet(Slots) /\ Cardinality(Slots) \in Nat /\ Cardinality(Slots) <= QLEN - 1
<1>1. Old # Rep /\ Old \notin Keys /\ Rep \notin Keys
  BY InfoFacts DEF Old, Rep, Keys
<1>2. IsFiniteSet(Keys) /\ Cardinality(Keys) \in Nat
  <2>1. IsFiniteSet({"state", "soft_state"})
    <3>1. IsFiniteSet({"state"})
      BY FS_Singleton
    <3>2. IsFiniteSet({"state"} \cup {"soft_state"})
      BY <3>1, FS_AddElement
    <3>3. {"state", "soft_state"} = {"state"} \cup {"soft_state"}
      OBVIOUS
    <3> QED BY <3>2, <3>3
  <2>2. IsFiniteSet(Infos)
    BY <2>1, FS_Subset, NoTodFacts DEF Provisioned
  <2> QED BY <2>2, FS_Product, FS_CardinalityType DEF Provisioned, Keys
<1>3. IsFiniteSet(Keys \cup {Old}) /\ Cardinality(Keys \cup {Old}) = Cardinality(Keys) + 1
  BY <1>1, <1>2, FS_AddElement
<1>4. IsFiniteSet((Keys \cup {Old}) \cup {Rep}) /\ Cardinality((Keys \cup {Old}) \cup {Rep}) = Cardinality(Keys) + 1 + 1
  BY <1>1, <1>3, FS_AddElement
<1>5. Slots = (Keys \cup {Old}) \cup {Rep}
  BY DEF Slots
<1>6. Cardinality(Slots) = Cardinality(Keys) + 1 + 1 /\ IsFiniteSet(Slots)
  BY <1>4, <1>5
<1>7. QLEN >= Cardinality(Keys) + 3 /\ QLEN \in Nat
  BY BoundsAreNat DEF Provisioned
<1> QED BY <1>1, <1>2, <1>6, <1>7

(* With a place of its own for each packet, and one left, the queue is not *)
(* full.                                                                   *)
LEMMA PlaceLeft ==
  ASSUME Provisioned, TypeInv, NEW f \in [1 .. Len(rxq) -> Slots], NEW x \in Slots,
         \A n \in 1 .. Len(rxq) : f[n] # x,
         \A n, m \in 1 .. Len(rxq) : f[n] = f[m] => n = m
  PROVE  ~Full
<1> DEFINE D == 1 .. Len(rxq)
           T == Slots \ {x}
<1>1. Len(rxq) \in Nat
  BY QueueFacts
<1>2. IsFiniteSet(T) /\ Cardinality(T) = Cardinality(Slots) - 1
  BY SlotFacts, FS_RemoveElement
<1>3. f \in Injection(D, T)
  BY DEF Injection, IsInjective
<1>4. Cardinality(D) <= Cardinality(T)
  BY <1>2, <1>3, FS_Injection
<1>5. Cardinality(D) = Len(rxq)
  <2>1. Cardinality(D) = IF 1 > Len(rxq) THEN 0 ELSE Len(rxq) - 1 + 1
    BY <1>1, FS_Interval
  <2> QED BY <1>1, <2>1
<1> HIDE DEF D, T
<1>6. Len(rxq) <= Cardinality(Slots) - 1
  BY <1>2, <1>4, <1>5
<1> QED BY <1>1, <1>6, SlotFacts, BoundsAreNat DEF Full

(* Each packet in the queue has a place: the reply, the first of two       *)
(* notifications of the key being answered, and one for each key.  What is *)
(* about to be sent has one too.                                           *)
LEMMA CapIsRoom ==
  ASSUME Provisioned, Base, CapInv
  PROVE  RoomForAll
<1>1. PICK A \in [Keys -> Nat] : \A k \in Keys : \E b \in Strands \cup {Nobody} : Counted(k, A[k], b)
  <2> DEFINE A == [k \in Keys |-> CHOOSE a \in Nat : \E b \in Strands \cup {Nobody} : Counted(k, a, b)]
  <2>1. ASSUME NEW k \in Keys PROVE A[k] \in Nat /\ \E b \in Strands \cup {Nobody} : Counted(k, A[k], b)
    <3>1. \E a \in Nat : \E b \in Strands \cup {Nobody} : Counted(k, a, b)
      BY DEF CapInv, Cap
    <3>2. A[k] = CHOOSE a \in Nat : \E b \in Strands \cup {Nobody} : Counted(k, a, b)
      OBVIOUS
    <3> HIDE DEF A
    <3> QED BY <3>1, <3>2
  <2>2. A \in [Keys -> Nat]
    BY <2>1
  <2> HIDE DEF A
  <2> QED BY <2>1, <2>2
<1>q. /\ DOMAIN rxq = 1 .. Len(rxq) /\ Len(rxq) \in Nat
      /\ \A n \in DOMAIN rxq : n \in Nat /\ n # 0 /\ rxq[n] \in Messages
  BY QueueFacts DEF Base
<1>k. \A n \in DOMAIN rxq : rxq[n].key \in Keys /\ rxq[n].kind \in {"reply", "notice"}
  BY <1>q DEF Messages
<1>2. \A k \in Keys : A[k] # 0 => Answering(k) \/ \E p \in DOMAIN rxq : AnswerAt(p, k)
  BY <1>1 DEF Counted, OldNotice
<1>3. \A k, l \in Keys : A[k] # 0 /\ A[l] # 0 => k = l
  BY <1>2, OneAnswer
<1>4. \A k \in Keys, n, m \in DOMAIN rxq : NoticeAt(n, k) /\ NoticeAt(m, k) /\ n # A[k] /\ m # A[k] => n = m
  BY <1>1 DEF Counted, AtMostOne
<1> DEFINE f == [n \in 1 .. Len(rxq) |->
                   IF rxq[n].kind = "reply" THEN Rep
                   ELSE IF n = A[rxq[n].key] THEN Old ELSE rxq[n].key]
<1>5. \A n \in DOMAIN rxq :
        /\ f[n] \in Slots
        /\ rxq[n].kind = "reply" => f[n] = Rep
        /\ rxq[n].kind = "notice" /\ n = A[rxq[n].key] => f[n] = Old
        /\ rxq[n].kind = "notice" /\ n # A[rxq[n].key] => f[n] = rxq[n].key
  BY <1>q, <1>k DEF Slots
<1>6. f \in [1 .. Len(rxq) -> Slots]
  BY <1>5, <1>q
<1> HIDE DEF f
<1>s. Old # Rep /\ Old \notin Keys /\ Rep \notin Keys
  BY SlotFacts
<1>7. ASSUME NEW n \in DOMAIN rxq, NEW m \in DOMAIN rxq, f[n] = f[m] PROVE n = m
  <2>1. CASE rxq[n].kind = "reply"
    <3>1. rxq[m].kind = "reply"
      BY <1>7, <2>1, <1>5, <1>s, <1>k
    <3> QED BY <2>1, <3>1 DEF Base, ReplyInv
  <2>2. CASE rxq[n].kind = "notice" /\ n = A[rxq[n].key]
    <3>1. rxq[m].kind = "notice" /\ m = A[rxq[m].key]
      BY <1>7, <2>2, <1>5, <1>s, <1>k
    <3> QED BY <2>2, <3>1, <1>3, <1>k, <1>q
  <2>3. CASE rxq[n].kind = "notice" /\ n # A[rxq[n].key]
    <3>1. rxq[m].kind = "notice" /\ m # A[rxq[m].key] /\ rxq[m].key = rxq[n].key
      BY <1>7, <2>3, <1>5, <1>s, <1>k
    <3> QED BY <2>3, <3>1, <1>4, <1>k DEF NoticeAt
  <2> QED BY <2>1, <2>2, <2>3, <1>k
<1>8. ASSUME NEW x \in Slots, \A n \in DOMAIN rxq : f[n] # x PROVE ~Full
  BY <1>6, <1>7, <1>8, <1>q, PlaceLeft DEF Base
<1>9. ASSUME cb = "send" PROVE ~Full
  <2>1. \A n \in DOMAIN rxq : rxq[n].kind = "notice"
    BY <1>9, <1>k DEF Base, ReplyInv
  <2>2. \A n \in DOMAIN rxq : f[n] # Rep
    BY <2>1, <1>5, <1>s, <1>k
  <2> QED BY <2>2, <1>8 DEF Slots
<1>10. ASSUME NEW s \in Strands, strand[s].pc \in {"nsend", "hsend"} PROVE ~Full
  <2> DEFINE k == IF strand[s].pc = "nsend" THEN <<GuestOf[s], "state">> ELSE <<GuestOf[s], strand[s].info>>
  <2>1. k \in Keys /\ InFlight(s, k)
    <3>1. GuestOf[s] \in Guests /\ "state" \in Infos /\ strand[s].info \in Infos
      BY GuestOfType, InfoFacts DEF Base, TypeInv, StrandTypes
    <3> QED BY <1>10, <3>1 DEF Keys, InFlight
  <2> HIDE DEF k
  <2>2. PICK b \in Strands \cup {Nobody} : Counted(k, A[k], b)
    BY <2>1, <1>1
  <2>3. CASE b = s
    <3>0. s # Nobody
      BY LockHolders
    <3>1. A[k] = 0 /\ Answering(k)
      BY <2>2, <2>3, <3>0 DEF Counted, OldSender, AtMostOne
    <3>2. \A l \in Keys : A[l] = 0
      <4> SUFFICES ASSUME NEW l \in Keys, A[l] # 0 PROVE FALSE
        OBVIOUS
      <4>1. l = k
        BY <1>2, <2>1, <3>1, OneAnswer
      <4> QED BY <3>1, <4>1
    <3>3. \A n \in DOMAIN rxq : f[n] # Old
      BY <3>2, <1>5, <1>s, <1>k, <1>q
    <3> QED BY <3>3, <1>8 DEF Slots
  <2>4. CASE b # s
    <3>1. \A n \in DOMAIN rxq : NoticeAt(n, k) => n = A[k]
      BY <2>1, <2>2, <2>4 DEF Counted, AtMostOne
    <3>2. \A n \in DOMAIN rxq : f[n] # k
      BY <2>1, <3>1, <1>5, <1>s, <1>k DEF NoticeAt
    <3> QED BY <2>1, <3>2, <1>8 DEF Slots
  <2> QED BY <2>3, <2>4
<1> QED BY <1>9, <1>10 DEF RoomForAll

(* The time of day, which every guest also has, left out: with room for    *)
(* one notification of every other value, one more and the answer, a       *)
(* manager that keeps one command outstanding loses no notification to a   *)
(* full queue, and hvctl_svc_callback never waits for the strand that it   *)
(* runs on, whatever the number of guests and strands and however queries  *)
(* re-arm notifications that are on their way.                             *)
THEOREM QueueHasRoom ==
  ASSUME Provisioned
  PROVE  Spec => []RoomForAll
<1>1. Base /\ CapInv => RoomForAll
  BY CapIsRoom
<1>2. NoTod
  BY DEF Provisioned
<1>3. Base /\ BufInv /\ CapInv /\ [Next]_vars => CapInv' /\ BufInv'
  BY <1>2, NextCap, NextBuf
<1> QED BY <1>1, <1>3, InitCap, BaseInvariant, PTL DEF Spec

-----------------------------------------------------------------------------
(* What the manager knows.  It will ask for k: k is owed, a notification   *)
(* of k is on its way, or a query of k has been handed over.               *)
Querying(k) == cb = "pkt" /\ ibuf.op = "get_res_stat" /\ ibuf.key = k
Reading(k)  == cb = "stat" /\ ibuf.key = k
Asked(k) ==
  \/ k \in owed \/ Querying(k)
  \/ \E n \in DOMAIN rxq : NoticeAt(n, k)
  \/ \E s \in Strands : InFlight(s, k)

(* The value of k is on its way to it in an answer.                        *)
InAnswer(k) == Reading(k) \/ Answering(k) \/ \E p \in DOMAIN rxq : AnswerAt(p, k)

(* A strand of the guest is about to see whether it must notify: of the    *)
(* state, at the end of a launch or an exit, or of another value, in a     *)
(* hypercall.  A launch resets the other values; Zeus asks for them after  *)
(* the state.                                                              *)
StateKey(k) == <<k[1], "state">>
Pending(g) == g \in launch \/ \E s \in Strands : GuestOf[s] = g /\ strand[s].pc \in {"exit", "notify"}
Checks(k)  == \E s \in Strands : GuestOf[s] = k[1] /\ strand[s].pc = "check" /\ strand[s].info = k[2]
StateAsked(k) == Pending(k[1]) \/ Asked(StateKey(k)) \/ InAnswer(StateKey(k))
Stir(k) == IF k[2] = "state" THEN Pending(k[1]) ELSE StateAsked(k) \/ Checks(k)

(* What it knows of k, or is about to read in an answer, is the value.     *)
ValueOf(k) == val[k[1]][k[2]]
Current(k) ==
  /\ Reading(k) \/ Answering(k) => obuf.val = ValueOf(k)
  /\ \A p \in DOMAIN rxq : AnswerAt(p, k) => rxq[p].val = ValueOf(k)
  /\ ~InAnswer(k) => know[k] = ValueOf(k)

(* While a session is up, a busy value is one the manager will ask for or  *)
(* whose query is about to clear the flag, and a value it will not ask for *)
(* and nobody is about to notify is known.                                 *)
KeyInv(k) ==
  zeus.session = "up" =>
    /\ Busy(k) => Asked(k) \/ Reading(k)
    /\ Asked(k) \/ Stir(k) \/ Current(k)
KeysInv == \A k \in Keys : KeyInv(k)

(* Queries of a session are executed, and its manager has a queue.         *)
IsOk(r) == r.op = "get_res_stat" => r.st = "ok"
AnswerOk ==
  /\ zeus.session # "none" => zeus.up
  /\ zeus.session = "up" /\ cb = "send" => IsOk(obuf)
  /\ zeus.session = "up" => \A p \in DOMAIN rxq : rxq[p].kind = "reply" => IsOk(rxq[p])
  /\ know \in [Keys -> AllValues]

-----------------------------------------------------------------------------
(* How a step keeps what the manager knows of k.                           *)
LEMMA KeyKept ==
  ASSUME NEW k \in Keys, KeyInv(k), zeus.session = "up",
         Asked(k) => Asked(k)', Reading(k) => Reading(k)' \/ ~Busy(k)',
         Busy(k)' => Busy(k) \/ Asked(k)',
         k[2] = "state" /\ Pending(k[1]) => Pending(k[1])' \/ Asked(k)',
         k[2] # "state" /\ StateAsked(k) => StateAsked(k)' \/ Asked(k)',
         k[2] # "state" /\ Checks(k) => Checks(k)' \/ Asked(k)',
         Current(k) => Current(k)' \/ Stir(k)' \/ Asked(k)'
  PROVE  KeyInv(k)'
  BY DEF KeyInv, Stir

LEMMA StateKeyFacts ==
  ASSUME NEW k \in Keys
  PROVE  /\ StateKey(k) \in Keys /\ StateKey(k)[1] = k[1] /\ StateKey(k)[2] = "state" /\ StateKey(k)' = StateKey(k)
         /\ k[2] = "state" => StateKey(k) = k
  BY InfoFacts DEF StateKey, Keys

(* A step of strand s: the queue is as it was but for a notification that  *)
(* s may have sent.                                                        *)
QueueKept ==
  /\ \A n \in DOMAIN rxq : n \in DOMAIN rxq' /\ rxq'[n] = rxq[n]
  /\ \A n \in DOMAIN rxq' : n \in DOMAIN rxq \/ rxq'[n].kind = "notice"
StrandOnly(s) ==
  /\ \A t \in Strands : t # s => strand'[t] = strand[t]
  /\ UNCHANGED <<cb, ibuf, obuf, zeus, know, owed>>
  /\ QueueKept

LEMMA StrandFrame ==
  ASSUME NEW k \in Keys, NEW s \in Strands, StrandOnly(s), InFlight(s, k) => Asked(k)'
  PROVE  /\ Asked(k) => Asked(k)'
         /\ Reading(k)' <=> Reading(k)
         /\ Answering(k)' <=> Answering(k)
         /\ \A n \in DOMAIN rxq : n \in DOMAIN rxq' /\ rxq'[n] = rxq[n] /\ (AnswerAt(n, k)' <=> AnswerAt(n, k))
         /\ \A n \in DOMAIN rxq' : AnswerAt(n, k)' => n \in DOMAIN rxq
         /\ InAnswer(k)' <=> InAnswer(k)
<1>1. \A n \in DOMAIN rxq : /\ n \in DOMAIN rxq' /\ rxq'[n] = rxq[n]
                            /\ NoticeAt(n, k)' <=> NoticeAt(n, k)
                            /\ AnswerAt(n, k)' <=> AnswerAt(n, k)
  BY DEF StrandOnly, QueueKept, NoticeAt, AnswerAt
<1>2. \A n \in DOMAIN rxq' : AnswerAt(n, k)' => n \in DOMAIN rxq
  BY DEF StrandOnly, QueueKept, AnswerAt
<1>3. \A t \in Strands : t # s => (InFlight(t, k)' <=> InFlight(t, k))
  BY DEF StrandOnly, InFlight
<1>4. UNCHANGED <<cb, ibuf, obuf, owed>>
  BY DEF StrandOnly
<1>5. (Reading(k)' <=> Reading(k)) /\ (Answering(k)' <=> Answering(k)) /\ (Querying(k)' <=> Querying(k))
  BY <1>4 DEF Reading, Answering, Querying
<1>6. Asked(k) => Asked(k)'
  BY <1>1, <1>3, <1>4, <1>5 DEF Asked
<1>7. InAnswer(k)' <=> InAnswer(k)
  BY <1>1, <1>2, <1>5 DEF InAnswer
<1> QED BY <1>1, <1>2, <1>5, <1>6, <1>7

LEMMA StrandKey ==
  ASSUME NEW k \in Keys, NEW s \in Strands, KeyInv(k), zeus.session = "up", StrandOnly(s),
         InFlight(s, k) => Asked(k)',
         InFlight(s, StateKey(k)) => Asked(StateKey(k))',
         Busy(k)' => Busy(k) \/ Asked(k)',
         Pending(k[1]) => Pending(k[1])' \/ Asked(StateKey(k))',
         GuestOf[s] = k[1] /\ strand[s].pc = "check" /\ strand[s].info = k[2] => Checks(k)' \/ Asked(k)',
         ValueOf(k)' = ValueOf(k) \/ Stir(k)' \/ Asked(k)'
  PROVE  KeyInv(k)'
<1>k. StateKey(k) \in Keys /\ (k[2] = "state" => StateKey(k) = k) /\ StateKey(k)' = StateKey(k)
  BY StateKeyFacts
<1>1. /\ Asked(k) => Asked(k)'
      /\ Reading(k) => Reading(k)'
      /\ Asked(StateKey(k)) => Asked(StateKey(k))'
      /\ InAnswer(StateKey(k)) => InAnswer(StateKey(k))'
  <2>1. PICK q \in Keys : q = StateKey(k)
    BY <1>k
  <2>2. (InFlight(s, q) => Asked(q)')
    BY <2>1
  <2>3. (Asked(q) => Asked(q)') /\ (InAnswer(q) => InAnswer(q)')
    BY <2>2, StrandFrame
  <2>4. (Asked(k) => Asked(k)') /\ (Reading(k) => Reading(k)')
    BY StrandFrame
  <2> QED BY <2>1, <2>3, <2>4, <1>k
<1>2. k[2] = "state" /\ Pending(k[1]) => Pending(k[1])' \/ Asked(k)'
  BY <1>k
<1>3. StateAsked(k) => StateAsked(k)'
  BY <1>1, <1>k DEF StateAsked
<1>4. Checks(k) => Checks(k)' \/ Asked(k)'
  BY DEF Checks, StrandOnly
<1>5. ValueOf(k)' = ValueOf(k) /\ Current(k) => Current(k)'
  <2>1. UNCHANGED <<obuf, know>>
    BY DEF StrandOnly
  <2> QED BY <2>1, StrandFrame DEF Current
<1> QED BY <1>1, <1>2, <1>3, <1>4, <1>5, KeyKept

LEMMA PendingStirs ==
  ASSUME NEW k \in Keys, Pending(k[1])'
  PROVE  Stir(k)'
  BY DEF Stir, StateAsked

LEMMA PendingFrame ==
  ASSUME NEW g \in Guests, NEW s \in Strands, StrandOnly(s), launch \subseteq launch' \cup {GuestOf[s]},
         g = GuestOf[s] /\ (strand[s].pc \in {"exit", "notify"} \/ g \notin launch') =>
           strand'[s].pc \in {"exit", "notify"}
  PROVE  Pending(g) => Pending(g)'
  BY DEF Pending, StrandOnly

LEMMA StrandKeys ==
  ASSUME NoTod, Base, BufInv, KeysInv, RoomForAll, AnswerOk, zeus.session = "up", NEW k \in Keys, NEW s \in Strands,
         \/ launch_boot_cpu(s) \/ exit_end(s)
         \/ notify_busy(s) \/ notify_capture(s) \/ notify_take(s) \/ notify_send(s)
         \/ hcall_busy(s) \/ hcall_build(s) \/ hcall_data(s) \/ hcall_send(s)
         \/ \E role \in {"exit", "reset"} : exit_begin(s, role)
         \/ \E i \in HcallInfos : \E v \in Values(i) : hcall_store(s, i, v)
  PROVE  KeyInv(k)'
<1> DEFINE g == GuestOf[s]
<1>g. /\ g \in Guests /\ strand[s].info \in Infos /\ "state" \in Infos /\ k[1] \in Guests /\ k[2] \in Infos
      /\ s # Nobody /\ s # Control /\ KeyInv(k) /\ k = <<k[1], k[2]>>
  BY GuestOfType, InfoFacts, NoTodFacts, LockHolders DEF Base, TypeInv, StrandTypes, KeysInv
<1>t. /\ strand \in [Strands -> [pc : {"idle", "notify", "ntake", "nsend", "exit", "check", "data", "hsend"},
                                 role : {"guest", "launch", "exit", "reset"}, info : Infos, val : AllValues]]
      /\ val \in [Guests -> [Infos -> AllValues]] /\ busy \in [Guests -> [Infos -> BOOLEAN]]
      /\ launch \subseteq Guests
  BY DEF Base, TypeInv, StrandTypes, GuestTypes
<1>k. PICK l \in Keys : l = StateKey(k) /\ l[1] = k[1] /\ l[2] = "state" /\ l = <<k[1], "state">>
  BY StateKeyFacts DEF StateKey
<1>l. StateKey(k) = l /\ StateKey(k)' = l
  BY <1>k, StateKeyFacts
<1>1. ASSUME \A t \in Strands : t # s => strand'[t] = strand[t], UNCHANGED <<ctlVars, rxq, zeusVars>> PROVE StrandOnly(s)
  BY <1>1 DEF StrandOnly, QueueKept, ctlVars, zeusVars
<1>2. CASE launch_boot_cpu(s)
  <2>1. /\ StrandOnly(s) /\ strand[s].pc = "idle" /\ strand'[s].pc = "notify" /\ UNCHANGED busy
        /\ launch' = launch \ {g}
    BY <1>1, <1>2, <1>t DEF launch_boot_cpu, Idle
  <2>2. k[1] # g => ValueOf(k)' = ValueOf(k)
    BY <1>2, <1>g, <1>t DEF launch_boot_cpu, ValueOf
  <2>3. k[1] = g => Stir(k)'
    <3>1. Pending(g)'
      BY <2>1 DEF Pending
    <3> QED BY <3>1, PendingStirs
  <2>4. Pending(k[1]) => Pending(k[1])'
    BY <2>1, <1>g, PendingFrame
  <2>5. ~InFlight(s, k) /\ ~InFlight(s, l) /\ (Busy(k)' <=> Busy(k))
    BY <2>1 DEF InFlight, Busy
  <2> HIDE DEF g
  <2> QED BY <1>g, <1>k, <1>l, <2>1, <2>2, <2>3, <2>4, <2>5, StrandKey
<1>3. ASSUME NEW role \in {"exit", "reset"}, exit_begin(s, role) PROVE KeyInv(k)'
  <2>1. /\ StrandOnly(s) /\ strand[s].pc = "idle" /\ strand'[s].pc = "exit" /\ UNCHANGED <<busy, launch>>
    BY <1>1, <1>3, <1>t DEF exit_begin, Idle
  <2>2. k[1] # g => ValueOf(k)' = ValueOf(k)
    BY <1>3, <1>g, <1>t DEF exit_begin, ValueOf
  <2>3. k[1] = g => Stir(k)'
    <3>1. Pending(g)'
      BY <2>1 DEF Pending
    <3> QED BY <3>1, PendingStirs
  <2>4. Pending(k[1]) => Pending(k[1])'
    BY <2>1, <1>g, PendingFrame
  <2>5. ~InFlight(s, k) /\ ~InFlight(s, l) /\ (Busy(k)' <=> Busy(k))
    BY <2>1 DEF InFlight, Busy
  <2> HIDE DEF g
  <2> QED BY <1>g, <1>k, <1>l, <2>1, <2>2, <2>3, <2>4, <2>5, StrandKey
<1>4. CASE exit_end(s)
  <2>1. /\ StrandOnly(s) /\ strand[s].pc = "exit" /\ strand'[s].pc = "notify" /\ UNCHANGED <<busy, launch>>
    BY <1>1, <1>4, <1>t DEF exit_end, Step
  <2>2. k[1] # g => ValueOf(k)' = ValueOf(k)
    BY <1>4, <1>g, <1>t DEF exit_end, ValueOf
  <2>3. k[1] = g => Stir(k)'
    <3>1. Pending(g)'
      BY <2>1 DEF Pending
    <3> QED BY <3>1, PendingStirs
  <2>4. Pending(k[1]) => Pending(k[1])'
    BY <2>1, <1>g, PendingFrame
  <2>5. ~InFlight(s, k) /\ ~InFlight(s, l) /\ (Busy(k)' <=> Busy(k))
    BY <2>1 DEF InFlight, Busy
  <2> HIDE DEF g
  <2> QED BY <1>g, <1>k, <1>l, <2>1, <2>2, <2>3, <2>4, <2>5, StrandKey
<1>5. CASE notify_busy(s)
  <2>1. /\ StrandOnly(s) /\ strand[s].pc = "notify" /\ strand'[s].pc = "idle" /\ UNCHANGED <<busy, val>>
        /\ asyncLock[g]["state"] = Nobody /\ busy[g]["state"] /\ launch \subseteq launch'
    BY <1>1, <1>5, <1>t DEF notify_busy, notify_return, Idle
  <2>2. ~InFlight(s, k) /\ ~InFlight(s, l) /\ (Busy(k)' <=> Busy(k)) /\ ValueOf(k)' = ValueOf(k)
    BY <2>1 DEF InFlight, Busy, ValueOf
  (* The manager will ask: the flag is set, and no query is clearing it.   *)
  <2>3. k[1] = g => Asked(l)'
    <3> SUFFICES ASSUME k[1] = g PROVE Asked(l)'
      OBVIOUS
    <3>1. Busy(l) /\ KeyInv(l)
      BY <1>k, <2>1 DEF Busy, KeysInv
    <3>2. ~Reading(l)
      BY <1>k, <1>g, <2>1, NoTodFacts DEF Reading, Base, LockInv, QueryLock, Control, Nobody
    <3>3. Asked(l)
      BY <3>1, <3>2 DEF KeyInv
    <3> QED BY <2>1, <2>2, <3>3, StrandFrame
  <2>4. Pending(k[1]) => Pending(k[1])' \/ Asked(l)'
    BY <2>1, <2>3, <1>g DEF Pending, StrandOnly
  <2> HIDE DEF g
  <2> QED BY <1>g, <1>k, <1>l, <2>1, <2>2, <2>4, StrandKey
<1>6. CASE notify_capture(s)
  <2>1. /\ StrandOnly(s) /\ strand[s].pc = "notify" /\ strand'[s].pc = "ntake" /\ UNCHANGED <<val, launch>>
        /\ busy' = [busy EXCEPT ![g]["state"] = TRUE]
    BY <1>1, <1>6, <1>t DEF notify_capture
  <2>2. ~InFlight(s, k) /\ ~InFlight(s, l) /\ ValueOf(k)' = ValueOf(k)
    BY <2>1 DEF InFlight, ValueOf
  <2>3. k[1] = g => Asked(l)'
    BY <1>k, <2>1 DEF Asked, InFlight
  <2>4. Pending(k[1]) => Pending(k[1])' \/ Asked(l)'
    BY <2>1, <2>3, <1>g DEF Pending, StrandOnly
  <2>5. Busy(k)' => Busy(k) \/ (k[1] = g /\ k = l)
    BY <2>1, <1>g, <1>k, <1>t DEF Busy
  <2> HIDE DEF g
  <2> QED BY <1>g, <1>k, <1>l, <2>1, <2>2, <2>3, <2>4, <2>5, StrandKey
<1>7. CASE notify_take(s)
  <2>1. /\ StrandOnly(s) /\ strand[s].pc = "ntake" /\ strand'[s].pc = "nsend" /\ UNCHANGED <<val, launch, busy>>
    BY <1>1, <1>7, <1>t DEF notify_take, Step
  <2>2. (Busy(k)' <=> Busy(k)) /\ ValueOf(k)' = ValueOf(k)
    BY <2>1 DEF Busy, ValueOf
  <2>3. (InFlight(s, k) => Asked(k)') /\ (InFlight(s, l) => Asked(l)')
    BY <2>1 DEF InFlight, Asked
  <2>4. Pending(k[1]) => Pending(k[1])'
    BY <2>1 DEF Pending, StrandOnly
  <2> HIDE DEF g
  <2> QED BY <1>g, <1>k, <1>l, <2>1, <2>2, <2>3, <2>4, StrandKey
<1>8. CASE hcall_data(s)
  <2>1. /\ StrandOnly(s) /\ strand[s].pc = "data" /\ strand'[s].pc = "hsend" /\ strand'[s].info = strand[s].info
        /\ UNCHANGED <<val, launch, busy>>
    BY <1>1, <1>8, <1>t DEF hcall_data, Step
  <2>2. (Busy(k)' <=> Busy(k)) /\ ValueOf(k)' = ValueOf(k)
    BY <2>1 DEF Busy, ValueOf
  <2>3. (InFlight(s, k) => Asked(k)') /\ (InFlight(s, l) => Asked(l)')
    BY <2>1 DEF InFlight, Asked
  <2>4. Pending(k[1]) => Pending(k[1])'
    BY <2>1 DEF Pending, StrandOnly
  <2> HIDE DEF g
  <2> QED BY <1>g, <1>k, <1>l, <2>1, <2>2, <2>3, <2>4, StrandKey
<1>9. CASE hcall_build(s)
  <2>1. /\ StrandOnly(s) /\ strand[s].pc = "check" /\ strand'[s].pc = "data" /\ strand'[s].info = strand[s].info
        /\ UNCHANGED <<val, launch>> /\ busy' = [busy EXCEPT ![g][strand[s].info] = TRUE]
    BY <1>1, <1>9, <1>t DEF hcall_build, Step
  <2>2. ~InFlight(s, k) /\ ~InFlight(s, l) /\ ValueOf(k)' = ValueOf(k)
    BY <2>1 DEF InFlight, ValueOf
  <2>3. g = k[1] /\ strand[s].info = k[2] => Asked(k)'
    BY <2>1 DEF InFlight, Asked
  <2>4. Pending(k[1]) => Pending(k[1])'
    BY <2>1 DEF Pending, StrandOnly
  <2>5. Busy(k)' => Busy(k) \/ (g = k[1] /\ strand[s].info = k[2])
    BY <2>1, <1>g, <1>t DEF Busy
  <2> QED BY <1>g, <1>k, <1>l, <2>1, <2>2, <2>3, <2>4, <2>5, StrandKey
<1>10. CASE hcall_busy(s)
  <2>1. /\ StrandOnly(s) /\ strand[s].pc = "check" /\ UNCHANGED <<val, launch, busy>> /\ busy[g][strand[s].info]
    BY <1>1, <1>10, <1>t DEF hcall_busy, hcall_return
  <2>2. ~InFlight(s, k) /\ ~InFlight(s, l) /\ ValueOf(k)' = ValueOf(k) /\ (Busy(k)' <=> Busy(k))
    BY <2>1 DEF InFlight, ValueOf, Busy
  <2>3. g = k[1] /\ strand[s].info = k[2] => Asked(k)'
    <3> SUFFICES ASSUME g = k[1], strand[s].info = k[2] PROVE Asked(k)'
      OBVIOUS
    <3>1. Busy(k)
      BY <2>1 DEF Busy
    <3>2. asyncLock[k[1]][k[2]] = s
      BY <2>1, <1>g, NoTodFacts DEF Base, LockInv, StrandLocks
    <3>3. ~Reading(k)
      BY <3>2, <1>g, NoTodFacts DEF Reading, Base, LockInv, QueryLock
    <3>4. Asked(k)
      BY <3>1, <3>3, <1>g DEF KeyInv
    <3> QED BY <2>1, <2>2, <3>4, StrandFrame
  <2>4. Pending(k[1]) => Pending(k[1])'
    BY <2>1 DEF Pending, StrandOnly
  <2> QED BY <1>g, <1>k, <1>l, <2>1, <2>2, <2>3, <2>4, StrandKey
<1>11. ASSUME NEW i \in HcallInfos, NEW v \in Values(i), hcall_store(s, i, v) PROVE KeyInv(k)'
  <2>0. i \in Infos /\ i # "state"
    BY NoTodFacts, InfoFacts
  <2>1. /\ StrandOnly(s) /\ strand[s].pc = "idle" /\ strand'[s].pc = "check" /\ strand'[s].info = i
        /\ UNCHANGED <<launch, busy>> /\ val' = [val EXCEPT ![g][i] = v]
    BY <1>1, <1>11, <1>t DEF hcall_store, Idle
  <2>2. ~InFlight(s, k) /\ ~InFlight(s, l) /\ (Busy(k)' <=> Busy(k))
    BY <2>1 DEF InFlight, Busy
  <2>3. k[1] = g /\ k[2] = i => Stir(k)'
    BY <2>0, <2>1 DEF Stir, Checks
  <2>4. Pending(k[1]) => Pending(k[1])'
    BY <2>1 DEF Pending, StrandOnly
  <2>5. ValueOf(k)' = ValueOf(k) \/ (k[1] = g /\ k[2] = i)
    BY <2>0, <2>1, <1>g, <1>t DEF ValueOf
  <2> HIDE DEF g
  <2> QED BY <1>g, <1>k, <1>l, <2>1, <2>2, <2>3, <2>4, <2>5, StrandKey
(* A notification is not lost: there is room for it.                       *)
<1>12. ASSUME NEW m \in Messages, m.kind = "notice", hv_ldc_send_pkt(m), strand[s].pc \in {"nsend", "hsend"},
              \A t \in Strands : t # s => strand'[t] = strand[t], UNCHANGED <<ctlVars, zeusVars>>
       PROVE  StrandOnly(s) /\ \A q \in Keys : m.key = q => Asked(q)'
  <2>1. qconf /\ ~Full
    BY <1>12 DEF RoomForAll, AnswerOk, Base, SessionInv
  <2>2. /\ DOMAIN rxq = 1 .. Len(rxq) /\ Len(rxq) \in Nat /\ DOMAIN rxq' = 1 .. Len(rxq) + 1
        /\ \A n \in DOMAIN rxq : rxq'[n] = rxq[n]
        /\ rxq'[Len(rxq) + 1] = m
    BY <1>12, <2>1, AppendProperties, LenProperties DEF hv_ldc_send_pkt, Base, TypeInv, QueueTypes
  <2>3. PICK n \in Nat : n = Len(rxq) + 1
    BY <2>2
  <2>4. n \in DOMAIN rxq' /\ rxq'[n] = m /\ \A p \in DOMAIN rxq' : p \in DOMAIN rxq \/ p = n
    BY <2>2, <2>3
  <2>5. \A p \in DOMAIN rxq : p \in DOMAIN rxq'
    BY <2>2
  <2>6. StrandOnly(s)
    BY <1>12, <2>2, <2>4, <2>5 DEF StrandOnly, QueueKept, ctlVars, zeusVars
  <2>7. ASSUME NEW q \in Keys, m.key = q PROVE Asked(q)'
    <3>1. NoticeAt(n, q)'
      BY <1>12, <2>4, <2>7 DEF NoticeAt
    <3> QED BY <2>4, <3>1 DEF Asked
  <2> QED BY <2>6, <2>7
<1>13. CASE notify_send(s)
  <2> DEFINE m == Notice(<<g, "state">>, strand[s].val)
  <2>1. /\ \A t \in Strands : t # s => strand'[t] = strand[t]
        /\ strand[s].pc = "nsend" /\ UNCHANGED <<ctlVars, zeusVars, busy, val>> /\ hv_ldc_send_pkt(m)
        /\ launch \subseteq launch'
    BY <1>13, <1>t DEF notify_send, notify_return
  <2>2. m \in Messages /\ m.kind = "notice" /\ m.key = <<g, "state">>
    <3>1. strand[s].val \in AllValues /\ <<g, "state">> \in Keys
      BY <1>g, <1>t DEF Keys
    <3> QED BY <3>1, MessageFacts DEF Notice
  <2> HIDE DEF m
  <2>3. StrandOnly(s) /\ \A q \in Keys : m.key = q => Asked(q)'
    BY <2>1, <2>2, <1>12
  <2>4. (InFlight(s, k) => m.key = k) /\ (InFlight(s, l) => m.key = l)
    BY <1>g, <1>k, <2>1, <2>2 DEF InFlight
  <2>5. (Busy(k)' <=> Busy(k)) /\ ValueOf(k)' = ValueOf(k)
    BY <2>1 DEF Busy, ValueOf
  <2>6. Pending(k[1]) => Pending(k[1])'
    BY <2>1 DEF Pending
  <2> HIDE DEF g
  <2> QED BY <1>g, <1>k, <1>l, <2>1, <2>3, <2>4, <2>5, <2>6, StrandKey
<1>14. CASE hcall_send(s)
  <2> DEFINE m == Notice(<<g, asyncBuf[g].info>>, asyncBuf[g].val)
  <2>1. /\ \A t \in Strands : t # s => strand'[t] = strand[t]
        /\ strand[s].pc = "hsend" /\ UNCHANGED <<ctlVars, zeusVars, busy, val, launch>> /\ hv_ldc_send_pkt(m)
    BY <1>14, <1>t DEF hcall_send, hcall_return
  <2>2. m \in Messages /\ m.kind = "notice" /\ m.key = <<g, strand[s].info>>
    <3>1. asyncBuf[g].info = strand[s].info /\ asyncBuf[g].val \in AllValues /\ <<g, strand[s].info>> \in Keys
      BY <1>g, <2>1 DEF Keys, BufInv, Base, TypeInv, GuestTypes
    <3> QED BY <3>1, MessageFacts DEF Notice
  <2> HIDE DEF m
  <2>3. StrandOnly(s) /\ \A q \in Keys : m.key = q => Asked(q)'
    BY <2>1, <2>2, <1>12
  <2>4. (InFlight(s, k) => m.key = k) /\ (InFlight(s, l) => m.key = l)
    BY <1>g, <1>k, <2>1, <2>2 DEF InFlight
  <2>5. (Busy(k)' <=> Busy(k)) /\ ValueOf(k)' = ValueOf(k)
    BY <2>1 DEF Busy, ValueOf
  <2>6. Pending(k[1]) => Pending(k[1])'
    BY <2>1 DEF Pending
  <2> HIDE DEF g
  <2> QED BY <1>g, <1>k, <1>l, <2>1, <2>3, <2>4, <2>5, <2>6, StrandKey
<1> QED BY <1>2, <1>3, <1>4, <1>5, <1>6, <1>7, <1>8, <1>9, <1>10, <1>11, <1>13, <1>14

(* Inside hvctl_svc_callback there is no answer in the queue.              *)
LEMMA NoAnswer ==
  ASSUME Base, NEW k \in Keys, cb # "none" \/ ~zeus.waiting
  PROVE  \A n \in DOMAIN rxq : ~AnswerAt(n, k)
  BY DEF Base, ReplyInv, AnswerAt

(* A query that a session has handed over is executed.                     *)
LEMMA QueryExecutes ==
  ASSUME Base, zeus.session = "up", hv_control_pkt \/ op_guest_start
  PROVE  /\ cb = "pkt" /\ cb' = "send" /\ ibuf.op # "get_res_stat" /\ obuf'.op = ibuf.op
         /\ UNCHANGED <<rxq, strand, busy, zeus, know, owed>>
<1>1. CASE hv_control_pkt
  <2>1. cb = "pkt" /\ ctl.state = "CONNECTED" /\ InSequence /\ ibuf.op # "hello"
    BY <1>1 DEF hv_control_pkt, Base, SessionInv, Handed, Expected, InSequence
  <2>2. pkt_connected
    BY <1>1, <2>1 DEF hv_control_pkt, pkt_unconnected, pkt_challenged
  <2>3. ibuf.op # "get_res_stat" /\ reply_cmd("CONNECTED", Next16(ctl.zeus_seq), "eauth", Unknown)
    BY <2>1, <2>2 DEF pkt_connected
  <2> QED BY <1>1, <2>1, <2>3 DEF hv_control_pkt, reply_cmd, Processed, Reply, guestVars, zeusVars
<1>2. CASE op_guest_start
  BY <1>2 DEF op_guest_start, Executes, reply_cmd, Processed, Reply, zeusVars
<1> QED BY <1>1, <1>2

(* A step of Zeus's strand, or of the manager, that leaves the strands and *)
(* the notifications alone.                                                *)
LEMMA AskedFrame ==
  ASSUME NEW k \in Keys, UNCHANGED <<rxq, strand>>, k \in owed => k \in owed' \/ Querying(k)',
         Querying(k) => Querying(k)'
  PROVE  Asked(k) => Asked(k)'
<1>1. (\A n \in DOMAIN rxq : NoticeAt(n, k)' <=> NoticeAt(n, k)) /\ \A s \in Strands : InFlight(s, k)' <=> InFlight(s, k)
  BY DEF NoticeAt, InFlight
<1> QED BY <1>1 DEF Asked

LEMMA ControlKeys ==
  ASSUME NoTod, Base, KeysInv, AnswerOk, zeus.session = "up", NEW k \in Keys,
         hv_control_pkt \/ op_guest_start \/ get_guest_status \/ get_guest_status_end \/ svc_reply
  PROVE  KeyInv(k)'
<1>g. /\ k[1] \in Guests /\ k[2] \in Infos /\ "state" \in Infos /\ KeyInv(k) /\ k = <<k[1], k[2]>>
  BY InfoFacts, NoTodFacts DEF KeysInv
<1>t. /\ val \in [Guests -> [Infos -> AllValues]] /\ busy \in [Guests -> [Infos -> BOOLEAN]]
      /\ ibuf.key \in Keys /\ ibuf.key[1] \in Guests /\ ibuf.key[2] \in Infos
  BY PacketFields DEF Base, TypeInv, StrandTypes, GuestTypes, CtlTypes
<1>k. PICK l \in Keys : l = StateKey(k) /\ l[1] = k[1] /\ l[2] = "state" /\ StateKey(k)' = l /\ (k[2] = "state" => l = k)
  BY StateKeyFacts
<1>1. ASSUME NEW q \in Keys, hv_control_pkt \/ op_guest_start
      PROVE  /\ Asked(q) => Asked(q)'
             /\ ~InAnswer(q) /\ ~InAnswer(q)' /\ ~Reading(q)
  <2>1. /\ cb = "pkt" /\ cb' = "send" /\ ibuf.op # "get_res_stat" /\ obuf'.op = ibuf.op
        /\ UNCHANGED <<rxq, strand, busy, zeus, know, owed>>
    BY <1>1, QueryExecutes
  <2>2. ~Querying(q)
    BY <2>1 DEF Querying
  <2>3. \A n \in DOMAIN rxq : ~AnswerAt(n, q) /\ ~AnswerAt(n, q)'
    BY <2>1, NoAnswer DEF AnswerAt
  <2> QED BY <2>1, <2>2, <2>3, AskedFrame DEF InAnswer, Reading, Answering
<1>2. CASE hv_control_pkt \/ op_guest_start
  <2>1. UNCHANGED <<strand, busy, know>>
    BY <1>2, QueryExecutes
  <2>2. (launch \subseteq launch') /\ (ValueOf(k)' = ValueOf(k) \/ k[1] \in launch')
    <3>1. CASE hv_control_pkt
      BY <3>1 DEF hv_control_pkt, guestVars, ValueOf
    <3>2. CASE op_guest_start
      BY <3>2, <1>g, <1>t DEF op_guest_start, ValueOf
    <3> QED BY <1>2, <3>1, <3>2
  <2>3. Pending(k[1]) => Pending(k[1])'
    BY <2>1, <2>2 DEF Pending
  <2>4. k[1] \in launch' => Stir(k)'
    BY PendingStirs DEF Pending
  <2>5. (Busy(k)' <=> Busy(k)) /\ (Checks(k)' <=> Checks(k))
    BY <2>1 DEF Busy, Checks
  <2>6. StateAsked(k) => StateAsked(k)'
    BY <2>3, <1>1, <1>2, <1>k DEF StateAsked
  <2>7. ValueOf(k)' = ValueOf(k) /\ Current(k) => Current(k)'
    BY <2>1, <1>1, <1>2 DEF Current, InAnswer
  <2> QED BY <1>1, <1>2, <1>g, <2>2, <2>3, <2>4, <2>5, <2>6, <2>7, KeyKept
<1>3. CASE get_guest_status
  <2>1. /\ cb = "pkt" /\ cb' = "stat" /\ ibuf.op = "get_res_stat" /\ obuf'.val = ValueOf(ibuf.key)
        /\ UNCHANGED <<ibuf, rxq, strand, val, busy, launch, know, owed>>
    BY <1>3 DEF get_guest_status, Executes, Reply, zeusVars, ValueOf
  <2>2. ASSUME NEW q \in Keys
        PROVE  /\ \A n \in DOMAIN rxq' : ~AnswerAt(n, q)'
               /\ q # ibuf.key => (Asked(q) => Asked(q)') /\ ~InAnswer(q)'
               /\ q = ibuf.key => InAnswer(q)'
               /\ ~InAnswer(q) /\ ~Answering(q)'
    <3>1. (\A n \in DOMAIN rxq : ~AnswerAt(n, q)) /\ UNCHANGED rxq
      BY <2>1, NoAnswer
    <3>2. \A n \in DOMAIN rxq' : ~AnswerAt(n, q)'
      BY <3>1 DEF AnswerAt
    <3>3. q # ibuf.key => ~Querying(q) /\ ~Reading(q)'
      BY <2>1 DEF Querying, Reading
    <3> QED BY <2>1, <3>1, <3>2, <3>3, AskedFrame DEF InAnswer, Reading, Answering
  <2>3. /\ Pending(k[1])' <=> Pending(k[1])
        /\ Checks(k)' <=> Checks(k)
        /\ Busy(k)' <=> Busy(k)
        /\ ValueOf(k)' = ValueOf(k)
    BY <2>1 DEF Pending, Checks, Busy, ValueOf
  <2>4. CASE k = ibuf.key
    <3>1. Reading(k)'
      BY <2>1, <2>4 DEF Reading
    <3>2. obuf'.val = ValueOf(k)'
      BY <2>1, <2>3, <2>4
    <3>3. Current(k)'
      BY <2>2, <3>1, <3>2 DEF Current, InAnswer
    <3> QED BY <3>1, <3>3 DEF KeyInv
  <2>5. CASE k # ibuf.key
    <3>1. StateAsked(k) => StateAsked(k)'
      BY <2>2, <2>3, <1>k DEF StateAsked
    <3>2. Current(k) => Current(k)'
      BY <2>1, <2>2, <2>3, <2>5 DEF Current, InAnswer
    <3>3. ~Reading(k)
      BY <2>1 DEF Reading
    <3> QED BY <1>g, <2>2, <2>3, <2>5, <3>1, <3>2, <3>3, KeyKept
  <2> QED BY <2>4, <2>5
<1>4. CASE get_guest_status_end
  <2>1. /\ cb = "stat" /\ cb' = "send" /\ ibuf.op = "get_res_stat"
        /\ obuf' = Reply(ibuf.op, "ok", ctl.hv_seq, ibuf.key, obuf.val)
        /\ UNCHANGED <<rxq, strand, val, launch, know, owed>>
        /\ busy' = [busy EXCEPT ![ibuf.key[1]][ibuf.key[2]] = FALSE]
    BY <1>4 DEF get_guest_status_end, reply_cmd, Processed, zeusVars, Base, SessionInv
  <2>2. obuf'.op = "get_res_stat" /\ obuf'.key = ibuf.key /\ obuf'.val = obuf.val
    BY <2>1 DEF Reply
  <2>3. ASSUME NEW q \in Keys
        PROVE  /\ \A n \in DOMAIN rxq' : ~AnswerAt(n, q)'
               /\ Asked(q) => Asked(q)'
               /\ Answering(q)' <=> Reading(q)
               /\ InAnswer(q)' <=> InAnswer(q)
               /\ ~Reading(q)'
    <3>1. (\A n \in DOMAIN rxq : ~AnswerAt(n, q)) /\ UNCHANGED rxq
      BY <2>1, NoAnswer
    <3>2. \A n \in DOMAIN rxq' : ~AnswerAt(n, q)'
      BY <3>1 DEF AnswerAt
    <3>3. Asked(q) => Asked(q)'
      BY <2>1, AskedFrame DEF Querying
    <3> QED BY <2>1, <2>2, <3>1, <3>2, <3>3 DEF InAnswer, Reading, Answering
  <2>4. /\ Pending(k[1])' <=> Pending(k[1])
        /\ Checks(k)' <=> Checks(k)
        /\ ValueOf(k)' = ValueOf(k)
    BY <2>1 DEF Pending, Checks, ValueOf
  <2>5. (Busy(k)' => Busy(k)) /\ (Reading(k) => ~Busy(k)')
    BY <2>1, <1>g, <1>t DEF Busy, Reading
  <2>6. StateAsked(k) => StateAsked(k)'
    BY <2>3, <2>4, <1>k DEF StateAsked
  <2>7. Current(k) => Current(k)'
    BY <2>1, <2>2, <2>3, <2>4 DEF Current
  <2> QED BY <1>g, <2>3, <2>4, <2>5, <2>6, <2>7, KeyKept
<1>5. CASE svc_reply
  <2>1. /\ cb = "send" /\ cb' = "none" /\ rxq' = Append(rxq, obuf) /\ obuf.kind = "reply"
        /\ UNCHANGED <<ibuf, strand, val, busy, launch, know, owed>>
    <3>1. qconf
      BY <1>5 DEF svc_reply, Base, SessionInv
    <3> QED BY <1>5, <3>1 DEF svc_reply, hv_ldc_send_pkt, guestVars, zeusVars, Base, SessionInv
  <2>q. DOMAIN rxq = 1 .. Len(rxq) /\ Len(rxq) \in Nat
    BY QueueFacts DEF Base
  <2>n. PICK new \in Nat : new = Len(rxq) + 1
    BY <2>q
  <2>2. /\ DOMAIN rxq' = 1 .. new /\ rxq'[new] = obuf /\ \A n \in DOMAIN rxq : rxq'[n] = rxq[n]
    BY <2>1, <2>n, AppendProperties, LenProperties DEF Base, TypeInv, QueueTypes, CtlTypes
  <2>3. /\ new \in DOMAIN rxq' /\ \A n \in DOMAIN rxq' : n \in DOMAIN rxq \/ n = new
        /\ \A n \in DOMAIN rxq : n \in DOMAIN rxq'
    BY <2>n, <2>q, <2>2
  <2>4. ASSUME NEW q \in Keys
        PROVE  /\ \A n \in DOMAIN rxq' : AnswerAt(n, q)' => n = new
               /\ Asked(q) => Asked(q)'
               /\ AnswerAt(new, q)' <=> Answering(q)
               /\ InAnswer(q)' <=> InAnswer(q)
               /\ ~Reading(q)' /\ ~Answering(q)' /\ ~Reading(q)
    <3>1. \A n \in DOMAIN rxq : ~AnswerAt(n, q)
      BY <2>1, NoAnswer
    <3>2. \A n \in DOMAIN rxq : (NoticeAt(n, q)' <=> NoticeAt(n, q)) /\ (AnswerAt(n, q)' <=> AnswerAt(n, q))
      BY <2>2 DEF NoticeAt, AnswerAt
    <3>3. AnswerAt(new, q)' <=> Answering(q)
      BY <2>1, <2>2 DEF AnswerAt, Answering
    <3>4. \A s \in Strands : InFlight(s, q)' <=> InFlight(s, q)
      BY <2>1 DEF InFlight
    <3>5. Asked(q) => Asked(q)'
      BY <2>1, <2>3, <3>2, <3>4 DEF Asked, Querying
    <3>6. ~Reading(q)' /\ ~Answering(q)' /\ ~Reading(q)
      BY <2>1 DEF Reading, Answering
    <3> QED BY <2>3, <3>1, <3>2, <3>3, <3>5, <3>6 DEF InAnswer
  <2>5. /\ Pending(k[1])' <=> Pending(k[1])
        /\ Checks(k)' <=> Checks(k)
        /\ Busy(k)' <=> Busy(k)
        /\ ValueOf(k)' = ValueOf(k)
    BY <2>1 DEF Pending, Checks, Busy, ValueOf
  <2>6. StateAsked(k) => StateAsked(k)'
    BY <2>4, <2>5, <1>k DEF StateAsked
  <2>7. Current(k) => Current(k)'
    BY <2>1, <2>2, <2>4, <2>5 DEF Current
  <2> QED BY <1>g, <2>4, <2>5, <2>6, <2>7, KeyKept
<1> QED BY <1>2, <1>3, <1>4, <1>5

(* The manager hands over a packet of its session.                         *)
LEMMA HandKeys ==
  ASSUME NoTod, Base, KeysInv, zeus.session = "up", NEW k \in Keys, NEW p, Hand(p, "up"),
         \A q \in Keys : q \in owed => q \in owed' \/ Querying(q)'
  PROVE  KeyInv(k)'
<1>1. /\ cb = "none" /\ ~zeus.waiting /\ cb' = "pkt"
      /\ UNCHANGED <<obuf, rxq, strand, val, busy, launch, know>>
  BY DEF Hand, guestVars
<1>k. PICK l \in Keys : l = StateKey(k) /\ StateKey(k)' = l /\ KeyInv(k)
  BY StateKeyFacts DEF KeysInv
<1>2. ASSUME NEW q \in Keys
      PROVE  /\ Asked(q) => Asked(q)'
             /\ ~InAnswer(q) /\ ~InAnswer(q)' /\ ~Reading(q)
  <2>1. \A n \in DOMAIN rxq : ~AnswerAt(n, q) /\ ~AnswerAt(n, q)'
    BY <1>1, NoAnswer DEF AnswerAt
  <2>2. ~Querying(q)
    BY <1>1 DEF Querying
  <2> QED BY <1>1, <2>1, <2>2, AskedFrame DEF InAnswer, Reading, Answering
<1>3. /\ Pending(k[1])' <=> Pending(k[1])
      /\ Checks(k)' <=> Checks(k)
      /\ Busy(k)' <=> Busy(k)
      /\ ValueOf(k)' = ValueOf(k)
  BY <1>1 DEF Pending, Checks, Busy, ValueOf
<1>4. StateAsked(k) => StateAsked(k)'
  BY <1>2, <1>3, <1>k DEF StateAsked
<1>5. Current(k) => Current(k)'
  BY <1>1, <1>2, <1>3 DEF Current, InAnswer
<1> QED BY <1>2, <1>3, <1>4, <1>5, <1>k, KeyKept

(* It reads a notification, or the answer to its query.                    *)
LEMMA ReadKeys ==
  ASSUME NoTod, Base, KeysInv, AnswerOk, NEW k \in Keys, zeus_read, zeus'.session = "up"
  PROVE  KeyInv(k)'
<1> DEFINE r == Head(rxq)
<1>1. /\ cb = "none" /\ cb' = "none" /\ UNCHANGED <<ibuf, obuf, strand, val, busy, launch>>
  BY DEF zeus_read, ctlVars, guestVars
<1>2. /\ 1 \in DOMAIN rxq /\ rxq[1] = r
      /\ \A n \in DOMAIN rxq' : n \in Nat /\ n # 0 /\ n + 1 \in DOMAIN rxq /\ rxq'[n] = rxq[n + 1]
      /\ \A n \in DOMAIN rxq : n \in Nat /\ (n # 1 => n - 1 \in DOMAIN rxq' /\ rxq'[n - 1] = rxq[n])
  BY Shift DEF Base
<1>r. r \in Messages /\ r.key \in Keys /\ r.kind \in {"reply", "notice"} /\ r.val \in AllValues
  <2>1. r \in Messages
    BY <1>2, QueueFacts DEF Base
  <2> QED BY <2>1 DEF Messages, AllValues
<1>k. PICK l \in Keys : /\ l = StateKey(k) /\ StateKey(k)' = l /\ KeyInv(k)
                        /\ l[1] = k[1] /\ l[2] = "state" /\ (k[2] = "state" => l = k)
  BY StateKeyFacts DEF KeysInv
<1>3. ASSUME NEW q \in Keys
      PROVE  /\ ~Reading(q) /\ ~Answering(q) /\ ~Querying(q)
             /\ ~Reading(q)' /\ ~Answering(q)' /\ ~Querying(q)'
             /\ \A n \in DOMAIN rxq' : n + 1 \in DOMAIN rxq /\ n + 1 # 1 /\ rxq'[n] = rxq[n + 1]
                                       /\ (AnswerAt(n, q)' <=> AnswerAt(n + 1, q))
             /\ \A n \in DOMAIN rxq : n # 1 => /\ n - 1 \in DOMAIN rxq'
                                               /\ NoticeAt(n - 1, q)' <=> NoticeAt(n, q)
                                               /\ AnswerAt(n - 1, q)' <=> AnswerAt(n, q)
             /\ \A s \in Strands : InFlight(s, q)' <=> InFlight(s, q)
  <2>1. /\ ~Reading(q) /\ ~Answering(q) /\ ~Querying(q)
        /\ ~Reading(q)' /\ ~Answering(q)' /\ ~Querying(q)'
    BY <1>1 DEF Reading, Answering, Querying
  <2>2. \A s \in Strands : InFlight(s, q)' <=> InFlight(s, q)
    BY <1>1 DEF InFlight
  <2>3. \A n \in DOMAIN rxq' : n + 1 # 1
    BY <1>2
  <2> QED BY <1>2, <2>1, <2>2, <2>3 DEF NoticeAt, AnswerAt
<1>4. /\ Pending(k[1])' <=> Pending(k[1])
      /\ Checks(k)' <=> Checks(k)
      /\ Busy(k)' <=> Busy(k)
      /\ ValueOf(k)' = ValueOf(k)
  BY <1>1 DEF Pending, Checks, Busy, ValueOf
<1>5. CASE r.kind = "notice"
  <2>1. zeus' = zeus /\ owed' = owed \cup {r.key} /\ know' = [know EXCEPT ![r.key] = r.val]
    BY <1>5 DEF zeus_read
  <2> HIDE DEF r
  <2>2. ASSUME NEW q \in Keys
        PROVE  /\ Asked(q) => Asked(q)'
               /\ InAnswer(q)' <=> InAnswer(q)
               /\ q = r.key => Asked(q)'
    <3>1. NoticeAt(1, q) => q = r.key
      BY <1>2 DEF NoticeAt
    <3>2. Asked(q) => Asked(q)'
      BY <2>1, <3>1, <1>3 DEF Asked
    <3>3. ~AnswerAt(1, q)
      BY <1>2, <1>5 DEF AnswerAt
    <3>4. InAnswer(q)' <=> InAnswer(q)
      BY <3>3, <1>3 DEF InAnswer
    <3> QED BY <2>1, <3>2, <3>4 DEF Asked
  <2>3. StateAsked(k) => StateAsked(k)'
    BY <2>2, <1>4, <1>k DEF StateAsked
  <2>4. k # r.key /\ Current(k) => Current(k)'
    <3>1. k # r.key => know'[k] = know[k]
      BY <2>1 DEF AnswerOk
    <3>2. Current(k) => \A n \in DOMAIN rxq' : AnswerAt(n, k)' => rxq'[n].val = ValueOf(k)
      BY <1>3 DEF Current
    <3> QED BY <3>1, <3>2, <2>2, <1>3, <1>4 DEF Current
  <2> QED BY <2>1, <2>2, <2>3, <2>4, <1>3, <1>4, <1>k, KeyKept
<1>6. CASE r.kind = "reply"
  <2>1. /\ zeus'.session = AfterReply(r)
        /\ know' = IF r.op = "get_res_stat" /\ r.st = "ok" THEN [know EXCEPT ![r.key] = r.val] ELSE know
        /\ owed' = CASE AfterReply(r) = "up" /\ zeus.session = "response" -> Keys
                     [] AfterReply(r) = "up" /\ r.op = "get_res_stat" ->
                          owed \cup {q \in Keys : r.key[2] = "state" /\ q[1] = r.key[1] /\ q # r.key}
                     [] OTHER -> owed
    BY <1>6 DEF zeus_read, Base, TypeInv, ZeusTypes
  <2>2. /\ AfterReply(r) = "up" /\ zeus.session \in {"response", "up"}
        /\ zeus.session = "response" => r.op = "response"
    BY <2>1 DEF AfterReply
  <2> HIDE DEF r
  <2>3. CASE zeus.session = "response"
    <3>1. k \in owed'
      BY <2>1, <2>2, <2>3
    <3> QED BY <3>1 DEF KeyInv, Asked
  <2>4. CASE zeus.session = "up"
    <3>1. \A n \in DOMAIN rxq : rxq[n].kind = "reply" => n = 1
      BY <1>2, <1>6 DEF Base, ReplyInv
    <3>2. owed \subseteq owed'
      BY <2>1, <2>2, <2>4
    <3>3. ASSUME NEW q \in Keys
          PROVE  /\ Asked(q) => Asked(q)'
                 /\ \A n \in DOMAIN rxq' : ~AnswerAt(n, q)'
                 /\ ~InAnswer(q)'
                 /\ InAnswer(q) <=> (r.op = "get_res_stat" /\ r.key = q)
                 /\ InAnswer(q) => AnswerAt(1, q)
      <4>1. ~NoticeAt(1, q) /\ (AnswerAt(1, q) <=> r.op = "get_res_stat" /\ r.key = q)
        BY <1>2, <1>6 DEF NoticeAt, AnswerAt
      <4>2. \A n \in DOMAIN rxq : AnswerAt(n, q) => n = 1
        BY <3>1 DEF AnswerAt
      <4>3. \A n \in DOMAIN rxq' : ~AnswerAt(n, q)'
        BY <4>2, <1>3
      <4>4. Asked(q) => Asked(q)'
        BY <3>2, <4>1, <1>3 DEF Asked
      <4> QED BY <4>1, <4>2, <4>3, <4>4, <1>2, <1>3 DEF InAnswer
    (* After the state of a guest it asks for the rest.                    *)
    <3>4. k[2] # "state" /\ StateAsked(k) => StateAsked(k)' \/ Asked(k)'
      <4>1. ASSUME InAnswer(l), k[2] # "state" PROVE Asked(k)'
        <5>1. r.op = "get_res_stat" /\ r.key = l
          BY <3>3, <4>1
        <5>2. k \in owed'
          BY <5>1, <2>1, <2>2, <2>4, <1>k, <4>1
        <5> QED BY <5>2 DEF Asked
      <4> QED BY <3>3, <4>1, <1>4, <1>k DEF StateAsked
    <3>5. Current(k) => Current(k)'
      <4> SUFFICES ASSUME Current(k) PROVE know'[k] = ValueOf(k)'
        BY <3>3, <1>3 DEF Current
      <4>1. CASE r.op = "get_res_stat" /\ r.key = k
        <5>1. AnswerAt(1, k) /\ r.val = ValueOf(k)
          BY <3>3, <4>1, <1>2 DEF Current
        <5>2. r.st = "ok"
          BY <2>4, <4>1, <1>2, <1>6 DEF AnswerOk, IsOk
        <5> QED BY <2>1, <4>1, <5>1, <5>2, <1>4 DEF AnswerOk
      <4>2. CASE ~(r.op = "get_res_stat" /\ r.key = k)
        <5>1. know[k] = ValueOf(k)
          BY <3>3, <4>2 DEF Current
        <5>2. know'[k] = know[k]
          BY <2>1, <4>2, <1>r DEF AnswerOk
        <5> QED BY <5>1, <5>2, <1>4
      <4> QED BY <4>1, <4>2
    <3> QED BY <2>4, <3>3, <3>4, <3>5, <1>3, <1>4, <1>k, KeyKept
  <2> QED BY <2>2, <2>3, <2>4
<1> QED BY <1>5, <1>6, <1>r

LEMMA ZeusKeys ==
  ASSUME NoTod, Base, KeysInv, AnswerOk, NEW k \in Keys,
         \/ zeus_connect \/ (\E q \in Keys : zeus_query(q)) \/ zeus_read \/ zeus_start
         \/ \E op \in Ops, q \in Keys : zeus_command(op, q)
         \/ \E op \in {"hello", "response", "get_res_stat"}, skip, good \in BOOLEAN :
              zeus_stray(op, skip, good)
         \/ zeus_reset
  PROVE  KeyInv(k)'
<1>1. ASSUME zeus'.session # "up" PROVE KeyInv(k)'
  BY <1>1 DEF KeyInv
<1>2. ASSUME NEW p, NEW session, Hand(p, session) PROVE zeus'.session = session
  BY <1>2 DEF Hand, Base, TypeInv, ZeusTypes
<1>3. CASE zeus_connect
  BY <1>1, <1>2, <1>3 DEF zeus_connect
<1>4. CASE \E op \in {"hello", "response", "get_res_stat"}, skip, good \in BOOLEAN : zeus_stray(op, skip, good)
  BY <1>1, <1>2, <1>4 DEF zeus_stray
<1>5. CASE zeus_reset
  BY <1>1, <1>5 DEF zeus_reset, Base, TypeInv, ZeusTypes
<1>6. CASE zeus_start
  BY <1>1, <1>6 DEF zeus_start, AnswerOk, Base, TypeInv, ZeusTypes
<1>7. ASSUME NEW q \in Keys, zeus_query(q) PROVE KeyInv(k)'
  <2>1. /\ zeus.session = "up" /\ Hand(Packet("get_res_stat", zeus.seq, TRUE, q), "up") /\ owed' = owed \ {q}
        /\ cb' = "pkt" /\ ibuf' = Packet("get_res_stat", zeus.seq, TRUE, q)
    BY <1>7 DEF zeus_query, Hand
  <2>2. Querying(q)'
    BY <2>1 DEF Querying, Packet
  <2>3. \A x \in Keys : x \in owed => x \in owed' \/ Querying(x)'
    BY <2>1, <2>2
  <2> QED BY <2>1, <2>3, HandKeys
<1>8. ASSUME NEW op \in Ops, NEW q \in Keys, zeus_command(op, q) PROVE KeyInv(k)'
  <2>1. zeus.session = "up" /\ Hand(Packet(op, zeus.seq, TRUE, q), "up") /\ owed' = owed
    BY <1>8 DEF zeus_command
  <2> QED BY <2>1, HandKeys
<1> QED BY <1>1, <1>3, <1>4, <1>5, <1>6, <1>7, <1>8, ReadKeys

LEMMA NextKeys == NoTod /\ Base /\ BufInv /\ RoomForAll /\ AnswerOk /\ KeysInv /\ [Next]_vars => KeysInv'
<1> SUFFICES ASSUME NoTod, Base, BufInv, RoomForAll, AnswerOk, KeysInv, [Next]_vars, NEW k \in Keys PROVE KeyInv(k)'
  BY DEF KeysInv
<1>1. CASE UNCHANGED vars
  BY <1>1 DEF vars, ctlVars, guestVars, zeusVars, KeysInv, KeyInv, Busy, Asked, Querying, Reading, NoticeAt, InFlight,
              Stir, StateAsked, StateKey, Pending, Checks, InAnswer, Answering, AnswerAt, Current, ValueOf
<1>2. ASSUME UNCHANGED zeus, zeus.session # "up" PROVE KeyInv(k)'
  BY <1>2 DEF KeyInv
<1>3. CASE hv_control_pkt \/ op_guest_start \/ get_guest_status \/ get_guest_status_end \/ svc_reply
  <2>1. UNCHANGED zeus
    BY <1>3 DEF hv_control_pkt, op_guest_start, get_guest_status, get_guest_status_end, svc_reply, zeusVars
  <2> QED BY <1>2, <1>3, <2>1, ControlKeys
<1>4. ASSUME NEW s \in Strands,
             \/ launch_boot_cpu(s) \/ exit_end(s)
             \/ notify_busy(s) \/ notify_capture(s) \/ notify_take(s) \/ notify_send(s)
             \/ hcall_busy(s) \/ hcall_build(s) \/ hcall_data(s) \/ hcall_send(s)
             \/ \E role \in {"exit", "reset"} : exit_begin(s, role)
             \/ \E i \in HcallInfos : \E v \in Values(i) : hcall_store(s, i, v)
      PROVE  KeyInv(k)'
  <2>1. UNCHANGED zeus
    BY <1>4 DEF launch_boot_cpu, exit_end, notify_busy, notify_capture, notify_take, notify_send, hcall_busy,
                hcall_build, hcall_data, hcall_send, exit_begin, hcall_store, zeusVars
  <2> QED BY <1>2, <1>4, <2>1, StrandKeys
<1>5. CASE Next
  BY <1>3, <1>4, <1>5, Cases, ZeusKeys
<1> QED BY <1>1, <1>5

-----------------------------------------------------------------------------
(* Sessions are of managers with a queue, and their queries succeed.       *)
LEMMA NextOk == Base /\ AnswerOk /\ [Next]_vars => AnswerOk'
<1> SUFFICES ASSUME Base, AnswerOk, [Next]_vars PROVE AnswerOk'
  OBVIOUS
<1>1. ASSUME UNCHANGED <<cb, obuf, zeus, know, rxq>> PROVE AnswerOk'
  BY <1>1 DEF AnswerOk, IsOk
<1>m. obuf \in Messages
  BY DEF Base, TypeInv, CtlTypes
(* A packet sent while the manager's side stays as it is.                  *)
<1>2. ASSUME NEW m \in Messages, hv_ldc_send_pkt(m), UNCHANGED <<zeus, know>>, cb' = "send" => UNCHANGED <<cb, obuf>>,
             zeus.session = "up" /\ m.kind = "reply" => IsOk(m)
      PROVE  AnswerOk'
  <2>1. zeus.session = "up" => \A n \in DOMAIN rxq' : rxq'[n].kind = "reply" => IsOk(rxq'[n])
    <3>1. CASE rxq' = rxq
      BY <3>1 DEF AnswerOk, IsOk
    <3>2. CASE rxq' # rxq
      <4>1. /\ DOMAIN rxq = 1 .. Len(rxq) /\ Len(rxq) \in Nat /\ DOMAIN rxq' = 1 .. Len(rxq) + 1
            /\ \A n \in DOMAIN rxq : rxq'[n] = rxq[n]
            /\ rxq'[Len(rxq) + 1] = m
        BY <1>2, <3>2, Sent DEF Base, TypeInv
      <4>2. \A n \in DOMAIN rxq' : n \in DOMAIN rxq \/ n = Len(rxq) + 1
        BY <4>1
      <4> QED BY <1>2, <4>1, <4>2 DEF AnswerOk
    <3> QED BY <3>1, <3>2
  <2> QED BY <1>2, <2>1 DEF AnswerOk, IsOk
<1>3. CASE UNCHANGED vars
  BY <1>1, <1>3 DEF vars, ctlVars, zeusVars
<1>4. CASE hv_control_pkt \/ op_guest_start
  <2>1. UNCHANGED <<zeus, know, rxq>>
    BY <1>4 DEF hv_control_pkt, op_guest_start, zeusVars
  <2>2. zeus.session = "up" => obuf'.op # "get_res_stat"
    BY <1>4, QueryExecutes
  <2> QED BY <2>1, <2>2 DEF AnswerOk, IsOk
<1>5. CASE get_guest_status
  BY <1>5 DEF get_guest_status, zeusVars, AnswerOk, IsOk
<1>6. CASE get_guest_status_end
  <2>1. UNCHANGED <<zeus, know, rxq>> /\ obuf'.st = "ok"
    BY <1>6 DEF get_guest_status_end, reply_cmd, Reply, zeusVars
  <2> QED BY <2>1 DEF AnswerOk, IsOk
<1>7. CASE svc_reply
  BY <1>2, <1>7, <1>m DEF svc_reply, zeusVars, AnswerOk
<1>8. ASSUME NEW s \in Strands,
             \/ launch_boot_cpu(s) \/ exit_end(s)
             \/ notify_busy(s) \/ notify_capture(s) \/ notify_take(s) \/ notify_send(s)
             \/ hcall_busy(s) \/ hcall_build(s) \/ hcall_data(s) \/ hcall_send(s)
             \/ \E role \in {"exit", "reset"} : exit_begin(s, role)
             \/ \E i \in HcallInfos : \E v \in Values(i) : hcall_store(s, i, v)
      PROVE  AnswerOk'
  <2>g. GuestOf[s] \in Guests /\ "state" \in Infos
    BY GuestOfType, InfoFacts
  <2>1. CASE notify_send(s)
    <3> DEFINE m == Notice(<<GuestOf[s], "state">>, strand[s].val)
    <3>1. strand[s].val \in AllValues /\ <<GuestOf[s], "state">> \in Keys
      BY <2>g DEF Base, TypeInv, StrandTypes, Keys
    <3>2. m \in Messages /\ m.kind = "notice"
      BY <3>1, MessageFacts DEF Notice
    <3>3. hv_ldc_send_pkt(m) /\ UNCHANGED <<ctlVars, zeusVars>>
      BY <2>1 DEF notify_send
    <3> HIDE DEF m
    <3> QED BY <3>2, <3>3, <1>2 DEF ctlVars, zeusVars
  <2>2. CASE hcall_send(s)
    <3> DEFINE m == Notice(<<GuestOf[s], asyncBuf[GuestOf[s]].info>>, asyncBuf[GuestOf[s]].val)
    <3>1. asyncBuf[GuestOf[s]].val \in AllValues /\ <<GuestOf[s], asyncBuf[GuestOf[s]].info>> \in Keys
      BY <2>g DEF Base, TypeInv, GuestTypes, Keys
    <3>2. m \in Messages /\ m.kind = "notice"
      BY <3>1, MessageFacts DEF Notice
    <3>3. hv_ldc_send_pkt(m) /\ UNCHANGED <<ctlVars, zeusVars>>
      BY <2>2 DEF hcall_send
    <3> HIDE DEF m
    <3> QED BY <3>2, <3>3, <1>2 DEF ctlVars, zeusVars
  <2>3. CASE \/ launch_boot_cpu(s) \/ exit_end(s) \/ notify_busy(s) \/ notify_capture(s) \/ notify_take(s)
             \/ \E role \in {"exit", "reset"} : exit_begin(s, role)
    BY <1>1, <2>3 DEF launch_boot_cpu, exit_end, notify_busy, notify_capture, notify_take, exit_begin, ctlVars, zeusVars
  <2>4. CASE \/ hcall_busy(s) \/ hcall_build(s) \/ hcall_data(s)
             \/ \E i \in HcallInfos : \E v \in Values(i) : hcall_store(s, i, v)
    BY <1>1, <2>4 DEF hcall_busy, hcall_build, hcall_data, hcall_store, ctlVars, zeusVars
  <2> QED BY <1>8, <2>1, <2>2, <2>3, <2>4
<1>9. ASSUME NEW p, NEW session, Hand(p, session) PROVE AnswerOk'
  <2>1. /\ cb' = "pkt" /\ zeus.up /\ zeus'.up /\ ~zeus.waiting /\ UNCHANGED <<know, rxq>>
    BY <1>9 DEF Hand, Base, TypeInv, ZeusTypes
  <2>2. \A n \in DOMAIN rxq : rxq[n].kind # "reply"
    BY <2>1 DEF Base, ReplyInv
  <2> QED BY <2>1, <2>2 DEF AnswerOk
<1>10. CASE zeus_read
  <2> DEFINE r == Head(rxq)
  <2>1. /\ cb = "none" /\ cb' = "none" /\ zeus.up
    BY <1>10 DEF zeus_read, ctlVars
  <2>2. /\ 1 \in DOMAIN rxq /\ rxq[1] = r
        /\ \A n \in DOMAIN rxq' : n + 1 \in DOMAIN rxq /\ n + 1 # 1 /\ rxq'[n] = rxq[n + 1]
    <3>1. \A n \in DOMAIN rxq' : n \in Nat /\ n # 0
      BY <1>10, Shift DEF Base
    <3> QED BY <1>10, <3>1, Shift DEF Base
  <2>3. r.key \in Keys /\ r.kind \in {"reply", "notice"} /\ r.val \in AllValues
    <3>1. r \in Messages
      BY <2>2, QueueFacts DEF Base
    <3> QED BY <3>1 DEF Messages, AllValues
  <2>4. know' \in [Keys -> AllValues]
    BY <1>10, <2>3 DEF zeus_read, AnswerOk
  <2>5. zeus'.up
    BY <1>10, <2>1 DEF zeus_read, Base, TypeInv, ZeusTypes
  <2>6. zeus'.session = "up" => \A n \in DOMAIN rxq' : rxq'[n].kind = "reply" => IsOk(rxq'[n])
    <3>1. CASE r.kind = "notice"
      <4>1. zeus' = zeus
        BY <1>10, <3>1 DEF zeus_read
      <4> HIDE DEF r
      <4> QED BY <4>1, <2>2 DEF AnswerOk
    <3>2. CASE r.kind = "reply"
      <4> HIDE DEF r
      <4>1. \A n \in DOMAIN rxq : rxq[n].kind = "reply" => n = 1
        BY <3>2, <2>2 DEF Base, ReplyInv
      <4> QED BY <4>1, <2>2
    <3> QED BY <3>1, <3>2, <2>3
  <2> QED BY <2>1, <2>4, <2>5, <2>6 DEF AnswerOk, IsOk
<1>11. CASE zeus_start
  <2>1. /\ zeus'.up /\ zeus'.session = zeus.session /\ UNCHANGED <<cb, obuf, rxq, know>>
    BY <1>11 DEF zeus_start, ctlVars, Base, TypeInv, ZeusTypes
  <2> QED BY <2>1 DEF AnswerOk, IsOk
<1>12. CASE zeus_reset
  <2>1. zeus'.session = "none" /\ know' = [q \in Keys |-> Unknown]
    BY <1>12 DEF zeus_reset, Base, TypeInv, ZeusTypes
  <2>2. know' \in [Keys -> AllValues]
    BY <2>1, InfoFacts
  <2> QED BY <2>1, <2>2 DEF AnswerOk
<1>13. CASE \/ zeus_connect \/ (\E q \in Keys : zeus_query(q))
            \/ \E op \in Ops, q \in Keys : zeus_command(op, q)
            \/ \E op \in {"hello", "response", "get_res_stat"}, skip, good \in BOOLEAN : zeus_stray(op, skip, good)
  BY <1>9, <1>13 DEF zeus_connect, zeus_query, zeus_command, zeus_stray
<1>14. CASE Next
  BY <1>4, <1>5, <1>6, <1>7, <1>8, <1>10, <1>11, <1>12, <1>13, <1>14, Cases
<1> QED BY <1>3, <1>14

LEMMA InitKeys == Init => KeysInv /\ AnswerOk
<1> SUFFICES ASSUME Init PROVE KeysInv /\ AnswerOk
  OBVIOUS
<1>1. zeus.session = "none" /\ know = [k \in Keys |-> Unknown]
  BY DEF Init
<1>2. know \in [Keys -> AllValues]
  BY <1>1, InfoFacts
<1> QED BY <1>1, <1>2 DEF KeysInv, KeyInv, AnswerOk

(* Nothing on its way: what the manager knows is current.                  *)
LEMMA KeysInform ==
  ASSUME NoTod, Base, KeysInv
  PROVE  Informed
<1> SUFFICES ASSUME NEW g \in Guests, NEW i \in Infos, Quiet(g, i) PROVE know[<<g, i>>] = val[g][i]
  BY DEF Informed
<1>0. <<g, i>> \in Keys
  BY DEF Keys
<1>1. PICK k \in Keys : k = <<g, i>> /\ k[1] = g /\ k[2] = i
  BY <1>0
<1>2. PICK l \in Keys : l = StateKey(k) /\ l = <<g, "state">> /\ l[1] = g
  BY <1>1, StateKeyFacts DEF StateKey
<1>3. /\ zeus.session = "up" /\ ~zeus.waiting /\ k \notin owed /\ l \notin owed /\ g \notin launch
      /\ \A s \in Strands : GuestOf[s] = g => strand[s].pc = "idle"
  BY <1>1, <1>2 DEF Quiet
<1>4. \A n \in DOMAIN rxq : rxq[n].key[1] # g
  BY QueueFacts DEF Quiet, Base
<1>5. cb = "none"
  BY <1>3 DEF Base, SessionInv, TypeInv, CtlTypes
<1>6. ASSUME NEW q \in Keys, q[1] = g, q \notin owed PROVE ~Asked(q) /\ ~InAnswer(q)
  BY <1>3, <1>4, <1>5, <1>6 DEF Asked, InAnswer, Querying, Reading, Answering, NoticeAt, AnswerAt, InFlight
<1>7. ~Asked(k) /\ ~InAnswer(k) /\ ~Asked(l) /\ ~InAnswer(l)
  BY <1>1, <1>2, <1>3, <1>6
<1>8. ~Pending(g) /\ ~Checks(k)
  BY <1>1, <1>3 DEF Pending, Checks
<1>9. ~Stir(k)
  BY <1>1, <1>2, <1>7, <1>8 DEF Stir, StateAsked
<1>10. Current(k)
  BY <1>3, <1>7, <1>9 DEF KeysInv, KeyInv
<1> QED BY <1>1, <1>7, <1>10 DEF Current, ValueOf

(* With that much room, a manager that has queried what it was told of,    *)
(* with nothing on its way to it, knows every guest as it is: no           *)
(* interleaving of a change, its notification and a query that clears      *)
(* async_busy leaves it with an old value and no reason to ask.            *)
THEOREM ManagerInformed ==
  ASSUME Provisioned
  PROVE  Spec => []Informed
<1>1. NoTod
  BY DEF Provisioned
<1>2. Base /\ KeysInv => Informed
  BY <1>1, KeysInform
<1>3. Base /\ BufInv /\ [Next]_vars => BufInv'
  BY <1>1, NextBuf
<1>4. Base /\ BufInv /\ RoomForAll /\ AnswerOk /\ KeysInv /\ [Next]_vars => KeysInv'
  BY <1>1, NextKeys
<1>5. Spec => []RoomForAll
  BY QueueHasRoom
<1> QED BY <1>2, <1>3, <1>4, <1>5, NextOk, InitCap, InitKeys, BaseInvariant, PTL DEF Spec
=============================================================================
