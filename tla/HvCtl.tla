------------------------------- MODULE HvCtl -------------------------------
(***************************************************************************)
(* The hypervisor control channel, over which the domain manager (Zeus, in *)
(* the control domain) drives the hypervisor: the session of               *)
(* hv_control_pkt, the status queries that re-arm a notification, and the  *)
(* asynchronous notifications that strands send when a guest's state, its  *)
(* soft state or its time of day changes.                                  *)
(*                                                                         *)
(* Three locks meet here: async_lock[info] of each guest, which guards the *)
(* value and the "already notified" flag async_busy[info]; hvctl_ldc_lock, *)
(* which guards the transmit side of the channel; and the single strand on *)
(* which Zeus runs, which is inside hvctl_svc_callback from the moment it  *)
(* hands a packet over until the answer is in its receive queue, and reads *)
(* nothing meanwhile.                                                      *)
(***************************************************************************)
EXTENDS Naturals, Sequences

CONSTANTS
  Guests,      \* the guests besides the control domain
  Strands,     \* the strands those guests run on
  GuestOf,     \* GuestOf[s] is the guest whose vcpu strand s runs
  BootOf,      \* BootOf[g] is the strand of its first vcpu, which boots it
  HcallInfos,  \* the values a guest sets by hypercall: "soft_state", "tod"
  QLEN,        \* elements of Zeus's receive queue; one always stays empty
  SEQMOD,      \* sequence numbers are uint16_t: 2^16
  MaxEvents    \* bound on what guests and manager begin of their own accord:
               \* exits, hypercalls, commands, stray packets, resets of Zeus

ASSUME GuestOfType == GuestOf \in [Strands -> Guests]
ASSUME BootOfType == BootOf \in [Guests -> Strands] /\ \A g \in Guests : GuestOf[BootOf[g]] = g
ASSUME InfosKnown == HcallInfos \subseteq {"soft_state", "tod"}
ASSUME BoundsAreNat == QLEN \in Nat \ {0} /\ SEQMOD \in Nat \ {0, 1} /\ MaxEvents \in Nat
ASSUME SomeGuest == Guests # {}

VARIABLES
  ctl,       \* config.hvctl_state, hvctl_zeus_seq, hvctl_hv_seq
  cb,        \* where Zeus's strand is in hvctl_svc_callback, "none" outside
  ibuf,      \* config.hvctl_ibuf: the packet being processed
  obuf,      \* config.hvctl_obuf: the answer
  ldcLock,   \* config.hvctl_ldc_lock: who holds it
  rxq,       \* Zeus's receive queue
  qconf,     \* whether that queue is configured
  val,       \* val[g][i]: guestp->state, soft_state, tod_offset
  busy,      \* guestp->async_busy
  asyncLock, \* guestp->async_lock: who holds each
  asyncBuf,  \* guestp->async_buf: the notification a hypercall builds
  launch,    \* guests whose boot vcpu is scheduled
  strand,    \* what each strand is doing
  zeus,      \* the domain manager's side of the session
  know,      \* the domain manager's picture of val
  owed,      \* what it has been notified of and has not queried since
  captured,  \* captured[g]: strands of g that read its state to notify it and
             \* have not sent it, oldest first (history)
  budget     \* what is left of MaxEvents

ctlVars   == <<ctl, cb, ibuf, obuf>>
guestVars == <<val, busy, asyncLock, asyncBuf, launch, captured>>
zeusVars  == <<zeus, know, owed>>
vars == <<ctlVars, ldcLock, rxq, qconf, guestVars, strand, zeusVars, budget>>

Infos == {"state"} \cup HcallInfos
Keys  == Guests \X Infos
Control == "control"                      \* Zeus's strand
Nobody  == "nobody"
ASSUME LockHolders == {Control, Nobody} \cap Strands = {}

GuestStates == {"STOPPED", "RESETTING", "NORMAL", "EXITING"}
Values(i) == CASE i = "state"      -> GuestStates
               [] i = "soft_state" -> {"TRANSITION", "SIS_NORMAL"}
               [] i = "tod"        -> {0, 1}
Unknown == "unknown"

\* The lock an access through the control channel takes, and the one the
\* hypercall takes: hcall_tod_set adds no index to GUEST_ASYNC_LOCK.
StatusLock(i) == i
HcallLock(i)  == IF i = "tod" THEN "state" ELSE i

NoKey == CHOOSE k \in Keys : TRUE

Ops == {"hello", "response", "get_res_stat", "guest_start", "unsupported"}
Packet(op, seqn, good, key) == [op |-> op, seqn |-> seqn, good |-> good, key |-> key]
\* good: the version of a hello, or the key of a response, is the right one.
Packets == [op : Ops, seqn : 0 .. SEQMOD - 1, good : BOOLEAN, key : Keys]

Reply(op, st, seqn, key, v) ==
  [kind |-> "reply", op |-> op, st |-> st, seqn |-> seqn, key |-> key, val |-> v]
\* The header of a notification is zeroed: it carries no sequence number.
Notice(key, v) ==
  [kind |-> "notice", op |-> "new_res_stat", st |-> "ok", seqn |-> 0, key |-> key, val |-> v]

Next16(n) == (n + 1) % SEQMOD
RANDOM_SEQ_OFFSET == 2909

NoPacket == Packet("hello", 0, TRUE, NoKey)
NoReply  == Reply("hello", "ok", 0, NoKey, Unknown)
NoAsync  == [info |-> "state", val |-> Unknown]
Idle  == [pc |-> "idle", role |-> "guest", info |-> "state", val |-> Unknown]

-----------------------------------------------------------------------------
(* hv_ldc_send_pkt, by a caller that holds hvctl_ldc_lock. *)

Full == Len(rxq) = QLEN - 1

\* The packet is queued, or lost: ECHANNEL or EIO while Zeus has no queue,
\* EWOULDBLOCK while the queue is full. Only the answer to a command is
\* retried, and only for a full queue.
hv_ldc_send_pkt(msg) ==
  rxq' = IF qconf /\ ~Full THEN Append(rxq, msg) ELSE rxq

-----------------------------------------------------------------------------
(* hv_control_pkt, run on Zeus's strand. *)

\* What is left in hvctl_ibuf is not looked at again.
Processed == cb' = "send" /\ ibuf' = NoPacket

\* hvctl_send_pkt stamps the answer and counts it; reply_cmd drops the
\* session on bad_seqn and eauth.
reply_cmd(state, zseq, st, v) ==
  /\ ctl' = [state |-> IF st \in {"bad_seqn", "eauth"} THEN "UNCONNECTED" ELSE state,
             zeus_seq |-> zseq, hv_seq |-> Next16(ctl.hv_seq)]
  /\ obuf' = Reply(ibuf.op, st, ctl.hv_seq, ibuf.key, v)
  /\ Processed

\* Mutant: no wrap of the manager's number.
op_start_hello_wide ==
  LET zseq == ibuf.seqn + 1
      hseq == (zseq + RANDOM_SEQ_OFFSET) % SEQMOD
  IN  /\ ctl' = [state |-> IF ibuf.good THEN "CHALLENGED" ELSE "UNCONNECTED",
                 zeus_seq |-> zseq, hv_seq |-> Next16(hseq)]
      /\ obuf' = Reply(IF ibuf.good THEN "challenge" ELSE "hello",
                       IF ibuf.good THEN "ok" ELSE "enotsupp", hseq, ibuf.key, Unknown)
      /\ Processed

\* op_start_hello: both sequences start afresh, whatever the state was; a
\* refused version leaves the channel unconnected.
op_start_hello ==
  LET zseq == Next16(ibuf.seqn)
      hseq == (zseq + RANDOM_SEQ_OFFSET) % SEQMOD
  IN  /\ ctl' = [state |-> IF ibuf.good THEN "CHALLENGED" ELSE "UNCONNECTED",
                 zeus_seq |-> zseq, hv_seq |-> Next16(hseq)]
      /\ obuf' = Reply(IF ibuf.good THEN "challenge" ELSE "hello",
                       IF ibuf.good THEN "ok" ELSE "enotsupp", hseq, ibuf.key, Unknown)
      /\ Processed

\* In sequence, and the next number is expected from here on.
InSequence == ctl.zeus_seq = ibuf.seqn

BadSequence == reply_cmd("UNCONNECTED", ctl.zeus_seq, "bad_seqn", Unknown)

pkt_unconnected ==
  /\ ctl.state = "UNCONNECTED"
  /\ IF ibuf.op = "hello" THEN op_start_hello
     ELSE reply_cmd("UNCONNECTED", ctl.zeus_seq, "eauth", Unknown)

\* Mutant: the response is not counted.
pkt_challenged_uncounted ==
  /\ ctl.state = "CHALLENGED"
  /\ CASE ibuf.op = "hello" -> op_start_hello
       [] ibuf.op # "hello" /\ ~InSequence -> BadSequence
       [] OTHER -> IF ibuf.op = "response" /\ ibuf.good
                   THEN reply_cmd("CONNECTED", ctl.zeus_seq, "ok", Unknown)
                   ELSE reply_cmd("UNCONNECTED", Next16(ctl.zeus_seq), "eauth", Unknown)

\* op_start_hello2 checks the key of the response.
pkt_challenged ==
  /\ ctl.state = "CHALLENGED"
  /\ CASE ibuf.op = "hello" -> op_start_hello
       [] ibuf.op # "hello" /\ ~InSequence -> BadSequence
       [] OTHER -> IF ibuf.op = "response" /\ ibuf.good
                   THEN reply_cmd("CONNECTED", Next16(ctl.zeus_seq), "ok", Unknown)
                   ELSE reply_cmd("UNCONNECTED", Next16(ctl.zeus_seq), "eauth", Unknown)

\* A session is up: guest_start and get_res_stat are executed by actions of
\* their own, and an operation outside the switch, or one without a handler
\* (suspend, resume), ends with the initial status, eauth.
pkt_connected ==
  /\ ctl.state = "CONNECTED"
  /\ CASE ibuf.op = "hello" -> op_start_hello
       [] ibuf.op # "hello" /\ ~InSequence -> BadSequence
       [] OTHER -> /\ ibuf.op \notin {"get_res_stat", "guest_start"}
                   /\ reply_cmd("CONNECTED", Next16(ctl.zeus_seq), "eauth", Unknown)

hv_control_pkt ==
  /\ cb = "pkt"
  /\ pkt_unconnected \/ pkt_challenged \/ pkt_connected
  /\ UNCHANGED <<ldcLock, rxq, qconf, guestVars, strand, zeusVars, budget>>

Executes(op) ==
  /\ cb = "pkt" /\ ctl.state = "CONNECTED"
  /\ ibuf.op = op /\ InSequence

\* The guest leaves STOPPED and its boot vcpu is scheduled; any other state
\* refuses the command and the session goes on.
op_guest_start ==
  LET g == ibuf.key[1]
      ok == val[g]["state"] = "STOPPED"
  IN  /\ Executes("guest_start")
      /\ reply_cmd("CONNECTED", Next16(ctl.zeus_seq), IF ok THEN "ok" ELSE "eillegal", Unknown)
      /\ val' = IF ok THEN [val EXCEPT ![g]["state"] = "RESETTING"] ELSE val
      /\ launch' = IF ok THEN launch \cup {g} ELSE launch
      /\ UNCHANGED <<ldcLock, rxq, qconf, busy, asyncLock, asyncBuf, captured,
                     strand, zeusVars, budget>>

\* get_guest_status takes the lock of the info and reads the value ...
get_guest_status ==
  LET g == ibuf.key[1] i == ibuf.key[2]
  IN  /\ Executes("get_res_stat")
      /\ asyncLock[g][StatusLock(i)] = Nobody
      /\ asyncLock' = [asyncLock EXCEPT ![g][StatusLock(i)] = Control]
      /\ obuf' = Reply(ibuf.op, "ok", ctl.hv_seq, ibuf.key, val[g][i])
      /\ cb' = "stat"
      /\ UNCHANGED <<ctl, ibuf, ldcLock, rxq, qconf, val, busy, asyncBuf, launch, captured,
                     strand, zeusVars, budget>>

\* Mutant: the query does not re-arm the notification.
get_guest_status_keep ==
  LET g == ibuf.key[1] i == ibuf.key[2]
  IN  /\ cb = "stat"
      /\ busy' = [busy EXCEPT ![g][i] = @]
      /\ asyncLock' = [asyncLock EXCEPT ![g][StatusLock(i)] = Nobody]
      /\ reply_cmd("CONNECTED", Next16(ctl.zeus_seq), "ok", obuf.val)
      /\ UNCHANGED <<ldcLock, rxq, qconf, val, asyncBuf, launch, captured,
                     strand, zeusVars, budget>>

\* ... clears the flag, so that the next change is notified, and unlocks.
get_guest_status_end ==
  LET g == ibuf.key[1] i == ibuf.key[2]
  IN  /\ cb = "stat"
      /\ busy' = [busy EXCEPT ![g][i] = FALSE]
      /\ asyncLock' = [asyncLock EXCEPT ![g][StatusLock(i)] = Nobody]
      /\ reply_cmd("CONNECTED", Next16(ctl.zeus_seq), "ok", obuf.val)
      /\ UNCHANGED <<ldcLock, rxq, qconf, val, asyncBuf, launch, captured,
                     strand, zeusVars, budget>>

\* hvctl_svc_callback sends the answer under hvctl_ldc_lock and busy-waits
\* while the queue is full; on any other error the answer is dropped.
svc_reply ==
  /\ cb = "send"
  /\ ldcLock = Nobody
  /\ qconf => ~Full
  /\ hv_ldc_send_pkt(obuf)
  /\ cb' = "none"
  /\ obuf' = NoReply
  /\ UNCHANGED <<ctl, ibuf, ldcLock, qconf, guestVars, strand, zeusVars, budget>>

-----------------------------------------------------------------------------
(* Strands that change a guest: its launch, its exit, its hypercalls. *)

Step(s, pc) == strand' = [strand EXCEPT ![s].pc = pc]

\* launch_vcpu of a boot vcpu: the guest is NORMAL, its soft state is reset
\* without a lock and without a notification, and the state is notified.
launch_boot_cpu(s) ==
  LET g == GuestOf[s]
  IN  /\ strand[s].pc = "idle" /\ g \in launch /\ s = BootOf[g]
      /\ launch' = launch \ {g}
      /\ val' = [val EXCEPT ![g] = [i \in Infos |-> CASE i = "state" -> "NORMAL"
                                                      [] i = "soft_state" -> "TRANSITION"
                                                      [] OTHER -> @[i]]]
      /\ strand' = [strand EXCEPT ![s] = [Idle EXCEPT !.pc = "notify", !.role = "launch"]]
      /\ UNCHANGED <<ctlVars, ldcLock, rxq, qconf, busy, asyncLock, asyncBuf, captured,
                     zeusVars, budget>>

\* An exit or reset begins on a strand of a running guest.
exit_begin(s, role) ==
  LET g == GuestOf[s]
  IN  /\ strand[s].pc = "idle" /\ val[g]["state"] = "NORMAL" /\ budget > 0
      /\ val' = [val EXCEPT ![g]["state"] = IF role = "reset" THEN "RESETTING" ELSE "EXITING"]
      /\ strand' = [strand EXCEPT ![s] = [Idle EXCEPT !.pc = "exit", !.role = role]]
      /\ budget' = budget - 1
      /\ UNCHANGED <<ctlVars, ldcLock, rxq, qconf, busy, asyncLock, asyncBuf, launch,
                     captured, zeusVars>>

\* c_guest_exit goes on once every other vcpu has been descheduled, which a
\* strand does outside the hypervisor's code. A strand that is still at the
\* end of an earlier exit runs no vcpu and is not waited for.
exit_end(s) ==
  LET g == GuestOf[s]
  IN  /\ strand[s].pc = "exit"
      /\ \A t \in Strands \ {s} : GuestOf[t] = g =>
           strand[t].pc = "idle" \/ strand[t].role = "exit"
      /\ val' = IF strand[s].role = "reset" THEN val ELSE [val EXCEPT ![g]["state"] = "STOPPED"]
      /\ Step(s, "notify")
      /\ UNCHANGED <<ctlVars, ldcLock, rxq, qconf, busy, asyncLock, asyncBuf, launch,
                     captured, zeusVars, budget>>

\* guest_state_notify returns at once while an earlier notification has not
\* been answered by a query; after a reset the boot vcpu is scheduled.
notify_return(s) ==
  /\ strand' = [strand EXCEPT ![s] = Idle]
  /\ launch' = IF strand[s].role = "reset" THEN launch \cup {GuestOf[s]} ELSE launch

\* Mutant: the early return keeps the lock.
notify_busy_locked(s) ==
  LET g == GuestOf[s]
  IN  /\ strand[s].pc = "notify"
      /\ asyncLock[g]["state"] = Nobody
      /\ busy[g]["state"]
      /\ notify_return(s)
      /\ asyncLock' = [asyncLock EXCEPT ![g]["state"] = s]
      /\ UNCHANGED <<ctlVars, ldcLock, rxq, qconf, val, busy, asyncBuf, captured,
                     zeusVars, budget>>

notify_busy(s) ==
  LET g == GuestOf[s]
  IN  /\ strand[s].pc = "notify"
      /\ asyncLock[g]["state"] = Nobody
      /\ busy[g]["state"]
      /\ notify_return(s)
      /\ UNCHANGED <<ctlVars, ldcLock, rxq, qconf, val, busy, asyncLock, asyncBuf, captured,
                     zeusVars, budget>>

\* Mutant: the guest's lock is released before the channel's is taken.
notify_capture_unlocked(s) ==
  LET g == GuestOf[s]
  IN  /\ strand[s].pc = "notify"
      /\ asyncLock[g]["state"] = Nobody
      /\ ~busy[g]["state"]
      /\ busy' = [busy EXCEPT ![g]["state"] = TRUE]
      /\ asyncLock' = asyncLock
      /\ captured' = [captured EXCEPT ![g] = Append(@, s)]
      /\ strand' = [strand EXCEPT ![s].pc = "ntake", ![s].val = val[g]["state"]]
      /\ UNCHANGED <<ctlVars, ldcLock, rxq, qconf, val, asyncBuf, launch, zeusVars, budget>>

\* Otherwise it marks the guest busy and copies the state, under the lock.
notify_capture(s) ==
  LET g == GuestOf[s]
  IN  /\ strand[s].pc = "notify"
      /\ asyncLock[g]["state"] = Nobody
      /\ ~busy[g]["state"]
      /\ busy' = [busy EXCEPT ![g]["state"] = TRUE]
      /\ asyncLock' = [asyncLock EXCEPT ![g]["state"] = s]
      /\ captured' = [captured EXCEPT ![g] = Append(@, s)]
      /\ strand' = [strand EXCEPT ![s].pc = "ntake", ![s].val = val[g]["state"]]
      /\ UNCHANGED <<ctlVars, ldcLock, rxq, qconf, val, asyncBuf, launch, zeusVars, budget>>

\* The channel's lock is taken before the guest's is released.
notify_take(s) ==
  /\ strand[s].pc = "ntake"
  /\ ldcLock = Nobody
  /\ ldcLock' = s
  /\ asyncLock' = [asyncLock EXCEPT ![GuestOf[s]]["state"] = Nobody]
  /\ Step(s, "nsend")
  /\ UNCHANGED <<ctlVars, rxq, qconf, val, busy, asyncBuf, launch, captured, zeusVars, budget>>

\* The result of the send is not looked at.
notify_send(s) ==
  /\ strand[s].pc = "nsend"
  /\ ldcLock = s
  /\ hv_ldc_send_pkt(Notice(<<GuestOf[s], "state">>, strand[s].val))
  /\ ldcLock' = Nobody
  /\ captured' = [captured EXCEPT ![GuestOf[s]] = Tail(@)]
  /\ notify_return(s)
  /\ UNCHANGED <<ctlVars, qconf, val, busy, asyncLock, asyncBuf, zeusVars, budget>>

\* Vcpus of a guest make hypercalls until the exit has descheduled them.
Runs(g) == \/ val[g]["state"] = "NORMAL"
           \/ \E t \in Strands : GuestOf[t] = g /\ strand[t].pc = "exit"

\* hcall_tod_set ends at once when the time of day does not change.
Changes(g, i, v) == i = "tod" => val[g][i] # v

\* hcall_soft_state_set and hcall_tod_set: a lock of the guest is taken and
\* the value stored. Arguments that are refused change nothing.
hcall_store(s, i, v) ==
  LET g == GuestOf[s]
  IN  /\ strand[s].pc = "idle" /\ Runs(g) /\ budget > 0
      /\ asyncLock[g][HcallLock(i)] = Nobody
      /\ Changes(g, i, v)
      /\ val' = [val EXCEPT ![g][i] = v]
      /\ asyncLock' = [asyncLock EXCEPT ![g][HcallLock(i)] = s]
      /\ strand' = [strand EXCEPT ![s] = [Idle EXCEPT !.pc = "check", !.info = i, !.val = v]]
      /\ budget' = budget - 1
      /\ UNCHANGED <<ctlVars, ldcLock, rxq, qconf, busy, asyncBuf, launch, captured, zeusVars>>

hcall_return(s) ==
  /\ asyncLock' = [asyncLock EXCEPT ![GuestOf[s]][HcallLock(strand[s].info)] = Nobody]
  /\ strand' = [strand EXCEPT ![s] = Idle]

hcall_busy(s) ==
  /\ strand[s].pc = "check"
  /\ busy[GuestOf[s]][strand[s].info]
  /\ hcall_return(s)
  /\ UNCHANGED <<ctlVars, ldcLock, rxq, qconf, val, busy, asyncBuf, launch, captured,
                 zeusVars, budget>>

\* Mutant: the flag is not set.
hcall_build_idle(s) ==
  LET g == GuestOf[s] i == strand[s].info
  IN  /\ strand[s].pc = "check"
      /\ ~busy[g][i]
      /\ busy' = [busy EXCEPT ![g][i] = FALSE]
      /\ asyncBuf' = [asyncBuf EXCEPT ![g].info = i]
      /\ Step(s, "data")
      /\ UNCHANGED <<ctlVars, ldcLock, rxq, qconf, val, asyncLock, launch, captured,
                     zeusVars, budget>>

\* The notification is built in the guest's one asynchronous buffer, first
\* its header ...
hcall_build(s) ==
  LET g == GuestOf[s] i == strand[s].info
  IN  /\ strand[s].pc = "check"
      /\ ~busy[g][i]
      /\ busy' = [busy EXCEPT ![g][i] = TRUE]
      /\ asyncBuf' = [asyncBuf EXCEPT ![g].info = i]
      /\ Step(s, "data")
      /\ UNCHANGED <<ctlVars, ldcLock, rxq, qconf, val, asyncLock, launch, captured,
                     zeusVars, budget>>

\* ... then its data ...
hcall_data(s) ==
  /\ strand[s].pc = "data"
  /\ asyncBuf' = [asyncBuf EXCEPT ![GuestOf[s]].val = strand[s].val]
  /\ Step(s, "hsend")
  /\ UNCHANGED <<ctlVars, ldcLock, rxq, qconf, val, busy, asyncLock, launch, captured,
                 zeusVars, budget>>

\* ... and sent under the channel's lock; the result is not looked at. What
\* no other strand is about to send is forgotten: it is never read again.
hcall_send(s) ==
  LET g == GuestOf[s]
      others == {t \in Strands \ {s} : GuestOf[t] = g /\ strand[t].pc \in {"data", "hsend"}}
  IN  /\ strand[s].pc = "hsend"
      /\ ldcLock = Nobody
      /\ hv_ldc_send_pkt(Notice(<<g, asyncBuf[g].info>>, asyncBuf[g].val))
      /\ asyncBuf' = IF others = {} THEN [asyncBuf EXCEPT ![g] = NoAsync] ELSE asyncBuf
      /\ hcall_return(s)
      /\ UNCHANGED <<ctlVars, ldcLock, qconf, val, busy, launch, captured, zeusVars, budget>>

-----------------------------------------------------------------------------
(* The domain manager (external): one packet at a time, and one query for *)
(* each notification.                                                     *)

\* A packet is copied into hvctl_ibuf and hv_control_pkt is called.
Hand(pkt, session) ==
  /\ cb = "none" /\ zeus.up /\ ~zeus.waiting
  /\ ibuf' = pkt
  /\ cb' = "pkt"
  /\ zeus' = [zeus EXCEPT !.waiting = TRUE, !.session = session, !.seq = Next16(pkt.seqn)]
  /\ UNCHANGED <<ctl, obuf, ldcLock, rxq, qconf, guestVars, strand, know>>

\* The handshake: hello, which "should have sequence number 1", then the
\* response.
zeus_connect ==
  /\ \/ /\ zeus.session = "none"
        /\ Hand(Packet("hello", 1, TRUE, NoKey), "hello")
     \/ /\ zeus.session = "challenged"
        /\ Hand(Packet("response", zeus.seq, TRUE, NoKey), "response")
  /\ UNCHANGED <<owed, budget>>

\* What it owes it asks for, the state of a guest before the rest. The debt
\* ends when the query is sent, not when it is answered: the answer may be
\* overtaken by a notification of a later change.
zeus_query(k) ==
  /\ zeus.session = "up" /\ k \in owed
  /\ k[2] # "state" => <<k[1], "state">> \notin owed
  /\ Hand(Packet("get_res_stat", zeus.seq, TRUE, k), "up")
  /\ owed' = owed \ {k}
  /\ UNCHANGED budget

\* It also asks, starts guests, and sends what the hypervisor does not
\* support, unprompted.
zeus_command(op, k) ==
  /\ zeus.session = "up" /\ owed = {} /\ budget > 0
  /\ op \in {"get_res_stat", "guest_start", "unsupported"}
  /\ Hand(Packet(op, zeus.seq, TRUE, k), "up")
  /\ budget' = budget - 1
  /\ UNCHANGED owed

\* A manager that has lost count, or is not the one that connected: an
\* operation at the wrong time, with the right number or the one after it,
\* a refused version, a wrong key.
zeus_stray(op, skip, good) ==
  /\ budget > 0
  /\ good \/ (op # "get_res_stat" /\ ~skip)
  /\ Hand(Packet(op, IF skip THEN Next16(zeus.seq) ELSE zeus.seq, good, NoKey), "none")
  /\ UNCHANGED owed
  /\ budget' = budget - 1

Refusals == {"bad_seqn", "eauth", "enotsupp"}

\* The session as the manager sees it after a reply. It compares the numbers
\* of replies with its own count once it is connected.
AfterReply(r) ==
  IF r.st \in Refusals THEN "none"
  ELSE CASE r.op = "challenge" /\ zeus.session = "hello" -> "challenged"
         [] r.op = "response" /\ zeus.session = "response" /\ r.seqn = zeus.expect -> "up"
         [] zeus.session = "up" /\ r.seqn = zeus.expect -> "up"
         [] OTHER -> "none"

\* It takes a packet off its queue. A new session asks for everything, and a
\* guest's state is followed by its other values, which a launch resets.
zeus_read ==
  LET r == Head(rxq)
      session == AfterReply(r)
  IN  /\ cb = "none" /\ zeus.up /\ rxq # <<>>
      /\ rxq' = Tail(rxq)
      /\ IF r.kind = "notice"
         THEN /\ know' = [know EXCEPT ![r.key] = r.val]
              /\ owed' = owed \cup {r.key}
              /\ zeus' = zeus
         ELSE /\ zeus' = [zeus EXCEPT !.waiting = FALSE, !.session = session,
                                     !.expect = IF session = "none" THEN 0 ELSE Next16(r.seqn)]
              /\ know' = IF r.op = "get_res_stat" /\ r.st = "ok"
                         THEN [know EXCEPT ![r.key] = r.val] ELSE know
              /\ owed' = CASE session = "up" /\ zeus.session = "response" -> Keys
                           [] session = "up" /\ r.op = "get_res_stat" ->
                                owed \cup {k \in Keys : r.key[2] = "state" /\ k[1] = r.key[1] /\ k # r.key}
                           [] OTHER -> owed
      /\ UNCHANGED <<ctlVars, ldcLock, qconf, guestVars, strand, budget>>

\* The control domain resets: its strand is outside the hypervisor, its
\* queue goes, and the hypervisor's side of the session stays as it was.
zeus_reset ==
  /\ cb = "none" /\ zeus.up /\ budget > 0
  /\ zeus' = [zeus EXCEPT !.up = FALSE, !.waiting = FALSE, !.session = "none",
                          !.seq = 0, !.expect = 0]
  /\ know' = [k \in Keys |-> Unknown]
  /\ owed' = {}
  /\ rxq' = <<>> /\ qconf' = FALSE
  /\ budget' = budget - 1
  /\ UNCHANGED <<ctlVars, ldcLock, guestVars, strand>>

\* ldc_rx_qconf by the manager when it comes up.
zeus_start ==
  /\ ~zeus.up
  /\ zeus' = [zeus EXCEPT !.up = TRUE]
  /\ qconf' = TRUE
  /\ UNCHANGED <<ctlVars, ldcLock, rxq, guestVars, strand, know, owed, budget>>

-----------------------------------------------------------------------------
\* kickoff_guests has started every guest, and Zeus, which is one of the
\* programs they will run, has no queue yet.
Init ==
  /\ ctl = [state |-> "UNCONNECTED", zeus_seq |-> 0, hv_seq |-> 0]
  /\ cb = "none"
  /\ ibuf = NoPacket /\ obuf = NoReply
  /\ ldcLock = Nobody
  /\ rxq = <<>> /\ qconf = FALSE
  /\ val = [g \in Guests |-> [i \in Infos |-> CASE i = "state" -> "RESETTING"
                                              [] i = "soft_state" -> "TRANSITION"
                                              [] OTHER -> 0]]
  /\ busy = [g \in Guests |-> [i \in Infos |-> FALSE]]
  /\ asyncLock = [g \in Guests |-> [i \in Infos |-> Nobody]]
  /\ asyncBuf = [g \in Guests |-> NoAsync]
  /\ launch = Guests
  /\ strand = [s \in Strands |-> Idle]
  /\ zeus = [up |-> FALSE, waiting |-> FALSE, session |-> "none", seq |-> 0, expect |-> 0]
  /\ know = [k \in Keys |-> Unknown]
  /\ owed = {}
  /\ captured = [g \in Guests |-> <<>>]
  /\ budget = MaxEvents

ControlStep == hv_control_pkt \/ op_guest_start \/ get_guest_status
               \/ get_guest_status_end \/ svc_reply

\* What a strand does once it has begun; the beginnings are a guest's choice.
StrandStep(s) ==
  \/ launch_boot_cpu(s) \/ exit_end(s)
  \/ notify_busy(s) \/ notify_capture(s) \/ notify_take(s) \/ notify_send(s)
  \/ hcall_busy(s) \/ hcall_build(s) \/ hcall_data(s) \/ hcall_send(s)

GuestEvent(s) ==
  \/ \E role \in {"exit", "reset"} : exit_begin(s, role)
  \/ \E i \in HcallInfos : \E v \in Values(i) : hcall_store(s, i, v)

\* What the manager does in the end, and what it may do.
ZeusStep == zeus_connect \/ (\E k \in Keys : zeus_query(k)) \/ zeus_read \/ zeus_start
ZeusEvent ==
  \/ \E op \in Ops, k \in Keys : zeus_command(op, k)
  \/ \E op \in {"hello", "response", "get_res_stat"}, skip, good \in BOOLEAN :
       zeus_stray(op, skip, good)
  \/ zeus_reset

\* What was begun goes on.
Progress == ControlStep \/ ZeusStep \/ \E s \in Strands : StrandStep(s)

Next == Progress \/ ZeusEvent \/ \E s \in Strands : GuestEvent(s)

Spec == Init /\ [][Next]_vars

\* The machine does not stop while some strand can go on: less than fairness
\* to every strand, and nothing is assumed of who wins a spin lock.
Fairness == WF_vars(Progress)

FairSpec == Spec /\ Fairness

-----------------------------------------------------------------------------
(* Properties. *)

Messages == [kind : {"reply", "notice"}, op : Ops \cup {"challenge", "new_res_stat"},
             st : {"ok", "eillegal"} \cup Refusals, seqn : 0 .. SEQMOD - 1, key : Keys,
             val : (UNION {Values(i) : i \in Infos}) \cup {Unknown}]

\* Every sequence number stays in 16 bits, the locks have at most one holder
\* and the queue never holds more than its elements but one.
TypeOK ==
  /\ ctl \in [state : {"UNCONNECTED", "CHALLENGED", "CONNECTED"},
               zeus_seq : 0 .. SEQMOD - 1, hv_seq : 0 .. SEQMOD - 1]
  /\ cb \in {"none", "pkt", "stat", "send"}
  /\ ibuf \in Packets /\ obuf \in Messages
  /\ ldcLock \in Strands \cup {Nobody}
  /\ rxq \in Seq(Messages) /\ Len(rxq) < QLEN
  /\ qconf \in BOOLEAN /\ (~qconf => rxq = <<>>)
  /\ \A g \in Guests, i \in Infos :
       /\ val[g][i] \in Values(i) /\ busy[g][i] \in BOOLEAN
       /\ asyncLock[g][i] \in Strands \cup {Control, Nobody}
  /\ launch \subseteq Guests /\ owed \subseteq Keys
  /\ zeus.seq \in 0 .. SEQMOD - 1 /\ zeus.expect \in 0 .. SEQMOD - 1

\* Whenever the manager believes it is connected and is about to send, the
\* hypervisor is connected too, expects the number the manager will use, and
\* will answer with the number the manager expects: through resets of the
\* control domain, packets out of protocol, refused commands and the wrap of
\* both counters (hv_control_pkt, op_start_hello, hvctl_send_pkt).
SessionAgrees ==
  zeus.session = "up" /\ ~zeus.waiting =>
    /\ ctl.state = "CONNECTED"
    /\ ctl.zeus_seq = zeus.seq
    /\ ctl.hv_seq = zeus.expect

\* A manager that keeps one command outstanding needs room for one
\* notification of every value it is told of, a second one of the value it
\* is querying, and the answer: with that much no notification is lost to a
\* full queue (the send's result is ignored, hvcontrol.c:1009 and
\* hcall_soft_state.s:159) and hvctl_svc_callback never waits for the strand
\* that it runs on (init.c:825).
RoomForAll ==
  qconf /\ (cb = "send" \/ \E s \in Strands : strand[s].pc \in {"nsend", "hsend"}) => ~Full

\* State notifications of a guest leave in the order in which its state was
\* read, even when a query re-arms the guest while one of them is on its way
\* (the comment at hvcontrol.c:1002).
NotifyOrder == \A s \in Strands : strand[s].pc = "nsend" => Head(captured[GuestOf[s]]) = s

Quiet(g, i) ==
  /\ zeus.session = "up" /\ ~zeus.waiting
  /\ <<g, i>> \notin owed /\ <<g, "state">> \notin owed
  /\ g \notin launch
  /\ \A n \in 1 .. Len(rxq) : rxq[n].key[1] # g
  /\ \A s \in Strands : GuestOf[s] = g => strand[s].pc = "idle"

\* A manager that has queried what it was told of, with nothing on its way
\* to it, knows the guest as it is: no interleaving of a change, its
\* notification, a query that clears async_busy and a send that was dropped
\* leaves it with an old value and no reason to ask
\* (get_guest_status, guest_state_notify, hcall_soft_state_set, hcall_tod_set).
Informed == \A g \in Guests, i \in Infos : Quiet(g, i) => know[<<g, i>>] = val[g][i]

\* Once guests and manager have nothing more to do, every strand is out of
\* the hypervisor, the session is up and the manager knows every guest: no
\* lock is left held, no answer is waited for in vain.
ZeusLearns ==
  <>[](/\ zeus.session = "up" /\ cb = "none" /\ owed = {}
       /\ \A s \in Strands : strand[s].pc = "idle"
       /\ \A g \in Guests, i \in Infos : know[<<g, i>>] = val[g][i])
====
