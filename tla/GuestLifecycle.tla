--------------------------- MODULE GuestLifecycle ---------------------------
(***************************************************************************)
(* Starting, stopping and resetting the virtual cpus of one guest: the     *)
(* hypercalls cpu_start, cpu_stop, mach_exit and mach_sir (hcall_core.s),  *)
(* c_guest_exit and guest_ignition (init.c), the domain manager's          *)
(* operations op_guest_start, op_guest_stop and op_guest_panic             *)
(* (hvcontrol.c), the cross-call handlers of hv_common_cmds.s and the      *)
(* strand's work loop start_work / launch_vcpu (huron main.s).             *)
(*                                                                         *)
(* One vcpu is bound to each strand ("This HV only runs 1 vcpu per         *)
(* strand"), so v names both.  A strand in the hypervisor takes no         *)
(* interrupts; busy waiting is an action that is not enabled.  Mailboxes   *)
(* are those of XcallMailbox.  ASSERTs are off, as in the release build;   *)
(* what they assert is stated as properties.                               *)
(***************************************************************************)
EXTENDS Integers, FiniteSets, FiniteSetsExt

CONSTANTS NVCPUS,      \* number of vcpus of the guest; their vids are 0..NVCPUS-1
          Up,          \* the vcpus running in the initial state ({}: guest stopped)
          Failed,      \* the vcpus configured on a dead strand: CPU_STATE_ERROR
          MayFail,     \* the vcpus whose strand may take a fatal error
          Hcalls,      \* hypercalls the guest makes: "start", "stop", "exit", "sir"
          ZeusOps,     \* what the domain manager does: "start", "stop", "panic"
          Kinds        \* what the guest may be: an ordinary guest, the control
                       \* domain, or the last guest that is configured

Vcpus == 0 .. NVCPUS - 1

(* A strand is named by a uint8_t, and 0xff is what a failed search for    *)
(* one returns.                                                            *)
ASSUME LifecycleAssumption ==
  /\ NVCPUS \in 1 .. 255
  /\ Up \subseteq Vcpus /\ Failed \subseteq Vcpus /\ MayFail \subseteq Vcpus
  /\ Up \cap Failed = {}
  /\ Kinds \subseteq {"ordinary", "control", "last"}

Nobody == -1                \* state_lock is free
NoMondo == "none"

VARIABLES
  gstate,     \* guest.state
  lock,       \* guest.state_lock: its holder
  status,     \* status[v]: vcpu.status
  slot,       \* slot[v]: the strand's work slot holds SLOT_ACTION_RUN_VCPU
  mbox,       \* mbox[v]: the command in strand v's cross-call mailbox
  pc,         \* pc[v]: what strand v is doing
  arg,        \* arg[v]: the vcpu strand v works on; the loop index of c_guest_exit
  reason,     \* reason[v]: second argument of c_guest_exit
  zpc, zcmd, ztgt,  \* the domain manager's operation, the mondo and its target
  kind        \* what the guest is; never changes

zvars == <<zpc, zcmd, ztgt, kind>>
vars == <<gstate, lock, status, slot, mbox, pc, arg, reason, zvars>>

GuestStates == {"STOPPED", "RESETTING", "NORMAL", "EXITING"}
CpuStates == {"STOPPED", "STARTING", "RUNNING", "STOPPING", "ERROR"}
InGuest == {"guest", "start_send", "stop_mark", "stop_send", "stop_wait"}
Exiting == {"exit", "exit_send", "exit_wait"}
PC == {"idle", "work", "boot", "enter", "ignite_send", "abort", "dead", "off"} \cup InGuest \cup Exiting

Init == /\ gstate = IF Up = {} THEN "STOPPED" ELSE "NORMAL"
        /\ lock = Nobody
        /\ status = [v \in Vcpus |-> IF v \in Up THEN "RUNNING"
                                     ELSE IF v \in Failed THEN "ERROR" ELSE "STOPPED"]
        /\ slot = [v \in Vcpus |-> v \in Up]
        /\ mbox = [v \in Vcpus |-> NoMondo]
        /\ pc = [v \in Vcpus |-> IF v \in Up THEN "guest"
                                 ELSE IF v \in Failed THEN "dead" ELSE "idle"]
        /\ arg = [v \in Vcpus |-> 0]
        /\ reason = [v \in Vcpus |-> "MACH_EXIT"]
        /\ zpc = "none" /\ zcmd = NoMondo /\ ztgt = 0
        /\ kind \in Kinds

(* Strand v moves to label l and nothing else of its control state changes. *)
Goto(v, l) == pc' = [pc EXCEPT ![v] = l]

(* c_hvmondo_send of cmd to strand w, once its mailbox is free.            *)
Post(w, cmd) == mbox[w] = NoMondo /\ mbox' = [mbox EXCEPT ![w] = cmd]

-----------------------------------------------------------------------------
(* cpu_start                                                               *)

(* The part under state_lock; the other outcomes return an error code and  *)
(* change nothing.                                                         *)
hcall_cpu_start(v, w) ==
  /\ "start" \in Hcalls
  /\ pc[v] = "guest"
  /\ lock = Nobody
  /\ gstate = "NORMAL"
  /\ status[w] = "STOPPED"
  /\ status' = [status EXCEPT ![w] = "STARTING"]
  /\ arg' = [arg EXCEPT ![v] = w]
  /\ Goto(v, "start_send")
  /\ UNCHANGED <<gstate, lock, slot, mbox, reason, zvars>>

start_send(v) ==
  /\ pc[v] = "start_send"
  /\ Post(arg[v], "SCHED_VCPU")
  /\ Goto(v, "guest")
  /\ UNCHANGED <<gstate, lock, status, slot, arg, reason, zvars>>

-----------------------------------------------------------------------------
(* cpu_stop                                                                *)

(* Mutant: the caller may be STOPPING.                                     *)
cpu_stop_mutual(v, w) ==
  /\ "stop" \in Hcalls
  /\ pc[v] = "guest"
  /\ w # v
  /\ lock = Nobody
  /\ gstate # "EXITING"
  /\ status[w] \notin {"STOPPED", "ERROR", "STOPPING", "STARTING"}
  /\ lock' = v
  /\ arg' = [arg EXCEPT ![v] = w]
  /\ Goto(v, "stop_mark")
  /\ UNCHANGED <<gstate, status, slot, mbox, reason, zvars>>

(* Takes state_lock and checks: not itself, the guest is not EXITING (a    *)
(* RESETTING guest is let through), the caller is not being stopped, the   *)
(* target is neither down nor in transition.                               *)
hcall_cpu_stop(v, w) ==
  /\ "stop" \in Hcalls
  /\ pc[v] = "guest"
  /\ w # v
  /\ lock = Nobody
  /\ gstate # "EXITING"
  /\ status[v] # "STOPPING"
  /\ status[w] \notin {"STOPPED", "ERROR", "STOPPING", "STARTING"}
  /\ lock' = v
  /\ arg' = [arg EXCEPT ![v] = w]
  /\ Goto(v, "stop_mark")
  /\ UNCHANGED <<gstate, status, slot, mbox, reason, zvars>>

(* Mutant: the target is marked STOPPED at once.                           *)
stop_mark_stopped(v) ==
  /\ pc[v] = "stop_mark"
  /\ status' = [status EXCEPT ![arg[v]] = "STOPPED"]
  /\ lock' = Nobody
  /\ Goto(v, "stop_send")
  /\ UNCHANGED <<gstate, slot, mbox, arg, reason, zvars>>

(* Mutant: the target is not marked.                                       *)
stop_mark_none(v) ==
  /\ pc[v] = "stop_mark"
  /\ lock' = Nobody
  /\ Goto(v, "stop_send")
  /\ UNCHANGED <<gstate, status, slot, mbox, arg, reason, zvars>>

(* Stores STOPPING over whatever the target's status is by now, unlocks.   *)
stop_mark(v) ==
  /\ pc[v] = "stop_mark"
  /\ status' = [status EXCEPT ![arg[v]] = "STOPPING"]
  /\ lock' = Nobody
  /\ Goto(v, "stop_send")
  /\ UNCHANGED <<gstate, slot, mbox, arg, reason, zvars>>

stop_send(v) ==
  /\ pc[v] = "stop_send"
  /\ Post(arg[v], "STOP_VCPU")
  /\ Goto(v, "stop_wait")
  /\ UNCHANGED <<gstate, lock, status, slot, arg, reason, zvars>>

(* Spins until the target's status is no longer STOPPING.                  *)
stop_wait(v) ==
  /\ pc[v] = "stop_wait"
  /\ status[arg[v]] # "STOPPING"
  /\ Goto(v, "guest")
  /\ UNCHANGED <<gstate, lock, status, slot, mbox, arg, reason, zvars>>

-----------------------------------------------------------------------------
(* mach_exit and mach_sir                                                  *)

(* Enter c_guest_exit on strand v with the guest in state s.               *)
BeginExit(v, s, r) ==
  /\ gstate' = s
  /\ reason' = [reason EXCEPT ![v] = r]
  /\ arg' = [arg EXCEPT ![v] = 0]
  /\ Goto(v, "exit")
  /\ UNCHANGED <<lock, status, slot, mbox, zvars>>

(* Somebody is already shutting the guest down: deschedule this vcpu and   *)
(* wait for the cross-call that stops it.                                  *)
JoinExit(v) ==
  /\ gstate \in {"RESETTING", "EXITING"}
  /\ slot' = [slot EXCEPT ![v] = FALSE]
  /\ Goto(v, "work")
  /\ UNCHANGED <<gstate, lock, status, mbox, arg, reason, zvars>>

(* guest_exit; the last guest powers the host off and never returns, and   *)
(* the control domain is reset instead of stopped.                         *)
hcall_mach_exit(v) ==
  /\ "exit" \in Hcalls
  /\ pc[v] = "guest"
  /\ \/ /\ kind = "last"
        /\ Goto(v, "off")
        /\ UNCHANGED <<gstate, lock, status, slot, mbox, arg, reason, zvars>>
     \/ /\ kind # "last" /\ lock = Nobody
        /\ JoinExit(v)
     \/ /\ kind # "last" /\ lock = Nobody
        /\ gstate \notin {"RESETTING", "EXITING"}
        /\ IF kind = "control" THEN BeginExit(v, "RESETTING", "MACH_SIR")
                                 ELSE BeginExit(v, "EXITING", "MACH_EXIT")

(* Mutant: a guest already going down is reset again.                      *)
mach_sir_again(v) ==
  /\ "sir" \in Hcalls
  /\ pc[v] = "guest"
  /\ lock = Nobody
  /\ \/ JoinExit(v)
     \/ /\ BeginExit(v, "RESETTING", "MACH_SIR")

hcall_mach_sir(v) ==
  /\ "sir" \in Hcalls
  /\ pc[v] = "guest"
  /\ lock = Nobody
  /\ \/ JoinExit(v)
     \/ /\ gstate \notin {"RESETTING", "EXITING"}
        /\ BeginExit(v, "RESETTING", "MACH_SIR")

-----------------------------------------------------------------------------
(* c_guest_exit                                                            *)

(* desched_n_stop_vcpu: empty the slot, tear the vcpu down, mark it        *)
(* STOPPED unless it is in error.                                          *)
Stopped(v) == [status EXCEPT ![v] = IF @ = "ERROR" THEN @ ELSE "STOPPED"]

exit_local(v) ==
  /\ pc[v] = "exit" /\ arg[v] = v
  /\ slot' = [slot EXCEPT ![v] = FALSE]
  /\ status' = Stopped(v)
  /\ arg' = [arg EXCEPT ![v] = @ + 1]
  /\ UNCHANGED <<gstate, lock, mbox, pc, reason, zvars>>

(* Wait out a transition of the next vcpu; skip one that is in error.      *)
exit_remote(v) ==
  /\ pc[v] = "exit" /\ arg[v] \in Vcpus \ {v}
  /\ status[arg[v]] \notin {"STARTING", "STOPPING"}
  /\ IF status[arg[v]] = "ERROR"
     THEN arg' = [arg EXCEPT ![v] = @ + 1] /\ UNCHANGED pc
     ELSE Goto(v, "exit_send") /\ UNCHANGED arg
  /\ UNCHANGED <<gstate, lock, status, slot, mbox, reason, zvars>>

exit_send(v) ==
  /\ pc[v] = "exit_send"
  /\ Post(arg[v], "STOP_VCPU")
  /\ Goto(v, "exit_wait")
  /\ UNCHANGED <<gstate, lock, status, slot, arg, reason, zvars>>

(* Mutant: the vcpu is not waited for.                                     *)
exit_wait_none(v) ==
  /\ pc[v] = "exit_wait"
  /\ arg' = [arg EXCEPT ![v] = @ + 1]
  /\ Goto(v, "exit")
  /\ UNCHANGED <<gstate, lock, status, slot, mbox, reason, zvars>>

(* Mutant: a vcpu that fails meanwhile is waited for.                      *)
exit_wait_noerror(v) ==
  /\ pc[v] = "exit_wait"
  /\ status[arg[v]] \in {"STOPPED"}
  /\ arg' = [arg EXCEPT ![v] = @ + 1]
  /\ Goto(v, "exit")
  /\ UNCHANGED <<gstate, lock, status, slot, mbox, reason, zvars>>

(* Mutant: the loop index is bumped twice.                                 *)
exit_wait_skip(v) ==
  /\ pc[v] = "exit_wait"
  /\ status[arg[v]] \in {"STOPPED", "ERROR"}
  /\ arg' = [arg EXCEPT ![v] = @ + 2]
  /\ Goto(v, "exit")
  /\ UNCHANGED <<gstate, lock, status, slot, mbox, reason, zvars>>

exit_wait(v) ==
  /\ pc[v] = "exit_wait"
  /\ status[arg[v]] \in {"STOPPED", "ERROR"}
  /\ arg' = [arg EXCEPT ![v] = @ + 1]
  /\ Goto(v, "exit")
  /\ UNCHANGED <<gstate, lock, status, slot, mbox, reason, zvars>>

(* guest_ignition's choice: the first vcpu that is not in error.           *)
Bootable == {v \in Vcpus : status[v] # "ERROR"}

(* All vcpus are down.  A stop is complete; a reset restarts the first     *)
(* usable vcpu, on this strand through the slot, elsewhere by cross-call.  *)
exit_done(v) ==
  /\ pc[v] = "exit" /\ arg[v] = NVCPUS
  /\ \/ /\ reason[v] = "MACH_EXIT"
        /\ lock = Nobody
        /\ gstate' = "STOPPED"
        /\ Goto(v, "work")
        /\ UNCHANGED <<slot, arg>>
     \/ /\ reason[v] = "MACH_SIR"
        /\ Bootable = {}
        /\ Goto(v, "work")
        /\ UNCHANGED <<gstate, slot, arg>>
     \/ /\ reason[v] = "MACH_SIR"
        /\ Bootable # {}
        /\ LET b == Min(Bootable)
           IN  IF b = v THEN /\ slot' = [slot EXCEPT ![v] = TRUE]
                             /\ Goto(v, "work")
                             /\ UNCHANGED arg
                        ELSE /\ arg' = [arg EXCEPT ![v] = b]
                             /\ Goto(v, "ignite_send")
                             /\ UNCHANGED slot
        /\ UNCHANGED gstate
  /\ UNCHANGED <<lock, status, mbox, reason, zvars>>

ignite_send(v) ==
  /\ pc[v] = "ignite_send"
  /\ Post(arg[v], "SCHED_VCPU")
  /\ Goto(v, "work")
  /\ UNCHANGED <<gstate, lock, status, slot, arg, reason, zvars>>

-----------------------------------------------------------------------------
(* The strand's work loop                                                  *)

(* start_work: nothing scheduled, wait for a mondo.                        *)
start_work_idle(v) ==
  /\ pc[v] = "work" /\ ~slot[v]
  /\ Goto(v, "idle")
  /\ UNCHANGED <<gstate, lock, status, slot, mbox, arg, reason, zvars>>

(* launch_vcpu on a scheduled vcpu.  From STOPPED or STARTING, slow_start: *)
(* in a NORMAL guest a secondary cpu, in a RESETTING guest the boot cpu,   *)
(* otherwise HVABORT.  A vcpu in any other state is simply restored.       *)
launch_vcpu(v) ==
  /\ pc[v] = "work" /\ slot[v]
  /\ \/ /\ status[v] \in {"STOPPED", "STARTING"}
        /\ Goto(v, CASE gstate = "NORMAL" -> "enter"
                     [] gstate = "RESETTING" -> "boot"
                     [] OTHER -> "abort")
        /\ UNCHANGED status
     \/ /\ status[v] \notin {"STOPPED", "STARTING"}
        /\ status' = [status EXCEPT ![v] = "RUNNING"]
        /\ Goto(v, "guest")
  /\ UNCHANGED <<gstate, lock, slot, mbox, arg, reason, zvars>>

(* Mutant: the guest is not marked NORMAL.                                 *)
launch_boot_nostate(v) ==
  /\ pc[v] = "boot"
  /\ Goto(v, "enter")
  /\ UNCHANGED <<gstate, lock, status, slot, mbox, arg, reason, zvars>>

(* The boot cpu has scrubbed memory and copied the prom: the guest is      *)
(* NORMAL from here on (stored without state_lock).                        *)
launch_boot_cpu(v) ==
  /\ pc[v] = "boot"
  /\ gstate' = "NORMAL"
  /\ Goto(v, "enter")
  /\ UNCHANGED <<lock, status, slot, mbox, arg, reason, zvars>>

enter_guest(v) ==
  /\ pc[v] = "enter"
  /\ status' = [status EXCEPT ![v] = "RUNNING"]
  /\ Goto(v, "guest")
  /\ UNCHANGED <<gstate, lock, slot, mbox, arg, reason, zvars>>

(* What the cross-call commands do once the mailbox is emptied.  The panic *)
(* command enters the vcpu at once, past the work loop.  The shutdown      *)
(* request is left out: it does the same with another error report.        *)
schedule_vcpu_cmd(v) ==
  /\ slot' = [slot EXCEPT ![v] = TRUE]
  /\ Goto(v, "work")
  /\ UNCHANGED <<status, arg, reason>>

stop_vcpu_cmd(v) ==
  /\ slot' = [slot EXCEPT ![v] = FALSE]
  /\ status' = Stopped(v)
  /\ Goto(v, "work")
  /\ UNCHANGED <<arg, reason>>

stop_guest_cmd(v) ==
  /\ reason' = [reason EXCEPT ![v] = "MACH_EXIT"]
  /\ arg' = [arg EXCEPT ![v] = 0]
  /\ Goto(v, "exit")
  /\ UNCHANGED <<status, slot>>

panic_guest_cmd(v) ==
  /\ Goto(v, "guest")
  /\ UNCHANGED <<status, slot, arg, reason>>

(* From the guest (hvxcall_mondo) or from hvmondo_wait.                    *)
handle_hvmondo(v) ==
  /\ pc[v] \in {"guest", "idle"}
  /\ mbox[v] # NoMondo
  /\ mbox' = [mbox EXCEPT ![v] = NoMondo]
  /\ \/ mbox[v] = "SCHED_VCPU" /\ schedule_vcpu_cmd(v)
     \/ mbox[v] = "STOP_VCPU" /\ stop_vcpu_cmd(v)
     \/ mbox[v] = "STOP_GUEST" /\ stop_guest_cmd(v)
     \/ mbox[v] = "GUEST_PANIC" /\ panic_guest_cmd(v)
  /\ UNCHANGED <<gstate, lock, zvars>>

(* A fatal error trap of the strand: SET_CPU_IN_ERROR, and the strand      *)
(* leaves service for good.                                                *)
strand_in_error(v) ==
  /\ v \in MayFail
  /\ pc[v] = "guest"
  /\ status' = [status EXCEPT ![v] = "ERROR"]
  /\ Goto(v, "dead")
  /\ UNCHANGED <<gstate, lock, slot, mbox, arg, reason, zvars>>

-----------------------------------------------------------------------------
(* Domain manager operations.  It runs in the control domain and works on  *)
(* the other guests.                                                       *)

(* Mutant: a guest in any state is started.                                *)
op_guest_start_any ==
  /\ "start" \in ZeusOps
  /\ zpc = "none" /\ kind # "control"
  /\ lock = Nobody
  /\ gstate' = "RESETTING"
  /\ zpc' = "ignite"
  /\ UNCHANGED <<lock, status, slot, mbox, pc, arg, reason, zcmd, ztgt, kind>>

op_guest_start ==
  /\ "start" \in ZeusOps
  /\ zpc = "none" /\ kind # "control"
  /\ lock = Nobody
  /\ gstate = "STOPPED"
  /\ gstate' = "RESETTING"
  /\ zpc' = "ignite"
  /\ UNCHANGED <<lock, status, slot, mbox, pc, arg, reason, zcmd, ztgt, kind>>

(* With no usable vcpu the operation fails and the guest stays RESETTING.  *)
guest_ignition ==
  /\ zpc = "ignite"
  /\ IF Bootable = {} THEN zpc' = "none" /\ UNCHANGED <<zcmd, ztgt>>
     ELSE zpc' = "send" /\ zcmd' = "SCHED_VCPU" /\ ztgt' = Min(Bootable)
  /\ UNCHANGED <<gstate, lock, status, slot, mbox, pc, arg, reason, kind>>

(* find_target_strand_for_exit; its -1 comes back through a uint8_t, so    *)
(* the caller's test for -1 never holds.                                   *)
find_target_strand_for_exit ==
  LET ready == {v \in Vcpus : status[v] \in {"RUNNING", "STOPPED"}}
  IN  IF ready = {} THEN (-1) % 256 ELSE Min(ready)

(* Mutant: a guest that is still coming up is stopped too.                 *)
op_guest_stop_resetting ==
  /\ "stop" \in ZeusOps
  /\ zpc = "none" /\ kind # "control"
  /\ lock = Nobody
  /\ gstate \in {"NORMAL", "RESETTING"}
  /\ find_target_strand_for_exit # -1
  /\ gstate' = "EXITING"
  /\ zpc' = "send" /\ zcmd' = "STOP_GUEST" /\ ztgt' = find_target_strand_for_exit
  /\ UNCHANGED <<lock, status, slot, mbox, pc, arg, reason, kind>>

op_guest_stop ==
  /\ "stop" \in ZeusOps
  /\ zpc = "none" /\ kind # "control"
  /\ lock = Nobody
  /\ gstate = "NORMAL"
  /\ find_target_strand_for_exit # -1
  /\ gstate' = "EXITING"
  /\ zpc' = "send" /\ zcmd' = "STOP_GUEST" /\ ztgt' = find_target_strand_for_exit
  /\ UNCHANGED <<lock, status, slot, mbox, pc, arg, reason, kind>>

(* Takes no lock; picks the first running vcpu.                            *)
op_guest_panic ==
  LET running == {v \in Vcpus : status[v] = "RUNNING"}
  IN  /\ "panic" \in ZeusOps
      /\ zpc = "none" /\ kind # "control"
      /\ gstate \in {"NORMAL", "EXITING"}
      /\ running # {}
      /\ zpc' = "send" /\ zcmd' = "GUEST_PANIC" /\ ztgt' = Min(running)
      /\ UNCHANGED <<gstate, lock, status, slot, mbox, pc, arg, reason, kind>>

zeus_send ==
  /\ zpc = "send"
  /\ ztgt \in Vcpus
  /\ Post(ztgt, zcmd)
  /\ zpc' = "none"
  /\ UNCHANGED <<gstate, lock, status, slot, pc, arg, reason, zcmd, ztgt, kind>>

-----------------------------------------------------------------------------
Zeus_Next == op_guest_start \/ guest_ignition \/ op_guest_stop \/ op_guest_panic \/ zeus_send

Guest_Next(v) == \/ \E w \in Vcpus : hcall_cpu_start(v, w) \/ hcall_cpu_stop(v, w)
                 \/ hcall_mach_exit(v) \/ hcall_mach_sir(v)

(* The steps a strand takes by itself once in the hypervisor.              *)
Hv_Next(v) == \/ start_send(v) \/ stop_mark(v) \/ stop_send(v) \/ stop_wait(v)
              \/ exit_local(v) \/ exit_remote(v) \/ exit_send(v) \/ exit_wait(v)
              \/ exit_done(v) \/ ignite_send(v)
              \/ start_work_idle(v) \/ launch_vcpu(v) \/ launch_boot_cpu(v) \/ enter_guest(v)

Next == \/ \E v \in Vcpus : \/ Guest_Next(v) \/ Hv_Next(v)
                            \/ handle_hvmondo(v) \/ strand_in_error(v)
        \/ Zeus_Next

(* Hypervisor code runs to completion, a contended casx or busy mailbox is *)
(* won in the end, a pending vector interrupt is taken; the guest and the  *)
(* domain manager may do nothing.                                          *)
Fairness == /\ \A v \in Vcpus : SF_vars(Hv_Next(v)) /\ SF_vars(handle_hvmondo(v))
            /\ SF_vars(guest_ignition \/ zeus_send)

Spec == Init /\ [][Next]_vars
FairSpec == Spec /\ Fairness

-----------------------------------------------------------------------------
(* Properties                                                              *)

TypeOK == /\ gstate \in GuestStates
          /\ lock \in Vcpus \cup {Nobody}
          /\ status \in [Vcpus -> CpuStates]
          /\ slot \in [Vcpus -> BOOLEAN]
          /\ mbox \in [Vcpus -> {NoMondo, "SCHED_VCPU", "STOP_VCPU", "STOP_GUEST", "GUEST_PANIC"}]
          /\ pc \in [Vcpus -> PC]
          /\ arg \in [Vcpus -> 0 .. NVCPUS]
          /\ reason \in [Vcpus -> {"MACH_EXIT", "MACH_SIR"}]
          /\ zpc \in {"none", "ignite", "send"}
          /\ zcmd \in {NoMondo, "SCHED_VCPU", "STOP_GUEST", "GUEST_PANIC"}
          /\ ztgt \in 0 .. 255
          /\ kind \in Kinds

(* launch_vcpu never meets a guest state it cannot launch into: none of    *)
(* its HVABORTs is reached.                                                *)
NoAbort == \A v \in Vcpus : pc[v] # "abort"

(* A vcpu that cpu_stop or a guest exit has marked STOPPED is not executing *)
(* guest code, nor a hypercall for it: its stack, queues and mappings,     *)
(* torn down by stop_vcpu, are not in use. When the whole guest is STOPPED *)
(* every vcpu is down, no strand has it scheduled, and the only cross-call *)
(* left is a STOP_VCPU to a strand that was down already (c_guest_exit     *)
(* does not wait for that one).                                            *)
StoppedIsInert ==
  /\ \A v \in Vcpus : status[v] = "STOPPED" => pc[v] \notin InGuest
  /\ gstate = "STOPPED" =>
     \A v \in Vcpus : /\ status[v] \in {"STOPPED", "ERROR"}
                      /\ pc[v] = "dead" \/ (~slot[v] /\ pc[v] \in {"work", "idle"})
                      /\ mbox[v] \in {NoMondo, "STOP_VCPU"}

(* A running vcpu is stopped only by cpu_stop, which marks it STOPPING     *)
(* first, or by the exit of its guest: a STOP_VCPU left in a mailbox never *)
(* takes down a vcpu that was started after it was sent.                   *)
StopIsAsked ==
  [][\A v \in Vcpus : status[v] = "RUNNING" /\ status'[v] = "STOPPED"
                        => gstate \in {"EXITING", "RESETTING"}]_vars

(* Only one strand drives the shutdown of a guest, however many vcpus call *)
(* mach_exit or mach_sir and whatever the domain manager asks.             *)
OneExit == Cardinality({v \in Vcpus : pc[v] \in Exiting \cup {"ignite_send"}}
                         \cup {v \in Vcpus : mbox[v] = "STOP_GUEST"}) <= 1

(* The boot cpu finds the guest down: nobody else runs while memory is     *)
(* scrubbed and the prom is copied.                                        *)
BootAlone ==
  \A v \in Vcpus : pc[v] = "boot" =>
     /\ gstate = "RESETTING"
     /\ \A w \in Vcpus \ {v} : /\ status[w] \in {"STOPPED", "ERROR"}
                                /\ pc[w] \in {"work", "idle", "dead"}

(* The ASSERTs of c_guest_exit and guest_ignition hold.  The vcpu of the    *)
(* strand that drives the exit is running, stopped or suspended when it is *)
(* taken down; a guest that resets is still RESETTING when its boot cpu is *)
(* chosen, and that cpu is STOPPED.                                        *)
ExitAsserts ==
  \A v \in Vcpus : pc[v] = "exit" =>
     /\ arg[v] = v => status[v] \in {"RUNNING", "STOPPED"}
     /\ arg[v] = NVCPUS /\ reason[v] = "MACH_SIR" =>
          /\ gstate = "RESETTING"
          /\ Bootable # {} => status[Min(Bootable)] = "STOPPED"

(* cpu_stop returns to its caller, also when vcpus stop each other and     *)
(* when the whole guest is being stopped; and a vcpu being stopped settles *)
(* ("prevents a deadlock if the target vcpu is trying to stop the current  *)
(* vcpu").                                                                 *)
StopsSettle ==
  \A v \in Vcpus :
    /\ pc[v] \in {"stop_send", "stop_wait"} ~> pc[v] \notin {"stop_send", "stop_wait"}
    /\ status[v] = "STOPPING" ~> status[v] # "STOPPING"

(* The host is being powered off: the strand that asked for it spins and   *)
(* answers nobody.                                                         *)
HostOff == \E v \in Vcpus : pc[v] = "off"

(* A guest that begins to exit ends STOPPED, unless the host goes off.     *)
ExitCompletes == gstate = "EXITING" ~> gstate = "STOPPED" \/ HostOff

(* A guest that begins to reset comes up again, unless the host is being   *)
(* powered off under it.                                                   *)
ResetCompletes ==
  gstate = "RESETTING" ~> gstate # "RESETTING" \/ HostOff
=============================================================================
