-------------------------- MODULE GuestLifecycleProofs --------------------------
(***************************************************************************)
(* Proofs about GuestLifecycle for any number of vcpus, any of them up,    *)
(* broken or liable to break, and any kind of guest.  The type invariant   *)
(* is proved for every operation of the guest and of the domain manager.   *)
(* The other invariants fail beside cpu_start, and some beside cpu_stop    *)
(* and the panic, as the violating runs show; they are proved for a guest  *)
(* that exits, resets, is started and stopped but starts and stops no      *)
(* single vcpu and is not panicked (ExitsOnly).                            *)
(***************************************************************************)
EXTENDS GuestLifecycle, FiniteSetTheorems, WellFoundedInduction, TLAPS

(* The guest exits and resets, and the domain manager starts and stops it. *)
ExitsOnly == /\ "start" \notin Hcalls /\ "stop" \notin Hcalls
             /\ "panic" \notin ZeusOps

-----------------------------------------------------------------------------
(* The inductive invariants.                                               *)

(* The index of a vcpu being worked on is that of a vcpu.                  *)
Working == {"start_send", "stop_mark", "stop_send", "stop_wait", "exit_send", "exit_wait", "ignite_send"}
TypeInv == TypeOK /\ \A v \in Vcpus : pc[v] \in Working => arg[v] \in Vcpus

(* What the operations of a guest that only exits leave to happen.         *)
QuietPC == {"idle", "work", "boot", "enter", "ignite_send", "dead", "off", "guest", "exit", "exit_send", "exit_wait"}
Quiet == /\ lock = Nobody
         /\ \A v \in Vcpus : /\ status[v] \in {"STOPPED", "RUNNING", "ERROR"}
                             /\ pc[v] \in QuietPC
                             /\ mbox[v] # "GUEST_PANIC"

(* Down(v): the strand of v is dead, or waits with nothing scheduled.      *)
(* First(v): v is the vcpu a guest boots on.                               *)
Down(v) == /\ status[v] \in {"STOPPED", "ERROR"}
           /\ pc[v] = "dead" \/ (~slot[v] /\ pc[v] \in {"work", "idle"})
First(v) == /\ v \in Vcpus /\ status[v] # "ERROR"
            /\ \A w \in Vcpus : status[w] # "ERROR" => v <= w
OthersDown(v) == \A w \in Vcpus \ {v} : Down(w)

(* The status of a vcpu follows from where its strand is.                  *)
Shape(v) == /\ status[v] = "ERROR" <=> pc[v] = "dead"
            /\ pc[v] \in {"guest", "off"} => status[v] = "RUNNING"
            /\ pc[v] \in {"boot", "enter", "ignite_send"} => status[v] = "STOPPED"
            /\ pc[v] = "work" /\ slot[v] => status[v] = "STOPPED"
            /\ pc[v] \in {"idle", "ignite_send"} => ~slot[v]

(* A guest going down or coming up is in the hands of one strand: the one  *)
(* that drives the exit or is about to, or the one that boots it.          *)
Launching(v) == pc[v] = "boot" \/ (pc[v] = "work" /\ slot[v])
Driving(v) == pc[v] \in Exiting \cup {"ignite_send"}
Token(v) == Driving(v) \/ Launching(v) \/ mbox[v] \in {"STOP_GUEST", "SCHED_VCPU"}

OneToken == /\ \A v, w \in Vcpus : Token(v) /\ Token(w) => v = w
            /\ \A v \in Vcpus : Token(v) => zpc = "none" /\ gstate \in {"EXITING", "RESETTING"}

(* The vcpus the exit loop has passed are down.                            *)
ExitInv(v) ==
  pc[v] \in Exiting =>
    /\ reason[v] = "MACH_EXIT" => gstate = "EXITING"
    /\ reason[v] = "MACH_SIR" => gstate = "RESETTING"
    /\ pc[v] # "exit" => arg[v] # v
    /\ v < arg[v] => status[v] = "STOPPED" /\ ~slot[v]
    /\ \A w \in Vcpus \ {v} : w < arg[v] => Down(w)

(* The boot cpu is chosen, called and launched while everybody is down.    *)
BootInv(v) ==
  /\ pc[v] = "ignite_send" => gstate = "RESETTING" /\ First(arg[v]) /\ arg[v] # v /\ OthersDown(v)
  /\ mbox[v] = "SCHED_VCPU" => gstate = "RESETTING" /\ First(v) /\ Down(v) /\ OthersDown(v)
  /\ Launching(v) => gstate = "RESETTING" /\ First(v) /\ OthersDown(v)
  /\ pc[v] = "enter" => /\ gstate \in {"NORMAL", "EXITING"} /\ First(v) /\ OthersDown(v)
                        /\ zpc # "none" => ztgt = v
                        /\ \A w \in Vcpus : Token(w) => w = v

(* A cross-call that stops a vcpu finds it down, or is waited for; one     *)
(* that stops the guest finds nobody at it.                                *)
MailInv(v) ==
  /\ mbox[v] = "STOP_VCPU" => Down(v) \/ \E d \in Vcpus : pc[d] = "exit_wait" /\ arg[d] = v
  /\ mbox[v] = "STOP_GUEST" => gstate = "EXITING" /\ ~Driving(v) /\ ~Launching(v)

(* The domain manager's operation.                                         *)
AllDown == \A w \in Vcpus : Down(w)
ZeusInv ==
  /\ zpc = "ignite" => gstate = "RESETTING" /\ AllDown
  /\ zpc = "send" => \/ zcmd = "SCHED_VCPU" /\ gstate = "RESETTING" /\ AllDown /\ First(ztgt)
                     \/ zcmd = "STOP_GUEST" /\ gstate = "EXITING"
  /\ gstate = "STOPPED" => AllDown

Parts == /\ Quiet /\ OneToken /\ ZeusInv
         /\ \A v \in Vcpus : Shape(v) /\ ExitInv(v) /\ BootInv(v) /\ MailInv(v)
ShutdownInv == TypeInv /\ Parts

-----------------------------------------------------------------------------
(* The operators.                                                          *)

(* Min of a set of vcpus (guest_ignition, find_target_strand_for_exit) is  *)
(* its least member.                                                       *)
LEMMA LeastVcpu ==
  ASSUME NEW S, S \subseteq Vcpus, S # {}
  PROVE  Min(S) \in S /\ \A y \in S : Min(S) <= y
<1>1. S \subseteq Nat
  BY LifecycleAssumption DEF Vcpus
<1>2. PICK x \in S : \A y \in S : ~(<<y, x>> \in OpToRel(<, Nat))
  BY <1>1, NatLessThanWellFounded, WFMin
<1>3. \A y \in S : x <= y
  <2> TAKE y \in S
  <2>1. ~(y < x)
    BY <1>1, <1>2 DEF OpToRel
  <2> QED BY <1>1, <2>1
<1> QED BY <1>3 DEF Min

(* A vcpu that boots is the one that guest_ignition and, when no vcpu is   *)
(* in transition, find_target_strand_for_exit choose.                      *)
LEMMA FirstIsMin ==
  ASSUME TypeInv
  PROVE  /\ \A v \in Vcpus : First(v) => Bootable # {} /\ Min(Bootable) = v
         /\ Bootable # {} => Min(Bootable) \in Vcpus /\ First(Min(Bootable))
<1>1. Bootable \subseteq Vcpus /\ Vcpus \subseteq Int
  BY LifecycleAssumption DEF Bootable, Vcpus
<1>2. ASSUME Bootable # {} PROVE Min(Bootable) \in Vcpus /\ First(Min(Bootable))
  BY <1>1, <1>2, LeastVcpu DEF First, Bootable
<1>3. ASSUME NEW v \in Vcpus, First(v) PROVE Bootable # {} /\ Min(Bootable) = v
  <2>1. v \in Bootable
    BY <1>3 DEF First, Bootable
  <2>2. Min(Bootable) \in Bootable /\ Min(Bootable) <= v
    BY <2>1, <1>1, LeastVcpu
  <2>3. v <= Min(Bootable)
    BY <2>2, <1>3 DEF First, Bootable
  <2>4. v \in Int /\ Min(Bootable) \in Int
    BY <2>2, <1>1
  <2> QED BY <2>1, <2>2, <2>3, <2>4
<1> QED BY <1>2, <1>3

(* The strand op_guest_stop sends its cross-call to.                       *)
LEMMA ExitTarget ==
  ASSUME TypeInv
  PROVE  find_target_strand_for_exit \in 0 .. 255
<1> DEFINE ready == {v \in Vcpus : status[v] \in {"RUNNING", "STOPPED"}}
<1>1. CASE ready = {}
  <2>1. (-1) % 256 \in 0 .. 255
    <3>1. \A n \in Int : n % 256 \in 0 .. 255
      OBVIOUS
    <3>2. -1 \in Int
      OBVIOUS
    <3> QED BY <3>1, <3>2
  <2>2. find_target_strand_for_exit = (-1) % 256
    BY <1>1 DEF find_target_strand_for_exit
  <2> QED BY <2>1, <2>2
<1>2. CASE ready # {}
  <2>1. Min(ready) \in Vcpus
    BY <1>2, LeastVcpu
  <2>2. find_target_strand_for_exit = Min(ready)
    BY <1>2 DEF find_target_strand_for_exit
  <2> QED BY <2>1, <2>2, LifecycleAssumption DEF Vcpus
<1> QED BY <1>1, <1>2

-----------------------------------------------------------------------------
(* Types.                                                                  *)

LEMMA InitTypeInv == Init => TypeInv
<1> SUFFICES ASSUME Init PROVE TypeInv
  OBVIOUS
<1>1. 0 \in 0 .. NVCPUS /\ 0 \in 0 .. 255
  BY LifecycleAssumption
<1> QED BY <1>1 DEF Init, TypeInv, TypeOK, GuestStates, CpuStates, PC, InGuest, Exiting, Working, NoMondo

LEMMA NextTypeInv == TypeInv /\ [Next]_vars => TypeInv'
<1> SUFFICES ASSUME TypeInv, [Next]_vars PROVE TypeInv'
  OBVIOUS
<1>i. NVCPUS \in Nat /\ Vcpus = 0 .. NVCPUS - 1 /\ Vcpus \subseteq 0 .. NVCPUS /\ 0 \in 0 .. NVCPUS
  BY LifecycleAssumption DEF Vcpus
<1> USE DEF TypeInv, TypeOK
<1>u. Vcpus \subseteq 0 .. 255
  BY LifecycleAssumption DEF Vcpus
<1>n. \A w \in Vcpus : w + 1 \in 0 .. NVCPUS
  BY <1>i
<1>g. ASSUME NEW v \in Vcpus, NEW l \in PC, Goto(v, l)
      PROVE  pc' \in [Vcpus -> PC] /\ pc'[v] = l /\ \A u \in Vcpus \ {v} : pc'[u] = pc[u]
  BY <1>g DEF Goto
<1>m. ASSUME NEW w \in Vcpus, NEW c \in {"SCHED_VCPU", "STOP_VCPU", "STOP_GUEST", "GUEST_PANIC"}, Post(w, c)
      PROVE  mbox' \in [Vcpus -> {NoMondo, "SCHED_VCPU", "STOP_VCPU", "STOP_GUEST", "GUEST_PANIC"}]
  BY <1>m DEF Post
<1>s. ASSUME NEW v \in Vcpus PROVE Stopped(v) \in [Vcpus -> CpuStates]
  BY DEF Stopped, CpuStates
<1>l. /\ "exit" \in PC /\ "exit_send" \in PC /\ "exit_wait" \in PC /\ "guest" \in PC /\ "start_send" \in PC
      /\ "stop_mark" \in PC /\ "stop_send" \in PC /\ "stop_wait" \in PC /\ "work" \in PC /\ "idle" \in PC
      /\ "boot" \in PC /\ "enter" \in PC /\ "ignite_send" \in PC /\ "abort" \in PC /\ "dead" \in PC /\ "off" \in PC
  BY DEF PC, InGuest, Exiting
<1>k. /\ {"exit", "guest", "work", "idle", "boot", "enter", "abort", "dead", "off"} \cap Working = {}
      /\ {"STOPPED", "STARTING", "RUNNING", "STOPPING", "ERROR"} = CpuStates
      /\ {"STOPPED", "RESETTING", "NORMAL", "EXITING"} = GuestStates
  BY DEF Working, CpuStates, GuestStates
<1>1. ASSUME NEW v \in Vcpus, NEW w \in Vcpus, hcall_cpu_start(v, w) \/ hcall_cpu_stop(v, w) PROVE TypeInv'
  <2>1. pc' \in [Vcpus -> PC] /\ \A u \in Vcpus \ {v} : pc'[u] = pc[u]
    BY <1>1, <1>g, <1>l DEF hcall_cpu_start, hcall_cpu_stop
  <2>2. arg' \in [Vcpus -> 0 .. NVCPUS] /\ arg'[v] = w /\ \A u \in Vcpus \ {v} : arg'[u] = arg[u]
    BY <1>1, <1>i DEF hcall_cpu_start, hcall_cpu_stop
  <2>3. status' \in [Vcpus -> CpuStates] /\ lock' \in Vcpus \cup {Nobody}
    BY <1>1, <1>k DEF hcall_cpu_start, hcall_cpu_stop
  <2> QED BY <1>1, <2>1, <2>2, <2>3 DEF hcall_cpu_start, hcall_cpu_stop, zvars
<1>b. ASSUME NEW v \in Vcpus, NEW s \in GuestStates, NEW r \in {"MACH_EXIT", "MACH_SIR"}, BeginExit(v, s, r) PROVE TypeInv'
  <2>1. pc' \in [Vcpus -> PC] /\ pc'[v] = "exit" /\ \A u \in Vcpus \ {v} : pc'[u] = pc[u]
    BY <1>b, <1>g, <1>l DEF BeginExit
  <2>2. arg' \in [Vcpus -> 0 .. NVCPUS] /\ \A u \in Vcpus \ {v} : arg'[u] = arg[u]
    BY <1>b, <1>i DEF BeginExit
  <2> QED BY <1>b, <1>k, <2>1, <2>2 DEF BeginExit, zvars
<1>j. ASSUME NEW v \in Vcpus, JoinExit(v) PROVE TypeInv'
  <2>1. pc' \in [Vcpus -> PC] /\ pc'[v] = "work" /\ \A u \in Vcpus \ {v} : pc'[u] = pc[u]
    BY <1>j, <1>g, <1>l DEF JoinExit
  <2> QED BY <1>j, <1>k, <2>1 DEF JoinExit, zvars
<1>2. ASSUME NEW v \in Vcpus, hcall_mach_exit(v) \/ hcall_mach_sir(v) PROVE TypeInv'
  <2>1. CASE Goto(v, "off") /\ UNCHANGED <<gstate, lock, status, slot, mbox, arg, reason, zvars>>
    <3>1. pc' \in [Vcpus -> PC] /\ pc'[v] = "off" /\ \A u \in Vcpus \ {v} : pc'[u] = pc[u]
      BY <2>1, <1>g, <1>l
    <3> QED BY <2>1, <3>1, <1>k DEF zvars
  <2>2. CASE JoinExit(v)
    BY <2>2, <1>j
  <2>3. CASE BeginExit(v, "RESETTING", "MACH_SIR") \/ BeginExit(v, "EXITING", "MACH_EXIT")
    BY <2>3, <1>b, <1>k
  <2> QED BY <1>2, <2>1, <2>2, <2>3 DEF hcall_mach_exit, hcall_mach_sir
(* The steps that only send: the label after is not one of work on a vcpu. *)
<1>3. ASSUME NEW v \in Vcpus, start_send(v) \/ stop_send(v) \/ exit_send(v) \/ ignite_send(v) PROVE TypeInv'
  <2>1. arg[v] \in Vcpus
    BY <1>3 DEF start_send, stop_send, exit_send, ignite_send, Working
  <2>2. mbox' \in [Vcpus -> {NoMondo, "SCHED_VCPU", "STOP_VCPU", "STOP_GUEST", "GUEST_PANIC"}]
    BY <1>3, <2>1, <1>m DEF start_send, stop_send, exit_send, ignite_send
  <2>3. pc' \in [Vcpus -> PC] /\ \A u \in Vcpus \ {v} : pc'[u] = pc[u]
    BY <1>3, <1>g, <1>l DEF start_send, stop_send, exit_send, ignite_send
  <2> QED BY <1>3, <2>1, <2>2, <2>3 DEF start_send, stop_send, exit_send, ignite_send, zvars
<1>4. ASSUME NEW v \in Vcpus, stop_mark(v) \/ stop_wait(v) PROVE TypeInv'
  <2>1. arg[v] \in Vcpus
    BY <1>4 DEF stop_mark, stop_wait, Working
  <2>2. pc' \in [Vcpus -> PC] /\ \A u \in Vcpus \ {v} : pc'[u] = pc[u]
    BY <1>4, <1>g, <1>l DEF stop_mark, stop_wait
  <2>3. status' \in [Vcpus -> CpuStates] /\ lock' \in Vcpus \cup {Nobody}
    BY <1>4, <1>k DEF stop_mark, stop_wait
  <2> QED BY <1>4, <2>1, <2>2, <2>3 DEF stop_mark, stop_wait, zvars
<1>5. ASSUME NEW v \in Vcpus, exit_local(v) PROVE TypeInv'
  <2>1. arg' \in [Vcpus -> 0 .. NVCPUS] /\ \A u \in Vcpus \ {v} : arg'[u] = arg[u]
    BY <1>5, <1>n DEF exit_local
  <2>2. pc[v] = "exit" /\ pc' = pc
    BY <1>5 DEF exit_local
  <2>3. status' \in [Vcpus -> CpuStates] /\ slot' \in [Vcpus -> BOOLEAN]
    BY <1>5, <1>s DEF exit_local
  <2> QED BY <1>5, <1>k, <2>1, <2>2, <2>3 DEF exit_local, zvars
<1>6. ASSUME NEW v \in Vcpus, exit_remote(v) \/ exit_wait(v) PROVE TypeInv'
  <2>1. arg[v] \in Vcpus
    BY <1>6 DEF exit_remote, exit_wait, Working
  <2>2. /\ \A u \in Vcpus \ {v} : pc'[u] = pc[u] /\ arg'[u] = arg[u]
        /\ pc' \in [Vcpus -> PC] /\ arg' \in [Vcpus -> 0 .. NVCPUS]
        /\ pc'[v] = "exit" \/ (pc'[v] = "exit_send" /\ arg'[v] = arg[v])
    <3>1. CASE exit_remote(v) /\ status[arg[v]] = "ERROR"
      BY <3>1, <2>1, <1>n DEF exit_remote
    <3>2. CASE exit_remote(v) /\ status[arg[v]] # "ERROR"
      BY <3>2, <1>g, <1>l DEF exit_remote
    <3>3. CASE exit_wait(v)
      BY <3>3, <2>1, <1>n, <1>g, <1>l DEF exit_wait
    <3> QED BY <1>6, <3>1, <3>2, <3>3
  <2> QED BY <1>6, <1>k, <2>1, <2>2 DEF exit_remote, exit_wait, zvars
<1>7. ASSUME NEW v \in Vcpus, exit_done(v) PROVE TypeInv'
  <2>1. /\ pc' \in [Vcpus -> PC] /\ arg' \in [Vcpus -> 0 .. NVCPUS] /\ slot' \in [Vcpus -> BOOLEAN] /\ gstate' \in GuestStates
        /\ \A u \in Vcpus \ {v} : pc'[u] = pc[u] /\ arg'[u] = arg[u]
        /\ pc'[v] = "work" \/ arg'[v] \in Vcpus
    <3>1. CASE Goto(v, "work") /\ UNCHANGED arg /\ (gstate' = "STOPPED" \/ UNCHANGED gstate)
               /\ (UNCHANGED slot \/ slot' = [slot EXCEPT ![v] = TRUE])
      BY <3>1, <1>g, <1>l, <1>k
    <3>2. CASE Bootable # {} /\ arg' = [arg EXCEPT ![v] = Min(Bootable)] /\ Goto(v, "ignite_send") /\ UNCHANGED <<gstate, slot>>
      <4>1. Min(Bootable) \in Vcpus
        BY <3>2, FirstIsMin
      <4> HIDE DEF TypeInv
      <4>2. arg' \in [Vcpus -> 0 .. NVCPUS] /\ arg'[v] = Min(Bootable) /\ \A u \in Vcpus \ {v} : arg'[u] = arg[u]
        BY <3>2, <4>1, <1>i DEF TypeInv
      <4>3. pc' \in [Vcpus -> PC] /\ \A u \in Vcpus \ {v} : pc'[u] = pc[u]
        BY <3>2, <1>g, <1>l
      <4> QED BY <3>2, <4>1, <4>2, <4>3 DEF TypeInv
    <3> QED BY <1>7, <3>1, <3>2 DEF exit_done
  <2> QED BY <1>7, <1>k, <2>1 DEF exit_done, zvars
<1>8. ASSUME NEW v \in Vcpus,
             start_work_idle(v) \/ launch_vcpu(v) \/ launch_boot_cpu(v) \/ enter_guest(v) \/ strand_in_error(v)
      PROVE  TypeInv'
  <2>1. PICK l \in {"idle", "enter", "boot", "abort", "guest", "dead"} : Goto(v, l)
    <3>1. CASE launch_vcpu(v)
      <4>1. (CASE gstate = "NORMAL" -> "enter" [] gstate = "RESETTING" -> "boot" [] OTHER -> "abort")
               \in {"idle", "enter", "boot", "abort", "guest", "dead"}
        OBVIOUS
      <4> QED BY <3>1, <4>1 DEF launch_vcpu
    <3>2. CASE start_work_idle(v) \/ launch_boot_cpu(v) \/ enter_guest(v) \/ strand_in_error(v)
      BY <3>2 DEF start_work_idle, launch_boot_cpu, enter_guest, strand_in_error
    <3> QED BY <1>8, <3>1, <3>2
  <2>2. pc' \in [Vcpus -> PC] /\ pc'[v] \notin Working /\ \A u \in Vcpus \ {v} : pc'[u] = pc[u]
    BY <2>1, <1>g, <1>l, <1>k
  <2>3. /\ status' \in [Vcpus -> CpuStates] /\ gstate' \in GuestStates
        /\ UNCHANGED <<lock, slot, mbox, arg, reason, zvars>>
    BY <1>8, <1>k DEF start_work_idle, launch_vcpu, launch_boot_cpu, enter_guest, strand_in_error
  <2> QED BY <2>2, <2>3 DEF zvars
<1>9. ASSUME NEW v \in Vcpus, handle_hvmondo(v) PROVE TypeInv'
  <2>1. PICK l \in {"work", "exit", "guest"} : Goto(v, l)
    BY <1>9 DEF handle_hvmondo, schedule_vcpu_cmd, stop_vcpu_cmd, stop_guest_cmd, panic_guest_cmd
  <2>2. pc' \in [Vcpus -> PC] /\ pc'[v] \notin Working /\ \A u \in Vcpus \ {v} : pc'[u] = pc[u]
    BY <2>1, <1>g, <1>l, <1>k
  <2>3. /\ status' \in [Vcpus -> CpuStates] /\ slot' \in [Vcpus -> BOOLEAN]
    BY <1>9, <1>s DEF handle_hvmondo, schedule_vcpu_cmd, stop_vcpu_cmd, stop_guest_cmd, panic_guest_cmd
  <2>4. /\ arg' \in [Vcpus -> 0 .. NVCPUS] /\ \A u \in Vcpus \ {v} : arg'[u] = arg[u]
        /\ reason' \in [Vcpus -> {"MACH_EXIT", "MACH_SIR"}]
    <3>1. CASE UNCHANGED <<arg, reason>>
      BY <3>1
    <3>2. CASE arg' = [arg EXCEPT ![v] = 0] /\ reason' = [reason EXCEPT ![v] = "MACH_EXIT"]
      BY <3>2, <1>i
    <3> QED BY <1>9, <3>1, <3>2 DEF handle_hvmondo, schedule_vcpu_cmd, stop_vcpu_cmd, stop_guest_cmd, panic_guest_cmd
  <2>5. mbox' \in [Vcpus -> {NoMondo, "SCHED_VCPU", "STOP_VCPU", "STOP_GUEST", "GUEST_PANIC"}]
    BY <1>9 DEF handle_hvmondo, schedule_vcpu_cmd, stop_vcpu_cmd, stop_guest_cmd, panic_guest_cmd
  <2> QED BY <1>9, <2>2, <2>3, <2>4, <2>5 DEF handle_hvmondo, schedule_vcpu_cmd, stop_vcpu_cmd, stop_guest_cmd, panic_guest_cmd, zvars
<1>10. ASSUME Zeus_Next PROVE TypeInv'
  <2>1. CASE op_guest_start
    BY <2>1, <1>k DEF op_guest_start
  <2>2. CASE guest_ignition
    <3>1. Bootable # {} => Min(Bootable) \in 0 .. 255
      BY FirstIsMin, <1>u
    <3> QED BY <2>2, <3>1 DEF guest_ignition
  <2>3. CASE op_guest_stop
    BY <2>3, <1>k, ExitTarget DEF op_guest_stop
  <2>4. CASE op_guest_panic
    <3> DEFINE running == {v \in Vcpus : status[v] = "RUNNING"}
    <3>1. running # {} => Min(running) \in 0 .. 255
      <4>1. running # {} => Min(running) \in Vcpus
        BY LeastVcpu
      <4> QED BY <4>1, <1>u
    <3> QED BY <2>4, <3>1 DEF op_guest_panic
  <2>5. CASE zeus_send
    <3>1. zcmd # NoMondo => mbox' \in [Vcpus -> {NoMondo, "SCHED_VCPU", "STOP_VCPU", "STOP_GUEST", "GUEST_PANIC"}]
      BY <2>5, <1>m DEF zeus_send
    <3>2. zcmd = NoMondo => mbox' \in [Vcpus -> {NoMondo, "SCHED_VCPU", "STOP_VCPU", "STOP_GUEST", "GUEST_PANIC"}]
      BY <2>5 DEF zeus_send, Post
    <3> QED BY <2>5, <3>1, <3>2 DEF zeus_send
  <2> QED BY <1>10, <2>1, <2>2, <2>3, <2>4, <2>5 DEF Zeus_Next
<1>11. CASE UNCHANGED vars
  BY <1>11 DEF vars, zvars
<1> QED
  BY <1>1, <1>2, <1>3, <1>4, <1>5, <1>6, <1>7, <1>8, <1>9, <1>10, <1>11 DEF Next, Guest_Next, Hv_Next

(* Type correctness of the lifecycle, whatever the guest and the domain    *)
(* manager do (hcall_core.s, hvcontrol.c, init.c): in particular the loop  *)
(* of c_guest_exit never indexes past the guest's vcpus and every          *)
(* cross-call it sends goes to one of them.                                *)
THEOREM TypeCorrect == Spec => []TypeOK
<1>1. TypeInv => TypeOK
  BY DEF TypeInv
<1> QED BY <1>1, InitTypeInv, NextTypeInv, PTL DEF Spec

-----------------------------------------------------------------------------
(* The shutdown: what the steps have in common.                            *)

(* While a vcpu runs nobody boots the guest.                               *)
NobodyBoots ==
  /\ \A w \in Vcpus : pc[w] # "enter" /\ pc[w] # "ignite_send" /\ ~Launching(w) /\ mbox[w] # "SCHED_VCPU"
  /\ gstate # "STOPPED" /\ zpc # "ignite" /\ (zpc = "send" => zcmd = "STOP_GUEST" /\ gstate = "EXITING")

LEMMA RunningNobodyBoots ==
  ASSUME Parts, NEW v \in Vcpus, status[v] = "RUNNING"
  PROVE  NobodyBoots
<1>1. ~Down(v)
  BY DEF Down
<1>2. ASSUME NEW w \in Vcpus PROVE pc[w] # "enter" /\ pc[w] # "ignite_send" /\ ~Launching(w) /\ mbox[w] # "SCHED_VCPU"
  <2>1. w = v => pc[w] # "enter" /\ pc[w] # "ignite_send" /\ ~Launching(w)
    BY DEF Parts, Shape, Launching
  <2>2. BootInv(w)
    BY DEF Parts
  <2> QED BY <2>1, <2>2, <1>1 DEF BootInv, OthersDown
<1>3. /\ gstate # "STOPPED" /\ zpc # "ignite"
      /\ zpc = "send" => zcmd = "STOP_GUEST" /\ gstate = "EXITING"
  BY <1>1 DEF Parts, ZeusInv, AllDown
<1> QED BY <1>2, <1>3 DEF NobodyBoots

(* A step of strand v that neither takes the shutdown into its hands nor   *)
(* leaves it: powering off, joining the exit, going idle, being stopped,   *)
(* breaking.                                                               *)
LEMMA CalmStep ==
  ASSUME Parts, NEW v \in Vcpus,
         UNCHANGED <<gstate, lock, arg, reason, zpc, zcmd, ztgt>>,
         \A u \in Vcpus \ {v} : pc'[u] = pc[u] /\ status'[u] = status[u] /\ slot'[u] = slot[u] /\ mbox'[u] = mbox[u],
         pc[v] \in {"guest", "idle", "work"}, pc[v] = "work" => slot[v] = FALSE,
         pc'[v] \in {"off", "work", "idle", "dead"}, pc'[v] \in {"work", "idle"} => slot'[v] = FALSE,
         mbox'[v] = mbox[v] \/ (mbox[v] = "STOP_VCPU" /\ mbox'[v] = NoMondo),
         status'[v] \in {"STOPPED", "RUNNING", "ERROR"}, Shape(v)', Down(v) => Down(v)',
         status'[v] = "ERROR" /\ status[v] # "ERROR" => status[v] = "RUNNING"
  PROVE  Parts'
<1>d. \A w \in Vcpus : Down(w) => Down(w)'
  BY DEF Down
<1>t. \A w \in Vcpus : (Driving(w)' <=> Driving(w)) /\ (Launching(w)' <=> Launching(w))
  BY DEF Driving, Launching, Exiting
<1>m. \A w \in Vcpus : /\ mbox'[w] = mbox[w] \/ mbox'[w] = NoMondo
                       /\ mbox'[w] \in {"STOP_GUEST", "SCHED_VCPU"} <=> mbox[w] \in {"STOP_GUEST", "SCHED_VCPU"}
  BY DEF NoMondo
<1>k. \A w \in Vcpus : Token(w)' <=> Token(w)
  BY <1>t, <1>m DEF Token
<1>f. \A w \in Vcpus : First(w) /\ ~NobodyBoots => First(w)'
  <2>1. ~NobodyBoots => (status'[v] = "ERROR" <=> status[v] = "ERROR")
    <3>1. ~NobodyBoots => status[v] # "RUNNING"
      BY RunningNobodyBoots
    <3>2. status[v] = "ERROR" => FALSE
      BY DEF Parts, Shape
    <3> QED BY <3>1, <3>2
  <2> QED BY <2>1 DEF First
<1>1. Quiet'
  BY <1>m DEF Parts, Quiet, QuietPC, NoMondo
<1>2. OneToken'
  BY <1>k DEF Parts, OneToken
<1>3. ZeusInv'
  <2>1. AllDown => AllDown'
    BY <1>d DEF AllDown
  <2>2. zpc = "send" /\ zcmd = "SCHED_VCPU" /\ First(ztgt) => First(ztgt)'
    <3>1. First(ztgt) => ztgt \in Vcpus
      BY DEF First
    <3>2. zpc = "send" /\ zcmd = "SCHED_VCPU" => ~NobodyBoots
      BY DEF NobodyBoots
    <3> QED BY <3>1, <3>2, <1>f DEF First
  <2> QED BY <2>1, <2>2 DEF Parts, ZeusInv
<1>4. ASSUME NEW u \in Vcpus PROVE (Shape(u) /\ ExitInv(u) /\ BootInv(u) /\ MailInv(u))'
  <2>1. Shape(u) /\ ExitInv(u) /\ BootInv(u) /\ MailInv(u)
    BY DEF Parts
  <2>2. Shape(u)'
    BY <2>1 DEF Shape
  <2>3. ExitInv(u)'
    BY <2>1, <1>d DEF ExitInv, Exiting
  <2>4. OthersDown(u) => OthersDown(u)'
    BY <1>d DEF OthersDown
  <2>5. BootInv(u)'
    <3>1. pc'[u] = "ignite_send" => /\ pc[u] = "ignite_send" /\ First(arg[u])' /\ OthersDown(u)'
      <4>1. pc'[u] = "ignite_send" => pc[u] = "ignite_send" /\ ~NobodyBoots
        BY DEF NobodyBoots
      <4>2. First(arg[u]) => arg[u] \in Vcpus
        BY DEF First
      <4> QED BY <4>1, <4>2, <2>1, <2>4, <1>f DEF BootInv, First
    <3>2. mbox'[u] = "SCHED_VCPU" => mbox[u] = "SCHED_VCPU" /\ First(u)' /\ OthersDown(u)' /\ Down(u)'
      <4>1. mbox'[u] = "SCHED_VCPU" => mbox[u] = "SCHED_VCPU" /\ ~NobodyBoots
        BY <1>m DEF NobodyBoots, NoMondo
      <4> QED BY <4>1, <2>1, <2>4, <1>f, <1>d DEF BootInv
    <3>3. Launching(u)' => Launching(u) /\ First(u)' /\ OthersDown(u)'
      BY <1>t, <2>1, <2>4, <1>f DEF BootInv, NobodyBoots
    <3>4. pc'[u] = "enter" => pc[u] = "enter" /\ First(u)' /\ OthersDown(u)'
      BY <2>1, <2>4, <1>f DEF BootInv, NobodyBoots
    <3>5. pc'[u] = "enter" => \A w \in Vcpus : Token(w)' => w = u
      BY <3>4, <2>1, <1>k DEF BootInv
    <3> QED BY <3>1, <3>2, <3>3, <3>4, <3>5, <2>1 DEF BootInv
  <2>6. MailInv(u)'
    <3>1. mbox'[u] = "STOP_VCPU" => mbox[u] = "STOP_VCPU"
      BY <1>m DEF NoMondo
    <3>2. \A d \in Vcpus : pc[d] = "exit_wait" => pc'[d] = "exit_wait"
      OBVIOUS
    <3>3. mbox'[u] = "STOP_GUEST" => mbox[u] = "STOP_GUEST"
      BY <1>m DEF NoMondo
    <3> QED BY <3>1, <3>2, <3>3, <2>1, <1>d, <1>t DEF MailInv
  <2> QED BY <2>2, <2>3, <2>5, <2>6
<1> QED BY <1>1, <1>2, <1>3, <1>4 DEF Parts

LEMMA InitParts == Init => Parts
<1> SUFFICES ASSUME Init PROVE Parts
  OBVIOUS
<1>1. \A v \in Vcpus : /\ pc[v] \in {"guest", "dead", "idle"} /\ mbox[v] = NoMondo
                       /\ pc[v] = "guest" => status[v] = "RUNNING"
                       /\ pc[v] = "dead" <=> status[v] = "ERROR"
                       /\ pc[v] = "idle" => status[v] = "STOPPED" /\ slot[v] = FALSE
                       /\ Up = {} => pc[v] # "guest"
  <2> TAKE v \in Vcpus
  <2>1. slot[v] <=> v \in Up
    BY DEF Init
  <2>2. slot[v] \in BOOLEAN
    BY DEF Init
  <2>3. /\ pc[v] = (IF v \in Up THEN "guest" ELSE IF v \in Failed THEN "dead" ELSE "idle")
        /\ status[v] = (IF v \in Up THEN "RUNNING" ELSE IF v \in Failed THEN "ERROR" ELSE "STOPPED")
        /\ mbox[v] = NoMondo
    BY DEF Init
  <2> QED BY <2>1, <2>2, <2>3
<1>2. gstate = "STOPPED" => AllDown
  BY <1>1 DEF Init, AllDown, Down
<1>3. \A v \in Vcpus : ~Token(v) /\ ~Launching(v)
  BY <1>1 DEF Token, Driving, Launching, Exiting, NoMondo
<1>4. Quiet /\ OneToken /\ ZeusInv
  BY <1>1, <1>2, <1>3 DEF Init, Quiet, OneToken, ZeusInv, QuietPC, NoMondo
<1>5. \A v \in Vcpus : Shape(v) /\ ExitInv(v) /\ BootInv(v) /\ MailInv(v)
  BY <1>1, <1>3 DEF Shape, ExitInv, BootInv, MailInv, Exiting, NoMondo
<1> QED BY <1>4, <1>5 DEF Parts

-----------------------------------------------------------------------------
(* The hypercalls.                                                         *)

(* What Goto does to the labels.                                           *)
LEMMA Moves ==
  ASSUME TypeInv, NEW v \in Vcpus, NEW l, Goto(v, l)
  PROVE  pc'[v] = l /\ \A u \in Vcpus \ {v} : pc'[u] = pc[u]
BY DEF Goto, TypeInv, TypeOK

LEMMA JoinParts ==
  ASSUME ShutdownInv, NEW v \in Vcpus, pc[v] = "guest", JoinExit(v)
  PROVE  Parts'
<1>1. pc'[v] = "work" /\ \A u \in Vcpus \ {v} : pc'[u] = pc[u]
  BY Moves DEF JoinExit, ShutdownInv
<1>2. /\ slot'[v] = FALSE /\ \A u \in Vcpus \ {v} : slot'[u] = slot[u]
      /\ UNCHANGED <<gstate, lock, status, mbox, arg, reason, zpc, zcmd, ztgt>>
  BY DEF JoinExit, ShutdownInv, TypeInv, TypeOK, zvars
<1>3. status[v] = "RUNNING" /\ ~Down(v)
  BY DEF ShutdownInv, Parts, Shape, Down
<1>4. Shape(v)'
  BY <1>1, <1>2, <1>3 DEF Shape
<1> QED BY <1>1, <1>2, <1>3, <1>4, CalmStep DEF ShutdownInv

LEMMA OffParts ==
  ASSUME ShutdownInv, NEW v \in Vcpus, pc[v] = "guest", Goto(v, "off"),
         UNCHANGED <<gstate, lock, status, slot, mbox, arg, reason, zvars>>
  PROVE  Parts'
<1>1. pc'[v] = "off" /\ \A u \in Vcpus \ {v} : pc'[u] = pc[u]
  BY Moves DEF ShutdownInv
<1>2. UNCHANGED <<gstate, lock, status, slot, mbox, arg, reason, zpc, zcmd, ztgt>>
  BY DEF zvars
<1>3. status[v] = "RUNNING" /\ ~Down(v)
  BY DEF ShutdownInv, Parts, Shape, Down
<1>4. Shape(v)'
  BY <1>1, <1>2, <1>3 DEF Shape
<1> QED BY <1>1, <1>2, <1>3, <1>4, CalmStep DEF ShutdownInv

(* The exit begins in a guest that is up: nobody holds the token.          *)
LEMMA BeginParts ==
  ASSUME ShutdownInv, NEW v \in Vcpus, pc[v] = "guest", NEW s, NEW r, BeginExit(v, s, r),
         (s = "RESETTING" /\ r = "MACH_SIR") \/ (s = "EXITING" /\ r = "MACH_EXIT"),
         gstate \notin {"RESETTING", "EXITING"}
  PROVE  Parts'
<1>1. pc'[v] = "exit" /\ \A u \in Vcpus \ {v} : pc'[u] = pc[u]
  BY Moves DEF BeginExit, ShutdownInv
<1>2. /\ reason'[v] = r /\ arg'[v] = 0 /\ gstate' = s
      /\ \A u \in Vcpus \ {v} : reason'[u] = reason[u] /\ arg'[u] = arg[u]
      /\ UNCHANGED <<lock, status, slot, mbox, zpc, zcmd, ztgt>>
  BY DEF BeginExit, ShutdownInv, TypeInv, TypeOK, zvars
<1>3. status[v] = "RUNNING"
  BY DEF ShutdownInv, Parts, Shape
<1>4. NobodyBoots
  BY <1>3, RunningNobodyBoots DEF ShutdownInv
<1>5. (\A w \in Vcpus : ~Token(w)) /\ zpc = "none"
  <2>1. zpc \in {"none", "ignite", "send"}
    BY DEF ShutdownInv, TypeInv, TypeOK
  <2> QED BY <2>1, <1>4 DEF ShutdownInv, Parts, OneToken, NobodyBoots
<1>6. \A w \in Vcpus : Token(w)' => w = v
  BY <1>1, <1>2, <1>5 DEF Token, Driving, Launching
<1>7. Quiet'
  BY <1>1, <1>2 DEF ShutdownInv, Parts, Quiet, QuietPC
<1>8. OneToken'
  BY <1>6, <1>5, <1>2 DEF OneToken
<1>9. ZeusInv'
  BY <1>2, <1>5 DEF ZeusInv
<1>10. ASSUME NEW u \in Vcpus PROVE (Shape(u) /\ ExitInv(u) /\ BootInv(u) /\ MailInv(u))'
  <2>1. Shape(u) /\ MailInv(u)
    BY DEF ShutdownInv, Parts
  <2>2. Shape(u)'
    BY <2>1, <1>1, <1>2, <1>3 DEF Shape
  <2>3. ExitInv(u)'
    <3>1. CASE u = v
      <4>1. \A w \in Vcpus : ~(w < 0)
        BY LifecycleAssumption DEF Vcpus
      <4> QED BY <3>1, <4>1, <1>1, <1>2 DEF ExitInv
    <3>2. CASE u # v
      BY <3>2, <1>1, <1>5 DEF ExitInv, Token, Driving
    <3> QED BY <3>1, <3>2
  <2>4. BootInv(u)'
    BY <1>1, <1>2, <1>4 DEF BootInv, NobodyBoots, Launching
  <2>5. MailInv(u)'
    <3>1. mbox[u] # "STOP_GUEST" /\ \A d \in Vcpus : pc[d] # "exit_wait"
      BY <1>5 DEF Token, Driving, Exiting
    <3>2. Down(u) => Down(u)'
      BY <1>1, <1>2, <1>3 DEF Down
    <3> QED BY <2>1, <3>1, <3>2, <1>2 DEF MailInv
  <2> QED BY <2>2, <2>3, <2>4, <2>5
<1> QED BY <1>7, <1>8, <1>9, <1>10 DEF Parts

LEMMA HcallParts ==
  ASSUME ShutdownInv, NEW v \in Vcpus, hcall_mach_exit(v) \/ hcall_mach_sir(v)
  PROVE  Parts'
<1>1. pc[v] = "guest"
  BY DEF hcall_mach_exit, hcall_mach_sir
<1>2. CASE Goto(v, "off") /\ UNCHANGED <<gstate, lock, status, slot, mbox, arg, reason, zvars>>
  BY <1>1, <1>2, OffParts
<1>3. CASE JoinExit(v)
  BY <1>1, <1>3, JoinParts
<1>4. CASE gstate \notin {"RESETTING", "EXITING"} /\ BeginExit(v, "RESETTING", "MACH_SIR")
  BY <1>1, <1>4, BeginParts
<1>5. CASE gstate \notin {"RESETTING", "EXITING"} /\ BeginExit(v, "EXITING", "MACH_EXIT")
  BY <1>1, <1>5, BeginParts
<1> QED BY <1>2, <1>3, <1>4, <1>5 DEF hcall_mach_exit, hcall_mach_sir

-----------------------------------------------------------------------------
(* c_guest_exit.                                                           *)

(* The strand that drives the exit is alone at it.                         *)
LEMMA DriverAlone ==
  ASSUME Parts, NEW v \in Vcpus, pc[v] \in Exiting
  PROVE  /\ zpc = "none" /\ gstate \in {"EXITING", "RESETTING"}
         /\ \A w \in Vcpus : /\ pc[w] # "enter" /\ ~Launching(w) /\ mbox[w] \notin {"STOP_GUEST", "SCHED_VCPU"}
                             /\ w # v => ~Driving(w)
         /\ mbox[v] # "STOP_VCPU"
<1>1. Token(v) /\ Driving(v) /\ ~Launching(v) /\ ~Down(v)
  BY DEF Token, Driving, Launching, Down, Exiting
<1>2. zpc = "none" /\ gstate \in {"EXITING", "RESETTING"}
  BY <1>1 DEF Parts, OneToken
<1>3. \A w \in Vcpus \ {v} : ~Token(w)
  BY <1>1 DEF Parts, OneToken
<1>4. mbox[v] \notin {"STOP_GUEST", "SCHED_VCPU"}
  BY <1>1 DEF Parts, MailInv, BootInv
<1>5. \A w \in Vcpus : pc[w] # "enter"
  BY <1>1 DEF Parts, BootInv, Exiting
<1>6. mbox[v] # "STOP_VCPU"
  <2>1. ASSUME NEW d \in Vcpus, pc[d] = "exit_wait", arg[d] = v PROVE FALSE
    <3>1. d = v
      BY <2>1, <1>3 DEF Token, Driving, Exiting
    <3> QED BY <2>1, <3>1 DEF Parts, ExitInv, Exiting
  <2> QED BY <2>1, <1>1 DEF Parts, MailInv
<1> QED BY <1>1, <1>2, <1>3, <1>4, <1>5, <1>6 DEF Token

(* A vcpu found STOPPED or in error by that strand is down.                *)
LEMMA SettledIsDown ==
  ASSUME Parts, NEW v \in Vcpus, pc[v] \in Exiting, NEW w \in Vcpus, w # v, status[w] \in {"STOPPED", "ERROR"}
  PROVE  Down(w)
<1>1. pc[w] # "enter" /\ ~Launching(w) /\ ~Driving(w)
  BY DriverAlone
<1>2. pc[w] \in {"idle", "work", "dead"}
  BY <1>1 DEF Parts, Quiet, QuietPC, Shape, Launching, Driving, Exiting
<1> QED BY <1>1, <1>2 DEF Parts, Shape, Launching, Down

(* A step inside the loop.                                                 *)
LEMMA LoopStep ==
  ASSUME Parts, NEW v \in Vcpus, pc[v] \in Exiting, pc'[v] \in Exiting,
         UNCHANGED <<gstate, lock, reason, zpc, zcmd, ztgt>>,
         \A u \in Vcpus \ {v} : pc'[u] = pc[u] /\ status'[u] = status[u] /\ slot'[u] = slot[u] /\ arg'[u] = arg[u],
         status'[v] \in {"STOPPED", "RUNNING"},
         \A u \in Vcpus : mbox'[u] = mbox[u] \/ mbox'[u] = "STOP_VCPU",
         \A u \in Vcpus : mbox'[u] = "STOP_VCPU" => Down(u)' \/ (pc'[v] = "exit_wait" /\ arg'[v] = u),
         ExitInv(v)'
  PROVE  Parts'
<1>1. /\ zpc = "none" /\ gstate \in {"EXITING", "RESETTING"}
      /\ \A w \in Vcpus : /\ pc[w] # "enter" /\ ~Launching(w) /\ mbox[w] \notin {"STOP_GUEST", "SCHED_VCPU"}
                          /\ w # v => ~Driving(w)
  BY DriverAlone
<1>2. \A w \in Vcpus : /\ pc'[w] # "enter" /\ ~Launching(w)' /\ mbox'[w] \notin {"STOP_GUEST", "SCHED_VCPU"}
                       /\ w # v => ~Driving(w)'
  BY <1>1 DEF Launching, Driving, Exiting
<1>3. \A w \in Vcpus : Token(w)' => w = v
  BY <1>2 DEF Token
<1>4. Quiet'
  BY <1>2 DEF Parts, Quiet, QuietPC, Exiting
<1>5. OneToken' /\ ZeusInv'
  BY <1>1, <1>3 DEF OneToken, ZeusInv
<1>6. ASSUME NEW u \in Vcpus PROVE (Shape(u) /\ ExitInv(u) /\ BootInv(u) /\ MailInv(u))'
  <2>1. Shape(u)'
    <3>1. CASE u = v
      BY <3>1 DEF Shape, Exiting
    <3>2. CASE u # v
      BY <3>2 DEF Parts, Shape
    <3> QED BY <3>1, <3>2
  <2>2. ExitInv(u)'
    BY <1>2 DEF ExitInv, Driving
  <2>3. BootInv(u)'
    <3>1. pc'[u] # "ignite_send"
      BY <1>2 DEF Driving, Exiting
    <3> QED BY <3>1, <1>2 DEF BootInv
  <2>4. MailInv(u)'
    BY <1>2 DEF MailInv
  <2> QED BY <2>1, <2>2, <2>3, <2>4
<1> QED BY <1>4, <1>5, <1>6 DEF Parts

(* Every vcpu other than the driver stays down while the driver works.     *)
LEMMA ExitLoopParts ==
  ASSUME ShutdownInv, NEW v \in Vcpus, exit_local(v) \/ exit_remote(v) \/ exit_send(v) \/ exit_wait(v)
  PROVE  Parts'
<1> USE DEF ShutdownInv
<1>t. Vcpus \subseteq Int /\ \A w \in Vcpus : arg[w] \in Int
  BY LifecycleAssumption DEF Vcpus, TypeInv, TypeOK
<1>e. pc[v] \in Exiting
  BY DEF exit_local, exit_remote, exit_send, exit_wait, Exiting
<1>a. mbox[v] # "STOP_VCPU" /\ ExitInv(v) /\ Shape(v) /\ MailInv(v) /\ \A u \in Vcpus : MailInv(u)
  BY <1>e, DriverAlone DEF Parts
<1>s. status[v] \in {"STOPPED", "RUNNING"}
  BY <1>e, <1>a DEF Parts, Quiet, Shape, Exiting
<1>z. ASSUME NEW u \in Vcpus, mbox[u] = "STOP_VCPU" PROVE Down(u) \/ (pc[v] = "exit_wait" /\ arg[v] = u)
  <2>1. ASSUME NEW d \in Vcpus, pc[d] = "exit_wait", arg[d] = u PROVE d = v
    BY <2>1, <1>e, DriverAlone DEF Driving, Exiting
  <2> QED BY <1>z, <1>a, <2>1 DEF MailInv
<1>1. CASE exit_local(v)
  <2>1. /\ pc' = pc /\ pc[v] = "exit" /\ slot'[v] = FALSE /\ status'[v] = "STOPPED" /\ arg[v] = v /\ arg'[v] = v + 1
        /\ \A u \in Vcpus \ {v} : slot'[u] = slot[u] /\ status'[u] = status[u] /\ arg'[u] = arg[u]
        /\ UNCHANGED <<gstate, lock, mbox, reason, zpc, zcmd, ztgt>>
    BY <1>1, <1>s DEF exit_local, Stopped, TypeInv, TypeOK, zvars
  <2>2. \A u \in Vcpus \ {v} : Down(u) => Down(u)'
    BY <2>1 DEF Down
  <2>3. ExitInv(v)'
    <3>1. \A w \in Vcpus \ {v} : w < v + 1 => w < v
      BY <1>t
    <3> QED BY <2>1, <2>2, <3>1, <1>a, <1>e DEF ExitInv
  <2>4. \A u \in Vcpus : mbox'[u] = "STOP_VCPU" => Down(u)'
    BY <2>1, <2>2, <1>z, <1>a
  <2> QED BY <2>1, <2>3, <2>4, <1>e, LoopStep
<1>2. CASE exit_remote(v)
  <2>1. /\ pc[v] = "exit" /\ arg[v] \in Vcpus \ {v}
        /\ \A u \in Vcpus \ {v} : pc'[u] = pc[u] /\ arg'[u] = arg[u]
        /\ UNCHANGED <<gstate, lock, status, slot, mbox, reason, zpc, zcmd, ztgt>>
        /\ \/ status[arg[v]] = "ERROR" /\ arg'[v] = arg[v] + 1 /\ pc'[v] = "exit"
           \/ arg'[v] = arg[v] /\ pc'[v] = "exit_send"
    <3>1. CASE status[arg[v]] = "ERROR"
      BY <1>2, <3>1 DEF exit_remote, TypeInv, TypeOK, zvars
    <3>2. CASE status[arg[v]] # "ERROR"
      BY <1>2, <3>2, Moves DEF exit_remote, zvars
    <3> QED BY <3>1, <3>2
  <2>2. \A u \in Vcpus \ {v} : Down(u) => Down(u)'
    BY <2>1 DEF Down
  <2>3. ExitInv(v)'
    <3>1. CASE status[arg[v]] = "ERROR" /\ arg'[v] = arg[v] + 1 /\ pc'[v] = "exit"
      <4>1. Down(arg[v])
        BY <3>1, <2>1, <1>e, SettledIsDown
      <4>2. \A w \in Vcpus \ {v} : w < arg[v] + 1 => w < arg[v] \/ w = arg[v]
        BY <1>t
      <4>3. v < arg[v] + 1 => v < arg[v]
        BY <1>t, <2>1
      <4> QED BY <3>1, <4>1, <4>2, <4>3, <2>1, <2>2, <1>a, <1>e DEF ExitInv
    <3>2. CASE arg'[v] = arg[v] /\ pc'[v] = "exit_send"
      BY <3>2, <2>1, <2>2, <1>a, <1>e DEF ExitInv, Exiting
    <3> QED BY <2>1, <3>1, <3>2
  <2>4. \A u \in Vcpus : mbox'[u] = "STOP_VCPU" => Down(u)'
    BY <2>1, <2>2, <1>z, <1>a
  <2>5. pc'[v] \in Exiting
    BY <2>1 DEF Exiting
  <2> QED BY <2>1, <2>3, <2>4, <2>5, <1>e, <1>s, LoopStep
<1>3. CASE exit_send(v)
  <2>1. /\ pc[v] = "exit_send" /\ pc'[v] = "exit_wait" /\ \A u \in Vcpus \ {v} : pc'[u] = pc[u]
        /\ UNCHANGED <<gstate, lock, status, slot, arg, reason, zpc, zcmd, ztgt>>
    BY <1>3, Moves DEF exit_send, zvars
  <2>2. /\ arg[v] \in Vcpus /\ arg[v] # v /\ mbox'[arg[v]] = "STOP_VCPU"
        /\ \A u \in Vcpus \ {arg[v]} : mbox'[u] = mbox[u]
    BY <1>3, <2>1, <1>a, <1>e DEF exit_send, Post, TypeInv, TypeOK, Working, ExitInv
  <2>3. \A u \in Vcpus \ {v} : Down(u) => Down(u)'
    BY <2>1 DEF Down
  <2>4. ExitInv(v)'
    BY <2>1, <2>2, <2>3, <1>a, <1>e DEF ExitInv, Exiting
  <2>5. \A u \in Vcpus : mbox'[u] = "STOP_VCPU" => Down(u)' \/ (pc'[v] = "exit_wait" /\ arg'[v] = u)
    BY <2>1, <2>2, <2>3, <1>z, <1>a
  <2>6. pc'[v] \in Exiting
    BY <2>1 DEF Exiting
  <2>7. \A u \in Vcpus : mbox'[u] = mbox[u] \/ mbox'[u] = "STOP_VCPU"
    BY <2>2
  <2> QED BY <2>1, <2>4, <2>5, <2>6, <2>7, <1>e, <1>s, LoopStep
<1>4. CASE exit_wait(v)
  <2>1. /\ pc[v] = "exit_wait" /\ pc'[v] = "exit" /\ \A u \in Vcpus \ {v} : pc'[u] = pc[u]
        /\ UNCHANGED <<gstate, lock, status, slot, mbox, reason, zpc, zcmd, ztgt>>
    BY <1>4, Moves DEF exit_wait, zvars
  <2>2. /\ arg[v] \in Vcpus /\ arg[v] # v /\ arg'[v] = arg[v] + 1
        /\ \A u \in Vcpus \ {v} : arg'[u] = arg[u]
    BY <1>4, <2>1, <1>a, <1>e DEF exit_wait, TypeInv, TypeOK, Working, ExitInv
  <2>3. \A u \in Vcpus \ {v} : Down(u) => Down(u)'
    BY <2>1 DEF Down
  <2>4. Down(arg[v])
    BY <1>4, <2>2, <1>e, SettledIsDown DEF exit_wait
  <2>5. ExitInv(v)'
    <3>1. \A w \in Vcpus \ {v} : w < arg[v] + 1 => w < arg[v] \/ w = arg[v]
      BY <1>t
    <3>2. v < arg[v] + 1 => v < arg[v]
      BY <1>t, <2>2
    <3> QED BY <3>1, <3>2, <2>1, <2>2, <2>3, <2>4, <1>a, <1>e DEF ExitInv
  <2>6. \A u \in Vcpus : mbox'[u] = "STOP_VCPU" => Down(u)'
    BY <2>1, <2>2, <2>3, <2>4, <1>z, <1>a
  <2>7. pc'[v] \in Exiting
    BY <2>1 DEF Exiting
  <2> QED BY <2>1, <2>2, <2>5, <2>6, <2>7, <1>e, <1>s, LoopStep
<1> QED BY <1>1, <1>2, <1>3, <1>4

(* When a step leaves everybody but v down, what it leaves of v decides.   *)
LEMMA OneLeft ==
  ASSUME NEW v \in Vcpus, Quiet', ZeusInv',
         \A u \in Vcpus \ {v} : Down(u)' /\ Shape(u)' /\ mbox'[u] \notin {"STOP_GUEST", "SCHED_VCPU"},
         Token(v)' => zpc' = "none" /\ gstate' \in {"EXITING", "RESETTING"},
         Shape(v)', ExitInv(v)', BootInv(v)', MailInv(v)'
  PROVE  Parts'
<1>1. \A u \in Vcpus \ {v} : pc'[u] \in {"dead", "work", "idle"} /\ ~Launching(u)' /\ ~Driving(u)'
  BY DEF Down, Launching, Driving, Exiting, Shape
<1>2. \A u \in Vcpus \ {v} : ~Token(u)'
  BY <1>1 DEF Token
<1>3. OneToken'
  BY <1>2 DEF OneToken
<1>4. \A u \in Vcpus \ {v} : ExitInv(u)' /\ BootInv(u)' /\ MailInv(u)'
  BY <1>1 DEF ExitInv, BootInv, MailInv, Exiting
<1> QED BY <1>3, <1>4 DEF Parts

LEMMA ExitDoneParts ==
  ASSUME ShutdownInv, NEW v \in Vcpus, exit_done(v)
  PROVE  Parts'
<1> USE DEF ShutdownInv
<1>e. pc[v] = "exit" /\ pc[v] \in Exiting /\ arg[v] = NVCPUS
  BY DEF exit_done, Exiting
<1>a. /\ zpc = "none" /\ gstate \in {"EXITING", "RESETTING"} /\ mbox[v] # "STOP_VCPU"
      /\ \A w \in Vcpus : mbox[w] \notin {"STOP_GUEST", "SCHED_VCPU"}
  BY <1>e, DriverAlone
<1>b. mbox[v] \notin {"STOP_VCPU", "STOP_GUEST", "SCHED_VCPU", "GUEST_PANIC"}
  BY <1>a DEF Parts, Quiet
<1>1. \A w \in Vcpus : w < NVCPUS
  BY LifecycleAssumption DEF Vcpus
<1>2. status[v] = "STOPPED" /\ slot[v] = FALSE /\ (\A w \in Vcpus \ {v} : Down(w))
  <2>1. ExitInv(v) /\ slot[v] \in BOOLEAN
    BY DEF Parts, TypeInv, TypeOK
  <2> QED BY <2>1, <1>1, <1>e DEF ExitInv
<1>3. First(Min(Bootable)) /\ Min(Bootable) \in Vcpus /\ Bootable # {}
  <2>1. v \in Bootable
    BY <1>2 DEF Bootable
  <2> QED BY <2>1, FirstIsMin
<1>4. /\ UNCHANGED <<lock, status, mbox, reason, zpc, zcmd, ztgt>>
      /\ \A u \in Vcpus \ {v} : pc'[u] = pc[u] /\ slot'[u] = slot[u]
  <2>1. UNCHANGED <<lock, status, mbox, reason, zpc, zcmd, ztgt>>
    BY DEF exit_done, zvars
  <2>2. PICK l : Goto(v, l)
    BY DEF exit_done
  <2>3. slot' = slot \/ slot' = [slot EXCEPT ![v] = TRUE]
    BY DEF exit_done
  <2>4. \A u \in Vcpus \ {v} : slot'[u] = slot[u]
    BY <2>3 DEF TypeInv, TypeOK
  <2> QED BY <2>1, <2>2, <2>4, Moves
<1>5. \A u \in Vcpus \ {v} : Down(u)' /\ Shape(u)' /\ mbox'[u] \notin {"STOP_GUEST", "SCHED_VCPU"}
  <2> TAKE u \in Vcpus \ {v}
  <2>1. Down(u) /\ Shape(u)
    BY <1>2 DEF Parts
  <2> QED BY <2>1, <1>4, <1>a DEF Down, Shape
<1>6. CASE reason[v] = "MACH_EXIT" /\ gstate' = "STOPPED" /\ Goto(v, "work") /\ UNCHANGED <<slot, arg>>
  <2>1. pc'[v] = "work"
    BY <1>6, Moves
  <2>2. Quiet'
    BY <2>1, <1>4 DEF Parts, Quiet, QuietPC
  <2>3. Down(v)' /\ Shape(v)' /\ ~Launching(v)' /\ ~Driving(v)'
    BY <2>1, <1>2, <1>4, <1>6 DEF Down, Shape, Launching, Driving, Exiting
  <2>4. ZeusInv'
    BY <2>3, <1>4, <1>5, <1>a DEF ZeusInv, AllDown
  <2>5. ~Token(v)' /\ ExitInv(v)' /\ BootInv(v)' /\ MailInv(v)'
    BY <2>1, <2>3, <1>b, <1>4 DEF Token, ExitInv, BootInv, MailInv, Exiting
  <2> QED BY <2>2, <2>3, <2>4, <2>5, <1>5, OneLeft
<1>7. CASE reason[v] = "MACH_SIR" /\ UNCHANGED <<gstate, arg>> /\ Min(Bootable) = v /\ slot' = [slot EXCEPT ![v] = TRUE] /\ Goto(v, "work")
  <2>1. pc'[v] = "work" /\ slot'[v] = TRUE
    BY <1>7, Moves DEF TypeInv, TypeOK
  <2>2. Quiet'
    BY <2>1, <1>4 DEF Parts, Quiet, QuietPC
  <2>3. gstate' = "RESETTING"
    BY <1>7, <1>e DEF Parts, ExitInv
  <2>4. Shape(v)' /\ Launching(v)' /\ ~Driving(v)'
    BY <2>1, <1>2, <1>4 DEF Shape, Launching, Driving, Exiting
  <2>5. ZeusInv'
    BY <1>4, <1>a, <2>3 DEF ZeusInv
  <2>6. First(v)' /\ OthersDown(v)'
    BY <1>3, <1>4, <1>5, <1>7 DEF First, OthersDown
  <2>7. ExitInv(v)' /\ BootInv(v)' /\ MailInv(v)'
    BY <2>1, <2>3, <2>4, <2>6, <1>b, <1>4 DEF ExitInv, BootInv, MailInv, Exiting
  <2> QED BY <2>2, <2>3, <2>4, <2>5, <2>7, <1>a, <1>4, <1>5, OneLeft
<1>8. CASE reason[v] = "MACH_SIR" /\ UNCHANGED <<gstate, slot>> /\ Min(Bootable) # v /\ arg' = [arg EXCEPT ![v] = Min(Bootable)]
           /\ Goto(v, "ignite_send")
  <2>1. pc'[v] = "ignite_send" /\ arg'[v] = Min(Bootable)
    BY <1>8, Moves DEF TypeInv, TypeOK
  <2>2. Quiet'
    BY <2>1, <1>4 DEF Parts, Quiet, QuietPC
  <2>3. gstate' = "RESETTING"
    BY <1>8, <1>e DEF Parts, ExitInv
  <2>4. Shape(v)' /\ ~Launching(v)'
    BY <2>1, <1>2, <1>4, <1>8 DEF Shape, Launching
  <2>5. ZeusInv'
    BY <1>4, <1>a, <2>3 DEF ZeusInv
  <2>6. First(arg[v])' /\ OthersDown(v)'
    <3>1. First(Min(Bootable)) => \A w \in Vcpus : status'[w] # "ERROR" => Min(Bootable) <= w
      BY <1>4 DEF First
    <3>2. status'[Min(Bootable)] # "ERROR"
      BY <1>3, <1>4 DEF First
    <3> QED BY <1>3, <1>5, <2>1, <3>1, <3>2 DEF First, OthersDown
  <2>7. ExitInv(v)' /\ BootInv(v)' /\ MailInv(v)'
    BY <2>1, <2>3, <2>4, <2>6, <1>8, <1>b, <1>4 DEF ExitInv, BootInv, MailInv, Exiting
  <2> QED BY <2>2, <2>3, <2>4, <2>5, <2>7, <1>a, <1>4, <1>5, OneLeft
<1> QED BY <1>3, <1>6, <1>7, <1>8 DEF exit_done

(* guest_ignition's cross-call: the token passes to the boot cpu.          *)
LEMMA IgniteParts ==
  ASSUME ShutdownInv, NEW v \in Vcpus, ignite_send(v)
  PROVE  Parts'
<1> USE DEF ShutdownInv
<1>b. PICK b \in Vcpus : b = arg[v]
  BY DEF ignite_send, TypeInv, Working
<1>1. /\ pc[v] = "ignite_send" /\ pc'[v] = "work" /\ \A u \in Vcpus \ {v} : pc'[u] = pc[u]
      /\ UNCHANGED <<gstate, lock, status, slot, arg, reason, zpc, zcmd, ztgt>>
  BY Moves DEF ignite_send, zvars
<1>2. b \in Vcpus /\ b # v /\ First(b) /\ gstate = "RESETTING" /\ OthersDown(v) /\ status[v] = "STOPPED" /\ slot[v] = FALSE
  <2>1. BootInv(v) /\ Shape(v) /\ slot[v] \in BOOLEAN
    BY DEF Parts, TypeInv, TypeOK
  <2> QED BY <2>1, <1>b, <1>1 DEF BootInv, Shape, First
<1>3. mbox[b] = NoMondo /\ mbox'[b] = "SCHED_VCPU" /\ \A u \in Vcpus \ {b} : mbox'[u] = mbox[u]
  BY <1>b DEF ignite_send, Post, TypeInv, TypeOK
<1>4. \A u \in Vcpus : Down(u)' /\ Shape(u)'
  <2> TAKE u \in Vcpus
  <2>1. CASE u = v
    BY <2>1, <1>1, <1>2 DEF Down, Shape
  <2>2. CASE u # v
    BY <2>2, <1>1, <1>2 DEF Down, Shape, OthersDown, Parts
  <2> QED BY <2>1, <2>2
<1>5. Token(v) /\ Driving(v)
  BY <1>1 DEF Token, Driving
<1>6. zpc = "none" /\ \A u \in Vcpus \ {v} : mbox[u] \notin {"STOP_GUEST", "SCHED_VCPU"}
  BY <1>5 DEF Parts, OneToken, Token
<1>7. mbox[v] \notin {"STOP_GUEST", "SCHED_VCPU"}
  BY <1>5, <1>1 DEF Parts, MailInv, BootInv, Down
<1>8. Quiet'
  BY <1>1, <1>3 DEF Parts, Quiet, QuietPC
<1>9. ZeusInv'
  BY <1>1, <1>2, <1>6 DEF ZeusInv
<1>10. First(b)' /\ OthersDown(b)'
  BY <1>1, <1>2, <1>4 DEF First, OthersDown
<1>11. pc'[b] \in {"dead", "work", "idle"} /\ ~Launching(b)'
  BY <1>2, <1>4 DEF Down, Launching
<1>12. ExitInv(b)' /\ BootInv(b)' /\ MailInv(b)'
  BY <1>1, <1>2, <1>3, <1>4, <1>10, <1>11 DEF ExitInv, BootInv, MailInv, Exiting
<1> QED BY <1>1, <1>2, <1>3, <1>4, <1>6, <1>7, <1>8, <1>9, <1>12, OneLeft

-----------------------------------------------------------------------------
(* The strand's work loop and its cross-calls.                             *)

LEMMA LauncherAlone ==
  ASSUME Parts, NEW v \in Vcpus, Launching(v)
  PROVE  /\ zpc = "none" /\ gstate = "RESETTING" /\ status[v] = "STOPPED" /\ First(v)
         /\ mbox[v] \notin {"STOP_GUEST", "SCHED_VCPU", "STOP_VCPU"}
         /\ \A u \in Vcpus \ {v} : Down(u) /\ Shape(u) /\ mbox[u] \notin {"STOP_GUEST", "SCHED_VCPU"}
<1>1. Token(v) /\ ~Down(v) /\ ~Driving(v) /\ pc[v] \in {"boot", "work"}
  BY DEF Token, Launching, Down, Driving, Exiting
<1>2. zpc = "none" /\ \A u \in Vcpus \ {v} : ~Token(u)
  BY <1>1 DEF Parts, OneToken
<1>3. gstate = "RESETTING" /\ First(v) /\ OthersDown(v) /\ mbox[v] # "SCHED_VCPU"
  BY <1>1 DEF Parts, BootInv
<1>4. mbox[v] # "STOP_GUEST" /\ status[v] = "STOPPED"
  BY DEF Parts, MailInv, Shape, Launching
<1>5. mbox[v] # "STOP_VCPU"
  <2>1. \A d \in Vcpus : pc[d] # "exit_wait"
    BY <1>1, <1>2 DEF Token, Driving, Exiting
  <2> QED BY <1>1, <2>1 DEF Parts, MailInv
<1>6. \A u \in Vcpus \ {v} : Down(u) /\ Shape(u) /\ mbox[u] \notin {"STOP_GUEST", "SCHED_VCPU"}
  BY <1>2, <1>3 DEF Token, OthersDown, Parts
<1> QED BY <1>2, <1>3, <1>4, <1>5, <1>6

(* launch_vcpu finds the guest RESETTING: it launches the boot cpu.        *)
LEMMA LaunchParts ==
  ASSUME ShutdownInv, NEW v \in Vcpus, launch_vcpu(v) \/ launch_boot_cpu(v)
  PROVE  Parts'
<1> USE DEF ShutdownInv
<1>1. Launching(v)
  BY DEF launch_vcpu, launch_boot_cpu, Launching
<1>2. /\ zpc = "none" /\ gstate = "RESETTING" /\ status[v] = "STOPPED" /\ First(v)
      /\ mbox[v] \notin {"STOP_GUEST", "SCHED_VCPU", "STOP_VCPU"}
      /\ \A u \in Vcpus \ {v} : Down(u) /\ Shape(u) /\ mbox[u] \notin {"STOP_GUEST", "SCHED_VCPU"}
  BY <1>1, LauncherAlone
<1>3. /\ UNCHANGED <<lock, status, slot, mbox, arg, reason, zpc, zcmd, ztgt>>
      /\ \/ launch_vcpu(v) /\ Goto(v, "boot") /\ gstate' = gstate
         \/ launch_boot_cpu(v) /\ Goto(v, "enter") /\ gstate' = "NORMAL"
  <2>1. CASE launch_vcpu(v)
    <3>1. (CASE gstate = "NORMAL" -> "enter" [] gstate = "RESETTING" -> "boot" [] OTHER -> "abort") = "boot"
      BY <1>2
    <3> QED BY <2>1, <3>1, <1>2 DEF launch_vcpu, zvars
  <2>2. CASE launch_boot_cpu(v)
    BY <2>2 DEF launch_boot_cpu, zvars
  <2> QED BY <2>1, <2>2
<1>4. \A u \in Vcpus \ {v} : pc'[u] = pc[u]
  BY <1>3, Moves
<1>5. \/ pc'[v] = "boot" /\ gstate' = "RESETTING"
      \/ pc'[v] = "enter" /\ gstate' = "NORMAL"
  <2>1. CASE Goto(v, "boot") /\ gstate' = gstate
    BY <2>1, <1>2, Moves
  <2>2. CASE Goto(v, "enter") /\ gstate' = "NORMAL"
    BY <2>2, Moves
  <2> QED BY <2>1, <2>2, <1>3
<1>6. \A u \in Vcpus \ {v} : Down(u)' /\ Shape(u)' /\ mbox'[u] \notin {"STOP_GUEST", "SCHED_VCPU"}
  BY <1>2, <1>3, <1>4 DEF Down, Shape
<1>7. Quiet'
  BY <1>3, <1>4, <1>5 DEF Parts, Quiet, QuietPC
<1>8. ZeusInv'
  BY <1>2, <1>3, <1>5 DEF ZeusInv
<1>9. Shape(v)' /\ ~Driving(v)'
  BY <1>2, <1>3, <1>5 DEF Shape, Driving, Exiting
<1>10. First(v)' /\ OthersDown(v)'
  BY <1>2, <1>3, <1>6 DEF First, OthersDown
<1>11. \A u \in Vcpus \ {v} : ~Token(u)'
  BY <1>6 DEF Token, Down, Driving, Launching, Exiting, Shape
<1>12. ExitInv(v)' /\ BootInv(v)' /\ MailInv(v)'
  BY <1>2, <1>3, <1>5, <1>10, <1>11 DEF ExitInv, BootInv, MailInv, Launching, Exiting
<1>13. Token(v)' => gstate' = "RESETTING"
  BY <1>2, <1>3, <1>5, <1>9 DEF Token, Launching
<1> QED BY <1>2, <1>3, <1>6, <1>7, <1>8, <1>9, <1>12, <1>13, OneLeft

LEMMA EnterParts ==
  ASSUME ShutdownInv, NEW v \in Vcpus, enter_guest(v)
  PROVE  Parts'
<1> USE DEF ShutdownInv
<1>1. /\ pc[v] = "enter" /\ pc'[v] = "guest" /\ \A u \in Vcpus \ {v} : pc'[u] = pc[u]
      /\ UNCHANGED <<gstate, lock, slot, mbox, arg, reason, zpc, zcmd, ztgt>>
  BY Moves DEF enter_guest, zvars
<1>2. status'[v] = "RUNNING" /\ \A u \in Vcpus \ {v} : status'[u] = status[u]
  BY DEF enter_guest, TypeInv, TypeOK
<1>3. gstate \in {"NORMAL", "EXITING"} /\ OthersDown(v) /\ \A w \in Vcpus : Token(w) => w = v
  BY <1>1 DEF Parts, BootInv
<1>4. mbox[v] # "SCHED_VCPU" /\ mbox[v] # "STOP_VCPU"
  <2>1. ~Down(v)
    BY <1>1 DEF Down
  <2>2. \A d \in Vcpus : pc[d] # "exit_wait"
    BY <1>1, <1>3 DEF Token, Driving, Exiting
  <2> QED BY <2>1, <2>2 DEF Parts, BootInv, MailInv
<1>5. \A u \in Vcpus \ {v} : Down(u)' /\ Shape(u)' /\ mbox'[u] \notin {"STOP_GUEST", "SCHED_VCPU"}
  BY <1>1, <1>2, <1>3 DEF Down, Shape, Token, OthersDown, Parts
<1>6. Quiet'
  BY <1>1, <1>2 DEF Parts, Quiet, QuietPC
<1>7. ZeusInv'
  <2>1. zpc # "ignite" /\ (zpc = "send" => zcmd = "STOP_GUEST" /\ gstate = "EXITING")
    BY <1>3 DEF Parts, ZeusInv
  <2> QED BY <2>1, <1>1, <1>3 DEF ZeusInv
<1>8. Shape(v)' /\ ~Driving(v)' /\ ~Launching(v)'
  BY <1>1, <1>2 DEF Shape, Driving, Launching, Exiting
<1>9. ExitInv(v)' /\ BootInv(v)' /\ MailInv(v)'
  <2>1. mbox[v] = "STOP_GUEST" => gstate = "EXITING"
    BY DEF Parts, MailInv
  <2> QED BY <2>1, <1>1, <1>4, <1>8 DEF ExitInv, BootInv, MailInv, Exiting
<1>10. Token(v)' => zpc' = "none" /\ gstate' \in {"EXITING", "RESETTING"}
  <2>1. Token(v)' => Token(v)
    BY <1>1, <1>8 DEF Token
  <2> QED BY <2>1, <1>1 DEF Parts, OneToken
<1> QED BY <1>5, <1>6, <1>7, <1>8, <1>9, <1>10, OneLeft

LEMMA IdleParts ==
  ASSUME ShutdownInv, NEW v \in Vcpus, start_work_idle(v)
  PROVE  Parts'
<1> USE DEF ShutdownInv
<1>1. /\ pc[v] = "work" /\ pc'[v] = "idle" /\ \A u \in Vcpus \ {v} : pc'[u] = pc[u]
      /\ UNCHANGED <<gstate, lock, status, slot, mbox, arg, reason, zpc, zcmd, ztgt>>
  BY Moves DEF start_work_idle, zvars
<1>2. slot[v] = FALSE
  BY DEF start_work_idle, TypeInv, TypeOK
<1>3. Shape(v) /\ status[v] \in {"STOPPED", "RUNNING", "ERROR"}
  BY DEF Parts, Quiet
<1>4. Shape(v)' /\ (Down(v) => Down(v)')
  BY <1>1, <1>2, <1>3 DEF Shape, Down
<1> QED BY <1>1, <1>2, <1>3, <1>4, CalmStep

LEMMA ErrorParts ==
  ASSUME ShutdownInv, NEW v \in Vcpus, strand_in_error(v)
  PROVE  Parts'
<1> USE DEF ShutdownInv
<1>1. /\ pc[v] = "guest" /\ pc'[v] = "dead" /\ \A u \in Vcpus \ {v} : pc'[u] = pc[u]
      /\ UNCHANGED <<gstate, lock, slot, mbox, arg, reason, zpc, zcmd, ztgt>>
  BY Moves DEF strand_in_error, zvars
<1>2. status'[v] = "ERROR" /\ \A u \in Vcpus \ {v} : status'[u] = status[u]
  BY DEF strand_in_error, TypeInv, TypeOK
<1>3. status[v] = "RUNNING"
  BY <1>1 DEF Parts, Shape
<1>4. Shape(v)' /\ Down(v)'
  BY <1>1, <1>2 DEF Shape, Down
<1> QED BY <1>1, <1>2, <1>3, <1>4, CalmStep

(* A cross-call: schedule the boot cpu, stop a vcpu, stop the guest.       *)
LEMMA MondoParts ==
  ASSUME ShutdownInv, NEW v \in Vcpus, handle_hvmondo(v)
  PROVE  Parts'
<1> USE DEF ShutdownInv
<1>1. /\ pc[v] \in {"guest", "idle"} /\ mbox'[v] = NoMondo /\ \A u \in Vcpus \ {v} : mbox'[u] = mbox[u]
      /\ UNCHANGED <<gstate, lock, zpc, zcmd, ztgt>>
  BY DEF handle_hvmondo, schedule_vcpu_cmd, stop_vcpu_cmd, stop_guest_cmd, panic_guest_cmd, TypeInv, TypeOK, zvars
<1>2. Shape(v) /\ BootInv(v) /\ MailInv(v) /\ status[v] \in {"STOPPED", "RUNNING"}
  BY <1>1 DEF Parts, Shape, Quiet
<1>3. CASE mbox[v] = "SCHED_VCPU"
  <2>1. pc'[v] = "work" /\ \A u \in Vcpus \ {v} : pc'[u] = pc[u]
    BY <1>3, Moves DEF handle_hvmondo, schedule_vcpu_cmd, stop_vcpu_cmd, stop_guest_cmd, panic_guest_cmd
  <2>2. /\ slot'[v] = TRUE /\ \A u \in Vcpus \ {v} : slot'[u] = slot[u]
        /\ UNCHANGED <<status, arg, reason>>
    BY <1>3 DEF handle_hvmondo, schedule_vcpu_cmd, stop_vcpu_cmd, stop_guest_cmd, panic_guest_cmd, TypeInv, TypeOK
  <2>3. gstate = "RESETTING" /\ First(v) /\ Down(v) /\ OthersDown(v)
    BY <1>2, <1>3 DEF BootInv
  <2>4. Token(v) /\ zpc = "none"
    BY <1>3 DEF Token, Parts, OneToken
  <2>5. \A u \in Vcpus \ {v} : ~Token(u)
    BY <2>4 DEF Parts, OneToken
  <2>6. \A u \in Vcpus \ {v} : Down(u)' /\ Shape(u)' /\ mbox'[u] \notin {"STOP_GUEST", "SCHED_VCPU"}
    BY <2>1, <2>2, <2>3, <2>5, <1>1 DEF Down, Shape, Token, OthersDown, Parts
  <2>7. Quiet'
    BY <2>1, <2>2, <1>1 DEF Parts, Quiet, QuietPC, NoMondo
  <2>8. ZeusInv'
    BY <2>3, <2>4, <1>1 DEF ZeusInv
  <2>9. Shape(v)' /\ ~Driving(v)'
    BY <2>1, <2>2, <2>3, <1>1, <1>2 DEF Shape, Down, Driving, Exiting
  <2>10. First(v)' /\ OthersDown(v)'
    BY <2>2, <2>3, <2>6 DEF First, OthersDown
  <2>11. ExitInv(v)' /\ BootInv(v)' /\ MailInv(v)'
    BY <2>1, <2>3, <2>10, <1>1 DEF ExitInv, BootInv, MailInv, Exiting, NoMondo
  <2> QED BY <2>3, <2>4, <2>6, <2>7, <2>8, <2>9, <2>11, <1>1, OneLeft
<1>4. CASE mbox[v] = "STOP_VCPU"
  <2>1. pc'[v] = "work" /\ \A u \in Vcpus \ {v} : pc'[u] = pc[u]
    BY <1>4, Moves DEF handle_hvmondo, schedule_vcpu_cmd, stop_vcpu_cmd, stop_guest_cmd, panic_guest_cmd
  <2>2. /\ slot'[v] = FALSE /\ \A u \in Vcpus \ {v} : slot'[u] = slot[u]
        /\ UNCHANGED <<arg, reason>>
    BY <1>4 DEF handle_hvmondo, schedule_vcpu_cmd, stop_vcpu_cmd, stop_guest_cmd, panic_guest_cmd, TypeInv, TypeOK
  <2>3. status'[v] = "STOPPED" /\ \A u \in Vcpus \ {v} : status'[u] = status[u]
    BY <1>4, <1>2 DEF handle_hvmondo, schedule_vcpu_cmd, stop_vcpu_cmd, stop_guest_cmd, panic_guest_cmd,
                       Stopped, TypeInv, TypeOK
  <2>4. Shape(v)' /\ Down(v)'
    BY <2>1, <2>2, <2>3 DEF Shape, Down
  <2> QED BY <2>1, <2>2, <2>3, <2>4, <1>1, <1>4, CalmStep
<1>5. CASE mbox[v] = "STOP_GUEST"
  <2>1. pc'[v] = "exit" /\ \A u \in Vcpus \ {v} : pc'[u] = pc[u]
    BY <1>5, Moves DEF handle_hvmondo, schedule_vcpu_cmd, stop_vcpu_cmd, stop_guest_cmd, panic_guest_cmd
  <2>2. /\ reason'[v] = "MACH_EXIT" /\ arg'[v] = 0 /\ \A u \in Vcpus \ {v} : arg'[u] = arg[u] /\ reason'[u] = reason[u]
        /\ UNCHANGED <<status, slot>>
    BY <1>5 DEF handle_hvmondo, schedule_vcpu_cmd, stop_vcpu_cmd, stop_guest_cmd, panic_guest_cmd, TypeInv, TypeOK
  <2>3. Token(v) /\ zpc = "none" /\ gstate = "EXITING"
    BY <1>2, <1>5 DEF Token, Parts, OneToken, MailInv
  <2>4. \A u \in Vcpus \ {v} : ~Token(u)
    BY <2>3 DEF Parts, OneToken
  <2>5. \A u \in Vcpus \ {v} : pc[u] # "enter"
    BY <2>3 DEF Parts, BootInv
  <2>6. \A u \in Vcpus \ {v} : ~Token(u)' /\ pc'[u] \notin Exiting /\ pc'[u] # "ignite_send" /\ ~Launching(u)' /\ pc'[u] # "enter"
                               /\ mbox'[u] \notin {"STOP_GUEST", "SCHED_VCPU"}
    BY <2>1, <2>2, <2>4, <2>5, <1>1 DEF Token, Driving, Launching
  <2>7. Quiet'
    BY <2>1, <2>2, <1>1 DEF Parts, Quiet, QuietPC, NoMondo
  <2>8. OneToken' /\ ZeusInv'
    BY <2>3, <2>6, <1>1 DEF OneToken, ZeusInv
  <2>9. ASSUME NEW u \in Vcpus PROVE (Shape(u) /\ ExitInv(u) /\ BootInv(u) /\ MailInv(u))'
    <3>1. CASE u = v
      <4>1. \A w \in Vcpus : ~(w < 0)
        BY LifecycleAssumption DEF Vcpus
      <4>2. Shape(v)' /\ ~Launching(v)'
        BY <2>1, <2>2, <1>1, <1>2 DEF Shape, Launching
      <4>3. ExitInv(v)'
        BY <4>1, <2>1, <2>2, <2>3, <1>1 DEF ExitInv
      <4>4. BootInv(v)' /\ MailInv(v)'
        BY <4>2, <2>1, <1>1 DEF BootInv, MailInv, NoMondo
      <4> QED BY <3>1, <4>2, <4>3, <4>4
    <3>2. CASE u # v
      <4>1. Shape(u)'
        BY <3>2, <2>1, <2>2 DEF Shape, Parts
      <4>2. ExitInv(u)' /\ BootInv(u)'
        BY <3>2, <2>6 DEF ExitInv, BootInv
      <4>3. mbox[u] = "STOP_VCPU" => Down(u)
        <5>1. \A d \in Vcpus : pc[d] # "exit_wait"
          BY <2>4, <1>1 DEF Token, Driving, Exiting
        <5> QED BY <5>1 DEF Parts, MailInv
      <4>4. Down(u) => Down(u)'
        BY <3>2, <2>1, <2>2 DEF Down
      <4>5. MailInv(u)'
        BY <3>2, <4>3, <4>4, <2>6, <1>1 DEF MailInv
      <4> QED BY <4>1, <4>2, <4>5
    <3> QED BY <3>1, <3>2
  <2> QED BY <2>7, <2>8, <2>9 DEF Parts
<1>6. mbox[v] # "GUEST_PANIC"
  BY DEF Parts, Quiet
<1> QED BY <1>3, <1>4, <1>5, <1>6 DEF handle_hvmondo, schedule_vcpu_cmd, stop_vcpu_cmd, stop_guest_cmd, panic_guest_cmd

-----------------------------------------------------------------------------
(* The domain manager.                                                     *)

(* A guest that boots is stopped through its boot cpu.                     *)
LEMMA FirstIsTarget ==
  ASSUME ShutdownInv, NEW v \in Vcpus, First(v)
  PROVE  find_target_strand_for_exit = v
<1> DEFINE ready == {w \in Vcpus : status[w] \in {"RUNNING", "STOPPED"}}
<1>1. ready = Bootable
  BY DEF Bootable, ShutdownInv, Parts, Quiet
<1>2. Bootable # {} /\ Min(Bootable) = v
  BY FirstIsMin DEF ShutdownInv
<1>3. find_target_strand_for_exit = IF ready = {} THEN (-1) % 256 ELSE Min(ready)
  BY DEF find_target_strand_for_exit
<1> QED BY <1>1, <1>2, <1>3

(* Only zpc, zcmd and ztgt change, and everybody is down.                  *)
LEMMA AllDownStep ==
  ASSUME ShutdownInv, AllDown, UNCHANGED <<lock, status, slot, mbox, pc, arg, reason>>,
         \A v \in Vcpus : mbox[v] \notin {"STOP_GUEST", "SCHED_VCPU"}, ZeusInv'
  PROVE  Parts'
<1> USE DEF ShutdownInv
<1>1. 0 \in Vcpus
  BY LifecycleAssumption DEF Vcpus
<1>2. \A v \in Vcpus : Down(v)' /\ Shape(v)' /\ mbox'[v] \notin {"STOP_GUEST", "SCHED_VCPU"}
  BY DEF AllDown, Down, Shape, Parts
<1>3. \A v \in Vcpus : ~Driving(v)' /\ ~Launching(v)' /\ pc'[v] \in {"dead", "work", "idle"}
  BY <1>2 DEF Down, Driving, Launching, Exiting, Shape
<1>4. Quiet'
  BY DEF Parts, Quiet
<1>5. ~Token(0)' /\ ExitInv(0)' /\ BootInv(0)' /\ MailInv(0)'
  BY <1>1, <1>2, <1>3 DEF Token, ExitInv, BootInv, MailInv, Exiting
<1> QED BY <1>1, <1>2, <1>4, <1>5, OneLeft

LEMMA ZeusParts ==
  ASSUME ShutdownInv, ExitsOnly, Zeus_Next
  PROVE  Parts'
<1> USE DEF ShutdownInv
<1>n. zpc # "none" => \A v \in Vcpus : ~Token(v)
  BY DEF Parts, OneToken
<1>1. CASE op_guest_start
  <2>1. /\ gstate = "STOPPED" /\ gstate' = "RESETTING" /\ zpc' = "ignite"
        /\ UNCHANGED <<lock, status, slot, mbox, pc, arg, reason>>
    BY <1>1 DEF op_guest_start
  <2>2. AllDown /\ \A v \in Vcpus : ~Token(v)
    BY <2>1 DEF Parts, ZeusInv, OneToken
  <2>3. AllDown'
    BY <2>1, <2>2 DEF AllDown, Down
  <2>4. ZeusInv'
    BY <2>1, <2>3 DEF ZeusInv
  <2> QED BY <2>1, <2>2, <2>4, AllDownStep DEF Token
<1>2. CASE guest_ignition
  <2>1. /\ zpc = "ignite" /\ UNCHANGED <<gstate, lock, status, slot, mbox, pc, arg, reason>>
        /\ \/ zpc' = "none"
           \/ Bootable # {} /\ zpc' = "send" /\ zcmd' = "SCHED_VCPU" /\ ztgt' = Min(Bootable)
    BY <1>2 DEF guest_ignition
  <2>2. AllDown /\ gstate = "RESETTING" /\ \A v \in Vcpus : ~Token(v)
    BY <2>1, <1>n DEF Parts, ZeusInv
  <2>3. AllDown'
    BY <2>1, <2>2 DEF AllDown, Down
  <2>4. zpc' = "send" => zcmd' = "SCHED_VCPU" /\ First(ztgt)'
    <3>1. Bootable # {} => First(Min(Bootable))
      BY FirstIsMin
    <3>2. ASSUME NEW b, First(b), ztgt' = b PROVE First(ztgt)'
      BY <3>2, <2>1 DEF First
    <3> QED BY <2>1, <3>1, <3>2
  <2>5. ZeusInv'
    BY <2>1, <2>2, <2>3, <2>4 DEF ZeusInv
  <2> QED BY <2>1, <2>2, <2>5, AllDownStep DEF Token
<1>3. CASE op_guest_stop
  <2>1. /\ gstate = "NORMAL" /\ gstate' = "EXITING" /\ zpc' = "send" /\ zcmd' = "STOP_GUEST"
        /\ ztgt' = find_target_strand_for_exit /\ UNCHANGED <<lock, status, slot, mbox, pc, arg, reason>>
    BY <1>3 DEF op_guest_stop
  <2>2. \A v \in Vcpus : ~Token(v) /\ ~Driving(v) /\ ~Launching(v) /\ mbox[v] \notin {"STOP_GUEST", "SCHED_VCPU"}
    BY <2>1 DEF Parts, OneToken, Token
  <2>3. \A v \in Vcpus : ~Token(v)' /\ ~Driving(v)' /\ ~Launching(v)'
    BY <2>1, <2>2 DEF Token, Driving, Launching
  <2>4. Quiet' /\ OneToken' /\ ZeusInv'
    BY <2>1, <2>3 DEF Parts, Quiet, OneToken, ZeusInv
  <2>5. ASSUME NEW u \in Vcpus PROVE (Shape(u) /\ ExitInv(u) /\ BootInv(u) /\ MailInv(u))'
    <3>1. Shape(u) /\ BootInv(u) /\ MailInv(u)
      BY DEF Parts
    <3>2. \A w \in Vcpus : Down(w) => Down(w)'
      BY <2>1 DEF Down
    <3>3. Shape(u)' /\ ExitInv(u)'
      BY <3>1, <2>1, <2>3 DEF Shape, ExitInv, Driving
    <3>4. BootInv(u)'
      <4>1. CASE pc[u] = "enter"
        <5>1. First(u) /\ OthersDown(u)
          BY <3>1, <4>1 DEF BootInv
        <5>2. ztgt' = u
          BY <5>1, <2>1, FirstIsTarget
        <5>3. First(u)' /\ OthersDown(u)'
          BY <5>1, <3>2, <2>1 DEF First, OthersDown
        <5> QED BY <4>1, <5>2, <5>3, <2>1, <2>2, <2>3 DEF BootInv
      <4>2. CASE pc[u] # "enter"
        BY <4>2, <2>1, <2>2, <2>3 DEF BootInv, Driving
      <4> QED BY <4>1, <4>2
    <3>5. MailInv(u)'
      BY <3>1, <3>2, <2>1, <2>2 DEF MailInv
    <3> QED BY <3>3, <3>4, <3>5
  <2> QED BY <2>4, <2>5 DEF Parts
<1>4. CASE op_guest_panic
  BY <1>4 DEF op_guest_panic, ExitsOnly
<1>5. CASE zeus_send
  <2>1. /\ zpc = "send" /\ zpc' = "none" /\ ztgt \in Vcpus
        /\ UNCHANGED <<gstate, lock, status, slot, pc, arg, reason, zcmd, ztgt>>
    BY <1>5 DEF zeus_send
  <2>b. PICK b \in Vcpus : b = ztgt
    BY <2>1
  <2>2. mbox[b] = NoMondo /\ mbox'[b] = zcmd /\ \A u \in Vcpus \ {b} : mbox'[u] = mbox[u]
    BY <1>5, <2>b DEF zeus_send, Post, TypeInv, TypeOK
  <2>3. \A v \in Vcpus : ~Token(v) /\ ~Driving(v) /\ ~Launching(v) /\ mbox[v] \notin {"STOP_GUEST", "SCHED_VCPU"}
    BY <2>1, <1>n DEF Token
  <2>4. \A v \in Vcpus : ~Driving(v)' /\ ~Launching(v)'
    BY <2>1, <2>3 DEF Driving, Launching
  <2>5. \A w \in Vcpus : (Down(w) => Down(w)') /\ (Shape(w))'
    BY <2>1 DEF Down, Shape, Parts
  <2>6. CASE zcmd = "SCHED_VCPU"
    <3>1. gstate = "RESETTING" /\ AllDown /\ First(b)
      BY <2>1, <2>6, <2>b DEF Parts, ZeusInv
    <3>2. Quiet' /\ ZeusInv'
      BY <3>1, <2>1, <2>2, <2>6 DEF Parts, Quiet, ZeusInv
    <3>3. \A u \in Vcpus \ {b} : Down(u)' /\ Shape(u)' /\ mbox'[u] \notin {"STOP_GUEST", "SCHED_VCPU"}
      BY <3>1, <2>2, <2>3, <2>5 DEF AllDown
    <3>4. First(b)' /\ OthersDown(b)' /\ Down(b)' /\ pc'[b] \in {"dead", "work", "idle"}
      BY <3>1, <2>1, <2>5 DEF First, OthersDown, AllDown, Down
    <3>5. ExitInv(b)' /\ BootInv(b)' /\ MailInv(b)'
      BY <3>1, <3>4, <2>1, <2>2, <2>4, <2>6 DEF ExitInv, BootInv, MailInv, Exiting
    <3> QED BY <3>1, <3>2, <3>3, <3>5, <2>1, <2>5, OneLeft
  <2>7. CASE zcmd = "STOP_GUEST"
    <3>1. gstate = "EXITING"
      BY <2>1, <2>7 DEF Parts, ZeusInv
    <3>2. \A v \in Vcpus : Token(v)' => v = b
      BY <2>2, <2>3, <2>4 DEF Token
    <3>3. Quiet' /\ ZeusInv' /\ OneToken'
      BY <3>1, <3>2, <2>1, <2>2, <2>7 DEF Parts, Quiet, ZeusInv, OneToken
    <3>4. ASSUME NEW u \in Vcpus PROVE (Shape(u) /\ ExitInv(u) /\ BootInv(u) /\ MailInv(u))'
      <4>1. BootInv(u) /\ MailInv(u)
        BY DEF Parts
      <4>2. ExitInv(u)'
        BY <2>4 DEF ExitInv, Driving
      <4>3. mbox'[u] # "SCHED_VCPU"
        BY <2>2, <2>3, <2>7
      <4>4. BootInv(u)'
        <5>1. CASE pc[u] = "enter"
          <6>1. First(u) /\ OthersDown(u) /\ b = u
            BY <4>1, <5>1, <2>1, <2>b DEF BootInv
          <6>2. First(u)' /\ OthersDown(u)'
            BY <6>1, <2>1, <2>5 DEF First, OthersDown
          <6> QED BY <5>1, <6>1, <6>2, <4>3, <3>1, <3>2, <2>1, <2>4 DEF BootInv
        <5>2. CASE pc[u] # "enter"
          BY <5>2, <4>3, <2>1, <2>4 DEF BootInv, Driving
        <5> QED BY <5>1, <5>2
      <4>5. MailInv(u)'
        <5>1. mbox'[u] = "STOP_VCPU" => mbox[u] = "STOP_VCPU"
          BY <2>2, <2>7
        <5>2. \A d \in Vcpus : pc[d] # "exit_wait"
          BY <2>3 DEF Driving, Exiting
        <5> QED BY <4>1, <5>1, <5>2, <3>1, <2>1, <2>4, <2>5 DEF MailInv
      <4> QED BY <4>2, <4>4, <4>5, <2>5
    <3> QED BY <3>3, <3>4 DEF Parts
  <2> QED BY <2>1, <2>6, <2>7 DEF Parts, ZeusInv
<1> QED BY <1>1, <1>2, <1>3, <1>4, <1>5 DEF Zeus_Next

-----------------------------------------------------------------------------
(* The invariant is inductive, and what follows from it.                   *)

LEMMA NextParts == ShutdownInv /\ ExitsOnly /\ [Next]_vars => Parts'
<1> SUFFICES ASSUME ShutdownInv, ExitsOnly, [Next]_vars PROVE Parts'
  OBVIOUS
<1>1. ASSUME NEW v \in Vcpus, Guest_Next(v) PROVE Parts'
  BY <1>1, HcallParts DEF Guest_Next, ExitsOnly, hcall_cpu_start, hcall_cpu_stop
<1>2. ASSUME NEW v \in Vcpus, Hv_Next(v) PROVE Parts'
  <2>1. CASE start_send(v) \/ stop_mark(v) \/ stop_send(v) \/ stop_wait(v)
    <3>1. pc[v] \in QuietPC
      BY DEF ShutdownInv, Parts, Quiet
    <3> QED BY <2>1, <3>1 DEF QuietPC, start_send, stop_mark, stop_send, stop_wait
  <2>2. CASE exit_local(v) \/ exit_remote(v) \/ exit_send(v) \/ exit_wait(v)
    BY <2>2, ExitLoopParts
  <2>3. CASE exit_done(v) \/ ignite_send(v)
    BY <2>3, ExitDoneParts, IgniteParts
  <2>4. CASE start_work_idle(v) \/ launch_vcpu(v) \/ launch_boot_cpu(v) \/ enter_guest(v)
    BY <2>4, IdleParts, LaunchParts, EnterParts
  <2> QED BY <1>2, <2>1, <2>2, <2>3, <2>4 DEF Hv_Next
<1>3. ASSUME NEW v \in Vcpus, handle_hvmondo(v) \/ strand_in_error(v) PROVE Parts'
  BY <1>3, MondoParts, ErrorParts
<1>4. CASE Zeus_Next
  BY <1>4, ZeusParts
<1>5. CASE UNCHANGED vars
  <2>1. UNCHANGED <<gstate, lock, status, slot, mbox, pc, arg, reason, zpc, zcmd, ztgt>>
    BY <1>5 DEF vars, zvars
  <2> QED
    BY <2>1 DEF ShutdownInv, Parts, Quiet, OneToken, ZeusInv, Shape, ExitInv, BootInv, MailInv, Token, Driving,
                Launching, Down, First, OthersDown, AllDown
<1> QED BY <1>1, <1>2, <1>3, <1>4, <1>5 DEF Next

(* The shutdown of a guest that only exits and resets: the inductive       *)
(* invariant (c_guest_exit, guest_ignition, launch_vcpu, handle_hvmondo).  *)
THEOREM Shutdown ==
  ASSUME ExitsOnly
  PROVE  Spec => []ShutdownInv
<1>1. Init => ShutdownInv
  BY InitTypeInv, InitParts DEF ShutdownInv
<1>2. ShutdownInv /\ [Next]_vars => ShutdownInv'
  BY NextTypeInv, NextParts DEF ShutdownInv
<1> QED BY <1>1, <1>2, PTL DEF Spec

(* Only one strand drives the shutdown of a guest (c_guest_exit under the  *)
(* state set by hcall_mach_exit, hcall_mach_sir and op_guest_stop).        *)
THEOREM ExitDrivenOnce ==
  ASSUME ExitsOnly
  PROVE  Spec => []OneExit
<1>1. ShutdownInv => OneExit
  <2> SUFFICES ASSUME ShutdownInv PROVE OneExit
    OBVIOUS
  <2> DEFINE S == {v \in Vcpus : pc[v] \in Exiting \cup {"ignite_send"}} \cup {v \in Vcpus : mbox[v] = "STOP_GUEST"}
  <2>1. \A v, w \in S : v = w
    BY DEF ShutdownInv, Parts, OneToken, Token, Driving
  <2>2. CASE S = {}
    BY <2>2, FS_EmptySet DEF OneExit
  <2>3. CASE S # {}
    <3>1. PICK x : S = {x}
      BY <2>1, <2>3
    <3>2. Cardinality(S) = 1
      BY <3>1, FS_Singleton
    <3> QED BY <3>2 DEF OneExit
  <2> QED BY <2>2, <2>3
<1> QED BY <1>1, Shutdown, PTL

(* The ASSERTs of c_guest_exit and guest_ignition hold (init.c).           *)
THEOREM ExitAssertsHold ==
  ASSUME ExitsOnly
  PROVE  Spec => []ExitAsserts
<1>1. ShutdownInv => ExitAsserts
  <2> SUFFICES ASSUME ShutdownInv, NEW v \in Vcpus, pc[v] = "exit"
               PROVE  /\ arg[v] = v => status[v] \in {"RUNNING", "STOPPED"}
                      /\ arg[v] = NVCPUS /\ reason[v] = "MACH_SIR" =>
                           gstate = "RESETTING" /\ (Bootable # {} => status[Min(Bootable)] = "STOPPED")
    BY DEF ExitAsserts
  <2>1. status[v] \in {"RUNNING", "STOPPED"}
    BY DEF ShutdownInv, Parts, Quiet, Shape
  <2>2. ExitInv(v) /\ v < NVCPUS /\ \A w \in Vcpus : w < NVCPUS
    BY LifecycleAssumption DEF ShutdownInv, Parts, Vcpus
  <2>3. ASSUME arg[v] = NVCPUS, Bootable # {} PROVE status[Min(Bootable)] = "STOPPED"
    <3>1. Min(Bootable) \in Vcpus /\ status[Min(Bootable)] # "ERROR"
      BY <2>3, FirstIsMin DEF First, ShutdownInv
    <3>2. \A w \in Vcpus : status[w] \in {"STOPPED", "ERROR"}
      BY <2>2, <2>3 DEF ExitInv, Exiting, Down
    <3> QED BY <3>1, <3>2
  <2>4. reason[v] = "MACH_SIR" => gstate = "RESETTING"
    BY <2>2 DEF ExitInv, Exiting
  <2> QED BY <2>1, <2>3, <2>4
<1> QED BY <1>1, Shutdown, PTL

(* None of the HVABORTs of launch_vcpu is reached (huron main.s).          *)
THEOREM LaunchNeverAborts ==
  ASSUME ExitsOnly
  PROVE  Spec => []NoAbort
<1>1. ShutdownInv => NoAbort
  BY DEF ShutdownInv, Parts, Quiet, QuietPC, NoAbort
<1> QED BY <1>1, Shutdown, PTL

(* The boot cpu scrubs memory and copies the prom alone (launch_boot_cpu). *)
THEOREM BootsAlone ==
  ASSUME ExitsOnly
  PROVE  Spec => []BootAlone
<1>1. ShutdownInv => BootAlone
  <2> SUFFICES ASSUME ShutdownInv, NEW v \in Vcpus, pc[v] = "boot"
               PROVE  /\ gstate = "RESETTING"
                      /\ \A w \in Vcpus \ {v} : status[w] \in {"STOPPED", "ERROR"} /\ pc[w] \in {"work", "idle", "dead"}
    BY DEF BootAlone
  <2>1. gstate = "RESETTING" /\ OthersDown(v)
    BY DEF ShutdownInv, Parts, BootInv, Launching
  <2> QED BY <2>1 DEF OthersDown, Down
<1> QED BY <1>1, Shutdown, PTL

(* A stopped vcpu runs no guest code, and a stopped guest has no vcpu      *)
(* scheduled (desched_n_stop_vcpu, c_guest_exit).                          *)
THEOREM StoppedStaysInert ==
  ASSUME ExitsOnly
  PROVE  Spec => []StoppedIsInert
<1>1. ShutdownInv => StoppedIsInert
  <2> SUFFICES ASSUME ShutdownInv PROVE StoppedIsInert
    OBVIOUS
  <2>1. ASSUME NEW v \in Vcpus, status[v] = "STOPPED" PROVE pc[v] \notin InGuest
    <3>1. pc[v] \in QuietPC /\ Shape(v)
      BY DEF ShutdownInv, Parts, Quiet
    <3> QED BY <2>1, <3>1 DEF QuietPC, InGuest, Shape
  <2>2. ASSUME gstate = "STOPPED", NEW v \in Vcpus
        PROVE  /\ status[v] \in {"STOPPED", "ERROR"}
               /\ pc[v] = "dead" \/ (~slot[v] /\ pc[v] \in {"work", "idle"})
               /\ mbox[v] \in {NoMondo, "STOP_VCPU"}
    <3>1. Down(v) /\ ~Token(v)
      BY <2>2 DEF ShutdownInv, Parts, ZeusInv, AllDown, OneToken
    <3>2. mbox[v] \in {NoMondo, "SCHED_VCPU", "STOP_VCPU", "STOP_GUEST", "GUEST_PANIC"} /\ mbox[v] # "GUEST_PANIC"
      BY DEF ShutdownInv, TypeInv, TypeOK, Parts, Quiet
    <3> QED BY <3>1, <3>2 DEF Down, Token
  <2> QED BY <2>1, <2>2 DEF StoppedIsInert
<1> QED BY <1>1, Shutdown, PTL

(* A running vcpu is stopped only by the exit of its guest: a STOP_VCPU    *)
(* left in a mailbox takes down no vcpu that was started after it was sent *)
(* (hv_stop_vcpu_cmd against guest_ignition's SCHED_VCPU).                 *)
THEOREM StopsAreAsked ==
  ASSUME ExitsOnly
  PROVE  Spec => StopIsAsked
<1>1. ASSUME ShutdownInv, Next, NEW v \in Vcpus, status[v] = "RUNNING", status'[v] = "STOPPED"
      PROVE  gstate \in {"EXITING", "RESETTING"}
  <2> USE DEF ShutdownInv
  <2>1. ASSUME NEW u \in Vcpus, exit_local(u) PROVE gstate \in {"EXITING", "RESETTING"}
    BY <1>1, <2>1, DriverAlone DEF exit_local, Exiting
  <2>2. ASSUME NEW u \in Vcpus, handle_hvmondo(u) PROVE gstate \in {"EXITING", "RESETTING"}
    <3>1. mbox[u] = "STOP_VCPU" /\ u = v
      BY <2>2, <1>1 DEF handle_hvmondo, schedule_vcpu_cmd, stop_vcpu_cmd, stop_guest_cmd, panic_guest_cmd,
                       Stopped, TypeInv, TypeOK
    <3>2. ~Down(v)
      BY <1>1 DEF Down
    <3>3. PICK d \in Vcpus : pc[d] = "exit_wait"
      BY <3>1, <3>2, <1>1 DEF Parts, MailInv
    <3> QED BY <3>3, <1>1, DriverAlone DEF Exiting
  <2>3. ASSUME NEW u \in Vcpus, launch_vcpu(u) \/ enter_guest(u) \/ strand_in_error(u) PROVE FALSE
    BY <2>3, <1>1 DEF launch_vcpu, enter_guest, strand_in_error, TypeInv, TypeOK
  <2>4. ASSUME NEW u \in Vcpus, stop_mark(u) PROVE FALSE
    BY <2>4, <1>1 DEF stop_mark, Parts, Quiet, QuietPC
  <2>5. ASSUME NEW u \in Vcpus, Guest_Next(u) PROVE FALSE
    BY <2>5, <1>1 DEF Guest_Next, ExitsOnly, hcall_cpu_start, hcall_cpu_stop, hcall_mach_exit, hcall_mach_sir,
                      JoinExit, BeginExit
  <2>6. ASSUME Zeus_Next PROVE FALSE
    BY <2>6, <1>1 DEF Zeus_Next, op_guest_start, guest_ignition, op_guest_stop, op_guest_panic, zeus_send
  <2>7. ASSUME NEW u \in Vcpus,
               \/ start_send(u) \/ stop_send(u) \/ stop_wait(u) \/ exit_remote(u) \/ exit_send(u) \/ exit_wait(u)
               \/ exit_done(u) \/ ignite_send(u) \/ start_work_idle(u) \/ launch_boot_cpu(u)
        PROVE  FALSE
    BY <2>7, <1>1 DEF start_send, stop_send, stop_wait, exit_remote, exit_send, exit_wait, exit_done, ignite_send,
                      start_work_idle, launch_boot_cpu
  <2> QED BY <1>1, <2>1, <2>2, <2>3, <2>4, <2>5, <2>6, <2>7 DEF Next, Hv_Next
<1>2. ShutdownInv /\ [Next]_vars =>
        [\A v \in Vcpus : status[v] = "RUNNING" /\ status'[v] = "STOPPED" => gstate \in {"EXITING", "RESETTING"}]_vars
  BY <1>1
<1> QED BY <1>2, Shutdown, PTL DEF Spec, StopIsAsked

=============================================================================
