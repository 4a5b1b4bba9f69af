-------------------------------- MODULE Reconf --------------------------------
(***************************************************************************)
(* Reconfiguration of a running machine (common/src/reconf.c, init.c,      *)
(* hvcontrol.c).  The control strand executes the commands of the domain   *)
(* manager Zeus, one at a time, on the strand of the control guest: an     *)
(* immediate reconfiguration parses a new HVMD and commits it, a delayed   *)
(* one parses it and leaves the commit to the strand that ends the next    *)
(* exit of its guest.  Meanwhile guests start, exit and reset.             *)
(*                                                                         *)
(* The tables and what the resource functions do to them are ResTables.    *)
(* How vcpus are started and stopped one by one is GuestLifecycle; here an *)
(* exit stops them in one step.                                            *)
(***************************************************************************)
EXTENDS ResTables

CONSTANTS
    Hvmds,      \* the machine descriptions Zeus may send, a sequence
    BootHvmd,   \* index of the one the machine boots with
    Careful,    \* Zeus only asks for what the comments allow (see MayAsk)
    Patient,    \* Zeus starts a guest only once its exit is over (see MayStart)
    MaxCmds,    \* bound: commands Zeus sends
    Exits       \* bound: the guests that exit, reset or are stopped

ASSUME ReconfAssumption ==
    /\ BootHvmd \in DOMAIN Hvmds /\ Hvmds[BootHvmd].version = "ok" /\ Hvmds[BootHvmd].bad = "none"
    /\ \A i \in DOMAIN Hvmds : WellFormed(Hvmds[i])
    /\ Careful \in BOOLEAN /\ Patient \in BOOLEAN /\ MaxCmds \in Nat /\ Exits \subseteq Guests

VARIABLES
    R,                  \* the resource tables
    pip,                \* parse in progress: the elected operations and their HVMD
    active_hvmd, parse_hvmd,    \* HVMDs, here and in pip and z, are indices of Hvmds
    del_reconf_gid,     \* guest with a pending delayed reconfiguration, or None
    del_reconf_lock,    \* its holder: None, a guest's exit strand, or Control
    z,                  \* the control strand and the command it executes
    x,                  \* per guest, the strand in c_guest_exit
    sched,              \* per guest, the vcpu a SCHED_VCPU mondo is on its way to
    told,               \* the guests Zeus last learnt are down
    cmds                \* commands sent so far

vars == <<R, pip, active_hvmd, parse_hvmd, del_reconf_gid, del_reconf_lock, z, x, sched, told, cmds>>

Control == NGUESTS
Idle == [pc |-> "idle", md |-> None, gid |-> None, call |-> 0]
NoExit == [pc |-> "none", sir |-> FALSE, call |-> 0]
NoPip == [flags |-> [t \in Types |-> [id \in Ids(t) |-> "Noop"]], md |-> None]

ControlStates ==
    [pc : {"kickoff", "idle", "lock", "parse", "postparse", "commit", "ignite"},
     md : DOMAIN Hvmds \cup {None}, gid : Guests \cup {None}, call : 0..Len(commit_reconfig) + 1]
ExitStates ==
    [pc : {"none", "stop", "mark", "lock", "commit", "notify"}, sir : BOOLEAN,
     call : 0..Len(commit_reconfig) + 1]

State(g) == R.guest[g].state
Down == {"STOPPED", "UNCONFIGURED"}

\* What Zeus knows once it is told the state of guest g.
Told(g) == IF State(g) \in Down THEN told \cup {g} ELSE told \ {g}

Init ==
    /\ R = c_start(Hvmds[BootHvmd])
    /\ pip = NoPip
    /\ active_hvmd = BootHvmd /\ parse_hvmd = BootHvmd
    /\ del_reconf_gid = None /\ del_reconf_lock = None
    /\ z = [Idle EXCEPT !.pc = "kickoff", !.gid = 0]
    /\ x = [g \in Guests |-> NoExit]
    /\ sched = [g \in Guests |-> None]
    /\ told = Guests
    /\ cmds = 0

-----------------------------------------------------------------------------
(* Starting a guest.                                                       *)

BootCpus(g) == {v \in Vcpus : R.guest[g].vcpus[v] # None /\ R.vcpu[R.guest[g].vcpus[v]].status # "ERROR"}

\* The first vcpu that is not in error gets the mondo; without one the guest
\* is left in its transitional state.
guest_ignition(g) ==
    IF BootCpus(g) = {} THEN UNCHANGED sched
    ELSE sched' = [sched EXCEPT ![g] = R.guest[g].vcpus[Min(BootCpus(g))]]

\* kickoff_guests: every configured guest is started, in order, at boot.
kickoff_guests ==
    /\ z.pc = "kickoff"
    /\ IF State(z.gid) # "UNCONFIGURED"
       THEN /\ R' = [R EXCEPT !.guest[z.gid].state = "RESETTING"]
            /\ guest_ignition(z.gid)
            /\ told' = told \ {z.gid}
       ELSE UNCHANGED <<R, sched, told>>
    /\ z' = IF z.gid + 1 = NGUESTS THEN Idle ELSE [z EXCEPT !.gid = @ + 1]
    /\ UNCHANGED <<pip, active_hvmd, parse_hvmd, del_reconf_gid, del_reconf_lock, x, cmds>>

\* The strand of the boot vcpu gets the mondo and enters the guest; Zeus is
\* notified that the guest runs.
launch(g) ==
    LET v == sched[g]
    IN  /\ v # None
        /\ R' = IF \/ R.vcpu[v].guest # g \/ R.vcpu[v].status # "STOPPED"
                   \/ State(g) \notin {"RESETTING", "NORMAL"}
                THEN ASSERT(R, FALSE, "launch")
                ELSE [R EXCEPT !.vcpu[v].status = "RUNNING", !.guest[g].state = "NORMAL"]
        /\ sched' = [sched EXCEPT ![g] = None]
        /\ told' = told \ {g}
        /\ UNCHANGED <<pip, active_hvmd, parse_hvmd, del_reconf_gid, del_reconf_lock, z, x, cmds>>

\* A guest starts another of its vcpus.
hcall_cpu_start(g, v) ==
    /\ State(g) = "NORMAL" /\ R.vcpu[v].guest = g /\ R.vcpu[v].status = "STOPPED"
    /\ R' = [R EXCEPT !.vcpu[v].status = "RUNNING"]
    /\ UNCHANGED <<pip, active_hvmd, parse_hvmd, del_reconf_gid, del_reconf_lock, z, x, sched, told, cmds>>

-----------------------------------------------------------------------------
(* What Zeus asks for.  With Careful it keeps to what the comments in the  *)
(* source take for granted: memory and devices change only while their     *)
(* guest is stopped, vcpus are taken away only then, and a delayed change  *)
(* is to its guest.  Adding vcpus and channels, removing channels, and a   *)
(* new md_pa are allowed while the guest runs.  What Zeus knows of a guest *)
(* it knows from notifications, from replies and from its queries.         *)

NodesOf(md, t, g) ==
    {<<id, md[t][id]>> : id \in {i \in DOMAIN md[t] : g = IF t = "console" THEN i ELSE md[t][i].guest}}

UnitStrands(md, t, g) ==
    UNION {{<<c, md[t][c].ino, s>> : s \in md[t][c].cpuset} : c \in {i \in DOMAIN md[t] : md[t][i].guest = g}}

NeedsStop(old, new, g) ==
    \/ g \in DOMAIN old.guest \ DOMAIN new.guest
    \/ \E t \in {"memory", "console", "pcie_bus", "network_device"} : NodesOf(old, t, g) # NodesOf(new, t, g)
    \/ ~(NodesOf(old, "vcpu", g) \subseteq NodesOf(new, "vcpu", g))
    \/ \E t \in {"mau", "cwq"} : ~(UnitStrands(old, t, g) \subseteq UnitStrands(new, t, g))

\* The descriptions that may be active when the next one takes effect.
KnownHvmds == {active_hvmd} \cup {i \in {parse_hvmd} : del_reconf_gid # None}

MayAsk(i, gid) ==
    LET needs == {g \in Guests : \E k \in KnownHvmds : NeedsStop(Hvmds[k], Hvmds[i], g)}
    IN  Careful => IF gid = None
                   THEN needs \subseteq told
                   ELSE /\ needs \subseteq {gid} /\ gid \in DOMAIN Hvmds[i].guest
                        /\ Hvmds[i].version \notin {"noroot", "content"}

\* op_guest_start itself only looks at the state, which is STOPPED before the
\* exit has committed the delayed reconfiguration, and as soon as a commit has
\* made the guest, before it has made its vcpus.  With Patient Zeus waits for
\* the end of both.
MayStart(g) == Patient => x[g].pc = "none" /\ g \in DOMAIN Hvmds[active_hvmd].guest

\* Zeus runs in guest 0 and sends one command after the other.
Send == z.pc = "idle" /\ State(0) = "NORMAL" /\ cmds < MaxCmds /\ cmds' = cmds + 1

-----------------------------------------------------------------------------
(* op_reconfig.                                                            *)

\* gid is None for an immediate reconfiguration.
op_reconfig(i, gid) ==
    /\ Send /\ MayAsk(i, gid)
    /\ z' = IF gid # None /\ State(gid) = "UNCONFIGURED" THEN Idle
            ELSE [pc |-> "lock", md |-> i, gid |-> gid, call |-> 0]
    /\ UNCHANGED <<R, pip, active_hvmd, parse_hvmd, del_reconf_gid, del_reconf_lock, x, sched, told>>

\* Mutant: an immediate one does not look for a pending one.
op_reconfig_lock_anyway ==
    /\ z.pc = "lock" /\ del_reconf_lock = None
    /\ IF z.gid # None /\ del_reconf_gid \notin {None, z.gid}
       THEN z' = Idle /\ UNCHANGED del_reconf_lock
       ELSE /\ z' = [z EXCEPT !.pc = "parse"]
            /\ del_reconf_lock' = IF z.gid = None THEN None ELSE Control
    /\ UNCHANGED <<R, pip, active_hvmd, parse_hvmd, del_reconf_gid, x, sched, told, cmds>>

\* Mutant: a delayed one lets go of the lock before it parses.
op_reconfig_lock_early ==
    /\ z.pc = "lock" /\ del_reconf_lock = None
    /\ z' = IF del_reconf_gid \notin {None, z.gid} THEN Idle ELSE [z EXCEPT !.pc = "parse"]
    /\ UNCHANGED <<R, pip, active_hvmd, parse_hvmd, del_reconf_gid, del_reconf_lock, x, sched, told, cmds>>

\* Only a delayed one keeps the lock; neither goes on over the pending one of
\* another command.
op_reconfig_lock ==
    /\ z.pc = "lock" /\ del_reconf_lock = None
    /\ IF del_reconf_gid \notin {None, z.gid}
       THEN z' = Idle /\ UNCHANGED del_reconf_lock
       ELSE /\ z' = [z EXCEPT !.pc = "parse"]
            /\ del_reconf_lock' = IF z.gid = None THEN None ELSE Control
    /\ UNCHANGED <<R, pip, active_hvmd, parse_hvmd, del_reconf_gid, x, sched, told, cmds>>

\* Mutant: the lock is not released.
Fail_locked ==
    /\ z' = Idle
    /\ pip' = NoPip
    /\ del_reconf_gid' = IF z.gid = None THEN del_reconf_gid ELSE None
    /\ UNCHANGED del_reconf_lock

\* A failure of a delayed one cancels whatever was pending.
Fail ==
    /\ z' = Idle
    /\ pip' = NoPip
    /\ del_reconf_gid' = IF z.gid = None THEN del_reconf_gid ELSE None
    /\ del_reconf_lock' = IF z.gid = None THEN del_reconf_lock ELSE None

\* preparse_hvmd, then phases 1 and 2a.  A missing root node and a wrong
\* content version return at once, whatever is locked.
op_reconfig_parse ==
    LET md == Hvmds[z.md]
    IN  /\ z.pc = "parse"
        /\ parse_hvmd' = z.md
        /\ \/ /\ md.version = "transport"
              /\ Fail /\ UNCHANGED R
           \/ /\ md.version \in {"noroot", "content"}
              /\ z' = Idle /\ UNCHANGED <<R, pip, del_reconf_gid, del_reconf_lock>>
           \/ /\ md.version = "ok"
              /\ R' = res_guest_parse(R, md)
              /\ IF \A t \in Types : res_parse_ok(R, md, t)
                 THEN /\ pip' = [flags |-> res_parse_flags(R, md), md |-> z.md]
                      /\ z' = [z EXCEPT !.pc = "postparse"]
                      /\ UNCHANGED <<del_reconf_gid, del_reconf_lock>>
                 ELSE Fail
        /\ UNCHANGED <<active_hvmd, x, sched, told, cmds>>

op_reconfig_postparse ==
    /\ z.pc = "postparse"
    /\ IF ~res_guest_postparse(R, pip.flags) THEN Fail
       ELSE IF z.gid # None
       THEN /\ del_reconf_gid' = z.gid /\ del_reconf_lock' = None
            /\ z' = Idle /\ UNCHANGED pip
       ELSE /\ z' = [z EXCEPT !.pc = "commit", !.call = 1]
            /\ UNCHANGED <<pip, del_reconf_gid, del_reconf_lock>>
    /\ UNCHANGED <<R, active_hvmd, parse_hvmd, x, sched, told, cmds>>

-----------------------------------------------------------------------------
(* commit_reconfig, one call of a resource's commit function per step, and *)
(* accept_hvmd.  Calls that find nothing to do are skipped.                *)

CommitCall(k) ==
    LET t == commit_reconfig[k][1]
        flag == commit_reconfig[k][2]
    IN  /\ R' = res_commit(R, [flags |-> pip.flags, md |-> Hvmds[pip.md]], t, flag)
        /\ pip' = [pip EXCEPT !.flags[t] = [id \in Ids(t) |-> IF @[id] = flag THEN "Noop" ELSE @[id]]]

\* Mutant: accepted from pip, after pip is cleared.
accept_hvmd_late == pip' = NoPip /\ active_hvmd' = NoPip.md

accept_hvmd == active_hvmd' = parse_hvmd /\ pip' = NoPip

\* What Zeus knows once the reply says that the change was made.
Learn == told \cup {g \in Guests : State(g) = "UNCONFIGURED"}

op_reconfig_commit ==
    LET work == CallsWithWork(pip, z.call)
    IN  /\ z.pc = "commit"
        /\ IF work = {}
           THEN accept_hvmd /\ z' = Idle /\ told' = Learn /\ UNCHANGED R
           ELSE /\ CommitCall(Min(work))
                /\ z' = [z EXCEPT !.call = Min(work) + 1]
                /\ UNCHANGED <<active_hvmd, told>>
        /\ UNCHANGED <<parse_hvmd, del_reconf_gid, del_reconf_lock, x, sched, cmds>>

op_cancel_reconfig ==
    /\ Send /\ del_reconf_lock = None
    /\ del_reconf_gid' = None
    /\ pip' = NoPip
    /\ UNCHANGED <<R, active_hvmd, parse_hvmd, del_reconf_lock, z, x, sched, told>>

-----------------------------------------------------------------------------
(* Starting and stopping a guest by command.                               *)

op_guest_start(g) ==
    /\ Send /\ MayStart(g)
    /\ State(g) = "STOPPED"
    /\ R' = [R EXCEPT !.guest[g].state = "RESETTING"]
    /\ z' = [Idle EXCEPT !.pc = "ignite", !.gid = g]
    /\ told' = told \ {g}
    /\ UNCHANGED <<pip, active_hvmd, parse_hvmd, del_reconf_gid, del_reconf_lock, x, sched>>

op_guest_start_ignite ==
    /\ z.pc = "ignite"
    /\ guest_ignition(z.gid)
    /\ z' = Idle
    /\ UNCHANGED <<R, pip, active_hvmd, parse_hvmd, del_reconf_gid, del_reconf_lock, x, told, cmds>>

\* A query, which is answered with the state of the guest at that moment.
op_get_res_stat(g) ==
    /\ z.pc = "idle" /\ State(0) = "NORMAL"
    /\ told' = Told(g)
    /\ UNCHANGED <<R, pip, active_hvmd, parse_hvmd, del_reconf_gid, del_reconf_lock, z, x, sched, cmds>>

\* One exiting strand per guest is followed.
BeginExit(g, sir) ==
    /\ g \in Exits /\ State(g) = "NORMAL" /\ x[g].pc = "none"
    /\ R' = [R EXCEPT !.guest[g].state = IF sir THEN "RESETTING" ELSE "EXITING"]
    /\ x' = [x EXCEPT ![g] = [pc |-> "stop", sir |-> sir, call |-> 0]]

op_guest_stop(g) ==
    /\ Send /\ BeginExit(g, FALSE)
    /\ UNCHANGED <<pip, active_hvmd, parse_hvmd, del_reconf_gid, del_reconf_lock, z, sched, told>>

\* The exit of the last guest, if nothing is pending for it, turns the power off.
PowersOff(g) == del_reconf_gid # g /\ \A h \in Guests \ {g} : State(h) = "UNCONFIGURED"

\* The guest itself exits (sir = FALSE) or resets.  The exit of the guest with
\* the control channel is a reset.
hcall_mach_exit(g, sir) ==
    /\ sir \/ ~PowersOff(g)
    /\ BeginExit(g, sir \/ R.hv_ldc.guest = g)
    /\ UNCHANGED <<pip, active_hvmd, parse_hvmd, del_reconf_gid, del_reconf_lock, z, sched, told, cmds>>

-----------------------------------------------------------------------------
(* c_guest_exit.                                                           *)

\* The control strand is one of guest 0, and is stopped between two commands.
Stoppable(g) == x[g].pc = "stop" /\ (g = 0 => z.pc \in {"kickoff", "idle"})

VcpusOf(g) == {R.guest[g].vcpus[v] : v \in Vcpus} \ {None}

\* Mutant: the local vcpu is left RUNNING.
c_guest_exit_stop_remote(g) ==
    /\ Stoppable(g)
    /\ R' = [R EXCEPT !.vcpu = [v \in Vcpus |->
                IF v \in VcpusOf(g) /\ @[v].status # "ERROR" /\ @[v].vid # 0
                THEN [@[v] EXCEPT !.status = "STOPPED"] ELSE @[v]]]
    /\ x' = [x EXCEPT ![g].pc = IF x[g].sir THEN "lock" ELSE "mark"]
    /\ UNCHANGED <<pip, active_hvmd, parse_hvmd, del_reconf_gid, del_reconf_lock, z, sched, told, cmds>>

c_guest_exit_stop(g) ==
    /\ Stoppable(g)
    /\ R' = [R EXCEPT !.vcpu = [v \in Vcpus |->
                IF v \in VcpusOf(g) /\ @[v].status # "ERROR" THEN [@[v] EXCEPT !.status = "STOPPED"] ELSE @[v]]]
    /\ x' = [x EXCEPT ![g].pc = IF x[g].sir THEN "lock" ELSE "mark"]
    /\ UNCHANGED <<pip, active_hvmd, parse_hvmd, del_reconf_gid, del_reconf_lock, z, sched, told, cmds>>

c_guest_exit_mark(g) ==
    /\ x[g].pc = "mark"
    /\ R' = [R EXCEPT !.guest[g].state = "STOPPED"]
    /\ x' = [x EXCEPT ![g].pc = "lock"]
    /\ UNCHANGED <<pip, active_hvmd, parse_hvmd, del_reconf_gid, del_reconf_lock, z, sched, told, cmds>>

c_guest_exit_lock(g) ==
    /\ x[g].pc = "lock" /\ del_reconf_lock = None
    /\ IF del_reconf_gid = g
       THEN /\ del_reconf_lock' = g
            /\ x' = [x EXCEPT ![g].pc = "commit", ![g].call = 1]
       ELSE x' = [x EXCEPT ![g].pc = "notify"] /\ UNCHANGED del_reconf_lock
    /\ UNCHANGED <<R, pip, active_hvmd, parse_hvmd, del_reconf_gid, z, sched, told, cmds>>

c_guest_exit_commit(g) ==
    LET work == CallsWithWork(pip, x[g].call)
    IN  /\ x[g].pc = "commit"
        /\ IF work = {}
           THEN /\ accept_hvmd
                /\ del_reconf_gid' = None /\ del_reconf_lock' = None
                /\ x' = [x EXCEPT ![g].pc = "notify"] /\ UNCHANGED R
           ELSE /\ CommitCall(Min(work))
                /\ x' = [x EXCEPT ![g].call = Min(work) + 1]
                /\ UNCHANGED <<active_hvmd, del_reconf_gid, del_reconf_lock>>
        /\ UNCHANGED <<parse_hvmd, z, sched, told, cmds>>

\* Mutant: returns whatever the reason.
c_guest_exit_notify_return(g) ==
    /\ x[g].pc = "notify"
    /\ told' = IF R.hv_ldc.guest = g THEN told ELSE Told(g)
    /\ x' = [x EXCEPT ![g] = NoExit]
    /\ UNCHANGED <<R, pip, active_hvmd, parse_hvmd, del_reconf_gid, del_reconf_lock, z, sched, cmds>>

\* The notification goes out unless the control channel is the guest's own;
\* a reset then starts the guest again.
c_guest_exit_notify(g) ==
    /\ x[g].pc = "notify"
    /\ told' = IF R.hv_ldc.guest = g THEN told ELSE Told(g)
    /\ IF x[g].sir THEN guest_ignition(g) ELSE UNCHANGED sched
    /\ x' = [x EXCEPT ![g] = NoExit]
    /\ UNCHANGED <<R, pip, active_hvmd, parse_hvmd, del_reconf_gid, del_reconf_lock, z, cmds>>

-----------------------------------------------------------------------------
ControlStep == \/ kickoff_guests
               \/ op_reconfig_lock \/ op_reconfig_parse \/ op_reconfig_postparse \/ op_reconfig_commit
               \/ op_guest_start_ignite

ExitStep(g) == \/ c_guest_exit_stop(g) \/ c_guest_exit_mark(g) \/ c_guest_exit_lock(g)
               \/ c_guest_exit_commit(g) \/ c_guest_exit_notify(g)

Command == \/ \E i \in DOMAIN Hvmds, gid \in Guests \cup {None} : op_reconfig(i, gid)
           \/ op_cancel_reconfig
           \/ \E g \in Guests : op_guest_start(g) \/ op_guest_stop(g) \/ op_get_res_stat(g)

Next == \/ Command \/ ControlStep
        \/ \E g \in Guests : \/ ExitStep(g) \/ launch(g)
                             \/ \E v \in Vcpus : hcall_cpu_start(g, v)
                             \/ \E sir \in BOOLEAN : hcall_mach_exit(g, sir)

\* The strands of the hypervisor keep running; Zeus and the guests do as they
\* like.  A step of the control strand changes z and a step of an exit changes
\* x[g], so fairness of ControlStep and ExitStep is stated on those alone.
ControlReady == z.pc # "idle" /\ (z.pc = "lock" => del_reconf_lock = None)
ExitReady(g) == /\ x[g].pc # "none"
                /\ x[g].pc = "stop" => Stoppable(g)
                /\ x[g].pc = "lock" => del_reconf_lock = None

Fairness ==
    /\ WF_z(ControlReady /\ z' \in ControlStates)
    /\ \A g \in Guests :
        /\ WF_x(ExitReady(g) /\ \E e \in ExitStates \ {x[g]} : x' = [x EXCEPT ![g] = e])
        /\ WF_vars(launch(g))

Spec == Init /\ [][Next]_vars /\ Fairness

-----------------------------------------------------------------------------
(* Types.                                                                  *)

Flags == {"Noop", "Unconfig", "Config", "Modify"}

\* The control strand, the exiting strands and the lock only hold the values
\* op_reconfig, commit_reconfig and c_guest_exit give them.
TypeOK ==
    /\ \A g \in Guests : State(g) \in {"UNCONFIGURED", "STOPPED", "RESETTING", "NORMAL", "EXITING"}
    /\ \A v \in Vcpus : R.vcpu[v].status \in {"UNCONFIGURED", "STOPPED", "RUNNING", "ERROR"}
    /\ pip.md \in DOMAIN Hvmds \cup {None}
    /\ \A t \in Types : pip.flags[t] \in [Ids(t) -> Flags]
    /\ {active_hvmd, parse_hvmd} \subseteq DOMAIN Hvmds
    /\ del_reconf_gid \in Guests \cup {None}
    /\ del_reconf_lock \in Guests \cup {Control, None}
    /\ z \in ControlStates
    /\ x \in [Guests -> ExitStates]
    /\ sched \in [Guests -> Vcpus \cup {None}]
    /\ cmds \in 0..MaxCmds

-----------------------------------------------------------------------------
(* What a description says the tables hold, stated without the order in    *)
(* which commit_reconfig gets there.                                       *)

Node(md, t, id, field) == IF id \in DOMAIN md[t] THEN md[t][id][field] ELSE None

GuestsMatch(md) ==
    \A g \in Guests :
        /\ (State(g) # "UNCONFIGURED") = (g \in DOMAIN md.guest)
        /\ R.guest[g].md_pa = Node(md, "guest", g, "md_pa")
        /\ R.guest[g].real_base = IF g \in DOMAIN md.guest THEN RealBase(md, g) ELSE None

MemoryMatches(md) ==
    \A g \in Guests, s \in 0..NMEMSEGS-1 :
        LET bs == {b \in GuestBlocks(md, g) : s \in SegmentsOf(md.memory[b].real, md.memory[b].size)}
            seg == R.guest[g].seg[s]
        IN  IF bs = {} THEN seg.flags = "INVALID"
            ELSE \E b \in bs : /\ seg.flags = "MEM"
                               /\ seg.base = md.memory[b].real
                               /\ seg.limit = md.memory[b].real + md.memory[b].size
                               /\ seg.offset = md.memory[b].mem - md.memory[b].real

VcpusMatch(md) ==
    /\ \A v \in Vcpus : \A f \in {"guest", "vid", "strand"} : R.vcpu[v][f] = Node(md, "vcpu", v, f)
    /\ \A g \in Guests, i \in Vcpus :
        R.guest[g].vcpus[i] = IF \E v \in DOMAIN md.vcpu : md.vcpu[v].guest = g /\ md.vcpu[v].vid = i
                              THEN CHOOSE v \in DOMAIN md.vcpu : md.vcpu[v].guest = g /\ md.vcpu[v].vid = i
                              ELSE None

\* The inos of a guest's channels, as <<ino, channel>>.
ChannelInos(md, g) ==
    UNION {{<<md.ldc[id].tx_ino, id[2]>>, <<md.ldc[id].rx_ino, id[2]>>} :
           id \in {i \in DOMAIN md.ldc : i[1] = g /\ ~md.ldc[i].private}}

ChannelsMatch(md) ==
    /\ R.hv_ldc.live = (0 \in DOMAIN md.hv_ldc)
    /\ \A id \in Ids("ldc") :
        LET ep == R.guest[id[1]].ldc[id[2]]
        IN  /\ ep.live = (id \in DOMAIN md.ldc)
            /\ ep.live => ep.target = md.ldc[id].target
    /\ \A g \in Guests, i \in Inos, c \in Chans :
        (R.guest[g].ino2ep[i] = c) = (<<i, c>> \in ChannelInos(md, g))

UnitsMatch(md) ==
    \A t \in {"mau", "cwq"}, c \in Cores :
        LET unit == R[t][c]
            here == c \in DOMAIN md[t]
        IN  /\ (unit.state = "RUNNING") = here
            /\ unit.guest = Node(md, t, c, "guest") /\ (here => unit.ino = md[t][c].ino)
            /\ unit.cpuset = IF here THEN md[t][c].cpuset ELSE {}
            /\ \A g \in Guests : (R.guest[g][t][c] = c) = (here /\ unit.guest = g)
            /\ \A v \in Vcpus, thread \in unit.cpuset :
                R.vcpu[v].strand = StrandOf(c, thread) => R.vcpu[v][t] = c

DevicesMatch(md) ==
    /\ R.pcie_bus = Node(md, "pcie_bus", 0, "guest")
    /\ R.network_device = Node(md, "network_device", 0, "guest")
    /\ \A g \in Guests :
        /\ R.guest[g].console = IF g \in DOMAIN md.console THEN md.console[g] ELSE NoConsole
        /\ (R.guest[g].seg[NIU_BASE \div RA2PA].flags = "IO") = (R.network_device = g)

\* Every interrupt instance of a guest belongs to a device it has.
VinosMatch(md) ==
    \A g \in Guests :
        R.guest[g].vino =
            {<<"CDEV", p[1]>> : p \in ChannelInos(md, g)}
            \cup {<<"VDEV", md.console[h].ino>> : h \in {h \in DOMAIN md.console \cap {g} : md.console[h].type # "UART"}}
            \cup UNION {{<<"VDEV", md[t][c].ino>> : c \in {c \in DOMAIN md[t] : md[t][c].guest = g}} : t \in {"mau", "cwq"}}
            \cup {<<"PIU", 0>> : b \in {b \in DOMAIN md.pcie_bus : md.pcie_bus[b].guest = g}}
            \cup {<<"NIU", 0>> : b \in {b \in DOMAIN md.network_device : md.network_device[b].guest = g}}

-----------------------------------------------------------------------------
(* Safety.                                                                 *)

Committing == {g \in Guests : x[g].pc = "commit"} \cup {c \in {Control} : z.pc = "commit"}

\* Whenever no commit is under way, what the commit functions of the ten kinds
\* of resources set up is what the active description says, whichever sequence
\* of immediate, delayed, failed and cancelled reconfigurations led there
\* (commit_reconfig, accept_hvmd).  Compared are, per guest, that it is
\* configured, its md_pa, its real base, its memory segments, vcpus, channels,
\* crypto units, console, devices and interrupt instances.  The access bits a
\* parse writes and the segments of the bus are not (AccessMatchesMd,
\* BusMatchesMd).
ConfigMatchesMd ==
    Committing = {} =>
        LET md == Hvmds[active_hvmd]
        IN  /\ GuestsMatch(md) /\ MemoryMatches(md) /\ VcpusMatch(md) /\ ChannelsMatch(md)
            /\ UnitsMatch(md) /\ DevicesMatch(md) /\ VinosMatch(md)

\* A description that is refused leaves the access bits of the guests as the
\* active one has them: res_guest_parse_1 reads rngctlaccessible into the guest
\* itself, where other properties go to its pip.
AccessMatchesMd ==
    z.pc = "idle" /\ Committing = {} /\ del_reconf_gid = None =>
        \A g \in DOMAIN Hvmds[active_hvmd].guest : R.guest[g].rng = Hvmds[active_hvmd].guest[g].rng

\* Between commits only the guest that has the bus has its I/O segments: they
\* are given with the bus (ASSIGN_PIU_SEGMENTS) and taken away with it.
BusMatchesMd ==
    Committing = {} =>
        \A g \in Guests, s \in SegmentsOf(PIU_BASE, PIU_LIMIT - PIU_BASE) :
            (R.guest[g].seg[s].flags = "IO") = (R.pcie_bus = g)

\* No ASSERT of the commit functions fails, no commit runs into hvabort, and
\* no SCHED_VCPU mondo reaches a vcpu that was reconfigured under it.
NoAssert == R.bad = {}

\* pip and parse_hvmd are one global parse-in-progress: a delayed
\* reconfiguration that waits for its guest is still the one that was parsed,
\* and what it elected is still right for the tables as they are now.
PendingIntact ==
    del_reconf_gid # None /\ Committing = {} /\ z.pc \notin {"parse", "postparse"} =>
        /\ pip.md = parse_hvmd
        /\ pip.flags = res_parse_flags(R, Hvmds[parse_hvmd])
        /\ res_guest_postparse(R, pip.flags)

\* Two strands never commit at once, and none commits while the control
\* strand fills pip with another parse.
CommitAlone ==
    /\ \A a, b \in Committing : a = b
    /\ z.pc \in {"parse", "postparse"} => Committing = {}


-----------------------------------------------------------------------------
(* Liveness.                                                               *)

\* An exit always gets past del_reconf_lock and ends with the notification
\* that the domain manager waits for.
StopNotified == \A g \in Guests : x[g].pc = "stop" ~> x[g].pc = "none"

\* A guest that resets itself runs again, on the vcpus that the delayed
\* reconfiguration committed in between left it.
ResetRuns == \A g \in Guests : x[g].pc = "stop" /\ x[g].sir ~> State(g) = "NORMAL"
=============================================================================
