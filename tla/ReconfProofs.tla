----------------------------- MODULE ReconfProofs -----------------------------
(***************************************************************************)
(* Three results about Reconf, for every number of guests, vcpus and       *)
(* resources and every list of well-formed machine descriptions.           *)
(*                                                                         *)
(* CommitsAlone: two strands never commit at once, whatever Zeus does.     *)
(* What a commit does to the tables plays no part in it: the argument is   *)
(* about del_reconf_lock and del_reconf_gid.                               *)
(*                                                                         *)
(* TypeCorrect: the tables, pip and the strands keep their shape; that the *)
(* commit functions do is TablesProofs.                                    *)
(*                                                                         *)
(* PendingStaysValid: with a careful and patient Zeus, what a delayed      *)
(* reconfiguration elected stays right until its guest exits.              *)
(***************************************************************************)
EXTENDS TablesProofs

\* The shape of the variables the argument is about.
Shape ==
    /\ del_reconf_gid \in Guests \cup {None}
    /\ del_reconf_lock \in Guests \cup {Control, None}
    /\ z = [pc |-> z.pc, md |-> z.md, gid |-> z.gid, call |-> z.call]
    /\ z.gid \in Guests \cup {None}
    /\ x = [g \in Guests |-> x[g]]
    /\ \A g \in Guests : x[g] = [pc |-> x[g].pc, sir |-> x[g].sir, call |-> x[g].call]

\* An exit commits only what it holds the lock for; a delayed command holds
\* the lock while it parses; an immediate one goes on without the lock, but
\* only when nothing is pending, and nobody else can make anything pending.
LockInv ==
    /\ \A g \in Guests : x[g].pc = "commit" => del_reconf_lock = g /\ del_reconf_gid = g
    /\ z.pc \in {"parse", "postparse"} =>
        IF z.gid = None THEN del_reconf_gid = None ELSE del_reconf_lock = Control
    /\ z.pc = "commit" => z.gid = None /\ del_reconf_gid = None

IInv == Shape /\ LockInv

LEMMA GuestFacts == /\ None \notin Guests /\ Control \notin Guests /\ None # Control
                    /\ Guests \subseteq Int
  BY TablesAssumption DEF Guests, None, Control

\* Nothing starts out pending or locked.
LEMMA InitInv == Init => IInv
<1> SUFFICES ASSUME Init PROVE IInv
  OBVIOUS
<1>1. 0 \in Guests
  BY TablesAssumption DEF Guests
<1>2. Shape
  BY <1>1 DEF Init, Shape, Idle, NoExit
<1>3. LockInv
  BY <1>1 DEF Init, LockInv, Idle, NoExit
<1>4. QED
  BY <1>2, <1>3 DEF IInv

\* Every action preserves the invariant.  Those of the guests and of the
\* start commands touch neither the lock nor what is pending.
LEMMA NextInv == IInv /\ [Next]_vars => IInv'
<1> SUFFICES ASSUME IInv, [Next]_vars PROVE IInv'
  OBVIOUS
<1> USE GuestFacts
<1>a. ASSUME UNCHANGED <<del_reconf_gid, del_reconf_lock, x>>, z' = Idle PROVE IInv'
  BY <1>a DEF IInv, Shape, LockInv, Idle
<1>b. ASSUME UNCHANGED <<del_reconf_gid, del_reconf_lock, z, x>> PROVE IInv'
  BY <1>b DEF IInv, Shape, LockInv
<1>c. ASSUME Fail, UNCHANGED x, z.pc \in {"parse", "postparse"} PROVE IInv'
  <2>1. \A g \in Guests : x[g].pc # "commit"
    BY <1>c DEF IInv, LockInv
  <2>2. Shape'
    BY <1>c DEF IInv, Shape, Fail, Idle
  <2>3. LockInv'
    BY <1>c, <2>1 DEF LockInv, Fail, Idle
  <2> QED
    BY <2>2, <2>3 DEF IInv
<1>1. CASE kickoff_guests
  <2>1. z' = Idle \/ z' = [z EXCEPT !.gid = @ + 1]
    BY <1>1 DEF kickoff_guests
  <2>2. CASE z' = Idle
    BY <1>1, <2>2, <1>a DEF kickoff_guests
  <2>3. CASE z' = [z EXCEPT !.gid = @ + 1] /\ z.gid + 1 # NGUESTS
    <3>1. z.pc = "kickoff" /\ UNCHANGED <<del_reconf_gid, del_reconf_lock, x>>
      BY <1>1 DEF kickoff_guests
    <3>2. z.gid + 1 \in Guests
      BY <2>3, TablesAssumption DEF IInv, Shape, Guests, None
    <3> QED
      BY <2>3, <3>1, <3>2 DEF IInv, Shape, LockInv
  <2> QED
    BY <1>1, <2>2, <2>3 DEF kickoff_guests
<1>2. ASSUME NEW i \in DOMAIN Hvmds, NEW gid \in Guests \cup {None}, op_reconfig(i, gid) PROVE IInv'
  BY <1>2 DEF op_reconfig, IInv, Shape, LockInv, Idle
<1>3. CASE op_reconfig_lock
  <2>1. CASE del_reconf_gid \notin {None, z.gid}
    BY <1>3, <2>1, <1>a DEF op_reconfig_lock
  <2>2. CASE del_reconf_gid \in {None, z.gid}
    <3>1. /\ z' = [z EXCEPT !.pc = "parse"] /\ UNCHANGED <<del_reconf_gid, x>>
          /\ del_reconf_lock = None
          /\ del_reconf_lock' = IF z.gid = None THEN None ELSE Control
      BY <1>3, <2>2 DEF op_reconfig_lock
    <3>2. Shape'
      BY <3>1 DEF IInv, Shape
    <3>3. LockInv'
      BY <3>1, <2>2 DEF IInv, Shape, LockInv
    <3> QED
      BY <3>2, <3>3 DEF IInv
  <2> QED
    BY <2>1, <2>2
<1>4. CASE op_reconfig_parse
  <2>1. CASE Fail
    BY <1>4, <2>1, <1>c DEF op_reconfig_parse
  <2>2. CASE z' = Idle /\ UNCHANGED <<del_reconf_gid, del_reconf_lock>>
    BY <1>4, <2>2, <1>a DEF op_reconfig_parse
  <2>3. CASE z' = [z EXCEPT !.pc = "postparse"] /\ UNCHANGED <<del_reconf_gid, del_reconf_lock>>
    <3>1. z.pc = "parse" /\ UNCHANGED x
      BY <1>4 DEF op_reconfig_parse
    <3> QED
      BY <2>3, <3>1 DEF IInv, Shape, LockInv
  <2> QED
    BY <1>4, <2>1, <2>2, <2>3 DEF op_reconfig_parse
<1>5. CASE op_reconfig_postparse
  <2>0. z.pc = "postparse" /\ UNCHANGED x
    BY <1>5 DEF op_reconfig_postparse
  <2>1. CASE Fail
    BY <2>0, <2>1, <1>c
  <2>2. CASE /\ z.gid # None /\ del_reconf_gid' = z.gid /\ del_reconf_lock' = None /\ z' = Idle
    <3>1. \A g \in Guests : x[g].pc # "commit"
      BY <2>0, <2>2 DEF IInv, LockInv
    <3> QED
      BY <2>0, <2>2, <3>1 DEF IInv, Shape, LockInv, Idle
  <2>3. CASE /\ z.gid = None /\ z' = [z EXCEPT !.pc = "commit", !.call = 1]
             /\ UNCHANGED <<del_reconf_gid, del_reconf_lock>>
    BY <2>0, <2>3 DEF IInv, Shape, LockInv
  <2> QED
    BY <1>5, <2>1, <2>2, <2>3 DEF op_reconfig_postparse
<1>6. CASE op_reconfig_commit
  <2>0. z.pc = "commit" /\ UNCHANGED <<x, del_reconf_gid, del_reconf_lock>>
    BY <1>6 DEF op_reconfig_commit
  <2>1. CASE z' = Idle
    BY <2>0, <2>1, <1>a
  <2>2. ASSUME NEW k, z' = [z EXCEPT !.call = k] PROVE IInv'
    BY <2>0, <2>2 DEF IInv, Shape, LockInv
  <2> QED
    BY <1>6, <2>1, <2>2 DEF op_reconfig_commit
<1>7. CASE op_cancel_reconfig
  <2>1. \A g \in Guests : x[g].pc # "commit"
    BY <1>7 DEF op_cancel_reconfig, IInv, LockInv
  <2> QED
    BY <1>7, <2>1 DEF op_cancel_reconfig, Send, IInv, Shape, LockInv
<1>8. ASSUME NEW g \in Guests, op_guest_start(g) PROVE IInv'
  <2>1. z' = [pc |-> "ignite", md |-> None, gid |-> g, call |-> 0]
    BY <1>8 DEF op_guest_start, Idle
  <2> QED
    BY <1>8, <2>1 DEF op_guest_start, IInv, Shape, LockInv
<1>9. CASE op_guest_start_ignite
  BY <1>9, <1>a DEF op_guest_start_ignite
<1>10. ASSUME NEW g \in Guests, NEW sir, BeginExit(g, sir),
              UNCHANGED <<del_reconf_gid, del_reconf_lock, z>> PROVE IInv'
  BY <1>10 DEF BeginExit, IInv, Shape, LockInv
<1>18. ASSUME NEW g \in Guests, op_get_res_stat(g) PROVE IInv'
  BY <1>18, <1>b DEF op_get_res_stat
<1>11. ASSUME NEW g \in Guests, op_guest_stop(g) PROVE IInv'
  BY <1>11, <1>10 DEF op_guest_stop
<1>12. ASSUME NEW g \in Guests, NEW sir \in BOOLEAN, hcall_mach_exit(g, sir) PROVE IInv'
  BY <1>12, <1>10 DEF hcall_mach_exit
<1>13. ASSUME NEW g \in Guests, launch(g) PROVE IInv'
  BY <1>13, <1>b DEF launch
<1>14. ASSUME NEW g \in Guests, NEW v \in Vcpus, hcall_cpu_start(g, v) PROVE IInv'
  BY <1>14, <1>b DEF hcall_cpu_start
<1>15. ASSUME NEW g \in Guests, NEW p, p # "commit", UNCHANGED <<del_reconf_gid, del_reconf_lock, z>>,
              x' = [x EXCEPT ![g].pc = p] PROVE IInv'
  BY <1>15 DEF IInv, Shape, LockInv
<1>16. ASSUME NEW g \in Guests, ExitStep(g) PROVE IInv'
  <2>1. CASE c_guest_exit_stop(g)
    <3>1. PICK p : p \in {"lock", "mark"} /\ x' = [x EXCEPT ![g].pc = p]
      BY <2>1 DEF c_guest_exit_stop
    <3> QED BY <2>1, <3>1, <1>15 DEF c_guest_exit_stop
  <2>2. CASE c_guest_exit_mark(g)
    BY <2>2, <1>15 DEF c_guest_exit_mark
  <2>3. CASE c_guest_exit_lock(g)
    <3>1. CASE del_reconf_gid = g
      <4>1. /\ del_reconf_lock = None /\ del_reconf_lock' = g
            /\ x' = [x EXCEPT ![g].pc = "commit", ![g].call = 1]
            /\ UNCHANGED <<del_reconf_gid, z>>
        BY <2>3, <3>1 DEF c_guest_exit_lock
      <4>2. Shape'
        BY <4>1 DEF IInv, Shape
      <4>3. \A h \in Guests \ {g} : x'[h] = x[h] /\ x[h].pc # "commit"
        BY <4>1 DEF IInv, Shape, LockInv
      <4>4. LockInv'
        BY <4>1, <4>3, <3>1 DEF IInv, Shape, LockInv
      <4> QED
        BY <4>2, <4>4 DEF IInv
    <3>2. CASE del_reconf_gid # g
      BY <2>3, <3>2, <1>15 DEF c_guest_exit_lock
    <3> QED
      BY <3>1, <3>2
  <2>4. CASE c_guest_exit_commit(g)
    <3>0. x[g].pc = "commit" /\ UNCHANGED z
      BY <2>4 DEF c_guest_exit_commit
    <3>1. CASE del_reconf_gid' = None /\ del_reconf_lock' = None /\ x' = [x EXCEPT ![g].pc = "notify"]
      <4>1. \A h \in Guests \ {g} : x'[h] = x[h] /\ x[h].pc # "commit"
        BY <3>0, <3>1 DEF IInv, Shape, LockInv
      <4>2. Shape'
        BY <3>0, <3>1 DEF IInv, Shape
      <4>3. LockInv'
        BY <3>0, <3>1, <4>1 DEF IInv, Shape, LockInv
      <4> QED
        BY <4>2, <4>3 DEF IInv
    <3>2. ASSUME NEW k, x' = [x EXCEPT ![g].call = k], UNCHANGED <<del_reconf_gid, del_reconf_lock>> PROVE IInv'
      BY <3>0, <3>2 DEF IInv, Shape, LockInv
    <3> QED
      BY <2>4, <3>1, <3>2 DEF c_guest_exit_commit
  <2>5. CASE c_guest_exit_notify(g)
    BY <2>5 DEF c_guest_exit_notify, NoExit, IInv, Shape, LockInv
  <2> QED
    BY <1>16, <2>1, <2>2, <2>3, <2>4, <2>5 DEF ExitStep
<1>17. CASE UNCHANGED vars
  BY <1>17, <1>b DEF vars
<1> QED
  BY <1>1, <1>2, <1>3, <1>4, <1>5, <1>6, <1>7, <1>8, <1>9, <1>11, <1>12, <1>13, <1>14, <1>16, <1>17, <1>18
  DEF Next, Command, ControlStep

\* The invariant is enough: two holders of the lock are one, and whoever
\* works without the lock excludes every holder by what is pending.
LEMMA InvCommitAlone == IInv => CommitAlone
<1> SUFFICES ASSUME IInv PROVE CommitAlone
  OBVIOUS
<1> USE GuestFacts
<1>1. ASSUME z.pc = "commit" \/ z.pc \in {"parse", "postparse"} PROVE \A g \in Guests : x[g].pc # "commit"
  BY <1>1 DEF IInv, LockInv
<1>2. \A g, h \in Guests : x[g].pc = "commit" /\ x[h].pc = "commit" => g = h
  BY DEF IInv, LockInv
<1> QED
  BY <1>1, <1>2 DEF CommitAlone, Committing

\* Two strands never commit a reconfiguration at once, and none commits while
\* the control strand parses another into the same pip (op_reconfig and
\* c_guest_exit, del_reconf_lock).
THEOREM CommitsAlone == Spec => []CommitAlone
<1>1. Spec => []IInv
  BY InitInv, NextInv, PTL DEF Spec
<1> QED
  BY <1>1, InvCommitAlone, PTL
-----------------------------------------------------------------------------
(* Types.                                                                  *)

FlagTables == {f \in [TenTypes -> UNION {[Ids(t) -> Flags] : t \in TenTypes}] : \A t \in TenTypes : f[t] \in [Ids(t) -> Flags]}
PipType == [flags : FlagTables, md : DOMAIN Hvmds \cup {None}]

\* Nothing is elected, or it is what the parse of a description elects.
NothingElected(flags) == \A t \in TenTypes : \A id \in Ids(t) : flags[t][id] = "Noop"
PipInv == NothingElected(pip.flags) \/ (pip.md \in DOMAIN Hvmds /\ ElectedBy(pip.flags, Hvmds[pip.md]))

\* Whenever the control strand or an exit needs it, its command is there.
ControlInv ==
    /\ z.pc \in {"lock", "parse", "postparse", "commit"} => z.md \in DOMAIN Hvmds
    /\ z.pc \in {"kickoff", "ignite"} => z.gid \in Guests
    /\ z.pc = "commit" => z.call >= 1
    /\ \A g \in Guests : x[g].pc = "commit" => x[g].call >= 1

PipTyped == pip \in PipType /\ PipInv
HvmdsTyped == active_hvmd \in DOMAIN Hvmds /\ parse_hvmd \in DOMAIN Hvmds
LockTyped == del_reconf_gid \in Guests \cup {None} /\ del_reconf_lock \in Guests \cup {Control, None}
StrandsTyped == z \in ControlStates /\ x \in [Guests -> ExitStates] /\ ControlInv
RestTyped == sched \in [Guests -> Vcpus \cup {None}] /\ cmds \in 0..MaxCmds

TypeInv == R \in Tables /\ PipTyped /\ HvmdsTyped /\ LockTyped /\ StrandsTyped /\ RestTyped

LEMMA NoPipType == NoPip \in PipType /\ NothingElected(NoPip.flags) /\ NoPip.md = None
<1> DEFINE f == [t \in TenTypes |-> [id \in Ids(t) |-> "Noop"]]
<1>1. NoPip = [flags |-> f, md |-> None]
  BY TypesAre DEF NoPip
<1>2. ASSUME NEW t \in TenTypes PROVE f[t] \in [Ids(t) -> Flags]
  BY DEF Flags
<1>3. f \in FlagTables
  BY <1>2 DEF FlagTables
<1>4. NothingElected(f)
  BY DEF NothingElected
<1> HIDE DEF f
<1> QED BY <1>1, <1>3, <1>4 DEF PipType

LEMMA ParsePip ==
  ASSUME NEW r, NEW j \in DOMAIN Hvmds, NEW p, p = [flags |-> res_parse_flags(r, Hvmds[j]), md |-> j]
  PROVE  p \in PipType /\ ElectedBy(p.flags, Hvmds[p.md])
<1> DEFINE f == res_parse_flags(r, Hvmds[j])
<1>1. ASSUME NEW t \in TenTypes PROVE f[t] \in [Ids(t) -> Flags]
  BY TypesAre DEF res_parse_flags, res_prep, Flags
<1>2. f = [t \in TenTypes |-> f[t]]
  BY TypesAre DEF res_parse_flags
<1>4. ElectedBy(f, Hvmds[j])
  BY ParseElects
<1> HIDE DEF f
<1>3. f \in FlagTables
  BY <1>1, <1>2 DEF FlagTables
<1> QED BY <1>3, <1>4 DEF PipType, f

\* One step of a commit.
CallMade(k) ==
    LET t == commit_reconfig[k][1]
        flag == commit_reconfig[k][2]
    IN  /\ pip' \in PipType /\ pip'.md = pip.md /\ PipInv'
        /\ \A u \in TenTypes : \A id \in Ids(u) :
              pip'.flags[u][id] = IF u = t /\ pip.flags[u][id] = flag THEN "Noop" ELSE pip.flags[u][id]
        /\ R' \in Tables
        /\ \A g \in Guests : R'.guest[g].state = NewState(R.guest[g].state, pip.flags["guest"][g], t, flag)
        /\ \A v \in Vcpus : t # "vcpu" \/ pip.flags["vcpu"][v] # flag => SameVcpu(R.vcpu[v], R'.vcpu[v])
        /\ BackRefs(R) /\ (\A v \in Vcpus : pip.flags["vcpu"][v] = "Config" => R.vcpu[v].status = "UNCONFIGURED")
             => BackRefs(R')

LEMMA NextCall ==
  ASSUME NEW from \in Nat \ {0}, CallsWithWork(pip, from) # {}
  PROVE  /\ Min(CallsWithWork(pip, from)) \in CallsWithWork(pip, from)
         /\ \A k \in CallsWithWork(pip, from) : Min(CallsWithWork(pip, from)) <= k
         /\ Min(CallsWithWork(pip, from)) \in 1 .. 30 /\ Min(CallsWithWork(pip, from)) >= from
<1> DEFINE W == CallsWithWork(pip, from)
<1>1. \A k \in W : k \in from .. 30
  BY CallFacts DEF CallsWithWork
<1> HIDE DEF W
<1>2. W \in SUBSET Nat /\ W # {}
  BY <1>1 DEF W
<1>3. Min(W) \in W /\ \A k \in W : Min(W) <= k
  BY <1>2, MinIn
<1>4. Min(W) \in 1 .. 30 /\ Min(W) >= from
  BY <1>1, <1>3
<1> QED BY <1>3, <1>4 DEF W

LEMMA CallStep ==
  ASSUME R \in Tables, pip \in PipType, PipInv, NEW from \in Nat \ {0}, CallsWithWork(pip, from) # {},
         CommitCall(Min(CallsWithWork(pip, from)))
  PROVE  CallMade(Min(CallsWithWork(pip, from)))
<1> DEFINE k == Min(CallsWithWork(pip, from))
           t == commit_reconfig[k][1]
           flag == commit_reconfig[k][2]
<1>1. k \in CallsWithWork(pip, from) /\ k \in 1 .. 30
  BY NextCall
<1>c. CommitCall(k)
  OBVIOUS
<1> HIDE DEF k
<1>2. t \in TenTypes /\ flag \in Calls
  BY <1>1, CallFacts
<1>3. PICK id \in Ids(t) : pip.flags[t][id] = flag
  BY <1>1 DEF CallsWithWork
<1>4. pip.md \in DOMAIN Hvmds /\ ElectedBy(pip.flags, Hvmds[pip.md])
  BY <1>2, <1>3 DEF PipInv, NothingElected, Calls
<1>5. /\ R' = res_commit(R, [flags |-> pip.flags, md |-> Hvmds[pip.md]], t, flag)
      /\ pip' = [pip EXCEPT !.flags[t] = [i \in Ids(t) |-> IF pip.flags[t][i] = flag THEN "Noop" ELSE pip.flags[t][i]]]
  BY <1>c DEF CommitCall
<1> HIDE DEF t, flag
<1>6. /\ R' \in Tables
      /\ \A g \in Guests : R'.guest[g].state = NewState(R.guest[g].state, pip.flags["guest"][g], t, flag)
      /\ \A v \in Vcpus : t # "vcpu" \/ pip.flags["vcpu"][v] # flag => SameVcpu(R.vcpu[v], R'.vcpu[v])
      /\ BackRefs(R) /\ (\A v \in Vcpus : pip.flags["vcpu"][v] = "Config" => R.vcpu[v].status = "UNCONFIGURED")
           => BackRefs(R')
  BY <1>2, <1>4, <1>5, CommitEffect
<1> DEFINE h == [i \in Ids(t) |-> IF pip.flags[t][i] = flag THEN "Noop" ELSE pip.flags[t][i]]
<1>7. pip.flags \in FlagTables /\ pip = [flags |-> pip.flags, md |-> pip.md] /\ pip.flags[t] \in [Ids(t) -> Flags]
  BY <1>2 DEF PipType, FlagTables
<1>8. h \in [Ids(t) -> Flags]
  BY <1>7 DEF Flags
<1>h. \A i \in Ids(t) : h[i] = IF pip.flags[t][i] = flag THEN "Noop" ELSE pip.flags[t][i]
  OBVIOUS
<1>5h. pip' = [pip EXCEPT !.flags[t] = h]
  BY <1>5
<1> HIDE DEF h
<1>9. pip'.flags = [pip.flags EXCEPT ![t] = h] /\ pip'.md = pip.md /\ pip' = [flags |-> pip'.flags, md |-> pip'.md]
  BY <1>7, <1>5h
<1> DEFINE f == [pip.flags EXCEPT ![t] = h]
<1>10. f \in FlagTables
  <2>1. DOMAIN pip.flags = TenTypes
    BY <1>7 DEF FlagTables
  <2>2. ASSUME NEW u \in TenTypes PROVE f[u] \in [Ids(u) -> Flags]
    BY <1>2, <1>7, <1>8, <2>1 DEF FlagTables
  <2>3. f = [u \in TenTypes |-> f[u]]
    BY <2>1
  <2> HIDE DEF f
  <2> QED BY <2>2, <2>3 DEF FlagTables
<1>11. ASSUME NEW u \in TenTypes, NEW i \in Ids(u)
       PROVE  f[u][i] = IF u = t /\ pip.flags[u][i] = flag THEN "Noop" ELSE pip.flags[u][i]
  <2>1. DOMAIN pip.flags = TenTypes
    BY <1>7 DEF FlagTables
  <2> QED BY <1>2, <1>h, <2>1
<1> HIDE DEF f
<1>12. pip'.flags = f
  BY <1>9 DEF f
<1>13. pip' \in PipType
  BY <1>7, <1>9, <1>10, <1>12, <1>4 DEF PipType
<1>14. ElectedBy(f, Hvmds[pip.md])
  BY <1>4, <1>11 DEF ElectedBy
<1>15. PipInv'
  BY <1>4, <1>9, <1>12, <1>14 DEF PipInv
<1> QED BY <1>6, <1>9, <1>11, <1>12, <1>13, <1>15 DEF CallMade, t, flag, k

-----------------------------------------------------------------------------
(* Type correctness.                                                       *)

LEMMA InitType == Init => TypeInv
<1> SUFFICES ASSUME Init PROVE TypeInv
  OBVIOUS
<1>0. BootHvmd \in DOMAIN Hvmds /\ 0 \in Guests /\ MaxCmds \in Nat
  BY ReconfAssumption, TablesAssumption DEF Guests
<1>1. R \in Tables
  BY <1>0, BootTables DEF Init
<1>2. PipTyped
  BY NoPipType DEF Init, PipTyped, PipInv
<1>3. HvmdsTyped /\ LockTyped
  BY <1>0 DEF Init, HvmdsTyped, LockTyped
<1>4. StrandsTyped
  <2>1. z = [pc |-> "kickoff", md |-> None, gid |-> 0, call |-> 0]
    BY DEF Init, Idle
  <2>2. z \in ControlStates
    BY <1>0, <2>1, CallFacts DEF ControlStates
  <2>3. NoExit \in ExitStates
    BY CallFacts DEF NoExit, ExitStates
  <2>4. x \in [Guests -> ExitStates]
    BY <2>3 DEF Init
  <2>5. ControlInv
    BY <1>0, <2>1 DEF Init, NoExit, ControlInv
  <2> QED BY <2>2, <2>4, <2>5 DEF StrandsTyped
<1>5. RestTyped
  BY <1>0 DEF Init, RestTyped
<1> QED BY <1>1, <1>2, <1>3, <1>4, <1>5 DEF TypeInv

LEMMA IdleType == Idle \in ControlStates
  BY CallFacts DEF Idle, ControlStates

\* Nothing below depends on more of the control strand than this.
LEMMA StrandsIdle == ASSUME StrandsTyped, z' = Idle, x' = x PROVE StrandsTyped'
  BY IdleType DEF StrandsTyped, ControlInv, Idle

LEMMA FailTyped == ASSUME PipTyped, LockTyped, StrandsTyped, Fail, x' = x PROVE PipTyped' /\ LockTyped' /\ StrandsTyped'
<1>1. PipTyped'
  BY NoPipType DEF Fail, PipTyped, PipInv
<1>2. LockTyped'
  BY DEF Fail, LockTyped
<1>3. StrandsTyped'
  BY StrandsIdle DEF Fail
<1> QED BY <1>1, <1>2, <1>3

LEMMA IgnitionTyped ==
  ASSUME R \in Tables, NEW g \in Guests, sched \in [Guests -> Vcpus \cup {None}], guest_ignition(g)
  PROVE  sched' \in [Guests -> Vcpus \cup {None}]
<1>1. CASE BootCpus(g) = {}
  BY <1>1 DEF guest_ignition
<1>2. CASE BootCpus(g) # {}
  <2>1. BootCpus(g) \in SUBSET Nat /\ BootCpus(g) \subseteq Vcpus
    BY TablesAssumption DEF BootCpus, Vcpus
  <2>2. Min(BootCpus(g)) \in Vcpus
    BY <1>2, <2>1, MinIn
  <2>3. R.guest[g] \in GuestType
    BY DEF Tables
  <2>4. R.guest[g].vcpus \in [Vcpus -> Vcpus \cup {None}]
    BY <2>3 DEF GuestType
  <2>5. sched' = [sched EXCEPT ![g] = R.guest[g].vcpus[Min(BootCpus(g))]]
    BY <1>2 DEF guest_ignition
  <2> QED BY <2>2, <2>4, <2>5
<1> QED BY <1>1, <1>2

\* A step that only changes the states of guests and vcpus.
LEMMA TablesOnly ==
  ASSUME TypeInv, R' \in Tables, UNCHANGED <<pip, active_hvmd, parse_hvmd, del_reconf_gid, del_reconf_lock, z, x, sched, cmds>>
  PROVE  TypeInv'
<1>1. PipTyped'
  BY DEF TypeInv, PipTyped, PipInv
<1>2. HvmdsTyped' /\ LockTyped' /\ RestTyped'
  BY DEF TypeInv, HvmdsTyped, LockTyped, RestTyped
<1>3. StrandsTyped'
  BY DEF TypeInv, StrandsTyped, ControlInv
<1> QED BY <1>1, <1>2, <1>3 DEF TypeInv

LEMMA SetStateTyped ==
  ASSUME R \in Tables, NEW g \in Guests, NEW state \in GuestStates, R' = [R EXCEPT !.guest[g].state = state]
  PROVE  R' \in Tables
  BY SetState DEF Rest, WithState

LEMMA KickoffTyped == ASSUME TypeInv, kickoff_guests PROVE TypeInv'
<1>0. R \in Tables /\ z.pc = "kickoff" /\ z.gid \in Guests
  BY DEF kickoff_guests, TypeInv, StrandsTyped, ControlInv
<1>1. R' \in Tables
  BY <1>0, SetStateTyped DEF kickoff_guests, GuestStates
<1>2. sched' \in [Guests -> Vcpus \cup {None}]
  BY <1>0, IgnitionTyped DEF kickoff_guests, TypeInv, RestTyped
<1>3. PipTyped' /\ HvmdsTyped' /\ LockTyped' /\ cmds' \in 0..MaxCmds
  BY DEF kickoff_guests, TypeInv, PipTyped, PipInv, HvmdsTyped, LockTyped, RestTyped
<1>4. StrandsTyped'
  <2>1. CASE z' = Idle
    BY <2>1, StrandsIdle DEF kickoff_guests, TypeInv
  <2>2. CASE z' = [z EXCEPT !.gid = @ + 1] /\ z.gid + 1 # NGUESTS
    <3>1. z.gid + 1 \in Guests
      BY <1>0, <2>2, TablesAssumption DEF Guests
    <3>2. z' \in ControlStates /\ z'.pc = "kickoff" /\ z'.gid \in Guests
      BY <1>0, <2>2, <3>1 DEF TypeInv, StrandsTyped, ControlStates
    <3>3. x' = x
      BY DEF kickoff_guests
    <3> QED BY <3>2, <3>3 DEF TypeInv, StrandsTyped, ControlInv
  <2> QED BY <2>1, <2>2 DEF kickoff_guests
<1> QED BY <1>1, <1>2, <1>3, <1>4 DEF TypeInv, RestTyped

LEMMA LaunchTyped == ASSUME TypeInv, NEW g \in Guests, launch(g) PROVE TypeInv'
<1> DEFINE v == sched[g]
<1>0. R \in Tables /\ v \in Vcpus /\ "launch" \in Labels
  BY DEF launch, TypeInv, RestTyped, Labels
<1>1. R' \in Tables
  <2>1. R' \in {ASSERT(R, FALSE, "launch"), [R EXCEPT !.vcpu[v].status = "RUNNING", !.guest[g].state = "NORMAL"]}
    BY DEF launch
  <2> HIDE DEF v
  <2>2. ASSERT(R, FALSE, "launch") \in Tables
    BY <1>0, AssertRest DEF Rest
  <2>3. [R EXCEPT !.vcpu[v].status = "RUNNING", !.guest[g].state = "NORMAL"] \in Tables
    <3>1. Launched(R, g, v) \in Tables
      BY <1>0, LaunchRest DEF Rest
    <3>2. Launched(R, g, v) = [R EXCEPT !.vcpu[v].status = "RUNNING", !.guest[g].state = "NORMAL"]
      BY DEF Launched, WithState, WithStatus
    <3> QED BY <3>1, <3>2
  <2> QED BY <2>1, <2>2, <2>3
<1>2. RestTyped'
  BY DEF launch, TypeInv, RestTyped
<1>3. PipTyped' /\ HvmdsTyped' /\ LockTyped'
  BY DEF launch, TypeInv, PipTyped, PipInv, HvmdsTyped, LockTyped
<1>4. StrandsTyped'
  BY DEF launch, TypeInv, StrandsTyped, ControlInv
<1> QED BY <1>1, <1>2, <1>3, <1>4 DEF TypeInv

LEMMA CpuStartTyped == ASSUME TypeInv, NEW g \in Guests, NEW v \in Vcpus, hcall_cpu_start(g, v) PROVE TypeInv'
<1>1. R' = WithStatus(R, v, "RUNNING") /\ "RUNNING" \in VcpuStates
  BY DEF hcall_cpu_start, WithStatus, VcpuStates
<1>2. R' \in Tables
  BY <1>1, SetStatus DEF Rest, TypeInv
<1> QED BY <1>2, TablesOnly DEF hcall_cpu_start

\* A command of Zeus that only changes the command under way.
LEMMA CommandTyped ==
  ASSUME TypeInv, Send, z' \in ControlStates, x' = x, R' \in Tables,
         z'.pc \in {"lock", "parse", "postparse"} => z'.md \in DOMAIN Hvmds,
         z'.pc \in {"kickoff", "ignite"} => z'.gid \in Guests, z'.pc # "commit",
         UNCHANGED <<pip, active_hvmd, parse_hvmd, del_reconf_gid, del_reconf_lock, sched>>
  PROVE  TypeInv'
<1>1. StrandsTyped'
  BY DEF TypeInv, StrandsTyped, ControlInv
<1>2. RestTyped'
  BY ReconfAssumption DEF TypeInv, RestTyped, Send
<1>3. PipTyped' /\ HvmdsTyped' /\ LockTyped'
  BY DEF TypeInv, PipTyped, PipInv, HvmdsTyped, LockTyped
<1> QED BY <1>1, <1>2, <1>3 DEF TypeInv

LEMMA ReconfigTyped ==
  ASSUME TypeInv, NEW i \in DOMAIN Hvmds, NEW gid \in Guests \cup {None}, op_reconfig(i, gid) PROVE TypeInv'
<1>1. z' = Idle \/ z' = [pc |-> "lock", md |-> i, gid |-> gid, call |-> 0]
  BY DEF op_reconfig
<1>2. /\ z' \in ControlStates /\ z'.pc \in {"idle", "lock"}
      /\ z'.pc \in {"lock", "parse", "postparse"} => z'.md \in DOMAIN Hvmds
  BY <1>1, CallFacts, IdleType DEF ControlStates, Idle
<1>3. R' \in Tables
  BY DEF op_reconfig, TypeInv
<1> QED BY <1>2, <1>3, CommandTyped DEF op_reconfig

LEMMA StartTyped == ASSUME TypeInv, NEW g \in Guests, op_guest_start(g) PROVE TypeInv'
<1>1. z' = [pc |-> "ignite", md |-> None, gid |-> g, call |-> 0]
  BY DEF op_guest_start, Idle
<1>2. z' \in ControlStates /\ z'.pc = "ignite" /\ z'.gid \in Guests
  BY <1>1, CallFacts DEF ControlStates
<1>3. R' \in Tables
  BY SetStateTyped DEF op_guest_start, TypeInv, GuestStates
<1> QED BY <1>2, <1>3, CommandTyped DEF op_guest_start

LEMMA IgniteTyped == ASSUME TypeInv, op_guest_start_ignite PROVE TypeInv'
<1>0. z.gid \in Guests /\ z' = Idle /\ x' = x
  BY DEF op_guest_start_ignite, TypeInv, StrandsTyped, ControlInv
<1>1. R' \in Tables /\ PipTyped' /\ HvmdsTyped' /\ LockTyped' /\ cmds' \in 0..MaxCmds
  BY DEF op_guest_start_ignite, TypeInv, PipTyped, PipInv, HvmdsTyped, LockTyped, RestTyped
<1>2. sched' \in [Guests -> Vcpus \cup {None}]
  BY <1>0, IgnitionTyped DEF op_guest_start_ignite, TypeInv, RestTyped
<1>3. StrandsTyped'
  BY <1>0, StrandsIdle DEF TypeInv
<1> QED BY <1>1, <1>2, <1>3 DEF TypeInv, RestTyped

LEMMA BeginExitTyped ==
  ASSUME TypeInv, NEW g \in Guests, NEW sir \in BOOLEAN, BeginExit(g, sir), cmds' \in 0..MaxCmds,
         UNCHANGED <<pip, active_hvmd, parse_hvmd, del_reconf_gid, del_reconf_lock, z, sched>>
  PROVE  TypeInv'
<1>1. R' \in Tables
  BY SetStateTyped DEF BeginExit, TypeInv, GuestStates
<1>2. StrandsTyped'
  <2>1. [pc |-> "stop", sir |-> sir, call |-> 0] \in ExitStates
    BY CallFacts DEF ExitStates
  <2>2. x' = [x EXCEPT ![g] = [pc |-> "stop", sir |-> sir, call |-> 0]]
    BY DEF BeginExit
  <2> QED BY <2>1, <2>2 DEF TypeInv, StrandsTyped, ControlInv
<1>3. PipTyped' /\ HvmdsTyped' /\ LockTyped' /\ RestTyped'
  BY DEF TypeInv, PipTyped, PipInv, HvmdsTyped, LockTyped, RestTyped
<1> QED BY <1>1, <1>2, <1>3 DEF TypeInv

LEMMA LockTypedStep == ASSUME TypeInv, op_reconfig_lock PROVE TypeInv'
<1>1. R' \in Tables /\ PipTyped' /\ HvmdsTyped' /\ RestTyped'
  BY DEF op_reconfig_lock, TypeInv, PipTyped, PipInv, HvmdsTyped, RestTyped
<1>2. LockTyped'
  BY DEF op_reconfig_lock, TypeInv, LockTyped
<1>3. StrandsTyped'
  <2>0. z.pc = "lock" /\ x' = x
    BY DEF op_reconfig_lock
  <2>1. CASE z' = Idle
    BY <2>0, <2>1, StrandsIdle DEF TypeInv
  <2>2. CASE z' = [z EXCEPT !.pc = "parse"]
    <3>1. z' \in ControlStates /\ z'.pc = "parse" /\ z'.md = z.md
      BY <2>2 DEF TypeInv, StrandsTyped, ControlStates
    <3> QED BY <2>0, <3>1 DEF TypeInv, StrandsTyped, ControlInv
  <2> QED BY <2>1, <2>2 DEF op_reconfig_lock
<1> QED BY <1>1, <1>2, <1>3 DEF TypeInv

LEMMA ParseTyped == ASSUME TypeInv, op_reconfig_parse PROVE TypeInv'
<1>0. /\ z.pc = "parse" /\ z.md \in DOMAIN Hvmds /\ x' = x /\ parse_hvmd' = z.md
      /\ WellFormed(Hvmds[z.md]) /\ UNCHANGED <<active_hvmd, sched, cmds>>
  BY ReconfAssumption DEF op_reconfig_parse, TypeInv, StrandsTyped, ControlInv
<1>1. R' \in Tables
  <2>1. R' = R \/ R' = res_guest_parse(R, Hvmds[z.md])
    BY DEF op_reconfig_parse
  <2>2. res_guest_parse(R, Hvmds[z.md]) \in Tables
    BY <1>0, ParseRest DEF TypeInv, Rest
  <2> QED BY <2>1, <2>2 DEF TypeInv
<1>2. HvmdsTyped' /\ RestTyped'
  BY <1>0 DEF TypeInv, HvmdsTyped, RestTyped
<1>3. PipTyped' /\ LockTyped' /\ StrandsTyped'
  <2>1. CASE Fail
    BY <1>0, <2>1, FailTyped DEF TypeInv
  <2>2. CASE z' = Idle /\ UNCHANGED <<pip, del_reconf_gid, del_reconf_lock>>
    BY <1>0, <2>2, StrandsIdle DEF TypeInv, PipTyped, PipInv, LockTyped
  <2>3. CASE /\ pip' = [flags |-> res_parse_flags(R, Hvmds[z.md]), md |-> z.md]
             /\ z' = [z EXCEPT !.pc = "postparse"] /\ UNCHANGED <<del_reconf_gid, del_reconf_lock>>
    <3>1. PipTyped'
      <4>1. pip' \in PipType /\ ElectedBy(pip'.flags, Hvmds[pip'.md]) /\ pip'.md = z.md
        BY <1>0, <2>3, ParsePip
      <4> QED BY <1>0, <4>1 DEF PipTyped, PipInv
    <3>2. LockTyped'
      BY <2>3 DEF TypeInv, LockTyped
    <3>3. z' \in ControlStates /\ z'.pc = "postparse" /\ z'.md = z.md
      BY <2>3 DEF TypeInv, StrandsTyped, ControlStates
    <3>4. StrandsTyped'
      BY <1>0, <3>3 DEF TypeInv, StrandsTyped, ControlInv
    <3> QED BY <3>1, <3>2, <3>4
  <2> QED BY <2>1, <2>2, <2>3 DEF op_reconfig_parse
<1> QED BY <1>1, <1>2, <1>3 DEF TypeInv

LEMMA PostparseTyped == ASSUME TypeInv, op_reconfig_postparse PROVE TypeInv'
<1>0. z.pc = "postparse" /\ UNCHANGED <<R, active_hvmd, parse_hvmd, x, sched, cmds>>
  BY DEF op_reconfig_postparse
<1>1. R' \in Tables /\ HvmdsTyped' /\ RestTyped'
  BY <1>0 DEF TypeInv, HvmdsTyped, RestTyped
<1>2. PipTyped' /\ LockTyped' /\ StrandsTyped'
  <2>1. CASE Fail
    BY <1>0, <2>1, FailTyped DEF TypeInv
  <2>2. CASE z.gid # None /\ del_reconf_gid' = z.gid /\ del_reconf_lock' = None /\ z' = Idle /\ pip' = pip
    <3>1. z.gid \in Guests
      BY <2>2 DEF TypeInv, StrandsTyped, ControlStates
    <3>2. StrandsTyped'
      BY <1>0, <2>2, StrandsIdle DEF TypeInv
    <3> QED BY <2>2, <3>1, <3>2 DEF TypeInv, PipTyped, PipInv, LockTyped
  <2>3. CASE z' = [z EXCEPT !.pc = "commit", !.call = 1] /\ UNCHANGED <<pip, del_reconf_gid, del_reconf_lock>>
    <3>0. 1 \in 0..Len(commit_reconfig) + 1
      BY CallFacts
    <3>1. z' \in ControlStates /\ z'.pc = "commit" /\ z'.md = z.md /\ z'.call = 1
      BY <2>3, <3>0 DEF TypeInv, StrandsTyped, ControlStates
    <3>2. StrandsTyped'
      BY <1>0, <3>1 DEF TypeInv, StrandsTyped, ControlInv
    <3> QED BY <2>3, <3>2 DEF TypeInv, PipTyped, PipInv, LockTyped
  <2> QED BY <2>1, <2>2, <2>3 DEF op_reconfig_postparse
<1> QED BY <1>1, <1>2 DEF TypeInv

LEMMA AcceptTyped == ASSUME HvmdsTyped, accept_hvmd, parse_hvmd' = parse_hvmd PROVE PipTyped' /\ HvmdsTyped'
  BY NoPipType DEF accept_hvmd, PipTyped, PipInv, HvmdsTyped

LEMMA ControlCommitTyped == ASSUME TypeInv, op_reconfig_commit PROVE TypeInv'
<1>0. /\ z.pc = "commit" /\ UNCHANGED <<parse_hvmd, del_reconf_gid, del_reconf_lock, x, sched, cmds>>
      /\ z.md \in DOMAIN Hvmds /\ z.call \in Nat \ {0}
  BY CallFacts DEF op_reconfig_commit, TypeInv, StrandsTyped, ControlInv, ControlStates
<1>1. LockTyped' /\ RestTyped'
  BY <1>0 DEF TypeInv, LockTyped, RestTyped
<1>2. CASE CallsWithWork(pip, z.call) = {}
  <2>1. accept_hvmd /\ z' = Idle /\ R' = R
    BY <1>2 DEF op_reconfig_commit
  <2>2. StrandsTyped'
    BY <1>0, <2>1, StrandsIdle DEF TypeInv
  <2> QED BY <1>0, <1>1, <2>1, <2>2, AcceptTyped DEF TypeInv
<1>3. CASE CallsWithWork(pip, z.call) # {}
  <2> DEFINE k == Min(CallsWithWork(pip, z.call))
  <2>1. CommitCall(k) /\ z' = [z EXCEPT !.call = k + 1] /\ active_hvmd' = active_hvmd
    BY <1>3 DEF op_reconfig_commit
  <2>2. k \in 1 .. 30
    BY <1>0, <1>3, NextCall
  <2>3. CallMade(k)
    BY <1>0, <1>3, <2>1, CallStep DEF TypeInv, PipTyped
  <2> HIDE DEF k
  <2>4. z' \in ControlStates /\ z'.pc = "commit" /\ z'.md = z.md /\ z'.call = k + 1
    BY <1>0, <2>1, <2>2, CallFacts DEF TypeInv, StrandsTyped, ControlStates
  <2>5. StrandsTyped'
    BY <1>0, <2>2, <2>4 DEF TypeInv, StrandsTyped, ControlInv
  <2>6. R' \in Tables /\ PipTyped'
    BY <2>3 DEF CallMade, PipTyped
  <2> QED BY <1>0, <1>1, <2>1, <2>5, <2>6 DEF TypeInv, HvmdsTyped
<1> QED BY <1>2, <1>3

LEMMA ExitCommitTyped == ASSUME TypeInv, NEW g \in Guests, c_guest_exit_commit(g) PROVE TypeInv'
<1>0. x[g].pc = "commit" /\ UNCHANGED <<parse_hvmd, z, sched, cmds>> /\ x[g] \in ExitStates /\ x[g].call \in Nat \ {0}
  BY CallFacts DEF c_guest_exit_commit, TypeInv, StrandsTyped, ControlInv, ExitStates
<1>1. RestTyped'
  BY <1>0 DEF TypeInv, RestTyped
<1>2. CASE CallsWithWork(pip, x[g].call) = {}
  <2>1. accept_hvmd /\ R' = R /\ del_reconf_gid' = None /\ del_reconf_lock' = None /\ x' = [x EXCEPT ![g].pc = "notify"]
    BY <1>2 DEF c_guest_exit_commit
  <2>2. x' \in [Guests -> ExitStates] /\ x'[g].pc = "notify" /\ \A h \in Guests \ {g} : x'[h] = x[h]
    BY <1>0, <2>1 DEF TypeInv, StrandsTyped, ExitStates
  <2>3. StrandsTyped'
    BY <1>0, <2>2 DEF TypeInv, StrandsTyped, ControlInv
  <2> QED BY <1>0, <1>1, <2>1, <2>3, AcceptTyped DEF TypeInv, LockTyped
<1>3. CASE CallsWithWork(pip, x[g].call) # {}
  <2> DEFINE k == Min(CallsWithWork(pip, x[g].call))
  <2>1. /\ CommitCall(k) /\ x' = [x EXCEPT ![g].call = k + 1]
        /\ UNCHANGED <<active_hvmd, del_reconf_gid, del_reconf_lock>>
    BY <1>3 DEF c_guest_exit_commit
  <2>2. k \in 1 .. 30
    BY <1>0, <1>3, NextCall
  <2>3. CallMade(k)
    BY <1>0, <1>3, <2>1, CallStep DEF TypeInv, PipTyped
  <2> HIDE DEF k
  <2>4. x' \in [Guests -> ExitStates] /\ x'[g].call = k + 1 /\ \A h \in Guests \ {g} : x'[h] = x[h]
    BY <1>0, <2>1, <2>2, CallFacts DEF TypeInv, StrandsTyped, ExitStates
  <2>5. StrandsTyped'
    BY <1>0, <2>2, <2>4 DEF TypeInv, StrandsTyped, ControlInv
  <2>6. R' \in Tables /\ PipTyped'
    BY <2>3 DEF CallMade, PipTyped
  <2> QED BY <1>0, <1>1, <2>1, <2>5, <2>6 DEF TypeInv, HvmdsTyped, LockTyped
<1> QED BY <1>2, <1>3

LEMMA CancelTyped == ASSUME TypeInv, op_cancel_reconfig PROVE TypeInv'
<1>1. R' \in Tables /\ HvmdsTyped' /\ LockTyped'
  BY DEF op_cancel_reconfig, TypeInv, HvmdsTyped, LockTyped
<1>2. PipTyped'
  BY NoPipType DEF op_cancel_reconfig, PipTyped, PipInv
<1>3. StrandsTyped'
  BY DEF op_cancel_reconfig, TypeInv, StrandsTyped, ControlInv
<1>4. RestTyped'
  BY ReconfAssumption DEF op_cancel_reconfig, Send, TypeInv, RestTyped
<1> QED BY <1>1, <1>2, <1>3, <1>4 DEF TypeInv

\* The steps of an exit that do not commit.
LEMMA ExitStepTyped ==
  ASSUME TypeInv, NEW g \in Guests, R' \in Tables, LockTyped', sched' \in [Guests -> Vcpus \cup {None}],
         UNCHANGED <<pip, active_hvmd, parse_hvmd, z, cmds>>,
         NEW e \in ExitStates, e.pc = "commit" => e.call = 1, x' = [x EXCEPT ![g] = e]
  PROVE  TypeInv'
<1>1. PipTyped' /\ HvmdsTyped' /\ RestTyped'
  BY DEF TypeInv, PipTyped, PipInv, HvmdsTyped, RestTyped
<1>2. x' \in [Guests -> ExitStates] /\ x'[g] = e /\ \A h \in Guests \ {g} : x'[h] = x[h]
  BY DEF TypeInv, StrandsTyped
<1>3. StrandsTyped'
  BY <1>2 DEF TypeInv, StrandsTyped, ControlInv
<1> QED BY <1>1, <1>3 DEF TypeInv

LEMMA ExitTyped == ASSUME TypeInv, NEW g \in Guests, ExitStep(g) PROVE TypeInv'
<1>0. x[g] \in ExitStates /\ x \in [Guests -> ExitStates] /\ R \in Tables /\ sched \in [Guests -> Vcpus \cup {None}] /\ LockTyped
  BY DEF TypeInv, StrandsTyped, RestTyped
<1>1. CASE c_guest_exit_stop(g)
  <2>1. R' = WithStopped(R, VcpusOf(g))
    BY <1>1 DEF c_guest_exit_stop, WithStopped
  <2>2. R' \in Tables
    BY <1>0, <2>1, StopVcpus DEF Rest
  <2> DEFINE e == [x[g] EXCEPT !.pc = IF x[g].sir THEN "lock" ELSE "mark"]
  <2>3. e \in ExitStates /\ e.pc # "commit" /\ x' = [x EXCEPT ![g] = e]
    BY <1>0, <1>1 DEF ExitStates, c_guest_exit_stop, Stoppable
  <2> HIDE DEF e
  <2> QED BY <1>0, <1>1, <2>2, <2>3, ExitStepTyped DEF c_guest_exit_stop, LockTyped
<1>2. CASE c_guest_exit_mark(g)
  <2>2. R' \in Tables
    BY <1>0, <1>2, SetStateTyped DEF c_guest_exit_mark, GuestStates
  <2> DEFINE e == [x[g] EXCEPT !.pc = "lock"]
  <2>3. e \in ExitStates /\ e.pc # "commit" /\ x' = [x EXCEPT ![g] = e]
    BY <1>0, <1>2 DEF ExitStates, c_guest_exit_mark
  <2> HIDE DEF e
  <2> QED BY <1>0, <1>2, <2>2, <2>3, ExitStepTyped DEF c_guest_exit_mark, LockTyped
<1>3. CASE c_guest_exit_lock(g)
  <2>0. R' \in Tables /\ LockTyped'
    BY <1>0, <1>3 DEF c_guest_exit_lock, LockTyped
  <2>1. CASE del_reconf_gid = g
    <3> DEFINE e == [x[g] EXCEPT !.pc = "commit", !.call = 1]
    <3>0. 1 \in 0..Len(commit_reconfig) + 1
      BY CallFacts
    <3>1. e \in ExitStates /\ e.call = 1
      BY <1>0, <3>0 DEF ExitStates
    <3>2. x' = [x EXCEPT ![g].pc = "commit", ![g].call = 1]
      BY <1>3, <2>1 DEF c_guest_exit_lock
    <3>3. x' = [x EXCEPT ![g] = e]
      BY <1>0, <3>2
    <3> HIDE DEF e
    <3> QED BY <1>0, <1>3, <2>0, <3>1, <3>3, ExitStepTyped DEF c_guest_exit_lock
  <2>2. CASE del_reconf_gid # g
    <3> DEFINE e == [x[g] EXCEPT !.pc = "notify"]
    <3>1. e \in ExitStates /\ e.pc # "commit" /\ x' = [x EXCEPT ![g] = e]
      BY <1>0, <1>3, <2>2 DEF ExitStates, c_guest_exit_lock
    <3> HIDE DEF e
    <3> QED BY <1>0, <1>3, <2>0, <3>1, ExitStepTyped DEF c_guest_exit_lock
  <2> QED BY <2>1, <2>2
<1>4. CASE c_guest_exit_commit(g)
  BY <1>4, ExitCommitTyped
<1>5. CASE c_guest_exit_notify(g)
  <2>1. sched' \in [Guests -> Vcpus \cup {None}]
    BY <1>0, <1>5, IgnitionTyped DEF c_guest_exit_notify
  <2>2. NoExit \in ExitStates /\ NoExit.pc # "commit"
    BY CallFacts DEF NoExit, ExitStates
  <2> QED BY <1>0, <1>5, <2>1, <2>2, ExitStepTyped DEF c_guest_exit_notify, LockTyped
<1> QED BY <1>1, <1>2, <1>3, <1>4, <1>5 DEF ExitStep

LEMMA NextType == TypeInv /\ [Next]_vars => TypeInv'
<1> SUFFICES ASSUME TypeInv, [Next]_vars PROVE TypeInv'
  OBVIOUS
<1>1. ASSUME NEW g \in Guests, op_guest_stop(g) PROVE TypeInv'
  <2>1. cmds' \in 0..MaxCmds
    BY <1>1, ReconfAssumption DEF op_guest_stop, Send, TypeInv, RestTyped
  <2> QED BY <1>1, <2>1, BeginExitTyped DEF op_guest_stop
<1>2. ASSUME NEW g \in Guests, NEW sir \in BOOLEAN, hcall_mach_exit(g, sir) PROVE TypeInv'
  <2>1. cmds' \in 0..MaxCmds /\ (sir \/ R.hv_ldc.guest = g) \in BOOLEAN
    BY <1>2 DEF hcall_mach_exit, TypeInv, RestTyped
  <2> QED BY <1>2, <2>1, BeginExitTyped DEF hcall_mach_exit
<1>7. ASSUME NEW g \in Guests, op_get_res_stat(g) PROVE TypeInv'
  BY <1>7, TablesOnly DEF op_get_res_stat, TypeInv
<1>3. CASE Command
  BY <1>1, <1>3, <1>7, ReconfigTyped, CancelTyped, StartTyped DEF Command
<1>4. CASE ControlStep
  BY <1>4, KickoffTyped, LockTypedStep, ParseTyped, PostparseTyped, ControlCommitTyped, IgniteTyped DEF ControlStep
<1>5. CASE \E g \in Guests : ExitStep(g) \/ launch(g) \/ \E v \in Vcpus : hcall_cpu_start(g, v)
  BY <1>5, ExitTyped, LaunchTyped, CpuStartTyped
<1>6. CASE UNCHANGED vars
  <2>1. R' \in Tables
    BY <1>6 DEF vars, TypeInv
  <2> QED BY <1>6, <2>1, TablesOnly DEF vars
<1> QED BY <1>2, <1>3, <1>4, <1>5, <1>6 DEF Next

LEMMA TypeInvOK == TypeInv => TypeOK
<1> SUFFICES ASSUME TypeInv PROVE TypeOK
  OBVIOUS
<1>1. ASSUME NEW g \in Guests PROVE State(g) \in {"UNCONFIGURED", "STOPPED", "RESETTING", "NORMAL", "EXITING"}
  <2>1. R.guest[g] \in GuestType
    BY DEF TypeInv, Tables
  <2> QED BY <2>1 DEF GuestType, GuestStates, State
<1>2. ASSUME NEW v \in Vcpus PROVE R.vcpu[v].status \in {"UNCONFIGURED", "STOPPED", "RUNNING", "ERROR"}
  <2>1. R.vcpu[v] \in VcpuType
    BY DEF TypeInv, Tables
  <2> QED BY <2>1 DEF VcpuType, VcpuStates
<1>3. pip.md \in DOMAIN Hvmds \cup {None} /\ \A t \in Types : pip.flags[t] \in [Ids(t) -> Flags]
  BY TypesAre DEF TypeInv, PipTyped, PipType, FlagTables
<1>4. {active_hvmd, parse_hvmd} \subseteq DOMAIN Hvmds
  BY DEF TypeInv, HvmdsTyped
<1>5. /\ del_reconf_gid \in Guests \cup {None} /\ del_reconf_lock \in Guests \cup {Control, None}
      /\ z \in ControlStates /\ x \in [Guests -> ExitStates]
      /\ sched \in [Guests -> Vcpus \cup {None}] /\ cmds \in 0..MaxCmds
  BY DEF TypeInv, LockTyped, StrandsTyped, RestTyped
<1> QED BY <1>1, <1>2, <1>3, <1>4, <1>5 DEF TypeOK

\* The tables, pip, the control strand and the exiting strands hold only the
\* values that c_start, op_reconfig, the commit functions and c_guest_exit give
\* them, whatever the descriptions say and whatever Zeus asks for.
THEOREM TypeCorrect == Spec => []TypeOK
<1>1. Spec => []TypeInv
  BY InitType, NextType, PTL DEF Spec
<1> QED BY <1>1, TypeInvOK, PTL

-----------------------------------------------------------------------------
(* What is pending stays right.  Zeus asks only for what the comments take *)
(* for granted (Careful) and starts no guest whose exit is not over        *)
(* (Patient).                                                              *)

Has(g) == State(g) # "UNCONFIGURED"
GuestFlag(g) == pip.flags["guest"][g]
Want(g) == g \in DOMAIN Hvmds[parse_hvmd].guest

\* pip is that of a command that is pending or under way.
Live == del_reconf_gid # None \/ z.pc \in {"postparse", "commit"}
NoExitCommits == \A g \in Guests : x[g].pc # "commit"

\* The vcpus of a guest are configured, and what is to be configured is not.
VcpusInv ==
    /\ BackRefs(R)
    /\ \A v \in Vcpus : pip.flags["vcpu"][v] = "Config" => R.vcpu[v].status = "UNCONFIGURED"

\* pip belongs to the description parsed last.
PipMd == /\ Live => pip.md = parse_hvmd
         /\ z.pc = "postparse" => parse_hvmd = z.md

\* What is elected for a guest leads from what there is to what is wanted.
GuestFlags ==
    Live => \A g \in Guests :
        /\ GuestFlag(g) = "Unconfig" => Has(g) /\ ~Want(g)
        /\ GuestFlag(g) = "Config" => ~Has(g) /\ Want(g)
        /\ GuestFlag(g) \in {"Noop", "Modify"} => Has(g) = Want(g)

\* Outside a commit the guests of the active description are there.
Present == NoExitCommits /\ z.pc # "commit" =>
    \A g \in Guests : Has(g) = (g \in DOMAIN Hvmds[active_hvmd].guest)

\* A commit that is past the calls for a guest has none of them left.
CallsDone(c) == /\ c > 10 => \A g \in Guests : GuestFlag(g) # "Unconfig"
                /\ c > 11 => \A g \in Guests : GuestFlag(g) # "Config"
CallsInv == /\ z.pc = "commit" => CallsDone(z.call)
            /\ \A g \in Guests : x[g].pc = "commit" => CallsDone(x[g].call)

\* Which guests Zeus was told are stopped, and which are being started.
Starting(g) == sched[g] # None \/ (z.pc = "ignite" /\ z.gid = g)

\* The states of a guest while its exit is under way: once it is marked
\* STOPPED it may be removed, and configured again, before the exit is over.
ExitState(g) == IF x[g].sir THEN {"RESETTING"} ELSE IF x[g].pc \in {"stop", "mark"} THEN {"EXITING"} ELSE Down

\* A guest is started or exits, not both, and is down if Zeus takes it to be.
GuestRun(g) ==
    /\ Starting(g) => State(g) = "RESETTING" /\ x[g].pc = "none" /\ g \notin told
    /\ z.pc = "ignite" /\ z.gid = g => sched[g] = None
    /\ x[g].pc # "none" => State(g) \in ExitState(g) /\ (x[g].sir => x[g].pc # "mark")
    /\ z.pc = "kickoff" /\ g >= z.gid => State(g) \in Down /\ x[g].pc = "none"
    /\ g \in told => State(g) \in Down
RunInv == \A g \in Guests : GuestRun(g)

\* A command removes no guest of description i, unless it is an immediate one
\* and the guest is down for Zeus.
Removable(i) == \A g \in Guests : g \in DOMAIN Hvmds[i].guest /\ g \notin DOMAIN Hvmds[z.md].guest =>
                    z.gid = None /\ g \in told
AskedInv ==
    z.pc \in {"lock", "parse", "postparse"} =>
        /\ Removable(active_hvmd)
        /\ del_reconf_gid # None => Removable(parse_hvmd)
        /\ z.gid # None => Hvmds[z.md].version \notin {"noroot", "content"}
CommitTold == z.pc = "commit" => \A g \in Guests : GuestFlag(g) = "Unconfig" => g \in told

\* What is pending removes no guest.
PendingRemoves == del_reconf_gid # None /\ z.pc # "postparse" => \A g \in Guests : GuestFlag(g) # "Unconfig"

\* pip is what a parse would elect now.
Fresh == (del_reconf_gid # None \/ z.pc = "postparse") /\ NoExitCommits =>
            pip.flags = res_parse_flags(R, Hvmds[parse_hvmd])

PendInv ==
    /\ VcpusInv /\ PipMd /\ GuestFlags /\ Present /\ CallsInv /\ PendingRemoves /\ Fresh
    /\ RunInv /\ AskedInv /\ CommitTold

\* The tables as a parse sees them are those before the step.
Quiet ==
    /\ Rest(R, R')
    /\ \A g \in Guests : (R'.guest[g].state = "UNCONFIGURED") = (R.guest[g].state = "UNCONFIGURED")
    /\ \A v \in Vcpus : (R'.vcpu[v].status = "UNCONFIGURED") = (R.vcpu[v].status = "UNCONFIGURED")

LEMMA SameFlags ==
  ASSUME NEW r, NEW q, NEW md, Rest(r, q),
         \A g \in Guests : (q.guest[g].state = "UNCONFIGURED") = (r.guest[g].state = "UNCONFIGURED"),
         \A v \in Vcpus : (q.vcpu[v].status = "UNCONFIGURED") = (r.vcpu[v].status = "UNCONFIGURED")
  PROVE  res_parse_flags(q, md) = res_parse_flags(r, md)
<1>1. ASSUME NEW t \in TenTypes, NEW id \in Ids(t) PROVE Configured(q, t, id) = Configured(r, t, id)
  <2>1. CASE t \in {"guest", "console"}
    <3>1. id \in Guests
      BY <2>1, IdsOfType
    <3> QED BY <2>1, <3>1 DEF Configured, Rest
  <2>2. CASE t = "vcpu"
    <3>1. id \in Vcpus
      BY <2>2, IdsOfType
    <3> QED BY <2>2, <3>1 DEF Configured
  <2>3. CASE t = "ldc"
    <3>1. id[1] \in Guests
      BY <2>3, IdsOfType
    <3>2. q.guest[id[1]].ldc = r.guest[id[1]].ldc
      BY <3>1 DEF Rest
    <3> QED BY <2>3, <3>2 DEF Configured
  <2>4. CASE t = "memory"
    BY <2>4 DEF Configured, Rest
  <2>5. CASE t = "hv_ldc"
    BY <2>5 DEF Configured, Rest
  <2>6. CASE t = "mau"
    BY <2>6 DEF Configured, Rest
  <2>7. CASE t = "cwq"
    BY <2>7 DEF Configured, Rest
  <2>8. CASE t = "pcie_bus"
    BY <2>8 DEF Configured, Rest
  <2>9. CASE t = "network_device"
    BY <2>9 DEF Configured, Rest
  <2> QED BY <2>1, <2>2, <2>3, <2>4, <2>5, <2>6, <2>7, <2>8, <2>9 DEF TenTypes
<1>2. ASSUME NEW t \in TenTypes, NEW id \in Ids(t) PROVE Modified(q, md, t, id) = Modified(r, md, t, id)
  <2>1. CASE t = "guest"
    <3>1. id \in Guests
      BY <2>1, IdsOfType
    <3> QED BY <2>1, <3>1 DEF Modified, res_guest_same, Rest
  <2>2. CASE t = "console"
    <3>1. id \in Guests
      BY <2>2, IdsOfType
    <3> QED BY <2>2, <3>1 DEF Modified, res_console_same, Rest
  <2>3. CASE t = "memory"
    BY <2>3 DEF Modified, res_memory_same, Rest
  <2>4. CASE t = "mau"
    BY <2>4 DEF Modified, unit_cpuset_same, Rest
  <2>5. CASE t = "cwq"
    BY <2>5 DEF Modified, unit_cpuset_same, Rest
  <2>6. CASE t \notin {"guest", "console", "memory", "mau", "cwq"}
    BY <2>6 DEF Modified
  <2> QED BY <2>1, <2>2, <2>3, <2>4, <2>5, <2>6
<1>3. ASSUME NEW t \in TenTypes, NEW id \in Ids(t) PROVE res_prep(q)[t][id] = res_prep(r)[t][id]
  BY <1>1, TypesAre DEF res_prep
<1> DEFINE f(s) == [t \in TenTypes |-> [id \in Ids(t) |->
             IF id \notin DOMAIN md[t] THEN res_prep(s)[t][id]
             ELSE IF ~Configured(s, t, id) THEN "Config"
             ELSE IF Modified(s, md, t, id) THEN "Modify" ELSE "Noop"]]
<1>4. res_parse_flags(q, md) = f(q) /\ res_parse_flags(r, md) = f(r)
  BY TypesAre DEF res_parse_flags
<1>5. f(q) = f(r)
  BY <1>1, <1>2, <1>3
<1> QED BY <1>4, <1>5

LEMMA QuietBackRefs == ASSUME BackRefs(R), R \in Tables, Quiet PROVE BackRefs(R')
<1> SUFFICES ASSUME NEW g \in Guests, NEW i \in Vcpus, R'.guest[g].vcpus[i] # None
             PROVE  LET v == R'.guest[g].vcpus[i]
                    IN  R'.vcpu[v].guest = g /\ R'.vcpu[v].vid = i /\ R'.vcpu[v].status # "UNCONFIGURED"
  BY DEF BackRefs
<1> DEFINE v == R'.guest[g].vcpus[i]
<1>1. v = R.guest[g].vcpus[i] /\ v # None
  BY DEF Quiet, Rest
<1>2. R.guest[g] \in GuestType
  BY DEF Tables
<1>3. v \in Vcpus
  BY <1>1, <1>2 DEF GuestType
<1> HIDE DEF v
<1>4. R.vcpu[v].guest = g /\ R.vcpu[v].vid = i /\ R.vcpu[v].status # "UNCONFIGURED"
  BY <1>1 DEF BackRefs
<1>5. R'.vcpu[v].guest = g /\ R'.vcpu[v].vid = i /\ R'.vcpu[v].status # "UNCONFIGURED"
  BY <1>3, <1>4 DEF Quiet, Rest
<1> QED BY <1>5 DEF v

LEMMA QuietVcpus == ASSUME VcpusInv, R \in Tables, Quiet, pip' = pip PROVE VcpusInv'
<1>1. BackRefs(R')
  BY QuietBackRefs DEF VcpusInv
<1>2. \A v \in Vcpus : pip'.flags["vcpu"][v] = "Config" => R'.vcpu[v].status = "UNCONFIGURED"
  BY DEF VcpusInv, Quiet
<1> QED BY <1>1, <1>2 DEF VcpusInv

LEMMA QuietHas == ASSUME Quiet PROVE \A g \in Guests : Has(g)' = Has(g)
  BY DEF Quiet, Has, State

\* A step that leaves the parse and the commits alone.
QuietStep ==
    /\ Quiet
    /\ UNCHANGED <<pip, active_hvmd, parse_hvmd, del_reconf_gid>>
    /\ z' = z \/ (z.pc \notin {"postparse", "commit"} /\ z'.pc \notin {"postparse", "commit"})
    /\ \A g \in Guests : /\ x[g].pc = "commit" => x'[g] = x[g]
                         /\ x'[g].pc = "commit" => x'[g] = x[g] \/ x'[g].call = 1

LEMMA QuietInv ==
  ASSUME PendInv, R \in Tables, QuietStep
  PROVE  VcpusInv' /\ PipMd' /\ GuestFlags' /\ Present' /\ CallsInv' /\ PendingRemoves' /\ Fresh'
<1>0. Quiet /\ UNCHANGED <<pip, active_hvmd, parse_hvmd, del_reconf_gid>>
  BY DEF QuietStep
<1>z. /\ z'.pc = "postparse" <=> z.pc = "postparse"
      /\ z'.pc = "commit" <=> z.pc = "commit"
      /\ z.pc \in {"postparse", "commit"} => z' = z
  BY DEF QuietStep
<1>x. NoExitCommits' => NoExitCommits
  BY DEF QuietStep, NoExitCommits
<1>l. Live' = Live
  BY <1>0, <1>z DEF Live
<1>h. \A g \in Guests : Has(g)' = Has(g)
  BY <1>0, QuietHas
<1>f. \A g \in Guests : GuestFlag(g)' = GuestFlag(g) /\ Want(g)' = Want(g)
  BY <1>0 DEF GuestFlag, Want
<1>1. VcpusInv'
  BY <1>0, QuietVcpus DEF PendInv
<1>2. PipMd'
  BY <1>0, <1>z, <1>l DEF PendInv, PipMd
<1>3. GuestFlags'
  BY <1>h, <1>f, <1>l DEF PendInv, GuestFlags
<1>4. Present'
  BY <1>0, <1>z, <1>x, <1>h DEF PendInv, Present
<1>5. CallsInv'
  <2>1. ASSUME NEW c, CallsDone(c) PROVE CallsDone(c)'
    BY <2>1, <1>f DEF CallsDone
  <2>2. CallsDone(1)'
    BY DEF CallsDone
  <2>3. z'.pc = "commit" => CallsDone(z.call)' /\ z' = z
    BY <1>z, <2>1 DEF PendInv, CallsInv
  <2>4. ASSUME NEW g \in Guests, x'[g].pc = "commit" PROVE (CallsDone(x[g].call)' /\ x'[g] = x[g]) \/ x'[g].call = 1
    BY <2>1, <2>4 DEF PendInv, CallsInv, QuietStep
  <2>5. ASSUME NEW g \in Guests, x'[g].pc = "commit" PROVE CallsDone(x[g].call)'
    BY <2>2, <2>4, <2>5 DEF CallsDone
  <2> QED BY <2>3, <2>5 DEF CallsInv
<1>6. PendingRemoves'
  BY <1>0, <1>z, <1>f DEF PendInv, PendingRemoves
<1>7. Fresh'
  <2>1. res_parse_flags(R', Hvmds[parse_hvmd]) = res_parse_flags(R, Hvmds[parse_hvmd])
    BY <1>0, SameFlags DEF Quiet
  <2> QED BY <1>0, <1>z, <1>x, <2>1 DEF PendInv, Fresh
<1> QED BY <1>1, <1>2, <1>3, <1>4, <1>5, <1>6, <1>7

\* What was parsed is dropped, or never became what is pending.
LEMMA DroppedInv ==
  ASSUME PendInv, R \in Tables, Quiet, \A g \in Guests : State(g)' = State(g), pip' = NoPip \/ pip' = pip,
         del_reconf_gid' = None, z'.pc = "idle", UNCHANGED <<x, sched, told>>, NoExitCommits, z.pc # "commit", active_hvmd' = active_hvmd
  PROVE  PendInv'
<1>1. VcpusInv'
  <2>1. BackRefs(R')
    BY QuietBackRefs DEF PendInv, VcpusInv
  <2>2. CASE pip' = pip
    BY <2>2, QuietVcpus DEF PendInv
  <2>3. CASE pip' = NoPip
    <3>1. "vcpu" \in TenTypes /\ Ids("vcpu") = Vcpus
      BY IdsOfType DEF TenTypes
    <3>2. \A v \in Vcpus : pip'.flags["vcpu"][v] = "Noop"
      BY <2>3, <3>1, NoPipType DEF NothingElected
    <3> QED BY <2>1, <3>2 DEF VcpusInv
  <2> QED BY <2>2, <2>3
<1>2. ~Live' /\ z'.pc \notin {"lock", "parse", "postparse", "kickoff", "commit"} /\ NoExitCommits'
  BY DEF Live, NoExitCommits
<1>3. PipMd' /\ GuestFlags' /\ AskedInv' /\ CommitTold' /\ PendingRemoves' /\ Fresh' /\ CallsInv'
  BY <1>2 DEF PipMd, GuestFlags, AskedInv, CommitTold, PendingRemoves, Fresh, CallsInv, NoExitCommits
<1>4. Present'
  BY QuietHas DEF PendInv, Present
<1>5. RunInv'
  BY <1>2 DEF PendInv, RunInv, GuestRun, Starting, ExitState
<1> QED BY <1>1, <1>3, <1>4, <1>5 DEF PendInv

\* Zeus is not told that a guest it takes for stopped is running.
ToldKept == \A g \in Guests : g \in told => g \in told'

LEMMA QuietAsked ==
  ASSUME PendInv, QuietStep, ToldKept,
         z'.pc \in {"lock", "parse", "postparse"} =>
            z.pc \in {"lock", "parse", "postparse"} /\ z'.gid = z.gid /\ z'.md = z.md
  PROVE  AskedInv' /\ CommitTold'
<1>0. UNCHANGED <<pip, active_hvmd, parse_hvmd, del_reconf_gid>> /\ (z'.pc = "commit" => z' = z)
  BY DEF QuietStep
<1>1. ASSUME z'.gid = z.gid, z'.md = z.md, NEW i, Removable(i) PROVE Removable(i)'
  BY <1>1 DEF Removable, ToldKept
<1>2. AskedInv'
  <2> SUFFICES ASSUME z'.pc \in {"lock", "parse", "postparse"}
               PROVE  /\ Removable(active_hvmd)'
                      /\ del_reconf_gid' # None => Removable(parse_hvmd)'
                      /\ z'.gid # None => Hvmds[z'.md].version \notin {"noroot", "content"}
    BY DEF AskedInv
  <2>1. /\ Removable(active_hvmd)
        /\ del_reconf_gid # None => Removable(parse_hvmd)
        /\ z.gid # None => Hvmds[z.md].version \notin {"noroot", "content"}
    BY DEF PendInv, AskedInv
  <2>2. Removable(active_hvmd)'
    BY <1>0, <2>1 DEF Removable, ToldKept
  <2>3. del_reconf_gid' # None => Removable(parse_hvmd)'
    BY <1>0, <2>1 DEF Removable, ToldKept
  <2> QED BY <2>1, <2>2, <2>3
<1>3. CommitTold'
  BY <1>0 DEF PendInv, CommitTold, GuestFlag, ToldKept
<1> QED BY <1>2, <1>3

LEMMA SameRun ==
  ASSUME NEW h \in Guests, GuestRun(h), State(h)' = State(h), x'[h] = x[h], sched'[h] = sched[h], (h \in told') = (h \in told),
         z'.pc = "ignite" => z' = z \/ z'.gid # h,
         z'.pc = "kickoff" => z.pc = "kickoff" /\ (h >= z'.gid => h >= z.gid)
  PROVE  GuestRun(h)'
  BY DEF GuestRun, Starting, ExitState

\* A quiet step that also keeps what is said of running guests.
LEMMA QuietPend ==
  ASSUME PendInv, R \in Tables, QuietStep, RunInv', AskedInv', CommitTold'
  PROVE  PendInv'
  BY QuietInv DEF PendInv

-----------------------------------------------------------------------------
(* Commits and what is pending.                                            *)

\* A call for the guests that has no work left.
LEMMA GuestWork ==
  ASSUME NEW c \in Nat \ {0}, CallsDone(c)
  PROVE  /\ 10 \notin CallsWithWork(pip, c) => \A g \in Guests : GuestFlag(g) # "Unconfig"
         /\ 11 \notin CallsWithWork(pip, c) => \A g \in Guests : GuestFlag(g) # "Config"
<1>1. "guest" \in TenTypes /\ Ids("guest") = Guests
  BY IdsOfType DEF TenTypes
<1>2. ASSUME NEW g \in Guests, c <= 10, GuestFlag(g) = "Unconfig" PROVE 10 \in CallsWithWork(pip, c)
  <2>1. 10 \in c .. Len(commit_reconfig)
    BY <1>2, CallFacts
  <2>2. commit_reconfig[10][1] = "guest" /\ commit_reconfig[10][2] = "Unconfig"
    BY CallFacts
  <2> QED BY <1>1, <1>2, <2>1, <2>2 DEF CallsWithWork, GuestFlag
<1>3. ASSUME NEW g \in Guests, c <= 11, GuestFlag(g) = "Config" PROVE 11 \in CallsWithWork(pip, c)
  <2>1. 11 \in c .. Len(commit_reconfig)
    BY <1>3, CallFacts
  <2>2. commit_reconfig[11][1] = "guest" /\ commit_reconfig[11][2] = "Config"
    BY CallFacts
  <2> QED BY <1>1, <1>3, <2>1, <2>2 DEF CallsWithWork, GuestFlag
<1>4. c > 10 => \A g \in Guests : GuestFlag(g) # "Unconfig"
  BY DEF CallsDone
<1>5. c > 11 => \A g \in Guests : GuestFlag(g) # "Config"
  BY DEF CallsDone
<1> QED BY <1>2, <1>3, <1>4, <1>5

\* What a call makes of the flag and the state of a guest.
LEMMA CallGuest ==
  ASSUME NEW k \in 1 .. 30, CallMade(k), NEW g \in Guests
  PROVE  LET t == commit_reconfig[k][1]
             flag == commit_reconfig[k][2]
         IN  /\ flag \in Calls
             /\ t = "guest" /\ GuestFlag(g) = flag =>
                   /\ GuestFlag(g)' = "Noop"
                   /\ flag = "Unconfig" => State(g)' = "UNCONFIGURED"
                   /\ flag = "Config" => State(g)' = "STOPPED"
                   /\ flag = "Modify" => State(g)' = State(g)
             /\ ~(t = "guest" /\ GuestFlag(g) = flag) => GuestFlag(g)' = GuestFlag(g) /\ State(g)' = State(g)
<1> DEFINE t == commit_reconfig[k][1]
           flag == commit_reconfig[k][2]
<1>1. "guest" \in TenTypes /\ Ids("guest") = Guests
  BY IdsOfType DEF TenTypes
<1>2. t \in TenTypes /\ flag \in Calls
  BY CallFacts
<1>3. GuestFlag(g)' = IF "guest" = t /\ GuestFlag(g) = flag THEN "Noop" ELSE GuestFlag(g)
  BY <1>1 DEF CallMade, GuestFlag
<1>4. State(g)' = NewState(State(g), GuestFlag(g), t, flag)
  BY DEF CallMade, State, GuestFlag
<1> HIDE DEF t, flag
<1>5. /\ flag \in Calls
      /\ t = "guest" /\ GuestFlag(g) = flag =>
            /\ GuestFlag(g)' = "Noop"
            /\ flag = "Unconfig" => State(g)' = "UNCONFIGURED"
            /\ flag = "Config" => State(g)' = "STOPPED"
            /\ flag = "Modify" => State(g)' = State(g)
      /\ ~(t = "guest" /\ GuestFlag(g) = flag) => GuestFlag(g)' = GuestFlag(g) /\ State(g)' = State(g)
  BY <1>2, <1>3, <1>4 DEF NewState
<1> QED BY <1>5 DEF t, flag

LEMMA CallInvs ==
  ASSUME TypeInv, PendInv, Live, NEW c \in Nat \ {0}, CallsDone(c), CallsWithWork(pip, c) # {},
         NEW k, k = Min(CallsWithWork(pip, c)), CallMade(k), parse_hvmd' = parse_hvmd
  PROVE  /\ VcpusInv' /\ GuestFlags' /\ CallsDone(k + 1)' /\ pip'.md = pip.md
         /\ \A g \in Guests : /\ GuestFlag(g)' = "Unconfig" => GuestFlag(g) = "Unconfig" /\ State(g)' = State(g)
                              /\ GuestFlag(g) # "Unconfig" /\ Has(g) => State(g)' = State(g)
                              /\ State(g)' \in {State(g), "STOPPED", "UNCONFIGURED"}
<1>0. k \in CallsWithWork(pip, c) /\ k \in 1 .. 30 /\ \A j \in CallsWithWork(pip, c) : k <= j
  BY NextCall
<1> DEFINE t == commit_reconfig[k][1]
           flag == commit_reconfig[k][2]
<1>g. ASSUME NEW g \in Guests
      PROVE  /\ flag \in Calls
             /\ t = "guest" /\ GuestFlag(g) = flag =>
                   /\ GuestFlag(g)' = "Noop"
                   /\ flag = "Unconfig" => State(g)' = "UNCONFIGURED"
                   /\ flag = "Config" => State(g)' = "STOPPED"
                   /\ flag = "Modify" => State(g)' = State(g)
             /\ ~(t = "guest" /\ GuestFlag(g) = flag) => GuestFlag(g)' = GuestFlag(g) /\ State(g)' = State(g)
  BY <1>0, CallGuest
<1>1. VcpusInv'
  <2>1. BackRefs(R')
    BY DEF PendInv, VcpusInv, CallMade
  <2>2. ASSUME NEW v \in Vcpus, pip'.flags["vcpu"][v] = "Config" PROVE R'.vcpu[v].status = "UNCONFIGURED"
    <3>1. "vcpu" \in TenTypes /\ Ids("vcpu") = Vcpus
      BY IdsOfType DEF TenTypes
    <3>2. pip'.flags["vcpu"][v] = IF "vcpu" = t /\ pip.flags["vcpu"][v] = flag THEN "Noop" ELSE pip.flags["vcpu"][v]
      BY <3>1 DEF CallMade
    <3>3. SameVcpu(R.vcpu[v], R'.vcpu[v]) /\ pip.flags["vcpu"][v] = "Config"
      BY <2>2, <3>2 DEF CallMade
    <3> QED BY <3>3 DEF SameVcpu, PendInv, VcpusInv
  <2> QED BY <2>1, <2>2 DEF VcpusInv
<1>2. GuestFlags'
  <2> SUFFICES ASSUME NEW g \in Guests
               PROVE  /\ GuestFlag(g)' = "Unconfig" => Has(g)' /\ ~Want(g)'
                      /\ GuestFlag(g)' = "Config" => ~Has(g)' /\ Want(g)'
                      /\ GuestFlag(g)' \in {"Noop", "Modify"} => Has(g)' = Want(g)'
    BY DEF GuestFlags
  <2>1. Want(g)' = Want(g)
    BY DEF Want
  <2>2. /\ GuestFlag(g) = "Unconfig" => Has(g) /\ ~Want(g)
        /\ GuestFlag(g) = "Config" => ~Has(g) /\ Want(g)
        /\ GuestFlag(g) \in {"Noop", "Modify"} => Has(g) = Want(g)
    BY DEF PendInv, GuestFlags
  <2> HIDE DEF t, flag
  <2>3. Has(g) = (State(g) # "UNCONFIGURED") /\ Has(g)' = (State(g)' # "UNCONFIGURED")
    BY DEF Has
  <2>4. flag \in {"Unconfig", "Config", "Modify"} /\ Want(g) \in BOOLEAN
    BY <1>g DEF Calls, Want
  <2> QED BY <1>g, <2>1, <2>2, <2>3, <2>4
<1>3. CallsDone(k + 1)'
  <2>1. ASSUME NEW g \in Guests, k + 1 > 10 PROVE GuestFlag(g)' # "Unconfig"
    <3>1. CASE k = 10
      <4>1. t = "guest" /\ flag = "Unconfig"
        BY <3>1, CallFacts
      <4> QED BY <1>g, <4>1
    <3>2. CASE k # 10
      <4>1. 10 \notin CallsWithWork(pip, c)
        BY <1>0, <2>1, <3>2
      <4> QED BY <1>g, <4>1, GuestWork
    <3> QED BY <3>1, <3>2
  <2>2. ASSUME NEW g \in Guests, k + 1 > 11 PROVE GuestFlag(g)' # "Config"
    <3>1. CASE k = 11
      <4>1. t = "guest" /\ flag = "Config"
        BY <3>1, CallFacts
      <4> QED BY <1>g, <4>1
    <3>2. CASE k # 11
      <4>1. 11 \notin CallsWithWork(pip, c)
        BY <1>0, <2>2, <3>2
      <4> QED BY <1>g, <4>1, GuestWork
    <3> QED BY <3>1, <3>2
  <2> QED BY <2>1, <2>2 DEF CallsDone
<1>4. ASSUME NEW g \in Guests
      PROVE  /\ GuestFlag(g)' = "Unconfig" => GuestFlag(g) = "Unconfig" /\ State(g)' = State(g)
             /\ GuestFlag(g) # "Unconfig" /\ Has(g) => State(g)' = State(g)
             /\ State(g)' \in {State(g), "STOPPED", "UNCONFIGURED"}
  <2> HIDE DEF t, flag
  <2>1. flag \in {"Unconfig", "Config", "Modify"} /\ (GuestFlag(g) = "Config" => ~Has(g))
    BY <1>g DEF Calls, PendInv, GuestFlags
  <2> QED BY <1>g, <2>1
<1>5. pip'.md = pip.md
  BY DEF CallMade
<1> QED BY <1>1, <1>2, <1>3, <1>4, <1>5


-----------------------------------------------------------------------------
(* The actions, one by one.                                                *)

LEMMA QuietSame == ASSUME R \in Tables, R' = R PROVE Quiet /\ \A g \in Guests : State(g)' = State(g)
  BY DEF Quiet, Rest, State

LEMMA QuietState ==
  ASSUME R \in Tables, NEW g \in Guests, Has(g), NEW state \in GuestStates \ {"UNCONFIGURED"},
         R' = [R EXCEPT !.guest[g].state = state]
  PROVE  Quiet /\ \A h \in Guests : State(h)' = IF h = g THEN state ELSE State(h)
<1>1. R' = WithState(R, g, state) /\ state \in GuestStates
  BY DEF WithState
<1>2. /\ Rest(R, R') /\ R'.vcpu = R.vcpu
      /\ \A h \in Guests : R'.guest[h].state = IF h = g THEN state ELSE R.guest[h].state
  <2>1. /\ Rest(R, WithState(R, g, state)) /\ WithState(R, g, state).vcpu = R.vcpu
        /\ \A h \in Guests : WithState(R, g, state).guest[h].state = IF h = g THEN state ELSE R.guest[h].state
    BY <1>1, SetState
  <2> QED BY <1>1, <2>1
<1> QED BY <1>2 DEF Quiet, Has, State

\* Both invariants that are proved above.
Sound == IInv /\ TypeInv

LEMMA Ignition ==
  ASSUME TypeInv, NEW g \in Guests, guest_ignition(g), NEW h \in Guests, h # g
  PROVE  sched'[h] = sched[h]
  BY DEF guest_ignition, TypeInv, RestTyped

LEMMA KickoffPend == ASSUME Sound, PendInv, kickoff_guests PROVE PendInv'
<1> DEFINE g == z.gid
<1>0. /\ R \in Tables /\ z.pc = "kickoff" /\ g \in Guests /\ TypeInv
      /\ UNCHANGED <<pip, active_hvmd, parse_hvmd, del_reconf_gid, del_reconf_lock, x, cmds>>
      /\ z' = Idle \/ z' = [z EXCEPT !.gid = @ + 1]
  BY DEF kickoff_guests, Sound, TypeInv, StrandsTyped, ControlInv
<1>z. z'.pc \in {"idle", "kickoff"} /\ (z'.pc = "kickoff" => z'.gid = g + 1)
  BY <1>0 DEF Idle, TypeInv, StrandsTyped, ControlStates
<1>r. \A h \in Guests : GuestRun(h)
  BY DEF PendInv, RunInv
<1>i. g \in Int /\ Guests \subseteq Int
  BY <1>0, GuestFacts
<1>1. CASE Has(g)
  <2>1. R' = [R EXCEPT !.guest[g].state = "RESETTING"] /\ guest_ignition(g) /\ told' = told \ {g}
    BY <1>1 DEF kickoff_guests, Has
  <2> HIDE DEF g
  <2>2. Quiet /\ \A h \in Guests : State(h)' = IF h = g THEN "RESETTING" ELSE State(h)
    BY <1>0, <1>1, <2>1, QuietState DEF GuestStates
  <2>3. QuietStep
    BY <1>0, <1>z, <2>2 DEF QuietStep
  <2>4. g \notin told' /\ \A h \in Guests \ {g} : (h \in told') = (h \in told)
    BY <2>1
  <2>5. ASSUME NEW h \in Guests PROVE GuestRun(h)'
    <3>1. CASE h = g
      <4>1. x[g].pc = "none" /\ g >= z.gid
        BY <1>0, <1>i, <1>r DEF GuestRun, g
      <4>2. ~(z'.pc = "kickoff" /\ g >= z'.gid) /\ z'.pc # "ignite"
        BY <1>i, <1>z
      <4>3. State(h)' = "RESETTING" /\ h \notin told' /\ x'[h].pc = "none"
        BY <1>0, <2>2, <2>4, <3>1, <4>1
      <4> QED BY <3>1, <4>2, <4>3 DEF GuestRun, Starting, Down
    <3>2. CASE h # g
      <4>1. sched'[h] = sched[h]
        BY <1>0, <2>1, <3>2, Ignition
      <4>2. z'.pc = "kickoff" => z.pc = "kickoff" /\ (h >= z'.gid => h >= z.gid)
        BY <1>0, <1>i, <1>z DEF g
      <4>3. State(h)' = State(h) /\ x'[h] = x[h] /\ (h \in told') = (h \in told) /\ z'.pc # "ignite"
        BY <1>0, <1>z, <2>2, <2>4, <3>2
      <4> QED BY <1>r, <4>1, <4>2, <4>3, SameRun
    <3> QED BY <3>1, <3>2
  <2>6. RunInv'
    BY <2>4, <2>5 DEF RunInv
  <2>7. AskedInv' /\ CommitTold'
    BY <1>z DEF AskedInv, CommitTold
  <2> QED BY <1>0, <2>3, <2>6, <2>7, QuietPend
<1>2. CASE ~Has(g)
  <2>1. UNCHANGED <<R, sched, told>>
    BY <1>2 DEF kickoff_guests, Has
  <2> HIDE DEF g
  <2>2. Quiet /\ \A h \in Guests : State(h)' = State(h)
    BY <1>0, <2>1, QuietSame
  <2>3. QuietStep
    BY <1>0, <1>z, <2>2 DEF QuietStep
  <2>5. ASSUME NEW h \in Guests PROVE GuestRun(h)'
    <3>2. z'.pc = "kickoff" => z.pc = "kickoff" /\ (h >= z'.gid => h >= z.gid)
      BY <1>0, <1>i, <1>z DEF g
    <3>3. State(h)' = State(h) /\ x'[h] = x[h] /\ (h \in told') = (h \in told) /\ sched'[h] = sched[h] /\ z'.pc # "ignite"
      BY <1>0, <1>z, <2>1, <2>2
    <3> QED BY <1>r, <3>2, <3>3, SameRun
  <2>6. RunInv'
    BY <1>r, <2>1, <2>5 DEF RunInv
  <2>7. AskedInv' /\ CommitTold'
    BY <1>z DEF AskedInv, CommitTold
  <2> QED BY <1>0, <2>3, <2>6, <2>7, QuietPend
<1> QED BY <1>1, <1>2

LEMMA ReconfigPend ==
  ASSUME Careful, Sound, PendInv, NEW i \in DOMAIN Hvmds, NEW gid \in Guests \cup {None}, op_reconfig(i, gid)
  PROVE  PendInv'
<1>0. /\ R \in Tables /\ z.pc = "idle" /\ MayAsk(i, gid)
      /\ UNCHANGED <<R, pip, active_hvmd, parse_hvmd, del_reconf_gid, del_reconf_lock, x, sched, told>>
      /\ z' = Idle \/ z' = [pc |-> "lock", md |-> i, gid |-> gid, call |-> 0]
  BY DEF op_reconfig, Send, Sound, TypeInv
<1>1. Quiet /\ \A h \in Guests : State(h)' = State(h)
  BY <1>0, QuietSame
<1>2. z'.pc \in {"idle", "lock"} /\ (z'.pc = "lock" => z'.md = i /\ z'.gid = gid)
  BY <1>0 DEF Idle
<1>3. QuietStep
  BY <1>0, <1>1, <1>2 DEF QuietStep
<1>4. RunInv'
  <2>1. ASSUME NEW h \in Guests PROVE GuestRun(h)'
    BY <1>0, <1>1, <1>2, SameRun DEF PendInv, RunInv
  <2> QED BY <1>0, <2>1 DEF PendInv, RunInv
<1>5. AskedInv'
  <2> SUFFICES ASSUME z'.pc = "lock"
               PROVE  /\ Removable(active_hvmd)'
                      /\ del_reconf_gid' # None => Removable(parse_hvmd)'
                      /\ z'.gid # None => Hvmds[z'.md].version \notin {"noroot", "content"}
    BY <1>2 DEF AskedInv
  <2> DEFINE needs == {g \in Guests : \E k \in KnownHvmds : NeedsStop(Hvmds[k], Hvmds[i], g)}
  <2>1. IF gid = None THEN needs \subseteq told
        ELSE needs \subseteq {gid} /\ gid \in DOMAIN Hvmds[i].guest /\ Hvmds[i].version \notin {"noroot", "content"}
    BY <1>0 DEF MayAsk
  <2>2. ASSUME NEW k \in KnownHvmds, NEW g \in Guests, g \in DOMAIN Hvmds[k].guest, g \notin DOMAIN Hvmds[i].guest
        PROVE  gid = None /\ g \in told
    <3>1. g \in needs
      BY <2>2 DEF NeedsStop
    <3> HIDE DEF needs
    <3> QED BY <2>1, <2>2, <3>1
  <2> HIDE DEF needs
  <2>3. active_hvmd \in KnownHvmds /\ (del_reconf_gid # None => parse_hvmd \in KnownHvmds)
    BY DEF KnownHvmds
  <2>4. z'.md = i /\ z'.gid = gid
    BY <1>2
  <2>5. Removable(active_hvmd)'
    BY <1>0, <2>2, <2>3, <2>4 DEF Removable
  <2>6. del_reconf_gid' # None => Removable(parse_hvmd)'
    BY <1>0, <2>2, <2>3, <2>4 DEF Removable
  <2> QED BY <2>1, <2>4, <2>5, <2>6
<1>6. CommitTold'
  BY <1>2 DEF CommitTold
<1> QED BY <1>0, <1>3, <1>4, <1>5, <1>6, QuietPend

\* Steps of the control strand that leave the tables alone.
LEMMA ControlPend ==
  ASSUME Sound, PendInv, UNCHANGED <<R, pip, active_hvmd, parse_hvmd, del_reconf_gid, x, sched, told>>,
         z.pc \notin {"postparse", "commit"}, z'.pc \in {"idle", "parse"},
         z'.pc = "parse" => z.pc = "lock" /\ z'.gid = z.gid /\ z'.md = z.md
  PROVE  PendInv'
<1>0. R \in Tables
  BY DEF Sound, TypeInv
<1>1. Quiet /\ \A h \in Guests : State(h)' = State(h)
  BY <1>0, QuietSame
<1>2. QuietStep
  BY <1>1 DEF QuietStep
<1>3. RunInv'
  <2>1. ASSUME NEW h \in Guests PROVE GuestRun(h)'
    BY <1>1, SameRun DEF PendInv, RunInv
  <2> QED BY <2>1 DEF PendInv, RunInv
<1>4. ToldKept
  BY DEF ToldKept
<1>5. AskedInv' /\ CommitTold'
  BY <1>2, <1>4, QuietAsked
<1> QED BY <1>0, <1>2, <1>3, <1>5, QuietPend

LEMMA LockPend == ASSUME Sound, PendInv, op_reconfig_lock PROVE PendInv'
<1>1. CASE z' = Idle
  BY <1>1, ControlPend DEF op_reconfig_lock, Idle
<1>2. CASE z' = [z EXCEPT !.pc = "parse"]
  <2>1. z.pc = "lock" /\ UNCHANGED <<R, pip, active_hvmd, parse_hvmd, del_reconf_gid, x, sched, told>>
    BY DEF op_reconfig_lock
  <2>2. z'.pc = "parse" /\ z'.gid = z.gid /\ z'.md = z.md
    BY <1>2 DEF Sound, TypeInv, StrandsTyped, ControlStates
  <2> QED BY <2>1, <2>2, ControlPend
<1> QED BY <1>1, <1>2 DEF op_reconfig_lock

LEMMA IgnitePend == ASSUME Sound, PendInv, op_guest_start_ignite PROVE PendInv'
<1> DEFINE g == z.gid
<1>0. /\ R \in Tables /\ z.pc = "ignite" /\ g \in Guests /\ TypeInv /\ guest_ignition(g) /\ z' = Idle
      /\ UNCHANGED <<R, pip, active_hvmd, parse_hvmd, del_reconf_gid, del_reconf_lock, x, told, cmds>>
  BY DEF op_guest_start_ignite, Sound, TypeInv, StrandsTyped, ControlInv
<1>z. z'.pc = "idle"
  BY <1>0 DEF Idle
<1>r. \A h \in Guests : GuestRun(h)
  BY DEF PendInv, RunInv
<1>1. Quiet /\ \A h \in Guests : State(h)' = State(h)
  BY <1>0, QuietSame
<1>2. QuietStep
  BY <1>0, <1>1, <1>z DEF QuietStep
<1>3. ASSUME NEW h \in Guests PROVE GuestRun(h)'
  <2>1. CASE h = g
    <3>1. State(g) = "RESETTING" /\ x[g].pc = "none" /\ g \notin told
      BY <1>0, <1>r DEF GuestRun, Starting
    <3>2. State(h)' = "RESETTING" /\ x'[h].pc = "none" /\ h \notin told'
      BY <1>0, <1>1, <2>1, <3>1
    <3> QED BY <1>z, <3>2 DEF GuestRun
  <2>2. CASE h # g
    <3>1. sched'[h] = sched[h]
      BY <1>0, <2>2, Ignition
    <3> QED BY <1>0, <1>1, <1>r, <1>z, <3>1, SameRun
  <2> QED BY <2>1, <2>2
<1>4. RunInv'
  BY <1>0, <1>r, <1>3 DEF RunInv
<1>5. AskedInv' /\ CommitTold'
  BY <1>z DEF AskedInv, CommitTold
<1> QED BY <1>0, <1>2, <1>4, <1>5, QuietPend

LEMMA StartPend == ASSUME Patient, Sound, PendInv, NEW g \in Guests, op_guest_start(g) PROVE PendInv'
<1>0. /\ R \in Tables /\ z.pc = "idle" /\ x[g].pc = "none" /\ State(g) = "STOPPED"
      /\ R' = [R EXCEPT !.guest[g].state = "RESETTING"]
      /\ z' = [pc |-> "ignite", md |-> None, gid |-> g, call |-> 0] /\ told' = told \ {g}
      /\ UNCHANGED <<pip, active_hvmd, parse_hvmd, del_reconf_gid, del_reconf_lock, x, sched>>
  BY DEF op_guest_start, MayStart, Send, Idle, Sound, TypeInv
<1>z. z'.pc = "ignite" /\ z'.gid = g
  BY <1>0
<1>r. \A h \in Guests : GuestRun(h)
  BY DEF PendInv, RunInv
<1>1. Quiet /\ \A h \in Guests : State(h)' = IF h = g THEN "RESETTING" ELSE State(h)
  BY <1>0, QuietState DEF Has, GuestStates
<1>2. QuietStep
  BY <1>0, <1>1, <1>z DEF QuietStep
<1>t. g \notin told' /\ \A h \in Guests \ {g} : (h \in told') = (h \in told)
  BY <1>0
<1>3. ASSUME NEW h \in Guests PROVE GuestRun(h)'
  <2>1. CASE h = g
    <3>1. sched[g] = None
      BY <1>0, <1>r DEF GuestRun, Starting
    <3>2. State(h)' = "RESETTING" /\ x'[h].pc = "none" /\ h \notin told' /\ sched'[h] = None
      BY <1>0, <1>1, <1>t, <2>1, <3>1
    <3> QED BY <1>z, <3>2 DEF GuestRun
  <2>2. CASE h # g
    <3>1. State(h)' = State(h) /\ x'[h] = x[h] /\ sched'[h] = sched[h] /\ (h \in told') = (h \in told)
      BY <1>0, <1>1, <1>t, <2>2
    <3> QED BY <1>r, <1>z, <2>2, <3>1, SameRun
  <2> QED BY <2>1, <2>2
<1>4. RunInv'
  BY <1>t, <1>3 DEF RunInv
<1>5. AskedInv' /\ CommitTold'
  BY <1>z DEF AskedInv, CommitTold
<1> QED BY <1>0, <1>2, <1>4, <1>5, QuietPend

\* A step of one guest, or of the strand that ends it.
LEMMA OneGuest ==
  ASSUME Sound, PendInv, NEW g \in Guests, Quiet,
         UNCHANGED <<pip, active_hvmd, parse_hvmd, del_reconf_gid, z>>,
         x[g].pc = "commit" => x'[g] = x[g],
         x'[g].pc = "commit" => x'[g] = x[g] \/ x'[g].call = 1,
         g \in told => g \in told',
         \A h \in Guests \ {g} : State(h)' = State(h) /\ x'[h] = x[h] /\ sched'[h] = sched[h] /\ (h \in told') = (h \in told),
         GuestRun(g)'
  PROVE  PendInv'
<1>0. R \in Tables
  BY DEF Sound, TypeInv
<1>1. QuietStep
  BY DEF QuietStep
<1>2. ASSUME NEW h \in Guests PROVE GuestRun(h)'
  <2>1. CASE h # g
    <3>1. GuestRun(h)
      BY DEF PendInv, RunInv
    <3> QED BY <2>1, <3>1, SameRun
  <2> QED BY <2>1
<1>3. RunInv'
  BY <1>2 DEF RunInv
<1>4. ToldKept
  BY DEF ToldKept
<1>5. AskedInv' /\ CommitTold'
  BY <1>1, <1>4, QuietAsked
<1> QED BY <1>0, <1>1, <1>3, <1>5, QuietPend

\* A step that changes the tables quietly and nothing else.
LEMMA TablesPend ==
  ASSUME Sound, PendInv, Quiet, \A g \in Guests : State(g)' = State(g),
         UNCHANGED <<pip, active_hvmd, parse_hvmd, del_reconf_gid, z, x, sched, told>>
  PROVE  PendInv'
<1>1. 0 \in Guests
  BY TablesAssumption DEF Guests
<1>2. GuestRun(0)
  BY <1>1 DEF PendInv, RunInv
<1>3. GuestRun(0)'
  BY <1>1, <1>2, SameRun
<1> QED BY <1>1, <1>2, <1>3, OneGuest

LEMMA LaunchPend == ASSUME Sound, PendInv, NEW g \in Guests, launch(g) PROVE PendInv'
<1>0. R \in Tables /\ sched \in [Guests -> Vcpus \cup {None}]
  BY DEF Sound, TypeInv, RestTyped
<1>v. PICK v \in Vcpus : v = sched[g]
  BY <1>0 DEF launch
<1>n. v # None
  BY <1>v DEF launch
<1>1. /\ sched' = [sched EXCEPT ![g] = None] /\ told' = told \ {g}
      /\ UNCHANGED <<pip, active_hvmd, parse_hvmd, del_reconf_gid, del_reconf_lock, z, x, cmds>>
  BY DEF launch
<1>2. /\ GuestRun(g) /\ Starting(g)
      /\ State(g) = "RESETTING" /\ x[g].pc = "none" /\ g \notin told /\ ~(z.pc = "ignite" /\ z.gid = g)
      /\ ~(z.pc = "kickoff" /\ g >= z.gid)
  BY <1>v, <1>n DEF PendInv, RunInv, GuestRun, Starting, Down
<1>3. Quiet /\ \A h \in Guests \ {g} : State(h)' = State(h)
  <2>1. CASE R' = ASSERT(R, FALSE, "launch")
    <3>1. "launch" \in Labels
      BY DEF Labels
    <3>2. Rest(R, R') /\ R'.guest = R.guest /\ R'.vcpu = R.vcpu
      BY <1>0, <2>1, <3>1, AssertRest
    <3> QED BY <3>2 DEF Quiet, State
  <2>2. CASE R' = [R EXCEPT !.vcpu[v].status = "RUNNING", !.guest[g].state = "NORMAL"] /\ R.vcpu[v].status = "STOPPED"
    <3>1. R' = Launched(R, g, v)
      BY <2>2 DEF Launched, WithState, WithStatus
    <3>a. Rest(R, Launched(R, g, v))
      BY <1>0, LaunchRest
    <3>b. \A h \in Guests : Launched(R, g, v).guest[h].state = IF h = g THEN "NORMAL" ELSE R.guest[h].state
      BY <1>0, LaunchRest
    <3>c. \A w \in Vcpus : Launched(R, g, v).vcpu[w].status = IF w = v THEN "RUNNING" ELSE R.vcpu[w].status
      BY <1>0, LaunchRest
    <3>3. /\ Rest(R, R')
          /\ \A h \in Guests : R'.guest[h].state = IF h = g THEN "NORMAL" ELSE R.guest[h].state
          /\ \A w \in Vcpus : R'.vcpu[w].status = IF w = v THEN "RUNNING" ELSE R.vcpu[w].status
      BY <3>1, <3>a, <3>b, <3>c
    <3> QED BY <1>2, <2>2, <3>3 DEF Quiet, State
  <2> QED BY <1>v, <2>1, <2>2 DEF launch
<1>4. /\ g \notin told' /\ sched'[g] = None
      /\ \A h \in Guests \ {g} : sched'[h] = sched[h] /\ (h \in told') = (h \in told)
  BY <1>0, <1>1
<1>5. GuestRun(g)'
  BY <1>1, <1>2, <1>4 DEF GuestRun, Starting, Down
<1> QED BY <1>1, <1>2, <1>3, <1>4, <1>5, OneGuest

LEMMA CpuStartPend ==
  ASSUME Sound, PendInv, NEW g \in Guests, NEW v \in Vcpus, hcall_cpu_start(g, v) PROVE PendInv'
<1>0. R \in Tables /\ "RUNNING" \in VcpuStates /\ R.vcpu[v].status = "STOPPED" /\ R' = WithStatus(R, v, "RUNNING")
  BY DEF Sound, TypeInv, VcpuStates, hcall_cpu_start, WithStatus
<1>1. /\ Rest(R, WithStatus(R, v, "RUNNING")) /\ WithStatus(R, v, "RUNNING").guest = R.guest
      /\ \A w \in Vcpus : WithStatus(R, v, "RUNNING").vcpu[w].status = IF w = v THEN "RUNNING" ELSE R.vcpu[w].status
  BY <1>0, SetStatus
<1>2. /\ Rest(R, R') /\ R'.guest = R.guest
      /\ \A w \in Vcpus : R'.vcpu[w].status = IF w = v THEN "RUNNING" ELSE R.vcpu[w].status
  BY <1>0, <1>1
<1>3. Quiet /\ \A h \in Guests : State(h)' = State(h)
  BY <1>0, <1>2 DEF Quiet, State
<1> QED BY <1>3, TablesPend DEF hcall_cpu_start

LEMMA BeginExitPend ==
  ASSUME Sound, PendInv, NEW g \in Guests, NEW sir \in BOOLEAN, BeginExit(g, sir),
         UNCHANGED <<pip, active_hvmd, parse_hvmd, del_reconf_gid, del_reconf_lock, z, sched, told>>
  PROVE  PendInv'
<1> DEFINE state == IF sir THEN "RESETTING" ELSE "EXITING"
<1>0. /\ R \in Tables /\ State(g) = "NORMAL" /\ x[g].pc = "none" /\ R' = [R EXCEPT !.guest[g].state = state]
      /\ x' = [x EXCEPT ![g] = [pc |-> "stop", sir |-> sir, call |-> 0]] /\ x \in [Guests -> ExitStates]
  BY DEF Sound, TypeInv, StrandsTyped, BeginExit
<1>1. state \in GuestStates \ {"UNCONFIGURED"} /\ Has(g)
  BY <1>0 DEF GuestStates, Has
<1>s. state = IF sir THEN "RESETTING" ELSE "EXITING"
  OBVIOUS
<1> HIDE DEF state
<1>2. Quiet /\ \A h \in Guests : State(h)' = IF h = g THEN state ELSE State(h)
  BY <1>0, <1>1, QuietState
<1>3. x'[g].pc = "stop" /\ x'[g].sir = sir /\ \A h \in Guests \ {g} : x'[h] = x[h]
  BY <1>0
<1>4. /\ ~Starting(g) /\ x[g].pc = "none" /\ g \notin told
      /\ ~(z.pc = "kickoff" /\ g >= z.gid) /\ ~(z.pc = "ignite" /\ z.gid = g)
  BY <1>0 DEF PendInv, RunInv, GuestRun, Starting, Down
<1>5. GuestRun(g)'
  BY <1>2, <1>3, <1>4, <1>s DEF GuestRun, Starting, ExitState
<1> QED BY <1>2, <1>3, <1>4, <1>5, OneGuest

\* The steps of an exit that do not commit.
LEMMA ExitPend ==
  ASSUME Sound, PendInv, NEW g \in Guests, ExitStep(g), x[g].pc # "commit" PROVE PendInv'
<1>0. /\ R \in Tables /\ x \in [Guests -> ExitStates] /\ x[g] \in ExitStates
      /\ sched \in [Guests -> Vcpus \cup {None}] /\ GuestRun(g)
  BY DEF Sound, TypeInv, StrandsTyped, RestTyped, PendInv, RunInv
<1>r. x[g].pc # "none" => /\ ~Starting(g) /\ State(g) \in ExitState(g)
                          /\ ~(z.pc = "kickoff" /\ g >= z.gid) /\ ~(z.pc = "ignite" /\ z.gid = g)
                          /\ (x[g].sir => x[g].pc # "mark") /\ (g \in told => State(g) \in Down)
  BY <1>0 DEF GuestRun, Starting
<1>1. CASE c_guest_exit_stop(g)
  <2>0. /\ x[g].pc = "stop" /\ R' = WithStopped(R, VcpusOf(g))
        /\ UNCHANGED <<pip, active_hvmd, parse_hvmd, del_reconf_gid, z, sched, told>>
    BY <1>1 DEF c_guest_exit_stop, Stoppable, WithStopped
  <2>1. /\ Rest(R, R') /\ R'.guest = R.guest
        /\ \A v \in Vcpus : R'.vcpu[v].status = IF v \in VcpusOf(g) /\ R.vcpu[v].status # "ERROR"
                                                THEN "STOPPED" ELSE R.vcpu[v].status
    BY <1>0, <2>0, StopVcpus
  <2>2. ASSUME NEW v \in VcpusOf(g) PROVE R.vcpu[v].status # "UNCONFIGURED"
    BY DEF VcpusOf, PendInv, VcpusInv, BackRefs
  <2>3. Quiet /\ \A h \in Guests : State(h)' = State(h)
    BY <2>1, <2>2 DEF Quiet, State
  <2>4. /\ x'[g].pc = (IF x[g].sir THEN "lock" ELSE "mark") /\ x'[g].sir = x[g].sir
        /\ \A h \in Guests \ {g} : x'[h] = x[h]
    BY <1>0, <1>1 DEF c_guest_exit_stop, ExitStates
  <2>5. GuestRun(g)'
    BY <1>r, <2>0, <2>3, <2>4 DEF GuestRun, Starting, ExitState
  <2> QED BY <1>0, <2>0, <2>3, <2>4, <2>5, OneGuest
<1>2. CASE c_guest_exit_mark(g)
  <2>0. /\ x[g].pc = "mark" /\ R' = [R EXCEPT !.guest[g].state = "STOPPED"]
        /\ UNCHANGED <<pip, active_hvmd, parse_hvmd, del_reconf_gid, z, sched, told>>
    BY <1>2 DEF c_guest_exit_mark
  <2>1. State(g) = "EXITING" /\ ~x[g].sir
    BY <1>r, <2>0 DEF ExitState
  <2>2. Quiet /\ \A h \in Guests : State(h)' = IF h = g THEN "STOPPED" ELSE State(h)
    BY <1>0, <2>0, <2>1, QuietState DEF Has, GuestStates
  <2>3. x'[g].pc = "lock" /\ x'[g].sir = x[g].sir /\ \A h \in Guests \ {g} : x'[h] = x[h]
    BY <1>0, <1>2 DEF c_guest_exit_mark, ExitStates
  <2>4. GuestRun(g)'
    BY <1>r, <2>0, <2>1, <2>2, <2>3 DEF GuestRun, Starting, ExitState, Down
  <2> QED BY <1>0, <2>0, <2>2, <2>3, <2>4, OneGuest
<1>3. CASE c_guest_exit_lock(g)
  <2>0. /\ x[g].pc = "lock" /\ R' = R
        /\ UNCHANGED <<pip, active_hvmd, parse_hvmd, del_reconf_gid, z, sched, told>>
    BY <1>3 DEF c_guest_exit_lock
  <2>1. Quiet /\ \A h \in Guests : State(h)' = State(h)
    BY <1>0, <2>0, QuietSame
  <2>2. x' = [x EXCEPT ![g].pc = "commit", ![g].call = 1] \/ x' = [x EXCEPT ![g].pc = "notify"]
    BY <1>3 DEF c_guest_exit_lock
  <2>3. /\ x'[g].pc \in {"commit", "notify"} /\ (x'[g].pc = "commit" => x'[g].call = 1) /\ x'[g].sir = x[g].sir
        /\ \A h \in Guests \ {g} : x'[h] = x[h]
    BY <1>0, <2>2 DEF ExitStates
  <2>4. GuestRun(g)'
    BY <1>r, <2>0, <2>1, <2>3 DEF GuestRun, Starting, ExitState
  <2> QED BY <1>0, <2>0, <2>1, <2>3, <2>4, OneGuest
<1>4. CASE c_guest_exit_notify(g)
  <2>0. /\ x[g].pc = "notify" /\ R' = R /\ x' = [x EXCEPT ![g] = NoExit]
        /\ UNCHANGED <<pip, active_hvmd, parse_hvmd, del_reconf_gid, z>>
        /\ told' = told \/ told' = Told(g)
    BY <1>4 DEF c_guest_exit_notify
  <2>1. Quiet /\ \A h \in Guests : State(h)' = State(h)
    BY <1>0, <2>0, QuietSame
  <2>2. x'[g].pc = "none" /\ \A h \in Guests \ {g} : x'[h] = x[h]
    BY <1>0, <2>0 DEF NoExit
  <2>3. IF x[g].sir THEN State(g) = "RESETTING" ELSE State(g) \in Down
    BY <1>r, <2>0 DEF ExitState
  <2>4. /\ g \in told' => State(g) \in Down
        /\ g \in told => g \in told'
        /\ \A h \in Guests \ {g} : (h \in told') = (h \in told)
    BY <1>r, <2>0 DEF Told
  <2>5. /\ \A h \in Guests \ {g} : sched'[h] = sched[h]
        /\ ~x[g].sir => sched' = sched
    <3>1. CASE x[g].sir
      <4>1. guest_ignition(g)
        BY <1>4, <3>1 DEF c_guest_exit_notify
      <4> QED BY <3>1, <4>1, Ignition DEF Sound
    <3>2. CASE ~x[g].sir
      BY <1>4, <3>2 DEF c_guest_exit_notify
    <3> QED BY <3>1, <3>2
  <2>6. GuestRun(g)'
    <3>1. z' = z /\ ~(z.pc = "ignite" /\ z.gid = g) /\ ~(z.pc = "kickoff" /\ g >= z.gid) /\ sched[g] = None
      BY <1>r, <2>0 DEF Starting
    <3>2. State(g)' = State(g)
      BY <2>1
    <3>3. CASE x[g].sir
      <4>1. State(g) = "RESETTING" /\ g \notin told'
        BY <2>3, <2>4, <3>3 DEF Down
      <4> QED BY <2>2, <3>1, <3>2, <4>1 DEF GuestRun, Starting
    <3>4. CASE ~x[g].sir
      <4>1. sched'[g] = None
        BY <2>5, <3>1, <3>4
      <4> QED BY <2>2, <2>4, <3>1, <3>2, <4>1 DEF GuestRun, Starting
    <3> QED BY <3>3, <3>4
  <2> QED BY <1>0, <2>0, <2>1, <2>2, <2>4, <2>5, <2>6, OneGuest
<1> QED BY <1>1, <1>2, <1>3, <1>4 DEF ExitStep, c_guest_exit_commit


LEMMA CancelPend == ASSUME Sound, PendInv, op_cancel_reconfig PROVE PendInv'
<1>1. /\ R \in Tables /\ z.pc = "idle" /\ z' = z /\ pip' = NoPip /\ del_reconf_gid' = None /\ del_reconf_lock = None
      /\ UNCHANGED <<R, active_hvmd, x, sched, told>>
  BY DEF op_cancel_reconfig, Send, Sound, TypeInv
<1>2. NoExitCommits
  BY <1>1, GuestFacts DEF Sound, IInv, LockInv, NoExitCommits
<1>3. Quiet /\ \A g \in Guests : State(g)' = State(g)
  BY <1>1, QuietSame
<1> QED BY <1>1, <1>2, <1>3, DroppedInv

\* A parse that fails drops what was pending.
LEMMA FailPend ==
  ASSUME Sound, PendInv, Quiet, \A g \in Guests : State(g)' = State(g), z.pc \in {"parse", "postparse"},
         pip' = NoPip \/ pip' = pip, z' = Idle, del_reconf_gid' = None, UNCHANGED <<active_hvmd, x, sched, told>>
  PROVE  PendInv'
<1>1. NoExitCommits
  BY GuestFacts DEF Sound, IInv, LockInv, NoExitCommits
<1>2. R \in Tables /\ z'.pc = "idle"
  BY DEF Sound, TypeInv, Idle
<1> QED BY <1>1, <1>2, DroppedInv

LEMMA FailGid == ASSUME Sound, Fail, z.pc \in {"parse", "postparse"} PROVE del_reconf_gid' = None
  BY DEF Sound, IInv, LockInv, Fail

\* What the parse of a description elects for the guests and vcpus.
LEMMA ParsedFlags ==
  ASSUME NEW r, NEW md
  PROVE  /\ \A g \in Guests :
              res_parse_flags(r, md)["guest"][g] =
                IF g \notin DOMAIN md.guest
                THEN (IF r.guest[g].state # "UNCONFIGURED" THEN "Unconfig" ELSE "Noop")
                ELSE IF r.guest[g].state = "UNCONFIGURED" THEN "Config"
                ELSE IF ~res_guest_same(r, md, g) THEN "Modify" ELSE "Noop"
         /\ \A v \in Vcpus :
              res_parse_flags(r, md)["vcpu"][v] = "Config" => r.vcpu[v].status = "UNCONFIGURED"
<1>1. "guest" \in Types /\ Ids("guest") = Guests /\ "vcpu" \in Types /\ Ids("vcpu") = Vcpus
  BY IdsOfType, TypesAre DEF TenTypes
<1>2. \A g \in Guests : Configured(r, "guest", g) = (r.guest[g].state # "UNCONFIGURED")
  BY DEF Configured
<1>3. \A g \in Guests : Modified(r, md, "guest", g) = ~res_guest_same(r, md, g)
  BY DEF Modified
<1>4. \A v \in Vcpus : Configured(r, "vcpu", v) = (r.vcpu[v].status # "UNCONFIGURED")
  BY DEF Configured
<1>5. ASSUME NEW t \in Types, NEW id \in Ids(t)
      PROVE  res_parse_flags(r, md)[t][id] =
                IF id \notin DOMAIN md[t] THEN (IF Configured(r, t, id) THEN "Unconfig" ELSE "Noop")
                ELSE IF ~Configured(r, t, id) THEN "Config"
                ELSE IF Modified(r, md, t, id) THEN "Modify" ELSE "Noop"
  BY DEF res_parse_flags, res_prep
<1>6. ASSUME NEW g \in Guests
      PROVE  res_parse_flags(r, md)["guest"][g] =
                IF g \notin DOMAIN md["guest"] THEN (IF Configured(r, "guest", g) THEN "Unconfig" ELSE "Noop")
                ELSE IF ~Configured(r, "guest", g) THEN "Config"
                ELSE IF Modified(r, md, "guest", g) THEN "Modify" ELSE "Noop"
  BY <1>1, <1>5
<1>7. ASSUME NEW v \in Vcpus, res_parse_flags(r, md)["vcpu"][v] = "Config" PROVE ~Configured(r, "vcpu", v)
  BY <1>1, <1>5, <1>7
<1>8. ASSUME NEW g \in Guests
      PROVE  res_parse_flags(r, md)["guest"][g] =
                IF g \notin DOMAIN md.guest
                THEN (IF r.guest[g].state # "UNCONFIGURED" THEN "Unconfig" ELSE "Noop")
                ELSE IF r.guest[g].state = "UNCONFIGURED" THEN "Config"
                ELSE IF ~res_guest_same(r, md, g) THEN "Modify" ELSE "Noop"
  <2>1. md["guest"] = md.guest
    OBVIOUS
  <2> QED BY <1>2, <1>3, <1>6, <2>1
<1> QED BY <1>4, <1>7, <1>8

LEMMA ParsePend == ASSUME Sound, PendInv, op_reconfig_parse PROVE PendInv'
<1> DEFINE md == Hvmds[z.md]
<1>0. /\ z.pc = "parse" /\ z.md \in DOMAIN Hvmds /\ parse_hvmd' = z.md /\ WellFormed(Hvmds[z.md])
      /\ UNCHANGED <<active_hvmd, x, sched, told>> /\ R \in Tables
  BY ReconfAssumption DEF op_reconfig_parse, Sound, TypeInv, StrandsTyped, ControlInv
<1>1. Quiet /\ \A g \in Guests : State(g)' = State(g)
  <2>1. CASE R' = R
    BY <1>0, <2>1, QuietSame
  <2>2. CASE R' = res_guest_parse(R, Hvmds[z.md])
    <3>1. /\ Rest(R, res_guest_parse(R, Hvmds[z.md]))
          /\ res_guest_parse(R, Hvmds[z.md]).vcpu = R.vcpu
          /\ \A g \in Guests : res_guest_parse(R, Hvmds[z.md]).guest[g].state = R.guest[g].state
      BY <1>0, ParseRest
    <3>2. Rest(R, R') /\ R'.vcpu = R.vcpu /\ \A g \in Guests : R'.guest[g].state = R.guest[g].state
      BY <2>2, <3>1
    <3> QED BY <3>2 DEF Quiet, State
  <2> QED BY <2>1, <2>2 DEF op_reconfig_parse
<1>2. CASE Fail
  <2>1. z' = Idle /\ pip' = NoPip /\ del_reconf_gid' = None
    BY <1>0, <1>2, FailGid DEF Fail
  <2> QED BY <1>0, <1>1, <2>1, FailPend
<1>3. CASE /\ Hvmds[z.md].version \in {"noroot", "content"} /\ z' = Idle /\ UNCHANGED <<pip, del_reconf_gid>>
  <2>1. z.gid = None
    BY <1>0, <1>3 DEF PendInv, AskedInv
  <2>2. del_reconf_gid' = None
    BY <1>0, <1>3, <2>1 DEF Sound, IInv, LockInv
  <2> QED BY <1>0, <1>1, <1>3, <2>2, FailPend
<1>4. CASE /\ pip' = [flags |-> res_parse_flags(R, Hvmds[z.md]), md |-> z.md]
           /\ z' = [z EXCEPT !.pc = "postparse"] /\ UNCHANGED <<del_reconf_gid, del_reconf_lock>>
  <2>0. NoExitCommits
    BY <1>0, GuestFacts DEF Sound, IInv, LockInv, NoExitCommits
  <2>1. /\ z'.pc = "postparse" /\ z'.md = z.md /\ z'.gid = z.gid
        /\ pip'.md = z.md /\ pip'.flags = res_parse_flags(R, Hvmds[z.md])
    BY <1>4 DEF Sound, TypeInv, StrandsTyped, ControlStates
  <2>2. VcpusInv'
    <3>1. BackRefs(R')
      BY <1>0, <1>1, QuietBackRefs DEF PendInv, VcpusInv
    <3>2. ASSUME NEW v \in Vcpus, pip'.flags["vcpu"][v] = "Config" PROVE R'.vcpu[v].status = "UNCONFIGURED"
      <4>1. R.vcpu[v].status = "UNCONFIGURED"
        BY <2>1, <3>2, ParsedFlags
      <4> QED BY <1>1, <4>1 DEF Quiet
    <3> QED BY <3>1, <3>2 DEF VcpusInv
  <2>3. PipMd'
    BY <1>0, <2>1 DEF PipMd
  <2>4. GuestFlags'
    <3> SUFFICES ASSUME NEW g \in Guests
                 PROVE  /\ GuestFlag(g)' = "Unconfig" => Has(g)' /\ ~Want(g)'
                        /\ GuestFlag(g)' = "Config" => ~Has(g)' /\ Want(g)'
                        /\ GuestFlag(g)' \in {"Noop", "Modify"} => Has(g)' = Want(g)'
      BY DEF GuestFlags
    <3>1. GuestFlag(g)' =
                IF g \notin DOMAIN md.guest
                THEN (IF R.guest[g].state # "UNCONFIGURED" THEN "Unconfig" ELSE "Noop")
                ELSE IF R.guest[g].state = "UNCONFIGURED" THEN "Config"
                ELSE IF ~res_guest_same(R, md, g) THEN "Modify" ELSE "Noop"
      <4>1. GuestFlag(g)' = res_parse_flags(R, md)["guest"][g]
        BY <2>1 DEF GuestFlag
      <4> HIDE DEF md
      <4> QED BY <4>1, ParsedFlags
    <3>2. Has(g)' = (R.guest[g].state # "UNCONFIGURED")
      BY <1>1 DEF Has, State
    <3>3. Want(g)' <=> g \in DOMAIN md.guest
      BY <1>0 DEF Want
    <3> HIDE DEF md
    <3>4. CASE g \in DOMAIN md.guest
      BY <3>1, <3>2, <3>3, <3>4
    <3>5. CASE g \notin DOMAIN md.guest
      <4>1. ~Want(g)'
        BY <3>3, <3>5
      <4>2. CASE R.guest[g].state = "UNCONFIGURED"
        <5>1. ~Has(g)' /\ GuestFlag(g)' = "Noop"
          BY <3>1, <3>2, <3>5, <4>2
        <5> QED BY <4>1, <5>1 DEF Has, Want
      <4>3. CASE R.guest[g].state # "UNCONFIGURED"
        <5>1. Has(g)' /\ GuestFlag(g)' = "Unconfig"
          BY <3>1, <3>2, <3>5, <4>3
        <5> QED BY <4>1, <5>1
      <4> QED BY <4>2, <4>3
    <3> QED BY <3>4, <3>5
  <2>5. Present'
    BY <1>0, <1>1, <2>0, QuietHas DEF PendInv, Present
  <2>6. CallsInv' /\ PendingRemoves' /\ CommitTold'
    BY <1>0, <2>0, <2>1 DEF CallsInv, PendingRemoves, CommitTold, NoExitCommits
  <2>7. Fresh'
    <3>1. res_parse_flags(R', Hvmds[z.md]) = res_parse_flags(R, Hvmds[z.md])
      BY <1>1, SameFlags DEF Quiet
    <3> QED BY <1>0, <2>1, <3>1 DEF Fresh
  <2>8. RunInv'
    <3>1. ASSUME NEW h \in Guests PROVE GuestRun(h)'
      BY <1>0, <1>1, <2>1, SameRun DEF PendInv, RunInv
    <3> QED BY <1>0, <3>1 DEF PendInv, RunInv
  <2>9. AskedInv'
    <3>1. Removable(active_hvmd) /\ (z.gid # None => Hvmds[z.md].version \notin {"noroot", "content"})
      BY <1>0 DEF PendInv, AskedInv
    <3>2. Removable(active_hvmd)'
      BY <1>0, <2>1, <3>1 DEF Removable
    <3>3. Removable(parse_hvmd)'
      BY <1>0, <2>1 DEF Removable
    <3> QED BY <2>1, <3>1, <3>2, <3>3 DEF AskedInv
  <2> QED BY <2>2, <2>3, <2>4, <2>5, <2>6, <2>7, <2>8, <2>9 DEF PendInv
<1> QED BY <1>2, <1>3, <1>4 DEF op_reconfig_parse

LEMMA PostparsePend == ASSUME Sound, PendInv, op_reconfig_postparse PROVE PendInv'
<1>0. z.pc = "postparse" /\ UNCHANGED <<R, active_hvmd, parse_hvmd, x, sched, told>> /\ R \in Tables
  BY DEF op_reconfig_postparse, Sound, TypeInv
<1>1. Quiet /\ \A g \in Guests : State(g)' = State(g)
  BY <1>0, QuietSame
<1>2. NoExitCommits
  BY <1>0, GuestFacts DEF Sound, IInv, LockInv, NoExitCommits
<1>u. ASSUME NEW g \in Guests, GuestFlag(g) = "Unconfig" PROVE z.gid = None /\ g \in told
  <2>1. Has(g) /\ ~Want(g)
    BY <1>0, <1>u DEF PendInv, GuestFlags, Live
  <2>2. g \in DOMAIN Hvmds[active_hvmd].guest
    BY <1>0, <1>2, <2>1 DEF PendInv, Present
  <2>3. g \notin DOMAIN Hvmds[z.md].guest
    BY <1>0, <2>1 DEF PendInv, PipMd, Want
  <2> QED BY <1>0, <2>2, <2>3 DEF PendInv, AskedInv, Removable
<1>3. CASE Fail
  <2>1. z' = Idle /\ pip' = NoPip /\ del_reconf_gid' = None
    BY <1>0, <1>3, FailGid DEF Fail
  <2> QED BY <1>0, <1>1, <2>1, FailPend
<1>4. ASSUME pip' = pip, z'.pc \in {"idle", "commit"}, z'.pc = "commit" => del_reconf_gid' = None /\ z'.call = 1,
             z'.pc = "idle" => z.gid # None
      PROVE  PendInv'
  <2>1. VcpusInv'
    BY <1>0, <1>1, <1>4, QuietVcpus DEF PendInv
  <2>2. PipMd'
    BY <1>0, <1>4 DEF PendInv, PipMd, Live
  <2>3. GuestFlags'
    <3>1. \A g \in Guests : Has(g)' = Has(g) /\ Want(g)' = Want(g) /\ GuestFlag(g)' = GuestFlag(g)
      BY <1>0, <1>1, <1>4, QuietHas DEF Want, GuestFlag
    <3> QED BY <1>0, <3>1 DEF PendInv, GuestFlags, Live
  <2>4. Present'
    BY <1>0, <1>1, <1>2, QuietHas DEF PendInv, Present
  <2>5. CallsInv'
    BY <1>0, <1>2, <1>4 DEF CallsInv, CallsDone, NoExitCommits
  <2>6. PendingRemoves'
    BY <1>4, <1>u DEF PendingRemoves, GuestFlag
  <2>7. Fresh'
    BY <1>0, <1>2, <1>4 DEF PendInv, Fresh
  <2>8. RunInv'
    <3>1. ASSUME NEW h \in Guests PROVE GuestRun(h)'
      BY <1>0, <1>1, <1>4, SameRun DEF PendInv, RunInv
    <3> QED BY <1>0, <3>1 DEF PendInv, RunInv
  <2>9. AskedInv' /\ CommitTold'
    BY <1>0, <1>4, <1>u DEF AskedInv, CommitTold, GuestFlag
  <2> QED BY <2>1, <2>2, <2>3, <2>4, <2>5, <2>6, <2>7, <2>8, <2>9 DEF PendInv
<1>5. CASE z.gid # None /\ del_reconf_gid' = z.gid /\ z' = Idle /\ pip' = pip
  BY <1>4, <1>5 DEF Idle
<1>6. CASE z.gid = None /\ z' = [z EXCEPT !.pc = "commit", !.call = 1] /\ UNCHANGED <<pip, del_reconf_gid>>
  <2>1. z'.pc = "commit" /\ z'.call = 1 /\ del_reconf_gid' = None
    BY <1>0, <1>6 DEF Sound, TypeInv, StrandsTyped, ControlStates, IInv, LockInv
  <2> QED BY <1>4, <1>6, <2>1
<1> QED BY <1>3, <1>5, <1>6 DEF op_reconfig_postparse

\* A commit that is at its end made the guests what the description wants.
LEMMA CommitEnd ==
  ASSUME TypeInv, PendInv, Live, NEW c \in Nat \ {0}, CallsDone(c), CallsWithWork(pip, c) = {}
  PROVE  \A g \in Guests : Has(g) = Want(g)
<1> SUFFICES ASSUME NEW g \in Guests PROVE Has(g) = Want(g)
  OBVIOUS
<1>1. GuestFlag(g) # "Unconfig" /\ GuestFlag(g) # "Config"
  BY GuestWork
<1>2. GuestFlag(g) \in Flags
  <2>1. "guest" \in TenTypes /\ Ids("guest") = Guests
    BY IdsOfType DEF TenTypes
  <2>2. pip.flags["guest"] \in [Guests -> Flags]
    BY <2>1 DEF TypeInv, PipTyped, PipType, FlagTables
  <2> QED BY <2>2 DEF GuestFlag
<1> QED BY <1>1, <1>2 DEF PendInv, GuestFlags, Flags

LEMMA AcceptInvs ==
  ASSUME TypeInv, PendInv, R' = R, accept_hvmd, parse_hvmd' = parse_hvmd, \A g \in Guests : Has(g) = Want(g),
         del_reconf_gid' = None, z'.pc \notin {"postparse", "commit"}, NoExitCommits'
  PROVE  VcpusInv' /\ PipMd' /\ GuestFlags' /\ Present' /\ CallsInv' /\ PendingRemoves' /\ Fresh' /\ CommitTold'
<1>1. VcpusInv'
  <2>1. "vcpu" \in TenTypes /\ Ids("vcpu") = Vcpus
    BY IdsOfType DEF TenTypes
  <2>2. \A v \in Vcpus : pip'.flags["vcpu"][v] = "Noop"
    BY <2>1, NoPipType DEF accept_hvmd, NothingElected
  <2> QED BY <2>2 DEF PendInv, VcpusInv
<1>2. ~Live'
  BY DEF Live
<1>3. PipMd' /\ GuestFlags' /\ PendingRemoves' /\ Fresh' /\ CommitTold' /\ CallsInv'
  BY <1>2 DEF PipMd, GuestFlags, PendingRemoves, Fresh, CommitTold, CallsInv, NoExitCommits
<1>4. Present'
  <2>1. \A g \in Guests : Has(g)' = Has(g)
    BY DEF Has, State
  <2> QED BY <2>1 DEF Present, Want, accept_hvmd
<1> QED BY <1>1, <1>3, <1>4

\* A guest that a commit adds or removes is down before and after, also when
\* the end of its exit is still under way.
LEMMA CommitRun ==
  ASSUME NEW h \in Guests, GuestRun(h), h \in told \/ ~Has(h), State(h)' \in Down,
         x'[h] = x[h], sched'[h] = sched[h], (h \in told') = (h \in told),
         z'.pc \in {"ignite", "kickoff"} => z' = z
  PROVE  GuestRun(h)'
<1>1. State(h) \in Down /\ ~Starting(h) /\ (x[h].pc # "none" => ExitState(h) = Down)
  BY DEF GuestRun, ExitState, Has, Down
<1>2. ~Starting(h)' /\ (x'[h].pc # "none" => ExitState(h)' = Down)
  BY <1>1 DEF Starting, ExitState
<1>3. z'.pc = "kickoff" => z.pc = "kickoff" /\ (h >= z'.gid => h >= z.gid)
  OBVIOUS
<1> QED BY <1>1, <1>2, <1>3 DEF GuestRun, Starting

LEMMA ControlCommitPend == ASSUME Sound, PendInv, op_reconfig_commit PROVE PendInv'
<1>0. /\ z.pc = "commit" /\ UNCHANGED <<parse_hvmd, del_reconf_gid, x, sched>>
      /\ z.call \in Nat \ {0} /\ TypeInv /\ R \in Tables
  BY CallFacts DEF op_reconfig_commit, Sound, TypeInv, StrandsTyped, ControlInv, ControlStates
<1>1. del_reconf_gid = None /\ NoExitCommits /\ CallsDone(z.call) /\ Live
  BY <1>0, GuestFacts DEF Sound, IInv, LockInv, NoExitCommits, PendInv, CallsInv, Live
<1>r. \A h \in Guests : GuestRun(h)
  BY DEF PendInv, RunInv
<1>2. CASE CallsWithWork(pip, z.call) = {}
  <2>1. accept_hvmd /\ z' = Idle /\ told' = Learn /\ R' = R
    BY <1>2 DEF op_reconfig_commit
  <2>2. z'.pc = "idle" /\ NoExitCommits' /\ \A h \in Guests : State(h)' = State(h)
    BY <1>0, <1>1, <2>1 DEF Idle, NoExitCommits, State
  <2>3. \A g \in Guests : Has(g) = Want(g)
    BY <1>0, <1>1, <1>2, CommitEnd
  <2>4. /\ VcpusInv' /\ PipMd' /\ GuestFlags' /\ Present' /\ CallsInv' /\ PendingRemoves' /\ Fresh' /\ CommitTold'
    BY <1>0, <1>1, <2>1, <2>2, <2>3, AcceptInvs
  <2>5. AskedInv'
    BY <2>2 DEF AskedInv
  <2>6. \A h \in Guests : (h \in told') <=> (h \in told \/ State(h) = "UNCONFIGURED")
    BY <2>1 DEF Learn
  <2>7. ASSUME NEW h \in Guests PROVE GuestRun(h)'
    <3>1. CASE h \in told \/ State(h) # "UNCONFIGURED"
      <4>1. (h \in told') = (h \in told)
        BY <2>6, <3>1
      <4> QED BY <1>0, <1>r, <2>2, <4>1, SameRun
    <3>2. CASE State(h) = "UNCONFIGURED"
      <4>1. ~Starting(h) /\ ~Starting(h)' /\ State(h) \in Down
        BY <1>0, <1>r, <2>2, <3>2 DEF GuestRun, Starting, Down
      <4>2. GuestRun(h) /\ x'[h] = x[h] /\ State(h)' = State(h) /\ z'.pc = "idle"
        BY <1>0, <1>r, <2>2
      <4> QED BY <4>1, <4>2 DEF GuestRun, Starting, ExitState
    <3> QED BY <3>1, <3>2
  <2> QED BY <2>4, <2>5, <2>7 DEF PendInv, RunInv
<1>3. CASE CallsWithWork(pip, z.call) # {}
  <2> DEFINE k == Min(CallsWithWork(pip, z.call))
  <2>1. CommitCall(k) /\ z' = [z EXCEPT !.call = k + 1] /\ active_hvmd' = active_hvmd /\ told' = told
    BY <1>3 DEF op_reconfig_commit
  <2>2. CallMade(k)
    BY <1>0, <1>3, <2>1, CallStep DEF TypeInv, PipTyped
  <2>m. PICK m : m = k
    OBVIOUS
  <2>3. CallMade(m) /\ m = Min(CallsWithWork(pip, z.call)) /\ z' = [z EXCEPT !.call = m + 1]
    BY <2>1, <2>2, <2>m
  <2> HIDE DEF k
  <2>4. /\ VcpusInv' /\ GuestFlags' /\ CallsDone(m + 1)' /\ pip'.md = pip.md
        /\ \A g \in Guests : /\ GuestFlag(g)' = "Unconfig" => GuestFlag(g) = "Unconfig" /\ State(g)' = State(g)
                             /\ GuestFlag(g) # "Unconfig" /\ Has(g) => State(g)' = State(g)
                             /\ State(g)' \in {State(g), "STOPPED", "UNCONFIGURED"}
    BY <1>0, <1>1, <1>3, <2>3, CallInvs
  <2>5. z'.pc = "commit" /\ z'.call = m + 1
    BY <1>0, <2>3 DEF TypeInv, StrandsTyped, ControlStates
  <2>6. PipMd' /\ Present' /\ PendingRemoves' /\ Fresh' /\ AskedInv'
    BY <1>0, <1>1, <2>4, <2>5 DEF PendInv, PipMd, Present, PendingRemoves, Fresh, AskedInv, Live
  <2>7. CallsInv'
    BY <1>0, <1>1, <2>4, <2>5 DEF CallsInv, CallsDone, NoExitCommits
  <2>8. CommitTold'
    BY <1>0, <2>1, <2>4 DEF PendInv, CommitTold
  <2>9. RunInv'
    <3>1. ASSUME NEW h \in Guests PROVE GuestRun(h)'
      <4>1. CASE State(h)' = State(h)
        BY <1>0, <1>r, <2>1, <2>5, <4>1, SameRun
      <4>2. CASE State(h)' # State(h)
        <5>1. h \in told \/ ~Has(h)
          BY <1>0, <2>4, <4>2 DEF PendInv, CommitTold
        <5>2. State(h)' \in Down
          BY <2>4, <4>2 DEF Down
        <5> QED BY <1>0, <1>r, <2>1, <2>5, <5>1, <5>2, CommitRun
      <4> QED BY <4>1, <4>2
    <3> QED BY <1>r, <2>1, <3>1 DEF RunInv
  <2> QED BY <2>4, <2>6, <2>7, <2>8, <2>9 DEF PendInv
<1> QED BY <1>2, <1>3

LEMMA ExitCommitPend == ASSUME Sound, PendInv, NEW g \in Guests, c_guest_exit_commit(g) PROVE PendInv'
<1>0. /\ x[g].pc = "commit" /\ UNCHANGED <<parse_hvmd, z, sched, told>> /\ x \in [Guests -> ExitStates]
      /\ x[g].call \in Nat \ {0} /\ TypeInv /\ R \in Tables
  BY CallFacts DEF c_guest_exit_commit, Sound, TypeInv, StrandsTyped, ControlInv, ExitStates
<1>1. /\ del_reconf_gid = g /\ del_reconf_gid # None /\ CallsDone(x[g].call) /\ Live
      /\ z.pc \notin {"parse", "postparse", "commit"} /\ \A h \in Guests \ {g} : x[h].pc # "commit"
  BY <1>0, GuestFacts DEF Sound, IInv, LockInv, PendInv, CallsInv, Live
<1>r. \A h \in Guests : GuestRun(h)
  BY DEF PendInv, RunInv
<1>2. CASE CallsWithWork(pip, x[g].call) = {}
  <2>1. accept_hvmd /\ R' = R /\ del_reconf_gid' = None /\ x' = [x EXCEPT ![g].pc = "notify"]
    BY <1>2 DEF c_guest_exit_commit
  <2>2. x'[g].pc = "notify" /\ x'[g].sir = x[g].sir /\ \A h \in Guests \ {g} : x'[h] = x[h]
    BY <1>0, <2>1 DEF ExitStates
  <2>3. NoExitCommits' /\ \A h \in Guests : State(h)' = State(h)
    BY <1>1, <2>1, <2>2 DEF NoExitCommits, State
  <2>4. \A h \in Guests : Has(h) = Want(h)
    BY <1>0, <1>1, <1>2, CommitEnd
  <2>5. /\ VcpusInv' /\ PipMd' /\ GuestFlags' /\ Present' /\ CallsInv' /\ PendingRemoves' /\ Fresh' /\ CommitTold'
    BY <1>0, <1>1, <2>1, <2>3, <2>4, AcceptInvs
  <2>6. AskedInv'
    <3>1. ASSUME z.pc = "lock" PROVE Removable(parse_hvmd) /\ (z.gid # None => Hvmds[z.md].version \notin {"noroot", "content"})
      BY <1>1, <3>1 DEF PendInv, AskedInv
    <3>2. ASSUME z.pc = "lock" PROVE Removable(active_hvmd)'
      BY <1>0, <2>1, <3>1, <3>2 DEF Removable, accept_hvmd
    <3> QED BY <1>0, <1>1, <2>1, <3>1, <3>2 DEF AskedInv
  <2>7. ASSUME NEW h \in Guests PROVE GuestRun(h)'
    <3>1. CASE h # g
      BY <1>0, <1>r, <2>2, <2>3, <3>1, SameRun
    <3>2. CASE h = g
      <4>1. GuestRun(g) /\ State(g)' = State(g)
        BY <1>r, <2>3
      <4> QED BY <1>0, <2>2, <3>2, <4>1 DEF GuestRun, Starting, ExitState
    <3> QED BY <3>1, <3>2
  <2> QED BY <1>0, <1>r, <2>5, <2>6, <2>7 DEF PendInv, RunInv
<1>3. CASE CallsWithWork(pip, x[g].call) # {}
  <2> DEFINE k == Min(CallsWithWork(pip, x[g].call))
  <2>1. /\ CommitCall(k) /\ x' = [x EXCEPT ![g].call = k + 1]
        /\ UNCHANGED <<active_hvmd, del_reconf_gid, del_reconf_lock>>
    BY <1>3 DEF c_guest_exit_commit
  <2>2. CallMade(k)
    BY <1>0, <1>3, <2>1, CallStep DEF TypeInv, PipTyped
  <2>m. PICK m : m = k
    OBVIOUS
  <2>3. CallMade(m) /\ m = Min(CallsWithWork(pip, x[g].call)) /\ x' = [x EXCEPT ![g].call = m + 1]
    BY <2>1, <2>2, <2>m
  <2> HIDE DEF k
  <2>4. /\ VcpusInv' /\ GuestFlags' /\ CallsDone(m + 1)' /\ pip'.md = pip.md
        /\ \A h \in Guests : /\ GuestFlag(h)' = "Unconfig" => GuestFlag(h) = "Unconfig" /\ State(h)' = State(h)
                             /\ GuestFlag(h) # "Unconfig" /\ Has(h) => State(h)' = State(h)
                             /\ State(h)' \in {State(h), "STOPPED", "UNCONFIGURED"}
    BY <1>0, <1>1, <1>3, <2>3, CallInvs
  <2>5. x'[g].pc = "commit" /\ x'[g].sir = x[g].sir /\ x'[g].call = m + 1 /\ \A h \in Guests \ {g} : x'[h] = x[h]
    BY <1>0, <2>3 DEF ExitStates
  <2>u. \A h \in Guests : GuestFlag(h) # "Unconfig"
    BY <1>1 DEF PendInv, PendingRemoves
  <2>6. PipMd' /\ Present' /\ PendingRemoves' /\ Fresh' /\ CommitTold'
    <3>1. ~NoExitCommits'
      BY <2>5 DEF NoExitCommits
    <3>2. PipMd'
      BY <1>0, <1>1, <2>4 DEF PendInv, PipMd
    <3>3. PendingRemoves'
      BY <2>4, <2>u DEF PendingRemoves
    <3> QED BY <1>0, <1>1, <3>1, <3>2, <3>3 DEF Present, Fresh, CommitTold
  <2>7. CallsInv'
    <3>1. CallsDone(x[g].call)'
      BY <2>4, <2>5 DEF CallsDone
    <3>2. z'.pc # "commit" /\ \A h \in Guests \ {g} : x'[h].pc # "commit"
      BY <1>0, <1>1, <2>5
    <3> QED BY <3>1, <3>2 DEF CallsInv
  <2>8. AskedInv'
    BY <1>0, <2>1 DEF PendInv, AskedInv, Removable
  <2>9. RunInv'
    <3>1. ASSUME NEW h \in Guests PROVE GuestRun(h)'
      <4>1. CASE h = g
        <5>1. GuestRun(g) /\ ~Starting(g) /\ State(g) \in ExitState(g)
          BY <1>0, <1>r DEF GuestRun
        <5>2. ExitState(g)' = ExitState(g) /\ ExitState(g) = (IF x[g].sir THEN {"RESETTING"} ELSE Down)
          BY <1>0, <2>5 DEF ExitState
        <5>3. State(g)' \in ExitState(g) /\ (State(g) \in Down => State(g)' \in Down)
          BY <2>4, <2>u, <5>1, <5>2 DEF Has, Down
        <5>4. ~Starting(g)'
          BY <1>0, <5>1 DEF Starting
        <5> QED BY <1>0, <2>5, <4>1, <5>1, <5>2, <5>3, <5>4 DEF GuestRun, Starting
      <4>2. CASE h # g /\ State(h)' = State(h)
        BY <1>0, <1>r, <2>5, <4>2, SameRun
      <4>3. CASE h # g /\ State(h)' # State(h)
        <5>1. ~Has(h)
          BY <2>4, <2>u, <4>3
        <5>2. State(h)' \in Down
          BY <2>4, <4>3 DEF Down
        <5> QED BY <1>0, <1>r, <2>5, <4>3, <5>1, <5>2, CommitRun
      <4> QED BY <4>1, <4>2, <4>3
    <3> QED BY <1>0, <1>r, <3>1 DEF RunInv
  <2> QED BY <2>4, <2>6, <2>7, <2>8, <2>9 DEF PendInv
<1> QED BY <1>2, <1>3

\* At boot nothing is elected, and the guests of the boot description are
\* there and stopped.
LEMMA InitPend == Init => PendInv
<1> SUFFICES ASSUME Init PROVE PendInv
  OBVIOUS
<1>0. BootHvmd \in DOMAIN Hvmds
  BY ReconfAssumption
<1>1. /\ BackRefs(R)
      /\ \A g \in Guests : State(g) = IF g \in DOMAIN Hvmds[BootHvmd].guest THEN "STOPPED" ELSE "UNCONFIGURED"
  BY <1>0, BootTables DEF Init, State
<1>2. /\ z.pc = "kickoff" /\ z.gid = 0 /\ \A g \in Guests : x[g].pc = "none" /\ sched[g] = None
  BY DEF Init, Idle, NoExit
<1>3. VcpusInv
  <2>1. "vcpu" \in TenTypes /\ Ids("vcpu") = Vcpus
    BY IdsOfType DEF TenTypes
  <2>2. \A v \in Vcpus : pip.flags["vcpu"][v] = "Noop"
    BY <2>1, NoPipType DEF Init, NothingElected
  <2> QED BY <1>1, <2>2 DEF VcpusInv
<1>4. ~Live /\ del_reconf_gid = None
  BY <1>2 DEF Init, Live
<1>5. PipMd /\ GuestFlags /\ CallsInv /\ PendingRemoves /\ Fresh /\ AskedInv /\ CommitTold
  BY <1>2, <1>4 DEF PipMd, GuestFlags, CallsInv, PendingRemoves, Fresh, AskedInv, CommitTold
<1>6. Present
  BY <1>1 DEF Init, Present, Has
<1>7. RunInv
  BY <1>1, <1>2 DEF RunInv, GuestRun, Starting, Down
<1> QED BY <1>3, <1>5, <1>6, <1>7 DEF PendInv

\* A query only tells Zeus the state of the guest.
LEMMA StatPend == ASSUME Sound, PendInv, NEW g \in Guests, op_get_res_stat(g) PROVE PendInv'
<1>0. R \in Tables /\ GuestRun(g) /\ told' = Told(g)
      /\ UNCHANGED <<R, pip, active_hvmd, parse_hvmd, del_reconf_gid, z, x, sched>>
  BY DEF op_get_res_stat, Sound, TypeInv, PendInv, RunInv
<1>1. Quiet /\ \A h \in Guests : State(h)' = State(h)
  BY <1>0, QuietSame
<1>2. /\ (g \in told' <=> State(g) \in Down) /\ (g \in told => g \in told')
      /\ \A h \in Guests \ {g} : (h \in told') = (h \in told)
  BY <1>0 DEF Told, GuestRun
<1>3. GuestRun(g)'
  BY <1>0, <1>1, <1>2 DEF GuestRun, Starting, ExitState, Down
<1> QED BY <1>0, <1>1, <1>2, <1>3, OneGuest

LEMMA NextPend == ASSUME Careful, Patient, Sound, PendInv, [Next]_vars PROVE PendInv'
<1>1. ASSUME NEW g \in Guests, op_guest_stop(g) PROVE PendInv'
  BY <1>1, BeginExitPend DEF op_guest_stop
<1>2. ASSUME NEW g \in Guests, NEW sir \in BOOLEAN, hcall_mach_exit(g, sir) PROVE PendInv'
  <2>1. (sir \/ R.hv_ldc.guest = g) \in BOOLEAN
    OBVIOUS
  <2> QED BY <1>2, <2>1, BeginExitPend DEF hcall_mach_exit
<1>3. CASE Command
  BY <1>1, <1>3, ReconfigPend, CancelPend, StartPend, StatPend DEF Command
<1>4. CASE ControlStep
  BY <1>4, KickoffPend, LockPend, ParsePend, PostparsePend, ControlCommitPend, IgnitePend DEF ControlStep
<1>5. ASSUME NEW g \in Guests, ExitStep(g) PROVE PendInv'
  <2>1. CASE x[g].pc # "commit"
    BY <1>5, <2>1, ExitPend
  <2>2. CASE x[g].pc = "commit"
    <3>1. c_guest_exit_commit(g)
      BY <1>5, <2>2 
         DEF ExitStep, c_guest_exit_stop, Stoppable, c_guest_exit_mark, c_guest_exit_lock, c_guest_exit_notify
    <3> QED BY <3>1, ExitCommitPend
  <2> QED BY <2>1, <2>2
<1>6. CASE \E g \in Guests : launch(g) \/ \E v \in Vcpus : hcall_cpu_start(g, v)
  BY <1>6, LaunchPend, CpuStartPend
<1>7. CASE UNCHANGED vars
  <2>1. Quiet /\ \A g \in Guests : State(g)' = State(g)
    BY <1>7, QuietSame DEF vars, Sound, TypeInv
  <2> QED BY <1>7, <2>1, TablesPend DEF vars
<1> QED BY <1>2, <1>3, <1>4, <1>5, <1>6, <1>7 DEF Next

LEMMA PendIntact == PendInv => PendingIntact
<1> SUFFICES ASSUME PendInv, del_reconf_gid # None, Committing = {}, z.pc \notin {"parse", "postparse"}
             PROVE  /\ pip.md = parse_hvmd
                    /\ pip.flags = res_parse_flags(R, Hvmds[parse_hvmd])
                    /\ res_guest_postparse(R, pip.flags)
  BY DEF PendingIntact
<1>1. NoExitCommits
  BY DEF Committing, NoExitCommits
<1>2. pip.md = parse_hvmd
  BY DEF PendInv, PipMd, Live
<1>3. pip.flags = res_parse_flags(R, Hvmds[parse_hvmd])
  BY <1>1 DEF PendInv, Fresh
<1>4. res_guest_postparse(R, pip.flags)
  BY DEF PendInv, PendingRemoves, GuestFlag, res_guest_postparse
<1> QED BY <1>2, <1>3, <1>4

\* A delayed reconfiguration that waits for the exit of its guest stays the one
\* that was parsed last, and what it elected stays what a parse would elect for
\* the tables as they are now, as long as Zeus asks only for what the comments
\* of op_reconfig take for granted (Careful) and starts no guest whose exit or
\* creation is not over (Patient), neither of which the code checks: pip and parse_hvmd, which every command and
\* every exit shares, are overwritten by nothing but the commit, the cancel or
\* the failure that ends it.
THEOREM PendingStaysValid == Careful /\ Patient => (Spec => []PendingIntact)
<1> SUFFICES ASSUME Careful, Patient PROVE Spec => []PendingIntact
  OBVIOUS
<1>1. Spec => []IInv
  BY InitInv, NextInv, PTL DEF Spec
<1>2. Spec => []TypeInv
  BY InitType, NextType, PTL DEF Spec
<1>3. IInv /\ TypeInv /\ PendInv /\ [Next]_vars => PendInv'
  BY NextPend DEF Sound
<1>4. Spec => []PendInv
  BY <1>1, <1>2, <1>3, InitPend, PTL DEF Spec
<1> QED BY <1>4, PendIntact, PTL
=============================================================================
