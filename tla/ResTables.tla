------------------------------ MODULE ResTables ------------------------------
(***************************************************************************)
(* The hypervisor's resource tables and what one (re)configuration does to *)
(* them: the guests with their memory segments, vcpus, channels, consoles, *)
(* crypto units and device interrupts, the prep, parse and commit function *)
(* of every resource type (common/src/res_*.c), and the boot-time path     *)
(* (config_* in common/src/reconf.c, called by c_start).                   *)
(*                                                                         *)
(* Everything here is an operator on one record R of tables.  A hypervisor *)
(* machine description (HVMD) is a record whose fields are functions from  *)
(* the resource ids that have a node to the properties of that node; arcs  *)
(* are ids.  NULL is None.  An ASSERT is compiled out of a release build,  *)
(* so a failed one does not stop the code: its label is put in R.bad.      *)
(* Addresses are in units of a quarter of a RA2PA segment.                 *)
(***************************************************************************)
EXTENDS Integers, SequencesExt

CONSTANTS
    NGUESTS, NMBLOCKS, NVCPUS, NSTRANDS, NSTRANDS_PER_CORE,
    MAX_LDC_CHANNELS,   \* endpoints per guest
    MAX_INOS,           \* inos of the channel and virtual devices
    NMEMSEGS,           \* segments of real memory, below the I/O segments
    strand_active       \* strands that came up

ASSUME TablesAssumption ==
    /\ {NGUESTS, NMBLOCKS, NVCPUS, NSTRANDS, NSTRANDS_PER_CORE, MAX_LDC_CHANNELS,
        MAX_INOS, NMEMSEGS} \subseteq Nat \ {0}
    /\ strand_active \subseteq 0..NSTRANDS-1

None == -1
Guests == 0..NGUESTS-1
Mblocks == 0..NMBLOCKS-1
Vcpus == 0..NVCPUS-1
Cores == 0..(NSTRANDS \div NSTRANDS_PER_CORE)-1
Chans == 0..MAX_LDC_CHANNELS-1
Inos == 0..MAX_INOS-1

RA2PA == 4
PIU_BASE == RA2PA * NMEMSEGS + 3
PIU_LIMIT == RA2PA * (NMEMSEGS + 2)
NIU_BASE == RA2PA * (NMEMSEGS + 2)
NIU_LIMIT == RA2PA * (NMEMSEGS + 3)
FPGA_BASE == RA2PA * (NMEMSEGS + 3)
FPGA_UART_BASE == FPGA_BASE + 2
Segs == 0..NMEMSEGS+3
INVALID_SEGMENT_SIZE == -1

\* Mutant: consoles before the channels they are on.
resource_info_swapped == <<"guest", "memory", "vcpu", "hv_ldc", "console", "ldc",
                           "mau", "cwq", "pcie_bus", "network_device">>

\* The resource types in the order of the table resource_info, and the ids
\* each type's loops run over, ascending.
resource_info == <<"guest", "memory", "vcpu", "hv_ldc", "ldc", "console",
                   "mau", "cwq", "pcie_bus", "network_device">>

Types == Range(resource_info)
UpTo(n) == [k \in 1..n |-> k - 1]
IdSeq(t) ==
    CASE t \in {"guest", "console"} -> UpTo(NGUESTS)
      [] t = "memory" -> UpTo(NMBLOCKS)
      [] t = "vcpu" -> UpTo(NVCPUS)
      [] t = "ldc" -> [k \in 1..(NGUESTS * MAX_LDC_CHANNELS) |->
                         <<(k - 1) \div MAX_LDC_CHANNELS, (k - 1) % MAX_LDC_CHANNELS>>]
      [] t \in {"mau", "cwq"} -> UpTo(NSTRANDS \div NSTRANDS_PER_CORE)
      [] t \in {"hv_ldc", "pcie_bus", "network_device"} -> <<0>>
Ids(t) == Range(IdSeq(t))

ASSERT(R, holds, label) == IF holds THEN R ELSE [R EXCEPT !.bad = @ \cup {label}]

-----------------------------------------------------------------------------
(* Real memory: the segment table of a guest, indexed by real address.     *)

init_ra2pa_segment == [flags |-> "INVALID", base |-> None, limit |-> 0, offset |-> None]

SegmentsOf(real_base, size) ==
    real_base \div RA2PA .. (real_base + size - 1) \div RA2PA

assign_ra2pa_segments(segs, real_base, size, offset, flags) ==
    [s \in Segs |-> IF s \in SegmentsOf(real_base, size)
                    THEN [flags |-> flags, base |-> real_base,
                          limit |-> real_base + size, offset |-> offset]
                    ELSE segs[s]]

clear_ra2pa_segments(segs, real_base, size) ==
    [s \in Segs |-> IF s \in SegmentsOf(real_base, size) THEN init_ra2pa_segment ELSE segs[s]]

-----------------------------------------------------------------------------
(* Empty tables.                                                           *)

NoEndpoint == [live |-> FALSE, target |-> <<"NONE", None, None>>, private |-> FALSE,
               tx_ino |-> None, rx_ino |-> None]
NoConsole == [type |-> "UNCONFIG", endpt |-> None, ino |-> None]
NoMblock == [guest |-> None, real |-> None, mem |-> None, size |-> 0]
NoUnit == [state |-> "UNCONFIGURED", guest |-> None, ino |-> None, cpuset |-> {}]

\* vino is the set of device interrupts that have an instance, as
\* <<device, ino>>; everything of the guest structure is cleared.
init_guest ==
    [state |-> "UNCONFIGURED", md_pa |-> None, real_base |-> None, rng |-> 0,
     vcpus |-> [v \in Vcpus |-> None],
     seg |-> assign_ra2pa_segments([s \in Segs |-> init_ra2pa_segment],
                                   FPGA_BASE, RA2PA, 0, "IO"),
     ldc |-> [c \in Chans |-> NoEndpoint],
     ino2ep |-> [i \in Inos |-> None],
     vino |-> {},
     console |-> NoConsole,
     mau |-> [c \in Cores |-> None],
     cwq |-> [c \in Cores |-> None]]

init_vcpu == [status |-> "UNCONFIGURED", guest |-> None, vid |-> None, strand |-> None,
              mau |-> None, cwq |-> None]

init_hv_internals ==
    [guest |-> [g \in Guests |-> init_guest],
     memory |-> [b \in Mblocks |-> NoMblock],
     vcpu |-> [v \in Vcpus |-> init_vcpu],
     hv_ldc |-> [live |-> FALSE, guest |-> None, chan |-> None],
     mau |-> [c \in Cores |-> NoUnit],
     cwq |-> [c \in Cores |-> NoUnit],
     pcie_bus |-> None,
     network_device |-> None,
     bad |-> {}]

config_a_guest_device_vino(R, g, ino, type) == [R EXCEPT !.guest[g].vino = @ \cup {<<type, ino>>}]
unconfig_a_guest_device_vino(R, g, ino, type) == [R EXCEPT !.guest[g].vino = @ \ {<<type, ino>>}]

-----------------------------------------------------------------------------
(* A description whose nodes have the ids and properties that the parse    *)
(* functions ask for (one that has not is md.bad).  Only the range of a    *)
(* vid is taken for granted: res_vcpu_parse_1 does not look at it.         *)

Targets == {"NONE", "GUEST", "HV", "SP"} \X Int \X Int

WellFormed(md) ==
    /\ \A t \in Types : DOMAIN md[t] \subseteq Ids(t)
    /\ \A g \in DOMAIN md.guest : md.guest[g] \in [md_pa : Int, rng : Int, unbind : BOOLEAN]
    /\ \A b \in DOMAIN md.memory : md.memory[b] \in [guest : Guests, real : Int, mem : Int, size : Int]
    /\ \A v \in DOMAIN md.vcpu : md.vcpu[v] \in [guest : Guests, vid : Vcpus, strand : 0..NSTRANDS-1]
    /\ \A i \in DOMAIN md.hv_ldc : md.hv_ldc[i] \in [guest : Guests, chan : Chans]
    /\ \A id \in DOMAIN md.ldc :
        md.ldc[id] \in [target : Targets, private : BOOLEAN, tx_ino : Int, rx_ino : Int]
    /\ \A g \in DOMAIN md.console : md.console[g] \in [type : {"UART", "LDC"}, endpt : Int, ino : Int]
    /\ \A t \in {"mau", "cwq"} : \A c \in DOMAIN md[t] :
        md[t][c] \in [guest : Guests, ino : Int, cpuset : SUBSET (0..NSTRANDS_PER_CORE-1)]
    /\ \A t \in {"pcie_bus", "network_device"} : \A i \in DOMAIN md[t] : md[t][i] \in [guest : Guests]

-----------------------------------------------------------------------------
(* Which operation the parse of a node elects for its resource.  prep      *)
(* marks what is configured Unconfig; a node turns that into Noop or       *)
(* Modify, or a Noop into Config; a resource that may not change while     *)
(* configured fails the parse.                                             *)

GuestBlocks(md, g) == {b \in DOMAIN md.memory : md.memory[b].guest = g}
RealBase(md, g) == Min({md.memory[b].real : b \in GuestBlocks(md, g)})

Configured(R, t, id) ==
    CASE t = "guest" -> R.guest[id].state # "UNCONFIGURED"
      [] t = "memory" -> R.memory[id].guest # None
      [] t = "vcpu" -> R.vcpu[id].status # "UNCONFIGURED"
      [] t = "hv_ldc" -> R.hv_ldc.live
      [] t = "ldc" -> R.guest[id[1]].ldc[id[2]].live
      [] t = "console" -> R.guest[id].console.type # "UNCONFIG"
      [] t \in {"mau", "cwq"} -> R[t][id].state # "UNCONFIGURED"
      [] t \in {"pcie_bus", "network_device"} -> R[t] # None

res_prep(R) == [t \in Types |-> [id \in Ids(t) |-> IF Configured(R, t, id) THEN "Unconfig" ELSE "Noop"]]

\* A guest node fails if it unbinds a guest that is not stopped, or if the
\* guest has no mblock.
res_guest_parse_fails(R, md, g) ==
    \/ md.guest[g].unbind /\ R.guest[g].state # "STOPPED"
    \/ GuestBlocks(md, g) = {}

\* The nodes parsed before the first one that fails.
GuestNodesParsed(R, md) ==
    {g \in DOMAIN md.guest : \A h \in DOMAIN md.guest :
        h <= g => ~res_guest_parse_fails(R, md, h)}

\* rng_ctl_accessible is written to the guest itself, not to its pip.
res_guest_parse(R, md) ==
    [R EXCEPT !.guest = [g \in Guests |->
        IF g \in GuestNodesParsed(R, md) THEN [@[g] EXCEPT !.rng = md.guest[g].rng] ELSE @[g]]]

\* Is the (live) resource of a node already what the node says?
res_guest_same(R, md, g) == R.guest[g].md_pa = md.guest[g].md_pa
res_memory_same(R, md, b) == R.memory[b] = md.memory[b]
res_vcpu_same(R, md, v) ==
    /\ R.vcpu[v].strand = md.vcpu[v].strand
    /\ R.vcpu[v].vid = md.vcpu[v].vid
    /\ R.vcpu[v].guest = md.vcpu[v].guest
res_hv_ldc_same(R, md) == R.hv_ldc.guest = md.hv_ldc[0].guest /\ R.hv_ldc.chan = md.hv_ldc[0].chan
\* Becoming private is not noticed: the inos are compared only for a node
\* that is not private.
res_ldc_same(R, md, id) ==
    LET ep == R.guest[id[1]].ldc[id[2]]
        node == md.ldc[id]
    IN  /\ ep.target = node.target
        /\ node.private \/ (ep.tx_ino = node.tx_ino /\ ep.rx_ino = node.rx_ino)
\* A UART console has no interrupt: the comparison reads through a null
\* pointer, and the elected Modify rewrites the console with what it has.
res_console_same(R, md, g) == R.guest[g].console = md.console[g] /\ md.console[g].type # "UART"
unit_same(R, md, t, c) == R[t][c].guest = md[t][c].guest /\ R[t][c].ino = md[t][c].ino
res_mau_same(R, md, c) == unit_same(R, md, "mau", c)
res_cwq_same(R, md, c) == unit_same(R, md, "cwq", c)
res_pcie_bus_same(R, md) == R.pcie_bus = md.pcie_bus[0].guest
res_network_device_same(R, md) == R.network_device = md.network_device[0].guest
unit_cpuset_same(R, md, t, c) == R[t][c].cpuset = md[t][c].cpuset

\* May a live resource get the values of its node?
MayChange(R, md, t, id) ==
    CASE t = "guest" -> ~res_guest_parse_fails(R, md, id)
      [] t = "memory" -> R.memory[id].guest = md.memory[id].guest
      [] t = "vcpu" -> res_vcpu_same(R, md, id)
      [] t = "hv_ldc" -> res_hv_ldc_same(R, md)
      [] t = "ldc" -> res_ldc_same(R, md, id)
      [] t = "console" -> TRUE
      [] t = "mau" -> res_mau_same(R, md, id)
      [] t = "cwq" -> res_cwq_same(R, md, id)
      [] t = "pcie_bus" -> res_pcie_bus_same(R, md)
      [] t = "network_device" -> res_network_device_same(R, md)

Modified(R, md, t, id) ==
    CASE t = "guest" -> ~res_guest_same(R, md, id)
      [] t = "memory" -> ~res_memory_same(R, md, id)
      [] t = "console" -> ~res_console_same(R, md, id)
      [] t \in {"mau", "cwq"} -> ~unit_cpuset_same(R, md, t, id)
      [] OTHER -> FALSE

res_parse_ok(R, md, t) ==
    /\ md.bad # t
    /\ \A id \in DOMAIN md[t] : Configured(R, t, id) => MayChange(R, md, t, id)
    /\ t = "guest" => \A g \in DOMAIN md.guest : ~res_guest_parse_fails(R, md, g)

res_parse_flags(R, md) ==
    [t \in Types |-> [id \in Ids(t) |->
        IF id \notin DOMAIN md[t] THEN res_prep(R)[t][id]
        ELSE IF ~Configured(R, t, id) THEN "Config"
        ELSE IF Modified(R, md, t, id) THEN "Modify" ELSE "Noop"]]

res_guest_postparse(R, flags) ==
    \A g \in Guests : flags["guest"][g] = "Unconfig" => R.guest[g].state = "STOPPED"

-----------------------------------------------------------------------------
(* Commit: what the elected operation of one resource does to the tables.  *)

\* Shared by Config and Modify of a guest.
res_guest_commit_modify(R, md, g) ==
    [R EXCEPT !.guest[g].md_pa = md.guest[g].md_pa, !.guest[g].real_base = RealBase(md, g)]

res_guest_commit_config(R, md, g) ==
    LET S == ASSERT(R, R.guest[g].state = "UNCONFIGURED", "guest config")
    IN  [res_guest_commit_modify(S, md, g) EXCEPT
            !.guest[g].state = "STOPPED", !.guest[g].vino = {},
            !.guest[g].ino2ep = [i \in Inos |-> None]]

res_guest_commit_unconfig(R, g) ==
    [ASSERT(R, R.guest[g].state = "STOPPED", "guest unconfig") EXCEPT !.guest[g] = init_guest]

res_guest_commit(R, md, g, flag) ==
    CASE flag = "Unconfig" -> res_guest_commit_unconfig(R, g)
      [] flag = "Config" -> res_guest_commit_config(R, md, g)
      [] flag = "Modify" -> res_guest_commit_modify(R, md, g)

res_memory_commit_config(R, md, b) ==
    LET mb == md.memory[b]
    IN  [R EXCEPT !.memory[b] = mb,
                  !.guest[mb.guest].seg = assign_ra2pa_segments(@, mb.real, mb.size,
                                                                mb.mem - mb.real, "MEM")]

res_memory_commit_unconfig(R, b) ==
    LET mb == R.memory[b]
    IN  [R EXCEPT !.memory[b] = NoMblock,
                  !.guest[mb.guest].seg = clear_ra2pa_segments(@, mb.real, mb.size)]

\* Mutant: the segments of the old block are not cleared.
res_memory_commit_modify_keep(R, md, b) == res_memory_commit_config(R, md, b)

res_memory_commit_modify(R, md, b) ==
    res_memory_commit_config(res_memory_commit_unconfig(R, b), md, b)

res_memory_commit(R, md, b, flag) ==
    CASE flag = "Unconfig" -> res_memory_commit_unconfig(R, b)
      [] flag = "Config" -> res_memory_commit_config(R, md, b)
      [] flag = "Modify" -> res_memory_commit_modify(R, md, b)

res_vcpu_commit_config(R, md, v) ==
    LET node == md.vcpu[v]
        S == ASSERT(R, R.guest[node.guest].vcpus[node.vid] = None, "vcpu config")
    IN  [S EXCEPT !.vcpu[v] = [status |-> IF node.strand \in strand_active THEN "STOPPED" ELSE "ERROR",
                               guest |-> node.guest, vid |-> node.vid, strand |-> node.strand,
                               mau |-> None, cwq |-> None],
                  !.guest[node.guest].vcpus[node.vid] = v]

res_vcpu_commit_unconfig(R, v) ==
    LET S == ASSERT(R, R.vcpu[v].status \in {"STOPPED", "ERROR"}, "vcpu unconfig")
    IN  [S EXCEPT !.vcpu[v] = init_vcpu, !.guest[R.vcpu[v].guest].vcpus[R.vcpu[v].vid] = None]

res_vcpu_commit(R, md, v, flag) ==
    CASE flag = "Unconfig" -> res_vcpu_commit_unconfig(R, v)
      [] flag = "Config" -> res_vcpu_commit_config(R, md, v)

res_hv_ldc_commit_unconfig(R) == [R EXCEPT !.hv_ldc.live = FALSE]
res_hv_ldc_commit_config(R, md) ==
    [R EXCEPT !.hv_ldc = [live |-> TRUE, guest |-> md.hv_ldc[0].guest, chan |-> md.hv_ldc[0].chan]]

res_hv_ldc_commit(R, md, flag) ==
    CASE flag = "Unconfig" -> res_hv_ldc_commit_unconfig(R)
      [] flag = "Config" -> res_hv_ldc_commit_config(R, md)

res_ldc_commit_config(R, md, g, c) ==
    LET node == md.ldc[<<g, c>>]
        S == [R EXCEPT !.guest[g].ldc[c] =
                [live |-> TRUE, target |-> node.target, private |-> node.private,
                 tx_ino |-> IF node.private THEN @.tx_ino ELSE node.tx_ino,
                 rx_ino |-> IF node.private THEN @.rx_ino ELSE node.rx_ino]]
    IN  IF node.private THEN S
        ELSE [S EXCEPT !.guest[g].ino2ep = [@ EXCEPT ![node.tx_ino] = c, ![node.rx_ino] = c],
                       !.guest[g].vino = @ \cup {<<"CDEV", node.tx_ino>>, <<"CDEV", node.rx_ino>>}]

res_ldc_commit_unconfig(R, g, c) ==
    LET ep == R.guest[g].ldc[c]
        S == [R EXCEPT !.guest[g].ldc[c].live = FALSE]
    IN  IF ep.private THEN S
        ELSE [S EXCEPT !.guest[g].ino2ep = [@ EXCEPT ![ep.tx_ino] = None, ![ep.rx_ino] = None],
                       !.guest[g].vino = @ \ {<<"CDEV", ep.tx_ino>>, <<"CDEV", ep.rx_ino>>}]

res_ldc_commit(R, md, id, flag) ==
    CASE flag = "Unconfig" -> res_ldc_commit_unconfig(R, id[1], id[2])
      [] flag = "Config" -> res_ldc_commit_config(R, md, id[1], id[2])

ConsoleEndpoint(ep) == ep.live /\ ep.private

res_console_commit_config(R, md, g) ==
    LET cons == md.console[g]
        S == [R EXCEPT !.guest[g].console = cons]
    IN  IF cons.type = "UART" THEN S
        ELSE config_a_guest_device_vino(
                ASSERT(S, ConsoleEndpoint(R.guest[g].ldc[cons.endpt]), "console config"),
                g, cons.ino, "VDEV")

res_console_commit_unconfig(R, g) ==
    LET cons == R.guest[g].console
        S == [R EXCEPT !.guest[g].console = NoConsole]
    IN  IF cons.type = "UART" THEN S
        ELSE unconfig_a_guest_device_vino(
                ASSERT(S, ConsoleEndpoint(R.guest[g].ldc[cons.endpt]), "console unconfig"),
                g, cons.ino, "VDEV")

res_console_commit_modify(R, md, g) ==
    res_console_commit_config(res_console_commit_unconfig(R, g), md, g)

res_console_commit(R, md, g, flag) ==
    CASE flag = "Unconfig" -> res_console_commit_unconfig(R, g)
      [] flag = "Config" -> res_console_commit_config(R, md, g)
      [] flag = "Modify" -> res_console_commit_modify(R, md, g)

-----------------------------------------------------------------------------
(* Crypto units, t = "mau" or "cwq": one unit per core, used by the strands *)
(* of the core whose vcpus the node names.                                  *)

StrandOf(c, thread) == c * NSTRANDS_PER_CORE + thread

strand_in_vcpu_list(R, strand) == {v \in Vcpus : R.vcpu[v].strand = strand}

\* setup_mau, setup_cwq (assembly) and the assignment of the owner: a strand
\* joins the cpuset, and the first one starts the unit.
setup_a_unit(R, t, c, v, ino) ==
    LET thread == R.vcpu[v].strand % NSTRANDS_PER_CORE
        cpuset == R[t][c].cpuset \cup {thread}
        first == thread \notin R[t][c].cpuset /\ cpuset = {thread}
    IN  [R EXCEPT ![t][c] = [state |-> IF first THEN "RUNNING" ELSE @.state,
                             guest |-> R.vcpu[v].guest,
                             ino |-> IF first THEN ino ELSE @.ino,
                             cpuset |-> cpuset]]

\* A strand of the node that no vcpu runs on aborts the hypervisor.
unit_config_strand(R, md, t, c, thread) ==
    LET vs == strand_in_vcpu_list(R, StrandOf(c, thread))
        S == setup_a_unit([R EXCEPT !.vcpu[Min(vs)][t] = c], t, c, Min(vs), md[t][c].ino)
    IN  IF thread \notin md[t][c].cpuset THEN R
        ELSE IF vs = {} THEN ASSERT(R, FALSE, "hvabort")
        ELSE config_a_guest_device_vino(S, S[t][c].guest, md[t][c].ino, "VDEV")

ConfigStrands == INSTANCE ForLoop
    WITH body <- LAMBDA p, r, thread : unit_config_strand(r, p.md, p.t, p.c, thread)

unit_commit_config(R, md, t, c) ==
    LET g == md[t][c].guest
        S == [ASSERT(R, R.guest[g][t][c] = None, "unit config") EXCEPT !.guest[g][t][c] = c]
    IN  ConfigStrands!Loop([md |-> md, t |-> t, c |-> c], S, NSTRANDS_PER_CORE)

unconfig_strand_from_unit(R, t, c, thread) ==
    LET g == R[t][c].guest
        cpuset == R[t][c].cpuset \ {thread}
    IN  IF cpuset = {} THEN [R EXCEPT ![t][c] = [NoUnit EXCEPT !.ino = R[t][c].ino], !.guest[g][t][c] = None]
        ELSE [R EXCEPT ![t][c].cpuset = cpuset]

unit_unconfig_strand(R, t, c, thread) ==
    IF thread \notin R[t][c].cpuset THEN R
    ELSE LET S == ASSERT(R, strand_in_vcpu_list(R, StrandOf(c, thread)) # {}, "hvabort")
         IN  unconfig_strand_from_unit(
                unconfig_a_guest_device_vino(S, R[t][c].guest, R[t][c].ino, "VDEV"), t, c, thread)

UnconfigStrands == INSTANCE ForLoop
    WITH body <- LAMBDA p, r, thread : unit_unconfig_strand(r, p.t, p.c, thread)

unit_commit_unconfig(R, t, c) == UnconfigStrands!Loop([t |-> t, c |-> c], R, NSTRANDS_PER_CORE)

\* The vcpus of the unit's owner; a unit whose last strand has just left has
\* no owner, and its null guest pointer is followed.
unit_to_vcpu(R, t, c, strand) ==
    {v \in strand_in_vcpu_list(R, strand) : R.vcpu[v].guest = R[t][c].guest}

unit_modify_strand(R, md, t, c, thread) ==
    LET vs == unit_to_vcpu(R, t, c, StrandOf(c, thread))
        was == thread \in R[t][c].cpuset
        is == thread \in md[t][c].cpuset
    IN  IF was = is THEN R
        ELSE IF was THEN unconfig_strand_from_unit(R, t, c, thread)
        ELSE IF vs = {} THEN ASSERT(R, FALSE, "unit modify")
        ELSE setup_a_unit([R EXCEPT !.vcpu[Min(vs)][t] = c], t, c, Min(vs), md[t][c].ino)

ModifyStrands == INSTANCE ForLoop
    WITH body <- LAMBDA p, r, thread : unit_modify_strand(r, p.md, p.t, p.c, thread)

unit_commit_modify(R, md, t, c) ==
    ModifyStrands!Loop([md |-> md, t |-> t, c |-> c], R, NSTRANDS_PER_CORE)

unit_commit(R, md, t, c, flag) ==
    CASE flag = "Unconfig" -> unit_commit_unconfig(R, t, c)
      [] flag = "Config" -> unit_commit_config(R, md, t, c)
      [] flag = "Modify" -> unit_commit_modify(R, md, t, c)

res_mau_commit(R, md, c, flag) == unit_commit(R, md, "mau", c, flag)
res_cwq_commit(R, md, c, flag) == unit_commit(R, md, "cwq", c, flag)

-----------------------------------------------------------------------------
(* The PCI-E bus and the network device: one of each, owned by a guest.    *)

\* UNASSIGN_PIU_SEGMENTS passes a size of -1.
config_a_guest_pcie_bus(R, g) ==
    [R EXCEPT !.guest[g].seg = assign_ra2pa_segments(
                    assign_ra2pa_segments(@, PIU_BASE, PIU_LIMIT - PIU_BASE, 0, "IO"),
                    FPGA_UART_BASE, 1, 0, "IO"),
              !.guest[g].vino = @ \cup {<<"PIU", 0>>}]

unconfig_a_guest_pcie_bus(R, g) ==
    [R EXCEPT !.guest[g].seg = assign_ra2pa_segments(
                    assign_ra2pa_segments(@, PIU_BASE, INVALID_SEGMENT_SIZE, 0, "INVALID"),
                    FPGA_UART_BASE, 1, 0, "INVALID"),
              !.guest[g].vino = @ \ {<<"PIU", 0>>}]

config_a_guest_network_device(R, g) ==
    [R EXCEPT !.guest[g].seg = assign_ra2pa_segments(@, NIU_BASE, NIU_LIMIT - NIU_BASE, 0, "IO"),
              !.guest[g].vino = @ \cup {<<"NIU", 0>>}]

unconfig_a_guest_network_device(R, g) ==
    [R EXCEPT !.guest[g].seg = assign_ra2pa_segments(@, NIU_BASE, NIU_LIMIT - NIU_BASE, 0, "INVALID"),
              !.guest[g].vino = @ \ {<<"NIU", 0>>}]

res_pcie_bus_commit_unconfig(R) == [unconfig_a_guest_pcie_bus(R, R.pcie_bus) EXCEPT !.pcie_bus = None]
res_pcie_bus_commit_config(R, md) ==
    [config_a_guest_pcie_bus(R, md.pcie_bus[0].guest) EXCEPT !.pcie_bus = md.pcie_bus[0].guest]

res_pcie_bus_commit(R, md, flag) ==
    CASE flag = "Unconfig" -> res_pcie_bus_commit_unconfig(R)
      [] flag = "Config" -> res_pcie_bus_commit_config(R, md)

res_network_device_commit_unconfig(R) ==
    [unconfig_a_guest_network_device(R, R.network_device) EXCEPT !.network_device = None]
res_network_device_commit_config(R, md) ==
    [config_a_guest_network_device(R, md.network_device[0].guest) EXCEPT
        !.network_device = md.network_device[0].guest]

res_network_device_commit(R, md, flag) ==
    CASE flag = "Unconfig" -> res_network_device_commit_unconfig(R)
      [] flag = "Config" -> res_network_device_commit_config(R, md)

-----------------------------------------------------------------------------
(* One call resp->commit(flag): every resource of the type whose elected   *)
(* operation is flag, ascending.                                           *)

CommitOne(R, md, t, id, flag) ==
    CASE t = "guest" -> res_guest_commit(R, md, id, flag)
      [] t = "memory" -> res_memory_commit(R, md, id, flag)
      [] t = "vcpu" -> res_vcpu_commit(R, md, id, flag)
      [] t = "hv_ldc" -> res_hv_ldc_commit(R, md, flag)
      [] t = "ldc" -> res_ldc_commit(R, md, id, flag)
      [] t = "console" -> res_console_commit(R, md, id, flag)
      [] t = "mau" -> res_mau_commit(R, md, id, flag)
      [] t = "cwq" -> res_cwq_commit(R, md, id, flag)
      [] t = "pcie_bus" -> res_pcie_bus_commit(R, md, flag)
      [] t = "network_device" -> res_network_device_commit(R, md, flag)

CommitElected(R, pip, t, flag, id) ==
    IF pip.flags[t][id] = flag THEN CommitOne(R, pip.md, t, id, flag) ELSE R

CommitEach == INSTANCE ForLoop
    WITH body <- LAMBDA p, r, k : CommitElected(r, p.pip, p.t, p.flag, IdSeq(p.t)[k + 1])

res_commit(R, pip, t, flag) ==
    CommitEach!Loop([pip |-> pip, t |-> t, flag |-> flag], R, Len(IdSeq(t)))

\* Mutant: unconfig in the order of config.
commit_reconfig_forward ==
    [k \in 1..Len(resource_info) |-> <<resource_info[k], "Unconfig">>]
    \o [k \in 1..Len(resource_info) |-> <<resource_info[k], "Config">>]
    \o [k \in 1..Len(resource_info) |-> <<resource_info[k], "Modify">>]

\* The calls of commit_reconfig in order.  No parse elects Rebind.
commit_reconfig ==
    [k \in 1..Len(resource_info) |-> <<Reverse(resource_info)[k], "Unconfig">>]
    \o [k \in 1..Len(resource_info) |-> <<resource_info[k], "Config">>]
    \o [k \in 1..Len(resource_info) |-> <<resource_info[k], "Modify">>]

CallsWithWork(pip, from) ==
    {k \in from..Len(commit_reconfig) :
        \E id \in Ids(commit_reconfig[k][1]) :
            pip.flags[commit_reconfig[k][1]][id] = commit_reconfig[k][2]}

-----------------------------------------------------------------------------
(* Boot: c_start configures with functions of its own for the hypervisor   *)
(* channel, the guests with their channels, and the vcpus, and with the    *)
(* resource functions, in another order, for the rest.                     *)

config_a_hvldc(R, md) ==
    IF 0 \notin DOMAIN md.hv_ldc THEN R
    ELSE [R EXCEPT !.hv_ldc = [live |-> TRUE, guest |-> md.hv_ldc[0].guest, chan |-> md.hv_ldc[0].chan]]

config_a_guest_ldc_endpoint(R, md, id) ==
    IF id \notin DOMAIN md.ldc \/ R.guest[id[1]].ldc[id[2]].live THEN R
    ELSE res_ldc_commit_config(R, md, id[1], id[2])

ConfigEndpoints == INSTANCE ForLoop
    WITH body <- LAMBDA p, r, c : config_a_guest_ldc_endpoint(r, p.md, <<p.g, c>>)

config_a_guest(R, md, g) ==
    IF g \notin DOMAIN md.guest THEN R
    ELSE ConfigEndpoints!Loop([md |-> md, g |-> g],
                              [R EXCEPT !.guest[g].state = "STOPPED",
                                        !.guest[g].real_base = RealBase(md, g),
                                        !.guest[g].md_pa = md.guest[g].md_pa,
                                        !.guest[g].rng = md.guest[g].rng,
                                        !.guest[g].vino = {}],
                              MAX_LDC_CHANNELS)

ConfigGuests == INSTANCE ForLoop WITH body <- LAMBDA md, r, g : config_a_guest(r, md, g)
config_guests(R, md) == ConfigGuests!Loop(md, R, NGUESTS)

config_a_vcpu(R, md, v) ==
    IF v \notin DOMAIN md.vcpu THEN R
    ELSE LET node == md.vcpu[v]
         IN  [R EXCEPT !.vcpu[v] = [@ EXCEPT !.status = IF node.strand \in strand_active
                                                        THEN "STOPPED" ELSE "ERROR",
                                             !.guest = node.guest, !.vid = node.vid,
                                             !.strand = node.strand],
                       !.guest[node.guest].vcpus[node.vid] = v]

ConfigVcpus == INSTANCE ForLoop WITH body <- LAMBDA md, r, v : config_a_vcpu(r, md, v)
config_vcpus(R, md) == ConfigVcpus!Loop(md, R, NVCPUS)

\* prep, parse and commit(Config) of one type.
BootRes(R, md, t) == res_commit(R, [flags |-> res_parse_flags(R, md), md |-> md], t, "Config")

c_start(md) ==
    LET guests == config_guests(config_a_hvldc(init_hv_internals, md), md)
        memory == BootRes(guests, md, "memory")
        console == BootRes(memory, md, "console")
        bus == BootRes(console, md, "pcie_bus")
        network == BootRes(bus, md, "network_device")
        mau == BootRes(config_vcpus(network, md), md, "mau")
    IN  BootRes(mau, md, "cwq")
=============================================================================
