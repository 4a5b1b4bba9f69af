----------------------------- MODULE TablesProofs -----------------------------
(***************************************************************************)
(* What the resource functions of ResTables do to the tables: they keep    *)
(* their shape, and a commit changes the state of a guest, the vcpus it    *)
(* has and whose they are only as the flags that were elected say.  The    *)
(* loops of the commit functions and of the boot path are instances of     *)
(* ForLoop, whose LoopCorrect carries what one round preserves through the *)
(* whole loop.                                                             *)
(***************************************************************************)
EXTENDS Reconf, SequenceTheorems, TLAPS

(* The tables and their types.                                             *)

GuestStates == {"UNCONFIGURED", "STOPPED", "RESETTING", "NORMAL", "EXITING"}
VcpuStates == {"UNCONFIGURED", "STOPPED", "RUNNING", "ERROR"}
GuestIds == Guests \cup {None}
RealBases == {None} \cup {RealBase(Hvmds[i], g) : i \in DOMAIN Hvmds, g \in Guests}
SegmentType == [flags : {"INVALID", "MEM", "IO"}, base : Int, limit : Int, offset : Int]
EndpointType == [live : BOOLEAN, target : Targets, private : BOOLEAN, tx_ino : Int, rx_ino : Int]
ConsoleType == [type : {"UNCONFIG", "UART", "LDC"}, endpt : Int, ino : Int]
Devices == {"CDEV", "VDEV", "PIU", "NIU"}
Vinos == Devices \X Int
Labels == {"guest config", "guest unconfig", "vcpu config", "vcpu unconfig", "console config",
           "console unconfig", "unit config", "unit modify", "hvabort", "launch"}
GuestType ==
    [state : GuestStates, md_pa : Int, real_base : RealBases, rng : Int,
     vcpus : [Vcpus -> Vcpus \cup {None}], seg : [Segs -> SegmentType],
     ldc : [Chans -> EndpointType], ino2ep : [Inos -> Int],
     vino : SUBSET Vinos, console : ConsoleType,
     mau : [Cores -> Int], cwq : [Cores -> Int]]
VcpuType == [status : VcpuStates, guest : GuestIds, vid : Vcpus \cup {None}, strand : Int,
             mau : Int, cwq : Int]
MblockType == [guest : GuestIds, real : Int, mem : Int, size : Int]
HvLdcType == [live : BOOLEAN, guest : GuestIds, chan : Int]
UnitType == [state : {"UNCONFIGURED", "RUNNING"}, guest : GuestIds, ino : Int, cpuset : SUBSET Int]
Tables ==
    [guest : [Guests -> GuestType], memory : [Mblocks -> MblockType], vcpu : [Vcpus -> VcpuType],
     hv_ldc : HvLdcType, mau : [Cores -> UnitType], cwq : [Cores -> UnitType],
     pcie_bus : GuestIds, network_device : GuestIds, bad : SUBSET Labels]

\* What the life of a guest depends on: its state, which vcpus it has and
\* whose they are.
SameGuest(G, H) == G.state = H.state /\ G.vcpus = H.vcpus
SameVcpu(V, W) == V.status = W.status /\ V.guest = W.guest /\ V.vid = W.vid
Keeps(r, q) ==
    /\ q \in Tables
    /\ \A g \in Guests : SameGuest(r.guest[g], q.guest[g])
    /\ \A v \in Vcpus : SameVcpu(r.vcpu[v], q.vcpu[v])

LEMMA KeepsItself == ASSUME NEW r \in Tables PROVE Keeps(r, r)
  BY DEF Keeps, SameGuest, SameVcpu

LEMMA KeepsTrans == ASSUME NEW r, NEW q, NEW s, Keeps(r, q), Keeps(q, s) PROVE Keeps(r, s)
  BY DEF Keeps, SameGuest, SameVcpu

LEMMA SetGuest ==
  ASSUME NEW r \in Tables, NEW g, NEW G, g \in Guests => G \in GuestType
  PROVE  /\ [r EXCEPT !.guest[g] = G] \in Tables
         /\ \A h \in Guests : [r EXCEPT !.guest[g] = G].guest[h] = IF h = g THEN G ELSE r.guest[h]
         /\ [r EXCEPT !.guest[g] = G].vcpu = r.vcpu
  BY DEF Tables

LEMMA SetGuestKeeps ==
  ASSUME NEW r \in Tables, NEW g, NEW G, g \in Guests => G \in GuestType /\ SameGuest(r.guest[g], G)
  PROVE  Keeps(r, [r EXCEPT !.guest[g] = G])
  BY SetGuest DEF Keeps, SameGuest, SameVcpu

LEMMA SetVcpu ==
  ASSUME NEW r \in Tables, NEW v, NEW V, v \in Vcpus => V \in VcpuType
  PROVE  /\ [r EXCEPT !.vcpu[v] = V] \in Tables
         /\ \A w \in Vcpus : [r EXCEPT !.vcpu[v] = V].vcpu[w] = IF w = v THEN V ELSE r.vcpu[w]
         /\ [r EXCEPT !.vcpu[v] = V].guest = r.guest
  BY DEF Tables

LEMMA AssertKeeps ==
  ASSUME NEW r \in Tables, NEW holds, NEW label \in Labels
  PROVE  /\ Keeps(r, ASSERT(r, holds, label))
         /\ \A f \in {"guest", "memory", "vcpu", "hv_ldc", "mau", "cwq", "pcie_bus", "network_device"} :
              ASSERT(r, holds, label)[f] = r[f]
  BY DEF ASSERT, Keeps, Tables, SameGuest, SameVcpu

-----------------------------------------------------------------------------
(* Commit functions of the resources that are not guests or vcpus.         *)

LEMMA Segments ==
  ASSUME NEW segs \in [Segs -> SegmentType], NEW base \in Int, NEW size \in Int, NEW offset \in Int,
         NEW flags \in {"INVALID", "MEM", "IO"}
  PROVE  /\ assign_ra2pa_segments(segs, base, size, offset, flags) \in [Segs -> SegmentType]
         /\ clear_ra2pa_segments(segs, base, size) \in [Segs -> SegmentType]
  BY DEF assign_ra2pa_segments, clear_ra2pa_segments, init_ra2pa_segment, SegmentType, None

\* A guest table with other segments, interrupts, channels or units.
LEMMA OtherSegments ==
  ASSUME NEW r \in Tables, NEW g, NEW segs, g \in Guests => segs \in [Segs -> SegmentType]
  PROVE  Keeps(r, [r EXCEPT !.guest[g].seg = segs])
<1>1. g \in Guests => r.guest[g] \in GuestType
  BY DEF Tables
<1>2. g \in Guests => [r.guest[g] EXCEPT !.seg = segs] \in GuestType
                      /\ SameGuest(r.guest[g], [r.guest[g] EXCEPT !.seg = segs])
  BY <1>1 DEF GuestType, SameGuest
<1> QED BY <1>2, SetGuestKeeps

LEMMA OtherVino ==
  ASSUME NEW r \in Tables, NEW g, NEW vino, g \in Guests => vino \in SUBSET Vinos
  PROVE  Keeps(r, [r EXCEPT !.guest[g].vino = vino])
<1>1. g \in Guests => r.guest[g] \in GuestType
  BY DEF Tables
<1>2. g \in Guests => [r.guest[g] EXCEPT !.vino = vino] \in GuestType
                      /\ SameGuest(r.guest[g], [r.guest[g] EXCEPT !.vino = vino])
  BY <1>1 DEF GuestType, SameGuest
<1> QED BY <1>2, SetGuestKeeps

LEMMA VinoSets ==
  ASSUME NEW vino \in SUBSET Vinos, NEW type \in Devices, NEW i \in Int, NEW j \in Int
  PROVE  /\ vino \cup {<<type, i>>} \in SUBSET Vinos
         /\ vino \ {<<type, i>>} \in SUBSET Vinos
         /\ vino \cup {<<type, i>>, <<type, j>>} \in SUBSET Vinos
         /\ vino \ {<<type, i>>, <<type, j>>} \in SUBSET Vinos
<1>1. <<type, i>> \in Vinos /\ <<type, j>> \in Vinos
  BY DEF Vinos
<1> QED BY <1>1

LEMMA VinoKeeps ==
  ASSUME NEW r \in Tables, NEW g, NEW ino \in Int, NEW type \in Devices
  PROVE  /\ Keeps(r, config_a_guest_device_vino(r, g, ino, type))
         /\ Keeps(r, unconfig_a_guest_device_vino(r, g, ino, type))
<1>1. g \in Guests => r.guest[g].vino \in SUBSET Vinos
  BY DEF Tables, GuestType
<1>2. g \in Guests => /\ r.guest[g].vino \cup {<<type, ino>>} \in SUBSET Vinos
                      /\ r.guest[g].vino \ {<<type, ino>>} \in SUBSET Vinos
  BY <1>1, VinoSets
<1> QED BY <1>2, OtherVino DEF config_a_guest_device_vino, unconfig_a_guest_device_vino

LEMMA MemoryKeeps ==
  ASSUME NEW r \in Tables, NEW md, WellFormed(md), NEW b \in Mblocks
  PROVE  /\ b \in DOMAIN md.memory => Keeps(r, res_memory_commit_config(r, md, b))
         /\ Keeps(r, res_memory_commit_unconfig(r, b))
         /\ b \in DOMAIN md.memory => Keeps(r, res_memory_commit_modify(r, md, b))
<1>0. ASSUME NEW q \in Tables, NEW mb \in MblockType PROVE Keeps(q, [q EXCEPT !.memory[b] = mb])
  BY DEF Keeps, Tables, SameGuest, SameVcpu
<1>1. ASSUME NEW q \in Tables, b \in DOMAIN md.memory PROVE Keeps(q, res_memory_commit_config(q, md, b))
  <2> DEFINE mb == md.memory[b]
             s == [q EXCEPT !.memory[b] = mb]
             segs == assign_ra2pa_segments(q.guest[mb.guest].seg, mb.real, mb.size, mb.mem - mb.real, "MEM")
  <2>1. mb \in [guest : Guests, real : Int, mem : Int, size : Int]
    BY <1>1 DEF WellFormed
  <2>2. mb \in MblockType /\ mb.guest \in Guests
    BY <2>1 DEF MblockType, GuestIds
  <2>3. q.guest[mb.guest].seg \in [Segs -> SegmentType]
    BY <2>2 DEF Tables, GuestType
  <2>4. segs \in [Segs -> SegmentType]
    BY <2>1, <2>3, Segments
  <2>5. Keeps(q, s) /\ s \in Tables /\ s.guest = q.guest
    BY <1>0, <2>2 DEF Tables, Keeps
  <2>6. Keeps(s, [s EXCEPT !.guest[mb.guest].seg = segs])
    BY <2>4, <2>5, OtherSegments
  <2>7. res_memory_commit_config(q, md, b) = [s EXCEPT !.guest[mb.guest].seg = segs]
    BY <2>5 DEF res_memory_commit_config
  <2> QED BY <2>5, <2>6, <2>7, KeepsTrans
<1>2. Keeps(r, res_memory_commit_unconfig(r, b))
  <2> DEFINE mb == r.memory[b]
             s == [r EXCEPT !.memory[b] = NoMblock]
             segs == clear_ra2pa_segments(r.guest[mb.guest].seg, mb.real, mb.size)
  <2>1. mb \in MblockType /\ NoMblock \in MblockType
    BY DEF Tables, MblockType, NoMblock, GuestIds, None
  <2>2. mb.real \in Int /\ mb.size \in Int
    BY <2>1 DEF MblockType
  <2>3. mb.guest \in Guests => r.guest[mb.guest].seg \in [Segs -> SegmentType]
    BY DEF Tables, GuestType
  <2>4. mb.guest \in Guests => segs \in [Segs -> SegmentType]
    BY <2>2, <2>3, Segments
  <2>5. Keeps(r, s) /\ s \in Tables /\ s.guest = r.guest
    BY <1>0, <2>1 DEF Tables, Keeps
  <2>6. Keeps(s, [s EXCEPT !.guest[mb.guest].seg = segs])
    BY <2>4, <2>5, OtherSegments
  <2>7. res_memory_commit_unconfig(r, b) = [s EXCEPT !.guest[mb.guest].seg = segs]
    BY <2>5 DEF res_memory_commit_unconfig
  <2> QED BY <2>5, <2>6, <2>7, KeepsTrans
<1>3. res_memory_commit_unconfig(r, b) \in Tables
  BY <1>2 DEF Keeps
<1> QED BY <1>1, <1>2, <1>3, KeepsTrans DEF res_memory_commit_modify

LEMMA HvLdcKeeps ==
  ASSUME NEW r \in Tables, NEW md, WellFormed(md)
  PROVE  /\ 0 \in DOMAIN md.hv_ldc => Keeps(r, res_hv_ldc_commit_config(r, md))
         /\ Keeps(r, res_hv_ldc_commit_unconfig(r))
         /\ Keeps(r, config_a_hvldc(r, md))
<1>1. ASSUME NEW H \in HvLdcType PROVE Keeps(r, [r EXCEPT !.hv_ldc = H])
  BY DEF Keeps, Tables, SameGuest, SameVcpu
<1>2. 0 \in DOMAIN md.hv_ldc =>
        [live |-> TRUE, guest |-> md.hv_ldc[0].guest, chan |-> md.hv_ldc[0].chan] \in HvLdcType
  BY DEF WellFormed, HvLdcType, GuestIds, Chans
<1>3. [r.hv_ldc EXCEPT !.live = FALSE] \in HvLdcType
  BY DEF Tables, HvLdcType
<1> QED BY <1>1, <1>2, <1>3, KeepsItself
     DEF res_hv_ldc_commit_config, res_hv_ldc_commit_unconfig, config_a_hvldc

LEMMA LdcKeeps ==
  ASSUME NEW r \in Tables, NEW md, WellFormed(md), NEW g \in Guests, NEW c \in Chans
  PROVE  /\ <<g, c>> \in DOMAIN md.ldc => Keeps(r, res_ldc_commit_config(r, md, g, c))
         /\ Keeps(r, res_ldc_commit_unconfig(r, g, c))
<1> DEFINE G == r.guest[g]
           ep == G.ldc[c]
<1>1. G \in GuestType
  BY DEF Tables
<1>2. ep \in EndpointType /\ ep.tx_ino \in Int /\ ep.rx_ino \in Int
  <2>1. G.ldc \in [Chans -> EndpointType]
    BY <1>1 DEF GuestType
  <2>2. ep \in EndpointType
    BY <2>1
  <2> QED BY <2>2 DEF EndpointType
<1>c. c \in Int
  BY TablesAssumption DEF Chans
<1>v. G.vino \in SUBSET Vinos /\ G.ino2ep \in [Inos -> Int] /\ None \in Int
  BY <1>1 DEF GuestType, None
<1>3. ASSUME NEW e \in EndpointType, NEW map \in [Inos -> Int], NEW vino \in SUBSET Vinos
      PROVE  LET s == [r EXCEPT !.guest[g].ldc[c] = e]
             IN  /\ Keeps(r, s)
                 /\ Keeps(r, [s EXCEPT !.guest[g].ino2ep = map, !.guest[g].vino = vino])
  <2> DEFINE s == [r EXCEPT !.guest[g].ldc[c] = e]
             H == [G EXCEPT !.ldc[c] = e]
  <2>1. H \in GuestType /\ SameGuest(G, H)
    BY <1>1 DEF GuestType, SameGuest
  <2>2. s = [r EXCEPT !.guest[g] = H]
    OBVIOUS
  <2>3. Keeps(r, s)
    BY <2>1, <2>2, SetGuestKeeps
  <2>4. s \in Tables /\ s.guest[g] = H
    BY <2>1, <2>2, SetGuest
  <2> DEFINE K == [H EXCEPT !.ino2ep = map, !.vino = vino]
  <2>5. K \in GuestType /\ SameGuest(H, K)
    BY <2>1 DEF GuestType, SameGuest
  <2>6. [s EXCEPT !.guest[g].ino2ep = map, !.guest[g].vino = vino] = [s EXCEPT !.guest[g] = K]
    BY <2>4 DEF Tables
  <2>7. Keeps(s, [s EXCEPT !.guest[g] = K])
    BY <2>4, <2>5, SetGuestKeeps
  <2> QED BY <2>3, <2>6, <2>7, KeepsTrans
<1>4. ASSUME <<g, c>> \in DOMAIN md.ldc PROVE Keeps(r, res_ldc_commit_config(r, md, g, c))
  <2> DEFINE node == md.ldc[<<g, c>>]
             e == [live |-> TRUE, target |-> node.target, private |-> node.private,
                   tx_ino |-> IF node.private THEN ep.tx_ino ELSE node.tx_ino,
                   rx_ino |-> IF node.private THEN ep.rx_ino ELSE node.rx_ino]
             s == [r EXCEPT !.guest[g].ldc[c] = e]
             map == [s.guest[g].ino2ep EXCEPT ![node.tx_ino] = c, ![node.rx_ino] = c]
             vino == s.guest[g].vino \cup {<<"CDEV", node.tx_ino>>, <<"CDEV", node.rx_ino>>}
  <2>1. node \in [target : Targets, private : BOOLEAN, tx_ino : Int, rx_ino : Int]
    BY <1>4 DEF WellFormed
  <2>2. e \in EndpointType
    BY <1>2, <2>1 DEF EndpointType
  <2>4. s.guest[g].ino2ep = G.ino2ep /\ s.guest[g].vino = G.vino
    BY <1>1 DEF Tables, GuestType
  <2>3. vino \in SUBSET Vinos
    <3>1. node.tx_ino \in Int /\ node.rx_ino \in Int /\ "CDEV" \in Devices
      BY <2>1 DEF Devices
    <3> HIDE DEF node, s
    <3> QED BY <1>v, <2>4, <3>1, VinoSets
  <2>6. map \in [Inos -> Int]
    BY <1>v, <1>c, <2>4
  <2>5. res_ldc_commit_config(r, md, g, c) =
          IF node.private THEN s ELSE [s EXCEPT !.guest[g].ino2ep = map, !.guest[g].vino = vino]
    BY DEF res_ldc_commit_config
  <2>7. Keeps(r, s) /\ Keeps(r, [s EXCEPT !.guest[g].ino2ep = map, !.guest[g].vino = vino])
    <3> HIDE DEF e, map, vino
    <3> QED BY <1>3, <2>2, <2>3, <2>6
  <2> HIDE DEF s, map, vino
  <2> QED BY <2>5, <2>7
<1>5. Keeps(r, res_ldc_commit_unconfig(r, g, c))
  <2> DEFINE e == [ep EXCEPT !.live = FALSE]
             s == [r EXCEPT !.guest[g].ldc[c] = e]
             map == [s.guest[g].ino2ep EXCEPT ![ep.tx_ino] = None, ![ep.rx_ino] = None]
             vino == s.guest[g].vino \ {<<"CDEV", ep.tx_ino>>, <<"CDEV", ep.rx_ino>>}
  <2>2. e \in EndpointType
    BY <1>2 DEF EndpointType
  <2>4. s.guest[g].ino2ep = G.ino2ep /\ s.guest[g].vino = G.vino
    BY <1>1 DEF Tables, GuestType
  <2>3. vino \in SUBSET Vinos
    BY <1>v, <1>2, <2>4, VinoSets DEF Devices
  <2>6. map \in [Inos -> Int]
    BY <1>v, <2>4
  <2>5. res_ldc_commit_unconfig(r, g, c) =
          IF ep.private THEN s ELSE [s EXCEPT !.guest[g].ino2ep = map, !.guest[g].vino = vino]
    BY DEF res_ldc_commit_unconfig
  <2>7. Keeps(r, s) /\ Keeps(r, [s EXCEPT !.guest[g].ino2ep = map, !.guest[g].vino = vino])
    <3> HIDE DEF e, map, vino
    <3> QED BY <1>3, <2>2, <2>3, <2>6
  <2> HIDE DEF s, map, vino
  <2> QED BY <2>5, <2>7
<1> QED BY <1>4, <1>5

LEMMA ConsoleKeeps ==
  ASSUME NEW r \in Tables, NEW md, WellFormed(md), NEW g \in Guests
  PROVE  /\ g \in DOMAIN md.console => Keeps(r, res_console_commit_config(r, md, g))
         /\ Keeps(r, res_console_commit_unconfig(r, g))
         /\ g \in DOMAIN md.console => Keeps(r, res_console_commit_modify(r, md, g))
<1>1. ASSUME NEW q \in Tables, NEW cons \in ConsoleType PROVE Keeps(q, [q EXCEPT !.guest[g].console = cons])
  <2> DEFINE H == [q.guest[g] EXCEPT !.console = cons]
  <2>0. q.guest[g] \in GuestType
    BY DEF Tables
  <2>1. H \in GuestType /\ SameGuest(q.guest[g], H)
    BY <2>0 DEF GuestType, SameGuest
  <2> QED BY <2>1, SetGuestKeeps
<1>2. ASSUME NEW q \in Tables, NEW cons \in ConsoleType, NEW holds, NEW label \in Labels, NEW ino \in Int
      PROVE  LET s == ASSERT([q EXCEPT !.guest[g].console = cons], holds, label)
             IN  /\ Keeps(q, config_a_guest_device_vino(s, g, ino, "VDEV"))
                 /\ Keeps(q, unconfig_a_guest_device_vino(s, g, ino, "VDEV"))
  <2> DEFINE s == ASSERT([q EXCEPT !.guest[g].console = cons], holds, label)
  <2>1. Keeps(q, [q EXCEPT !.guest[g].console = cons])
    BY <1>1
  <2>2. Keeps([q EXCEPT !.guest[g].console = cons], s)
    BY <2>1, AssertKeeps DEF Keeps
  <2>3. Keeps(q, s) /\ s \in Tables
    BY <2>1, <2>2, KeepsTrans DEF Keeps
  <2> HIDE DEF s
  <2>4. /\ Keeps(s, config_a_guest_device_vino(s, g, ino, "VDEV"))
        /\ Keeps(s, unconfig_a_guest_device_vino(s, g, ino, "VDEV"))
    BY <2>3, VinoKeeps DEF Devices
  <2>5. /\ Keeps(q, config_a_guest_device_vino(s, g, ino, "VDEV"))
        /\ Keeps(q, unconfig_a_guest_device_vino(s, g, ino, "VDEV"))
    BY <2>3, <2>4, KeepsTrans
  <2> QED BY <2>5 DEF s
<1>3. ASSUME NEW q \in Tables, g \in DOMAIN md.console PROVE Keeps(q, res_console_commit_config(q, md, g))
  <2>1. md.console[g] \in ConsoleType
    BY <1>3 DEF WellFormed, ConsoleType
  <2>2. md.console[g].ino \in Int
    BY <2>1 DEF ConsoleType
  <2>3. "console config" \in Labels /\ "console unconfig" \in Labels
    BY DEF Labels
  <2> QED BY <1>1, <1>2, <2>1, <2>2, <2>3 DEF res_console_commit_config
<1>4. Keeps(r, res_console_commit_unconfig(r, g))
  <2>1. NoConsole \in ConsoleType /\ r.guest[g].console \in ConsoleType
    BY DEF NoConsole, ConsoleType, None, Tables, GuestType
  <2>2. r.guest[g].console.ino \in Int
    BY <2>1 DEF ConsoleType
  <2>3. "console config" \in Labels /\ "console unconfig" \in Labels
    BY DEF Labels
  <2> QED BY <1>1, <1>2, <2>1, <2>2, <2>3 DEF res_console_commit_unconfig
<1>5. res_console_commit_unconfig(r, g) \in Tables
  BY <1>4 DEF Keeps
<1> QED BY <1>3, <1>4, <1>5, KeepsTrans DEF res_console_commit_modify

LEMMA DevicesKeep ==
  ASSUME NEW r \in Tables, NEW md, WellFormed(md)
  PROVE  /\ 0 \in DOMAIN md.pcie_bus => Keeps(r, res_pcie_bus_commit_config(r, md))
         /\ Keeps(r, res_pcie_bus_commit_unconfig(r))
         /\ 0 \in DOMAIN md.network_device => Keeps(r, res_network_device_commit_config(r, md))
         /\ Keeps(r, res_network_device_commit_unconfig(r))
<1>0. /\ {PIU_BASE, PIU_LIMIT - PIU_BASE, NIU_BASE, NIU_LIMIT - NIU_BASE, FPGA_UART_BASE,
          INVALID_SEGMENT_SIZE} \subseteq Int
      /\ 0 \in Int /\ 1 \in Int
  BY TablesAssumption
     DEF PIU_BASE, PIU_LIMIT, NIU_BASE, NIU_LIMIT, FPGA_UART_BASE, FPGA_BASE, INVALID_SEGMENT_SIZE, RA2PA
<1>1. ASSUME NEW g, NEW segs, NEW vino,
             g \in Guests => segs \in [Segs -> SegmentType] /\ vino \in SUBSET Vinos
      PROVE  Keeps(r, [r EXCEPT !.guest[g].seg = segs, !.guest[g].vino = vino])
  <2> DEFINE H == [r.guest[g] EXCEPT !.seg = segs, !.vino = vino]
  <2>0. g \in Guests => r.guest[g] \in GuestType
    BY DEF Tables
  <2>1. g \in Guests => H \in GuestType /\ SameGuest(r.guest[g], H)
    BY <1>1, <2>0 DEF GuestType, SameGuest
  <2>2. [r EXCEPT !.guest[g].seg = segs, !.guest[g].vino = vino] = [r EXCEPT !.guest[g] = H]
    BY DEF Tables
  <2> QED BY <2>1, <2>2, SetGuestKeeps
<1>2. ASSUME NEW g
      PROVE  /\ Keeps(r, config_a_guest_pcie_bus(r, g)) /\ Keeps(r, unconfig_a_guest_pcie_bus(r, g))
             /\ Keeps(r, config_a_guest_network_device(r, g))
             /\ Keeps(r, unconfig_a_guest_network_device(r, g))
  <2>1. g \in Guests => r.guest[g].seg \in [Segs -> SegmentType] /\ r.guest[g].vino \in SUBSET Vinos
    BY DEF Tables, GuestType
  <2>2. g \in Guests => /\ r.guest[g].vino \cup {<<"PIU", 0>>} \in SUBSET Vinos
                        /\ r.guest[g].vino \ {<<"PIU", 0>>} \in SUBSET Vinos
                        /\ r.guest[g].vino \cup {<<"NIU", 0>>} \in SUBSET Vinos
                        /\ r.guest[g].vino \ {<<"NIU", 0>>} \in SUBSET Vinos
    <3>1. 0 \in Int /\ "PIU" \in Devices /\ "NIU" \in Devices
      BY DEF Devices
    <3> QED BY <2>1, <3>1, VinoSets
  <2> DEFINE segs == r.guest[g].seg
             piu(size, flags) == assign_ra2pa_segments(segs, PIU_BASE, size, 0, flags)
             uart(size, flags) == assign_ra2pa_segments(piu(size, flags), FPGA_UART_BASE, 1, 0, flags)
             niu(flags) == assign_ra2pa_segments(segs, NIU_BASE, NIU_LIMIT - NIU_BASE, 0, flags)
  <2>3. ASSUME NEW size \in Int, NEW flags \in {"INVALID", "MEM", "IO"}, g \in Guests
        PROVE  uart(size, flags) \in [Segs -> SegmentType] /\ niu(flags) \in [Segs -> SegmentType]
    <3>1. piu(size, flags) \in [Segs -> SegmentType]
      BY <1>0, <2>1, <2>3, Segments
    <3> QED BY <1>0, <2>1, <2>3, <3>1, Segments
  <2>4. /\ g \in Guests => uart(PIU_LIMIT - PIU_BASE, "IO") \in [Segs -> SegmentType]
        /\ g \in Guests => uart(INVALID_SEGMENT_SIZE, "INVALID") \in [Segs -> SegmentType]
        /\ g \in Guests => niu("IO") \in [Segs -> SegmentType]
        /\ g \in Guests => niu("INVALID") \in [Segs -> SegmentType]
    BY <1>0, <2>3
  <2>5. Keeps(r, config_a_guest_pcie_bus(r, g))
    BY <1>1, <2>2, <2>4 DEF config_a_guest_pcie_bus
  <2>6. Keeps(r, unconfig_a_guest_pcie_bus(r, g))
    BY <1>1, <2>2, <2>4 DEF unconfig_a_guest_pcie_bus
  <2>7. Keeps(r, config_a_guest_network_device(r, g))
    BY <1>1, <2>2, <2>4 DEF config_a_guest_network_device
  <2>8. Keeps(r, unconfig_a_guest_network_device(r, g))
    BY <1>1, <2>2, <2>4 DEF unconfig_a_guest_network_device
  <2> QED BY <2>5, <2>6, <2>7, <2>8
<1>3. ASSUME NEW q, Keeps(r, q), NEW g \in GuestIds
      PROVE  Keeps(r, [q EXCEPT !.pcie_bus = g]) /\ Keeps(r, [q EXCEPT !.network_device = g])
  BY <1>3 DEF Keeps, Tables, SameGuest, SameVcpu
<1>4. None \in GuestIds
  BY DEF GuestIds
<1>5. /\ 0 \in DOMAIN md.pcie_bus => md.pcie_bus[0].guest \in GuestIds
      /\ 0 \in DOMAIN md.network_device => md.network_device[0].guest \in GuestIds
  BY DEF WellFormed, GuestIds
<1> QED BY <1>2, <1>3, <1>4, <1>5
     DEF res_pcie_bus_commit_config, res_pcie_bus_commit_unconfig, res_network_device_commit_config,
         res_network_device_commit_unconfig

LEMMA MinIn == ASSUME NEW T \in SUBSET Nat, T # {} PROVE Min(T) \in T /\ \A k \in T : Min(T) <= k
<1>1. \E m \in T : \A k \in T : m <= k
  BY CommitEach!Least
<1> QED BY <1>1 DEF Min

LEMMA SetUnit ==
  ASSUME NEW r \in Tables, NEW t \in {"mau", "cwq"}, NEW c, NEW U, c \in Cores => U \in UnitType
  PROVE  Keeps(r, [r EXCEPT ![t][c] = U])
<1>1. CASE t = "mau"
  BY <1>1 DEF Keeps, Tables, SameGuest, SameVcpu
<1>2. CASE t = "cwq"
  BY <1>2 DEF Keeps, Tables, SameGuest, SameVcpu
<1> QED BY <1>1, <1>2

LEMMA SetGuestUnit ==
  ASSUME NEW r \in Tables, NEW t \in {"mau", "cwq"}, NEW g, NEW c, NEW u \in Int
  PROVE  Keeps(r, [r EXCEPT !.guest[g][t][c] = u])
<1> DEFINE G == r.guest[g]
<1>0. g \in Guests => G \in GuestType
  BY DEF Tables
<1>1. CASE t = "mau"
  <2>1. g \in Guests => [G EXCEPT !.mau[c] = u] \in GuestType /\ SameGuest(G, [G EXCEPT !.mau[c] = u])
    BY <1>0 DEF GuestType, SameGuest
  <2> QED BY <1>1, <2>1, SetGuestKeeps
<1>2. CASE t = "cwq"
  <2>1. g \in Guests => [G EXCEPT !.cwq[c] = u] \in GuestType /\ SameGuest(G, [G EXCEPT !.cwq[c] = u])
    BY <1>0 DEF GuestType, SameGuest
  <2> QED BY <1>2, <2>1, SetGuestKeeps
<1> QED BY <1>1, <1>2

LEMMA SetVcpuUnit ==
  ASSUME NEW r \in Tables, NEW t \in {"mau", "cwq"}, NEW v, NEW u \in Int
  PROVE  Keeps(r, [r EXCEPT !.vcpu[v][t] = u])
<1> DEFINE V == r.vcpu[v]
<1>0. v \in Vcpus => V \in VcpuType
  BY DEF Tables
<1>3. ASSUME NEW W, v \in Vcpus => W \in VcpuType /\ SameVcpu(V, W) PROVE Keeps(r, [r EXCEPT !.vcpu[v] = W])
  BY <1>3, SetVcpu DEF Keeps, SameGuest, SameVcpu
<1>1. CASE t = "mau"
  <2>1. v \in Vcpus => [V EXCEPT !.mau = u] \in VcpuType /\ SameVcpu(V, [V EXCEPT !.mau = u])
    BY <1>0 DEF VcpuType, SameVcpu
  <2> QED BY <1>1, <1>3, <2>1
<1>2. CASE t = "cwq"
  <2>1. v \in Vcpus => [V EXCEPT !.cwq = u] \in VcpuType /\ SameVcpu(V, [V EXCEPT !.cwq = u])
    BY <1>0 DEF VcpuType, SameVcpu
  <2> QED BY <1>2, <1>3, <2>1
<1> QED BY <1>1, <1>2

LEMMA UnitTypes ==
  ASSUME NEW r \in Tables, NEW t \in {"mau", "cwq"}, NEW c \in Cores
  PROVE  r[t][c] \in UnitType /\ NoUnit \in UnitType
<1>1. r["mau"][c] \in UnitType /\ r["cwq"][c] \in UnitType
  BY DEF Tables
<1>2. NoUnit \in UnitType
  BY DEF NoUnit, UnitType, GuestIds, None
<1> QED BY <1>1, <1>2

LEMMA SetupKeeps ==
  ASSUME NEW r \in Tables, NEW t \in {"mau", "cwq"}, NEW c \in Cores, NEW v \in Vcpus, NEW ino \in Int
  PROVE  Keeps(r, setup_a_unit(r, t, c, v, ino))
<1> DEFINE U == r[t][c]
           thread == r.vcpu[v].strand % NSTRANDS_PER_CORE
           cpuset == U.cpuset \cup {thread}
           first == thread \notin U.cpuset /\ cpuset = {thread}
           W == [state |-> IF first THEN "RUNNING" ELSE U.state, guest |-> r.vcpu[v].guest,
                 ino |-> IF first THEN ino ELSE U.ino, cpuset |-> cpuset]
<1>1. U \in UnitType
  BY UnitTypes
<1>2. r.vcpu[v].strand \in Int /\ r.vcpu[v].guest \in GuestIds
  BY DEF Tables, VcpuType
<1>3. thread \in Int
  BY <1>2, TablesAssumption
<1>4. /\ U.state \in {"UNCONFIGURED", "RUNNING"} /\ U.ino \in Int /\ U.cpuset \in SUBSET Int
  BY <1>1 DEF UnitType
<1>5. cpuset \in SUBSET Int
  BY <1>3, <1>4
<1>6. W \in UnitType
  <2> HIDE DEF U, thread, cpuset, first
  <2> QED BY <1>2, <1>4, <1>5 DEF UnitType
<1>7. setup_a_unit(r, t, c, v, ino) = [r EXCEPT ![t][c] = W]
  BY DEF setup_a_unit
<1>8. Keeps(r, [r EXCEPT ![t][c] = W])
  <2> HIDE DEF W
  <2> QED BY <1>6, SetUnit
<1> HIDE DEF W
<1> QED BY <1>7, <1>8

\* A loop whose rounds keep the tables keeps them.
LEMMA ConfigStrandKeeps ==
  ASSUME NEW r \in Tables, NEW md, WellFormed(md), NEW t \in {"mau", "cwq"}, NEW c \in Cores,
         c \in DOMAIN md[t], NEW thread \in Int
  PROVE  Keeps(r, unit_config_strand(r, md, t, c, thread))
<1> DEFINE vs == strand_in_vcpu_list(r, StrandOf(c, thread))
           v == Min(vs)
           q == [r EXCEPT !.vcpu[v][t] = c]
           ino == md[t][c].ino
           s == setup_a_unit(q, t, c, v, ino)
<1>1. ino \in Int /\ c \in Int
  BY TablesAssumption DEF WellFormed, Cores
<1>2. ASSUME vs # {} PROVE Keeps(r, config_a_guest_device_vino(s, s[t][c].guest, ino, "VDEV"))
  <2>1. vs \in SUBSET Nat /\ vs \subseteq Vcpus
    BY TablesAssumption DEF strand_in_vcpu_list, Vcpus
  <2>2. v \in Vcpus
    <3> HIDE DEF vs
    <3> QED BY <1>2, <2>1, MinIn
  <2> HIDE DEF v, ino
  <2>3. Keeps(r, q)
    BY <1>1, SetVcpuUnit
  <2> HIDE DEF q
  <2>4. q \in Tables
    BY <2>3 DEF Keeps
  <2>5. Keeps(q, s)
    BY <1>1, <2>2, <2>4, SetupKeeps
  <2> HIDE DEF s
  <2>6. s \in Tables /\ "VDEV" \in Devices
    BY <2>5 DEF Keeps, Devices
  <2>7. Keeps(s, config_a_guest_device_vino(s, s[t][c].guest, ino, "VDEV"))
    BY <1>1, <2>6, VinoKeeps
  <2> QED BY <2>3, <2>5, <2>7, KeepsTrans
<1>3. Keeps(r, ASSERT(r, FALSE, "hvabort"))
  BY AssertKeeps DEF Labels
<1> QED BY <1>2, <1>3, KeepsItself DEF unit_config_strand

LEMMA LeaveKeeps ==
  ASSUME NEW r \in Tables, NEW t \in {"mau", "cwq"}, NEW c \in Cores, NEW thread
  PROVE  Keeps(r, unconfig_strand_from_unit(r, t, c, thread))
<1> DEFINE U == r[t][c]
           cpuset == U.cpuset \ {thread}
           q == [r EXCEPT ![t][c] = [NoUnit EXCEPT !.ino = U.ino]]
<1>1. U \in UnitType /\ NoUnit \in UnitType /\ [NoUnit EXCEPT !.ino = U.ino] \in UnitType /\ None \in Int
  BY UnitTypes DEF None, UnitType
<1>2. [U EXCEPT !.cpuset = cpuset] \in UnitType
  BY <1>1 DEF UnitType
<1>3. Keeps(r, [r EXCEPT ![t][c].cpuset = cpuset])
  BY <1>2, SetUnit
<1>4. Keeps(r, q)
  BY <1>1, SetUnit
<1>5. q \in Tables
  BY <1>4 DEF Keeps
<1>6. ASSUME NEW g PROVE Keeps(r, [q EXCEPT !.guest[g][t][c] = None])
  <2> HIDE DEF q
  <2> QED BY <1>1, <1>4, <1>5, SetGuestUnit, KeepsTrans
<1> HIDE DEF cpuset
<1> QED BY <1>3, <1>6 DEF unconfig_strand_from_unit, cpuset

LEMMA UnconfigStrandKeeps ==
  ASSUME NEW r \in Tables, NEW t \in {"mau", "cwq"}, NEW c \in Cores, NEW thread
  PROVE  Keeps(r, unit_unconfig_strand(r, t, c, thread))
<1> DEFINE U == r[t][c]
           s == ASSERT(r, strand_in_vcpu_list(r, StrandOf(c, thread)) # {}, "hvabort")
           q == unconfig_a_guest_device_vino(s, U.guest, U.ino, "VDEV")
<1>1. U.ino \in Int /\ "VDEV" \in Devices /\ "hvabort" \in Labels
  BY UnitTypes DEF UnitType, Devices, Labels
<1>2. Keeps(r, s) /\ s \in Tables
  BY <1>1, AssertKeeps DEF Keeps
<1>3. Keeps(s, q) /\ q \in Tables
  <2> HIDE DEF s, U
  <2>1. Keeps(s, q)
    BY <1>1, <1>2, VinoKeeps
  <2> QED BY <2>1 DEF Keeps
<1>4. Keeps(q, unconfig_strand_from_unit(q, t, c, thread))
  <2> HIDE DEF q
  <2> QED BY <1>3, LeaveKeeps
<1>5. Keeps(r, unconfig_strand_from_unit(q, t, c, thread))
  <2> HIDE DEF q, s
  <2> QED BY <1>2, <1>3, <1>4, KeepsTrans
<1> HIDE DEF q
<1> QED BY <1>5, KeepsItself DEF unit_unconfig_strand, q

LEMMA ModifyStrandKeeps ==
  ASSUME NEW r \in Tables, NEW md, WellFormed(md), NEW t \in {"mau", "cwq"}, NEW c \in Cores,
         c \in DOMAIN md[t], NEW thread \in Int
  PROVE  Keeps(r, unit_modify_strand(r, md, t, c, thread))
<1> DEFINE vs == unit_to_vcpu(r, t, c, StrandOf(c, thread))
           v == Min(vs)
           q == [r EXCEPT !.vcpu[v][t] = c]
           ino == md[t][c].ino
<1>1. ino \in Int /\ c \in Int
  BY TablesAssumption DEF WellFormed, Cores
<1>2. ASSUME vs # {} PROVE Keeps(r, setup_a_unit(q, t, c, v, ino))
  <2>1. vs \in SUBSET Nat /\ vs \subseteq Vcpus
    BY TablesAssumption DEF unit_to_vcpu, strand_in_vcpu_list, Vcpus
  <2>2. v \in Vcpus
    <3> HIDE DEF vs
    <3> QED BY <1>2, <2>1, MinIn
  <2> HIDE DEF v, ino
  <2>3. Keeps(r, q)
    BY <1>1, SetVcpuUnit
  <2> HIDE DEF q
  <2>4. q \in Tables
    BY <2>3 DEF Keeps
  <2> QED BY <1>1, <2>2, <2>3, <2>4, SetupKeeps, KeepsTrans
<1>3. Keeps(r, ASSERT(r, FALSE, "unit modify"))
  BY AssertKeeps DEF Labels
<1>4. Keeps(r, unconfig_strand_from_unit(r, t, c, thread))
  BY LeaveKeeps
<1> QED BY <1>2, <1>3, <1>4, KeepsItself DEF unit_modify_strand

LEMMA UnitKeeps ==
  ASSUME NEW r \in Tables, NEW md, WellFormed(md), NEW t \in {"mau", "cwq"}, NEW c \in Cores
  PROVE  /\ Keeps(r, unit_commit_unconfig(r, t, c))
         /\ c \in DOMAIN md[t] => Keeps(r, unit_commit_config(r, md, t, c))
         /\ c \in DOMAIN md[t] => Keeps(r, unit_commit_modify(r, md, t, c))
<1> DEFINE n == NSTRANDS_PER_CORE
           p == [md |-> md, t |-> t, c |-> c]
           S(q) == [k \in 0 .. n |-> {s \in Tables : Keeps(q, s)}]
<1>0. n \in Nat
  BY TablesAssumption
<1>1. ASSUME NEW q \in Tables
      PROVE  /\ \A s : s \in S(q)[0] <=> Keeps(q, s)
             /\ \A s : s \in S(q)[n] <=> Keeps(q, s)
             /\ \A k \in 0 .. n - 1 : \A s : s \in S(q)[k] <=> Keeps(q, s)
             /\ \A k \in 0 .. n - 1 : \A s : s \in S(q)[k + 1] <=> Keeps(q, s)
             /\ q \in S(q)[0]
  BY <1>0, KeepsItself DEF Keeps
<1> HIDE DEF S
<1>2. Keeps(r, unit_commit_unconfig(r, t, c))
  <2>1. \A k \in 0 .. n - 1 : \A s \in S(r)[k] : unit_unconfig_strand(s, t, c, k) \in S(r)[k + 1]
    BY <1>1, UnconfigStrandKeeps, KeepsTrans DEF Keeps
  <2> DEFINE pp == [t |-> t, c |-> c]
  <2>2. UnconfigStrands!Loop(pp, r, n) \in S(r)[n]
    BY <1>0, <1>1, <2>1, UnconfigStrands!LoopCorrect
  <2> QED BY <1>1, <2>2 DEF unit_commit_unconfig
<1>3. ASSUME c \in DOMAIN md[t] PROVE Keeps(r, unit_commit_modify(r, md, t, c))
  <2>1. \A k \in 0 .. n - 1 : \A s \in S(r)[k] : unit_modify_strand(s, md, t, c, k) \in S(r)[k + 1]
    BY <1>1, <1>3, ModifyStrandKeeps, KeepsTrans DEF Keeps
  <2>2. ModifyStrands!Loop(p, r, n) \in S(r)[n]
    BY <1>0, <1>1, <2>1, ModifyStrands!LoopCorrect
  <2> QED BY <1>1, <2>2 DEF unit_commit_modify
<1>4. ASSUME c \in DOMAIN md[t] PROVE Keeps(r, unit_commit_config(r, md, t, c))
  <2> DEFINE g == md[t][c].guest
             a == ASSERT(r, r.guest[g][t][c] = None, "unit config")
             q == [a EXCEPT !.guest[g][t][c] = c]
  <2>0. c \in Int /\ "unit config" \in Labels
    BY TablesAssumption DEF Cores, Labels
  <2>1. Keeps(r, a) /\ a \in Tables
    BY <2>0, AssertKeeps DEF Keeps
  <2> HIDE DEF a, g
  <2>2. Keeps(a, q)
    BY <2>0, <2>1, SetGuestUnit
  <2>3. Keeps(r, q) /\ q \in Tables
    BY <2>1, <2>2, KeepsTrans DEF Keeps
  <2> HIDE DEF q
  <2>4. \A k \in 0 .. n - 1 : \A s \in S(q)[k] : unit_config_strand(s, md, t, c, k) \in S(q)[k + 1]
    BY <1>1, <1>4, <2>3, ConfigStrandKeeps, KeepsTrans DEF Keeps
  <2>5. ConfigStrands!Loop(p, q, n) \in S(q)[n]
    BY <1>0, <1>1, <2>3, <2>4, ConfigStrands!LoopCorrect
  <2>6. Keeps(q, ConfigStrands!Loop(p, q, n))
    BY <1>1, <2>3, <2>5
  <2>7. Keeps(r, ConfigStrands!Loop(p, q, n))
    BY <2>3, <2>6, KeepsTrans
  <2> QED BY <2>7 DEF unit_commit_config, q, a, g
<1> QED BY <1>2, <1>3, <1>4

-----------------------------------------------------------------------------
(* Guests and vcpus.                                                       *)

\* What the commit of guest g may change of the tables r.
GuestDone(r, q, g, state) ==
    /\ q \in Tables
    /\ q.guest[g].state = state
    /\ \A h \in Guests \ {g} : SameGuest(r.guest[h], q.guest[h])
    /\ \A i \in Vcpus : q.guest[g].vcpus[i] \in {r.guest[g].vcpus[i], None}
    /\ \A v \in Vcpus : SameVcpu(r.vcpu[v], q.vcpu[v])

LEMMA InitGuestType ==
  /\ init_guest \in GuestType
  /\ init_guest.state = "UNCONFIGURED"
  /\ init_guest.vcpus = [v \in Vcpus |-> None]
<1>1. FPGA_BASE \in Int /\ RA2PA \in Int /\ 0 \in Int
  BY TablesAssumption DEF FPGA_BASE, RA2PA
<1>2. [s \in Segs |-> init_ra2pa_segment] \in [Segs -> SegmentType]
  BY DEF init_ra2pa_segment, SegmentType, None
<1> DEFINE segs == assign_ra2pa_segments([s \in Segs |-> init_ra2pa_segment], FPGA_BASE, RA2PA, 0, "IO")
<1>3. segs \in [Segs -> SegmentType]
  BY <1>1, <1>2, Segments
<1>4. NoEndpoint \in EndpointType /\ NoConsole \in ConsoleType
  BY DEF NoEndpoint, EndpointType, NoConsole, ConsoleType, None, Targets
<1>5. None \in RealBases /\ None \in Int /\ {} \in SUBSET Vinos /\ "UNCONFIGURED" \in GuestStates
  BY DEF RealBases, None, GuestStates
<1> HIDE DEF segs
<1>6. init_guest =
        [state |-> "UNCONFIGURED", md_pa |-> None, real_base |-> None, rng |-> 0,
         vcpus |-> [v \in Vcpus |-> None], seg |-> segs, ldc |-> [c \in Chans |-> NoEndpoint],
         ino2ep |-> [i \in Inos |-> None], vino |-> {}, console |-> NoConsole,
         mau |-> [c \in Cores |-> None], cwq |-> [c \in Cores |-> None]]
  BY DEF init_guest, segs
<1> QED BY <1>1, <1>3, <1>4, <1>5, <1>6 DEF GuestType

LEMMA GuestUnconfig ==
  ASSUME NEW r \in Tables, NEW g \in Guests
  PROVE  GuestDone(r, res_guest_commit_unconfig(r, g), g, "UNCONFIGURED")
<1> DEFINE a == ASSERT(r, r.guest[g].state = "STOPPED", "guest unconfig")
<1>1. Keeps(r, a) /\ a \in Tables
  BY AssertKeeps DEF Keeps, Labels
<1>2. res_guest_commit_unconfig(r, g) = [a EXCEPT !.guest[g] = init_guest]
  BY DEF res_guest_commit_unconfig
<1> HIDE DEF a
<1>3. SameVcpu(init_guest, init_guest)
  BY DEF SameVcpu
<1> QED BY <1>1, <1>2, InitGuestType, SetGuest DEF GuestDone, Keeps, SameGuest

LEMMA GuestModify ==
  ASSUME NEW r \in Tables, NEW i \in DOMAIN Hvmds, WellFormed(Hvmds[i]), NEW g \in Guests,
         g \in DOMAIN Hvmds[i].guest
  PROVE  Keeps(r, res_guest_commit_modify(r, Hvmds[i], g))
<1> DEFINE md == Hvmds[i]
           G == r.guest[g]
           H == [G EXCEPT !.md_pa = md.guest[g].md_pa, !.real_base = RealBase(md, g)]
<1>1. md.guest[g].md_pa \in Int /\ RealBase(md, g) \in RealBases /\ G \in GuestType
  BY DEF WellFormed, RealBases, Tables
<1>2. H \in GuestType /\ SameGuest(G, H)
  BY <1>1 DEF GuestType, SameGuest
<1>3. res_guest_commit_modify(r, md, g) = [r EXCEPT !.guest[g] = H]
  BY DEF res_guest_commit_modify, Tables
<1>4. Keeps(r, [r EXCEPT !.guest[g] = H])
  <2> HIDE DEF H
  <2> QED BY <1>2, SetGuestKeeps
<1> QED BY <1>3, <1>4

LEMMA GuestConfig ==
  ASSUME NEW r \in Tables, NEW i \in DOMAIN Hvmds, WellFormed(Hvmds[i]), NEW g \in Guests,
         g \in DOMAIN Hvmds[i].guest
  PROVE  GuestDone(r, res_guest_commit_config(r, Hvmds[i], g), g, "STOPPED")
<1> DEFINE md == Hvmds[i]
           a == ASSERT(r, r.guest[g].state = "UNCONFIGURED", "guest config")
           q == res_guest_commit_modify(a, md, g)
           G == [q.guest[g] EXCEPT !.state = "STOPPED"]
           s == [q EXCEPT !.guest[g].state = "STOPPED"]
           H == [G EXCEPT !.vino = {}, !.ino2ep = [j \in Inos |-> None]]
<1>1. Keeps(r, a) /\ a \in Tables
  BY AssertKeeps DEF Keeps, Labels
<1>2. Keeps(r, q) /\ q \in Tables
  <2> HIDE DEF a
  <2> QED BY <1>1, GuestModify, KeepsTrans DEF Keeps
<1>3. res_guest_commit_config(r, md, g) =
        [s EXCEPT !.guest[g].vino = {}, !.guest[g].ino2ep = [j \in Inos |-> None]]
  BY DEF res_guest_commit_config
<1> HIDE DEF q
<1>4. q.guest[g] \in GuestType
  BY <1>2 DEF Tables
<1>5. G \in GuestType /\ G.state = "STOPPED" /\ G.vcpus = q.guest[g].vcpus
  BY <1>4 DEF GuestType, GuestStates
<1>6. s = [q EXCEPT !.guest[g] = G]
  OBVIOUS
<1> HIDE DEF s
<1>7. /\ s \in Tables /\ s.vcpu = q.vcpu
      /\ \A h \in Guests : s.guest[h] = IF h = g THEN G ELSE q.guest[h]
  <2> HIDE DEF G
  <2> QED BY <1>2, <1>5, <1>6 DEF Tables
<1>8. GuestDone(r, s, g, "STOPPED")
  <2> HIDE DEF G
  <2> QED BY <1>2, <1>5, <1>7 DEF GuestDone, Keeps, SameGuest
<1>9. s.guest[g] = G
  BY <1>7
<1>10. [s EXCEPT !.guest[g].vino = {}, !.guest[g].ino2ep = [j \in Inos |-> None]] = [s EXCEPT !.guest[g] = H]
  <2> HIDE DEF G
  <2> QED BY <1>7, <1>9 DEF Tables
<1>11. H \in GuestType /\ SameGuest(s.guest[g], H)
  <2>1. {} \in SUBSET Vinos /\ [j \in Inos |-> None] \in [Inos -> Int]
    BY DEF None
  <2>2. ASSUME NEW map \in [Inos -> Int], NEW vino \in SUBSET Vinos, NEW K \in GuestType
        PROVE  LET L == [K EXCEPT !.vino = vino, !.ino2ep = map] IN L \in GuestType /\ SameGuest(K, L)
    BY DEF GuestType, SameGuest
  <2> HIDE DEF G
  <2> QED BY <1>5, <1>9, <2>1, <2>2
<1>12. Keeps(s, [s EXCEPT !.guest[g] = H])
  <2> HIDE DEF H
  <2> QED BY <1>7, <1>11, SetGuestKeeps
<1> DEFINE u == [s EXCEPT !.guest[g] = H]
<1>13. res_guest_commit_config(r, md, g) = u
  BY <1>3, <1>10
<1> HIDE DEF u, md
<1>14. Keeps(s, u)
  BY <1>12 DEF u
<1> HIDE DEF H, G
<1>15. GuestDone(r, u, g, "STOPPED")
  BY <1>8, <1>14 DEF GuestDone, Keeps, SameGuest, SameVcpu
<1> QED BY <1>13, <1>15 DEF md

\* A slot of a guest's vcpus leads to a configured vcpu that leads back.
BackRefs(r) ==
    \A g \in Guests, i \in Vcpus :
        LET v == r.guest[g].vcpus[i]
        IN  v # None => r.vcpu[v].guest = g /\ r.vcpu[v].vid = i /\ r.vcpu[v].status # "UNCONFIGURED"

\* What the commit of vcpu v may change.
VcpuDone(r, q, v) ==
    /\ q \in Tables
    /\ \A g \in Guests : q.guest[g].state = r.guest[g].state
    /\ \A w \in Vcpus \ {v} : SameVcpu(r.vcpu[w], q.vcpu[w])

WithSlot(r, v, V, g, i, u) == [r EXCEPT !.vcpu[v] = V, !.guest[g].vcpus[i] = u]

LEMMA SetSlot ==
  ASSUME NEW r \in Tables, NEW v \in Vcpus, NEW V \in VcpuType, NEW g, NEW i, NEW u \in Vcpus \cup {None}
  PROVE  /\ VcpuDone(r, WithSlot(r, v, V, g, i, u), v)
         /\ WithSlot(r, v, V, g, i, u).vcpu[v] = V
         /\ \A h \in Guests, j \in Vcpus :
                WithSlot(r, v, V, g, i, u).guest[h].vcpus[j] = IF h = g /\ j = i THEN u ELSE r.guest[h].vcpus[j]
<1> DEFINE s == [r EXCEPT !.vcpu[v] = V]
           G == s.guest[g]
           H == [G EXCEPT !.vcpus[i] = u]
           q == [s EXCEPT !.guest[g] = H]
<1>1. /\ s \in Tables /\ s.guest = r.guest
      /\ \A w \in Vcpus : s.vcpu[w] = IF w = v THEN V ELSE r.vcpu[w]
  BY DEF Tables
<1> HIDE DEF s
<1>2. g \in Guests => G \in GuestType
  BY <1>1 DEF Tables
<1>h. g \in Guests => H \in GuestType
  BY <1>2 DEF GuestType
<1>3. g \in Guests => /\ H.state = G.state
                      /\ \A j \in Vcpus : H.vcpus[j] = IF j = i THEN u ELSE G.vcpus[j]
  BY <1>2 DEF GuestType
<1>4. /\ q \in Tables /\ q.vcpu = s.vcpu
      /\ \A h \in Guests : q.guest[h] = IF h = g THEN H ELSE s.guest[h]
  <2> HIDE DEF H
  <2> QED BY <1>1, <1>h DEF Tables
<1>5. WithSlot(r, v, V, g, i, u) = q
  BY DEF s, WithSlot
<1> HIDE DEF q, H
<1>6. VcpuDone(r, q, v) /\ q.vcpu[v] = V
  BY <1>1, <1>3, <1>4 DEF VcpuDone, SameVcpu
<1>7. \A h \in Guests, j \in Vcpus :
          q.guest[h].vcpus[j] = IF h = g /\ j = i THEN u ELSE r.guest[h].vcpus[j]
  BY <1>1, <1>3, <1>4
<1> QED BY <1>5, <1>6, <1>7

LEMMA VcpuUnconfig ==
  ASSUME NEW r \in Tables, NEW v \in Vcpus
  PROVE  LET q == res_vcpu_commit_unconfig(r, v)
         IN  /\ VcpuDone(r, q, v) /\ q.vcpu[v].status = "UNCONFIGURED"
             /\ BackRefs(r) => BackRefs(q)
<1> DEFINE a == ASSERT(r, r.vcpu[v].status \in {"STOPPED", "ERROR"}, "vcpu unconfig")
           g == r.vcpu[v].guest
           i == r.vcpu[v].vid
           q == [a EXCEPT !.vcpu[v] = init_vcpu, !.guest[g].vcpus[i] = None]
<1>1. Keeps(r, a) /\ a \in Tables
  BY AssertKeeps DEF Keeps, Labels
<1>2. init_vcpu \in VcpuType /\ init_vcpu.status = "UNCONFIGURED"
  BY DEF init_vcpu, VcpuType, VcpuStates, GuestIds, None
<1>3. res_vcpu_commit_unconfig(r, v) = q
  BY DEF res_vcpu_commit_unconfig
<1> HIDE DEF a
<1>4. /\ VcpuDone(a, q, v) /\ q.vcpu[v] = init_vcpu
      /\ \A h \in Guests, j \in Vcpus :
             q.guest[h].vcpus[j] = IF h = g /\ j = i THEN None ELSE a.guest[h].vcpus[j]
  <2>1. None \in Vcpus \cup {None} /\ v \in Vcpus \cup {None}
    OBVIOUS
  <2>2. q = WithSlot(a, v, init_vcpu, g, i, None)
    BY DEF WithSlot
  <2> HIDE DEF g, i, q
  <2> QED BY <1>1, <1>2, <2>1, <2>2, SetSlot
<1> HIDE DEF q
<1>5. VcpuDone(r, q, v)
  BY <1>1, <1>4 DEF VcpuDone, Keeps, SameGuest, SameVcpu
<1>6. ASSUME BackRefs(r), NEW h \in Guests, NEW j \in Vcpus, q.guest[h].vcpus[j] # None
      PROVE  LET w == q.guest[h].vcpus[j]
             IN  q.vcpu[w].guest = h /\ q.vcpu[w].vid = j /\ q.vcpu[w].status # "UNCONFIGURED"
  <2> DEFINE w == q.guest[h].vcpus[j]
  <2>1. w = r.guest[h].vcpus[j] /\ ~(h = g /\ j = i)
    BY <1>1, <1>4, <1>6 DEF Keeps, SameGuest
  <2>2. r.vcpu[w].guest = h /\ r.vcpu[w].vid = j /\ r.vcpu[w].status # "UNCONFIGURED"
    BY <1>6, <2>1 DEF BackRefs
  <2>3. w \in Vcpus \ {v}
    <3>1. r.guest[h] \in GuestType
      BY DEF Tables
    <3>2. r.guest[h].vcpus[j] \in Vcpus \cup {None}
      BY <3>1 DEF GuestType
    <3> QED BY <1>6, <2>1, <2>2, <3>2
  <2>4. SameVcpu(r.vcpu[w], q.vcpu[w])
    BY <1>5, <2>3 DEF VcpuDone
  <2> QED BY <2>2, <2>4 DEF SameVcpu
<1>7. BackRefs(r) => BackRefs(q)
  BY <1>6 DEF BackRefs
<1> QED BY <1>2, <1>3, <1>4, <1>5, <1>7

\* A vcpu that was not configured gets a slot.
LEMMA SlotBackRefs ==
  ASSUME NEW r \in Tables, BackRefs(r), NEW v \in Vcpus, r.vcpu[v].status = "UNCONFIGURED",
         NEW V \in VcpuType, NEW g \in Guests, NEW i \in Vcpus,
         V.guest = g, V.vid = i, V.status # "UNCONFIGURED"
  PROVE  BackRefs(WithSlot(r, v, V, g, i, v))
<1> DEFINE q == WithSlot(r, v, V, g, i, v)
<1>1. /\ VcpuDone(r, q, v) /\ q.vcpu[v] = V
      /\ \A h \in Guests, j \in Vcpus :
             q.guest[h].vcpus[j] = IF h = g /\ j = i THEN v ELSE r.guest[h].vcpus[j]
  BY SetSlot
<1> HIDE DEF q
<1>2. ASSUME NEW h \in Guests, NEW j \in Vcpus, q.guest[h].vcpus[j] # None
      PROVE  LET w == q.guest[h].vcpus[j]
             IN  q.vcpu[w].guest = h /\ q.vcpu[w].vid = j /\ q.vcpu[w].status # "UNCONFIGURED"
  <2>0. CASE h = g /\ j = i
    BY <1>1, <2>0
  <2>1. CASE ~(h = g /\ j = i)
    <3> DEFINE w == r.guest[h].vcpus[j]
    <3>1. q.guest[h].vcpus[j] = w
      BY <1>1, <2>1
    <3>2. r.vcpu[w].guest = h /\ r.vcpu[w].vid = j /\ r.vcpu[w].status # "UNCONFIGURED"
      BY <1>2, <3>1 DEF BackRefs
    <3>3. r.guest[h] \in GuestType
      BY DEF Tables
    <3>4. w \in Vcpus \cup {None}
      BY <3>3 DEF GuestType
    <3>5. w \in Vcpus \ {v}
      BY <1>2, <3>1, <3>2, <3>4
    <3>6. SameVcpu(r.vcpu[w], q.vcpu[w])
      BY <1>1, <3>5 DEF VcpuDone
    <3> QED BY <3>1, <3>2, <3>6 DEF SameVcpu
  <2> QED BY <2>0, <2>1
<1>3. BackRefs(q)
  BY <1>2 DEF BackRefs
<1> QED BY <1>3 DEF q

\* What other resources may do to the tables keeps them.
LEMMA BackRefsKept ==
  ASSUME NEW r \in Tables, NEW s, BackRefs(r),
         \A g \in Guests, i \in Vcpus : s.guest[g].vcpus[i] \in {r.guest[g].vcpus[i], None},
         \A v \in Vcpus : SameVcpu(r.vcpu[v], s.vcpu[v])
  PROVE  BackRefs(s)
<1> SUFFICES ASSUME NEW g \in Guests, NEW i \in Vcpus, s.guest[g].vcpus[i] # None
             PROVE  LET v == s.guest[g].vcpus[i]
                    IN  s.vcpu[v].guest = g /\ s.vcpu[v].vid = i /\ s.vcpu[v].status # "UNCONFIGURED"
  BY DEF BackRefs
<1> DEFINE v == s.guest[g].vcpus[i]
<1>1. v = r.guest[g].vcpus[i] /\ v # None
  OBVIOUS
<1>2. r.guest[g] \in GuestType
  BY DEF Tables
<1>3. v \in Vcpus
  BY <1>1, <1>2 DEF GuestType
<1> HIDE DEF v
<1>4. r.vcpu[v].guest = g /\ r.vcpu[v].vid = i /\ r.vcpu[v].status # "UNCONFIGURED"
  BY <1>1 DEF BackRefs
<1>5. SameVcpu(r.vcpu[v], s.vcpu[v])
  BY <1>3
<1>6. s.vcpu[v].guest = g /\ s.vcpu[v].vid = i /\ s.vcpu[v].status # "UNCONFIGURED"
  BY <1>4, <1>5 DEF SameVcpu
<1> QED BY <1>6 DEF v

LEMMA KeepsBackRefs == ASSUME NEW r \in Tables, NEW q, Keeps(r, q), BackRefs(r) PROVE BackRefs(q)
<1>1. /\ \A g \in Guests, i \in Vcpus : q.guest[g].vcpus[i] \in {r.guest[g].vcpus[i], None}
      /\ \A v \in Vcpus : SameVcpu(r.vcpu[v], q.vcpu[v])
  BY DEF Keeps, SameGuest
<1> QED BY <1>1, BackRefsKept

LEMMA VcpuConfig ==
  ASSUME NEW r \in Tables, NEW md, WellFormed(md), NEW v \in Vcpus, v \in DOMAIN md.vcpu
  PROVE  LET q == res_vcpu_commit_config(r, md, v)
         IN  /\ VcpuDone(r, q, v)
             /\ BackRefs(r) /\ r.vcpu[v].status = "UNCONFIGURED" => BackRefs(q)
<1> DEFINE node == md.vcpu[v]
           g == node.guest
           i == node.vid
           holds == r.guest[g].vcpus[i] = None
           a == ASSERT(r, holds, "vcpu config")
           V == [status |-> IF node.strand \in strand_active THEN "STOPPED" ELSE "ERROR",
                 guest |-> g, vid |-> i, strand |-> node.strand, mau |-> None, cwq |-> None]
           q == [a EXCEPT !.vcpu[v] = V, !.guest[g].vcpus[i] = v]
<1>0. node \in [guest : Guests, vid : Vcpus, strand : 0..NSTRANDS-1]
  BY DEF WellFormed
<1>1. Keeps(r, a) /\ a \in Tables
  <2>1. "vcpu config" \in Labels
    BY DEF Labels
  <2> HIDE DEF holds
  <2> QED BY <2>1, AssertKeeps DEF Keeps
<1>2. /\ V \in VcpuType /\ V.guest = g /\ V.vid = i /\ V.status # "UNCONFIGURED"
      /\ g \in Guests /\ i \in Vcpus
  BY <1>0, TablesAssumption DEF VcpuType, VcpuStates, GuestIds, None
<1>3. res_vcpu_commit_config(r, md, v) = q
  BY DEF res_vcpu_commit_config
<1> HIDE DEF a, V
<1>4. /\ VcpuDone(a, q, v) /\ q.vcpu[v] = V
      /\ \A h \in Guests, j \in Vcpus :
             q.guest[h].vcpus[j] = IF h = g /\ j = i THEN v ELSE a.guest[h].vcpus[j]
  <2>1. None \in Vcpus \cup {None} /\ v \in Vcpus \cup {None}
    OBVIOUS
  <2>2. q = WithSlot(a, v, V, g, i, v)
    BY DEF WithSlot
  <2> HIDE DEF g, i, q
  <2> QED BY <1>1, <1>2, <2>1, <2>2, SetSlot
<1> HIDE DEF q
<1>5. VcpuDone(r, q, v)
  BY <1>1, <1>4 DEF VcpuDone, Keeps, SameGuest, SameVcpu
<1>6. ASSUME BackRefs(r), r.vcpu[v].status = "UNCONFIGURED" PROVE BackRefs(q)
  <2>1. BackRefs(a)
    BY <1>1, <1>6, KeepsBackRefs
  <2>2. a.vcpu[v].status = "UNCONFIGURED"
    BY <1>1, <1>6 DEF Keeps, SameVcpu
  <2>3. q = WithSlot(a, v, V, g, i, v)
    BY DEF WithSlot, q
  <2> HIDE DEF g, i
  <2> QED BY <1>1, <1>2, <2>1, <2>2, <2>3, SlotBackRefs
<1> QED BY <1>3, <1>5, <1>6

-----------------------------------------------------------------------------
(* A call of a commit function.                                            *)

Units == {"mau", "cwq"}
Changeable == {"guest", "memory", "console", "mau", "cwq"}
TenTypes == {"guest", "memory", "vcpu", "hv_ldc", "ldc", "console", "mau", "cwq", "pcie_bus", "network_device"}
Calls == {"Unconfig", "Config", "Modify"}

LEMMA TypesAre == Types = TenTypes
<1>1. /\ DOMAIN resource_info = 1 .. 10
      /\ resource_info[1] = "guest" /\ resource_info[2] = "memory" /\ resource_info[3] = "vcpu"
      /\ resource_info[4] = "hv_ldc" /\ resource_info[5] = "ldc" /\ resource_info[6] = "console"
      /\ resource_info[7] = "mau" /\ resource_info[8] = "cwq" /\ resource_info[9] = "pcie_bus"
      /\ resource_info[10] = "network_device"
  BY DEF resource_info
<1>2. \A k \in 1 .. 10 : k \in {1, 2, 3, 4, 5, 6, 7, 8, 9, 10}
  OBVIOUS
<1>3. ASSUME NEW k \in 1 .. 10 PROVE resource_info[k] \in TenTypes
  BY <1>1, <1>2 DEF TenTypes
<1>4. ASSUME NEW t \in TenTypes PROVE \E k \in 1 .. 10 : resource_info[k] = t
  BY <1>1 DEF TenTypes
<1> HIDE DEF resource_info, TenTypes
<1> QED BY <1>1, <1>3, <1>4 DEF Types, Range

LEMMA IdsOfType ==
  ASSUME NEW t \in TenTypes
  PROVE  /\ t \in {"guest", "console"} => Ids(t) = Guests
         /\ t = "memory" => Ids(t) = Mblocks
         /\ t = "vcpu" => Ids(t) = Vcpus
         /\ t = "ldc" => \A id \in Ids(t) : id[1] \in Guests /\ id[2] \in Chans /\ id = <<id[1], id[2]>>
         /\ t \in Units => Ids(t) = Cores
         /\ t \in {"hv_ldc", "pcie_bus", "network_device"} => Ids(t) = {0}
<1>n. /\ NGUESTS \in Nat /\ NMBLOCKS \in Nat /\ NVCPUS \in Nat /\ NSTRANDS \div NSTRANDS_PER_CORE \in Int
      /\ MAX_LDC_CHANNELS \in Nat \ {0}
  BY TablesAssumption
<1>1. ASSUME NEW n \in Int PROVE Range(UpTo(n)) = 0 .. n - 1
  <2>1. ASSUME NEW k \in 0 .. n - 1 PROVE \E j \in 1 .. n : k = j - 1
    <3>1. k + 1 \in 1 .. n /\ k = (k + 1) - 1
      OBVIOUS
    <3> QED BY <3>1
  <2> QED BY <2>1 DEF Range, UpTo
<1>2. CASE t \in {"guest", "console"}
  BY <1>1, <1>2, <1>n DEF Ids, IdSeq, Guests, Units
<1>3. CASE t = "memory"
  BY <1>1, <1>3, <1>n DEF Ids, IdSeq, Mblocks, Units
<1>4. CASE t = "vcpu"
  BY <1>1, <1>4, <1>n DEF Ids, IdSeq, Vcpus, Units
<1>5. CASE t \in Units
  BY <1>1, <1>5, <1>n DEF Ids, IdSeq, Cores, Units
<1>6. CASE t \in {"hv_ldc", "pcie_bus", "network_device"}
  <2>1. IdSeq(t) = <<0>>
    BY <1>6 DEF IdSeq
  <2>2. Range(<<0>>) = {0}
    BY DEF Range
  <2> QED BY <1>6, <2>1, <2>2 DEF Ids, Units
<1>7. CASE t = "ldc"
  <2> DEFINE M == MAX_LDC_CHANNELS
             pair(k) == <<(k - 1) \div M, (k - 1) % M>>
  <2>1. Ids(t) = {pair(k) : k \in 1 .. NGUESTS * M}
    BY <1>7 DEF Ids, IdSeq, Range
  <2>2. ASSUME NEW k \in 1 .. NGUESTS * M PROVE (k - 1) \div M \in Guests /\ (k - 1) % M \in Chans
    <3> DEFINE a == (k - 1) \div M
               b == (k - 1) % M
    <3>0. NGUESTS * M \in Nat
      BY <1>n
    <3>1. k - 1 \in Nat /\ k - 1 < NGUESTS * M
      BY <2>2, <3>0
    <3>2. a \in Nat /\ b \in 0 .. M - 1 /\ k - 1 = M * a + b
      BY <1>n, <3>1
    <3>3. ~(a >= NGUESTS)
      <4> SUFFICES ASSUME a >= NGUESTS PROVE FALSE
        OBVIOUS
      <4>1. M * a >= M * NGUESTS
        BY <1>n, <3>2
      <4>2. M * NGUESTS = NGUESTS * M
        BY <1>n
      <4> QED BY <1>n, <3>0, <3>1, <3>2, <4>1, <4>2
    <3> QED BY <1>n, <3>2, <3>3 DEF Guests, Chans
  <2>3. ASSUME NEW id \in Ids(t) PROVE id[1] \in Guests /\ id[2] \in Chans /\ id = <<id[1], id[2]>>
    <3>1. PICK k \in 1 .. NGUESTS * M : id = pair(k)
      BY <2>1
    <3> QED BY <2>2, <3>1
  <2> QED BY <1>7, <2>3 DEF Units
<1> QED BY <1>2, <1>3, <1>4, <1>5, <1>6, <1>7 DEF TenTypes, Units

\* The nth round of a loop over the resources of a type.
LEMMA RoundIds ==
  ASSUME NEW t \in TenTypes
  PROVE  /\ Len(IdSeq(t)) \in Nat
         /\ \A k \in 0 .. Len(IdSeq(t)) - 1 : IdSeq(t)[k + 1] \in Ids(t)
         /\ t \in {"guest", "console"} => Len(IdSeq(t)) = NGUESTS
         /\ t = "vcpu" => Len(IdSeq(t)) = NVCPUS
         /\ t \in {"guest", "vcpu"} => \A k \in 0 .. Len(IdSeq(t)) - 1 : IdSeq(t)[k + 1] = k
<1>n. /\ NGUESTS \in Nat /\ NMBLOCKS \in Nat /\ NVCPUS \in Nat /\ NSTRANDS \div NSTRANDS_PER_CORE \in Nat
      /\ MAX_LDC_CHANNELS \in Nat \ {0}
  BY TablesAssumption
<1>m. NGUESTS * MAX_LDC_CHANNELS \in Nat
  BY <1>n
<1>1. PICK n \in Nat : DOMAIN IdSeq(t) = 1 .. n /\ Len(IdSeq(t)) = n
  <2>1. ASSUME NEW n \in Nat PROVE DOMAIN UpTo(n) = 1 .. n /\ Len(UpTo(n)) = n
    BY DEF UpTo
  <2>2. CASE t = "ldc"
    BY <1>m, <2>2 DEF IdSeq
  <2>3. CASE t \in {"hv_ldc", "pcie_bus", "network_device"}
    <3>1. IdSeq(t) = <<0>>
      BY <2>3 DEF IdSeq
    <3>2. DOMAIN <<0>> = 1 .. 1 /\ Len(<<0>>) = 1 /\ 1 \in Nat
      OBVIOUS
    <3> QED BY <3>1, <3>2
  <2>4. CASE t \in {"guest", "console"}
    BY <1>n, <2>1, <2>4 DEF IdSeq
  <2>5. CASE t = "memory"
    BY <1>n, <2>1, <2>5 DEF IdSeq
  <2>6. CASE t = "vcpu"
    BY <1>n, <2>1, <2>6 DEF IdSeq
  <2>7. CASE t \in Units
    BY <1>n, <2>1, <2>7 DEF IdSeq, Units
  <2> QED BY <2>2, <2>3, <2>4, <2>5, <2>6, <2>7 DEF TenTypes, Units
<1>2. \A k \in 0 .. n - 1 : IdSeq(t)[k + 1] \in Ids(t)
  <2>1. ASSUME NEW k \in 0 .. n - 1 PROVE k + 1 \in DOMAIN IdSeq(t)
    BY <1>1
  <2> QED BY <2>1 DEF Ids, Range
<1>3. /\ t \in {"guest", "console"} => Len(IdSeq(t)) = NGUESTS
      /\ t = "vcpu" => Len(IdSeq(t)) = NVCPUS
  BY <1>n DEF IdSeq, UpTo
<1>4. t \in {"guest", "vcpu"} => \A k \in 0 .. Len(IdSeq(t)) - 1 : IdSeq(t)[k + 1] = k
  <2>1. CASE t = "guest"
    <3>1. IdSeq(t) = UpTo(NGUESTS)
      BY <2>1 DEF IdSeq
    <3> QED BY <1>n, <1>3, <2>1, <3>1 DEF UpTo
  <2>2. CASE t = "vcpu"
    <3>1. IdSeq(t) = UpTo(NVCPUS)
      BY <2>2 DEF IdSeq
    <3> QED BY <1>n, <1>3, <2>2, <3>1 DEF UpTo
  <2> QED BY <2>1, <2>2
<1> QED BY <1>1, <1>2, <1>3, <1>4

\* What a parse elects: only a node is configured or modified.
ElectedBy(flags, md) ==
    \A t \in TenTypes : \A id \in Ids(t) :
        /\ flags[t][id] = "Config" => id \in DOMAIN md[t]
        /\ flags[t][id] = "Modify" => id \in DOMAIN md[t] /\ t \in Changeable

LEMMA CommitOneKeeps ==
  ASSUME NEW r \in Tables, NEW md, WellFormed(md), NEW t \in TenTypes \ {"guest", "vcpu"}, NEW id \in Ids(t),
         NEW flag \in Calls, flag # "Unconfig" => id \in DOMAIN md[t], flag = "Modify" => t \in Changeable
  PROVE  Keeps(r, CommitOne(r, md, t, id, flag))
<1>0. t \in TenTypes
  OBVIOUS
<1>1. CASE t = "memory"
  <2>1. id \in Mblocks
    BY <1>1, IdsOfType
  <2> QED BY <1>1, <2>1, MemoryKeeps DEF CommitOne, res_memory_commit, Calls
<1>2. CASE t = "hv_ldc"
  <2>1. id = 0
    BY <1>2, IdsOfType
  <2> QED BY <1>2, <2>1, HvLdcKeeps DEF CommitOne, res_hv_ldc_commit, Calls, Changeable
<1>3. CASE t = "ldc"
  <2>1. id[1] \in Guests /\ id[2] \in Chans /\ id = <<id[1], id[2]>>
    BY <1>3, IdsOfType
  <2> DEFINE g == id[1]
             c == id[2]
  <2>2. flag # "Unconfig" => <<g, c>> \in DOMAIN md.ldc
    BY <1>3, <2>1
  <2> HIDE DEF g, c
  <2>3. g \in Guests /\ c \in Chans
    BY <2>1 DEF g, c
  <2>4. CommitOne(r, md, t, id, flag) = res_ldc_commit(r, md, id, flag)
    BY <1>3 DEF CommitOne
  <2>5. flag \in {"Unconfig", "Config"}
    BY <1>3 DEF Calls, Changeable
  <2>6. res_ldc_commit(r, md, id, flag) =
          IF flag = "Unconfig" THEN res_ldc_commit_unconfig(r, g, c) ELSE res_ldc_commit_config(r, md, g, c)
    BY <2>5 DEF res_ldc_commit, g, c
  <2> QED BY <2>2, <2>3, <2>4, <2>5, <2>6, LdcKeeps
<1>4. CASE t = "console"
  <2>1. id \in Guests
    BY <1>4, IdsOfType
  <2> QED BY <1>4, <2>1, ConsoleKeeps DEF CommitOne, res_console_commit, Calls
<1>5. CASE t = "mau"
  <2>1. id \in Cores
    BY <1>5, IdsOfType DEF Units
  <2>2. CommitOne(r, md, t, id, flag) = unit_commit(r, md, t, id, flag)
    BY <1>5 DEF CommitOne, res_mau_commit
  <2>3. t \in {"mau", "cwq"}
    BY <1>5
  <2> QED BY <2>1, <2>2, <2>3, UnitKeeps DEF unit_commit, Calls
<1>6. CASE t = "cwq"
  <2>1. id \in Cores
    BY <1>6, IdsOfType DEF Units
  <2>2. CommitOne(r, md, t, id, flag) = unit_commit(r, md, t, id, flag)
    BY <1>6 DEF CommitOne, res_cwq_commit
  <2>3. t \in {"mau", "cwq"}
    BY <1>6
  <2> QED BY <2>1, <2>2, <2>3, UnitKeeps DEF unit_commit, Calls
<1>7. CASE t = "pcie_bus"
  <2>1. id = 0
    BY <1>7, IdsOfType
  <2> QED BY <1>7, <2>1, DevicesKeep DEF CommitOne, res_pcie_bus_commit, Calls, Changeable
<1>8. CASE t = "network_device"
  <2>1. id = 0
    BY <1>8, IdsOfType
  <2> QED BY <1>8, <2>1, DevicesKeep DEF CommitOne, res_network_device_commit, Calls, Changeable
<1> QED BY <1>1, <1>2, <1>3, <1>4, <1>5, <1>6, <1>7, <1>8 DEF TenTypes

\* A call for resources that are neither guests nor vcpus.
LEMMA CommitKeeps ==
  ASSUME NEW r \in Tables, NEW md, WellFormed(md), NEW flags, ElectedBy(flags, md),
         NEW t \in TenTypes \ {"guest", "vcpu"}, NEW flag \in Calls
  PROVE  Keeps(r, res_commit(r, [flags |-> flags, md |-> md], t, flag))
<1> DEFINE n == Len(IdSeq(t))
           w == [flags |-> flags, md |-> md]
           p == [pip |-> w, t |-> t, flag |-> flag]
           S == [k \in 0 .. n |-> {s \in Tables : Keeps(r, s)}]
<1>0. t \in TenTypes /\ n \in Nat /\ \A k \in 0 .. n - 1 : IdSeq(t)[k + 1] \in Ids(t)
  BY RoundIds
<1>1. /\ \A s : s \in S[n] <=> Keeps(r, s)
      /\ \A k \in 0 .. n - 1 : \A s : s \in S[k] <=> Keeps(r, s)
      /\ \A k \in 0 .. n - 1 : \A s : s \in S[k + 1] <=> Keeps(r, s)
      /\ r \in S[0]
  BY <1>0, KeepsItself DEF Keeps
<1> HIDE DEF S
<1>2. ASSUME NEW s \in Tables, NEW id \in Ids(t) PROVE Keeps(s, CommitElected(s, w, t, flag, id))
  <2>1. CASE flags[t][id] # flag
    BY <2>1, KeepsItself DEF CommitElected
  <2>2. CASE flags[t][id] = flag
    <3>1. /\ flag # "Unconfig" => id \in DOMAIN md[t]
          /\ flag = "Modify" => t \in Changeable
      BY <2>2 DEF ElectedBy, Calls
    <3> QED BY <2>2, <3>1, CommitOneKeeps DEF CommitElected
  <2> QED BY <2>1, <2>2
<1> HIDE DEF w
<1>3. \A k \in 0 .. n - 1 : \A s \in S[k] : CommitElected(s, w, t, flag, IdSeq(t)[k + 1]) \in S[k + 1]
  <2> SUFFICES ASSUME NEW k \in 0 .. n - 1, NEW s \in S[k]
               PROVE  CommitElected(s, w, t, flag, IdSeq(t)[k + 1]) \in S[k + 1]
    OBVIOUS
  <2>1. Keeps(r, s) /\ s \in Tables
    BY <1>1 DEF Keeps
  <2> QED BY <1>0, <1>1, <1>2, <2>1, KeepsTrans
<1>4. CommitEach!Loop(p, r, n) \in S[n]
  BY <1>0, <1>1, <1>3, CommitEach!LoopCorrect
<1> QED BY <1>1, <1>4 DEF res_commit, w

\* What a call makes of the state of a guest: elect is what was elected for it.
NewState(old, elect, t, flag) ==
    IF t # "guest" \/ elect # flag THEN old
    ELSE IF flag = "Unconfig" THEN "UNCONFIGURED" ELSE IF flag = "Config" THEN "STOPPED" ELSE old

\* After a call for the guests below k.
GuestsTo(r, s, flags, flag, k) ==
    /\ s \in Tables
    /\ \A g \in Guests : s.guest[g].state = IF g < k THEN NewState(r.guest[g].state, flags["guest"][g], "guest", flag)
                                            ELSE r.guest[g].state
    /\ \A g \in Guests, i \in Vcpus : s.guest[g].vcpus[i] \in {r.guest[g].vcpus[i], None}
    /\ \A v \in Vcpus : SameVcpu(r.vcpu[v], s.vcpu[v])

LEMMA GuestRound ==
  ASSUME NEW r \in Tables, NEW j \in DOMAIN Hvmds, NEW flags, ElectedBy(flags, Hvmds[j]),
         NEW flag \in Calls, NEW k \in Guests, NEW s, GuestsTo(r, s, flags, flag, k)
  PROVE  GuestsTo(r, CommitElected(s, [flags |-> flags, md |-> Hvmds[j]], "guest", flag, k), flags, flag, k + 1)
<1> DEFINE md == Hvmds[j]
           w == [flags |-> flags, md |-> md]
           q == CommitElected(s, w, "guest", flag, k)
<1>0. /\ WellFormed(md) /\ s \in Tables /\ k \in Ids("guest") /\ "guest" \in TenTypes
      /\ \A g \in Guests : g \in Int
  BY ReconfAssumption, IdsOfType, TablesAssumption DEF GuestsTo, TenTypes, Guests
<1>k. k \in Int /\ \A g \in Guests : (g < k + 1) <=> (g < k \/ g = k)
  BY <1>0
<1>1. CASE flags["guest"][k] # flag
  <2>1. q = s
    BY <1>1 DEF CommitElected
  <2> HIDE DEF q
  <2> QED BY <1>0, <1>1, <1>k, <2>1 DEF GuestsTo, NewState, q
<1>2. CASE flags["guest"][k] = flag
  <2>1. q = res_guest_commit(s, md, k, flag)
    BY <1>2 DEF CommitElected, CommitOne
  <2>2. flag # "Unconfig" => k \in DOMAIN md.guest
    BY <1>0, <1>2 DEF ElectedBy, Calls
  <2>3. s.guest[k].state = r.guest[k].state
    BY <1>k DEF GuestsTo
  <2>4. CASE flag = "Modify"
    <3>1. Keeps(s, q)
      BY <1>0, <2>1, <2>2, <2>4, GuestModify DEF res_guest_commit
    <3> HIDE DEF q
    <3>2. GuestsTo(r, q, flags, flag, k + 1)
      BY <1>0, <1>k, <2>4, <3>1 DEF GuestsTo, Keeps, SameGuest, SameVcpu, NewState
    <3> QED BY <3>2 DEF q
  <2>5. ASSUME NEW state, GuestDone(s, q, k, state), state = NewState(r.guest[k].state, flags["guest"][k], "guest", flag)
        PROVE  GuestsTo(r, q, flags, flag, k + 1)
    <3> HIDE DEF q
    <3>1. ASSUME NEW g \in Guests
          PROVE  q.guest[g].state = IF g < k + 1 THEN NewState(r.guest[g].state, flags["guest"][g], "guest", flag)
                                    ELSE r.guest[g].state
      BY <1>k, <2>5 DEF GuestsTo, GuestDone, SameGuest
    <3>2. ASSUME NEW g \in Guests, NEW i \in Vcpus PROVE q.guest[g].vcpus[i] \in {r.guest[g].vcpus[i], None}
      BY <2>5 DEF GuestsTo, GuestDone, SameGuest
    <3>3. ASSUME NEW v \in Vcpus PROVE SameVcpu(r.vcpu[v], q.vcpu[v])
      BY <2>5 DEF GuestsTo, GuestDone, SameVcpu
    <3> QED BY <2>5, <3>1, <3>2, <3>3 DEF GuestsTo, GuestDone
  <2>6. CASE flag = "Config"
    <3>1. GuestDone(s, q, k, "STOPPED")
      BY <1>0, <2>1, <2>2, <2>6, GuestConfig DEF res_guest_commit
    <3> HIDE DEF q
    <3> QED BY <1>2, <2>5, <2>6, <3>1 DEF NewState, q
  <2>7. CASE flag = "Unconfig"
    <3>1. GuestDone(s, q, k, "UNCONFIGURED")
      BY <1>0, <2>1, <2>7, GuestUnconfig DEF res_guest_commit
    <3> HIDE DEF q
    <3> QED BY <1>2, <2>5, <2>7, <3>1 DEF NewState, q
  <2> QED BY <2>4, <2>6, <2>7 DEF Calls
<1> QED BY <1>1, <1>2

LEMMA CommitGuests ==
  ASSUME NEW r \in Tables, NEW j \in DOMAIN Hvmds, NEW flags, ElectedBy(flags, Hvmds[j]), NEW flag \in Calls
  PROVE  GuestsTo(r, res_commit(r, [flags |-> flags, md |-> Hvmds[j]], "guest", flag), flags, flag, NGUESTS)
<1> DEFINE n == NGUESTS
           w == [flags |-> flags, md |-> Hvmds[j]]
           p == [pip |-> w, t |-> "guest", flag |-> flag]
           S == [k \in 0 .. n |-> {s \in Tables : GuestsTo(r, s, flags, flag, k)}]
<1>0. /\ n \in Nat /\ Len(IdSeq("guest")) = n /\ \A k \in 0 .. n - 1 : IdSeq("guest")[k + 1] = k /\ k \in Guests
      /\ \A g \in Guests : ~(g < 0)
  <2>1. "guest" \in TenTypes /\ n \in Nat /\ Guests = 0 .. n - 1
    BY TablesAssumption DEF TenTypes, Guests
  <2>2. Len(IdSeq("guest")) = n /\ \A k \in 0 .. Len(IdSeq("guest")) - 1 : IdSeq("guest")[k + 1] = k
    BY <2>1, RoundIds
  <2> QED BY <2>1, <2>2
<1>1. /\ \A s : s \in S[n] <=> GuestsTo(r, s, flags, flag, n)
      /\ \A k \in 0 .. n - 1 : \A s : s \in S[k] <=> GuestsTo(r, s, flags, flag, k)
      /\ \A k \in 0 .. n - 1 : \A s : s \in S[k + 1] <=> GuestsTo(r, s, flags, flag, k + 1)
  <2>1. \A s, k : GuestsTo(r, s, flags, flag, k) => s \in Tables
    BY DEF GuestsTo
  <2>2. \A k \in 0 .. n - 1 : k \in 0 .. n /\ k + 1 \in 0 .. n
    BY <1>0
  <2>3. \A k \in 0 .. n : \A s : s \in S[k] <=> GuestsTo(r, s, flags, flag, k)
    BY <2>1
  <2>4. n \in 0 .. n
    BY <1>0
  <2> HIDE DEF S
  <2> QED BY <2>2, <2>3, <2>4
<1>r. r \in S[0]
  BY <1>0 DEF GuestsTo, SameVcpu
<1> HIDE DEF S, w
<1>3. \A k \in 0 .. n - 1 : \A s \in S[k] : CommitElected(s, w, "guest", flag, IdSeq("guest")[k + 1]) \in S[k + 1]
  BY <1>0, <1>1, GuestRound DEF w
<1>4. CommitEach!Loop(p, r, n) \in S[n]
  BY <1>0, <1>r, <1>3, CommitEach!LoopCorrect
<1> QED BY <1>0, <1>1, <1>4 DEF res_commit, w

\* After a call for the vcpus below k.
VcpusTo(r, s, flags, flag, k) ==
    /\ s \in Tables
    /\ \A g \in Guests : s.guest[g].state = r.guest[g].state
    /\ \A v \in Vcpus : v >= k \/ flags["vcpu"][v] # flag => SameVcpu(r.vcpu[v], s.vcpu[v])
    /\ BackRefs(r) /\ (flag = "Config" => \A v \in Vcpus : flags["vcpu"][v] = flag => r.vcpu[v].status = "UNCONFIGURED")
         => BackRefs(s)

LEMMA VcpuRound ==
  ASSUME NEW r \in Tables, NEW md, WellFormed(md), NEW flags, ElectedBy(flags, md),
         NEW flag \in Calls, NEW k \in Vcpus, NEW s, VcpusTo(r, s, flags, flag, k)
  PROVE  VcpusTo(r, CommitElected(s, [flags |-> flags, md |-> md], "vcpu", flag, k), flags, flag, k + 1)
<1> DEFINE w == [flags |-> flags, md |-> md]
           q == CommitElected(s, w, "vcpu", flag, k)
<1>0. /\ s \in Tables /\ k \in Ids("vcpu") /\ "vcpu" \in TenTypes
      /\ \A v \in Vcpus : v \in Int
  BY IdsOfType, TablesAssumption DEF VcpusTo, TenTypes, Vcpus
<1>k. k \in Int /\ k >= k /\ \A v \in Vcpus : v >= k + 1 <=> (v >= k /\ v # k)
  BY <1>0
<1>1. CASE flags["vcpu"][k] # flag
  <2>1. q = s
    BY <1>1 DEF CommitElected
  <2> HIDE DEF q
  <2>2. VcpusTo(r, q, flags, flag, k + 1)
    BY <1>0, <1>1, <1>k, <2>1 DEF VcpusTo
  <2> QED BY <2>2 DEF q
<1>2. CASE flags["vcpu"][k] = flag
  <2>1. q = res_vcpu_commit(s, md, k, flag)
    BY <1>2 DEF CommitElected, CommitOne
  <2>2. (flag # "Unconfig" => k \in DOMAIN md.vcpu) /\ flag # "Modify"
    BY <1>0, <1>2 DEF ElectedBy, Calls, Changeable
  <2>3. SameVcpu(r.vcpu[k], s.vcpu[k])
    BY <1>k DEF VcpusTo
  <2>4. VcpuDone(s, q, k) /\ (BackRefs(s) /\ (flag = "Config" => s.vcpu[k].status = "UNCONFIGURED") => BackRefs(q))
    <3>1. CASE flag = "Config"
      <4>1. q = res_vcpu_commit_config(s, md, k)
        BY <2>1, <3>1 DEF res_vcpu_commit
      <4> QED BY <1>0, <2>2, <3>1, <4>1, VcpuConfig
    <3>2. CASE flag = "Unconfig"
      <4>1. q = res_vcpu_commit_unconfig(s, k)
        BY <2>1, <3>2 DEF res_vcpu_commit
      <4> QED BY <1>0, <4>1, VcpuUnconfig
    <3> QED BY <2>2, <3>1, <3>2 DEF Calls
  <2> HIDE DEF q
  <2>5. ASSUME NEW v \in Vcpus, v >= k + 1 \/ flags["vcpu"][v] # flag PROVE SameVcpu(r.vcpu[v], q.vcpu[v])
    <3>1. v # k /\ SameVcpu(r.vcpu[v], s.vcpu[v])
      BY <1>2, <1>k, <2>5 DEF VcpusTo
    <3>2. SameVcpu(s.vcpu[v], q.vcpu[v])
      BY <2>4, <3>1 DEF VcpuDone
    <3> QED BY <3>1, <3>2 DEF SameVcpu
  <2>6. \A g \in Guests : q.guest[g].state = r.guest[g].state
    BY <2>4 DEF VcpuDone, VcpusTo
  <2>7. ASSUME BackRefs(r), flag = "Config" => \A v \in Vcpus : flags["vcpu"][v] = flag => r.vcpu[v].status = "UNCONFIGURED"
        PROVE  BackRefs(q)
    <3>1. BackRefs(s)
      BY <2>7 DEF VcpusTo
    <3>2. flag = "Config" => s.vcpu[k].status = "UNCONFIGURED"
      BY <1>2, <2>3, <2>7 DEF SameVcpu
    <3> QED BY <2>4, <3>1, <3>2
  <2>8. VcpusTo(r, q, flags, flag, k + 1)
    BY <2>4, <2>5, <2>6, <2>7 DEF VcpusTo, VcpuDone
  <2> QED BY <2>8 DEF q
<1> QED BY <1>1, <1>2

LEMMA CommitVcpus ==
  ASSUME NEW r \in Tables, NEW md, WellFormed(md), NEW flags, ElectedBy(flags, md), NEW flag \in Calls
  PROVE  VcpusTo(r, res_commit(r, [flags |-> flags, md |-> md], "vcpu", flag), flags, flag, NVCPUS)
<1> DEFINE n == NVCPUS
           w == [flags |-> flags, md |-> md]
           p == [pip |-> w, t |-> "vcpu", flag |-> flag]
           S == [k \in 0 .. n |-> {s \in Tables : VcpusTo(r, s, flags, flag, k)}]
<1>0. n \in Nat /\ Len(IdSeq("vcpu")) = n /\ \A k \in 0 .. n - 1 : IdSeq("vcpu")[k + 1] = k /\ k \in Vcpus
  BY RoundIds, TablesAssumption DEF TenTypes, Vcpus
<1>1. /\ \A s : s \in S[n] <=> VcpusTo(r, s, flags, flag, n)
      /\ \A k \in 0 .. n - 1 : \A s : s \in S[k] <=> VcpusTo(r, s, flags, flag, k)
      /\ \A k \in 0 .. n - 1 : \A s : s \in S[k + 1] <=> VcpusTo(r, s, flags, flag, k + 1)
  BY <1>0 DEF VcpusTo
<1>r. r \in S[0]
  BY <1>0 DEF VcpusTo, SameVcpu
<1> HIDE DEF S, w
<1>3. \A k \in 0 .. n - 1 : \A s \in S[k] : CommitElected(s, w, "vcpu", flag, IdSeq("vcpu")[k + 1]) \in S[k + 1]
  BY <1>0, <1>1, VcpuRound DEF w
<1>4. CommitEach!Loop(p, r, n) \in S[n]
  BY <1>0, <1>r, <1>3, CommitEach!LoopCorrect
<1> QED BY <1>0, <1>1, <1>4 DEF res_commit, w

\* The effect of one call on guests and vcpus.
LEMMA CommitEffect ==
  ASSUME NEW r \in Tables, NEW j \in DOMAIN Hvmds, NEW flags, ElectedBy(flags, Hvmds[j]),
         NEW t \in TenTypes, NEW flag \in Calls
  PROVE  LET q == res_commit(r, [flags |-> flags, md |-> Hvmds[j]], t, flag)
         IN  /\ q \in Tables
             /\ \A g \in Guests : q.guest[g].state = NewState(r.guest[g].state, flags["guest"][g], t, flag)
             /\ \A v \in Vcpus : t # "vcpu" \/ flags["vcpu"][v] # flag => SameVcpu(r.vcpu[v], q.vcpu[v])
             /\ BackRefs(r) /\ (\A v \in Vcpus : flags["vcpu"][v] = "Config" => r.vcpu[v].status = "UNCONFIGURED")
                  => BackRefs(q)
<1> DEFINE q == res_commit(r, [flags |-> flags, md |-> Hvmds[j]], t, flag)
<1>0. WellFormed(Hvmds[j])
  BY ReconfAssumption
<1>1. CASE t = "guest"
  <2>1. GuestsTo(r, q, flags, flag, NGUESTS)
    BY <1>1, CommitGuests
  <2> HIDE DEF q
  <2>2. \A g \in Guests : g < NGUESTS
    BY TablesAssumption DEF Guests
  <2>3. BackRefs(r) => BackRefs(q)
    BY <2>1, BackRefsKept DEF GuestsTo
  <2>4. \A g \in Guests : q.guest[g].state = NewState(r.guest[g].state, flags["guest"][g], t, flag)
    BY <1>1, <2>1, <2>2 DEF GuestsTo
  <2>5. q \in Tables /\ \A v \in Vcpus : SameVcpu(r.vcpu[v], q.vcpu[v])
    BY <2>1 DEF GuestsTo
  <2> QED BY <2>3, <2>4, <2>5 DEF q
<1>2. CASE t = "vcpu"
  <2>1. VcpusTo(r, q, flags, flag, NVCPUS)
    BY <1>0, <1>2, CommitVcpus
  <2> HIDE DEF q
  <2>2. \A g \in Guests : q.guest[g].state = NewState(r.guest[g].state, flags["guest"][g], t, flag)
    BY <1>2, <2>1 DEF VcpusTo, NewState
  <2>3. q \in Tables /\ \A v \in Vcpus : flags["vcpu"][v] # flag => SameVcpu(r.vcpu[v], q.vcpu[v])
    BY <2>1 DEF VcpusTo
  <2>4. BackRefs(r) /\ (\A v \in Vcpus : flags["vcpu"][v] = "Config" => r.vcpu[v].status = "UNCONFIGURED") => BackRefs(q)
    BY <2>1 DEF VcpusTo
  <2> QED BY <1>2, <2>2, <2>3, <2>4 DEF q
<1>3. CASE t \notin {"guest", "vcpu"}
  <2>1. Keeps(r, q)
    BY <1>0, <1>3, CommitKeeps
  <2> HIDE DEF q
  <2>2. /\ q \in Tables /\ \A g \in Guests : q.guest[g].state = r.guest[g].state
        /\ \A g \in Guests, i \in Vcpus : q.guest[g].vcpus[i] \in {r.guest[g].vcpus[i], None}
        /\ \A v \in Vcpus : SameVcpu(r.vcpu[v], q.vcpu[v])
    BY <2>1 DEF Keeps, SameGuest
  <2>3. BackRefs(r) => BackRefs(q)
    BY <2>1, KeepsBackRefs
  <2>4. \A g \in Guests : q.guest[g].state = NewState(r.guest[g].state, flags["guest"][g], t, flag)
    BY <1>3, <2>2 DEF NewState
  <2> QED BY <2>2, <2>3, <2>4 DEF q
<1> QED BY <1>1, <1>2, <1>3

-----------------------------------------------------------------------------
(* The tables the machine boots with.                                      *)

LEMMA EmptyTables ==
  /\ init_hv_internals \in Tables
  /\ \A g \in Guests : init_hv_internals.guest[g] = init_guest
  /\ \A v \in Vcpus : init_hv_internals.vcpu[v] = init_vcpu
  /\ init_vcpu.status = "UNCONFIGURED"
<1>1. init_vcpu \in VcpuType /\ init_vcpu.status = "UNCONFIGURED"
  BY DEF init_vcpu, VcpuType, VcpuStates, GuestIds, None
<1>2. NoMblock \in MblockType /\ NoUnit \in UnitType /\ None \in GuestIds
  BY DEF NoMblock, MblockType, NoUnit, UnitType, GuestIds, None
<1>3. [live |-> FALSE, guest |-> None, chan |-> None] \in HvLdcType
  BY DEF HvLdcType, GuestIds, None
<1> QED BY <1>1, <1>2, <1>3, InitGuestType DEF init_hv_internals, Tables

\* The guests below k have been configured, with their channels.
BootState(md, g, k) == IF g < k /\ g \in DOMAIN md.guest THEN "STOPPED" ELSE "UNCONFIGURED"
GuestsBooted(s, md, k) ==
    /\ s \in Tables
    /\ \A g \in Guests : s.guest[g].state = BootState(md, g, k)
    /\ \A g \in Guests, i \in Vcpus : s.guest[g].vcpus[i] = None
    /\ \A v \in Vcpus : s.vcpu[v].status = "UNCONFIGURED"

LEMMA EndpointsKeep ==
  ASSUME NEW r \in Tables, NEW md, WellFormed(md), NEW g \in Guests
  PROVE  Keeps(r, ConfigEndpoints!Loop([md |-> md, g |-> g], r, MAX_LDC_CHANNELS))
<1> DEFINE n == MAX_LDC_CHANNELS
           p == [md |-> md, g |-> g]
           S == [k \in 0 .. n |-> {s \in Tables : Keeps(r, s)}]
<1>0. n \in Nat /\ \A k \in 0 .. n - 1 : k \in Chans
  BY TablesAssumption DEF Chans
<1>1. /\ \A s : s \in S[n] <=> Keeps(r, s)
      /\ \A k \in 0 .. n - 1 : \A s : s \in S[k] <=> Keeps(r, s)
      /\ \A k \in 0 .. n - 1 : \A s : s \in S[k + 1] <=> Keeps(r, s)
      /\ r \in S[0]
  BY <1>0, KeepsItself DEF Keeps
<1> HIDE DEF S
<1>2. ASSUME NEW s \in Tables, NEW c \in Chans PROVE Keeps(s, config_a_guest_ldc_endpoint(s, md, <<g, c>>))
  <2>1. <<g, c>>[1] = g /\ <<g, c>>[2] = c
    OBVIOUS
  <2> QED BY <2>1, LdcKeeps, KeepsItself DEF config_a_guest_ldc_endpoint
<1>3. \A k \in 0 .. n - 1 : \A s \in S[k] : config_a_guest_ldc_endpoint(s, md, <<g, k>>) \in S[k + 1]
  <2> SUFFICES ASSUME NEW k \in 0 .. n - 1, NEW s \in S[k]
               PROVE  config_a_guest_ldc_endpoint(s, md, <<g, k>>) \in S[k + 1]
    OBVIOUS
  <2>1. Keeps(r, s) /\ s \in Tables
    BY <1>1 DEF Keeps
  <2> QED BY <1>0, <1>1, <1>2, <2>1, KeepsTrans
<1>4. ConfigEndpoints!Loop(p, r, n) \in S[n]
  BY <1>0, <1>1, <1>3, ConfigEndpoints!LoopCorrect
<1> QED BY <1>1, <1>4

\* The assignments of config_a_guest, one after the other.
BootedGuest(G, b, m, n) == [G EXCEPT !.state = "STOPPED", !.real_base = b, !.md_pa = m, !.rng = n, !.vino = {}]

BootGuest(s, k, b, m, n) ==
    [s EXCEPT !.guest[k].state = "STOPPED", !.guest[k].real_base = b, !.guest[k].md_pa = m,
              !.guest[k].rng = n, !.guest[k].vino = {}]

LEMMA BootedGuestType ==
  ASSUME NEW G \in GuestType, NEW b \in RealBases, NEW m \in Int, NEW n \in Int
  PROVE  /\ BootedGuest(G, b, m, n) \in GuestType
         /\ BootedGuest(G, b, m, n).state = "STOPPED"
         /\ BootedGuest(G, b, m, n).vcpus = G.vcpus
  BY DEF BootedGuest, GuestType, GuestStates

LEMMA BootedGuestTables ==
  ASSUME NEW s \in Tables, NEW k \in Guests, NEW b, NEW m, NEW n
  PROVE  BootGuest(s, k, b, m, n) = [s EXCEPT !.guest[k] = BootedGuest(s.guest[k], b, m, n)]
<1> DEFINE G == s.guest[k]
           G1 == [G EXCEPT !.state = "STOPPED"]
           G2 == [G1 EXCEPT !.real_base = b]
           G3 == [G2 EXCEPT !.md_pa = m]
           G4 == [G3 EXCEPT !.rng = n]
           G5 == [G4 EXCEPT !.vino = {}]
           s1 == [s EXCEPT !.guest[k] = G1]
           s2 == [s EXCEPT !.guest[k] = G2]
           s3 == [s EXCEPT !.guest[k] = G3]
           s4 == [s EXCEPT !.guest[k] = G4]
           s5 == [s EXCEPT !.guest[k] = G5]
<1>0. "guest" \in DOMAIN s /\ k \in DOMAIN s.guest
  BY DEF Tables
<1>1. s1 = [s EXCEPT !.guest[k].state = "STOPPED"]
  OBVIOUS
<1>2. s2 = [s1 EXCEPT !.guest[k].real_base = b]
  <2> HIDE DEF G1
  <2> QED BY <1>0
<1>3. s3 = [s2 EXCEPT !.guest[k].md_pa = m]
  <2> HIDE DEF G2
  <2> QED BY <1>0
<1>4. s4 = [s3 EXCEPT !.guest[k].rng = n]
  <2> HIDE DEF G3
  <2> QED BY <1>0
<1>5. s5 = [s4 EXCEPT !.guest[k].vino = {}]
  <2> HIDE DEF G4
  <2> QED BY <1>0
<1> HIDE DEF s1, s2, s3, s4
<1> QED BY <1>1, <1>2, <1>3, <1>4, <1>5 DEF BootedGuest, BootGuest

LEMMA GuestBoots ==
  ASSUME NEW j \in DOMAIN Hvmds, NEW k \in Guests, NEW s, GuestsBooted(s, Hvmds[j], k)
  PROVE  GuestsBooted(config_a_guest(s, Hvmds[j], k), Hvmds[j], k + 1)
<1> DEFINE md == Hvmds[j]
           q == config_a_guest(s, md, k)
<1>0. WellFormed(md) /\ s \in Tables /\ \A g \in Guests : g \in Int
  BY ReconfAssumption, TablesAssumption DEF GuestsBooted, Guests
<1>k. k \in Int /\ \A g \in Guests : (g < k + 1) <=> (g < k \/ g = k)
  BY <1>0
<1>1. CASE k \notin DOMAIN md.guest
  <2>1. q = s
    BY <1>1 DEF config_a_guest
  <2> HIDE DEF q
  <2>2. GuestsBooted(q, md, k + 1)
    BY <1>1, <1>k, <2>1 DEF GuestsBooted, BootState
  <2> QED BY <2>2 DEF q
<1>2. CASE k \in DOMAIN md.guest
  <2> DEFINE G == s.guest[k]
             H == BootedGuest(G, RealBase(md, k), md.guest[k].md_pa, md.guest[k].rng)
             u == [s EXCEPT !.guest[k] = H]
  <2>1. md.guest[k].md_pa \in Int /\ md.guest[k].rng \in Int /\ RealBase(md, k) \in RealBases
    BY <1>0, <1>2 DEF WellFormed, RealBases
  <2>2. G \in GuestType
    BY <1>0 DEF Tables
  <2>3. H \in GuestType /\ H.state = "STOPPED" /\ H.vcpus = s.guest[k].vcpus
    <3> HIDE DEF G, md
    <3>1. H \in GuestType /\ H.state = "STOPPED" /\ H.vcpus = G.vcpus
      BY <2>1, <2>2, BootedGuestType
    <3> QED BY <3>1 DEF G
  <2>4. BootGuest(s, k, RealBase(md, k), md.guest[k].md_pa, md.guest[k].rng) = u
    <3> HIDE DEF md
    <3> QED BY <1>0, BootedGuestTables
  <2>5. q = ConfigEndpoints!Loop([md |-> md, g |-> k], u, MAX_LDC_CHANNELS)
    <3>1. q = ConfigEndpoints!Loop([md |-> md, g |-> k],
                  BootGuest(s, k, RealBase(md, k), md.guest[k].md_pa, md.guest[k].rng), MAX_LDC_CHANNELS)
      BY <1>2 DEF config_a_guest, BootGuest
    <3> HIDE DEF u, q
    <3> QED BY <2>4, <3>1
  <2>6. /\ u \in Tables /\ u.vcpu = s.vcpu
        /\ \A h \in Guests : u.guest[h] = IF h = k THEN H ELSE s.guest[h]
    <3> HIDE DEF H
    <3> QED BY <1>0, <2>3 DEF Tables
  <2> HIDE DEF u, H
  <2>7. GuestsBooted(u, md, k + 1)
    <3>1. ASSUME NEW g \in Guests PROVE u.guest[g].state = BootState(md, g, k + 1)
      BY <1>2, <1>k, <2>3, <2>6 DEF GuestsBooted, BootState
    <3>2. ASSUME NEW g \in Guests, NEW i \in Vcpus PROVE u.guest[g].vcpus[i] = None
      BY <2>3, <2>6 DEF GuestsBooted
    <3> QED BY <2>6, <3>1, <3>2 DEF GuestsBooted
  <2>8. Keeps(u, q)
    BY <1>0, <2>5, <2>6, EndpointsKeep
  <2> HIDE DEF q
  <2>9. GuestsBooted(q, md, k + 1)
    BY <2>7, <2>8 DEF GuestsBooted, Keeps, SameGuest, SameVcpu
  <2> QED BY <2>9 DEF q
<1> QED BY <1>1, <1>2

LEMMA GuestsBoot ==
  ASSUME NEW j \in DOMAIN Hvmds
  PROVE  GuestsBooted(config_guests(config_a_hvldc(init_hv_internals, Hvmds[j]), Hvmds[j]), Hvmds[j], NGUESTS)
<1> DEFINE n == NGUESTS
           md == Hvmds[j]
           r == config_a_hvldc(init_hv_internals, md)
           S == [k \in 0 .. n |-> {s \in Tables : GuestsBooted(s, md, k)}]
<1>0. n \in Nat /\ Guests = 0 .. n - 1 /\ WellFormed(md)
  BY TablesAssumption, ReconfAssumption DEF Guests
<1>1. Keeps(init_hv_internals, r)
  BY <1>0, EmptyTables, HvLdcKeeps
<1> HIDE DEF r, md
<1>2. GuestsBooted(r, md, 0)
  <2>1. \A g \in Guests : ~(g < 0)
    BY <1>0
  <2>2. \A g \in Guests, i \in Vcpus : init_guest.vcpus[i] = None
    BY InitGuestType
  <2> QED BY <1>1, <2>1, <2>2, EmptyTables, InitGuestType DEF GuestsBooted, BootState, Keeps, SameGuest, SameVcpu
<1>3. \A k \in 0 .. n : \A s : s \in S[k] <=> GuestsBooted(s, md, k)
  <2>1. \A s, k : GuestsBooted(s, md, k) => s \in Tables
    BY DEF GuestsBooted
  <2> QED BY <2>1
<1>4. 0 \in 0 .. n /\ n \in 0 .. n /\ \A k \in 0 .. n - 1 : k \in 0 .. n /\ k + 1 \in 0 .. n
  BY <1>0
<1> HIDE DEF S
<1>5. \A k \in 0 .. n - 1 : \A s \in S[k] : config_a_guest(s, md, k) \in S[k + 1]
  BY <1>0, <1>3, <1>4, GuestBoots DEF md
<1>6. r \in S[0]
  BY <1>2, <1>3, <1>4
<1>7. ConfigGuests!Loop(md, r, n) \in S[n]
  BY <1>0, <1>5, <1>6, ConfigGuests!LoopCorrect
<1> QED BY <1>3, <1>4, <1>7 DEF config_guests, r, md

\* The vcpus below k have been configured.
VcpusBooted(r, s, k) ==
    /\ s \in Tables
    /\ \A g \in Guests : s.guest[g].state = r.guest[g].state
    /\ BackRefs(s)
    /\ \A v \in Vcpus : v >= k => s.vcpu[v].status = "UNCONFIGURED"

LEMMA VcpuBoots ==
  ASSUME NEW md, WellFormed(md), NEW k \in Vcpus, NEW r, NEW s, VcpusBooted(r, s, k)
  PROVE  VcpusBooted(r, config_a_vcpu(s, md, k), k + 1)
<1> DEFINE q == config_a_vcpu(s, md, k)
<1>0. s \in Tables /\ \A v \in Vcpus : v \in Int
  BY TablesAssumption DEF VcpusBooted, Vcpus
<1>k. k \in Int /\ k >= k /\ \A v \in Vcpus : v >= k + 1 <=> (v >= k /\ v # k)
  BY <1>0
<1>1. CASE k \notin DOMAIN md.vcpu
  <2>1. q = s
    BY <1>1 DEF config_a_vcpu
  <2> HIDE DEF q
  <2>2. VcpusBooted(r, q, k + 1)
    BY <1>k, <2>1 DEF VcpusBooted
  <2> QED BY <2>2 DEF q
<1>2. CASE k \in DOMAIN md.vcpu
  <2> DEFINE node == md.vcpu[k]
             g == node.guest
             i == node.vid
             st == IF node.strand \in strand_active THEN "STOPPED" ELSE "ERROR"
             V == [s.vcpu[k] EXCEPT !.status = st, !.guest = g, !.vid = i, !.strand = node.strand]
  <2>1. node \in [guest : Guests, vid : Vcpus, strand : 0..NSTRANDS-1]
    BY <1>2 DEF WellFormed
  <2>2. g \in Guests /\ i \in Vcpus /\ node.strand \in Int /\ st \in VcpuStates /\ st # "UNCONFIGURED"
    BY <2>1, TablesAssumption DEF VcpuStates
  <2>3. s.vcpu[k] \in VcpuType /\ s.vcpu[k].status = "UNCONFIGURED"
    BY <1>0, <1>k DEF VcpusBooted, Tables
  <2>4. q = WithSlot(s, k, V, g, i, k)
    BY <1>2 DEF config_a_vcpu, WithSlot
  <2>5. V \in VcpuType /\ V.guest = g /\ V.vid = i /\ V.status # "UNCONFIGURED"
    <3> HIDE DEF st, g, i, node
    <3> QED BY <2>2, <2>3 DEF VcpuType, GuestIds
  <2> HIDE DEF V, g, i, q
  <2>6. BackRefs(q)
    BY <1>0, <2>2, <2>3, <2>4, <2>5, SlotBackRefs DEF VcpusBooted
  <2>7. VcpuDone(s, q, k)
    BY <1>0, <2>2, <2>4, <2>5, SetSlot
  <2>8. VcpusBooted(r, q, k + 1)
    BY <1>k, <2>6, <2>7 DEF VcpusBooted, VcpuDone, SameVcpu
  <2> QED BY <2>8 DEF q
<1> QED BY <1>1, <1>2

LEMMA VcpusBoot ==
  ASSUME NEW md, WellFormed(md), NEW r, VcpusBooted(r, r, 0)
  PROVE  VcpusBooted(r, config_vcpus(r, md), NVCPUS)
<1> DEFINE n == NVCPUS
           S == [k \in 0 .. n |-> {s \in Tables : VcpusBooted(r, s, k)}]
<1>0. n \in Nat /\ Vcpus = 0 .. n - 1
  BY TablesAssumption DEF Vcpus
<1>3. \A k \in 0 .. n : \A s : s \in S[k] <=> VcpusBooted(r, s, k)
  <2>1. \A s, k : VcpusBooted(r, s, k) => s \in Tables
    BY DEF VcpusBooted
  <2> QED BY <2>1
<1>4. 0 \in 0 .. n /\ n \in 0 .. n /\ \A k \in 0 .. n - 1 : k \in 0 .. n /\ k + 1 \in 0 .. n
  BY <1>0
<1> HIDE DEF S
<1>5. \A k \in 0 .. n - 1 : \A s \in S[k] : config_a_vcpu(s, md, k) \in S[k + 1]
  BY <1>0, <1>3, <1>4, VcpuBoots
<1>6. r \in S[0]
  BY <1>3, <1>4
<1>7. ConfigVcpus!Loop(md, r, n) \in S[n]
  BY <1>0, <1>5, <1>6, ConfigVcpus!LoopCorrect
<1> QED BY <1>3, <1>4, <1>7 DEF config_vcpus

LEMMA ParseElects == ASSUME NEW r, NEW md PROVE ElectedBy(res_parse_flags(r, md), md)
<1>1. ASSUME NEW t \in TenTypes, NEW id \in Ids(t), NEW f, f = res_parse_flags(r, md)[t][id]
      PROVE  (f = "Config" => id \in DOMAIN md[t]) /\ (f = "Modify" => id \in DOMAIN md[t] /\ t \in Changeable)
  <2>1. f = IF id \notin DOMAIN md[t] THEN res_prep(r)[t][id]
            ELSE IF ~Configured(r, t, id) THEN "Config"
            ELSE IF Modified(r, md, t, id) THEN "Modify" ELSE "Noop"
    BY <1>1, TypesAre DEF res_parse_flags
  <2>2. res_prep(r)[t][id] \in {"Unconfig", "Noop"}
    BY TypesAre DEF res_prep
  <2>3. t \notin Changeable => ~Modified(r, md, t, id)
    BY DEF Modified, Changeable
  <2> QED BY <2>1, <2>2, <2>3
<1> QED BY <1>1 DEF ElectedBy

LEMMA BootResKeeps ==
  ASSUME NEW r \in Tables, NEW md, WellFormed(md), NEW t \in TenTypes \ {"guest", "vcpu"}
  PROVE  Keeps(r, BootRes(r, md, t))
<1>1. ElectedBy(res_parse_flags(r, md), md) /\ "Config" \in Calls
  BY ParseElects DEF Calls
<1> QED BY <1>1, CommitKeeps DEF BootRes

\* The first tables: the guests of the description are there, stopped.
LEMMA BootTables ==
  ASSUME NEW j \in DOMAIN Hvmds
  PROVE  /\ c_start(Hvmds[j]) \in Tables
         /\ BackRefs(c_start(Hvmds[j]))
         /\ \A g \in Guests : c_start(Hvmds[j]).guest[g].state =
                                IF g \in DOMAIN Hvmds[j].guest THEN "STOPPED" ELSE "UNCONFIGURED"
<1> DEFINE md == Hvmds[j]
           guests == config_guests(config_a_hvldc(init_hv_internals, md), md)
           memory == BootRes(guests, md, "memory")
           console == BootRes(memory, md, "console")
           bus == BootRes(console, md, "pcie_bus")
           network == BootRes(bus, md, "network_device")
           vcpus == config_vcpus(network, md)
           mau == BootRes(vcpus, md, "mau")
           cwq == BootRes(mau, md, "cwq")
<1>0. WellFormed(md) /\ {"memory", "console", "pcie_bus", "network_device", "mau", "cwq"} \subseteq TenTypes \ {"guest", "vcpu"}
  BY ReconfAssumption DEF TenTypes
<1>1. GuestsBooted(guests, md, NGUESTS)
  BY GuestsBoot
<1>d. c_start(md) = cwq
  BY DEF c_start
<1> HIDE DEF guests, md
<1>g. guests \in Tables
  BY <1>1 DEF GuestsBooted
<1>2. Keeps(guests, memory) /\ memory \in Tables
  BY <1>0, <1>g, BootResKeeps DEF Keeps
<1> HIDE DEF memory
<1>3. Keeps(memory, console) /\ console \in Tables
  BY <1>0, <1>2, BootResKeeps DEF Keeps
<1> HIDE DEF console
<1>4. Keeps(console, bus) /\ bus \in Tables
  BY <1>0, <1>3, BootResKeeps DEF Keeps
<1> HIDE DEF bus
<1>5. Keeps(bus, network) /\ network \in Tables
  BY <1>0, <1>4, BootResKeeps DEF Keeps
<1> HIDE DEF network
<1>6. Keeps(guests, network)
  BY <1>2, <1>3, <1>4, <1>5, KeepsTrans
<1>7. GuestsBooted(network, md, NGUESTS)
  BY <1>1, <1>5, <1>6 DEF GuestsBooted, Keeps, SameGuest, SameVcpu
<1>8. VcpusBooted(network, network, 0)
  <2>1. BackRefs(network)
    BY <1>7 DEF GuestsBooted, BackRefs
  <2> QED BY <1>5, <1>7, <2>1 DEF VcpusBooted, GuestsBooted
<1>9. VcpusBooted(network, vcpus, NVCPUS)
  BY <1>0, <1>8, VcpusBoot
<1> HIDE DEF vcpus
<1>v. vcpus \in Tables /\ BackRefs(vcpus)
  BY <1>9 DEF VcpusBooted
<1>10. Keeps(vcpus, mau) /\ mau \in Tables
  BY <1>0, <1>v, BootResKeeps DEF Keeps
<1> HIDE DEF mau
<1>11. Keeps(mau, cwq) /\ cwq \in Tables
  BY <1>0, <1>10, BootResKeeps DEF Keeps
<1> HIDE DEF cwq
<1>12. Keeps(vcpus, cwq)
  BY <1>10, <1>11, KeepsTrans
<1>13. BackRefs(cwq)
  BY <1>v, <1>12, KeepsBackRefs
<1>14. ASSUME NEW g \in Guests PROVE cwq.guest[g].state = IF g \in DOMAIN md.guest THEN "STOPPED" ELSE "UNCONFIGURED"
  <2>1. g < NGUESTS
    BY TablesAssumption DEF Guests
  <2>2. network.guest[g].state = IF g \in DOMAIN md.guest THEN "STOPPED" ELSE "UNCONFIGURED"
    BY <1>7, <2>1 DEF GuestsBooted, BootState
  <2>3. vcpus.guest[g].state = network.guest[g].state
    BY <1>9 DEF VcpusBooted
  <2> QED BY <1>12, <2>2, <2>3 DEF Keeps, SameGuest
<1> QED BY <1>d, <1>11, <1>13, <1>14 DEF md

-----------------------------------------------------------------------------
(* What guests and the control strand do to the tables outside a commit.   *)

\* All but the states of guests and the status of vcpus, as far as a parse
\* or an exit reads it.
Rest(r, q) ==
    /\ q \in Tables
    /\ \A g \in Guests : /\ q.guest[g].vcpus = r.guest[g].vcpus /\ q.guest[g].md_pa = r.guest[g].md_pa
                         /\ q.guest[g].ldc = r.guest[g].ldc /\ q.guest[g].console = r.guest[g].console
    /\ \A v \in Vcpus : q.vcpu[v].guest = r.vcpu[v].guest /\ q.vcpu[v].vid = r.vcpu[v].vid
    /\ q.memory = r.memory /\ q.hv_ldc = r.hv_ldc /\ q.mau = r.mau /\ q.cwq = r.cwq
    /\ q.pcie_bus = r.pcie_bus /\ q.network_device = r.network_device

WithState(r, g, state) == [r EXCEPT !.guest[g].state = state]
WithStatus(r, v, status) == [r EXCEPT !.vcpu[v].status = status]
WithStopped(r, vs) ==
    [r EXCEPT !.vcpu = [v \in Vcpus |->
        IF v \in vs /\ @[v].status # "ERROR" THEN [@[v] EXCEPT !.status = "STOPPED"] ELSE @[v]]]

LEMMA SetState ==
  ASSUME NEW r \in Tables, NEW g \in Guests, NEW state \in GuestStates
  PROVE  /\ Rest(r, WithState(r, g, state))
         /\ WithState(r, g, state).vcpu = r.vcpu
         /\ \A h \in Guests : WithState(r, g, state).guest[h].state = IF h = g THEN state ELSE r.guest[h].state
<1> DEFINE G == r.guest[g]
           H == [G EXCEPT !.state = state]
           q == [r EXCEPT !.guest[g] = H]
<1>1. G \in GuestType
  BY DEF Tables
<1>2. /\ H \in GuestType /\ H.state = state /\ H.vcpus = G.vcpus /\ H.md_pa = G.md_pa
      /\ H.ldc = G.ldc /\ H.console = G.console
  <2> HIDE DEF G
  <2> QED BY <1>1 DEF GuestType
<1>3. WithState(r, g, state) = q
  BY DEF WithState
<1>4. /\ q \in Tables /\ q.vcpu = r.vcpu /\ \A h \in Guests : q.guest[h] = IF h = g THEN H ELSE r.guest[h]
      /\ q.memory = r.memory /\ q.hv_ldc = r.hv_ldc /\ q.mau = r.mau /\ q.cwq = r.cwq
      /\ q.pcie_bus = r.pcie_bus /\ q.network_device = r.network_device
  <2> HIDE DEF H
  <2> QED BY <1>2 DEF Tables
<1> HIDE DEF q, H
<1> QED BY <1>2, <1>3, <1>4 DEF Rest

LEMMA SetStatus ==
  ASSUME NEW r \in Tables, NEW v \in Vcpus, NEW status \in VcpuStates
  PROVE  /\ Rest(r, WithStatus(r, v, status))
         /\ WithStatus(r, v, status).guest = r.guest
         /\ \A w \in Vcpus : WithStatus(r, v, status).vcpu[w].status = IF w = v THEN status ELSE r.vcpu[w].status
<1> DEFINE V == r.vcpu[v]
           W == [V EXCEPT !.status = status]
           q == [r EXCEPT !.vcpu[v] = W]
<1>1. V \in VcpuType
  BY DEF Tables
<1>2. W \in VcpuType /\ W.status = status /\ W.guest = V.guest /\ W.vid = V.vid
  <2> HIDE DEF V
  <2> QED BY <1>1 DEF VcpuType
<1>3. WithStatus(r, v, status) = q
  BY DEF WithStatus
<1>4. /\ q \in Tables /\ q.guest = r.guest /\ \A w \in Vcpus : q.vcpu[w] = IF w = v THEN W ELSE r.vcpu[w]
      /\ q.memory = r.memory /\ q.hv_ldc = r.hv_ldc /\ q.mau = r.mau /\ q.cwq = r.cwq
      /\ q.pcie_bus = r.pcie_bus /\ q.network_device = r.network_device
  <2> HIDE DEF W
  <2> QED BY <1>2 DEF Tables
<1> HIDE DEF q, W
<1> QED BY <1>2, <1>3, <1>4 DEF Rest

LEMMA StopVcpus ==
  ASSUME NEW r \in Tables, NEW vs
  PROVE  /\ Rest(r, WithStopped(r, vs))
         /\ WithStopped(r, vs).guest = r.guest
         /\ \A v \in Vcpus : WithStopped(r, vs).vcpu[v].status =
                               IF v \in vs /\ r.vcpu[v].status # "ERROR" THEN "STOPPED" ELSE r.vcpu[v].status
<1> DEFINE W == [v \in Vcpus |-> IF v \in vs /\ r.vcpu[v].status # "ERROR"
                                 THEN [r.vcpu[v] EXCEPT !.status = "STOPPED"] ELSE r.vcpu[v]]
           q == [r EXCEPT !.vcpu = W]
<1>1. ASSUME NEW v \in Vcpus
      PROVE  /\ W[v] \in VcpuType /\ W[v].guest = r.vcpu[v].guest /\ W[v].vid = r.vcpu[v].vid
             /\ W[v].status = IF v \in vs /\ r.vcpu[v].status # "ERROR" THEN "STOPPED" ELSE r.vcpu[v].status
  <2>1. r.vcpu[v] \in VcpuType
    BY DEF Tables
  <2> QED BY <2>1 DEF VcpuType, VcpuStates
<1>2. W = [v \in Vcpus |-> W[v]]
  OBVIOUS
<1>3. WithStopped(r, vs) = q
  BY DEF WithStopped
<1> HIDE DEF W
<1>w. W \in [Vcpus -> VcpuType]
  BY <1>1, <1>2
<1>4. /\ q \in Tables /\ q.guest = r.guest /\ q.vcpu = W
      /\ q.memory = r.memory /\ q.hv_ldc = r.hv_ldc /\ q.mau = r.mau /\ q.cwq = r.cwq
      /\ q.pcie_bus = r.pcie_bus /\ q.network_device = r.network_device
  BY <1>w DEF Tables
<1> HIDE DEF q
<1> QED BY <1>1, <1>3, <1>4 DEF Rest

LEMMA ParseRest ==
  ASSUME NEW r \in Tables, NEW md, WellFormed(md)
  PROVE  /\ Rest(r, res_guest_parse(r, md))
         /\ res_guest_parse(r, md).vcpu = r.vcpu
         /\ \A g \in Guests : res_guest_parse(r, md).guest[g].state = r.guest[g].state
<1> DEFINE H == [g \in Guests |-> IF g \in GuestNodesParsed(r, md)
                                  THEN [r.guest[g] EXCEPT !.rng = md.guest[g].rng] ELSE r.guest[g]]
           q == [r EXCEPT !.guest = H]
<1>1. ASSUME NEW g \in Guests
      PROVE  /\ H[g] \in GuestType /\ H[g].state = r.guest[g].state /\ H[g].vcpus = r.guest[g].vcpus
             /\ H[g].md_pa = r.guest[g].md_pa /\ H[g].ldc = r.guest[g].ldc /\ H[g].console = r.guest[g].console
  <2>1. r.guest[g] \in GuestType
    BY DEF Tables
  <2>2. g \in GuestNodesParsed(r, md) => md.guest[g].rng \in Int
    BY DEF GuestNodesParsed, WellFormed
  <2>3. ASSUME NEW G \in GuestType, NEW n \in Int
        PROVE  LET K == [G EXCEPT !.rng = n]
               IN  /\ K \in GuestType /\ K.state = G.state /\ K.vcpus = G.vcpus
                   /\ K.md_pa = G.md_pa /\ K.ldc = G.ldc /\ K.console = G.console
    BY DEF GuestType
  <2>4. CASE g \in GuestNodesParsed(r, md)
    <3>1. H[g] = [r.guest[g] EXCEPT !.rng = md.guest[g].rng]
      BY <2>4
    <3> HIDE DEF H
    <3> QED BY <2>1, <2>2, <2>3, <2>4, <3>1
  <2>5. CASE g \notin GuestNodesParsed(r, md)
    BY <2>1, <2>5
  <2> QED BY <2>4, <2>5
<1>2. H = [g \in Guests |-> H[g]]
  OBVIOUS
<1>3. res_guest_parse(r, md) = q
  BY DEF res_guest_parse
<1> HIDE DEF H
<1>h. H \in [Guests -> GuestType]
  BY <1>1, <1>2
<1>4. /\ q \in Tables /\ q.guest = H /\ q.vcpu = r.vcpu
      /\ q.memory = r.memory /\ q.hv_ldc = r.hv_ldc /\ q.mau = r.mau /\ q.cwq = r.cwq
      /\ q.pcie_bus = r.pcie_bus /\ q.network_device = r.network_device
  BY <1>h DEF Tables
<1> HIDE DEF q
<1> QED BY <1>1, <1>3, <1>4 DEF Rest

LEMMA AssertRest ==
  ASSUME NEW r \in Tables, NEW holds, NEW label \in Labels
  PROVE  /\ Rest(r, ASSERT(r, holds, label))
         /\ ASSERT(r, holds, label).guest = r.guest /\ ASSERT(r, holds, label).vcpu = r.vcpu
<1>1. ASSERT(r, holds, label) \in Tables
  BY AssertKeeps DEF Keeps
<1>2. \A f \in {"guest", "memory", "vcpu", "hv_ldc", "mau", "cwq", "pcie_bus", "network_device"} :
              ASSERT(r, holds, label)[f] = r[f]
  BY AssertKeeps
<1> DEFINE q == ASSERT(r, holds, label)
<1>3. /\ q.guest = r.guest /\ q.vcpu = r.vcpu /\ q.memory = r.memory /\ q.hv_ldc = r.hv_ldc /\ q.mau = r.mau
      /\ q.cwq = r.cwq /\ q.pcie_bus = r.pcie_bus /\ q.network_device = r.network_device
  <2> HIDE DEF q
  <2> QED BY <1>2 DEF q
<1> HIDE DEF q
<1>4. Rest(r, q)
  BY <1>1, <1>3 DEF Rest, q
<1> QED BY <1>3, <1>4 DEF q

LEMMA RestTrans == ASSUME NEW r, NEW q, NEW s, Rest(r, q), Rest(q, s) PROVE Rest(r, s)
  BY DEF Rest

\* launch: the tables after the mondo arrived.
Launched(r, g, v) == WithState(WithStatus(r, v, "RUNNING"), g, "NORMAL")

LEMMA LaunchRest ==
  ASSUME NEW r \in Tables, NEW g \in Guests, NEW v \in Vcpus
  PROVE  /\ Rest(r, Launched(r, g, v))
         /\ \A h \in Guests : Launched(r, g, v).guest[h].state = IF h = g THEN "NORMAL" ELSE r.guest[h].state
         /\ \A w \in Vcpus : Launched(r, g, v).vcpu[w].status = IF w = v THEN "RUNNING" ELSE r.vcpu[w].status
<1> DEFINE s == WithStatus(r, v, "RUNNING")
<1>0. "NORMAL" \in GuestStates /\ "RUNNING" \in VcpuStates
  BY DEF GuestStates, VcpuStates
<1>1. /\ Rest(r, s) /\ s \in Tables /\ s.guest = r.guest
      /\ \A w \in Vcpus : s.vcpu[w].status = IF w = v THEN "RUNNING" ELSE r.vcpu[w].status
  BY <1>0, SetStatus DEF Rest
<1>3. Launched(r, g, v) = WithState(s, g, "NORMAL")
  BY DEF Launched
<1> HIDE DEF s
<1>4. /\ Rest(s, WithState(s, g, "NORMAL")) /\ WithState(s, g, "NORMAL").vcpu = s.vcpu
      /\ \A h \in Guests : WithState(s, g, "NORMAL").guest[h].state = IF h = g THEN "NORMAL" ELSE s.guest[h].state
  BY <1>0, <1>1, SetState
<1> DEFINE q == WithState(s, g, "NORMAL")
<1> HIDE DEF q
<1>5. Rest(s, q) /\ q.vcpu = s.vcpu /\ \A h \in Guests : q.guest[h].state = IF h = g THEN "NORMAL" ELSE s.guest[h].state
  BY <1>4 DEF q
<1>6. Rest(r, q)
  BY <1>1, <1>5, RestTrans
<1>7. Launched(r, g, v) = q
  BY <1>3 DEF q
<1>8. Launched(r, g, v).vcpu = s.vcpu
  BY <1>5, <1>7
<1> QED BY <1>1, <1>5, <1>6, <1>7, <1>8

-----------------------------------------------------------------------------
(* The calls of commit_reconfig.                                           *)

LEMMA ArrayIsSeq == ASSUME NEW C, NEW m \in Nat, NEW a \in [1 .. m -> C] PROVE a \in Seq(C) /\ Len(a) = m
<1>1. [1 .. m -> C] \in {[1 .. n -> C] : n \in Nat}
  OBVIOUS
<1>2. a \in Seq(C)
  BY <1>1, SeqDef, Zenon
<1>3. DOMAIN a = 1 .. Len(a) /\ Len(a) \in Nat
  BY <1>2, LenProperties
<1>4. 1 .. m = 1 .. Len(a)
  BY <1>3
<1>5. Len(a) = m
  <2>1. (m > 0 => m \in 1 .. Len(a)) /\ m + 1 \notin 1 .. Len(a)
    BY <1>4
  <2> QED BY <1>3, <2>1
<1> QED BY <1>2, <1>5

LEMMA ConcatAt ==
  ASSUME NEW C, NEW a \in Seq(C), NEW b \in Seq(C), NEW n \in Nat, NEW m \in Nat, n = Len(a), m = Len(b)
  PROVE  /\ a \o b \in Seq(C) /\ Len(a \o b) = n + m
         /\ \A k \in 1 .. n : (a \o b)[k] = a[k]
         /\ \A k \in 1 .. m : (a \o b)[n+k] = b[k]
<1>1. a \o b \in Seq(C)
  OBVIOUS
<1>2. Len(a \o b) = n + m
  OBVIOUS
<1>3. \A k \in 1 .. n : (a \o b)[k] = a[k] 
  OBVIOUS
<1>4. ASSUME NEW k \in 1 .. m PROVE (a \o b)[n+k] = b[k] 
  OBVIOUS
<1> QED BY <1>1, <1>2, <1>3, <1>4

LEMMA ConcatThree ==
  ASSUME NEW C, NEW a \in Seq(C), NEW b \in Seq(C), NEW c \in Seq(C),
         NEW n \in Nat \ {0}, Len(a) = n, Len(b) = n, Len(c) = n
  PROVE  /\ a \o b \o c \in Seq(C) /\ Len(a \o b \o c) = n+n+n
         /\ (a \o b \o c)[n] = a[n]
         /\ (a \o b \o c)[n+1] = b[1]
<1>n. n \in Nat /\ n + n \in Nat /\ n \in 1 .. n /\ 1 \in 1 .. n /\ n \in 1 .. (n+n) /\ n+1 \in 1 .. (n+n)
  OBVIOUS
<1>1. a \o b \in Seq(C) /\ Len(a \o b) = n + n /\ (\A k \in 1 .. n : (a \o b)[k] = a[k]) /\ (\A k \in 1 .. n : (a \o b)[n+k] = b[k])
  BY <1>n, ConcatAt
<1>2. (a \o b)[n] = a[n] /\ (a \o b)[n+1] = b[1]
  BY <1>n, <1>1, Zenon
<1>5. PICK d \in Seq(C) : d = a \o b
  BY <1>1
<1>6. Len(d) = n + n
  BY <1>1, <1>5, Zenon
<1>7. d \o c \in Seq(C) /\ Len(d \o c) = n + n + n /\ (\A k \in 1 .. (n+n) : (d \o c)[k] = d[k])
  <2>1. PICK p \in Nat : p = n + n
    BY <1>n
  <2>2. p = Len(d) /\ n = Len(c)
    BY <1>6, <2>1
  <2>3. d \o c \in Seq(C)
    OBVIOUS
  <2>4. Len(d \o c) = p + n
    BY <2>2, <1>n
  <2>5. \A k \in 1 .. p : (d \o c)[k] = d[k]
    BY <2>2
  <2> QED BY <2>1, <2>3, <2>4, <2>5, Zenon
<1>8. (d \o c)[n] = d[n] /\ (d \o c)[n+1] = d[n+1]
  BY <1>n, <1>7, Zenon
<1> QED BY <1>2, <1>5, <1>7, <1>8, Zenon

LEMMA CallFacts ==
  /\ Len(commit_reconfig) = 30
  /\ \A k \in 1 .. 30 : commit_reconfig[k][1] \in TenTypes /\ commit_reconfig[k][2] \in Calls
  /\ commit_reconfig[10] = <<"guest", "Unconfig">>
  /\ commit_reconfig[11] = <<"guest", "Config">>
<1>1. Len(resource_info) = 10 /\ resource_info[1] = "guest" /\ DOMAIN resource_info = 1 .. 10
  BY DEF resource_info
<1>2. \A k \in 1 .. 10 : resource_info[k] \in TenTypes
  BY <1>1, TypesAre DEF Types, Range
<1> HIDE DEF resource_info
<1>3. ASSUME NEW k \in 1 .. 10 PROVE Reverse(resource_info)[k] = resource_info[10 - k + 1]
  BY <1>1, <1>3 DEF Reverse
<1>r. Reverse(resource_info)[10] = "guest"
  BY <1>1, <1>3
<1>4. \A k \in 1 .. 10 : Reverse(resource_info)[k] \in TenTypes
  BY <1>2, <1>3
<1> DEFINE C == TenTypes \X Calls
<1>n. PICK n \in Nat \ {0} : n = Len(resource_info)
  BY <1>1
<1>10. n = 10 /\ n + n + n = 30 /\ n + 1 = 11
  BY <1>1, <1>n
<1>a. PICK a : a = [k \in 1 .. n |-> <<Reverse(resource_info)[k], "Unconfig">>]
  OBVIOUS
<1>b. PICK b : b = [k \in 1 .. n |-> <<resource_info[k], "Config">>]
  OBVIOUS
<1>c. PICK c : c = [k \in 1 .. n |-> <<resource_info[k], "Modify">>]
  OBVIOUS
<1>5. a \in [1 .. n -> C] /\ b \in [1 .. n -> C] /\ c \in [1 .. n -> C]
  BY <1>2, <1>4, <1>10, <1>a, <1>b, <1>c DEF Calls
<1>6. a[10] = <<"guest", "Unconfig">> /\ b[1] = <<"guest", "Config">>
  BY <1>1, <1>r, <1>10, <1>a, <1>b
<1>7. commit_reconfig = a \o b \o c
  BY <1>n, <1>a, <1>b, <1>c DEF commit_reconfig
<1> HIDE DEF C
<1>8. n \in Nat /\ n # 0
  OBVIOUS
<1>9. a \in Seq(C) /\ b \in Seq(C) /\ c \in Seq(C) /\ Len(a) = n /\ Len(b) = n /\ Len(c) = n
  BY <1>5, <1>8, ArrayIsSeq
<1>11. /\ a \o b \o c \in Seq(C) /\ Len(a \o b \o c) = n + n + n
       /\ (a \o b \o c)[n] = a[n] /\ (a \o b \o c)[n + 1] = b[1]
  BY <1>9, ConcatThree
<1>12. PICK e : e = a \o b \o c
  OBVIOUS
<1>13. e \in Seq(C) /\ Len(e) = 30 /\ e[10] = a[10] /\ e[11] = b[1]
  BY <1>10, <1>11, <1>12, Zenon
<1>14. ASSUME NEW k \in 1 .. 30 PROVE e[k] \in C
  <2>1. k \in 1 .. Len(e)
    BY <1>13, Zenon
  <2> QED BY <1>13, <2>1, ElementOfSeq, Zenon
<1> QED BY <1>6, <1>7, <1>12, <1>13, <1>14 DEF C
=============================================================================
