------------------------------- MODULE MCReconf -------------------------------
(***************************************************************************)
(* Instances of Reconf: three guests of which two exist at boot, six       *)
(* strands on three cores, a crypto unit of each kind on the second core,  *)
(* and a strand that did not come up.                                      *)
(***************************************************************************)
EXTENDS Reconf

Endpoint(target, tx) == [target |-> target, private |-> FALSE, tx_ino |-> tx, rx_ino |-> tx + 1]
PrivateEndpoint(target) == [target |-> target, private |-> TRUE, tx_ino |-> None, rx_ino |-> None]
Uart == [type |-> "UART", endpt |-> None, ino |-> None]
Block(g, real, mem, size) == [guest |-> g, real |-> real, mem |-> mem, size |-> size]
Unit(cpuset, ino) == 1 :> [guest |-> 1, ino |-> ino, cpuset |-> cpuset]
Without(f, S) == Restrict(f, DOMAIN f \ S)

\* Guest 0 runs the domain manager and owns the bus; guest 1 has a channel to
\* it, a console on a private channel to the service processor, and units.
Boot ==
    [version |-> "ok", bad |-> "none",
     guest |-> 0 :> [md_pa |-> 10, rng |-> 1, unbind |-> FALSE]
            @@ 1 :> [md_pa |-> 20, rng |-> 0, unbind |-> FALSE],
     memory |-> 0 :> Block(0, 0, 0, 4) @@ 1 :> Block(1, 4, 4, 6),
     vcpu |-> 0 :> [guest |-> 0, vid |-> 0, strand |-> 0]
           @@ 2 :> [guest |-> 1, vid |-> 0, strand |-> 2],
     hv_ldc |-> 0 :> [guest |-> 0, chan |-> 0],
     ldc |-> <<0, 0>> :> Endpoint(<<"HV", None, 0>>, 0) @@ <<0, 1>> :> Endpoint(<<"GUEST", 1, 0>>, 2)
          @@ <<1, 0>> :> Endpoint(<<"GUEST", 0, 1>>, 0) @@ <<1, 1>> :> PrivateEndpoint(<<"SP", None, 1>>),
     console |-> 0 :> Uart @@ 1 :> [type |-> "LDC", endpt |-> 1, ino |-> 4],
     mau |-> Unit({0}, 2), cwq |-> Unit({0}, 3),
     pcie_bus |-> 0 :> [guest |-> 0], network_device |-> <<>>]

\* A second vcpu for guest 1, which also gets the MAU.
AddVcpu ==
    [Boot EXCEPT !.vcpu = @ @@ 3 :> [guest |-> 1, vid |-> 1, strand |-> 3],
                 !.mau = Unit({0, 1}, 2), !.guest[1].md_pa = 21]
\* A third guest, with the network device; its first vcpu is on a dead strand.
AddGuest ==
    [Boot EXCEPT !.guest = @ @@ 2 :> [md_pa |-> 30, rng |-> 0, unbind |-> FALSE],
                 !.memory = @ @@ 2 :> Block(2, 8, 12, 4),
                 !.vcpu = @ @@ 1 :> [guest |-> 2, vid |-> 1, strand |-> 1]
                            @@ 4 :> [guest |-> 2, vid |-> 0, strand |-> 4],
                 !.console = @ @@ 2 :> Uart,
                 !.network_device = 0 :> [guest |-> 2]]
\* Other memory, a console on the UART and no units for guest 1.
Rearrange ==
    [Boot EXCEPT !.memory[1] = Block(1, 8, 12, 8), !.guest[1].md_pa = 22,
                 !.console[1] = Uart,
                 !.mau = <<>>, !.cwq = <<>>]
\* Guest 1 is gone and so is the channel to it.
RemoveGuest ==
    [Boot EXCEPT !.guest = Without(@, {1}), !.memory = Without(@, {1}), !.vcpu = Without(@, {2}),
                 !.ldc = Restrict(@, {<<0, 0>>}), !.console = Without(@, {1}),
                 !.mau = <<>>, !.cwq = <<>>]
\* Instead a third guest at the other end of the same channel, which must have
\* been removed before.
Rewire ==
    [RemoveGuest EXCEPT !.guest = @ @@ 2 :> AddGuest.guest[2], !.memory = @ @@ 2 :> AddGuest.memory[2],
                        !.vcpu = @ @@ Restrict(AddGuest.vcpu, {1, 4}),
                        !.network_device = AddGuest.network_device,
                        !.console = @ @@ 2 :> Uart,
                        !.ldc = @ @@ <<0, 1>> :> Endpoint(<<"GUEST", 2, 1>>, 4)
                                  @@ <<2, 1>> :> Endpoint(<<"GUEST", 0, 1>>, 2)]
\* Smaller memory for guest 1, unless it is active.
Unbind == [Boot EXCEPT !.guest[1].unbind = TRUE, !.guest[1].md_pa = 23, !.memory[1] = Block(1, 4, 4, 4)]
\* Other memory and a second vcpu for the guest of the domain manager.
ChangeControl ==
    [Boot EXCEPT !.memory[0] = Block(0, 0, 12, 4), !.guest[0].md_pa = 11,
                 !.vcpu = @ @@ 1 :> [guest |-> 0, vid |-> 1, strand |-> 1]]
\* The vcpu of guest 1 moves to another strand and loses its units, or they
\* move with it; the guest of the domain manager loses the bus.
MoveVcpu ==
    [Boot EXCEPT !.vcpu = Without(@, {2}) @@ 3 :> [guest |-> 1, vid |-> 0, strand |-> 3],
                 !.mau = <<>>, !.cwq = <<>>]
MoveUnits == [MoveVcpu EXCEPT !.mau = Unit({1}, 2), !.cwq = Unit({1}, 3)]
RemoveBus == [Boot EXCEPT !.pcie_bus = <<>>]
\* A console node that does not parse, and descriptions refused earlier.
BadNode == [AddVcpu EXCEPT !.bad = "console"]
BadTransport == [Boot EXCEPT !.version = "transport"]
NoRoot == [Boot EXCEPT !.version = "noroot"]
\* The console node does not parse, and guest 1 is to control the random numbers.
BadAccess == [BadNode EXCEPT !.guest[1].rng = 1]

MCHvmds == <<Boot, AddVcpu, AddGuest, Rearrange, RemoveGuest, Rewire, Unbind, ChangeControl,
             BadNode, BadTransport, NoRoot>>
NoRootHvmds == <<Boot, NoRoot>>
MoveHvmds == <<Boot, MoveVcpu>>
UnitsHvmds == <<Boot, MoveUnits>>
MemoryHvmds == <<Boot, Rearrange>>
AccessHvmds == <<Boot, BadAccess>>
BusHvmds == <<Boot, RemoveBus>>
=============================================================================
