----------------------------- MODULE MCCpuMondo -----------------------------
(***************************************************************************)
(* c1 sends a mondo to c2 and c3 while c2 sends one to c3, whose queue has *)
(* room for one and which may be stopped and started; c2 may fail.         *)
(***************************************************************************)
EXTENDS CpuMondo, TLC
CONSTANTS c1, c2, c3
Lists == (c1 :> {<<c2, c3>>}) @@ (c2 :> {<<c3>>}) @@ (c3 :> {})
Counts == (c1 :> 1) @@ (c2 :> 1) @@ (c3 :> 0)
=============================================================================
