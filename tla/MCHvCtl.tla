------------------------------ MODULE MCHvCtl ------------------------------
(* Instances of HvCtl for TLC: one guest on two strands. *)
EXTENDS HvCtl, TLC

CONSTANTS g1, s1, s2

MCBootOf == g1 :> s1
MCGuestOf == s1 :> g1 @@ s2 :> g1
====
