---------------------------- MODULE MCLdcChannel ----------------------------
(* LdcChannel on a small instance; the constants are set in the cfg files. *)
EXTENDS LdcChannel
=============================================================================
