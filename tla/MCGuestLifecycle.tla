-------------------------- MODULE MCGuestLifecycle --------------------------
(* The instances of GuestLifecycle that TLC checks.                        *)
EXTENDS GuestLifecycle
=============================================================================
