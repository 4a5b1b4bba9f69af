----------------------------- MODULE MCHvMondo ------------------------------
(* Three strands: two senders race for the mailbox of the third, one of    *)
(* which is sent to as well; two words show a torn copy.                   *)
EXTENDS HvMondo

CONSTANTS s1, s2, s3

Chain == {<<s1, s2>>, <<s1, s3>>, <<s2, s3>>}
=============================================================================
