---------------------------- MODULE XcallMailbox ----------------------------
(***************************************************************************)
(* What the strand cross-call mailbox promises to the code built on it:    *)
(* every strand owns a one-place box; a mondo is put in an empty box and   *)
(* taken out, whole, once.  HvMondo, the word-by-word protocol of          *)
(* chipsubr.s, is shown to implement this module, and GuestLifecycle uses  *)
(* the mailbox at this level.                                              *)
(***************************************************************************)
EXTENDS Sequences

CONSTANTS Strands,      \* the hardware strands, each with one mailbox
          Mondos,       \* the messages, each sent at most once
          NoMondo       \* the empty mailbox

VARIABLES box,          \* box[t]: the mondo waiting for strand t
          delivered     \* delivered[t]: the mondos t has taken, oldest first

xvars == <<box, delivered>>

Init == /\ box = [t \in Strands |-> NoMondo]
        /\ delivered = [t \in Strands |-> <<>>]

(* m is in a mailbox or has already been taken from one.                   *)
Used(m) == \E t \in Strands : \/ box[t] = m
                              \/ \E i \in DOMAIN delivered[t] : delivered[t][i] = m

Put(t, m) == /\ box[t] = NoMondo
             /\ ~Used(m)
             /\ box' = [box EXCEPT ![t] = m]
             /\ UNCHANGED delivered

Take(t) == /\ box[t] # NoMondo
           /\ delivered' = [delivered EXCEPT ![t] = Append(@, box[t])]
           /\ box' = [box EXCEPT ![t] = NoMondo]

Next == \E t \in Strands : Take(t) \/ \E m \in Mondos : Put(t, m)

Spec == Init /\ [][Next]_xvars
=============================================================================
