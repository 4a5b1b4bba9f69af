------------------------------- MODULE ForLoop -------------------------------
(***************************************************************************)
(* A loop of the C code, for (k = 0; k < n; k++), as a function of what it *)
(* works on: body(p, r, k) is r after one round, p is what the loop does   *)
(* not change.  LoopCorrect is the rule for loop invariants: TLC runs the  *)
(* loop, a proof only needs an invariant of it.                            *)
(***************************************************************************)
EXTENDS Integers, TLAPS, WellFoundedInduction

CONSTANT body(_, _, _)

Loop(p, r, n) ==
    LET after[k \in 0 .. n] == IF k = 0 THEN r ELSE body(p, after[k - 1], k - 1)
    IN  after[n]

-----------------------------------------------------------------------------
(* Induction as the search for a least counterexample.                     *)

LEMMA Least ==
  ASSUME NEW T \in SUBSET Nat, T # {}
  PROVE  \E m \in T : \A k \in T : m <= k
<1>1. PICK m \in T : \A k \in T : ~(<<k, m>> \in OpToRel(<, Nat))
  BY NatLessThanWellFounded, WFMin
<1>2. ASSUME NEW k \in T PROVE m <= k
  <2>1. <<k, m>> \notin {ss \in Nat \X Nat : ss[1] < ss[2]}
    BY <1>1 DEF OpToRel
  <2> QED BY <2>1
<1> QED BY <1>2

\* f[k] is what the loop has made of r after k rounds.
IsRun(f, p, r, n) == f = [k \in 0 .. n |-> IF k = 0 THEN r ELSE body(p, f[k - 1], k - 1)]

LEMMA RunExists ==
  ASSUME NEW p, NEW r, NEW n \in Nat
  PROVE  \E f : IsRun(f, p, r, n)
<1> DEFINE T == {m \in Nat : ~\E f : IsRun(f, p, r, m)}
<1> SUFFICES ASSUME T # {} PROVE FALSE
  OBVIOUS
<1>1. PICK m \in T : \A k \in T : m <= k
  BY Least
<1>2. CASE m = 0
  <2>1. IsRun([k \in 0 .. 0 |-> r], p, r, 0)
    BY DEF IsRun
  <2> QED BY <1>1, <1>2, <2>1
<1>3. CASE m # 0
  <2>1. m - 1 \in Nat /\ m - 1 \notin T
    BY <1>1, <1>3
  <2>2. PICK f : IsRun(f, p, r, m - 1)
    BY <2>1
  <2> DEFINE g == [k \in 0 .. m |-> IF k = m THEN body(p, f[m - 1], m - 1) ELSE f[k]]
  <2>3. ASSUME NEW k \in 0 .. m PROVE g[k] = IF k = 0 THEN r ELSE body(p, g[k - 1], k - 1)
    BY <1>1, <1>3, <2>2 DEF IsRun
  <2>4. IsRun(g, p, r, m)
    BY <2>3 DEF IsRun
  <2> QED BY <1>1, <2>4
<1> QED BY <1>2, <1>3

LEMMA LoopRun ==
  ASSUME NEW p, NEW r, NEW n \in Nat
  PROVE  \E f : IsRun(f, p, r, n) /\ Loop(p, r, n) = f[n]
<1> DEFINE f == CHOOSE f : IsRun(f, p, r, n)
<1>1. IsRun(f, p, r, n)
  BY RunExists
<1>2. Loop(p, r, n) = f[n]
  BY Zenon DEF Loop, IsRun
<1> QED BY <1>1, <1>2

\* What holds before the first round, S[0], and is carried by every round from
\* S[k] to S[k + 1], holds after the last one.
THEOREM LoopCorrect ==
  \A p, r, n, S :
    /\ n \in Nat /\ r \in S[0]
    /\ \A k \in 0 .. n - 1 : \A q \in S[k] : body(p, q, k) \in S[k + 1]
    => Loop(p, r, n) \in S[n]
<1> SUFFICES ASSUME NEW p, NEW r, NEW n \in Nat, NEW S, r \in S[0],
                    \A k \in 0 .. n - 1 : \A q \in S[k] : body(p, q, k) \in S[k + 1]
             PROVE  Loop(p, r, n) \in S[n]
  OBVIOUS
<1>1. PICK f : IsRun(f, p, r, n) /\ Loop(p, r, n) = f[n]
  BY LoopRun
<1> DEFINE T == {m \in 0 .. n : f[m] \notin S[m]}
<1>2. ASSUME T # {} PROVE FALSE
  <2>0. T \in SUBSET Nat
    OBVIOUS
  <2>1. PICK m \in T : \A k \in T : m <= k
    BY <1>2, <2>0, Least
  <2>2. m # 0
    BY <1>1 DEF IsRun
  <2>3. m - 1 \in 0 .. n - 1 /\ f[m - 1] \in S[m - 1]
    BY <2>1, <2>2
  <2>4. f[m] = body(p, f[m - 1], m - 1)
    BY <1>1, <2>2 DEF IsRun
  <2> QED BY <2>3, <2>4
<1> QED BY <1>1, <1>2
=============================================================================
