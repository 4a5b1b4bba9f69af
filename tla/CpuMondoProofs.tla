--------------------------- MODULE CpuMondoProofs ---------------------------
(***************************************************************************)
(* Proofs about CpuMondo for any set of vcpus, any size of mondo and of    *)
(* queue, and any lists of targets.                                        *)
(***************************************************************************)
EXTENDS CpuMondo, SequenceTheorems, TLAPS

InCall == {"next", "copy", "signal", "poke"}
AtTarget == {"copy", "signal", "poke"}

(* The types of TypeOK, and those of the variables it leaves out.          *)
Types ==
  /\ command \in [Cpus -> Commands]
  /\ args \in [Cpus -> [Word -> Mondos \cup {NoMondo}]]
  /\ xcall \in [Cpus -> BOOLEAN] /\ error \in [Cpus -> BOOLEAN]
  /\ pc \in [Cpus -> PC]
  /\ list \in [Cpus -> Seq(Cpus \cup {DONE})] /\ idx \in [Cpus -> Nat \ {0}]
  /\ block \in [Cpus -> BOOLEAN] /\ wd \in [Cpus -> Word]
  /\ sent \in [Cpus -> Nat]
QueueTypes ==
  /\ qconf \in [Cpus -> BOOLEAN]
  /\ head \in [Cpus -> Slot] /\ tail \in [Cpus -> Slot]
  /\ queue \in [Cpus -> [Slot -> [Word -> Mondos \cup {NoMondo}]]]
  /\ queued \in [Cpus -> Seq(Mondos \cup {NoMondo})]
  /\ dropped \in [Cpus -> SUBSET (Mondos \cup {NoMondo})]

(* A sender past the casxa is at an entry of its list that names another   *)
(* vcpu, whoever has a list has begun a mondo, and word 1 is copied first. *)
CallInv ==
  \A c \in Cpus :
    /\ pc[c] \in AtTarget => idx[c] \in DOMAIN list[c] /\ Target(c) \in Cpus \ {c, DONE}
    /\ pc[c] \in InCall \cup {"retry"} \/ list[c] # <<>> => sent[c] >= 1
    /\ pc[c] # "copy" => wd[c] = 1
    /\ sent[c] <= MaxMondos[c]

TypeInv == Types /\ QueueTypes /\ CallInv

(* Who may write a mailbox: the one sender whose casxa took it, until the  *)
(* mondo is there; then the target alone, until it has queued the mondo.   *)
OwnerInv ==
  \A c \in Cpus :
    /\ pc[c] \in {"copy", "signal"} => command[Target(c)] = "BUSY"
    /\ \A d \in Cpus : c # d /\ pc[c] \in {"copy", "signal"} /\ pc[d] \in {"copy", "signal"}
         => Target(c) # Target(d)
    /\ pc[c] \in {"fill", "clear"} => command[c] = "GUESTMONDO_READY"

(* What is in it: the words copied so far, then the whole mondo.           *)
CopiedIn(c) ==
  /\ pc[c] = "copy" => \A w \in Word : w < wd[c] => args[Target(c)][w] = Mondo(c)
  /\ pc[c] = "signal" => \A w \in Word : args[Target(c)][w] = Mondo(c)
Whole(t) == command[t] = "GUESTMONDO_READY" => \A w \in Word : args[t][w] = args[t][1]
ContentInv == \A c \in Cpus : CopiedIn(c) /\ Whole(c)

(* The target found room, and only it moves the registers of its queue.    *)
RoomInv == \A t \in Cpus : pc[t] = "fill" => ~Full(t)

(* IntactQueue for one queue, and the type its argument needs.             *)
IntactQueueOf(t) ==
  /\ unread[t] \in Seq(Mondos \cup {NoMondo})
  /\ Len(unread[t]) = (tail[t] - head[t]) % QSIZE
  /\ \A k \in DOMAIN unread[t] :
       queue[t][(head[t] + k - 1) % QSIZE] = [w \in Word |-> unread[t][k]]
UnreadInv == unread \in [Cpus -> Seq(Mondos \cup {NoMondo})] /\ \A t \in Cpus : IntactQueueOf(t)

(* The mondos a vcpu has been given, and the one that waits for it.        *)
Has(t, m) == \E i \in DOMAIN queued[t] : queued[t][i] = m
Waits(t, m) == command[t] = "GUESTMONDO_READY" /\ pc[t] # "clear" /\ args[t][1] = m

(* Mondos are numbered by their senders: none is ahead of its sender.      *)
BegunInv == \A c, t \in Cpus, n \in Nat : Has(t, <<c, n>>) \/ Waits(t, <<c, n>>) => n <= sent[c]

(* A mondo that waits has not been queued before.                          *)
NewInv == \A t \in Cpus, m \in Mondos \cup {NoMondo} : Waits(t, m) => ~Has(t, m)

(* An entry that is not marked yet, unless it is the one being poked, has  *)
(* not had the mondo of the call.                                          *)
Unsent(c, i) ==
  list[c][i] # DONE /\ ~(pc[c] = "poke" /\ idx[c] = i) =>
    ~Has(list[c][i], Mondo(c)) /\ ~Waits(list[c][i], Mondo(c))
UnsentInv == \A c \in Cpus : \A i \in DOMAIN list[c] : Unsent(c, i)

(* No vcpu is twice on a list.                                             *)
DistinctTargets == \A c \in Cpus : \A l \in CpuLists[c] : \A i, j \in DOMAIN l : i # j => l[i] # l[j]
ListInv == \A c \in Cpus : \A i, j \in DOMAIN list[c] : i # j => list[c][i] # list[c][j] \/ list[c][i] = DONE

OnceInv == BegunInv /\ NewInv /\ UnsentInv /\ ListInv /\ OncePerTarget

(* The mondo about to be marked is with its target.                        *)
Accepted(t, m) ==
  \/ command[t] = "GUESTMONDO_READY" /\ args[t] = [w \in Word |-> m]
  \/ Has(t, m)
  \/ m \in dropped[t]
AcceptInv ==
  /\ \A t \in Cpus : pc[t] = "clear" => Has(t, args[t][1])
  /\ \A c \in Cpus : pc[c] = "poke" => Accepted(Target(c), Mondo(c))

-----------------------------------------------------------------------------
(* The next-state relation, action by action.                              *)
LEMMA Cases ==
  ASSUME Next
  PROVE  \E c \in Cpus :
           \/ \E l \in CpuLists[c] : hcall_cpu_mondo_send(c, l)
           \/ retry(c) \/ cpu_mondo_break(c) \/ entry_done(c) \/ entry_refused(c)
           \/ mailbox_cas(c) \/ mailbox_taken(c) \/ mailbox_poke(c)
           \/ send_copy(c) \/ send_signal(c) \/ send_poke(c)
           \/ cpu_mondo(c) \/ mondo_check(c) \/ mondo_fill(c) \/ mondo_clear(c)
           \/ guest_dequeue(c) \/ \E b \in BOOLEAN : hcall_cpu_qconf(c, b)
           \/ stop_vcpu(c) \/ hvmondo_wait(c) \/ start_vcpu(c) \/ strand_in_error(c)
  BY DEF Next, Send, Handle

(* Positions in a queue of QSIZE entries: the mask of the queue registers. *)
LEMMA ModSlot == ASSUME NEW a \in Int PROVE a % QSIZE \in Slot
  BY CpuMondoAssumption DEF Slot

LEMMA ModLow == ASSUME NEW a \in Slot PROVE a % QSIZE = a
  BY CpuMondoAssumption DEF Slot

LEMMA ModHigh == ASSUME NEW a \in QSIZE .. 2 * QSIZE - 1 PROVE a % QSIZE = a - QSIZE
  BY CpuMondoAssumption

LEMMA ModNeg == ASSUME NEW a \in -QSIZE .. -1 PROVE a % QSIZE = a + QSIZE
  BY CpuMondoAssumption

LEMMA MondoType ==
  ASSUME TypeInv, NEW c \in Cpus, sent[c] >= 1
  PROVE  Mondo(c) \in Mondos
<1>1. sent[c] \in 1 .. MaxMondos[c]
  BY CpuMondoAssumption DEF TypeInv, Types, CallInv
<1>2. <<c, sent[c]>> \in {c} \X (1 .. MaxMondos[c])
  BY <1>1
<1>3. \E S \in {{d} \X (1 .. MaxMondos[d]) : d \in Cpus} : Mondo(c) \in S
  BY <1>2 DEF Mondo
<1> QED BY <1>3 DEF Mondos

LEMMA InitType == Init => TypeInv
<1> SUFFICES ASSUME Init PROVE TypeInv
  OBVIOUS
<1> USE CpuMondoAssumption DEF Init
<1>1. Empty \in [Word -> Mondos \cup {NoMondo}]
  BY DEF Empty
<1>2. 1 \in Word /\ 0 \in Slot
  BY DEF Word, Slot
<1>3. <<>> \in Seq(Cpus \cup {DONE}) /\ <<>> \in Seq(Mondos \cup {NoMondo})
  OBVIOUS
<1>4. Types
  BY <1>1, <1>2, <1>3 DEF Types, Commands, PC, InGuest
<1>5. QueueTypes
  BY <1>1, <1>2, <1>3 DEF QueueTypes
<1>6. CallInv
  BY DEF CallInv, AtTarget, InCall
<1> QED BY <1>4, <1>5, <1>6 DEF TypeInv

(* Every step keeps the variables in their types.                          *)
LEMMA NextType == TypeInv /\ [Next]_vars => TypeInv'
<1> SUFFICES ASSUME TypeInv, [Next]_vars PROVE TypeInv'
  OBVIOUS
<1> USE CpuMondoAssumption DEF TypeInv
<1>u. CASE UNCHANGED vars
  BY <1>u DEF vars, box, cpuq, call, history, Types, QueueTypes, CallInv, Target
<1>n. CASE Next
  <2>c. PICK c \in Cpus :
           \/ \E l \in CpuLists[c] : hcall_cpu_mondo_send(c, l)
           \/ retry(c) \/ cpu_mondo_break(c) \/ entry_done(c) \/ entry_refused(c)
           \/ mailbox_cas(c) \/ mailbox_taken(c) \/ mailbox_poke(c)
           \/ send_copy(c) \/ send_signal(c) \/ send_poke(c)
           \/ cpu_mondo(c) \/ mondo_check(c) \/ mondo_fill(c) \/ mondo_clear(c)
           \/ guest_dequeue(c) \/ \E b \in BOOLEAN : hcall_cpu_qconf(c, b)
           \/ stop_vcpu(c) \/ hvmondo_wait(c) \/ start_vcpu(c) \/ strand_in_error(c)
    BY <1>n, Cases
  <2> USE DEF Goto
  <2>1. ASSUME NEW l \in CpuLists[c], hcall_cpu_mondo_send(c, l) PROVE TypeInv'
    <3>0. l \in Seq(Cpus \cup {DONE})
      OBVIOUS
    <3>1. Types'
      BY <2>1, <3>0 DEF hcall_cpu_mondo_send, box, cpuq, call, history, Types, Commands, PC, InGuest
    <3>2. QueueTypes'
      BY <2>1, <3>0 DEF hcall_cpu_mondo_send, box, cpuq, call, history, QueueTypes
    <3>3. CallInv'
      BY <2>1, <3>0 DEF hcall_cpu_mondo_send, box, cpuq, call, history, Types, CallInv, AtTarget, InCall, Target, InGuest
    <3> QED BY <3>1, <3>2, <3>3
  <2>2. CASE retry(c)
    <3>1. Types'
      BY <2>2 DEF retry, box, cpuq, call, history, Types, Commands, PC, InGuest
    <3>2. QueueTypes'
      BY <2>2 DEF retry, box, cpuq, call, history, QueueTypes
    <3>3. CallInv'
      BY <2>2 DEF retry, box, cpuq, call, history, Types, CallInv, AtTarget, InCall, Target, InGuest
    <3> QED BY <3>1, <3>2, <3>3
  <2>3. CASE cpu_mondo_break(c)
    <3>1. Types'
      BY <2>3 DEF cpu_mondo_break, Return, box, cpuq, call, history, Types, Commands, PC, InGuest
    <3>2. QueueTypes'
      BY <2>3 DEF cpu_mondo_break, Return, box, cpuq, call, history, QueueTypes
    <3>3. CallInv'
      BY <2>3 DEF cpu_mondo_break, Return, box, cpuq, call, history, Types, CallInv, AtTarget, InCall, Target, InGuest
    <3> QED BY <3>1, <3>2, <3>3
  <2>4. CASE entry_done(c)
    <3>1. Types'
      BY <2>4 DEF entry_done, AtEntry, Advance, box, cpuq, call, history, Types, Commands, PC, InGuest
    <3>2. QueueTypes'
      BY <2>4 DEF entry_done, AtEntry, Advance, box, cpuq, call, history, QueueTypes
    <3>3. CallInv'
      BY <2>4 DEF entry_done, AtEntry, Advance, box, cpuq, call, history, Types, CallInv, AtTarget, InCall, Target, InGuest
    <3> QED BY <3>1, <3>2, <3>3
  <2>5. CASE entry_refused(c)
    <3>1. Types'
      BY <2>5 DEF entry_refused, AtEntry, Return, box, cpuq, call, history, Types, Commands, PC, InGuest
    <3>2. QueueTypes'
      BY <2>5 DEF entry_refused, AtEntry, Return, box, cpuq, call, history, QueueTypes
    <3>3. CallInv'
      BY <2>5 DEF entry_refused, AtEntry, Return, box, cpuq, call, history, Types, CallInv, AtTarget, InCall, Target, InGuest
    <3> QED BY <3>1, <3>2, <3>3
  <2>6. CASE mailbox_cas(c)
    <3>1. Types'
      BY <2>6 DEF mailbox_cas, Eligible, AtEntry, CallInv, AtTarget, Target, box, cpuq, call, history, Types, Commands, PC, InGuest
    <3>2. QueueTypes'
      BY <2>6 DEF mailbox_cas, Eligible, AtEntry, box, cpuq, call, history, QueueTypes
    <3>3. CallInv'
      BY <2>6 DEF mailbox_cas, Eligible, AtEntry, box, cpuq, call, history, Types, CallInv, AtTarget, InCall, Target, InGuest
    <3> QED BY <3>1, <3>2, <3>3
  <2>7. CASE mailbox_taken(c)
    <3>1. Types'
      BY <2>7 DEF mailbox_taken, Eligible, AtEntry, Advance, box, cpuq, call, history, Types, Commands, PC, InGuest
    <3>2. QueueTypes'
      BY <2>7 DEF mailbox_taken, Eligible, AtEntry, Advance, box, cpuq, call, history, QueueTypes
    <3>3. CallInv'
      BY <2>7 DEF mailbox_taken, Eligible, AtEntry, Advance, box, cpuq, call, history, Types, CallInv, AtTarget, InCall, Target, InGuest
    <3> QED BY <3>1, <3>2, <3>3
  <2>8. CASE mailbox_poke(c)
    <3>1. Types'
      BY <2>8 DEF mailbox_poke, Eligible, AtEntry, Advance, CallInv, AtTarget, Target, box, cpuq, call, history, Types, Commands, PC, InGuest
    <3>2. QueueTypes'
      BY <2>8 DEF mailbox_poke, Eligible, AtEntry, Advance, box, cpuq, call, history, QueueTypes
    <3>3. CallInv'
      BY <2>8 DEF mailbox_poke, Eligible, AtEntry, Advance, box, cpuq, call, history, Types, CallInv, AtTarget, InCall, Target, InGuest
    <3> QED BY <3>1, <3>2, <3>3
  <2>9. CASE send_copy(c)
    <3>0. Mondo(c) \in Mondos
      BY <2>9, MondoType DEF send_copy, CallInv, InCall
    <3>1. Types'
      <4>1. Target(c) \in Cpus
        BY <2>9 DEF send_copy, CallInv, AtTarget
      <4>2. args' \in [Cpus -> [Word -> Mondos \cup {NoMondo}]]
        BY <2>9, <3>0, <4>1 DEF send_copy, Types
      <4>3. wd' \in [Cpus -> Word]
        BY <2>9 DEF send_copy, Types, Word
      <4>4. pc' \in [Cpus -> PC]
        BY <2>9 DEF send_copy, Types, PC
      <4> QED BY <2>9, <4>2, <4>3, <4>4 DEF send_copy, cpuq, history, Types
    <3>2. QueueTypes'
      BY <2>9, <3>0 DEF send_copy, box, cpuq, call, history, QueueTypes
    <3>3. CallInv'
      BY <2>9, <3>0 DEF send_copy, Mondo, Word, box, cpuq, call, history, Types, CallInv, AtTarget, InCall, Target, InGuest
    <3> QED BY <3>1, <3>2, <3>3
  <2>10. CASE send_signal(c)
    <3>1. Types'
      BY <2>10 DEF send_signal, CallInv, AtTarget, Target, box, cpuq, call, history, Types, Commands, PC, InGuest
    <3>2. QueueTypes'
      BY <2>10 DEF send_signal, box, cpuq, call, history, QueueTypes
    <3>3. CallInv'
      BY <2>10 DEF send_signal, box, cpuq, call, history, Types, CallInv, AtTarget, InCall, Target, InGuest
    <3> QED BY <3>1, <3>2, <3>3
  <2>11. CASE send_poke(c)
    <3>1. Types'
      BY <2>11 DEF send_poke, Advance, CallInv, AtTarget, Target, box, cpuq, call, history, Types, Commands, PC, InGuest
    <3>2. QueueTypes'
      BY <2>11 DEF send_poke, Advance, box, cpuq, call, history, QueueTypes
    <3>3. CallInv'
      BY <2>11 DEF send_poke, Advance, box, cpuq, call, history, Types, CallInv, AtTarget, InCall, Target, InGuest
    <3> QED BY <3>1, <3>2, <3>3
  <2>12. CASE cpu_mondo(c)
    <3>1. Types'
      BY <2>12 DEF cpu_mondo, box, cpuq, call, history, Types, Commands, PC, InGuest
    <3>2. QueueTypes'
      BY <2>12 DEF cpu_mondo, box, cpuq, call, history, QueueTypes
    <3>3. CallInv'
      BY <2>12 DEF cpu_mondo, box, cpuq, call, history, Types, CallInv, AtTarget, InCall, Target, InGuest
    <3> QED BY <3>1, <3>2, <3>3
  <2>13. CASE mondo_check(c)
    <3>1. Types'
      BY <2>13 DEF mondo_check, Resume, box, cpuq, call, history, Types, Commands, PC, InGuest
    <3>2. QueueTypes'
      BY <2>13 DEF mondo_check, Resume, box, cpuq, call, history, QueueTypes
    <3>3. CallInv'
      BY <2>13 DEF mondo_check, Resume, box, cpuq, call, history, Types, CallInv, AtTarget, InCall, Target, InGuest
    <3> QED BY <3>1, <3>2, <3>3
  <2>14. CASE mondo_fill(c)
    <3>1. Types'
      BY <2>14 DEF mondo_fill, box, cpuq, call, history, Types, Commands, PC, InGuest
    <3>2. QueueTypes'
      <4>0. tail[c] + 1 \in Int
        BY DEF QueueTypes, Slot
      <4>1. (tail[c] + 1) % QSIZE \in Slot
        BY <4>0, ModSlot
      <4>2. args[c] \in [Word -> Mondos \cup {NoMondo}] /\ args[c][1] \in Mondos \cup {NoMondo}
        BY DEF Types, Word
      <4>3. queue' \in [Cpus -> [Slot -> [Word -> Mondos \cup {NoMondo}]]]
        BY <2>14, <4>2 DEF mondo_fill, QueueTypes
      <4>4. tail' \in [Cpus -> Slot]
        BY <2>14, <4>1 DEF mondo_fill, QueueTypes
      <4>5. queued' \in [Cpus -> Seq(Mondos \cup {NoMondo})]
        BY <2>14, <4>2 DEF mondo_fill, QueueTypes
      <4> QED BY <2>14, <4>3, <4>4, <4>5 DEF mondo_fill, QueueTypes
    <3>3. CallInv'
      BY <2>14 DEF mondo_fill, box, cpuq, call, history, Types, CallInv, AtTarget, InCall, Target, InGuest
    <3> QED BY <3>1, <3>2, <3>3
  <2>15. CASE mondo_clear(c)
    <3>1. Types'
      BY <2>15 DEF mondo_clear, Resume, box, cpuq, call, history, Types, Commands, PC, InGuest
    <3>2. QueueTypes'
      BY <2>15 DEF mondo_clear, Resume, box, cpuq, call, history, QueueTypes
    <3>3. CallInv'
      BY <2>15 DEF mondo_clear, Resume, box, cpuq, call, history, Types, CallInv, AtTarget, InCall, Target, InGuest
    <3> QED BY <3>1, <3>2, <3>3
  <2>16. CASE guest_dequeue(c)
    <3>1. Types'
      BY <2>16 DEF guest_dequeue, box, cpuq, call, history, Types, Commands, PC, InGuest
    <3>2. QueueTypes'
      <4>0. head[c] + 1 \in Int
        BY DEF QueueTypes, Slot
      <4>1. (head[c] + 1) % QSIZE \in Slot
        BY <4>0, ModSlot
      <4>2. head' \in [Cpus -> Slot]
        BY <2>16, <4>1 DEF guest_dequeue, QueueTypes
      <4> QED BY <2>16, <4>2 DEF guest_dequeue, QueueTypes
    <3>3. CallInv'
      BY <2>16 DEF guest_dequeue, box, cpuq, call, history, Types, CallInv, AtTarget, InCall, Target, InGuest
    <3> QED BY <3>1, <3>2, <3>3
  <2>17. ASSUME NEW b \in BOOLEAN, hcall_cpu_qconf(c, b) PROVE TypeInv'
    <3>1. Types'
      BY <2>17 DEF hcall_cpu_qconf, box, cpuq, call, history, Types, Commands, PC, InGuest
    <3>2. QueueTypes'
      <4>1. 0 \in Slot /\ <<>> \in Seq(Mondos \cup {NoMondo})
        BY DEF Slot
      <4> QED BY <2>17, <4>1 DEF hcall_cpu_qconf, QueueTypes
    <3>3. CallInv'
      BY <2>17 DEF hcall_cpu_qconf, box, cpuq, call, history, Types, CallInv, AtTarget, InCall, Target, InGuest
    <3> QED BY <3>1, <3>2, <3>3
  <2>18. CASE stop_vcpu(c)
    <3>1. Types'
      BY <2>18 DEF stop_vcpu, box, cpuq, call, history, Types, Commands, PC, InGuest
    <3>2. QueueTypes'
      BY <2>18 DEF stop_vcpu, Slot, box, cpuq, call, history, QueueTypes
    <3>3. CallInv'
      BY <2>18 DEF stop_vcpu, box, cpuq, call, history, Types, CallInv, AtTarget, InCall, Target, InGuest
    <3> QED BY <3>1, <3>2, <3>3
  <2>19. CASE hvmondo_wait(c)
    <3>1. Types'
      BY <2>19 DEF hvmondo_wait, box, cpuq, call, history, Types, Commands, PC, InGuest
    <3>2. QueueTypes'
      BY <2>19 DEF hvmondo_wait, box, cpuq, call, history, QueueTypes
    <3>3. CallInv'
      BY <2>19 DEF hvmondo_wait, box, cpuq, call, history, Types, CallInv, AtTarget, InCall, Target, InGuest
    <3> QED BY <3>1, <3>2, <3>3
  <2>20. CASE start_vcpu(c)
    <3>1. Types'
      BY <2>20 DEF start_vcpu, box, cpuq, call, history, Types, Commands, PC, InGuest
    <3>2. QueueTypes'
      <4>1. args[c][1] \in Mondos \cup {NoMondo}
        BY DEF Types, Word
      <4>2. dropped' \in [Cpus -> SUBSET (Mondos \cup {NoMondo})]
        BY <2>20, <4>1 DEF start_vcpu, QueueTypes
      <4> QED BY <2>20, <4>2 DEF start_vcpu, cpuq, QueueTypes
    <3>3. CallInv'
      BY <2>20 DEF start_vcpu, box, cpuq, call, history, Types, CallInv, AtTarget, InCall, Target, InGuest
    <3> QED BY <3>1, <3>2, <3>3
  <2>21. CASE strand_in_error(c)
    <3>1. Types'
      BY <2>21 DEF strand_in_error, box, cpuq, call, history, Types, Commands, PC, InGuest
    <3>2. QueueTypes'
      BY <2>21 DEF strand_in_error, box, cpuq, call, history, QueueTypes
    <3>3. CallInv'
      BY <2>21 DEF strand_in_error, box, cpuq, call, history, Types, CallInv, AtTarget, InCall, Target, InGuest
    <3> QED BY <3>1, <3>2, <3>3
  <2> QED BY <2>c, <2>1, <2>2, <2>3, <2>4, <2>5, <2>6, <2>7, <2>8, <2>9, <2>10, <2>11, <2>12, <2>13, <2>14, <2>15, <2>16, <2>17, <2>18, <2>19, <2>20, <2>21
<1> QED BY <1>u, <1>n

LEMMA TypeInvTypeOK == TypeInv => TypeOK
  BY CpuMondoAssumption DEF TypeInv, Types, QueueTypes, CallInv, TypeOK

(* Every step keeps the variables in their types, however vcpus start,     *)
(* stop and fail while others send to them.                                *)
THEOREM TypeCorrect == Spec => []TypeOK
  BY TypeInvTypeOK, InitType, NextType, PTL DEF Spec

-----------------------------------------------------------------------------
(* What one step does to a mailbox.  Most actions leave all mailboxes and  *)
(* the calls of the other vcpus alone, and at most take entries off the    *)
(* list of their own call.                                                 *)
Elsewhere(c) ==
  \A d \in Cpus \ {c} : /\ pc'[d] = pc[d] /\ list'[d] = list[d] /\ idx'[d] = idx[d]
                        /\ sent'[d] = sent[d] /\ wd'[d] = wd[d]

Shrinks(c) ==
  \A i \in DOMAIN list'[c] :
    /\ i \in DOMAIN list[c]
    /\ \/ list'[c][i] = DONE
       \/ list'[c][i] = list[c][i] /\ ~(pc[c] = "poke" /\ idx[c] = i)

Aside(c) ==
  /\ UNCHANGED <<command, args, sent, queued, dropped>>
  /\ pc[c] # "clear" /\ pc'[c] \notin {"copy", "signal", "poke", "fill", "clear"}
  /\ Shrinks(c)

LEMMA MailboxCases ==
  ASSUME TypeInv, Next
  PROVE  \E c \in Cpus :
           /\ Elsewhere(c)
           /\ \/ Aside(c)
              \/ \E l \in CpuLists[c] : hcall_cpu_mondo_send(c, l)
              \/ mailbox_cas(c) \/ send_copy(c) \/ send_signal(c)
              \/ mondo_check(c) /\ pc'[c] = "fill"
              \/ mondo_fill(c) \/ mondo_clear(c) \/ start_vcpu(c)
<1> USE DEF TypeInv, Types, box, cpuq, call, history, Goto
<1>c. PICK c \in Cpus :
           \/ \E l \in CpuLists[c] : hcall_cpu_mondo_send(c, l)
           \/ retry(c) \/ cpu_mondo_break(c) \/ entry_done(c) \/ entry_refused(c)
           \/ mailbox_cas(c) \/ mailbox_taken(c) \/ mailbox_poke(c)
           \/ send_copy(c) \/ send_signal(c) \/ send_poke(c)
           \/ cpu_mondo(c) \/ mondo_check(c) \/ mondo_fill(c) \/ mondo_clear(c)
           \/ guest_dequeue(c) \/ \E b \in BOOLEAN : hcall_cpu_qconf(c, b)
           \/ stop_vcpu(c) \/ hvmondo_wait(c) \/ start_vcpu(c) \/ strand_in_error(c)
  BY Cases
<1> USE DEF Elsewhere, Aside, Shrinks
<1>1. ASSUME NEW l \in CpuLists[c], hcall_cpu_mondo_send(c, l) PROVE Elsewhere(c)
  BY <1>1 DEF hcall_cpu_mondo_send
<1>2. CASE retry(c)            BY <1>2 DEF retry
<1>3. ASSUME cpu_mondo_break(c) PROVE Elsewhere(c) /\ Aside(c)
  <2>1. Elsewhere(c)
    BY <1>3 DEF cpu_mondo_break, Return
  <2>2. list'[c] = list[c] \/ list'[c] = <<>>
    BY <1>3 DEF cpu_mondo_break, Return
  <2> QED BY <1>3, <2>1, <2>2 DEF cpu_mondo_break, Return
<1>4. CASE entry_done(c)       BY <1>4 DEF entry_done, AtEntry, Advance
<1>5. CASE entry_refused(c)    BY <1>5 DEF entry_refused, AtEntry, Return
<1>6. ASSUME mailbox_cas(c) PROVE Elsewhere(c)
  BY <1>6 DEF mailbox_cas
<1>7. CASE mailbox_taken(c)    BY <1>7 DEF mailbox_taken, Eligible, AtEntry, Advance
<1>8. CASE mailbox_poke(c)     BY <1>8 DEF mailbox_poke, Eligible, AtEntry, Advance
<1>9. ASSUME send_copy(c) PROVE Elsewhere(c)
  BY <1>9 DEF send_copy
<1>10. ASSUME send_signal(c) PROVE Elsewhere(c)
  BY <1>10 DEF send_signal
<1>11. CASE send_poke(c)       BY <1>11 DEF send_poke, Advance
<1>12. CASE cpu_mondo(c)       BY <1>12 DEF cpu_mondo, InGuest
<1>13. CASE mondo_check(c)     BY <1>13 DEF mondo_check, Resume
<1>14. ASSUME mondo_fill(c) PROVE Elsewhere(c)
  BY <1>14 DEF mondo_fill
<1>15. ASSUME mondo_clear(c) PROVE Elsewhere(c)
  BY <1>15 DEF mondo_clear, Resume
<1>16. CASE guest_dequeue(c)   BY <1>16 DEF guest_dequeue, InGuest
<1>17. ASSUME NEW b \in BOOLEAN, hcall_cpu_qconf(c, b) PROVE Elsewhere(c) /\ Aside(c)
  BY <1>17 DEF hcall_cpu_qconf, InGuest
<1>18. CASE stop_vcpu(c)       BY <1>18 DEF stop_vcpu, InGuest
<1>19. CASE hvmondo_wait(c)    BY <1>19 DEF hvmondo_wait
<1>20. ASSUME start_vcpu(c) PROVE Elsewhere(c)
  BY <1>20 DEF start_vcpu
<1>21. CASE strand_in_error(c) BY <1>21 DEF strand_in_error, InGuest
<1> QED BY <1>c, <1>1, <1>2, <1>3, <1>4, <1>5, <1>6, <1>7, <1>8, <1>9, <1>10, <1>11, <1>12,
           <1>13, <1>14, <1>15, <1>16, <1>17, <1>18, <1>19, <1>20, <1>21

(* A mailbox has one writer at a time.                                     *)
LEMMA OwnerStep ==
  ASSUME QuietStart, TypeInv, OwnerInv, [Next]_vars
  PROVE  OwnerInv'
<1> USE DEF TypeInv, Types, OwnerInv, Target, CallInv, AtTarget
<1>u. CASE UNCHANGED vars
  BY <1>u DEF vars, box, call
<1>n. CASE Next
  <2>c. PICK c \in Cpus :
           /\ Elsewhere(c)
           /\ \/ Aside(c)
              \/ \E l \in CpuLists[c] : hcall_cpu_mondo_send(c, l)
              \/ mailbox_cas(c) \/ send_copy(c) \/ send_signal(c)
              \/ mondo_check(c) /\ pc'[c] = "fill"
              \/ mondo_fill(c) \/ mondo_clear(c) \/ start_vcpu(c)
    BY <1>n, MailboxCases
  <2> USE DEF Elsewhere, Goto, box, call
  <2>1. CASE Aside(c)
    <3>1. UNCHANGED command /\ pc'[c] \notin {"copy", "signal", "fill", "clear"}
      BY <2>1 DEF Aside
    <3>2. ASSUME NEW d \in Cpus, pc'[d] \in {"copy", "signal", "fill", "clear"}
          PROVE  d # c /\ pc'[d] = pc[d] /\ list'[d] = list[d] /\ idx'[d] = idx[d]
      BY <2>c, <3>1, <3>2
    <3>3. \A d \in Cpus : pc'[d] \in {"copy", "signal"} => command'[Target(d)'] = "BUSY"
      BY <3>1, <3>2
    <3>4. \A d \in Cpus : pc'[d] \in {"fill", "clear"} => command'[d] = "GUESTMONDO_READY"
      BY <3>1, <3>2
    <3>5. ASSUME NEW d \in Cpus, NEW e \in Cpus, d # e,
                 pc'[d] \in {"copy", "signal"}, pc'[e] \in {"copy", "signal"}
          PROVE  Target(d)' # Target(e)'
      <4>1. pc[d] \in {"copy", "signal"} /\ Target(d)' = Target(d)
        BY <3>2, <3>5
      <4>2. pc[e] \in {"copy", "signal"} /\ Target(e)' = Target(e)
        BY <3>2, <3>5
      <4>3. Target(d) # Target(e)
        BY <4>1, <4>2, <3>5
      <4> QED BY <4>1, <4>2, <4>3
    <3> QED BY <3>3, <3>4, <3>5
  <2>2. ASSUME NEW l \in CpuLists[c], hcall_cpu_mondo_send(c, l) PROVE OwnerInv'
    BY <2>c, <2>2 DEF hcall_cpu_mondo_send
  <2>3. CASE mailbox_cas(c)
    BY <2>c, <2>3 DEF mailbox_cas, Eligible, AtEntry
  <2>4. CASE send_copy(c)
    BY <2>c, <2>4 DEF send_copy
  <2>5. CASE send_signal(c)
    BY <2>c, <2>5 DEF send_signal
  <2>6. CASE mondo_check(c) /\ pc'[c] = "fill"
    BY <2>c, <2>6 DEF mondo_check, Resume
  <2>7. CASE mondo_fill(c)
    BY <2>c, <2>7 DEF mondo_fill
  <2>8. CASE mondo_clear(c)
    BY <2>c, <2>8 DEF mondo_clear, Resume
  <2>9. CASE start_vcpu(c)
    BY <2>c, <2>9 DEF start_vcpu, WritesTo
  <2> QED BY <2>c, <2>1, <2>2, <2>3, <2>4, <2>5, <2>6, <2>7, <2>8, <2>9
<1> QED BY <1>u, <1>n

(* Nobody else writes a mailbox that is being filled or waits to be read.  *)
LEMMA CopiedFrame ==
  ASSUME NEW d \in Cpus, CopiedIn(d),
         pc'[d] = pc[d], list'[d] = list[d], idx'[d] = idx[d], sent'[d] = sent[d], wd'[d] = wd[d],
         pc[d] \in {"copy", "signal"} => args'[Target(d)] = args[Target(d)]
  PROVE  CopiedIn(d)'
  BY DEF CopiedIn, Target, Mondo

LEMMA ContentStep ==
  ASSUME TypeInv, OwnerInv, ContentInv, [Next]_vars
  PROVE  ContentInv'
<1>u. CASE UNCHANGED vars
  BY <1>u DEF vars, box, call, ContentInv, CopiedIn, Whole, Target, Mondo
<1>n. CASE Next
  <2>c. PICK c \in Cpus :
           /\ Elsewhere(c)
           /\ \/ Aside(c)
              \/ \E l \in CpuLists[c] : hcall_cpu_mondo_send(c, l)
              \/ mailbox_cas(c) \/ send_copy(c) \/ send_signal(c)
              \/ mondo_check(c) /\ pc'[c] = "fill"
              \/ mondo_fill(c) \/ mondo_clear(c) \/ start_vcpu(c)
    BY <1>n, MailboxCases
  <2>p. pc \in [Cpus -> PC]
    BY DEF TypeInv, Types
  <2>f. ASSUME UNCHANGED args, CopiedIn(c)' PROVE \A d \in Cpus : CopiedIn(d)'
    BY <2>c, <2>f, CopiedFrame DEF Elsewhere, ContentInv
  <2>g. ASSUME UNCHANGED args, NEW t \in Cpus,
               command'[t] = command[t] \/ command'[t] # "GUESTMONDO_READY" PROVE Whole(t)'
    BY <2>g DEF Whole, ContentInv
  <2>1. CASE Aside(c)
    <3>1. UNCHANGED <<command, args>> /\ pc'[c] \notin {"copy", "signal"}
      BY <2>1 DEF Aside
    <3>2. CopiedIn(c)'
      BY <3>1 DEF CopiedIn
    <3> QED BY <3>1, <3>2, <2>f, <2>g DEF ContentInv
  <2>2. ASSUME NEW l \in CpuLists[c], hcall_cpu_mondo_send(c, l) PROVE ContentInv'
    <3>1. UNCHANGED <<command, args>> /\ pc'[c] = "next"
      BY <2>2, <2>p DEF hcall_cpu_mondo_send, Goto, box
    <3>2. CopiedIn(c)'
      BY <3>1 DEF CopiedIn
    <3> QED BY <3>1, <3>2, <2>f, <2>g DEF ContentInv
  <2>3. CASE mailbox_cas(c)
    <3>1. UNCHANGED args /\ pc'[c] = "copy" /\ wd'[c] = 1
      BY <2>3, <2>p DEF mailbox_cas, Eligible, AtEntry, Goto, call, TypeInv, CallInv
    <3>2. CopiedIn(c)'
      BY <3>1, CpuMondoAssumption DEF CopiedIn, Word
    <3>3. \A t \in Cpus : command'[t] = command[t] \/ command'[t] # "GUESTMONDO_READY"
      BY <2>3 DEF mailbox_cas, TypeInv, Types
    <3> QED BY <3>1, <3>2, <3>3, <2>f, <2>g DEF ContentInv
  <2>4. CASE send_copy(c)
    <3>1. Target(c) \in Cpus /\ command[Target(c)] = "BUSY" /\ UNCHANGED command
      BY <2>4 DEF send_copy, TypeInv, CallInv, AtTarget, OwnerInv
    <3>2. \A d \in Cpus : Target(d)' = Target(d) /\ Mondo(d)' = Mondo(d)
      BY <2>4 DEF send_copy, Target, Mondo
    <3>3. \A t \in Cpus \ {Target(c)} : args'[t] = args[t]
      BY <2>4, <3>1 DEF send_copy, TypeInv, Types
    <3>4. /\ wd[c] \in Word
          /\ args'[Target(c)][wd[c]] = Mondo(c)
          /\ \A w \in Word \ {wd[c]} : args'[Target(c)][w] = args[Target(c)][w]
      BY <2>4, <3>1 DEF send_copy, TypeInv, Types
    <3>5. \A w \in Word : w < wd[c] \/ w = wd[c] => args'[Target(c)][w] = Mondo(c)
      BY <2>4, <3>4 DEF send_copy, ContentInv, CopiedIn, Word
    <3>6. CopiedIn(c)'
      <4>1. CASE wd[c] = NWORDS
        <5>1. pc'[c] = "signal" /\ \A w \in Word : w < wd[c] \/ w = wd[c]
          BY <2>4, <2>p, <4>1, CpuMondoAssumption DEF send_copy, Goto, Word
        <5> QED BY <5>1, <3>5, <3>2 DEF CopiedIn
      <4>2. CASE wd[c] # NWORDS
        <5>1. pc'[c] = "copy" /\ wd'[c] = wd[c] + 1
          BY <2>4, <2>p, <4>2 DEF send_copy, Goto, TypeInv, Types
        <5>2. \A w \in Word : w < wd[c] + 1 => w < wd[c] \/ w = wd[c]
          BY <3>4 DEF Word
        <5> QED BY <5>1, <5>2, <3>5, <3>2 DEF CopiedIn
      <4> QED BY <4>1, <4>2
    <3>7. ASSUME NEW d \in Cpus \ {c} PROVE CopiedIn(d)'
      <4>1. pc[d] \in {"copy", "signal"} => Target(d) \in Cpus \ {Target(c)}
        BY <2>4, <3>7 DEF send_copy, OwnerInv, TypeInv, CallInv, AtTarget
      <4> QED BY <2>c, <4>1, <3>3, CopiedFrame DEF Elsewhere, ContentInv
    <3>8. ASSUME NEW t \in Cpus PROVE Whole(t)'
      BY <3>1, <3>3 DEF Whole, ContentInv
    <3> QED BY <3>6, <3>7, <3>8 DEF ContentInv
  <2>5. CASE send_signal(c)
    <3>1. UNCHANGED args /\ pc'[c] = "poke" /\ Target(c) \in Cpus /\ 1 \in Word
      BY <2>5, <2>p, CpuMondoAssumption DEF send_signal, Goto, TypeInv, CallInv, AtTarget, Word
    <3>2. CopiedIn(c)'
      BY <3>1 DEF CopiedIn
    <3>3. ASSUME NEW t \in Cpus, t = Target(c) PROVE Whole(t)'
      BY <2>5, <3>1, <3>3 DEF send_signal, ContentInv, CopiedIn, Whole
    <3>4. \A t \in Cpus \ {Target(c)} : command'[t] = command[t]
      BY <2>5, <3>1 DEF send_signal, TypeInv, Types
    <3>5. \A t \in Cpus : Whole(t)'
      BY <3>1, <3>3, <3>4, <2>g
    <3> QED BY <3>1, <3>2, <3>5, <2>f DEF ContentInv
  <2>6. CASE mondo_check(c) /\ pc'[c] = "fill"
    <3>1. UNCHANGED <<command, args>>
      BY <2>6 DEF mondo_check, box
    <3>2. CopiedIn(c)'
      BY <2>6 DEF CopiedIn
    <3> QED BY <3>1, <3>2, <2>f, <2>g DEF ContentInv
  <2>7. CASE mondo_fill(c)
    <3>1. UNCHANGED <<command, args>> /\ pc'[c] = "clear"
      BY <2>7, <2>p DEF mondo_fill, box, Goto
    <3>2. CopiedIn(c)'
      BY <3>1 DEF CopiedIn
    <3> QED BY <3>1, <3>2, <2>f, <2>g DEF ContentInv
  <2>8. CASE mondo_clear(c)
    <3>1. UNCHANGED args /\ pc'[c] \in {"guest", "retry"}
      BY <2>8, <2>p DEF mondo_clear, Goto, Resume
    <3>2. CopiedIn(c)'
      BY <3>1 DEF CopiedIn
    <3>3. \A t \in Cpus : command'[t] = command[t] \/ command'[t] # "GUESTMONDO_READY"
      BY <2>8 DEF mondo_clear, TypeInv, Types
    <3> QED BY <3>1, <3>2, <3>3, <2>f, <2>g DEF ContentInv
  <2>9. CASE start_vcpu(c)
    <3>1. UNCHANGED args /\ pc'[c] = "guest"
      BY <2>9, <2>p DEF start_vcpu, Goto
    <3>2. CopiedIn(c)'
      BY <3>1 DEF CopiedIn
    <3>3. \A t \in Cpus : command'[t] = command[t] \/ command'[t] # "GUESTMONDO_READY"
      BY <2>9 DEF start_vcpu, TypeInv, Types
    <3> QED BY <3>1, <3>2, <3>3, <2>f, <2>g DEF ContentInv
  <2> QED BY <2>c, <2>1, <2>2, <2>3, <2>4, <2>5, <2>6, <2>7, <2>8, <2>9
<1> QED BY <1>u, <1>n

(* A target that fills has room: nobody else moves its registers.          *)
LEMMA RoomStep ==
  ASSUME TypeInv, RoomInv, [Next]_vars
  PROVE  RoomInv'
<1> USE DEF TypeInv, Types, QueueTypes, RoomInv, Full
<1>u. CASE UNCHANGED vars
  BY <1>u DEF vars, cpuq
<1>n. CASE Next
  <2>c. PICK c \in Cpus :
           \/ \E l \in CpuLists[c] : hcall_cpu_mondo_send(c, l)
           \/ retry(c) \/ cpu_mondo_break(c) \/ entry_done(c) \/ entry_refused(c)
           \/ mailbox_cas(c) \/ mailbox_taken(c) \/ mailbox_poke(c)
           \/ send_copy(c) \/ send_signal(c) \/ send_poke(c)
           \/ cpu_mondo(c) \/ mondo_check(c) \/ mondo_fill(c) \/ mondo_clear(c)
           \/ guest_dequeue(c) \/ \E b \in BOOLEAN : hcall_cpu_qconf(c, b)
           \/ stop_vcpu(c) \/ hvmondo_wait(c) \/ start_vcpu(c) \/ strand_in_error(c)
    BY <1>n, Cases
  <2>1. CASE mondo_check(c)
    BY <2>1 DEF mondo_check, Resume, Goto, cpuq
  <2>2. ASSUME NEW l \in CpuLists[c], hcall_cpu_mondo_send(c, l) PROVE RoomInv'
    BY <2>2 DEF hcall_cpu_mondo_send, Goto, cpuq
  <2>3. CASE \/ retry(c) \/ cpu_mondo_break(c) \/ entry_done(c) \/ entry_refused(c)
             \/ mailbox_cas(c) \/ mailbox_taken(c) \/ mailbox_poke(c)
             \/ send_copy(c) \/ send_signal(c) \/ send_poke(c)
    BY <2>3 DEF retry, cpu_mondo_break, entry_done, entry_refused, mailbox_cas, mailbox_taken,
                mailbox_poke, send_copy, send_signal, send_poke, Return, Goto, cpuq
  <2>4. CASE cpu_mondo(c) \/ mondo_clear(c) \/ hvmondo_wait(c) \/ start_vcpu(c) \/ strand_in_error(c)
    BY <2>4 DEF cpu_mondo, mondo_clear, hvmondo_wait, start_vcpu, strand_in_error, Resume, Goto, cpuq
  <2>5. CASE mondo_fill(c)    BY <2>5 DEF mondo_fill, Goto
  <2>6. CASE guest_dequeue(c) BY <2>6 DEF guest_dequeue, InGuest
  <2>7. ASSUME NEW b \in BOOLEAN, hcall_cpu_qconf(c, b) PROVE RoomInv'
    BY <2>7 DEF hcall_cpu_qconf, InGuest
  <2>8. CASE stop_vcpu(c)     BY <2>8 DEF stop_vcpu, Goto
  <2> QED BY <2>c, <2>1, <2>2, <2>3, <2>4, <2>5, <2>6, <2>7, <2>8
<1> QED BY <1>u, <1>n

(* Registers of a queue that moves: what it holds grows or shrinks by one, *)
(* and its positions count from the new head.                              *)
LEMMA TailMoves ==
  ASSUME NEW h \in Slot, NEW t \in Slot, (t + 1) % QSIZE # h
  PROVE  /\ (((t + 1) % QSIZE) - h) % QSIZE = ((t - h) % QSIZE) + 1
         /\ (h + ((t - h) % QSIZE)) % QSIZE = t
         /\ \A k \in 1 .. (t - h) % QSIZE : (h + k - 1) % QSIZE # t
<1>q. QSIZE \in Nat /\ QSIZE > 1 /\ h \in 0 .. QSIZE - 1 /\ t \in 0 .. QSIZE - 1
  BY CpuMondoAssumption DEF Slot
<1>m. /\ \A a \in 0 .. QSIZE - 1 : a % QSIZE = a
      /\ \A a \in QSIZE .. 2 * QSIZE - 1 : a % QSIZE = a - QSIZE
      /\ \A a \in -QSIZE .. -1 : a % QSIZE = a + QSIZE
  BY ModLow, ModHigh, ModNeg DEF Slot
<1>1. (t + 1) % QSIZE = IF t = QSIZE - 1 THEN 0 ELSE t + 1
  BY <1>q, <1>m
<1>2. ((t - h) % QSIZE) = IF t >= h THEN t - h ELSE t - h + QSIZE
  BY <1>q, <1>m
<1>3. (((t + 1) % QSIZE) - h) % QSIZE = ((t - h) % QSIZE) + 1
  BY <1>q, <1>m, <1>1, <1>2
<1>4. (h + ((t - h) % QSIZE)) % QSIZE = t
  BY <1>q, <1>m, <1>2
<1>5. ASSUME NEW k \in 1 .. ((t - h) % QSIZE) PROVE (h + k - 1) % QSIZE # t
  <2>1. (h + k - 1) % QSIZE = IF h + k - 1 < QSIZE THEN h + k - 1 ELSE h + k - 1 - QSIZE
    BY <1>q, <1>m, <1>2, <1>5
  <2> QED BY <1>q, <1>2, <2>1
<1> QED BY <1>3, <1>4, <1>5

LEMMA HeadMoves ==
  ASSUME NEW h \in Slot, NEW t \in Slot, h # t
  PROVE  /\ (t - ((h + 1) % QSIZE)) % QSIZE = ((t - h) % QSIZE) - 1
         /\ ((t - h) % QSIZE) >= 1
         /\ \A k \in 1 .. ((t - h) % QSIZE) - 1 :
              (((h + 1) % QSIZE) + k - 1) % QSIZE = (h + (k + 1) - 1) % QSIZE
<1>q. QSIZE \in Nat /\ QSIZE > 1 /\ h \in 0 .. QSIZE - 1 /\ t \in 0 .. QSIZE - 1
  BY CpuMondoAssumption DEF Slot
<1>m. /\ \A a \in 0 .. QSIZE - 1 : a % QSIZE = a
      /\ \A a \in QSIZE .. 2 * QSIZE - 1 : a % QSIZE = a - QSIZE
      /\ \A a \in -QSIZE .. -1 : a % QSIZE = a + QSIZE
  BY ModLow, ModHigh, ModNeg DEF Slot
<1>1. (h + 1) % QSIZE = IF h = QSIZE - 1 THEN 0 ELSE h + 1
  BY <1>q, <1>m
<1>2. ((t - h) % QSIZE) = IF t >= h THEN t - h ELSE t - h + QSIZE
  BY <1>q, <1>m
<1>3. (t - ((h + 1) % QSIZE)) % QSIZE = ((t - h) % QSIZE) - 1
  BY <1>q, <1>m, <1>1, <1>2
<1>4. ((t - h) % QSIZE) >= 1
  BY <1>q, <1>2
<1>5. ASSUME NEW k \in 1 .. ((t - h) % QSIZE) - 1
      PROVE  (((h + 1) % QSIZE) + k - 1) % QSIZE = (h + (k + 1) - 1) % QSIZE
  BY <1>q, <1>m, <1>1, <1>2, <1>5
<1> QED BY <1>3, <1>4, <1>5

(* Only the target moves the registers of a queue, and it writes the entry *)
(* after the last one; the mondo it copies there is whole.                 *)
LEMMA QueueStep ==
  ASSUME TypeInv, OwnerInv, ContentInv, RoomInv, UnreadInv, [Next]_vars
  PROVE  UnreadInv'
<1>f. ASSUME NEW t \in Cpus, unread'[t] = unread[t], head'[t] = head[t], tail'[t] = tail[t],
             queue'[t] = queue[t]
      PROVE  IntactQueueOf(t)'
  BY <1>f DEF UnreadInv, IntactQueueOf
<1>g. ASSUME NEW t \in Cpus, unread'[t] = <<>>, head'[t] = 0, tail'[t] = 0
      PROVE  IntactQueueOf(t)'
  <2>1. (0 - 0) % QSIZE = 0
    BY ModLow, CpuMondoAssumption DEF Slot
  <2> QED BY <1>g, <2>1 DEF IntactQueueOf
<1>h. ASSUME UNCHANGED <<unread, head, tail, queue>> PROVE UnreadInv'
  BY <1>h DEF UnreadInv, IntactQueueOf
<1>i. QSIZE \in Nat \ {0} /\ Slot \subseteq Int /\ \A t \in Cpus : head[t] \in Slot /\ tail[t] \in Slot
  BY CpuMondoAssumption DEF TypeInv, QueueTypes, Slot
<1>t. unread \in [Cpus -> Seq(Mondos \cup {NoMondo})]
  BY DEF UnreadInv
<1>d. \A t \in Cpus : Len(unread[t]) \in Nat /\ DOMAIN unread[t] = 1 .. Len(unread[t])
  BY <1>t, LenProperties
<1>u. CASE UNCHANGED vars
  BY <1>u, <1>h DEF vars, cpuq, history
<1>n. CASE Next
  <2>c. PICK c \in Cpus :
           \/ \E l \in CpuLists[c] : hcall_cpu_mondo_send(c, l)
           \/ retry(c) \/ cpu_mondo_break(c) \/ entry_done(c) \/ entry_refused(c)
           \/ mailbox_cas(c) \/ mailbox_taken(c) \/ mailbox_poke(c)
           \/ send_copy(c) \/ send_signal(c) \/ send_poke(c)
           \/ cpu_mondo(c) \/ mondo_check(c) \/ mondo_fill(c) \/ mondo_clear(c)
           \/ guest_dequeue(c) \/ \E b \in BOOLEAN : hcall_cpu_qconf(c, b)
           \/ stop_vcpu(c) \/ hvmondo_wait(c) \/ start_vcpu(c) \/ strand_in_error(c)
    BY <1>n, Cases
  <2>1. CASE \/ \E l \in CpuLists[c] : hcall_cpu_mondo_send(c, l)
             \/ retry(c) \/ cpu_mondo_break(c) \/ entry_done(c) \/ entry_refused(c)
             \/ mailbox_cas(c) \/ mailbox_taken(c) \/ mailbox_poke(c)
             \/ send_copy(c) \/ send_signal(c) \/ send_poke(c)
    BY <2>1, <1>h DEF hcall_cpu_mondo_send, retry, cpu_mondo_break, entry_done, entry_refused,
         mailbox_cas, mailbox_taken, mailbox_poke, send_copy, send_signal, send_poke, cpuq, history
  <2>2. CASE cpu_mondo(c) \/ mondo_check(c) \/ mondo_clear(c) \/ hvmondo_wait(c)
               \/ start_vcpu(c) \/ strand_in_error(c)
    BY <2>2, <1>h DEF cpu_mondo, mondo_check, mondo_clear, hvmondo_wait, start_vcpu,
         strand_in_error, cpuq, history
  <2>3. CASE mondo_fill(c)
    <3> DEFINE m == args[c][1]
               h == head[c]
               t == tail[c]
               u == unread[c]
    <3>1. m \in Mondos \cup {NoMondo} /\ args[c] = [w \in Word |-> m]
      <4>1. args[c] \in [Word -> Mondos \cup {NoMondo}] /\ 1 \in Word
        BY CpuMondoAssumption DEF TypeInv, Types, Word
      <4>2. \A w \in Word : args[c][w] = m
        BY <2>3 DEF mondo_fill, OwnerInv, ContentInv, Whole
      <4> QED BY <4>1, <4>2
    <3>2. /\ unread' = [unread EXCEPT ![c] = Append(u, m)]
          /\ queue' = [queue EXCEPT ![c] = [@ EXCEPT ![t] = args[c]]]
          /\ tail' = [tail EXCEPT ![c] = (t + 1) % QSIZE]
          /\ head' = head
      BY <2>3 DEF mondo_fill
    <3>0. h \in Int /\ t \in Int
      BY <1>i
    <3>3. (t + 1) % QSIZE # h
      BY <2>3 DEF mondo_fill, RoomInv, Full
    <3>4. /\ (((t + 1) % QSIZE) - h) % QSIZE = ((t - h) % QSIZE) + 1
          /\ (h + ((t - h) % QSIZE)) % QSIZE = t
          /\ \A k \in 1 .. (t - h) % QSIZE : (h + k - 1) % QSIZE # t
      BY <1>i, <3>3, TailMoves
    <3>5. /\ u \in Seq(Mondos \cup {NoMondo}) /\ Len(u) = ((t - h) % QSIZE) /\ Len(u) \in Nat
          /\ \A k \in 1 .. Len(u) : queue[c][(h + k - 1) % QSIZE] = [w \in Word |-> u[k]]
      BY <1>d DEF UnreadInv, IntactQueueOf
    <3>6. /\ unread'[c] \in Seq(Mondos \cup {NoMondo}) /\ Len(unread'[c]) = Len(u) + 1
          /\ \A k \in 1 .. Len(u) : unread'[c][k] = u[k]
          /\ unread'[c][Len(u) + 1] = m
      BY <1>t, <3>1, <3>2, <3>5, AppendProperties
    <3>7. /\ queue'[c][t] = args[c]
          /\ \A i \in Slot : i # t => queue'[c][i] = queue[c][i]
      BY <1>i, <3>2 DEF TypeInv, QueueTypes
    <3>8. \A k \in 1 .. Len(u) : (h + k - 1) % QSIZE \in Slot
      <4>1. \A k \in 1 .. Len(u) : h + k - 1 \in Int
        BY <3>0
      <4> QED BY <4>1, ModSlot
    <3>9. \A k \in 1 .. Len(u) : queue'[c][(h + k - 1) % QSIZE] = [w \in Word |-> unread'[c][k]]
      BY <3>4, <3>5, <3>6, <3>7, <3>8
    <3>10. (h + (Len(u) + 1) - 1) % QSIZE = t
      <4>1. h + (Len(u) + 1) - 1 = h + ((t - h) % QSIZE)
        BY <3>0, <3>5
      <4> QED BY <4>1, <3>4
    <3>11. queue'[c][(h + (Len(u) + 1) - 1) % QSIZE] = [w \in Word |-> unread'[c][Len(u) + 1]]
      BY <3>1, <3>6, <3>7, <3>10
    <3>12. DOMAIN unread'[c] = 1 .. Len(u) + 1
      BY <3>6
    <3>13. \A k \in DOMAIN unread'[c] :
             queue'[c][(h + k - 1) % QSIZE] = [w \in Word |-> unread'[c][k]]
      <4>1. \A k \in DOMAIN unread'[c] : k \in 1 .. Len(u) \/ k = Len(u) + 1
        BY <3>5, <3>12
      <4> QED BY <4>1, <3>9, <3>11
    <3>14. tail'[c] = (t + 1) % QSIZE /\ head'[c] = h
      BY <3>2 DEF TypeInv, QueueTypes
    <3>15. IntactQueueOf(c)'
      BY <3>4, <3>5, <3>6, <3>13, <3>14 DEF IntactQueueOf
    <3>16. \A d \in Cpus \ {c} : IntactQueueOf(d)'
      BY <1>f, <1>t, <3>2 DEF TypeInv, QueueTypes
    <3>17. unread' \in [Cpus -> Seq(Mondos \cup {NoMondo})]
      BY <1>t, <3>1, <3>2, <3>5, AppendProperties
    <3> QED BY <3>15, <3>16, <3>17 DEF UnreadInv
  <2>4. CASE guest_dequeue(c)
    <3> DEFINE h == head[c]
               t == tail[c]
               u == unread[c]
    <3>1. /\ h # t
          /\ unread' = [unread EXCEPT ![c] = Tail(u)]
          /\ head' = [head EXCEPT ![c] = (h + 1) % QSIZE]
          /\ tail' = tail /\ queue' = queue
      BY <2>4 DEF guest_dequeue
    <3>2. /\ (t - ((h + 1) % QSIZE)) % QSIZE = ((t - h) % QSIZE) - 1
          /\ ((t - h) % QSIZE) >= 1
          /\ \A k \in 1 .. ((t - h) % QSIZE) - 1 :
               (((h + 1) % QSIZE) + k - 1) % QSIZE = (h + (k + 1) - 1) % QSIZE
      BY <1>i, <3>1, HeadMoves
    <3>3. /\ u \in Seq(Mondos \cup {NoMondo}) /\ Len(u) = ((t - h) % QSIZE) /\ Len(u) \in Nat
          /\ \A k \in 1 .. Len(u) : queue[c][(h + k - 1) % QSIZE] = [w \in Word |-> u[k]]
      BY <1>d DEF UnreadInv, IntactQueueOf
    <3>4. u # <<>>
      BY <3>2, <3>3
    <3>5. /\ Tail(u) \in Seq(Mondos \cup {NoMondo}) /\ Len(Tail(u)) = Len(u) - 1
          /\ \A k \in 1 .. Len(u) - 1 : Tail(u)[k] = u[k + 1]
      BY <3>3, <3>4, HeadTailProperties
    <3>6. unread'[c] = Tail(u) /\ head'[c] = (h + 1) % QSIZE /\ tail'[c] = t /\ queue'[c] = queue[c]
      BY <1>t, <3>1 DEF TypeInv, QueueTypes
    <3>7. \A k \in 1 .. Len(u) - 1 : k + 1 \in 1 .. Len(u)
      BY <3>3
    <3>8. \A k \in 1 .. Len(u) - 1 :
            queue[c][(((h + 1) % QSIZE) + k - 1) % QSIZE] = [w \in Word |-> Tail(u)[k]]
      <4> SUFFICES ASSUME NEW k \in 1 .. Len(u) - 1
                   PROVE queue[c][(((h + 1) % QSIZE) + k - 1) % QSIZE] = [w \in Word |-> Tail(u)[k]]
        OBVIOUS
      <4>1. (((h + 1) % QSIZE) + k - 1) % QSIZE = (h + (k + 1) - 1) % QSIZE
        BY <3>2, <3>3
      <4>2. queue[c][(h + (k + 1) - 1) % QSIZE] = [w \in Word |-> u[k + 1]]
        BY <3>3, <3>7
      <4> QED BY <4>1, <4>2, <3>5
    <3>9. DOMAIN Tail(u) = 1 .. Len(u) - 1
      BY <3>5
    <3>10. IntactQueueOf(c)'
      <4>1. Len(Tail(u)) = (t - ((h + 1) % QSIZE)) % QSIZE
        BY <3>2, <3>3, <3>5
      <4>2. unread'[c] \in Seq(Mondos \cup {NoMondo})
        BY <3>5, <3>6
      <4>3. Len(unread'[c]) = (tail'[c] - head'[c]) % QSIZE
        BY <4>1, <3>6
      <4>4. \A k \in DOMAIN unread'[c] :
              queue'[c][(head'[c] + k - 1) % QSIZE] = [w \in Word |-> unread'[c][k]]
        BY <3>6, <3>8, <3>9
      <4> QED BY <4>2, <4>3, <4>4 DEF IntactQueueOf
    <3>11. \A d \in Cpus \ {c} : IntactQueueOf(d)'
      BY <1>f, <1>t, <3>1 DEF TypeInv, QueueTypes
    <3>12. unread' \in [Cpus -> Seq(Mondos \cup {NoMondo})]
      BY <1>t, <3>1, <3>5
    <3> QED BY <3>10, <3>11, <3>12 DEF UnreadInv
  <2>5. ASSUME \/ \E b \in BOOLEAN : hcall_cpu_qconf(c, b)
               \/ stop_vcpu(c)
        PROVE  UnreadInv'
    <3>1. /\ unread' = [unread EXCEPT ![c] = <<>>] /\ queue' = queue
          /\ head' = [head EXCEPT ![c] = 0] /\ tail' = [tail EXCEPT ![c] = 0]
      BY <2>5 DEF hcall_cpu_qconf, stop_vcpu
    <3>2. IntactQueueOf(c)'
      BY <1>g, <1>t, <3>1 DEF TypeInv, QueueTypes
    <3>3. \A d \in Cpus \ {c} : IntactQueueOf(d)'
      BY <1>f, <1>t, <3>1 DEF TypeInv, QueueTypes
    <3>4. unread' \in [Cpus -> Seq(Mondos \cup {NoMondo})]
      BY <1>t, <3>1
    <3> QED BY <3>2, <3>3, <3>4 DEF UnreadInv
  <2> QED BY <2>c, <2>1, <2>2, <2>3, <2>4, <2>5
<1> QED BY <1>u, <1>n

(* What holds whenever vcpus are started only while nobody sends to them.  *)
MailboxInv == TypeInv /\ OwnerInv /\ ContentInv /\ RoomInv

LEMMA MailboxInit == Init => MailboxInv /\ UnreadInv
<1> SUFFICES ASSUME Init PROVE MailboxInv /\ UnreadInv
  OBVIOUS
<1>1. TypeInv
  BY InitType
<1>2. OwnerInv /\ ContentInv /\ RoomInv
  BY DEF Init, OwnerInv, ContentInv, CopiedIn, Whole, RoomInv
<1>3. (0 - 0) % QSIZE = 0
  BY ModLow, CpuMondoAssumption DEF Slot
<1>4. UnreadInv
  BY <1>3 DEF Init, UnreadInv, IntactQueueOf
<1> QED BY <1>1, <1>2, <1>4 DEF MailboxInv

LEMMA MailboxStep ==
  ASSUME QuietStart, MailboxInv, [Next]_vars
  PROVE  MailboxInv'
  BY NextType, OwnerStep, ContentStep, RoomStep DEF MailboxInv

(* Every cpu queue is a FIFO of whole mondos, for any size of queue, of    *)
(* mondo and of guest, if no vcpu is started while another is copying into *)
(* its mailbox.                                                            *)
THEOREM QueueIntact ==
  ASSUME QuietStart
  PROVE  Spec => []IntactQueue
<1>1. Init => MailboxInv /\ UnreadInv
  BY MailboxInit
<1>2. MailboxInv /\ UnreadInv /\ [Next]_vars => (MailboxInv /\ UnreadInv)'
  BY MailboxStep, QueueStep DEF MailboxInv
<1>3. UnreadInv => IntactQueue
  BY DEF UnreadInv, IntactQueueOf, IntactQueue
<1> QED BY <1>1, <1>2, <1>3, PTL DEF Spec

-----------------------------------------------------------------------------
(* A step that gives no vcpu a mondo to queue, and leaves the list of its  *)
(* own call in order.                                                      *)
LEMMA OnceFrame ==
  ASSUME TypeInv, OnceInv, NEW c \in Cpus, Elsewhere(c),
         UNCHANGED queued,
         \A t \in Cpus : \A m : Waits(t, m)' => Waits(t, m),
         sent' \in [Cpus -> Nat], sent'[c] >= sent[c],
         \A i \in DOMAIN list'[c] : Unsent(c, i)',
         \A i, j \in DOMAIN list'[c] : i # j => list'[c][i] # list'[c][j] \/ list'[c][i] = DONE
  PROVE  OnceInv'
<1>1. \A t \in Cpus : \A m : Has(t, m)' <=> Has(t, m)
  BY DEF Has
<1>2. \A d \in Cpus : sent[d] \in Nat /\ sent'[d] \in Nat /\ sent'[d] >= sent[d]
  <2>1. sent \in [Cpus -> Nat]
    BY DEF TypeInv, Types
  <2>2. \A d \in Cpus \ {c} : sent'[d] = sent[d]
    BY DEF Elsewhere
  <2> QED BY <2>1, <2>2
<1>3. BegunInv'
  <2> SUFFICES ASSUME NEW d \in Cpus, NEW t \in Cpus, NEW n \in Nat,
                      Has(t, <<d, n>>)' \/ Waits(t, <<d, n>>)'
               PROVE  n <= sent'[d]
    BY DEF BegunInv
  <2>1. n <= sent[d]
    BY <1>1 DEF OnceInv, BegunInv
  <2> QED BY <2>1, <1>2
<1>4. NewInv'
  BY <1>1 DEF OnceInv, NewInv
<1>5. UnsentInv'
  <2>1. ASSUME NEW d \in Cpus \ {c}, NEW i \in DOMAIN list'[d] PROVE Unsent(d, i)'
    <3>1. /\ list'[d] = list[d] /\ idx'[d] = idx[d] /\ pc'[d] = pc[d] /\ Mondo(d)' = Mondo(d)
          /\ Unsent(d, i)
      BY <2>1 DEF Elsewhere, Mondo, OnceInv, UnsentInv
    <3>2. list[d][i] # DONE => list[d][i] \in Cpus
      BY <2>1, <3>1 DEF TypeInv, Types
    <3> QED BY <3>1, <3>2, <1>1 DEF Unsent
  <2> QED BY <2>1 DEF UnsentInv
<1>6. ListInv'
  BY DEF Elsewhere, OnceInv, ListInv
<1>7. OncePerTarget'
  BY DEF OnceInv, OncePerTarget
<1> QED BY <1>3, <1>4, <1>5, <1>6, <1>7 DEF OnceInv

LEMMA OnceStep ==
  ASSUME DistinctTargets, MailboxInv, OnceInv, [Next]_vars, sent' \in [Cpus -> Nat]
  PROVE  OnceInv'
<1>t. /\ TypeInv /\ pc \in [Cpus -> PC] /\ command \in [Cpus -> Commands]
      /\ sent \in [Cpus -> Nat] /\ list \in [Cpus -> Seq(Cpus \cup {DONE})]
  BY DEF MailboxInv, TypeInv, Types
<1>u. CASE UNCHANGED vars
  BY <1>u DEF vars, box, call, history, OnceInv, BegunInv, NewInv, UnsentInv, Unsent, ListInv,
              OncePerTarget, Has, Waits, Mondo
<1>n. CASE Next
  <2>c. PICK c \in Cpus :
           /\ Elsewhere(c)
           /\ \/ Aside(c)
              \/ \E l \in CpuLists[c] : hcall_cpu_mondo_send(c, l)
              \/ mailbox_cas(c) \/ send_copy(c) \/ send_signal(c)
              \/ mondo_check(c) /\ pc'[c] = "fill"
              \/ mondo_fill(c) \/ mondo_clear(c) \/ start_vcpu(c)
    BY <1>n, <1>t, MailboxCases
  \* the list of c is as it was, and nothing new waits anywhere
  <2>f. ASSUME UNCHANGED <<queued, list, idx, sent>>, \A t \in Cpus : \A m : Waits(t, m)' => Waits(t, m),
               pc[c] # "poke", pc'[c] # "poke"
        PROVE  OnceInv'
    <3>1. \A t \in Cpus : \A m : Has(t, m)' <=> Has(t, m)
      BY <2>f DEF Has
    <3>2. ASSUME NEW i \in DOMAIN list'[c] PROVE Unsent(c, i)'
      <4>1. list[c][i] # DONE => list[c][i] \in Cpus
        BY <1>t, <2>f, <3>2
      <4>2. Unsent(c, i)
        BY <2>f, <3>2 DEF OnceInv, UnsentInv
      <4>3. Mondo(c)' = Mondo(c)
        BY <2>f DEF Mondo
      <4> QED BY <4>1, <4>2, <4>3, <2>f, <3>1 DEF Unsent
    <3>3. \A i, j \in DOMAIN list'[c] : i # j => list'[c][i] # list'[c][j] \/ list'[c][i] = DONE
      BY <2>f DEF OnceInv, ListInv
    <3>4. sent'[c] >= sent[c]
      BY <1>t, <2>f
    <3> QED BY <1>t, <2>c, <2>f, <3>2, <3>3, <3>4, OnceFrame
  <2>1. CASE Aside(c)
    <3>1. UNCHANGED <<command, args, sent, queued>> /\ pc[c] # "clear" /\ pc'[c] # "clear" /\ pc'[c] # "poke"
      BY <2>1 DEF Aside
    <3>2. \A t \in Cpus : \A m : (Has(t, m)' <=> Has(t, m)) /\ (Waits(t, m)' => Waits(t, m))
      BY <2>c, <3>1 DEF Has, Waits, Elsewhere
    <3>3. ASSUME NEW i \in DOMAIN list'[c], list'[c][i] # DONE
          PROVE  /\ i \in DOMAIN list[c] /\ list'[c][i] = list[c][i] /\ ~(pc[c] = "poke" /\ idx[c] = i)
                 /\ list[c][i] \in Cpus
      BY <1>t, <2>1, <3>3 DEF Aside, Shrinks
    <3>4. ASSUME NEW i \in DOMAIN list'[c] PROVE Unsent(c, i)'
      <4>1. CASE list'[c][i] # DONE
        <5>1. ~Has(list[c][i], Mondo(c)) /\ ~Waits(list[c][i], Mondo(c))
          BY <3>3, <4>1 DEF OnceInv, UnsentInv, Unsent
        <5>2. Mondo(c)' = Mondo(c)
          BY <3>1 DEF Mondo
        <5> QED BY <5>1, <5>2, <3>2, <3>3, <4>1 DEF Unsent
      <4> QED BY <4>1 DEF Unsent
    <3>5. \A i, j \in DOMAIN list'[c] : i # j => list'[c][i] # list'[c][j] \/ list'[c][i] = DONE
      BY <3>3 DEF OnceInv, ListInv
    <3>6. sent'[c] >= sent[c]
      BY <1>t, <3>1
    <3> QED BY <1>t, <2>c, <3>1, <3>2, <3>4, <3>5, <3>6, OnceFrame
  <2>2. ASSUME NEW l \in CpuLists[c], hcall_cpu_mondo_send(c, l) PROVE OnceInv'
    <3>1. /\ UNCHANGED <<command, args, queued>> /\ pc[c] = "guest" /\ pc'[c] = "next"
          /\ sent'[c] = sent[c] + 1 /\ list'[c] = l
      BY <1>t, <2>2 DEF hcall_cpu_mondo_send, Goto, box, history
    <3>2. \A t \in Cpus : \A m : (Has(t, m)' <=> Has(t, m)) /\ (Waits(t, m)' => Waits(t, m))
      BY <2>c, <3>1 DEF Has, Waits, Elsewhere
    <3>3. l \in Seq(Cpus)
      BY CpuMondoAssumption
    <3>4. ASSUME NEW i \in DOMAIN list'[c] PROVE Unsent(c, i)'
      <4>1. list'[c][i] \in Cpus
        BY <3>1, <3>3, <3>4
      <4>2. \A t \in Cpus : ~Has(t, Mondo(c)') /\ ~Waits(t, Mondo(c)')
        <5>1. Mondo(c)' = <<c, sent[c] + 1>> /\ sent[c] + 1 \in Nat /\ ~(sent[c] + 1 <= sent[c])
          BY <1>t, <3>1 DEF Mondo
        <5> QED BY <5>1 DEF OnceInv, BegunInv
      <4> QED BY <4>1, <4>2, <3>2 DEF Unsent
    <3>5. \A i, j \in DOMAIN list'[c] : i # j => list'[c][i] # list'[c][j] \/ list'[c][i] = DONE
      BY <3>1 DEF DistinctTargets
    <3>6. sent'[c] >= sent[c]
      BY <1>t, <3>1
    <3> QED BY <1>t, <2>c, <3>1, <3>2, <3>4, <3>5, <3>6, OnceFrame
  <2>3. CASE mailbox_cas(c)
    <3>1. /\ UNCHANGED <<args, queued, list, idx, sent>> /\ pc[c] = "next" /\ pc'[c] = "copy"
          /\ \A t \in Cpus : command'[t] = command[t] \/ command'[t] = "BUSY"
      BY <1>t, <2>3 DEF mailbox_cas, Eligible, AtEntry, Goto, call, history
    <3>2. \A t \in Cpus : \A m : Waits(t, m)' => Waits(t, m)
      BY <2>c, <3>1 DEF Waits, Elsewhere
    <3> QED BY <3>1, <3>2, <2>f
  <2>4. CASE send_copy(c)
    <3>1. /\ UNCHANGED <<command, queued, list, idx, sent>> /\ pc[c] = "copy" /\ pc'[c] \in {"copy", "signal"}
          /\ command[Target(c)] = "BUSY" /\ Target(c) \in Cpus
      BY <1>t, <2>4 DEF send_copy, Goto, history, MailboxInv, OwnerInv, TypeInv, CallInv, AtTarget
    <3>2. \A t \in Cpus \ {Target(c)} : args'[t] = args[t]
      BY <2>4, <3>1 DEF send_copy, MailboxInv, TypeInv, Types
    <3>3. \A t \in Cpus : \A m : Waits(t, m)' => Waits(t, m)
      BY <2>c, <3>1, <3>2 DEF Waits, Elsewhere
    <3> QED BY <3>1, <3>3, <2>f
  <2>5. CASE mondo_check(c) /\ pc'[c] = "fill"
    <3>1. UNCHANGED <<command, args, queued, list, idx, sent>> /\ pc[c] = "recv"
      BY <2>5 DEF mondo_check, box, call, history
    <3>2. \A t \in Cpus : \A m : Waits(t, m)' => Waits(t, m)
      BY <2>c, <2>5, <3>1 DEF Waits, Elsewhere
    <3> QED BY <2>5, <3>1, <3>2, <2>f
  <2>6. CASE mondo_clear(c) \/ start_vcpu(c)
    <3>1. /\ UNCHANGED <<args, queued, list, idx, sent>> /\ pc[c] # "poke" /\ pc'[c] \in {"guest", "retry"}
          /\ command'[c] = "READY" /\ \A t \in Cpus \ {c} : command'[t] = command[t]
      BY <1>t, <2>6 DEF mondo_clear, start_vcpu, Resume, Goto, call, history
    <3>2. \A t \in Cpus : \A m : Waits(t, m)' => Waits(t, m)
      BY <2>c, <3>1 DEF Waits, Elsewhere
    <3> QED BY <3>1, <3>2, <2>f
  <2>7. CASE send_signal(c)
    <3> DEFINE t == Target(c)
    <3>1. /\ UNCHANGED <<args, queued, list, idx, sent>> /\ pc[c] = "signal" /\ pc'[c] = "poke"
          /\ command'[t] = "GUESTMONDO_READY" /\ \A d \in Cpus \ {t} : command'[d] = command[d]
      BY <1>t, <2>7 DEF send_signal, Goto, call, history, TypeInv, CallInv, AtTarget
    <3>2. /\ t \in Cpus /\ idx[c] \in DOMAIN list[c] /\ t # DONE /\ args[t][1] = Mondo(c)
          /\ command[t] = "BUSY"
      BY <2>7, CpuMondoAssumption
         DEF send_signal, MailboxInv, TypeInv, CallInv, AtTarget, OwnerInv, ContentInv, CopiedIn, Word
    <3>3. \A d \in Cpus : \A m : Has(d, m)' <=> Has(d, m)
      BY <3>1 DEF Has
    <3>4. \A d \in Cpus : \A m : Waits(d, m)' => Waits(d, m) \/ (d = t /\ m = Mondo(c))
      <4> SUFFICES ASSUME NEW d \in Cpus, NEW m, Waits(d, m)'
                   PROVE  Waits(d, m) \/ (d = t /\ m = Mondo(c))
        OBVIOUS
      <4>1. CASE d = t
        BY <4>1, <3>1, <3>2 DEF Waits
      <4>2. CASE d # t
        <5>1. command[d] = "GUESTMONDO_READY" /\ args[d][1] = m
          BY <4>2, <3>1 DEF Waits
        <5>2. pc[d] # "clear"
          BY <2>c, <3>1 DEF Waits, Elsewhere
        <5>3. Waits(d, m)
          BY <5>1, <5>2, Zenon DEF Waits
        <5> QED BY <5>3
      <4> QED BY <4>1, <4>2
    <3>5. ~Has(t, Mondo(c))
      <4>1. Unsent(c, idx[c])
        BY <3>2 DEF OnceInv, UnsentInv
      <4> QED BY <4>1, <3>1, <3>2 DEF Unsent, Target
    <3>6. BegunInv'
      <4> SUFFICES ASSUME NEW d \in Cpus, NEW e \in Cpus, NEW n \in Nat,
                          Has(e, <<d, n>>)' \/ Waits(e, <<d, n>>)'
                   PROVE  n <= sent'[d]
        BY DEF BegunInv
      <4>1. CASE Has(e, <<d, n>>) \/ Waits(e, <<d, n>>)
        BY <4>1, <3>1 DEF OnceInv, BegunInv
      <4>2. CASE <<d, n>> = Mondo(c)
        BY <1>t, <4>2, <3>1 DEF Mondo
      <4> QED BY <4>1, <4>2, <3>3, <3>4
    <3>7. NewInv'
      <4> SUFFICES ASSUME NEW d \in Cpus, NEW m \in Mondos \cup {NoMondo}, Waits(d, m)'
                   PROVE  ~Has(d, m)'
        BY DEF NewInv
      <4>1. CASE Waits(d, m)
        BY <4>1, <3>3 DEF OnceInv, NewInv
      <4>2. CASE d = t /\ m = Mondo(c)
        BY <4>2, <3>3, <3>5
      <4> QED BY <4>1, <4>2, <3>4
    <3>8. UnsentInv'
      <4> SUFFICES ASSUME NEW d \in Cpus, NEW i \in DOMAIN list[d], list[d][i] # DONE,
                          ~(pc'[d] = "poke" /\ idx'[d] = i)
                   PROVE  ~Has(list[d][i], Mondo(d))' /\ ~Waits(list[d][i], Mondo(d))'
        BY <3>1 DEF UnsentInv, Unsent
      <4>1. list[d][i] \in Cpus
        BY <1>t
      <4>2. Mondo(d)' = Mondo(d) /\ list'[d][i] = list[d][i]
        BY <3>1 DEF Mondo
      <4>3. ~(pc[d] = "poke" /\ idx[d] = i)
        BY <2>c, <3>1 DEF Elsewhere
      <4>4. ~Has(list[d][i], Mondo(d)) /\ ~Waits(list[d][i], Mondo(d))
        BY <4>3 DEF OnceInv, UnsentInv, Unsent
      <4>5. ~(list[d][i] = t /\ Mondo(d) = Mondo(c))
        <5>1. CASE d = c
          BY <5>1, <3>1, <3>2 DEF OnceInv, ListInv, Target
        <5>2. CASE d # c
          BY <5>2 DEF Mondo
        <5> QED BY <5>1, <5>2
      <4> QED BY <4>1, <4>2, <4>4, <4>5, <3>3, <3>4
    <3>9. ListInv' /\ OncePerTarget'
      BY <3>1 DEF OnceInv, ListInv, OncePerTarget
    <3> QED BY <3>6, <3>7, <3>8, <3>9 DEF OnceInv
  <2>8. CASE mondo_fill(c)
    <3> DEFINE m == args[c][1]
    <3>1. /\ UNCHANGED <<command, args, list, idx, sent>> /\ pc[c] = "fill" /\ pc'[c] = "clear"
          /\ command[c] = "GUESTMONDO_READY"
          /\ queued' = [queued EXCEPT ![c] = Append(@, m)]
      BY <1>t, <2>8 DEF mondo_fill, Goto, box, call, MailboxInv, OwnerInv
    <3>2. m \in Mondos \cup {NoMondo} /\ Waits(c, m) /\ ~Has(c, m)
      <4>1. m \in Mondos \cup {NoMondo}
        BY CpuMondoAssumption DEF MailboxInv, TypeInv, Types, Word
      <4>2. Waits(c, m)
        BY <3>1 DEF Waits
      <4> QED BY <4>1, <4>2 DEF OnceInv, NewInv
    <3>3. /\ \A d \in Cpus \ {c} : queued'[d] = queued[d]
          /\ queued'[c] = Append(queued[c], m) /\ queued[c] \in Seq(Mondos \cup {NoMondo})
      BY <3>1 DEF MailboxInv, TypeInv, QueueTypes
    <3>4. /\ DOMAIN queued[c] = 1 .. Len(queued[c]) /\ Len(queued[c]) \in Nat
          /\ DOMAIN queued'[c] = 1 .. Len(queued[c]) + 1
          /\ \A i \in 1 .. Len(queued[c]) : queued'[c][i] = queued[c][i]
          /\ queued'[c][Len(queued[c]) + 1] = m
      BY <3>2, <3>3, AppendProperties
    <3>5. \A d \in Cpus : \A x : Has(d, x)' => Has(d, x) \/ Waits(d, x)
      <4> SUFFICES ASSUME NEW d \in Cpus, NEW x, Has(d, x)' PROVE Has(d, x) \/ Waits(d, x)
        OBVIOUS
      <4>1. CASE d # c
        BY <4>1, <3>3 DEF Has
      <4>2. CASE d = c
        <5>1. PICK i \in DOMAIN queued'[c] : queued'[c][i] = x
          BY <4>2 DEF Has
        <5>2. i \in 1 .. Len(queued[c]) \/ i = Len(queued[c]) + 1
          BY <3>4
        <5> QED BY <4>2, <5>1, <5>2, <3>2, <3>4 DEF Has
      <4> QED BY <4>1, <4>2
    <3>6. \A d \in Cpus : \A x : Waits(d, x)' => Waits(d, x) /\ d # c
      BY <2>c, <3>1 DEF Waits, Elsewhere
    <3>7. BegunInv'
      BY <3>1, <3>5, <3>6 DEF OnceInv, BegunInv
    <3>8. NewInv'
      <4>1. \A d \in Cpus \ {c} : \A x : Has(d, x)' <=> Has(d, x)
        BY <3>3 DEF Has
      <4> QED BY <4>1, <3>6 DEF OnceInv, NewInv
    <3>9. UnsentInv'
      <4> SUFFICES ASSUME NEW d \in Cpus, NEW i \in DOMAIN list[d], list[d][i] # DONE,
                          ~(pc'[d] = "poke" /\ idx'[d] = i)
                   PROVE  ~Has(list[d][i], Mondo(d))' /\ ~Waits(list[d][i], Mondo(d))'
        BY <3>1 DEF UnsentInv, Unsent
      <4>1. list[d][i] \in Cpus
        BY <1>t
      <4>2. Mondo(d)' = Mondo(d) /\ list'[d][i] = list[d][i]
        BY <3>1 DEF Mondo
      <4>3. ~(pc[d] = "poke" /\ idx[d] = i)
        BY <2>c, <3>1 DEF Elsewhere
      <4>4. ~Has(list[d][i], Mondo(d)) /\ ~Waits(list[d][i], Mondo(d))
        BY <4>3 DEF OnceInv, UnsentInv, Unsent
      <4> QED BY <4>1, <4>2, <4>4, <3>5, <3>6
    <3>10. ListInv'
      BY <3>1 DEF OnceInv, ListInv
    <3>11. OncePerTarget'
      <4>1. \A d \in Cpus \ {c} : \A i, j \in DOMAIN queued'[d] : i # j => queued'[d][i] # queued'[d][j]
        BY <3>3 DEF OnceInv, OncePerTarget
      <4>2. ASSUME NEW i \in DOMAIN queued'[c], NEW j \in DOMAIN queued'[c], i # j
            PROVE  queued'[c][i] # queued'[c][j]
        <5>1. \A k \in DOMAIN queued[c] : queued[c][k] # m
          BY <3>2 DEF Has
        <5>2. /\ i \in 1 .. Len(queued[c]) \/ i = Len(queued[c]) + 1
              /\ j \in 1 .. Len(queued[c]) \/ j = Len(queued[c]) + 1
          BY <3>4
        <5>3. CASE i \in 1 .. Len(queued[c]) /\ j \in 1 .. Len(queued[c])
          BY <5>3, <4>2, <3>4 DEF OnceInv, OncePerTarget
        <5> QED BY <4>2, <5>1, <5>2, <5>3, <3>4
      <4> QED BY <4>1, <4>2 DEF OncePerTarget
    <3> QED BY <3>7, <3>8, <3>9, <3>10, <3>11 DEF OnceInv
  <2> QED BY <2>c, <2>1, <2>2, <2>3, <2>4, <2>5, <2>6, <2>7, <2>8
<1> QED BY <1>u, <1>n

(* A mondo is queued at most once for each target of its list, whatever    *)
(* the retries, if the lists name no vcpu twice (one that does asks for    *)
(* two mondos) and vcpus are started only while nobody sends to them.      *)
THEOREM DeliveredOnce ==
  ASSUME QuietStart, DistinctTargets
  PROVE  Spec => []OncePerTarget
<1>1. Init => MailboxInv /\ OnceInv
  BY MailboxInit DEF Init, OnceInv, BegunInv, NewInv, UnsentInv, ListInv, OncePerTarget, Has, Waits
<1>2. MailboxInv /\ OnceInv /\ [Next]_vars => (MailboxInv /\ OnceInv)'
  <2> SUFFICES ASSUME MailboxInv, OnceInv, [Next]_vars PROVE MailboxInv' /\ OnceInv'
    OBVIOUS
  <2>1. MailboxInv'
    BY MailboxStep
  <2>2. sent' \in [Cpus -> Nat]
    BY <2>1 DEF MailboxInv, TypeInv, Types
  <2> QED BY <2>1, <2>2, OnceStep
<1>3. OnceInv => OncePerTarget
  BY DEF OnceInv
<1> QED BY <1>1, <1>2, <1>3, PTL DEF Spec

-----------------------------------------------------------------------------
(* The mondo that is about to be marked stays with its target: only the    *)
(* target takes it out of the mailbox, once it is queued.                  *)
LEMMA AcceptStep ==
  ASSUME QuietStart, MailboxInv, AcceptInv, [Next]_vars
  PROVE  AcceptInv'
<1>t. /\ TypeInv /\ pc \in [Cpus -> PC] /\ command \in [Cpus -> Commands]
      /\ dropped \in [Cpus -> SUBSET (Mondos \cup {NoMondo})]
  BY DEF MailboxInv, TypeInv, Types, QueueTypes
<1>u. CASE UNCHANGED vars
  BY <1>u DEF vars, box, call, history, AcceptInv, Accepted, Has, Mondo, Target
<1>n. CASE Next
  <2>c. PICK c \in Cpus :
           /\ Elsewhere(c)
           /\ \/ Aside(c)
              \/ \E l \in CpuLists[c] : hcall_cpu_mondo_send(c, l)
              \/ mailbox_cas(c) \/ send_copy(c) \/ send_signal(c)
              \/ mondo_check(c) /\ pc'[c] = "fill"
              \/ mondo_fill(c) \/ mondo_clear(c) \/ start_vcpu(c)
    BY <1>n, <1>t, MailboxCases
  \* what c does neither ends nor begins a wait of its own
  <2>f. ASSUME pc'[c] \notin {"poke", "clear"}, UNCHANGED queued,
               \A t \in Cpus \ {c} : pc[t] = "clear" => args'[t] = args[t],
               \A t \in Cpus : \A m : Accepted(t, m) => Accepted(t, m)'
        PROVE  AcceptInv'
    <3>1. \A t \in Cpus : pc'[t] = "clear" => Has(t, args[t][1])'
      BY <2>c, <2>f DEF AcceptInv, Has, Elsewhere
    <3>2. ASSUME NEW d \in Cpus, pc'[d] = "poke" PROVE Accepted(Target(d), Mondo(d))'
      <4>1. d # c /\ pc[d] = "poke" /\ Target(d)' = Target(d) /\ Mondo(d)' = Mondo(d)
        BY <2>c, <2>f, <3>2 DEF Elsewhere, Target, Mondo
      <4>2. Target(d) \in Cpus /\ Accepted(Target(d), Mondo(d))
        BY <1>t, <4>1 DEF TypeInv, CallInv, AtTarget, AcceptInv
      <4> QED BY <4>1, <4>2, <2>f
    <3> QED BY <3>1, <3>2 DEF AcceptInv
  <2>1. CASE Aside(c)
    BY <2>1, <2>f DEF Aside, Accepted, Has
  <2>2. ASSUME NEW l \in CpuLists[c], hcall_cpu_mondo_send(c, l) PROVE AcceptInv'
    <3>1. UNCHANGED <<command, args, queued, dropped>> /\ pc'[c] = "next"
      BY <1>t, <2>2 DEF hcall_cpu_mondo_send, Goto, box, history
    <3> QED BY <3>1, <2>f DEF Accepted, Has
  <2>3. CASE mailbox_cas(c)
    <3>1. /\ UNCHANGED <<args, queued, dropped>> /\ pc'[c] = "copy"
          /\ \A t \in Cpus : command[t] = "GUESTMONDO_READY" => command'[t] = "GUESTMONDO_READY"
      BY <1>t, <2>3 DEF mailbox_cas, Goto, history
    <3> QED BY <3>1, <2>f DEF Accepted, Has
  <2>4. CASE send_copy(c)
    <3>1. /\ UNCHANGED <<command, queued, dropped>> /\ pc'[c] \in {"copy", "signal"}
          /\ command[Target(c)] = "BUSY" /\ Target(c) \in Cpus
      BY <1>t, <2>4 DEF send_copy, Goto, history, MailboxInv, OwnerInv, TypeInv, CallInv, AtTarget
    <3>2. \A t \in Cpus \ {Target(c)} : args'[t] = args[t]
      BY <2>4, <3>1 DEF send_copy, MailboxInv, TypeInv, Types
    <3>3. \A t \in Cpus : pc[t] = "clear" => t # Target(c)
      BY <3>1 DEF MailboxInv, OwnerInv
    <3>4. \A t \in Cpus : \A m : Accepted(t, m) => Accepted(t, m)'
      BY <3>1, <3>2 DEF Accepted, Has
    <3> QED BY <3>1, <3>2, <3>3, <3>4, <2>f
  <2>5. CASE send_signal(c)
    <3> DEFINE t == Target(c)
    <3>1. /\ UNCHANGED <<args, queued, dropped, list, idx, sent>> /\ pc'[c] = "poke"
          /\ t \in Cpus /\ command'[t] = "GUESTMONDO_READY"
          /\ \A d \in Cpus \ {t} : command'[d] = command[d]
      BY <1>t, <2>5 DEF send_signal, Goto, call, history, TypeInv, CallInv, AtTarget
    <3>2. \A d \in Cpus : \A m : Accepted(d, m) => Accepted(d, m)'
      BY <3>1 DEF Accepted, Has
    <3>3. args[t] = [w \in Word |-> Mondo(c)]
      <4>1. args[t] \in [Word -> Mondos \cup {NoMondo}]
        BY <1>t, <3>1 DEF TypeInv, Types
      <4>2. \A w \in Word : args[t][w] = Mondo(c)
        BY <2>5 DEF send_signal, MailboxInv, ContentInv, CopiedIn
      <4> QED BY <4>1, <4>2
    <3>4. Accepted(Target(c), Mondo(c))'
      BY <3>1, <3>3 DEF Accepted, Target, Mondo
    <3>5. \A d \in Cpus : pc'[d] = "clear" => Has(d, args[d][1])'
      BY <2>c, <3>1 DEF AcceptInv, Has, Elsewhere
    <3>6. ASSUME NEW d \in Cpus \ {c}, pc'[d] = "poke" PROVE Accepted(Target(d), Mondo(d))'
      <4>1. pc[d] = "poke" /\ Target(d)' = Target(d) /\ Mondo(d)' = Mondo(d)
        BY <2>c, <3>1, <3>6 DEF Elsewhere, Target, Mondo
      <4>2. Target(d) \in Cpus /\ Accepted(Target(d), Mondo(d))
        BY <1>t, <4>1 DEF TypeInv, CallInv, AtTarget, AcceptInv
      <4> QED BY <4>1, <4>2, <3>2
    <3> QED BY <3>4, <3>5, <3>6 DEF AcceptInv
  <2>6. CASE mondo_check(c) /\ pc'[c] = "fill"
    <3>1. UNCHANGED <<command, args, queued, dropped>>
      BY <2>6 DEF mondo_check, box, history
    <3> QED BY <2>6, <3>1, <2>f DEF Accepted, Has
  <2>7. CASE mondo_fill(c)
    <3> DEFINE m == args[c][1]
    <3>1. /\ UNCHANGED <<command, args, dropped>> /\ pc'[c] = "clear"
          /\ queued' = [queued EXCEPT ![c] = Append(@, m)]
      BY <1>t, <2>7 DEF mondo_fill, Goto, box, call
    <3>2. m \in Mondos \cup {NoMondo}
      BY CpuMondoAssumption DEF MailboxInv, TypeInv, Types, Word
    <3>3. /\ \A d \in Cpus \ {c} : queued'[d] = queued[d]
          /\ queued'[c] = Append(queued[c], m) /\ queued[c] \in Seq(Mondos \cup {NoMondo})
      BY <3>1 DEF MailboxInv, TypeInv, QueueTypes
    <3>4. /\ DOMAIN queued[c] = 1 .. Len(queued[c]) /\ Len(queued[c]) \in Nat
          /\ DOMAIN queued'[c] = 1 .. Len(queued[c]) + 1
          /\ \A i \in 1 .. Len(queued[c]) : queued'[c][i] = queued[c][i]
          /\ queued'[c][Len(queued[c]) + 1] = m
      BY <3>2, <3>3, AppendProperties
    <3>5. Has(c, m)'
      BY <3>1, <3>4 DEF Has
    <3>6. \A d \in Cpus : \A x : Has(d, x) => Has(d, x)'
      BY <3>3, <3>4 DEF Has
    <3>7. \A d \in Cpus : \A x : Accepted(d, x) => Accepted(d, x)'
      BY <3>1, <3>6 DEF Accepted
    <3>8. \A d \in Cpus : pc'[d] = "clear" => Has(d, args[d][1])'
      BY <2>c, <3>1, <3>5, <3>6 DEF AcceptInv, Elsewhere
    <3>9. ASSUME NEW d \in Cpus, pc'[d] = "poke" PROVE Accepted(Target(d), Mondo(d))'
      <4>1. d # c /\ pc[d] = "poke" /\ Target(d)' = Target(d) /\ Mondo(d)' = Mondo(d)
        BY <2>c, <3>1, <3>9 DEF Elsewhere, Target, Mondo
      <4>2. Target(d) \in Cpus /\ Accepted(Target(d), Mondo(d))
        BY <1>t, <4>1 DEF TypeInv, CallInv, AtTarget, AcceptInv
      <4> QED BY <4>1, <4>2, <3>7
    <3> QED BY <3>8, <3>9 DEF AcceptInv
  <2>8. CASE mondo_clear(c)
    <3>1. /\ UNCHANGED <<args, queued, dropped>> /\ pc[c] = "clear" /\ pc'[c] \in {"guest", "retry"}
          /\ \A t \in Cpus \ {c} : command'[t] = command[t]
      BY <1>t, <2>8 DEF mondo_clear, Resume, Goto, history
    <3>2. Has(c, args[c][1])
      BY <3>1 DEF AcceptInv
    <3>3. \A t \in Cpus : \A m : Accepted(t, m) => Accepted(t, m)'
      BY <3>1, <3>2, CpuMondoAssumption DEF Accepted, Has, Word
    <3> QED BY <3>1, <3>3, <2>f
  <2>9. CASE start_vcpu(c)
    <3>1. /\ UNCHANGED <<args, queued>> /\ pc'[c] = "guest"
          /\ \A t \in Cpus \ {c} : command'[t] = command[t] /\ dropped'[t] = dropped[t]
          /\ dropped[c] \subseteq dropped'[c]
          /\ command[c] = "GUESTMONDO_READY" => args[c][1] \in dropped'[c]
      BY <1>t, <2>9 DEF start_vcpu, Goto
    <3>2. \A t \in Cpus : \A m : Accepted(t, m) => Accepted(t, m)'
      BY <3>1, CpuMondoAssumption DEF Accepted, Has, Word
    <3> QED BY <3>1, <3>2, <2>f
  <2> QED BY <2>c, <2>1, <2>2, <2>3, <2>4, <2>5, <2>6, <2>7, <2>8, <2>9
<1> QED BY <1>u, <1>n

(* An entry is marked ENTRYDONE only for a mondo that its target has, in   *)
(* its mailbox or in its queue, or had when it was started anew, if vcpus  *)
(* are started only while nobody sends to them: reset_vcpu_state does not  *)
(* see to that.                                                            *)
THEOREM MarkedIsAccepted ==
  ASSUME QuietStart
  PROVE  Spec => DoneIsAccepted
<1>1. Init => MailboxInv /\ AcceptInv
  BY MailboxInit DEF Init, AcceptInv
<1>2. MailboxInv /\ AcceptInv /\ [Next]_vars => (MailboxInv /\ AcceptInv)'
  BY MailboxStep, AcceptStep
<1>3. AcceptInv => \A c \in Cpus : pc[c] = "poke" /\ pc'[c] = "next" =>
       LET t == Target(c) IN
         \/ command[t] = "GUESTMONDO_READY" /\ args[t] = [w \in Word |-> Mondo(c)]
         \/ \E i \in DOMAIN queued[t] : queued[t][i] = Mondo(c)
         \/ Mondo(c) \in dropped[t]
  BY DEF AcceptInv, Accepted, Has
<1> QED BY <1>1, <1>2, <1>3, PTL DEF Spec, DoneIsAccepted
=============================================================================
