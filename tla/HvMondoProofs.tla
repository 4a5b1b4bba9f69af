--------------------------- MODULE HvMondoProofs ----------------------------
(***************************************************************************)
(* Proofs about HvMondo for any set of strands, any mondo length and any   *)
(* pattern of senders and targets.                                         *)
(***************************************************************************)
EXTENDS HvMondo, TLAPS

(* Every step keeps the variables in their types.                          *)
THEOREM TypeCorrect == Spec => []TypeOK
<1>1. Init => TypeOK
  BY HvMondoAssumption DEF Init, TypeOK, Word, Mondos, NoMondo, Command, PC, Sending, Receiving
<1>2. TypeOK /\ [Next]_vars => TypeOK'
  <2> USE HvMondoAssumption DEF TypeOK, Word, Command, PC, Sending, Receiving
  <2> SUFFICES ASSUME TypeOK, Next PROVE TypeOK'
    BY DEF vars
  <2>1. PICK s \in Strands : \/ \E t \in Strands : hvmondo_send(s, t)
                             \/ Send(s) \/ Receive(s) \/ start_work(s)
    BY DEF Next
  <2>2. ASSUME NEW t \in Strands, hvmondo_send(s, t) PROVE TypeOK'
    BY <2>2 DEF hvmondo_send, Mondos
  <2>3. CASE send_cas(s)      BY <2>3 DEF send_cas
  <2>4. CASE send_copy(s)
    <3>1. mondobuf' \in [Strands -> [Word -> Mondos \cup {NoMondo}]]
      BY <2>4 DEF send_copy
    <3>2. wd' \in [Strands -> Word] /\ pc' \in [Strands -> PC]
      BY <2>4 DEF send_copy
    <3> QED BY <2>4, <3>1, <3>2 DEF send_copy
  <2>5. CASE send_signal(s)   BY <2>5 DEF send_signal
  <2>6. CASE send_poke(s)     BY <2>6 DEF send_poke
  <2>7. CASE hvxcall_mondo(s) BY <2>7 DEF hvxcall_mondo
  <2>8. CASE hvmondo_wait(s)  BY <2>8 DEF hvmondo_wait
  <2>9. CASE recv_check(s)    BY <2>9 DEF recv_check
  <2>10. CASE recv_copy(s)
    <3>1. rx' \in [Strands -> [Word -> Mondos \cup {NoMondo}]]
      BY <2>10 DEF recv_copy
    <3>2. wd' \in [Strands -> Word] /\ pc' \in [Strands -> PC]
      BY <2>10 DEF recv_copy
    <3> QED BY <2>10, <3>1, <3>2 DEF recv_copy
  <2>11. CASE recv_release(s)
    <3>1. rx[s][1] \in Mondos \cup {NoMondo}
      OBVIOUS
    <3>2. delivered' \in [Strands -> Seq(Mondos \cup {NoMondo})]
      BY <2>11, <3>1 DEF recv_release
    <3> QED BY <2>11, <3>2 DEF recv_release
  <2>12. CASE handle_hvmondo(s) BY <2>12 DEF handle_hvmondo
  <2>13. CASE start_work(s)   BY <2>13 DEF start_work
  <2> QED BY <2>1, <2>2, <2>3, <2>4, <2>5, <2>6, <2>7, <2>8, <2>9, <2>10, <2>11, <2>12, <2>13
             DEF Send, Receive
<1> QED BY <1>1, <1>2, PTL DEF Spec

(* One step of any action keeps each part of MailboxInv.                   *)
LEMMA MailboxStep ==
  ASSUME TypeOK, MailboxInv, [Next]_vars
  PROVE  MailboxInv'
<1> USE HvMondoAssumption DEF TypeOK, Command, PC, Sending, Receiving
<1>u. CASE UNCHANGED vars
  BY <1>u DEF vars, MailboxInv, NoMboxAbort, BusyOwner, PokeOwner, InterruptOwner, Contents, CopiedIn, Complete, CopiedOut, IntactMondo
<1>s. ASSUME NEW s \in Strands, NEW t \in Strands, hvmondo_send(s, t) PROVE MailboxInv'
  <2>1. NoMboxAbort' /\ BusyOwner' /\ PokeOwner' /\ InterruptOwner'
    BY <1>s DEF hvmondo_send, MailboxInv, NoMboxAbort, BusyOwner, PokeOwner, InterruptOwner
  <2>2. Contents' /\ IntactMondo'
    BY <1>s DEF hvmondo_send, MailboxInv, Contents, CopiedIn, Complete, CopiedOut, IntactMondo, Mondos
  <2> QED BY <2>1, <2>2 DEF MailboxInv
<1>1. ASSUME NEW s \in Strands, send_cas(s) PROVE MailboxInv'
  <2>1. NoMboxAbort'
    BY <1>1 DEF send_cas, MailboxInv, NoMboxAbort, InterruptOwner
  <2>2. BusyOwner'
    BY <1>1 DEF send_cas, MailboxInv, BusyOwner, PokeOwner, InterruptOwner
  <2>3. PokeOwner'
    BY <1>1 DEF send_cas, MailboxInv, BusyOwner, PokeOwner, InterruptOwner
  <2>4. InterruptOwner'
    BY <1>1 DEF send_cas, MailboxInv, BusyOwner, PokeOwner, InterruptOwner
  <2>5. Contents'
    BY <1>1 DEF send_cas, MailboxInv, Contents, CopiedIn, Complete, CopiedOut, BusyOwner, InterruptOwner, Word
  <2>6. IntactMondo'
    BY <1>1 DEF send_cas, MailboxInv, IntactMondo, Contents, CopiedOut, Complete, InterruptOwner
  <2> QED BY <2>1, <2>2, <2>3, <2>4, <2>5, <2>6 DEF MailboxInv
<1>2. ASSUME NEW s \in Strands, send_copy(s) PROVE MailboxInv'
  <2>1. NoMboxAbort'
    BY <1>2 DEF send_copy, MailboxInv, NoMboxAbort, InterruptOwner
  <2>2. BusyOwner'
    BY <1>2 DEF send_copy, MailboxInv, BusyOwner, PokeOwner, InterruptOwner
  <2>3. PokeOwner'
    BY <1>2 DEF send_copy, MailboxInv, BusyOwner, PokeOwner, InterruptOwner
  <2>4. InterruptOwner'
    BY <1>2 DEF send_copy, MailboxInv, BusyOwner, PokeOwner, InterruptOwner
  <2>5. Contents'
    <3> SUFFICES ASSUME NEW r \in Strands PROVE (CopiedIn(r) /\ Complete(r) /\ CopiedOut(r))'
      BY DEF Contents
    <3>0. CopiedIn(r) /\ Complete(r) /\ CopiedOut(r) /\ CopiedIn(s) /\ CopiedOut(s)
      BY DEF MailboxInv, Contents
    <3>1. CopiedIn(r)'
      BY <1>2, <3>0 DEF send_copy, MailboxInv, BusyOwner, CopiedIn, Word
    <3>2. Complete(r)'
      BY <1>2, <3>0 DEF send_copy, MailboxInv, BusyOwner, CopiedIn, Complete, Word
    <3>3. CopiedOut(r)'
      BY <1>2, <3>0 DEF send_copy, MailboxInv, BusyOwner, InterruptOwner, CopiedOut, Word
    <3> QED BY <3>1, <3>2, <3>3
  <2>6. IntactMondo'
    BY <1>2 DEF send_copy, MailboxInv, IntactMondo, Contents, CopiedOut, Complete, InterruptOwner
  <2> QED BY <2>1, <2>2, <2>3, <2>4, <2>5, <2>6 DEF MailboxInv
<1>3. ASSUME NEW s \in Strands, send_signal(s) PROVE MailboxInv'
  <2>1. NoMboxAbort'
    BY <1>3 DEF send_signal, MailboxInv, NoMboxAbort, InterruptOwner
  <2>2. BusyOwner'
    BY <1>3 DEF send_signal, MailboxInv, BusyOwner, PokeOwner, InterruptOwner
  <2>3. PokeOwner'
    BY <1>3 DEF send_signal, MailboxInv, BusyOwner, PokeOwner, InterruptOwner
  <2>4. InterruptOwner'
    BY <1>3 DEF send_signal, MailboxInv, BusyOwner, PokeOwner, InterruptOwner
  <2>5. Contents'
    <3> SUFFICES ASSUME NEW r \in Strands PROVE (CopiedIn(r) /\ Complete(r) /\ CopiedOut(r))'
      BY DEF Contents
    <3>0. CopiedIn(r) /\ Complete(r) /\ CopiedOut(r) /\ CopiedIn(s) /\ CopiedOut(s)
      BY DEF MailboxInv, Contents
    <3>1. CopiedIn(r)'
      BY <1>3, <3>0 DEF send_signal, MailboxInv, BusyOwner, CopiedIn, Word
    <3>2. Complete(r)'
      <4>1. CASE r # tgt[s]
        BY <1>3, <3>0, <4>1 DEF send_signal, Complete
      <4>2. CASE r = tgt[s]
        <5>1. \A w \in Word : mondobuf'[r][w] = tx[s]
          BY <1>3, <3>0, <4>2 DEF send_signal, CopiedIn
        <5>2. tx[s] \in Mondos
          BY <1>3, <3>0 DEF send_signal, CopiedIn
        <5> QED BY <5>1, <5>2 DEF Complete
      <4> QED BY <4>1, <4>2
    <3>3. CopiedOut(r)'
      BY <1>3, <3>0 DEF send_signal, MailboxInv, BusyOwner, InterruptOwner, CopiedOut, Word
    <3> QED BY <3>1, <3>2, <3>3
  <2>6. IntactMondo'
    BY <1>3 DEF send_signal, MailboxInv, IntactMondo, Contents, CopiedOut, Complete, InterruptOwner
  <2> QED BY <2>1, <2>2, <2>3, <2>4, <2>5, <2>6 DEF MailboxInv
<1>4. ASSUME NEW s \in Strands, send_poke(s) PROVE MailboxInv'
  <2>1. NoMboxAbort'
    BY <1>4 DEF send_poke, MailboxInv, NoMboxAbort, InterruptOwner
  <2>2. BusyOwner'
    BY <1>4 DEF send_poke, MailboxInv, BusyOwner, PokeOwner, InterruptOwner
  <2>3. PokeOwner'
    BY <1>4 DEF send_poke, MailboxInv, BusyOwner, PokeOwner, InterruptOwner
  <2>4. InterruptOwner'
    BY <1>4 DEF send_poke, MailboxInv, BusyOwner, PokeOwner, InterruptOwner
  <2>5. Contents'
    BY <1>4 DEF send_poke, MailboxInv, Contents, CopiedIn, Complete, CopiedOut, BusyOwner, InterruptOwner, Word
  <2>6. IntactMondo'
    BY <1>4 DEF send_poke, MailboxInv, IntactMondo, Contents, CopiedOut, Complete, InterruptOwner
  <2> QED BY <2>1, <2>2, <2>3, <2>4, <2>5, <2>6 DEF MailboxInv
<1>5. ASSUME NEW s \in Strands, hvxcall_mondo(s) PROVE MailboxInv'
  <2>1. NoMboxAbort'
    BY <1>5 DEF hvxcall_mondo, MailboxInv, NoMboxAbort, InterruptOwner
  <2>2. BusyOwner'
    BY <1>5 DEF hvxcall_mondo, MailboxInv, BusyOwner, PokeOwner, InterruptOwner
  <2>3. PokeOwner'
    BY <1>5 DEF hvxcall_mondo, MailboxInv, BusyOwner, PokeOwner, InterruptOwner
  <2>4. InterruptOwner'
    BY <1>5 DEF hvxcall_mondo, MailboxInv, BusyOwner, PokeOwner, InterruptOwner
  <2>5. Contents'
    BY <1>5 DEF hvxcall_mondo, MailboxInv, Contents, CopiedIn, Complete, CopiedOut, BusyOwner, InterruptOwner, Word
  <2>6. IntactMondo'
    BY <1>5 DEF hvxcall_mondo, MailboxInv, IntactMondo, Contents, CopiedOut, Complete, InterruptOwner
  <2> QED BY <2>1, <2>2, <2>3, <2>4, <2>5, <2>6 DEF MailboxInv
<1>6. ASSUME NEW s \in Strands, hvmondo_wait(s) PROVE MailboxInv'
  <2>1. NoMboxAbort'
    BY <1>6 DEF hvmondo_wait, MailboxInv, NoMboxAbort, InterruptOwner
  <2>2. BusyOwner'
    BY <1>6 DEF hvmondo_wait, MailboxInv, BusyOwner, PokeOwner, InterruptOwner
  <2>3. PokeOwner'
    BY <1>6 DEF hvmondo_wait, MailboxInv, BusyOwner, PokeOwner, InterruptOwner
  <2>4. InterruptOwner'
    BY <1>6 DEF hvmondo_wait, MailboxInv, BusyOwner, PokeOwner, InterruptOwner
  <2>5. Contents'
    BY <1>6 DEF hvmondo_wait, MailboxInv, Contents, CopiedIn, Complete, CopiedOut, BusyOwner, InterruptOwner, Word
  <2>6. IntactMondo'
    BY <1>6 DEF hvmondo_wait, MailboxInv, IntactMondo, Contents, CopiedOut, Complete, InterruptOwner
  <2> QED BY <2>1, <2>2, <2>3, <2>4, <2>5, <2>6 DEF MailboxInv
<1>7. ASSUME NEW s \in Strands, recv_check(s) PROVE MailboxInv'
  <2>1. NoMboxAbort'
    BY <1>7 DEF recv_check, MailboxInv, NoMboxAbort, InterruptOwner
  <2>2. BusyOwner'
    BY <1>7 DEF recv_check, MailboxInv, BusyOwner, PokeOwner, InterruptOwner
  <2>3. PokeOwner'
    BY <1>7 DEF recv_check, MailboxInv, BusyOwner, PokeOwner, InterruptOwner
  <2>4. InterruptOwner'
    BY <1>7 DEF recv_check, MailboxInv, BusyOwner, PokeOwner, InterruptOwner
  <2>5. Contents'
    BY <1>7 DEF recv_check, MailboxInv, Contents, CopiedIn, Complete, CopiedOut, BusyOwner, InterruptOwner, Word
  <2>6. IntactMondo'
    BY <1>7 DEF recv_check, MailboxInv, IntactMondo, Contents, CopiedOut, Complete, InterruptOwner
  <2> QED BY <2>1, <2>2, <2>3, <2>4, <2>5, <2>6 DEF MailboxInv
<1>8. ASSUME NEW s \in Strands, recv_copy(s) PROVE MailboxInv'
  <2>1. NoMboxAbort'
    BY <1>8 DEF recv_copy, MailboxInv, NoMboxAbort, InterruptOwner
  <2>2. BusyOwner'
    BY <1>8 DEF recv_copy, MailboxInv, BusyOwner, PokeOwner, InterruptOwner
  <2>3. PokeOwner'
    BY <1>8 DEF recv_copy, MailboxInv, BusyOwner, PokeOwner, InterruptOwner
  <2>4. InterruptOwner'
    BY <1>8 DEF recv_copy, MailboxInv, BusyOwner, PokeOwner, InterruptOwner
  <2>5. Contents'
    <3> SUFFICES ASSUME NEW r \in Strands PROVE (CopiedIn(r) /\ Complete(r) /\ CopiedOut(r))'
      BY DEF Contents
    <3>0. CopiedIn(r) /\ Complete(r) /\ CopiedOut(r) /\ CopiedIn(s) /\ CopiedOut(s)
      BY DEF MailboxInv, Contents
    <3>1. CopiedIn(r)'
      BY <1>8, <3>0 DEF recv_copy, MailboxInv, BusyOwner, CopiedIn, Word
    <3>2. Complete(r)'
      BY <1>8, <3>0 DEF recv_copy, MailboxInv, BusyOwner, CopiedIn, Complete, Word
    <3>3. CopiedOut(r)'
      <4>1. CASE r # s
        BY <1>8, <3>0, <4>1 DEF recv_copy, CopiedOut
      <4>2. CASE r = s
        <5>1. \A w \in Word : w < wd[s] => rx'[s][w] = mondobuf[s][w]
          BY <1>8, <3>0, <4>2 DEF recv_copy, CopiedOut, Word
        <5>2. rx'[s][wd[s]] = mondobuf[s][wd[s]]
          BY <1>8 DEF recv_copy
        <5> QED BY <1>8, <4>2, <5>1, <5>2 DEF recv_copy, CopiedOut, Word
      <4> QED BY <4>1, <4>2
    <3> QED BY <3>1, <3>2, <3>3
  <2>6. IntactMondo'
    BY <1>8 DEF recv_copy, MailboxInv, IntactMondo, Contents, CopiedOut, Complete, InterruptOwner
  <2> QED BY <2>1, <2>2, <2>3, <2>4, <2>5, <2>6 DEF MailboxInv
<1>9. ASSUME NEW s \in Strands, recv_release(s) PROVE MailboxInv'
  <2>1. NoMboxAbort'
    BY <1>9 DEF recv_release, MailboxInv, NoMboxAbort, InterruptOwner
  <2>2. BusyOwner'
    BY <1>9 DEF recv_release, MailboxInv, BusyOwner, PokeOwner, InterruptOwner
  <2>3. PokeOwner'
    BY <1>9 DEF recv_release, MailboxInv, BusyOwner, PokeOwner, InterruptOwner
  <2>4. InterruptOwner'
    BY <1>9 DEF recv_release, MailboxInv, BusyOwner, PokeOwner, InterruptOwner
  <2>5. Contents'
    BY <1>9 DEF recv_release, MailboxInv, Contents, CopiedIn, Complete, CopiedOut, BusyOwner, InterruptOwner, Word
  <2>6. IntactMondo'
    BY <1>9 DEF recv_release, MailboxInv, IntactMondo, Contents, CopiedOut, Complete, InterruptOwner
  <2> QED BY <2>1, <2>2, <2>3, <2>4, <2>5, <2>6 DEF MailboxInv
<1>10. ASSUME NEW s \in Strands, handle_hvmondo(s) PROVE MailboxInv'
  <2>1. NoMboxAbort'
    BY <1>10 DEF handle_hvmondo, MailboxInv, NoMboxAbort, InterruptOwner
  <2>2. BusyOwner'
    BY <1>10 DEF handle_hvmondo, MailboxInv, BusyOwner, PokeOwner, InterruptOwner
  <2>3. PokeOwner'
    BY <1>10 DEF handle_hvmondo, MailboxInv, BusyOwner, PokeOwner, InterruptOwner
  <2>4. InterruptOwner'
    BY <1>10 DEF handle_hvmondo, MailboxInv, BusyOwner, PokeOwner, InterruptOwner
  <2>5. Contents'
    BY <1>10 DEF handle_hvmondo, MailboxInv, Contents, CopiedIn, Complete, CopiedOut, BusyOwner, InterruptOwner, Word
  <2>6. IntactMondo'
    BY <1>10 DEF handle_hvmondo, MailboxInv, IntactMondo, Contents, CopiedOut, Complete, InterruptOwner
  <2> QED BY <2>1, <2>2, <2>3, <2>4, <2>5, <2>6 DEF MailboxInv
<1>11. ASSUME NEW s \in Strands, start_work(s) PROVE MailboxInv'
  <2>1. NoMboxAbort'
    BY <1>11 DEF start_work, MailboxInv, NoMboxAbort, InterruptOwner
  <2>2. BusyOwner'
    BY <1>11 DEF start_work, MailboxInv, BusyOwner, PokeOwner, InterruptOwner
  <2>3. PokeOwner'
    BY <1>11 DEF start_work, MailboxInv, BusyOwner, PokeOwner, InterruptOwner
  <2>4. InterruptOwner'
    BY <1>11 DEF start_work, MailboxInv, BusyOwner, PokeOwner, InterruptOwner
  <2>5. Contents'
    BY <1>11 DEF start_work, MailboxInv, Contents, CopiedIn, Complete, CopiedOut, BusyOwner, InterruptOwner, Word
  <2>6. IntactMondo'
    BY <1>11 DEF start_work, MailboxInv, IntactMondo, Contents, CopiedOut, Complete, InterruptOwner
  <2> QED BY <2>1, <2>2, <2>3, <2>4, <2>5, <2>6 DEF MailboxInv
<1> QED BY <1>u, <1>s, <1>1, <1>2, <1>3, <1>4, <1>5, <1>6, <1>7, <1>8, <1>9, <1>10, <1>11 DEF Next, Send, Receive

(* The cross-call invariant: an HVXCALL interrupt always finds a complete  *)
(* mondo in a mailbox that nobody else is writing.                         *)
THEOREM MailboxCorrect == Spec => []MailboxInv
<1>1. Init => MailboxInv
  BY DEF Init, MailboxInv, NoMboxAbort, BusyOwner, PokeOwner, InterruptOwner, Contents, CopiedIn, Complete, CopiedOut, IntactMondo,
         Sending, Receiving
<1>2. TypeOK /\ MailboxInv /\ [Next]_vars => MailboxInv'
  BY MailboxStep
<1> QED BY <1>1, <1>2, TypeCorrect, PTL DEF Spec

(* hvmondo_recv never reaches its HVABORT "mbox idle or non-mondo command",*)
(* for any number of strands and senders.                                  *)
THEOREM RecvNeverAborts == Spec => []NoMboxAbort
<1>1. MailboxInv => NoMboxAbort
  BY DEF MailboxInv
<1> QED BY <1>1, MailboxCorrect, PTL

(* The mondo handle_hvmondo dispatches on is always one mondo that some    *)
(* strand sent, whatever the length of a mondo.                            *)
THEOREM MondoNeverTorn == Spec => []IntactMondo
<1>1. MailboxInv => IntactMondo
  BY DEF MailboxInv
<1> QED BY <1>1, MailboxCorrect, PTL

(* Between the casxa and the NEWMONDO store of hvmondo_send nobody else    *)
(* writes the mailbox and its owner does not read it.                      *)
THEOREM SingleWriter == Spec => []MailboxOwned
<1>1. TypeOK /\ MailboxInv => MailboxOwned
  BY DEF TypeOK, MailboxInv, BusyOwner, InterruptOwner, MailboxOwned, Receiving
<1> QED BY <1>1, TypeCorrect, MailboxCorrect, PTL

(* The words of a mondo that is complete are that mondo.                   *)
LEMMA BoxIsMondo ==
  ASSUME TypeOK, MailboxInv, NEW t \in Strands
  PROVE  /\ command[t] = "HXMB_NEWMONDO" => Box(t) = mondobuf[t][1] /\ Box(t) \in Mondos
         /\ command[t] # "HXMB_NEWMONDO" => Box(t) = NoMondo
<1>1. 1 \in Word
  BY HvMondoAssumption DEF Word
<1> QED BY <1>1 DEF MailboxInv, Contents, Complete, Box

LEMMA NoMondoIsNoMondo == NoMondo \notin Mondos
  BY DEF NoMondo, Mondos

(* The actions that store neither NEWMONDO nor IDLE in a command word.     *)
QuietAct(s) == \/ send_cas(s) \/ send_copy(s) \/ send_poke(s)
               \/ hvxcall_mondo(s) \/ hvmondo_wait(s) \/ recv_check(s)
               \/ recv_copy(s) \/ handle_hvmondo(s) \/ start_work(s)

(* Every action leaves the abstract mailbox alone, except the NEWMONDO     *)
(* store of hvmondo_send and the release of hvmondo_recv.                  *)
LEMMA QuietStep ==
  ASSUME TypeOK, MailboxInv, NEW s \in Strands,
         \/ \E t \in Strands : hvmondo_send(s, t)
         \/ QuietAct(s)
  PROVE  /\ delivered' = delivered
         /\ \A t \in Strands : Box(t)' = Box(t)
<1> USE DEF TypeOK, Box
<1>0. 1 \in Word
  BY HvMondoAssumption DEF Word
<1>s. CASE \E t \in Strands : hvmondo_send(s, t)
  BY <1>s DEF hvmondo_send
<1>1. CASE send_cas(s)
  BY <1>1 DEF send_cas, Command
<1>2. CASE send_copy(s)
  <2>1. command[tgt[s]] = "HXMB_BUSY"
    BY <1>2 DEF send_copy, MailboxInv, BusyOwner
  <2>2. \A t \in Strands : t # tgt[s] => mondobuf'[t] = mondobuf[t]
    BY <1>2 DEF send_copy
  <2> QED BY <1>2, <2>1, <2>2 DEF send_copy
<1>3. CASE send_poke(s)
  BY <1>3 DEF send_poke
<1>4. CASE hvxcall_mondo(s)
  BY <1>4 DEF hvxcall_mondo
<1>5. CASE hvmondo_wait(s)
  BY <1>5 DEF hvmondo_wait
<1>6. CASE recv_check(s)
  BY <1>6 DEF recv_check
<1>7. CASE recv_copy(s)
  BY <1>7 DEF recv_copy
<1>8. CASE handle_hvmondo(s)
  BY <1>8 DEF handle_hvmondo
<1>9. CASE start_work(s)
  BY <1>9 DEF start_work
<1> QED BY <1>s, <1>1, <1>2, <1>3, <1>4, <1>5, <1>6, <1>7, <1>8, <1>9 DEF QuietAct

(* The NEWMONDO store puts the sender's mondo in an empty box.             *)
LEMMA SignalStep ==
  ASSUME TypeOK, MailboxInv, NEW s \in Strands, send_signal(s)
  PROVE  /\ delivered' = delivered
         /\ Box(tgt[s]) = NoMondo /\ tx[s] \in Mondos /\ tgt[s] \in Strands
         /\ \A t \in Strands : Box(t)' = IF t = tgt[s] THEN tx[s] ELSE Box(t)
<1>0. 1 \in Word
  BY HvMondoAssumption DEF Word
<1>1. command[tgt[s]] = "HXMB_BUSY"
  BY DEF send_signal, MailboxInv, BusyOwner
<1>2. mondobuf[tgt[s]][1] = tx[s] /\ tx[s] \in Mondos
  BY <1>0 DEF send_signal, MailboxInv, Contents, CopiedIn, Sending
<1> QED BY <1>1, <1>2 DEF send_signal, TypeOK, Box

(* The release takes the mondo that was in the box.                        *)
LEMMA ReleaseStep ==
  ASSUME TypeOK, MailboxInv, NEW s \in Strands, recv_release(s)
  PROVE  /\ delivered' = [delivered EXCEPT ![s] = Append(@, Box(s))]
         /\ Box(s) \in Mondos /\ Box(s)' = NoMondo
         /\ \A t \in Strands \ {s} : Box(t)' = Box(t)
<1>0. 1 \in Word
  BY HvMondoAssumption DEF Word
<1>1. command[s] = "HXMB_NEWMONDO"
  BY DEF recv_release, MailboxInv, InterruptOwner, Receiving
<1>2. rx[s][1] = Box(s) /\ Box(s) \in Mondos
  BY <1>0, <1>1, BoxIsMondo DEF recv_release, MailboxInv, Contents, CopiedOut
<1> QED BY <1>1, <1>2 DEF recv_release, TypeOK, Box

(* The sequence numbers of the mondos keep them apart.                     *)
LEMMA FreshStep ==
  ASSUME TypeOK, MailboxInv, Fresh, [Next]_vars
  PROVE  Fresh'
<1> USE HvMondoAssumption
<1> DEFINE Quiet == delivered' = delivered /\ \A t \in Strands : Box(t)' = Box(t)
<1>q. ASSUME Quiet, NEW m PROVE Mailbox!Used(m)' <=> Mailbox!Used(m)
  BY <1>q DEF Mailbox!Used
<1>u. CASE UNCHANGED vars
  <2>1. Quiet
    BY <1>u DEF vars, Box
  <2> QED BY <1>u, <1>q, <2>1 DEF Fresh, vars
<1>s. ASSUME NEW s \in Strands, NEW t \in Strands, hvmondo_send(s, t) PROVE Fresh'
  <2>1. Quiet
    BY <1>s, QuietStep
  <2> HIDE DEF Quiet
  <2> QED BY <1>s, <1>q, <2>1 DEF Fresh, hvmondo_send, TypeOK, Sending
<1>1. ASSUME NEW s \in Strands, QuietAct(s) PROVE Fresh'
  <2>1. Quiet
    BY <1>1, QuietStep
  <2>2. /\ sent' = sent /\ tx' = tx
        /\ \A r \in Strands : pc'[r] \in Sending => pc[r] \in Sending
        /\ \A r \in Strands : pc'[r] \in {"cas", "copy", "signal"} => pc[r] \in {"cas", "copy", "signal"}
    BY <1>1 DEF TypeOK, Sending, QuietAct, send_cas, send_copy, send_poke, hvxcall_mondo, hvmondo_wait, recv_check, recv_copy, handle_hvmondo, start_work
  <2> HIDE DEF Quiet
  <2> QED BY <1>q, <2>1, <2>2 DEF Fresh
<1>2. ASSUME NEW s \in Strands, send_signal(s) PROVE Fresh'
  <2>1. \A m : Mailbox!Used(m)' => Mailbox!Used(m) \/ m = tx[s]
    BY <1>2, SignalStep DEF Mailbox!Used, TypeOK
  <2>2. tx[s] = <<s, sent[s]>>
    BY <1>2 DEF send_signal, Fresh, Sending
  <2>3. /\ sent' = sent /\ tx' = tx /\ pc'[s] = "poke"
        /\ \A r \in Strands \ {s} : pc'[r] = pc[r]
    BY <1>2 DEF send_signal, TypeOK
  <2>4. \A r \in Strands : pc'[r] \in Sending => tx'[r] = <<r, sent'[r]>>
    BY <1>2, <2>2, <2>3 DEF Fresh
  <2>5. ASSUME NEW r \in Strands, NEW k \in 1 .. MaxSends, Mailbox!Used(<<r, k>>)'
        PROVE  k <= sent'[r] /\ (pc'[r] \in {"cas", "copy", "signal"} => k < sent'[r])
    <3>1. CASE Mailbox!Used(<<r, k>>)
      BY <2>3, <3>1, <1>2 DEF Fresh, send_signal
    <3>2. CASE <<r, k>> = tx[s]
      <4>1. r = s /\ k = sent[s]
        BY <2>2, <3>2
      <4> QED BY <2>3, <4>1 DEF TypeOK
    <3> QED BY <2>1, <2>5, <3>1, <3>2
  <2> QED BY <2>4, <2>5 DEF Fresh
<1>3. ASSUME NEW s \in Strands, recv_release(s) PROVE Fresh'
  <2>1. \A m \in Mondos : Mailbox!Used(m)' => Mailbox!Used(m)
    <3> SUFFICES ASSUME NEW m \in Mondos, NEW t \in Strands,
                        \/ Box(t)' = m
                        \/ \E i \in DOMAIN delivered'[t] : delivered'[t][i] = m
                 PROVE  Mailbox!Used(m)
      BY DEF Mailbox!Used
    <3>1. CASE t # s
      BY <1>3, <3>1, ReleaseStep DEF Mailbox!Used, TypeOK
    <3>2. CASE t = s /\ Box(t)' = m
      BY <1>3, <3>2, ReleaseStep, NoMondoIsNoMondo
    <3>3. CASE t = s /\ \E i \in DOMAIN delivered'[t] : delivered'[t][i] = m
      <4>1. PICK i \in DOMAIN delivered'[s] : delivered'[s][i] = m
        BY <3>3
      <4>2. delivered'[s] = Append(delivered[s], Box(s)) /\ delivered[s] \in Seq(Mondos \cup {NoMondo})
        BY <1>3, ReleaseStep DEF TypeOK
      <4>3. m = Box(s) \/ (i \in DOMAIN delivered[s] /\ delivered[s][i] = m)
        BY <4>1, <4>2
      <4> QED BY <4>3 DEF Mailbox!Used
    <3> QED BY <3>1, <3>2, <3>3
  <2>2. /\ sent' = sent /\ tx' = tx
        /\ \A r \in Strands : pc'[r] \in Sending => pc[r] \in Sending
        /\ \A r \in Strands : pc'[r] \in {"cas", "copy", "signal"} => pc[r] \in {"cas", "copy", "signal"}
    BY <1>3 DEF recv_release, TypeOK, Sending
  <2>3. \A r \in Strands, k \in 1 .. MaxSends : <<r, k>> \in Mondos
    BY DEF Mondos
  <2> QED BY <2>1, <2>2, <2>3 DEF Fresh
<1> QED BY <1>u, <1>s, <1>1, <1>2, <1>3 DEF Next, Send, Receive, QuietAct

LEMMA FreshAlways == Spec => []Fresh
<1>1. Init => Fresh
  <2> SUFFICES ASSUME Init PROVE Fresh
    OBVIOUS
  <2>1. \A t \in Strands : Box(t) = NoMondo /\ delivered[t] = <<>>
    BY DEF Init, Box
  <2>2. \A m \in Mondos : ~Mailbox!Used(m)
    BY <2>1, NoMondoIsNoMondo DEF Mailbox!Used
  <2> QED BY <2>2 DEF Init, Fresh, Mondos, Sending
<1>2. TypeOK /\ MailboxInv /\ Fresh /\ [Next]_vars => Fresh'
  BY FreshStep
<1> QED BY <1>1, <1>2, TypeCorrect, MailboxCorrect, PTL DEF Spec

(* The word-by-word protocol of chipsubr.s implements the one-place        *)
(* mailbox: each mondo is put whole in an empty box and taken once.        *)
THEOREM MailboxRefined == Spec => ImplementsMailbox
<1>1. Init => Mailbox!Init
  BY DEF Init, Mailbox!Init, Box
<1>2. TypeOK /\ MailboxInv /\ Fresh /\ [Next]_vars => [Mailbox!Next]_(Mailbox!xvars)
  <2> SUFFICES ASSUME TypeOK, MailboxInv, Fresh, [Next]_vars
               PROVE  [Mailbox!Next]_(Mailbox!xvars)
    OBVIOUS
  <2> DEFINE Quiet == delivered' = delivered /\ \A t \in Strands : Box(t)' = Box(t)
  <2>q. ASSUME Quiet PROVE UNCHANGED Mailbox!xvars
    BY <2>q DEF Mailbox!xvars
  <2>u. CASE UNCHANGED vars
    BY <2>u, <2>q DEF vars, Box
  <2>1. ASSUME NEW s \in Strands, (\E t \in Strands : hvmondo_send(s, t)) \/ QuietAct(s) PROVE Quiet
    BY <2>1, QuietStep
  <2>2. ASSUME NEW s \in Strands, send_signal(s) PROVE Mailbox!Next
    <3>1. tgt[s] \in Strands /\ tx[s] \in Mondos
      BY <2>2, SignalStep DEF TypeOK
    <3>2. ~Mailbox!Used(tx[s])
      <4>1. tx[s] = <<s, sent[s]>> /\ pc[s] = "signal"
        BY <2>2 DEF send_signal, Fresh, Sending
      <4>2. sent[s] \in 1 .. MaxSends
        BY <3>1, <4>1 DEF Mondos
      <4> QED BY <4>1, <4>2 DEF Fresh
    <3>3. Mailbox!Put(tgt[s], tx[s])
      BY <2>2, <3>1, <3>2, SignalStep DEF Mailbox!Put
    <3> QED BY <3>1, <3>3 DEF Mailbox!Next
  <2>3. ASSUME NEW s \in Strands, recv_release(s) PROVE Mailbox!Next
    <3>1. Mailbox!Take(s)
      BY <2>3, ReleaseStep, NoMondoIsNoMondo DEF Mailbox!Take
    <3> QED BY <3>1 DEF Mailbox!Next
  <2> QED BY <2>q, <2>u, <2>1, <2>2, <2>3 DEF Next, Send, Receive, QuietAct
<1> QED BY <1>1, <1>2, TypeCorrect, MailboxCorrect, FreshAlways, PTL DEF Spec, ImplementsMailbox, Mailbox!Spec
=============================================================================
