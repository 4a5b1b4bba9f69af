------------------------------ MODULE CpuMondo ------------------------------
(***************************************************************************)
(* Cpu mondos, the cross-calls of a guest: hcall_cpu_mondo_send            *)
(* (hcall_core.s), which walks a list of target vcpus and puts the mondo   *)
(* into each one's mailbox, and cpu_mondo (intr.s), which moves it from    *)
(* the mailbox to the target's cpu queue when the XCALL vector arrives.    *)
(*                                                                         *)
(* A sender never waits: a target whose mailbox is taken costs it          *)
(* EWOULDBLOCK, and the guest calls again with the same list, in which     *)
(* the targets served are marked ENTRYDONE.  Only the target itself can    *)
(* see whether its queue is full, so a mondo that does not fit stays in    *)
(* the mailbox until a sender pokes the target again.  Stopping a vcpu     *)
(* unconfigures its queue (stop_vcpu), starting one frees its mailbox      *)
(* (reset_vcpu_state).                                                     *)
(***************************************************************************)
EXTENDS Integers, Sequences, Functions

CONSTANTS Cpus,          \* the vcpus of the guest, one per strand
          NWORDS,        \* words of a mondo (8)
          QSIZE,         \* entries of a cpu queue, one of which stays free
          CpuLists,      \* CpuLists[c]: the lists of targets c sends to
          MaxMondos,     \* bound: MaxMondos[c] mondos are sent by c
          MayStop,       \* the vcpus that are stopped and started again
          MayFail,       \* the vcpus that may end in CPU_STATE_ERROR
          QuietStart     \* a vcpu is started only while none is sending to it

ASSUME CpuMondoAssumption ==
  /\ NWORDS \in Nat \ {0} /\ QSIZE \in Nat \ {0, 1} /\ MaxMondos \in [Cpus -> Nat]
  /\ CpuLists \in [Cpus -> SUBSET Seq(Cpus)]
  /\ MayStop \subseteq Cpus /\ MayFail \subseteq Cpus
  /\ QuietStart \in BOOLEAN

Word == 1 .. NWORDS
Slot == 0 .. QSIZE - 1
Targets == UNION {Range(l) : l \in UNION Range(CpuLists)}
Mondos == UNION {{c} \X (1 .. MaxMondos[c]) : c \in Cpus}    \* sender, its count
NoMondo == <<>>                           \* a word never written
DONE == "CPULIST_ENTRYDONE"

VARIABLES
  command,   \* command[t]: CPU_COMMAND of t's mailbox
  args,      \* args[t][w]: CPU_CMD_ARG0..7
  xcall,     \* xcall[t]: a VECINTR_XCALL is pending on t's strand
  error,     \* error[t]: t is in CPU_STATE_ERROR
  qconf,     \* qconf[t]: t's cpu queue is configured
  head, tail,  \* t's CPU_MONDO_QUEUE registers
  queue,     \* queue[t][i][w]: the entries of t's cpu queue
  pc,        \* pc[c]: what c is doing
  list,      \* list[c]: the cpulist of c's call, <<>> if it has none to make
  idx,       \* idx[c]: the entry it is at
  block,     \* block[c]: the EWOULDBLOCK flag of the call
  wd,        \* wd[c]: the next word c copies
  sent,      \* sent[c]: mondos c has begun to send
  queued,    \* history: the mondos put into t's queue, oldest first
  unread,    \* history: those of them the guest has yet to read
  dropped    \* history: the mondos lost from t's mailbox when t was started

box == <<command, args>>
cpuq == <<qconf, head, tail, queue>>
history == <<queued, unread, dropped>>
call == <<list, idx, block, wd>>
vars == <<box, xcall, error, cpuq, pc, call, sent, history>>

Commands == {"READY", "BUSY", "GUESTMONDO_READY"}
Senders == {c \in Cpus : CpuLists[c] # {}}
InGuest == {"guest", "retry"}
PC == InGuest \cup {"next", "copy", "signal", "poke", "recv", "fill", "clear", "stopped", "dead"}

Empty == [w \in Word |-> NoMondo]

Init ==
  /\ command = [c \in Cpus |-> "READY"]
  /\ args = [c \in Cpus |-> Empty]
  /\ xcall = [c \in Cpus |-> FALSE]
  /\ error = [c \in Cpus |-> FALSE]
  /\ qconf = [c \in Cpus |-> FALSE]
  /\ head = [c \in Cpus |-> 0] /\ tail = [c \in Cpus |-> 0]
  /\ queue = [c \in Cpus |-> [i \in Slot |-> Empty]]
  /\ pc = [c \in Cpus |-> "guest"]
  /\ list = [c \in Cpus |-> <<>>] /\ idx = [c \in Cpus |-> 1]
  /\ block = [c \in Cpus |-> FALSE] /\ wd = [c \in Cpus |-> 1]
  /\ sent = [c \in Cpus |-> 0]
  /\ queued = [c \in Cpus |-> <<>>]
  /\ unread = [c \in Cpus |-> <<>>]
  /\ dropped = [c \in Cpus |-> {}]

Goto(c, l) == pc' = [pc EXCEPT ![c] = l]

(* The mondo c is sending and the vcpu it has got to.                      *)
Mondo(c) == <<c, sent[c]>>
Target(c) == list[c][idx[c]]

-----------------------------------------------------------------------------
(* hcall_cpu_mondo_send                                                    *)

(* A new mondo for the vcpus of a list.                                    *)
hcall_cpu_mondo_send(c, l) ==
  /\ pc[c] = "guest"
  /\ sent[c] < MaxMondos[c]
  /\ sent' = [sent EXCEPT ![c] = @ + 1]
  /\ list' = [list EXCEPT ![c] = l]
  /\ Goto(c, "next")
  /\ UNCHANGED <<box, xcall, error, cpuq, idx, block, wd, history>>

(* After EWOULDBLOCK the guest makes the call again.                       *)
retry(c) ==
  /\ pc[c] = "retry"
  /\ Goto(c, "next")
  /\ UNCHANGED <<box, xcall, error, cpuq, call, sent, history>>

(* Leave the call: again later if it would block, else the list is gone.   *)
Return(c, again) ==
  /\ list' = [list EXCEPT ![c] = IF again THEN @ ELSE <<>>]
  /\ idx' = [idx EXCEPT ![c] = 1]
  /\ block' = [block EXCEPT ![c] = FALSE]
  /\ Goto(c, IF again THEN "retry" ELSE "guest")

AtEntry(c) == pc[c] = "next" /\ idx[c] \in DOMAIN list[c]

Advance(c) == idx' = [idx EXCEPT ![c] = @ + 1]

cpu_mondo_break(c) ==
  /\ pc[c] = "next" /\ idx[c] \notin DOMAIN list[c]
  /\ Return(c, block[c])
  /\ UNCHANGED <<box, xcall, error, cpuq, wd, sent, history>>

entry_done(c) ==
  /\ AtEntry(c) /\ Target(c) = DONE
  /\ Advance(c)
  /\ UNCHANGED <<box, xcall, error, cpuq, pc, list, block, wd, sent, history>>

(* EINVAL for itself, ECPUERROR for a vcpu in error: the call ends here,   *)
(* whatever is left on the list.                                           *)
entry_refused(c) ==
  /\ AtEntry(c) /\ Target(c) # DONE
  /\ Target(c) = c \/ error[Target(c)]
  /\ Return(c, FALSE)
  /\ UNCHANGED <<box, xcall, error, cpuq, wd, sent, history>>

Eligible(c) == AtEntry(c) /\ Target(c) \notin {DONE, c} /\ ~error[Target(c)]

(* The casxa that claims the mailbox.                                      *)
mailbox_cas(c) ==
  /\ Eligible(c)
  /\ command[Target(c)] = "READY"
  /\ command' = [command EXCEPT ![Target(c)] = "BUSY"]
  /\ Goto(c, "copy")
  /\ UNCHANGED <<args, xcall, error, cpuq, call, sent, history>>

(* It is taken: this entry would block.                                    *)
mailbox_taken(c) ==
  /\ Eligible(c)
  /\ command[Target(c)] # "READY"
  /\ block' = [block EXCEPT ![c] = TRUE]
  /\ Advance(c)
  /\ UNCHANGED <<box, xcall, error, cpuq, pc, list, wd, sent, history>>

(* Mutant: the sender relies on the poke of whoever filled the mailbox.    *)
mailbox_poke_none(c) ==
  /\ Eligible(c)
  /\ command[Target(c)] = "GUESTMONDO_READY"
  /\ block' = [block EXCEPT ![c] = TRUE]
  /\ Advance(c)
  /\ UNCHANGED <<box, xcall, error, cpuq, pc, list, wd, sent, history>>

(* It holds a mondo and CPU_POKEDELAY has passed: poke the target as well. *)
mailbox_poke(c) ==
  /\ Eligible(c)
  /\ command[Target(c)] = "GUESTMONDO_READY"
  /\ block' = [block EXCEPT ![c] = TRUE]
  /\ xcall' = [xcall EXCEPT ![Target(c)] = TRUE]
  /\ Advance(c)
  /\ UNCHANGED <<box, error, cpuq, pc, list, wd, sent, history>>

send_copy(c) ==
  /\ pc[c] = "copy"
  /\ args' = [args EXCEPT ![Target(c)] = [@ EXCEPT ![wd[c]] = Mondo(c)]]
  /\ wd' = [wd EXCEPT ![c] = IF @ = NWORDS THEN 1 ELSE @ + 1]
  /\ Goto(c, IF wd[c] = NWORDS THEN "signal" ELSE "copy")
  /\ UNCHANGED <<command, xcall, error, cpuq, list, idx, block, sent, history>>

send_signal(c) ==
  /\ pc[c] = "signal"
  /\ command' = [command EXCEPT ![Target(c)] = "GUESTMONDO_READY"]
  /\ Goto(c, "poke")
  /\ UNCHANGED <<args, xcall, error, cpuq, call, sent, history>>

(* Mutant: the entry is not marked ENTRYDONE.                              *)
send_poke_unmarked(c) ==
  /\ pc[c] = "poke"
  /\ xcall' = [xcall EXCEPT ![Target(c)] = TRUE]
  /\ Advance(c)
  /\ Goto(c, "next")
  /\ UNCHANGED <<box, error, cpuq, list, block, wd, sent, history>>

send_poke(c) ==
  /\ pc[c] = "poke"
  /\ xcall' = [xcall EXCEPT ![Target(c)] = TRUE]
  /\ list' = [list EXCEPT ![c] = [@ EXCEPT ![idx[c]] = DONE]]
  /\ Advance(c)
  /\ Goto(c, "next")
  /\ UNCHANGED <<box, error, cpuq, block, wd, sent, history>>

-----------------------------------------------------------------------------
(* The target                                                              *)

Resume(t) == Goto(t, IF list[t] = <<>> THEN "guest" ELSE "retry")

Full(t) == (tail[t] + 1) % QSIZE = head[t]

(* vecintr leads to cpu_mondo.                                             *)
cpu_mondo(t) ==
  /\ pc[t] \in InGuest
  /\ xcall[t]
  /\ xcall' = [xcall EXCEPT ![t] = FALSE]
  /\ Goto(t, "recv")
  /\ UNCHANGED <<box, error, cpuq, call, sent, history>>

(* Mutant: the full check is missing.                                      *)
mondo_check_nofull(t) ==
  /\ pc[t] = "recv"
  /\ command[t] # "BUSY"
  /\ IF command[t] = "GUESTMONDO_READY" /\ qconf[t]
     THEN Goto(t, "fill") ELSE Resume(t)
  /\ UNCHANGED <<box, xcall, error, cpuq, call, sent, history>>

(* Mutant: a mondo that cannot be queued is dropped.                       *)
mondo_check_drop(t) ==
  /\ pc[t] = "recv"
  /\ command[t] # "BUSY"
  /\ IF command[t] = "GUESTMONDO_READY" /\ qconf[t] /\ ~Full(t)
     THEN Goto(t, "fill") /\ UNCHANGED command
     ELSE Resume(t) /\ command' = [command EXCEPT ![t] = "READY"]
  /\ UNCHANGED <<args, xcall, error, cpuq, call, sent, history>>

(* Waits while BUSY; nothing to do, no room or no queue: the mailbox stays *)
(* as it is.                                                               *)
mondo_check(t) ==
  /\ pc[t] = "recv"
  /\ command[t] # "BUSY"
  /\ IF command[t] = "GUESTMONDO_READY" /\ qconf[t] /\ ~Full(t)
     THEN Goto(t, "fill") ELSE Resume(t)
  /\ UNCHANGED <<box, xcall, error, cpuq, call, sent, history>>

(* Mutant: the new tail is not masked.                                     *)
mondo_fill_nomask(t) ==
  /\ pc[t] = "fill"
  /\ queue' = [queue EXCEPT ![t] = [@ EXCEPT ![tail[t]] = args[t]]]
  /\ tail' = [tail EXCEPT ![t] = @ + 1]
  /\ queued' = [queued EXCEPT ![t] = Append(@, args[t][1])]
  /\ unread' = [unread EXCEPT ![t] = Append(@, args[t][1])]
  /\ Goto(t, "clear")
  /\ UNCHANGED <<box, xcall, error, qconf, head, call, sent, dropped>>

mondo_fill(t) ==
  /\ pc[t] = "fill"
  /\ queue' = [queue EXCEPT ![t] = [@ EXCEPT ![tail[t]] = args[t]]]
  /\ tail' = [tail EXCEPT ![t] = (@ + 1) % QSIZE]
  /\ queued' = [queued EXCEPT ![t] = Append(@, args[t][1])]
  /\ unread' = [unread EXCEPT ![t] = Append(@, args[t][1])]
  /\ Goto(t, "clear")
  /\ UNCHANGED <<box, xcall, error, qconf, head, call, sent, dropped>>

mondo_clear(t) ==
  /\ pc[t] = "clear"
  /\ command' = [command EXCEPT ![t] = "READY"]
  /\ Resume(t)
  /\ UNCHANGED <<args, xcall, error, cpuq, call, sent, history>>

(* The guest reads an entry and moves the head of its queue.               *)
guest_dequeue(t) ==
  /\ pc[t] \in InGuest
  /\ head[t] # tail[t]
  /\ head' = [head EXCEPT ![t] = (@ + 1) % QSIZE]
  /\ unread' = [unread EXCEPT ![t] = Tail(@)]
  /\ UNCHANGED <<box, xcall, error, qconf, tail, queue, pc, call, sent, queued, dropped>>

(* cpu_qconf of the vcpu's own cpu queue, or of no queue at all; left out  *)
(* for a vcpu that nobody sends to.                                        *)
hcall_cpu_qconf(t, b) ==
  /\ t \in Targets
  /\ pc[t] \in InGuest
  /\ qconf[t] # b
  /\ qconf' = [qconf EXCEPT ![t] = b]
  /\ head' = [head EXCEPT ![t] = 0] /\ tail' = [tail EXCEPT ![t] = 0]
  /\ unread' = [unread EXCEPT ![t] = <<>>]
  /\ UNCHANGED <<box, xcall, error, queue, pc, call, sent, queued, dropped>>

-----------------------------------------------------------------------------
(* Stopping, starting and failing vcpus                                    *)

stop_vcpu(t) ==
  /\ t \in MayStop
  /\ pc[t] \in InGuest
  /\ list' = [list EXCEPT ![t] = <<>>]        \* the guest code is gone
  /\ qconf' = [qconf EXCEPT ![t] = FALSE]
  /\ head' = [head EXCEPT ![t] = 0] /\ tail' = [tail EXCEPT ![t] = 0]
  /\ Goto(t, "stopped")
  /\ unread' = [unread EXCEPT ![t] = <<>>]
  /\ UNCHANGED <<box, xcall, error, queue, idx, block, wd, sent, queued, dropped>>

(* A strand in hvmondo_wait reads, and drops, vectors that are not HVXCALL. *)
hvmondo_wait(t) ==
  /\ pc[t] = "stopped"
  /\ xcall[t]
  /\ xcall' = [xcall EXCEPT ![t] = FALSE]
  /\ UNCHANGED <<box, error, cpuq, pc, call, sent, history>>

WritesTo(c, t) == pc[c] \in {"copy", "signal"} /\ Target(c) = t

(* reset_vcpu_state: "clear out the vcpu mailbox".                         *)
start_vcpu(t) ==
  /\ pc[t] = "stopped"
  /\ QuietStart => \A c \in Cpus : ~WritesTo(c, t)
  /\ command' = [command EXCEPT ![t] = "READY"]
  /\ dropped' = [dropped EXCEPT ![t] = IF command[t] = "GUESTMONDO_READY"
                                       THEN @ \cup {args[t][1]} ELSE @]
  /\ Goto(t, "guest")
  /\ UNCHANGED <<args, xcall, error, cpuq, call, sent, queued, unread>>

strand_in_error(t) ==
  /\ t \in MayFail
  /\ pc[t] \in InGuest
  /\ error' = [error EXCEPT ![t] = TRUE]
  /\ Goto(t, "dead")
  /\ UNCHANGED <<box, xcall, cpuq, call, sent, history>>

-----------------------------------------------------------------------------
Send(c) == \/ retry(c) \/ cpu_mondo_break(c) \/ entry_done(c) \/ entry_refused(c)
           \/ mailbox_cas(c) \/ mailbox_taken(c) \/ mailbox_poke(c)
           \/ send_copy(c) \/ send_signal(c) \/ send_poke(c)

Handle(t) == mondo_check(t) \/ mondo_fill(t) \/ mondo_clear(t)

Next == \E c \in Cpus : \/ \E l \in CpuLists[c] : hcall_cpu_mondo_send(c, l)
                        \/ Send(c) \/ cpu_mondo(c) \/ Handle(c)
                        \/ guest_dequeue(c)
                        \/ \E b \in BOOLEAN : hcall_cpu_qconf(c, b)
                        \/ stop_vcpu(c) \/ hvmondo_wait(c) \/ start_vcpu(c)
                        \/ strand_in_error(c)

Spec == Init /\ [][Next]_vars

(* A hypercall runs to its end and a vcpu takes its vectors; the guest     *)
(* repeats a call that would block, goes on serving the queue of each      *)
(* vcpu, to read it, to configure it or to start the vcpu again, and does  *)
(* not keep taking away the queue of a vcpu that runs; CPU_POKEDELAY       *)
(* passes between some two attempts.                                       *)
Serve(c) == guest_dequeue(c) \/ hcall_cpu_qconf(c, TRUE) \/ start_vcpu(c)
Fairness ==
  /\ \A c \in Senders : WF_vars(Send(c)) /\ SF_vars(mailbox_poke(c))
  /\ \A t \in Targets : /\ WF_vars(Handle(t)) /\ SF_vars(cpu_mondo(t)) /\ SF_vars(Serve(t))
                        /\ <>[][~hcall_cpu_qconf(t, FALSE)]_vars
FairSpec == Spec /\ Fairness

-----------------------------------------------------------------------------
TypeOK ==
  /\ command \in [Cpus -> Commands]
  /\ args \in [Cpus -> [Word -> Mondos \cup {NoMondo}]]
  /\ xcall \in [Cpus -> BOOLEAN] /\ error \in [Cpus -> BOOLEAN]
  /\ qconf \in [Cpus -> BOOLEAN]
  /\ head \in [Cpus -> Slot] /\ tail \in [Cpus -> Slot]
  /\ queue \in [Cpus -> [Slot -> [Word -> Mondos \cup {NoMondo}]]]
  /\ pc \in [Cpus -> PC]
  /\ \A c \in Cpus : \A i \in DOMAIN list[c] : list[c][i] \in Cpus \cup {DONE}
  /\ block \in [Cpus -> BOOLEAN] /\ wd \in [Cpus -> Word]
  /\ \A c \in Cpus : sent[c] \in 0 .. MaxMondos[c]

(* A cpu queue is a FIFO of whole mondos: what lies between its head and   *)
(* its tail are the mondos queued and not read yet, oldest first, each in  *)
(* all its words (the casxa of cpu_mondo_send, the release and the full    *)
(* check of cpu_mondo, with queues given up and vcpus stopped in between). *)
IntactQueue ==
  \A t \in Cpus :
     /\ Len(unread[t]) = (tail[t] - head[t]) % QSIZE
     /\ \A k \in DOMAIN unread[t] :
          queue[t][(head[t] + k - 1) % QSIZE] = [w \in Word |-> unread[t][k]]

(* A call that is repeated because part of its list would block never      *)
(* delivers its mondo a second time to a vcpu that has it (the ENTRYDONE   *)
(* marks of cpu_mondo_send, against the target's own release of the        *)
(* mailbox).                                                               *)
OncePerTarget ==
  \A t \in Cpus : \A i, j \in DOMAIN queued[t] : i # j => queued[t][i] # queued[t][j]

(* ENTRYDONE means accepted: the mondo is in the target's mailbox or has   *)
(* been queued, unless the target was started anew in between.             *)
DoneIsAccepted ==
  [][\A c \in Cpus : pc[c] = "poke" /\ pc'[c] = "next" =>
       LET t == Target(c) IN
         \/ command[t] = "GUESTMONDO_READY" /\ args[t] = [w \in Word |-> Mondo(c)]
         \/ \E i \in DOMAIN queued[t] : queued[t][i] = Mondo(c)
         \/ Mondo(c) \in dropped[t]]_vars

(* A send that is repeated while it would block comes to an end, though    *)
(* queues fill up, vectors are dropped by stopped vcpus and vcpus fail:    *)
(* that is what the extra poke is for.                                     *)
SendEnds == \A c \in Senders : list[c] # <<>> ~> (list[c] = <<>> \/ pc[c] = "dead")
=============================================================================
