------------------------------ MODULE Submitter ------------------------------
(***************************************************************************)
(* Submitting and waiting: submit, submit_and_wait, submit_with_args and    *)
(* squeue_wait of src/submit.rs, together with what they talk to: the two  *)
(* rings (reduced to their indices and counts; the modules SubmissionQueue  *)
(* and CompletionQueue treat their contents), io_uring_enter, the polling   *)
(* thread of an SQPOLL ring and the completion of requests in the kernel    *)
(* (external).                                                             *)
(*                                                                         *)
(* Each load of a shared word is a step of its own.  The publisher's stores *)
(* of the submission tail go through a store buffer: the program sees       *)
(* `pushed' at once, everybody else sees sqTail.  The SeqCst fence and any  *)
(* system call of the publisher empty the buffer.                           *)
(***************************************************************************)
EXTENDS RingIndex, FiniteSetsExt

CONSTANTS
  Callers,      \* the threads that call the submit functions (&self)
  Publisher,    \* the one that owns the SubmissionQueue and reaps completions
  SqPoll, IoPoll, NoDrop,  \* what Parameters says of the ring
  CqEntries,    \* slots of the completion queue
  MaxWant,      \* bound: completions waited for
  MaxWork       \* bound: requests the program has outstanding

ASSUME SubmitterAssumption ==
  /\ Publisher \in Callers
  /\ {SqPoll, IoPoll, NoDrop} \subseteq BOOLEAN
  /\ CqEntries \in Nat \ {0}
  /\ MaxWant \in Nat /\ MaxWork \in Nat

NoDue == -1   \* no submission is owed to the publisher

VARIABLES
  sqHead, sqTail,  \* the submission ring's shared indices
  pushed,          \* the publisher's last store to the tail
  due,             \* SQPOLL: the tail its last finished call has handed over
  thread,          \* SQPOLL: the polling thread
  needWakeup,      \* IORING_SQ_NEED_WAKEUP
  inFlight,        \* requests taken by the kernel and not completed
  ready,           \* completions in the ring that were not given back
  backlog,         \* completions the kernel holds back: IORING_SQ_CQ_OVERFLOW
  pc, want, seenHead, len, seenOverflow, wake   \* each caller's registers

sqVars     == <<sqHead, sqTail, pushed, due>>
threadVars == <<thread, needWakeup>>
cqVars     == <<inFlight, ready, backlog>>
regs       == <<want, seenHead, len, seenOverflow, wake>>
vars == <<sqVars, threadVars, cqVars, pc, regs>>

\* The indices are of one width, the registers hold what was loaded.
TypeOK ==
  /\ {sqHead, sqTail, pushed} \subseteq Index
  /\ due \in Index \cup {NoDue}
  /\ thread \in {"polling", "dozing", "asleep"}
  /\ needWakeup \in BOOLEAN
  /\ inFlight \in Nat /\ backlog \in Nat
  /\ ready \in 0..CqEntries
  /\ pc \in [Callers -> {"idle", "head", "tail", "overflow", "fence",
                         "wakeup", "enter", "wait", "sqwait"}]
  /\ want \in [Callers -> 0..MaxWant]
  /\ seenHead \in [Callers -> Index]
  /\ len \in [Callers -> Index]
  /\ {seenOverflow, wake} \subseteq [Callers -> BOOLEAN]

Init ==
  /\ sqHead = 0 /\ sqTail = 0 /\ pushed = 0 /\ due = NoDue
  /\ thread = "polling" /\ needWakeup = FALSE
  /\ inFlight = 0 /\ ready = 0 /\ backlog = 0
  /\ pc = [c \in Callers |-> "idle"]
  /\ want = [c \in Callers |-> 0]
  /\ seenHead = [c \in Callers |-> 0]
  /\ len = [c \in Callers |-> 0]
  /\ seenOverflow = [c \in Callers |-> FALSE]
  /\ wake = [c \in Callers |-> FALSE]

\* Everything the program has outstanding.
Work == WrappingSub(pushed, sqHead) + inFlight + ready + backlog

-----------------------------------------------------------------------------
(* The program around the calls.                                           *)

\* One more entry is published by sync or drop of the SubmissionQueue.
Publish ==
  /\ pc[Publisher] = "idle"
  /\ WrappingSub(pushed, sqHead) < RingEntries
  /\ Work < MaxWork
  /\ pushed' = WrappingAdd(pushed, 1)
  /\ UNCHANGED <<sqHead, sqTail, due, threadVars, cqVars, pc, regs>>

\* Buffered stores reach the memory in their order.
StoreArrives ==
  /\ \E n \in 1..WrappingSub(pushed, sqTail) : sqTail' = WrappingAdd(sqTail, n)
  /\ UNCHANGED <<sqHead, pushed, due, threadVars, cqVars, pc, regs>>

\* A completion is consumed and given back by sync or drop.
Reap ==
  /\ pc[Publisher] = "idle"
  /\ ready > 0
  /\ ready' = ready - 1
  /\ UNCHANGED <<sqVars, threadVars, inFlight, backlog, pc, regs>>

-----------------------------------------------------------------------------
(* The calls.                                                              *)

Goto(c, label) == pc' = [pc EXCEPT ![c] = label]

\* The call is over; its local variables are gone.
Return(c) ==
  /\ Goto(c, "idle")
  /\ want' = [want EXCEPT ![c] = 0]
  /\ len' = [len EXCEPT ![c] = 0]
  /\ seenOverflow' = [seenOverflow EXCEPT ![c] = FALSE]
  /\ wake' = [wake EXCEPT ![c] = FALSE]
  /\ UNCHANGED seenHead

\* submit_and_wait(w) or submit_with_args(w, args); submit() is w = 0.  No
\* program waits for more completions than it has requests.
Call(c, w) ==
  /\ pc[c] = "idle"
  /\ w <= Work
  /\ want' = [want EXCEPT ![c] = w]
  /\ Goto(c, "head")
  /\ UNCHANGED <<sqVars, threadVars, cqVars, seenHead, len, seenOverflow, wake>>

\* sq_len: the head is loaded before the tail.
LoadHead(c) ==
  /\ pc[c] = "head"
  /\ seenHead' = [seenHead EXCEPT ![c] = sqHead]
  /\ Goto(c, "tail")
  /\ UNCHANGED <<sqVars, threadVars, cqVars, want, len, seenOverflow, wake>>

TailSeenBy(c) == IF c = Publisher THEN pushed ELSE sqTail

LenOfSlots(c) == WrappingSub(Slot(TailSeenBy(c)), Slot(seenHead[c]))
SqLen(c) == WrappingSub(TailSeenBy(c), seenHead[c])

LoadTail(c) ==
  /\ pc[c] = "tail"
  /\ len' = [len EXCEPT ![c] = SqLen(c)]
  /\ seenHead' = [seenHead EXCEPT ![c] = 0]
  /\ Goto(c, "overflow")
  /\ UNCHANGED <<sqVars, threadVars, cqVars, want, seenOverflow, wake>>

LoadOverflow(c) ==
  /\ pc[c] = "overflow"
  /\ seenOverflow' = [seenOverflow EXCEPT ![c] = backlog > 0]
  /\ Goto(c, IF SqPoll THEN "fence" ELSE "enter")
  /\ UNCHANGED <<sqVars, threadVars, cqVars, want, seenHead, len, wake>>

\* The buffer of the publisher is emptied; the others have no stores in theirs.
DrainStores(c) == sqTail' = TailSeenBy(c)

\* fence(SeqCst), before the wake-up flag is read.
FenceMissing(c) ==
  /\ pc[c] = "fence"
  /\ Goto(c, "wakeup")
  /\ UNCHANGED <<sqVars, threadVars, cqVars, regs>>

Fence(c) ==
  /\ pc[c] = "fence"
  /\ DrainStores(c)
  /\ Goto(c, "wakeup")
  /\ UNCHANGED <<sqHead, pushed, due, threadVars, cqVars, regs>>

\* IORING_ENTER_GETEVENTS is set.
GetEvents(c) == want[c] > 0 \/ IoPoll \/ seenOverflow[c]

\* Without a system call the completions held back would stay in the kernel.
NeedSyscallNever(c) == FALSE
NeedSyscallForOverflow(c) == seenOverflow[c] /\ NoDrop   \* submit_and_wait
NeedSyscallForArgs(c) == seenOverflow[c] /\ NoDrop       \* submit_with_args

\* The call is either of the two: each has its own copy of the condition.
SkipsSyscall(c) ==
  /\ want[c] = 0
  /\ ~NeedSyscallForOverflow(c) \/ ~NeedSyscallForArgs(c)

MakesSyscall(c) == want[c] > 0 \/ NeedSyscallForOverflow(c) \/ NeedSyscallForArgs(c)

\* What the publisher is owed when its call hands over to the polling thread.
HandOver(c) ==
  due' = IF c = Publisher /\ SqPoll
         THEN IF pushed = sqHead THEN NoDue ELSE pushed
         ELSE due

\* sq_need_wakeup, and the return without a system call.
CheckWakeup(c) ==
  /\ pc[c] = "wakeup"
  /\ \/ /\ needWakeup
        /\ wake' = [wake EXCEPT ![c] = TRUE]
        /\ Goto(c, "enter")
        /\ UNCHANGED <<due, want, seenHead, len, seenOverflow>>
     \/ /\ ~needWakeup /\ SkipsSyscall(c)
        /\ HandOver(c)
        /\ Return(c)
     \/ /\ ~needWakeup /\ MakesSyscall(c)
        /\ Goto(c, "enter")
        /\ UNCHANGED <<due, regs>>
  /\ UNCHANGED <<sqHead, sqTail, pushed, threadVars, cqVars>>

\* squeue_wait: the program has submitted what it published.
SqueueWait(c) ==
  /\ pc[c] = "idle"
  /\ c = Publisher /\ due \in {NoDue, pushed} /\ (due = NoDue => pushed = sqHead)
  /\ DrainStores(c)
  /\ Goto(c, "sqwait")
  /\ UNCHANGED <<sqHead, pushed, due, threadVars, cqVars, regs>>

-----------------------------------------------------------------------------
(* io_uring_enter (external).                                              *)

\* Room in the completion ring is filled from the backlog.
FlushedInto(r, b) == Min({b, CqEntries - r})

\* After the submission: with GETEVENTS the backlog is flushed and the call
\* waits, without it the call is over.
Collect(c) ==
  IF GetEvents(c)
  THEN /\ ready' = ready + FlushedInto(ready, backlog)
       /\ backlog' = backlog - FlushedInto(ready, backlog)
       /\ Goto(c, "wait")
       /\ UNCHANGED regs
  ELSE /\ UNCHANGED <<ready, backlog>>
       /\ Return(c)

\* An SQPOLL ring: nothing is submitted here; SQ_WAKEUP gets the thread going.
EnterSqPoll(c) ==
  /\ SqPoll /\ pc[c] = "enter"
  /\ DrainStores(c)
  /\ IF wake[c] THEN thread' = "polling" /\ needWakeup' = FALSE
                ELSE UNCHANGED threadVars
  /\ HandOver(c)
  /\ Collect(c)
  /\ UNCHANGED <<sqHead, pushed, inFlight>>

\* Any other ring: up to to_submit entries are taken, fewer after an error in
\* one of them, and only a complete submission goes on to collect and wait.
EnterSubmit(c) ==
  /\ ~SqPoll /\ pc[c] = "enter"
  /\ DrainStores(c)
  /\ \E n \in 0..Min({len[c], WrappingSub(TailSeenBy(c), sqHead)}) :
       /\ sqHead' = WrappingAdd(sqHead, n)
       /\ inFlight' = inFlight + n
       /\ IF n = len[c] THEN Collect(c)
          ELSE /\ n > 0 \/ sqHead = TailSeenBy(c)
               /\ UNCHANGED <<ready, backlog>>
               /\ Return(c)
  /\ UNCHANGED <<pushed, due, threadVars>>

\* EAGAIN, EBUSY, EINTR: the call fails before it has done anything.
EnterFails(c) ==
  /\ pc[c] = "enter"
  /\ DrainStores(c)
  /\ Return(c)
  /\ UNCHANGED <<sqHead, pushed, due, threadVars, cqVars>>

\* While a call waits, the backlog is flushed whenever there is room.
FlushWaiting(c) ==
  /\ pc[c] = "wait"
  /\ FlushedInto(ready, backlog) > 0
  /\ ready' = ready + FlushedInto(ready, backlog)
  /\ backlog' = backlog - FlushedInto(ready, backlog)
  /\ UNCHANGED <<sqVars, threadVars, inFlight, pc, regs>>

WaitDone(c) ==
  /\ pc[c] = "wait"
  /\ ready >= Min({want[c], CqEntries})
  /\ Return(c)
  /\ UNCHANGED <<sqVars, threadVars, cqVars>>

\* A signal, or the timeout of SubmitArgs.
Interrupted(c) ==
  /\ pc[c] \in {"wait", "sqwait"}
  /\ Return(c)
  /\ UNCHANGED <<sqVars, threadVars, cqVars>>

SqueueWaitDone(c) ==
  /\ pc[c] = "sqwait"
  /\ ~SqPoll \/ WrappingSub(sqTail, sqHead) < RingEntries
  /\ Return(c)
  /\ UNCHANGED <<sqVars, threadVars, cqVars>>

-----------------------------------------------------------------------------
(* The polling thread and the completion of requests (external).           *)

ThreadTakes ==
  /\ SqPoll /\ thread = "polling"
  /\ sqHead # sqTail
  /\ sqHead' = WrappingAdd(sqHead, 1)
  /\ due' = IF due = sqHead' THEN NoDue ELSE due
  /\ inFlight' = inFlight + 1
  /\ UNCHANGED <<sqTail, pushed, threadVars, ready, backlog, pc, regs>>

\* The thread has been idle: it sets the flag, then (after a full barrier)
\* looks at the tail once more, then sleeps.
ThreadDozes ==
  /\ SqPoll /\ thread = "polling"
  /\ sqHead = sqTail
  /\ thread' = "dozing" /\ needWakeup' = TRUE
  /\ UNCHANGED <<sqVars, cqVars, pc, regs>>

ThreadRechecks ==
  /\ thread = "dozing"
  /\ IF sqHead = sqTail
     THEN thread' = "asleep" /\ UNCHANGED needWakeup
     ELSE thread' = "polling" /\ needWakeup' = FALSE
  /\ UNCHANGED <<sqVars, cqVars, pc, regs>>

\* With IOPOLL a completion is found only by somebody who polls for it.
Polled == IF SqPoll THEN thread = "polling"
          ELSE \E c \in Callers : pc[c] = "wait"

Complete ==
  /\ inFlight > 0
  /\ IoPoll => Polled
  /\ inFlight' = inFlight - 1
  /\ IF backlog = 0 /\ ready < CqEntries
     THEN ready' = ready + 1 /\ UNCHANGED backlog
     ELSE /\ UNCHANGED ready
          /\ backlog' = IF NoDrop THEN backlog + 1 ELSE backlog
  /\ UNCHANGED <<sqVars, threadVars, pc, regs>>

-----------------------------------------------------------------------------

\* The steps of a call that never wait for anybody else.
CallStep(c) ==
  \/ LoadHead(c) \/ LoadTail(c) \/ LoadOverflow(c) \/ Fence(c)
  \/ CheckWakeup(c) \/ EnterSqPoll(c) \/ EnterSubmit(c)
  \/ FlushWaiting(c) \/ WaitDone(c) \/ SqueueWaitDone(c)

Thread == ThreadTakes \/ ThreadRechecks

Next ==
  \/ Publish \/ StoreArrives \/ Reap
  \/ \E c \in Callers :
       \/ \E w \in 0..MaxWant : Call(c, w)
       \/ SqueueWait(c)
       \/ CallStep(c)
       \/ EnterFails(c)
       \/ Interrupted(c)
  \/ Thread \/ ThreadDozes
  \/ Complete

Spec == Init /\ [][Next]_vars

\* The processor empties store buffers, a called function runs, the kernel
\* thread runs while it is awake, requests complete.  Nothing makes the
\* program call again.
KernelFairness ==
  /\ WF_vars(StoreArrives)
  /\ WF_vars(Thread)
  /\ SF_vars(Complete)
  /\ \A c \in Callers : WF_vars(CallStep(c))

FairSpec == Spec /\ KernelFairness

\* An event loop besides: it keeps calling submit() and reaping, and the
\* system call does not fail every time.
LoopFairness ==
  /\ SF_vars(Reap)
  /\ \A c \in Callers :
       /\ SF_vars(\E w \in 0..MaxWant : Call(c, w))
       /\ SF_vars(EnterSqPoll(c) \/ EnterSubmit(c))

-----------------------------------------------------------------------------
(* Properties.                                                             *)

\* From sq_len to the system call, the count the publisher passes as
\* to_submit covers everything it has published and never exceeds the ring,
\* although the kernel and other callers move the head between the two loads.
LenCoversPublished ==
  pc[Publisher] \in {"overflow", "fence", "wakeup", "enter"} =>
    WrappingSub(pushed, sqHead) <= len[Publisher] /\ len[Publisher] <= RingEntries

\* A submission whose count the kernel accepts in full leaves nothing the
\* publisher has published behind in the ring.
FullSubmitLeavesNothing ==
  [][(~SqPoll /\ pc[Publisher] = "enter" /\ pc'[Publisher] # "enter"
       /\ WrappingSub(sqHead', sqHead) = len[Publisher])
      => sqHead' = pushed]_vars

\* The polling thread never sleeps on a submission whose call has returned
\* Ok: the store of the tail and the load of the flag on one side, the store
\* of the flag and the load of the tail on the other, cannot both miss.
NoLostWakeup == ~(thread = "asleep" /\ due # NoDue)

\* While something a returned call has handed over is outstanding, the thread
\* keeps taking entries, even if the program never calls again.
SubmittedIsTaken ==
  \A h \in Index : (due # NoDue /\ sqHead = h) ~> (sqHead # h)

\* A call that waits for completions of requests it has published, or for
\* room in the submission queue, is answered without a signal or a timeout:
\* the thread it depends on has been woken.
WaitReturns ==
  \A c \in Callers : (pc[c] \in {"wait", "sqwait"}) ~> (pc[c] = "idle")

\* Completions held back after an overflow keep moving to the ring as long
\* as the program loops over submit() and reaping, also with a polling thread
\* that never asks for a system call.
OverflowKeepsDraining ==
  LoopFairness => \A n \in 1..MaxWork : (backlog = n) ~> (backlog # n)

=============================================================================
