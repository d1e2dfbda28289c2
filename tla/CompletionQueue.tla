--------------------------- MODULE CompletionQueue ---------------------------
(***************************************************************************)
(* The completion queue of src/cqueue.rs.                                  *)
(*                                                                         *)
(* kHead, kTail and cqes are the memory shared with the kernel.  A          *)
(* CompletionQueue value (the handle) iterates over its own copies head and *)
(* tail; slots go back to the kernel, and new completions come into sight,  *)
(* only when sync or drop stores the local head.  A CompletionStatus reads  *)
(* the shared indices at any time, without the handle.                     *)
(*                                                                         *)
(* The kernel side is external: it writes slots that the shared head says   *)
(* are free, then publishes them with one store of the tail; a completion   *)
(* that finds no room goes to a backlog inside the kernel, or is dropped    *)
(* and counted: always by a kernel that lacks IORING_FEAT_NODROP, and by    *)
(* the others when they have no memory left for the backlog.               *)
(***************************************************************************)
EXTENDS RingIndex, Sequences, FiniteSetsExt

CONSTANTS Entry,      \* the completions the kernel posts
          NoEntry,    \* what a slot holds before the first completion
          MaxFill,    \* the longest slice given to fill
          MaxBacklog  \* bound: completions waiting in the kernel

ASSUME QueueAssumption ==
  /\ NoEntry \notin Entry
  /\ MaxFill \in Nat
  /\ MaxBacklog \in Nat

VARIABLES
  kHead, kTail, cqes,      \* shared with the kernel
  handle, head, tail,      \* the CompletionQueue value, if there is one
  filling,                 \* how many entries fill has still to pop
  popped,                  \* the entry popped last
  cachedTail, backlog,     \* the kernel: its own tail, the completions in waiting
  overflow                 \* the kernel: how many it has dropped (mod 2^32)

ringVars   == <<kHead, kTail, cqes>>
handleVars == <<handle, head, tail, filling>>
kernelVars == <<cachedTail, backlog, overflow>>
vars == <<ringVars, handleVars, popped, kernelVars>>

\* The indices are of one width, and the counts stay within their bounds.
TypeOK ==
  /\ kHead \in Index /\ kTail \in Index
  /\ cqes \in [Slots -> Entry \cup {NoEntry}]
  /\ handle \in {"none", "held", "syncing"}
  /\ head \in Index /\ tail \in Index
  /\ filling \in 0..RingEntries
  /\ popped \in Entry \cup {NoEntry}
  /\ cachedTail \in Index
  /\ backlog \in Seq(Entry)
  /\ overflow \in Index

-----------------------------------------------------------------------------

Init ==
  /\ kHead = 0 /\ kTail = 0
  /\ cqes = [s \in Slots |-> NoEntry]
  /\ handle = "none" /\ head = 0 /\ tail = 0 /\ filling = 0
  /\ popped = NoEntry
  /\ cachedTail = 0 /\ backlog = <<>> /\ overflow = 0

\* len() of the handle.
CqLen == WrappingSub(tail, head)

\* CompletionStatus::is_empty.
StatusComparesSlots == Slot(kHead) = Slot(kTail)
StatusIsEmpty == kHead = kTail

-----------------------------------------------------------------------------
(* The handle.                                                             *)

\* borrow / borrow_shared.
Borrow ==
  /\ handle = "none"
  /\ handle' = "held" /\ head' = kHead /\ tail' = kTail
  /\ UNCHANGED <<ringVars, filling, popped, kernelVars>>

\* pop: the entry at the local head; the slot is not given back yet.
Pop ==
  /\ popped' = cqes[Slot(head)]
  /\ head' = WrappingAdd(head, 1)
  /\ UNCHANGED <<ringVars, handle, tail, kernelVars>>

\* Iterator::next: an entry if the local view has one (None otherwise).
IterNext ==
  /\ handle = "held" /\ filling = 0
  /\ head # tail
  /\ Pop
  /\ UNCHANGED filling

\* fill: pops as many entries as the view and the slice have, one by one.
FillAnyway(n) ==
  /\ handle = "held" /\ filling = 0
  /\ filling' = n
  /\ UNCHANGED <<ringVars, handle, head, tail, popped, kernelVars>>

Fill(n) ==
  /\ handle = "held" /\ filling = 0
  /\ filling' = Min({CqLen, n})
  /\ UNCHANGED <<ringVars, handle, head, tail, popped, kernelVars>>

FillPop ==
  /\ filling > 0
  /\ Pop
  /\ filling' = filling - 1

\* sync, first half: give back the slots consumed (Release).
SyncStoreTail ==
  /\ handle = "held" /\ filling = 0
  /\ kHead' = tail
  /\ handle' = "syncing"
  /\ UNCHANGED <<kTail, cqes, head, tail, filling, popped, kernelVars>>

SyncStore ==
  /\ handle = "held" /\ filling = 0
  /\ kHead' = head
  /\ handle' = "syncing"
  /\ UNCHANGED <<kTail, cqes, head, tail, filling, popped, kernelVars>>

\* sync, second half: look for new completions (Acquire).
SyncLoadForgotten ==
  /\ handle = "syncing"
  /\ handle' = "held"
  /\ UNCHANGED <<ringVars, head, tail, filling, popped, kernelVars>>

SyncLoad ==
  /\ handle = "syncing"
  /\ tail' = kTail
  /\ handle' = "held"
  /\ UNCHANGED <<ringVars, head, filling, popped, kernelVars>>

\* Drop gives back the slots consumed.
DropWithoutStore ==
  /\ handle = "held" /\ filling = 0
  /\ handle' = "none" /\ head' = 0 /\ tail' = 0
  /\ UNCHANGED <<ringVars, filling, popped, kernelVars>>

Drop ==
  /\ handle = "held" /\ filling = 0
  /\ kHead' = head
  /\ handle' = "none" /\ head' = 0 /\ tail' = 0
  /\ UNCHANGED <<kTail, cqes, filling, popped, kernelVars>>

-----------------------------------------------------------------------------
(* The kernel (external).                                                  *)

HasRoom == WrappingSub(cachedTail, kHead) < RingEntries

WriteSlot(entry) ==
  /\ cqes' = [cqes EXCEPT ![Slot(cachedTail)] = entry]
  /\ cachedTail' = WrappingAdd(cachedTail, 1)

\* A completion goes straight to the ring only if none waits before it.
KernelWrite(entry) ==
  /\ backlog = <<>> /\ HasRoom
  /\ WriteSlot(entry)
  /\ UNCHANGED <<kHead, kTail, handleVars, popped, backlog, overflow>>

KernelOverflow(entry) ==
  /\ backlog # <<>> \/ ~HasRoom
  /\ \/ /\ Len(backlog) < MaxBacklog
        /\ backlog' = Append(backlog, entry)
        /\ UNCHANGED overflow
     \/ /\ overflow' = WrappingAdd(overflow, 1)
        /\ UNCHANGED backlog
  /\ UNCHANGED <<ringVars, handleVars, popped, cachedTail>>

\* io_uring_enter with IORING_ENTER_GETEVENTS moves the backlog to the ring.
KernelFlush ==
  /\ backlog # <<>> /\ HasRoom
  /\ WriteSlot(Head(backlog))
  /\ backlog' = Tail(backlog)
  /\ UNCHANGED <<kHead, kTail, handleVars, popped, overflow>>

KernelPublish ==
  /\ cachedTail # kTail
  /\ kTail' = cachedTail
  /\ UNCHANGED <<kHead, cqes, handleVars, popped, kernelVars>>

-----------------------------------------------------------------------------

Next ==
  \/ Borrow
  \/ IterNext
  \/ \E n \in 1..MaxFill : Fill(n)
  \/ FillPop
  \/ SyncStore
  \/ SyncLoad
  \/ Drop
  \/ \E entry \in Entry : KernelWrite(entry) \/ KernelOverflow(entry)
  \/ KernelFlush
  \/ KernelPublish

Spec == Init /\ [][Next]_vars

\* A program that keeps reaping: it iterates over what each handle and each
\* sync shows it, as the loops of examples/tcp_echo.rs and the tests do
\* (strong fairness: it may also drop a handle without having looked).
FairSpec ==
  /\ Spec
  /\ WF_vars(Borrow)
  /\ SF_vars(IterNext)
  /\ WF_vars(FillPop)
  /\ WF_vars(SyncStore)
  /\ WF_vars(SyncLoad)

-----------------------------------------------------------------------------
(* Properties.                                                             *)

\* The position up to which the program has consumed completions.
UserHead == IF handle = "none" THEN kHead ELSE head

\* The position up to which the handle may read.
UserTail == IF handle = "none" THEN kHead ELSE tail

\* The five positions stay in the order shared head, local head, local tail,
\* shared tail, kernel tail within one turn of the ring: no iteration and no
\* fill reads a slot the kernel has not published, and a slot is given back
\* only after it has been read.
IndicesInOrder ==
  /\ WrappingSub(UserHead, kHead) + filling <= WrappingSub(UserTail, kHead)
  /\ WrappingSub(UserTail, kHead) <= WrappingSub(kTail, kHead)
  /\ WrappingSub(kTail, kHead) <= WrappingSub(cachedTail, kHead)
  /\ WrappingSub(cachedTail, kHead) <= RingEntries

\* The kernel never overwrites a completion that is published and that the
\* program has not consumed yet, also while a handle holds consumed slots back.
NoUnreadSlotOverwritten ==
  [][\A i \in 0..(RingEntries - 1) :
       i < WrappingSub(cachedTail, UserHead) =>
         LET s == Slot(WrappingAdd(UserHead, i)) IN cqes'[s] = cqes[s]]_vars

\* CompletionStatus never hides work: while a published completion has not
\* been consumed, is_empty() is false, with or without a handle in use.
StatusNeverMissesWork == kTail # UserHead => ~StatusIsEmpty

\* What the documentation of CompletionStatus::is_empty says: true if the
\* kernel has posted no completions beyond those already consumed.  While a
\* handle has consumed entries and not synced, it is false.
StatusEmptyWhenAllConsumed == (kTail = UserHead) => StatusIsEmpty

\* The queue implements the promised channel: in flight is what lies in the
\* ring after the program's position, then the kernel's backlog.
Channel == INSTANCE CompletionChannel WITH
  CounterMod <- IndexMod,
  inFlight   <- [i \in 1..WrappingSub(cachedTail, UserHead) |->
                   cqes[Slot(WrappingAdd(UserHead, i - 1))]] \o backlog,
  lost       <- overflow,
  delivered  <- popped

ImplementsChannel == Channel!Spec

\* A program that keeps reaping gets to every completion published.
PublishedIsConsumed ==
  \A i \in Index : (kTail = i /\ UserHead # i) ~> (UserHead = i)

=============================================================================
