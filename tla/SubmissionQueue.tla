--------------------------- MODULE SubmissionQueue ---------------------------
(***************************************************************************)
(* The submission queue of src/squeue.rs.                                  *)
(*                                                                         *)
(* The ring itself is memory shared with the kernel: kHead, kTail and sqes *)
(* are what the raw pointers of Inner point to.  A SubmissionQueue value    *)
(* (the handle) works on its own copies head and tail of the two indices:  *)
(* pushes write slots and advance only the local tail, and sync or drop    *)
(* publish it.  The borrow rules (and the contract of submission_shared)   *)
(* allow one handle at a time, but the kernel runs at any moment, also     *)
(* while the handle lives: the polling thread of an SQPOLL ring does, and   *)
(* so does a submit() called next to the handle returned by split().       *)
(*                                                                         *)
(* The kernel side is external: it reads kTail, takes entries in order     *)
(* through the index array, and stores kHead once for a batch.             *)
(***************************************************************************)
EXTENDS RingIndex, Sequences, SequencesExt

CONSTANTS Entry,      \* the entries the program pushes
          NoEntry,    \* what a slot holds before the first push
          NoSqArray,  \* IORING_SETUP_NO_SQARRAY: the ring has no index array
          MaxBatch    \* the longest slice given to push_multiple

ASSUME QueueAssumption ==
  /\ NoEntry \notin Entry
  /\ NoSqArray \in BOOLEAN
  /\ MaxBatch \in Nat

VARIABLES
  kHead, kTail, sqes,      \* shared with the kernel
  handle, head, tail,      \* the SubmissionQueue value, if there is one
  result,                  \* what the last push or push_multiple returned
  cachedHead, budget,      \* the kernel: its own head, entries left in its batch
  taken                    \* the kernel: the entry it read last

ringVars   == <<kHead, kTail, sqes>>
handleVars == <<handle, head, tail>>
kernelVars == <<cachedHead, budget, taken>>
vars == <<ringVars, handleVars, result, kernelVars>>

\* The indices are of one width, the slots hold entries.
TypeOK ==
  /\ kHead \in Index /\ kTail \in Index
  /\ sqes \in [Slots -> Entry \cup {NoEntry}]
  /\ handle \in {"none", "held", "syncing"}
  /\ head \in Index /\ tail \in Index
  /\ result \in {"Ok", "PushError"}
  /\ cachedHead \in Index
  /\ budget \in 0..RingEntries
  /\ taken \in Entry \cup {NoEntry}

-----------------------------------------------------------------------------
(* The ring and the handle's view of it.                                   *)

\* The index array: written once by Inner::new, read by the kernel.
SqArrayReversed == [i \in Slots |-> RingEntries - 1 - i]
SqArray == [i \in Slots |-> i]

\* The entry the kernel finds at position i of the ring.
SqeAt(i) == IF NoSqArray THEN sqes[Slot(i)] ELSE sqes[SqArray[Slot(i)]]

Init ==
  /\ kHead = 0 /\ kTail = 0
  /\ sqes = [s \in Slots |-> NoEntry]
  /\ handle = "none" /\ head = 0 /\ tail = 0
  /\ result = "Ok"
  /\ cachedHead = 0 /\ budget = 0 /\ taken = NoEntry

\* len(), is_full() and the room push_multiple looks for.
SqLen == WrappingSub(tail, head)

IsFullOffByOne == SqLen > RingEntries
IsFull == SqLen = RingEntries

HasRoomOffByOne(n) == RingEntries - SqLen + 1 >= n
HasRoom(n) == RingEntries - SqLen >= n

-----------------------------------------------------------------------------
(* The handle.                                                             *)

\* borrow / borrow_shared: the head is loaded (Acquire), the tail is the
\* program's own last store.
BorrowStaleTail ==
  /\ handle = "none"
  /\ handle' = "held" /\ head' = kHead /\ tail' = kHead
  /\ UNCHANGED <<ringVars, result, kernelVars>>

Borrow ==
  /\ handle = "none"
  /\ handle' = "held" /\ head' = kHead /\ tail' = kTail
  /\ UNCHANGED <<ringVars, result, kernelVars>>

\* The slots after push_unchecked has stored each of entries in turn,
\* starting at position pos.
Stored(entries, pos) ==
  [s \in Slots |->
    LET hits == {i \in 1..Len(entries) : Slot(WrappingAdd(pos, i - 1)) = s}
    IN IF hits = {} THEN sqes[s]
       ELSE entries[CHOOSE i \in hits : \A j \in hits : j <= i]]

\* push: one entry, or PushError if the local view is full.
Push(entry) ==
  /\ handle = "held"
  /\ \/ /\ ~IsFull
        /\ sqes' = [sqes EXCEPT ![Slot(tail)] = entry]
        /\ tail' = WrappingAdd(tail, 1)
        /\ result' = "Ok"
     \/ /\ IsFull
        /\ result' = "PushError"
        /\ UNCHANGED <<sqes, tail>>
  /\ UNCHANGED <<kHead, kTail, handle, head, kernelVars>>

\* push_multiple: every entry, or PushError and none.
PushMultiple(entries) ==
  /\ handle = "held"
  /\ \/ /\ HasRoom(Len(entries))
        /\ sqes' = Stored(entries, tail)
        /\ tail' = WrappingAdd(tail, Len(entries))
        /\ result' = "Ok"
     \/ /\ ~HasRoom(Len(entries))
        /\ result' = "PushError"
        /\ UNCHANGED <<sqes, tail>>
  /\ UNCHANGED <<kHead, kTail, handle, head, kernelVars>>

\* sync, first half: publish the local tail (Release).
SyncStore ==
  /\ handle = "held"
  /\ kTail' = tail
  /\ handle' = "syncing"
  /\ UNCHANGED <<kHead, sqes, head, tail, result, kernelVars>>

\* sync, second half: refresh the local head (Acquire).
SyncLoadForgotten ==
  /\ handle = "syncing"
  /\ handle' = "held"
  /\ UNCHANGED <<ringVars, head, tail, result, kernelVars>>

SyncLoad ==
  /\ handle = "syncing"
  /\ head' = kHead
  /\ handle' = "held"
  /\ UNCHANGED <<ringVars, tail, result, kernelVars>>

\* Drop publishes the local tail; the handle's copies are gone.
DropWithoutStore ==
  /\ handle = "held"
  /\ handle' = "none" /\ head' = 0 /\ tail' = 0
  /\ UNCHANGED <<ringVars, result, kernelVars>>

Drop ==
  /\ handle = "held"
  /\ kTail' = tail
  /\ handle' = "none" /\ head' = 0 /\ tail' = 0
  /\ UNCHANGED <<kHead, sqes, result, kernelVars>>

-----------------------------------------------------------------------------
(* The kernel (external).                                                  *)

\* Starts a batch: up to as many entries as are published.
KernelBegin ==
  /\ budget = 0 /\ cachedHead = kHead
  /\ \E n \in 1..WrappingSub(kTail, cachedHead) : budget' = n
  /\ UNCHANGED <<ringVars, handleVars, result, cachedHead, taken>>

\* Copies the next entry of the batch out of the ring.
KernelRead ==
  /\ budget > 0
  /\ taken' = SqeAt(cachedHead)
  /\ cachedHead' = WrappingAdd(cachedHead, 1)
  /\ budget' = budget - 1
  /\ UNCHANGED <<ringVars, handleVars, result>>

\* Ends the batch, also early after an error: the slots read are free again.
KernelCommit ==
  /\ cachedHead # kHead
  /\ kHead' = cachedHead
  /\ budget' = 0
  /\ UNCHANGED <<kTail, sqes, handleVars, result, cachedHead, taken>>

-----------------------------------------------------------------------------

Kernel == KernelBegin \/ KernelRead \/ KernelCommit

Next ==
  \/ Borrow
  \/ \E entry \in Entry : Push(entry)
  \/ \E entries \in SeqOf(Entry, MaxBatch) : PushMultiple(entries)
  \/ SyncStore
  \/ SyncLoad
  \/ Drop
  \/ Kernel

Spec == Init /\ [][Next]_vars

\* The kernel keeps consuming what is published, and a program refused for
\* lack of room keeps syncing (the retry loop of examples/tcp_echo.rs).
FairSpec ==
  /\ Spec
  /\ WF_vars(Kernel)
  /\ WF_vars(Borrow)
  /\ WF_vars(SyncStore)
  /\ WF_vars(SyncLoad)

-----------------------------------------------------------------------------
(* Properties.                                                             *)

\* The tail up to which slots have been filled.
UserTail == IF handle = "none" THEN kTail ELSE tail

\* However far the kernel has got, the handle's len() is never below the
\* number of slots really in use and never above the capacity: a stale head
\* makes push refuse too early, never accept too much, and the subtraction
\* capacity() - len() in push_multiple cannot underflow.
LenNeverUnderestimates ==
  handle # "none" =>
    /\ WrappingSub(tail, kHead) <= SqLen
    /\ SqLen <= RingEntries

\* The four indices stay in the order kHead, cachedHead, kTail, local tail
\* within one turn of the ring: the kernel never reads a slot whose entry was
\* not published, and nothing published is ever taken back by sync or drop.
IndicesInOrder ==
  /\ WrappingSub(cachedHead, kHead) + budget <= WrappingSub(kTail, kHead)
  /\ WrappingSub(kTail, kHead) + WrappingSub(UserTail, kTail)
       = WrappingSub(UserTail, kHead)
  /\ WrappingSub(UserTail, kHead) <= RingEntries

\* A slot whose entry was accepted by push and whose room the kernel has not
\* given back keeps its content, whatever the handle does in between: the
\* raw store in push_unchecked never hits it.
NoLiveSlotOverwritten ==
  [][\A i \in 0..(RingEntries - 1) :
       i < WrappingSub(UserTail, kHead) =>
         LET s == Slot(WrappingAdd(kHead, i)) IN sqes'[s] = sqes[s]]_vars

\* The queue implements the promised channel: what is staged and published
\* are the slots between the three indices.  Entries are taken exactly once,
\* unchanged, in the order pushed, never before they are published, and
\* push_multiple is all or nothing.
Between(from, to) ==
  [i \in 1..WrappingSub(to, from) |-> SqeAt(WrappingAdd(from, i - 1))]

Channel == INSTANCE SubmissionChannel WITH
  Capacity  <- RingEntries,
  staged    <- Between(kTail, UserTail),
  published <- Between(cachedHead, kTail),
  reading   <- WrappingSub(cachedHead, kHead),
  taken     <- taken

ImplementsChannel == Channel!Spec

\* A program refused by a full queue that keeps calling sync gets room: the
\* head it works with does not stay stale for ever.
RefusedPushGetsRoom ==
  (result = "PushError") ~> (handle = "held" /\ ~IsFull)

=============================================================================
