------------------------ MODULE CompletionQueueProofs ------------------------
(***************************************************************************)
(* Proofs about CompletionQueue, for every ring size, index width, set of  *)
(* completions, slice given to fill and backlog.                           *)
(***************************************************************************)
EXTENDS CompletionQueue, RingIndexTheorems

\* The inductive invariant.  What a fill may still pop is part of the order of
\* the indices, so the order is inductive as it stands.
IInv == TypeOK /\ IndicesInOrder

-----------------------------------------------------------------------------
(* The invariant.                                                          *)

\* fill pops no more than the handle's view and the slice have.
LEMMA FillLength ==
  ASSUME NEW len \in Nat, NEW n \in Nat
  PROVE  Min({len, n}) \in Nat /\ Min({len, n}) <= len
<1>1. PICK m \in {len, n} : \A y \in {len, n} : m <= y
  <2>1. CASE len <= n
    BY <2>1
  <2>2. CASE n <= len
    BY <2>2
  <2> QED
    BY <2>1, <2>2
<1>2. /\ Min({len, n}) \in {len, n}
      /\ \A y \in {len, n} : Min({len, n}) <= y
  BY <1>1 DEF Min
<1> QED
  BY <1>2

\* In the initial state the ring is empty and nobody holds it.
LEMMA InitIInv == Init => IInv
<1> SUFFICES ASSUME Init PROVE IInv
  OBVIOUS
<1>1. TypeOK
  BY RingSizes DEF Init, TypeOK, Index
<1>2. IndicesInOrder
  BY RingSizes DEF Init, IndicesInOrder, UserHead, UserTail, WrappingSub
<1> QED
  BY <1>1, <1>2 DEF IInv

\* Popping gives an entry of the ring and the next index.
LEMMA PopType ==
  ASSUME TypeOK, Pop
  PROVE  popped' \in Entry \cup {NoEntry} /\ head' \in Index
<1>1. Slot(head) \in Slots /\ 1 \in 0..RingEntries
  BY SlotType, RingSizes DEF TypeOK
<1> QED
  BY <1>1, WrappingAddType DEF TypeOK, Pop

\* Writing a slot keeps the ring a ring of completions.
LEMMA WriteType ==
  ASSUME TypeOK, NEW entry \in Entry, WriteSlot(entry)
  PROVE  cqes' \in [Slots -> Entry \cup {NoEntry}] /\ cachedTail' \in Index
<1>1. 1 \in 0..RingEntries
  BY RingSizes
<1> QED
  BY <1>1, WrappingAddType DEF TypeOK, WriteSlot

\* Every step keeps the variables in their types.
LEMMA TypeStep == IInv /\ [Next]_vars => TypeOK'
<1> SUFFICES ASSUME IInv, [Next]_vars PROVE TypeOK'
  OBVIOUS
<1> USE DEF TypeOK
<1>0. TypeOK
  BY DEF IInv
<1>1. CASE Borrow
  BY <1>0, <1>1 DEF Borrow, ringVars, kernelVars
<1>2. CASE IterNext
  BY <1>0, <1>2, PopType DEF IterNext, Pop, ringVars, kernelVars
<1>3. ASSUME NEW n \in 1..MaxFill, Fill(n) PROVE TypeOK'
  <2>1. CqLen \in 0..RingEntries
    BY <1>0, <1>3, RingSizes
       DEF IInv, IndicesInOrder, UserHead, UserTail, Fill, CqLen, Index, WrappingSub
  <2>2. n \in Nat
    BY QueueAssumption
  <2>3. Min({CqLen, n}) \in 0..RingEntries
    BY <2>1, <2>2, FillLength, RingSizes
  <2> QED
    BY <1>0, <1>3, <2>3 DEF Fill, ringVars, kernelVars
<1>4. CASE FillPop
  <2>1. filling' \in 0..RingEntries
    BY <1>0, <1>4, RingSizes DEF FillPop
  <2> QED
    BY <1>0, <1>4, <2>1, PopType DEF FillPop, Pop, ringVars, kernelVars
<1>5. CASE SyncStore
  BY <1>0, <1>5 DEF SyncStore, kernelVars
<1>6. CASE SyncLoad
  BY <1>0, <1>6 DEF SyncLoad, ringVars, kernelVars
<1>7. CASE Drop
  BY <1>0, <1>7, RingSizes DEF Drop, kernelVars, Index
<1>8. ASSUME NEW entry \in Entry, KernelWrite(entry) PROVE TypeOK'
  BY <1>0, <1>8, WriteType DEF KernelWrite, handleVars
<1>9. ASSUME NEW entry \in Entry, KernelOverflow(entry) PROVE TypeOK'
  <2>1. overflow' \in Index
    BY <1>0, <1>9, RingSizes, WrappingAddType DEF KernelOverflow
  <2>2. backlog' \in Seq(Entry)
    BY <1>0, <1>9 DEF KernelOverflow
  <2> QED
    BY <1>0, <1>9, <2>1, <2>2 DEF KernelOverflow, ringVars, handleVars
<1>10. CASE KernelFlush
  <2>1. Head(backlog) \in Entry /\ Tail(backlog) \in Seq(Entry)
    BY <1>0, <1>10 DEF KernelFlush
  <2>2. cqes' \in [Slots -> Entry \cup {NoEntry}] /\ cachedTail' \in Index
    BY <1>0, <1>10, <2>1, WriteType DEF KernelFlush
  <2> QED
    BY <1>0, <1>10, <2>1, <2>2 DEF KernelFlush, handleVars
<1>11. CASE KernelPublish
  BY <1>0, <1>11 DEF KernelPublish, handleVars, kernelVars
<1>12. CASE UNCHANGED vars
  BY <1>0, <1>12 DEF vars, ringVars, handleVars, kernelVars
<1> QED
  BY <1>1, <1>2, <1>3, <1>4, <1>5, <1>6, <1>7, <1>8, <1>9, <1>10, <1>11, <1>12 DEF Next

\* Every step keeps the five positions in order.
LEMMA OrderStep == IInv /\ [Next]_vars => IndicesInOrder'
<1> SUFFICES ASSUME IInv, [Next]_vars PROVE IndicesInOrder'
  OBVIOUS
<1> USE RingSizes DEF IInv, TypeOK, Index, IndicesInOrder, UserHead, UserTail, WrappingSub
<1>1. CASE Borrow
  BY <1>1 DEF Borrow, ringVars, kernelVars
<1>2. CASE IterNext
  BY <1>2 DEF IterNext, Pop, ringVars, kernelVars, WrappingAdd
<1>3. ASSUME NEW n \in 1..MaxFill, Fill(n) PROVE IndicesInOrder'
  <2>1. n \in Nat /\ CqLen \in Nat
    BY QueueAssumption DEF CqLen
  <2>2. filling' \in Nat /\ filling' <= CqLen
    BY <1>3, <2>1, FillLength DEF Fill
  <2> QED
    BY <1>3, <2>2 DEF Fill, ringVars, kernelVars, CqLen
<1>4. CASE FillPop
  BY <1>4 DEF FillPop, Pop, ringVars, kernelVars, WrappingAdd
<1>5. CASE SyncStore
  BY <1>5 DEF SyncStore, kernelVars
<1>6. CASE SyncLoad
  BY <1>6 DEF SyncLoad, ringVars, kernelVars
<1>7. CASE Drop
  BY <1>7 DEF Drop, kernelVars
<1>8. ASSUME NEW entry \in Entry, KernelWrite(entry) PROVE IndicesInOrder'
  BY <1>8 DEF KernelWrite, WriteSlot, HasRoom, handleVars, WrappingAdd
<1>9. ASSUME NEW entry \in Entry, KernelOverflow(entry) PROVE IndicesInOrder'
  BY <1>9 DEF KernelOverflow, ringVars, handleVars
<1>10. CASE KernelFlush
  BY <1>10 DEF KernelFlush, WriteSlot, HasRoom, handleVars, WrappingAdd
<1>11. CASE KernelPublish
  BY <1>11 DEF KernelPublish, handleVars, kernelVars
<1>12. CASE UNCHANGED vars
  BY <1>12 DEF vars, ringVars, handleVars, kernelVars
<1> QED
  BY <1>1, <1>2, <1>3, <1>4, <1>5, <1>6, <1>7, <1>8, <1>9, <1>10, <1>11, <1>12 DEF Next

\* The invariant holds in every reachable state.
THEOREM Invariance == Spec => []IInv
<1>1. IInv /\ [Next]_vars => IInv'
  BY TypeStep, OrderStep DEF IInv
<1> QED
  BY <1>1, InitIInv, PTL DEF Spec

\* Type correctness.
THEOREM TypeCorrect == Spec => []TypeOK
<1>1. IInv => TypeOK
  BY DEF IInv
<1> QED
  BY <1>1, Invariance, PTL

\* The iterator, fill and sync never get past what the kernel has published,
\* and the kernel never past a full turn of the slots not given back.
THEOREM OrderCorrect == Spec => []IndicesInOrder
<1>1. IInv => IndicesInOrder
  BY DEF IInv
<1> QED
  BY <1>1, Invariance, PTL

\* CompletionStatus::is_empty is never true over a completion not consumed.
THEOREM StatusCorrect == Spec => []StatusNeverMissesWork
<1>1. IInv => StatusNeverMissesWork
  <2> SUFFICES ASSUME IInv, StatusIsEmpty
               PROVE  kTail = UserHead
    BY DEF StatusNeverMissesWork
  <2> QED
    BY RingSizes DEF IInv, TypeOK, Index, StatusIsEmpty, IndicesInOrder, UserHead,
                     UserTail, WrappingSub
<1> QED
  BY <1>1, Invariance, PTL

-----------------------------------------------------------------------------
(* The content of the ring.                                                *)

\* The program's position is an index; what lies between it and the kernel's
\* tail is no more than what lies behind the shared head.
LEMMA UserHeadType ==
  ASSUME IInv
  PROVE  /\ UserHead \in Index /\ kHead \in Index /\ cachedTail \in Index
         /\ WrappingSub(cachedTail, UserHead) <= WrappingSub(cachedTail, kHead)
         /\ {WrappingSub(cachedTail, UserHead), WrappingSub(cachedTail, kHead)} \subseteq Nat
BY RingSizes DEF IInv, TypeOK, Index, IndicesInOrder, UserHead, UserTail, WrappingSub

\* A slot written is none of those the program has still to read.
LEMMA WriteKeepsUnread ==
  ASSUME IInv, HasRoom, NEW entry \in Entry, WriteSlot(entry),
         NEW i \in 0..(RingEntries - 1), i < WrappingSub(cachedTail, UserHead)
  PROVE  cqes'[Slot(WrappingAdd(UserHead, i))] = cqes[Slot(WrappingAdd(UserHead, i))]
<1> DEFINE s == Slot(WrappingAdd(UserHead, i))
<1>1. UserHead \in Index /\ cachedTail \in Index
  BY UserHeadType
<1>2. WrappingSub(cachedTail, UserHead) + 0 < RingEntries
  BY UserHeadType, RingSizes DEF HasRoom
<1>3. WrappingAdd(cachedTail, 0) = cachedTail
  BY <1>1, RingSizes DEF WrappingAdd, Index
<1>4. i \in Nat /\ i \in 0..RingEntries
  BY RingSizes
<1>5. Slot(cachedTail) # s
  BY <1>1, <1>2, <1>3, <1>4, TailSlotIsFree
<1>6. s \in Slots
  BY <1>1, <1>4, WrappingAddType, SlotType
<1> QED
  BY <1>5, <1>6 DEF WriteSlot, IInv, TypeOK

\* No step changes a completion the program has still to read.
LEMMA UnreadKept ==
  ASSUME IInv, [Next]_vars,
         NEW i \in 0..(RingEntries - 1), i < WrappingSub(cachedTail, UserHead)
  PROVE  cqes'[Slot(WrappingAdd(UserHead, i))] = cqes[Slot(WrappingAdd(UserHead, i))]
<1>1. ASSUME NEW entry \in Entry, KernelWrite(entry)
      PROVE  cqes'[Slot(WrappingAdd(UserHead, i))] = cqes[Slot(WrappingAdd(UserHead, i))]
  BY <1>1, WriteKeepsUnread DEF KernelWrite
<1>2. CASE KernelFlush
  <2>1. Head(backlog) \in Entry
    BY <1>2 DEF KernelFlush, IInv, TypeOK
  <2> QED
    BY <1>2, <2>1, WriteKeepsUnread DEF KernelFlush
<1> QED
  BY <1>1, <1>2 DEF Next, vars, ringVars, Borrow, IterNext, Fill, FillPop, Pop, SyncStore,
                    SyncLoad, Drop, KernelOverflow, KernelPublish

\* The kernel never overwrites a completion the program has not consumed.
THEOREM UnreadCorrect == Spec => NoUnreadSlotOverwritten
<1>1. IInv /\ [Next]_vars =>
        [\A i \in 0..(RingEntries - 1) :
           i < WrappingSub(cachedTail, UserHead) =>
             LET s == Slot(WrappingAdd(UserHead, i)) IN cqes'[s] = cqes[s]]_vars
  BY UnreadKept
<1> QED
  BY <1>1, Invariance, PTL DEF Spec, NoUnreadSlotOverwritten

-----------------------------------------------------------------------------
(* The queue implements the channel.                                       *)

\* What a slot can hold.
Content == Entry \cup {NoEntry}

\* How many completions lie in the ring after the program's position, and which.
Unread == WrappingSub(cachedTail, UserHead)
InRing == Span(cqes, UserHead, Unread)

\* The variables of the channel as the mapping defines them.
LEMMA Mapping ==
  Channel!channelVars = <<InRing \o backlog, overflow, popped>>
BY DEF Channel!channelVars, InRing, Span, Unread

\* The types of what the mapping is made of.
LEMMA MappingType ==
  ASSUME IInv
  PROVE  /\ UserHead \in Index /\ cachedTail \in Index
         /\ cqes \in [Slots -> Content]
         /\ Unread \in Nat /\ Unread <= RingEntries
         /\ InRing \in Seq(Content) /\ backlog \in Seq(Content)
<1>1. /\ UserHead \in Index /\ cachedTail \in Index /\ cqes \in [Slots -> Content]
      /\ Unread \in Nat /\ Unread <= RingEntries
  <2>1. WrappingSub(cachedTail, kHead) <= RingEntries
    BY DEF IInv, IndicesInOrder
  <2> QED
    BY <2>1, UserHeadType, RingSizes DEF Unread, IInv, TypeOK, Content
<1>2. InRing \in Seq(Content)
  BY <1>1, SpanSeq, Zenon DEF InRing
<1>3. backlog \in Seq(Content)
  <2>1. backlog \in Seq(Entry)
    BY DEF IInv, TypeOK
  <2> QED
    BY <2>1 DEF Content
<1> QED
  BY <1>1, <1>2, <1>3

\* An empty ring is an empty channel.
LEMMA InitRefines == Init => Channel!Init
<1> SUFFICES ASSUME Init PROVE Channel!Init
  OBVIOUS
<1>1. WrappingSub(cachedTail, UserHead) = 0
  BY DEF Init, UserHead, WrappingSub
<1>2. [i \in 1..WrappingSub(cachedTail, UserHead) |->
         cqes[Slot(WrappingAdd(UserHead, i - 1))]] = <<>>
  BY <1>1
<1> QED
  BY <1>2 DEF Init, Channel!Init

\* Taking the entry at the program's position, in next or in fill, is Deliver.
LEMMA DeliverStep ==
  ASSUME IInv, Pop, handle # "none", UserHead # UserTail
  PROVE  Channel!Deliver
<1>1. /\ UserHead = head /\ UserHead' = WrappingAdd(head, 1)
      /\ UNCHANGED <<cqes, cachedTail, backlog, overflow>>
      /\ popped' = cqes[Slot(head)]
  BY DEF Pop, UserHead, ringVars, kernelVars
<1>2. Unread > 0 /\ WrappingSub(cachedTail, WrappingAdd(head, 1)) = Unread - 1
  BY RingSizes DEF IInv, TypeOK, Index, IndicesInOrder, UserHead, UserTail, WrappingSub,
                   WrappingAdd, Unread
<1>3. /\ InRing # <<>>
      /\ Head(InRing) = cqes[Slot(head)]
      /\ Tail(InRing) = Span(cqes, WrappingAdd(head, 1), Unread - 1)
  BY <1>1, <1>2, MappingType, SpanHeadTail, Zenon DEF InRing
<1>4. InRing' = Tail(InRing)
  BY <1>1, <1>2, <1>3 DEF InRing, Unread
<1>5. /\ InRing \o backlog # <<>>
      /\ Head(InRing \o backlog) = Head(InRing)
      /\ Tail(InRing \o backlog) = Tail(InRing) \o backlog
  BY <1>3, MappingType, HeadTailConcat
<1> QED
  BY <1>1, <1>3, <1>4, <1>5 DEF Channel!Deliver, InRing, Span, Unread

\* A completion stored to a free slot goes to the end of what lies in the ring.
LEMMA WriteAppends ==
  ASSUME IInv, HasRoom, NEW entry \in Entry, WriteSlot(entry),
         UNCHANGED <<kHead, handle, head>>
  PROVE  InRing' = Append(InRing, entry)
<1>1. /\ UserHead' = UserHead /\ Unread < RingEntries
      /\ UserHead \in Index /\ cachedTail \in Index /\ cqes \in [Slots -> Content]
      /\ Unread \in Nat /\ entry \in Content
  <2>1. Unread < RingEntries
    BY UserHeadType, RingSizes DEF HasRoom, Unread
  <2> QED
    BY <2>1, MappingType DEF UserHead, Content
<1>2. WrappingAdd(UserHead, Unread) = cachedTail
  BY <1>1, AddDistance DEF Unread
<1>3. /\ cachedTail' = WrappingAdd(cachedTail, 1)
      /\ cqes' = [cqes EXCEPT ![Slot(WrappingAdd(UserHead, Unread))] = entry]
  BY <1>2 DEF WriteSlot
<1>4. Unread' = Unread + 1
  <2>1. WrappingSub(WrappingAdd(cachedTail, 1), UserHead) = WrappingSub(cachedTail, UserHead) + 1
    BY <1>1, DistanceGrows, RingSizes DEF Unread
  <2> QED
    BY <1>1, <1>3, <2>1 DEF Unread
<1>5. Span([cqes EXCEPT ![Slot(WrappingAdd(UserHead, Unread))] = entry], UserHead, Unread + 1)
        = Append(Span(cqes, UserHead, Unread), entry)
  <2> HIDE DEF Unread, UserHead
  <2>1. /\ cqes \in [Slots -> Content] /\ UserHead \in Index
        /\ Unread \in Nat /\ Unread < RingEntries /\ entry \in Content
    BY <1>1
  <2> QED
    BY ONLY <2>1, SpanAppend, ZenonT(60)
<1> QED
  BY <1>1, <1>3, <1>4, <1>5 DEF InRing

\* A completion posted is Post, in the ring or in the backlog, or Lose.
LEMMA PostStep ==
  ASSUME IInv, NEW entry \in Entry, KernelWrite(entry) \/ KernelOverflow(entry)
  PROVE  Channel!Post(entry) \/ Channel!Lose
<1>0. entry \in Content
  BY DEF Content
<1>1. CASE KernelWrite(entry)
  <2>1. InRing' = Append(InRing, entry)
    BY <1>1, WriteAppends DEF KernelWrite, handleVars
  <2>2. backlog = <<>> /\ UNCHANGED <<backlog, overflow, popped>>
    BY <1>1 DEF KernelWrite
  <2>3. InRing \o <<>> = InRing /\ Append(InRing, entry) \o <<>> = Append(InRing, entry)
    <3>1. Append(InRing, entry) \in Seq(Content)
      BY <1>0, MappingType, AppendProperties
    <3> QED
      BY <3>1, MappingType, ConcatEmptySeq
  <2>4. (InRing \o backlog)' = Append(InRing \o backlog, entry)
    BY <2>1, <2>2, <2>3
  <2> QED
    BY <2>2, <2>4, Mapping DEF Channel!Post, InRing, Span, Unread
<1>2. CASE KernelOverflow(entry)
  <2>1. InRing' = InRing /\ UNCHANGED popped
    BY <1>2 DEF KernelOverflow, ringVars, handleVars, InRing, Span, Unread, UserHead
  <2>2. CASE backlog' = Append(backlog, entry) /\ UNCHANGED overflow
    <3>1. (InRing \o backlog)' = Append(InRing \o backlog, entry)
      BY <1>0, <2>1, <2>2, MappingType, AppendConcat
    <3> QED
      BY <2>1, <2>2, <3>1 DEF Channel!Post, InRing, Span, Unread
  <2>3. CASE overflow' = WrappingAdd(overflow, 1) /\ UNCHANGED backlog
    <3>1. WrappingAdd(overflow, 1) = (overflow + 1) % IndexMod
      BY RingSizes DEF IInv, TypeOK, Index, WrappingAdd
    <3> QED
      BY <2>1, <2>3, <3>1 DEF Channel!Lose, InRing, Span, Unread
  <2> QED
    BY <1>2, <2>2, <2>3 DEF KernelOverflow
<1> QED
  BY <1>1, <1>2

\* Moving the oldest waiting completion to the ring changes nothing.
LEMMA FlushStep ==
  ASSUME IInv, KernelFlush
  PROVE  UNCHANGED Channel!channelVars
<1>1. /\ backlog # <<>> /\ backlog' = Tail(backlog) /\ UNCHANGED <<overflow, popped>>
      /\ Head(backlog) \in Entry
  BY DEF KernelFlush, IInv, TypeOK
<1>2. InRing' = Append(InRing, Head(backlog))
  BY <1>1, WriteAppends DEF KernelFlush, handleVars
<1>3. (InRing \o backlog)' = InRing \o backlog
  BY <1>1, <1>2, MappingType, MoveHead
<1> QED
  BY <1>1, <1>3, Mapping DEF InRing, Span, Unread, Channel!channelVars

\* Steps that move neither the program's position nor the kernel's tail.
LEMMA QuietStep ==
  ASSUME UNCHANGED <<UserHead, cqes, cachedTail, backlog, overflow, popped>>
  PROVE  UNCHANGED Channel!channelVars
BY DEF Channel!channelVars

\* Every step of the queue is a step of the channel or a stutter.
LEMMA NextRefines ==
  ASSUME IInv, [Next]_vars
  PROVE  [Channel!Next]_(Channel!channelVars)
<1>1. CASE IterNext
  <2>1. UserHead # UserTail /\ handle # "none" /\ Pop
    BY <1>1 DEF IterNext, UserHead, UserTail
  <2> QED
    BY <2>1, DeliverStep DEF Channel!Next
<1>2. CASE FillPop
  <2>1. UserHead # UserTail /\ handle # "none"
    BY <1>2, RingSizes DEF FillPop, IInv, TypeOK, Index, IndicesInOrder, UserHead, UserTail,
                           WrappingSub
  <2> QED
    BY <1>2, <2>1, DeliverStep DEF FillPop, Channel!Next
<1>3. ASSUME NEW entry \in Entry, KernelWrite(entry) \/ KernelOverflow(entry)
      PROVE  [Channel!Next]_(Channel!channelVars)
  BY <1>3, PostStep DEF Channel!Next
<1>4. CASE KernelFlush
  BY <1>4, FlushStep
<1>5. ASSUME UNCHANGED <<UserHead, cqes, cachedTail, backlog, overflow, popped>>
      PROVE  [Channel!Next]_(Channel!channelVars)
  BY <1>5, QuietStep
<1>6. CASE Borrow \/ SyncStore \/ SyncLoad \/ Drop \/ KernelPublish \/ UNCHANGED vars
  <2>1. UNCHANGED <<UserHead, cqes, cachedTail, backlog, overflow, popped>>
    BY <1>6 DEF Borrow, SyncStore, SyncLoad, Drop, KernelPublish, vars, ringVars,
                handleVars, kernelVars, UserHead
  <2> QED
    BY <1>5, <2>1
<1>7. ASSUME NEW n \in 1..MaxFill, Fill(n)
      PROVE  [Channel!Next]_(Channel!channelVars)
  BY <1>5, <1>7 DEF Fill, ringVars, kernelVars, UserHead
<1> QED
  BY <1>1, <1>2, <1>3, <1>4, <1>6, <1>7 DEF Next

\* The completion queue is the channel it promises to be: completions reach the
\* program once, unchanged and in the order they were posted, and those that do
\* not are counted.
THEOREM QueueIsChannel == Spec => ImplementsChannel
<1>1. IInv /\ [Next]_vars => [Channel!Next]_(Channel!channelVars)
  BY NextRefines
<1> QED
  BY <1>1, InitRefines, Invariance, PTL DEF Spec, Channel!Spec, ImplementsChannel

=============================================================================
