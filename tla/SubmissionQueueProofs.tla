------------------------ MODULE SubmissionQueueProofs ------------------------
(***************************************************************************)
(* Proofs about SubmissionQueue, for every ring size, index width, set of  *)
(* entries and batch size.                                                 *)
(***************************************************************************)
EXTENDS SubmissionQueue, RingIndexTheorems

\* The handle's head is behind the shared one by exactly what its len()
\* overestimates, and never sees more than a full ring.
HandleView ==
  /\ handle # "none" =>
       /\ WrappingSub(tail, kHead) + WrappingSub(kHead, head) = WrappingSub(tail, head)
       /\ WrappingSub(tail, head) <= RingEntries
  /\ handle = "syncing" => kTail = tail

\* The inductive invariant.
IInv == TypeOK /\ IndicesInOrder /\ HandleView

-----------------------------------------------------------------------------
(* Sequences pushed and slots stored.                                      *)

\* What push_multiple is given is a sequence of entries.
LEMMA BatchType ==
  ASSUME NEW entries \in SeqOf(Entry, MaxBatch)
  PROVE  entries \in Seq(Entry) /\ Len(entries) \in Nat
<1>1. PICK m \in 0..MaxBatch : entries \in [1..m -> Entry]
  BY DEF SeqOf
<1>2. m \in Nat
  BY QueueAssumption
<1> QED
  BY <1>1, <1>2

\* A batch no longer than the ring fills as many different slots: each of its
\* entries is where its position says, every other slot is as before.
LEMMA StoredSlots ==
  ASSUME NEW entries \in Seq(Entry), Len(entries) <= RingEntries,
         NEW pos \in Index, sqes \in [Slots -> Entry \cup {NoEntry}]
  PROVE  /\ Stored(entries, pos) \in [Slots -> Entry \cup {NoEntry}]
         /\ \A i \in 1..Len(entries) :
              Stored(entries, pos)[Slot(WrappingAdd(pos, i - 1))] = entries[i]
         /\ \A s \in Slots :
              (\A i \in 1..Len(entries) : Slot(WrappingAdd(pos, i - 1)) # s)
                => Stored(entries, pos)[s] = sqes[s]
<1> DEFINE hits(s) == {i \in 1..Len(entries) : Slot(WrappingAdd(pos, i - 1)) = s}
           last(s) == CHOOSE i \in hits(s) : \A j \in hits(s) : j <= i
<1>1. \A i \in 1..Len(entries) : i - 1 \in 0..(RingEntries - 1) /\ i - 1 \in 0..RingEntries
  BY RingSizes
<1>2. ASSUME NEW s \in Slots, NEW i \in hits(s)
      PROVE  last(s) = i
  <2>1. \A j \in hits(s) : j = i
    <3> TAKE j \in hits(s)
    <3>1. i - 1 = j - 1
      BY <1>1, SlotsDistinct
    <3> QED
      BY <3>1
  <2>2. i <= i
    OBVIOUS
  <2> QED
    BY <2>1, <2>2
<1>3. \A i \in 1..Len(entries) : Slot(WrappingAdd(pos, i - 1)) \in Slots
  BY <1>1, WrappingAddType, SlotType
<1>4. Stored(entries, pos)
        = [s \in Slots |-> IF hits(s) = {} THEN sqes[s] ELSE entries[last(s)]]
  BY DEF Stored
<1>5. ASSUME NEW s \in Slots, hits(s) # {}
      PROVE  entries[last(s)] \in Entry
  <2>1. PICK i \in hits(s) : TRUE
    BY <1>5
  <2>2. i \in 1..Len(entries) /\ last(s) = i
    BY <1>2
  <2> HIDE DEF last, hits
  <2> QED
    BY <2>2
<1> HIDE DEF last
<1>6. \A i \in 1..Len(entries) : i \in hits(Slot(WrappingAdd(pos, i - 1)))
  OBVIOUS
<1>7. \A i \in 1..Len(entries) : last(Slot(WrappingAdd(pos, i - 1))) = i
  BY <1>2, <1>3, <1>6
<1> QED
  <2>1. Stored(entries, pos) \in [Slots -> Entry \cup {NoEntry}]
    BY <1>4, <1>5
  <2>2. ASSUME NEW i \in 1..Len(entries)
        PROVE  Stored(entries, pos)[Slot(WrappingAdd(pos, i - 1))] = entries[i]
    BY <1>3, <1>4, <1>6, <1>7
  <2>3. ASSUME NEW s \in Slots,
               \A i \in 1..Len(entries) : Slot(WrappingAdd(pos, i - 1)) # s
        PROVE  Stored(entries, pos)[s] = sqes[s]
    BY <1>4, <2>3
  <2> QED
    BY <2>1, <2>2, <2>3

-----------------------------------------------------------------------------
(* The invariant.                                                          *)

\* The index array is the identity, so the kernel reads the slot itself.
LEMMA SqeAtSlot ==
  ASSUME NEW i \in Index
  PROVE  SqeAt(i) = sqes[Slot(i)]
BY SlotType DEF SqeAt, SqArray

LEMMA InitIInv == Init => IInv
<1> SUFFICES ASSUME Init PROVE IInv
  OBVIOUS
<1>1. TypeOK
  BY RingSizes DEF Init, TypeOK, Index
<1>2. IndicesInOrder
  BY RingSizes DEF Init, IndicesInOrder, UserTail, WrappingSub
<1>3. HandleView
  BY DEF Init, HandleView
<1> QED
  BY <1>1, <1>2, <1>3 DEF IInv

\* Every step keeps the variables in their types.
LEMMA TypeStep == IInv /\ [Next]_vars => TypeOK'
<1> SUFFICES ASSUME IInv, [Next]_vars PROVE TypeOK'
  OBVIOUS
<1> USE RingSizes DEF IInv, TypeOK
<1>1. CASE Borrow
  BY <1>1 DEF Borrow, ringVars, kernelVars
<1>2. ASSUME NEW entry \in Entry, Push(entry) PROVE TypeOK'
  <2>1. WrappingAdd(tail, 1) \in Index
    BY WrappingAddType
  <2>2. [sqes EXCEPT ![Slot(tail)] = entry] \in [Slots -> Entry \cup {NoEntry}]
    OBVIOUS
  <2> QED
    BY <1>2, <2>1, <2>2 DEF Push, kernelVars
<1>3. ASSUME NEW entries \in SeqOf(Entry, MaxBatch), PushMultiple(entries)
      PROVE  TypeOK'
  <2>1. CASE HasRoom(Len(entries))
    <3>1. entries \in Seq(Entry) /\ Len(entries) \in 0..RingEntries
      <4>1. SqLen \in Nat
        BY WrappingSubType DEF SqLen, Index
      <4>2. entries \in Seq(Entry) /\ Len(entries) \in Nat
        BY BatchType
      <4> QED
        BY <2>1, <4>1, <4>2 DEF HasRoom
    <3>2. WrappingAdd(tail, Len(entries)) \in Index
      BY <3>1, WrappingAddType
    <3>3. Stored(entries, tail) \in [Slots -> Entry \cup {NoEntry}]
      BY <3>1, StoredSlots
    <3> QED
      BY <1>3, <2>1, <3>2, <3>3 DEF PushMultiple, kernelVars
  <2>2. CASE ~HasRoom(Len(entries))
    BY <1>3, <2>2 DEF PushMultiple, kernelVars
  <2> QED
    BY <2>1, <2>2
<1>4. CASE SyncStore
  BY <1>4 DEF SyncStore, kernelVars
<1>5. CASE SyncLoad
  BY <1>5 DEF SyncLoad, ringVars, kernelVars
<1>6. CASE Drop
  BY <1>6 DEF Drop, kernelVars, Index
<1>7. CASE KernelBegin
  <2>1. WrappingSub(kTail, cachedHead) \in 0..RingEntries
    BY <1>7, WrappingSubType DEF KernelBegin, IndicesInOrder, Index, UserTail, WrappingSub
  <2> QED
    BY <1>7, <2>1 DEF KernelBegin, ringVars, handleVars
<1>8. CASE KernelRead
  <2>1. WrappingAdd(cachedHead, 1) \in Index
    BY WrappingAddType
  <2>2. SqeAt(cachedHead) \in Entry \cup {NoEntry}
    BY SqeAtSlot, SlotType
  <2> QED
    BY <1>8, <2>1, <2>2 DEF KernelRead, ringVars, handleVars
<1>9. CASE KernelCommit
  BY <1>9 DEF KernelCommit, handleVars
<1>10. CASE UNCHANGED vars
  BY <1>10 DEF vars, ringVars, handleVars, kernelVars
<1> QED
  BY <1>1, <1>2, <1>3, <1>4, <1>5, <1>6, <1>7, <1>8, <1>9, <1>10 DEF Next, Kernel

\* Every step keeps the four indices in order.
LEMMA OrderStep == IInv /\ [Next]_vars => IndicesInOrder' /\ HandleView'
<1> SUFFICES ASSUME IInv, [Next]_vars PROVE IndicesInOrder' /\ HandleView'
  OBVIOUS
<1> USE RingSizes DEF IInv, TypeOK, Index, IndicesInOrder, HandleView, UserTail,
                      WrappingSub
<1>1. CASE Borrow
  BY <1>1 DEF Borrow, ringVars, kernelVars
<1>2. ASSUME NEW entry \in Entry, Push(entry)
      PROVE  IndicesInOrder' /\ HandleView'
  <2>1. CASE ~IsFull
    BY <1>2, <2>1 DEF Push, kernelVars, IsFull, SqLen, WrappingAdd
  <2>2. CASE IsFull
    BY <1>2, <2>2 DEF Push, kernelVars
  <2> QED
    BY <2>1, <2>2
<1>3. ASSUME NEW entries \in SeqOf(Entry, MaxBatch), PushMultiple(entries)
      PROVE  IndicesInOrder' /\ HandleView'
  <2>1. CASE HasRoom(Len(entries))
    <3>1. Len(entries) \in Nat
      BY BatchType
    <3>2. PICK n \in Nat : n <= RingEntries - WrappingSub(tail, head)
                            /\ tail' = WrappingAdd(tail, n)
      BY <1>3, <2>1, <3>1 DEF PushMultiple, HasRoom, SqLen
    <3>3. handle = "held" /\ UNCHANGED <<kHead, kTail, handle, head, cachedHead, budget>>
      BY <1>3 DEF PushMultiple, kernelVars
    <3> QED
      BY <3>2, <3>3 DEF WrappingAdd
  <2>2. CASE ~HasRoom(Len(entries))
    BY <1>3, <2>2 DEF PushMultiple, kernelVars
  <2> QED
    BY <2>1, <2>2
<1>4. CASE SyncStore
  BY <1>4 DEF SyncStore, kernelVars
<1>5. CASE SyncLoad
  BY <1>5 DEF SyncLoad, ringVars, kernelVars
<1>6. CASE Drop
  BY <1>6 DEF Drop, kernelVars
<1>7. CASE KernelBegin
  BY <1>7 DEF KernelBegin, ringVars, handleVars
<1>8. CASE KernelRead
  BY <1>8 DEF KernelRead, ringVars, handleVars, WrappingAdd
<1>9. CASE KernelCommit
  BY <1>9 DEF KernelCommit, handleVars
<1>10. CASE UNCHANGED vars
  BY <1>10 DEF vars, ringVars, handleVars, kernelVars
<1> QED
  BY <1>1, <1>2, <1>3, <1>4, <1>5, <1>6, <1>7, <1>8, <1>9, <1>10 DEF Next, Kernel

\* The strengthened invariant holds in every reachable state.
THEOREM Invariance == Spec => []IInv
<1>1. Init => IInv
  BY InitIInv
<1>2. IInv /\ [Next]_vars => IInv'
  BY TypeStep, OrderStep DEF IInv
<1> QED
  BY <1>1, <1>2, PTL DEF Spec

\* Type correctness.
THEOREM TypeCorrect == Spec => []TypeOK
<1>1. IInv => TypeOK
  BY DEF IInv
<1> QED
  BY <1>1, Invariance, PTL

\* The kernel never gets past what is published, and nothing published is
\* taken back.
THEOREM OrderCorrect == Spec => []IndicesInOrder
<1>1. IInv => IndicesInOrder
  BY DEF IInv
<1> QED
  BY <1>1, Invariance, PTL

\* The handle's len() never underestimates, and never exceeds the capacity.
THEOREM LenCorrect == Spec => []LenNeverUnderestimates
<1>1. IInv => LenNeverUnderestimates
  <2> SUFFICES ASSUME IInv, handle # "none"
               PROVE  WrappingSub(tail, kHead) <= SqLen /\ SqLen <= RingEntries
    BY DEF LenNeverUnderestimates
  <2>1. {WrappingSub(tail, kHead), WrappingSub(kHead, head)} \subseteq Nat
    BY WrappingSubType DEF IInv, TypeOK, Index
  <2> QED
    BY <2>1 DEF IInv, HandleView, SqLen
<1> QED
  BY <1>1, Invariance, PTL

-----------------------------------------------------------------------------
(* The content of the ring.                                                *)

\* No step changes a live slot.
LEMMA LiveSlotsKept ==
  ASSUME IInv, [Next]_vars,
         NEW i \in 0..(RingEntries - 1), i < WrappingSub(UserTail, kHead)
  PROVE  sqes'[Slot(WrappingAdd(kHead, i))] = sqes[Slot(WrappingAdd(kHead, i))]
<1> DEFINE s == Slot(WrappingAdd(kHead, i))
<1> USE DEF IInv, TypeOK
<1>1. s \in Slots /\ tail \in Index /\ kHead \in Index
  <2>1. i \in 0..RingEntries
    BY RingSizes
  <2>2. WrappingAdd(kHead, i) \in Index
    BY <2>1, WrappingAddType
  <2> QED
    BY <2>2, SlotType
<1>2. ASSUME handle = "held"
      PROVE  /\ i < WrappingSub(tail, kHead)
             /\ WrappingSub(tail, kHead) <= SqLen
             /\ {WrappingSub(tail, kHead), SqLen} \subseteq Nat
  <2>1. {WrappingSub(tail, kHead), WrappingSub(kHead, head), WrappingSub(tail, head)}
          \subseteq Nat
    BY WrappingSubType DEF Index
  <2> QED
    BY <1>2, <2>1 DEF UserTail, HandleView, SqLen
<1>3. ASSUME NEW entry \in Entry, Push(entry) PROVE sqes'[s] = sqes[s]
  <2>1. CASE ~IsFull
    <3>1. WrappingSub(tail, kHead) + 0 < RingEntries
      BY <1>2, <1>3, <2>1, RingSizes DEF Push, IsFull, SqLen, HandleView
    <3>2. WrappingAdd(tail, 0) = tail
      BY RingSizes DEF WrappingAdd, Index
    <3>3. Slot(WrappingAdd(tail, 0)) # s
      BY <1>1, <1>2, <1>3, <3>1, TailSlotIsFree DEF Push
    <3> QED
      BY <1>1, <1>3, <2>1, <3>2, <3>3 DEF Push
  <2>2. CASE IsFull
    BY <1>3, <2>2 DEF Push
  <2> QED
    BY <2>1, <2>2
<1>4. ASSUME NEW entries \in SeqOf(Entry, MaxBatch), PushMultiple(entries)
      PROVE  sqes'[s] = sqes[s]
  <2>1. CASE HasRoom(Len(entries))
    <3>1. /\ entries \in Seq(Entry) /\ Len(entries) \in Nat
          /\ WrappingSub(tail, kHead) + Len(entries) <= RingEntries
      BY <1>2, <1>4, <2>1, BatchType, RingSizes DEF PushMultiple, HasRoom
    <3>2. ASSUME NEW j \in 1..Len(entries)
          PROVE  Slot(WrappingAdd(tail, j - 1)) # s
      <4>1. /\ j - 1 \in Nat /\ i \in Nat
            /\ WrappingSub(tail, kHead) + (j - 1) < RingEntries
            /\ i < WrappingSub(tail, kHead)
        BY <1>2, <1>4, <3>1, RingSizes DEF PushMultiple
      <4> QED
        BY <1>1, <4>1, TailSlotIsFree
    <3>3. Len(entries) <= RingEntries
      BY <1>2, <1>4, <3>1, RingSizes DEF PushMultiple
    <3>4. Stored(entries, tail)[s] = sqes[s]
      BY <1>1, <3>1, <3>2, <3>3, StoredSlots
    <3> QED
      BY <1>4, <2>1, <3>4 DEF PushMultiple
  <2>2. CASE ~HasRoom(Len(entries))
    BY <1>4, <2>2 DEF PushMultiple
  <2> QED
    BY <2>1, <2>2
<1> QED
  BY <1>3, <1>4 DEF Next, Kernel, vars, ringVars, Borrow, SyncStore, SyncLoad, Drop,
                    KernelBegin, KernelRead, KernelCommit

\* Entries accepted keep their slots until the kernel has given them back.
THEOREM LiveSlotsCorrect == Spec => NoLiveSlotOverwritten
<1>1. IInv /\ [Next]_vars =>
        [\A i \in 0..(RingEntries - 1) :
           i < WrappingSub(UserTail, kHead) =>
             LET s == Slot(WrappingAdd(kHead, i)) IN sqes'[s] = sqes[s]]_vars
  BY LiveSlotsKept
<1> QED
  BY <1>1, Invariance, PTL DEF Spec, NoLiveSlotOverwritten

-----------------------------------------------------------------------------
(* SubmissionQueue implements SubmissionChannel, for every value of the     *)
(* constants: the ring with its stale copies of the indices is a bounded    *)
(* first-in first-out channel.                                             *)

\* What a slot can hold.
Content == Entry \cup {NoEntry}

-----------------------------------------------------------------------------
(* The refinement mapping.                                                 *)

\* The three stretches of the ring as the mapping sees them.
LEMMA Mapping ==
  IInv =>
    /\ Between(kTail, UserTail) = Span(sqes, kTail, WrappingSub(UserTail, kTail))
    /\ Between(cachedHead, kTail) = Span(sqes, cachedHead, WrappingSub(kTail, cachedHead))
<1> SUFFICES ASSUME IInv
             PROVE  /\ Between(kTail, UserTail)
                         = Span(sqes, kTail, WrappingSub(UserTail, kTail))
                    /\ Between(cachedHead, kTail)
                         = Span(sqes, cachedHead, WrappingSub(kTail, cachedHead))
  OBVIOUS
<1>1. ASSUME NEW a \in Index, NEW n \in Nat, n <= RingEntries, NEW i \in 1..n
      PROVE  SqeAt(WrappingAdd(a, i - 1)) = sqes[Slot(WrappingAdd(a, i - 1))]
  <2>1. i - 1 \in 0..RingEntries
    BY <1>1, RingSizes
  <2> QED
    BY <2>1, WrappingAddType, SqeAtSlot
<1>2. /\ kTail \in Index /\ cachedHead \in Index
      /\ WrappingSub(UserTail, kTail) \in 0..RingEntries
      /\ WrappingSub(kTail, cachedHead) \in 0..RingEntries
  BY RingSizes DEF IInv, TypeOK, IndicesInOrder, UserTail, Index, WrappingSub
<1> QED
  BY <1>1, <1>2 DEF Between, Span

\* The numbers behind the mapping: each stretch fits, and they add up.
LEMMA Lengths ==
  IInv =>
    /\ {kHead, kTail, cachedHead, UserTail} \subseteq Index
    /\ sqes \in [Slots -> Content]
    /\ WrappingSub(cachedHead, kHead) \in 0..RingEntries
    /\ WrappingSub(kTail, cachedHead) \in 0..RingEntries
    /\ WrappingSub(UserTail, kTail) \in 0..RingEntries
    /\ WrappingSub(cachedHead, kHead) + WrappingSub(kTail, cachedHead)
         + WrappingSub(UserTail, kTail) = WrappingSub(UserTail, kHead)
    /\ WrappingSub(UserTail, kHead) \in 0..RingEntries
BY RingSizes DEF IInv, TypeOK, IndicesInOrder, UserTail, Index, WrappingSub, Content

\* What of the ring's content the mapping shows does not change in a step.
LEMMA SpansKept ==
  ASSUME IInv, [Next]_vars
  PROVE  /\ Span(sqes', kTail, WrappingSub(UserTail, kTail))
              = Span(sqes, kTail, WrappingSub(UserTail, kTail))
         /\ Span(sqes', cachedHead, WrappingSub(kTail, cachedHead))
              = Span(sqes, cachedHead, WrappingSub(kTail, cachedHead))
<1> DEFINE d == WrappingSub(kTail, kHead)
           e == WrappingSub(cachedHead, kHead)
<1>1. /\ {kHead, kTail, cachedHead} \subseteq Index
      /\ d \in Nat /\ e \in Nat /\ e <= d
      /\ WrappingSub(UserTail, kTail) \in Nat /\ WrappingSub(kTail, cachedHead) \in Nat
      /\ d + WrappingSub(UserTail, kTail) = WrappingSub(UserTail, kHead)
      /\ e + WrappingSub(kTail, cachedHead) = d
      /\ WrappingSub(UserTail, kHead) <= RingEntries
      /\ WrappingSub(UserTail, kHead) \in Nat
  BY RingSizes DEF IInv, TypeOK, IndicesInOrder, UserTail, Index, WrappingSub
<1>2. WrappingAdd(kHead, d) = kTail /\ WrappingAdd(kHead, e) = cachedHead
  BY <1>1, AddDistance
<1> HIDE DEF d, e
<1>3. ASSUME NEW i \in 1..WrappingSub(UserTail, kTail)
      PROVE  sqes'[Slot(WrappingAdd(kTail, i - 1))] = sqes[Slot(WrappingAdd(kTail, i - 1))]
  <2>1. /\ i - 1 \in Nat /\ d + (i - 1) <= RingEntries
        /\ d + (i - 1) \in 0..(RingEntries - 1)
        /\ d + (i - 1) < WrappingSub(UserTail, kHead)
    BY <1>1, RingSizes
  <2>2. WrappingAdd(kTail, i - 1) = WrappingAdd(kHead, d + (i - 1))
    BY <1>1, <1>2, <2>1, AddTwice
  <2> QED
    BY <2>1, <2>2, LiveSlotsKept
<1>4. ASSUME NEW i \in 1..WrappingSub(kTail, cachedHead)
      PROVE  sqes'[Slot(WrappingAdd(cachedHead, i - 1))]
               = sqes[Slot(WrappingAdd(cachedHead, i - 1))]
  <2>1. /\ i - 1 \in Nat /\ e + (i - 1) <= RingEntries
        /\ e + (i - 1) \in 0..(RingEntries - 1)
        /\ e + (i - 1) < WrappingSub(UserTail, kHead)
    BY <1>1, RingSizes
  <2>2. WrappingAdd(cachedHead, i - 1) = WrappingAdd(kHead, e + (i - 1))
    BY <1>1, <1>2, <2>1, AddTwice
  <2> QED
    BY <2>1, <2>2, LiveSlotsKept
<1>5. Span(sqes', kTail, WrappingSub(UserTail, kTail))
        = Span(sqes, kTail, WrappingSub(UserTail, kTail))
  BY <1>3 DEF Span
<1>6. Span(sqes', cachedHead, WrappingSub(kTail, cachedHead))
        = Span(sqes, cachedHead, WrappingSub(kTail, cachedHead))
  BY <1>4 DEF Span
<1> QED
  BY <1>5, <1>6

-----------------------------------------------------------------------------
(* Every step is a step of the channel, or leaves it as it is.             *)

\* The variables of the channel as the mapping defines them.
Mapped == <<Between(kTail, UserTail), Between(cachedHead, kTail),
            WrappingSub(cachedHead, kHead), taken>>

\* An empty ring is an empty channel.
LEMMA InitRefines == Init => Channel!Init
<1> SUFFICES ASSUME Init PROVE Channel!Init
  OBVIOUS
<1>1. WrappingSub(0, 0) = 0
  BY DEF WrappingSub
<1>2. Between(kTail, UserTail) = <<>> /\ Between(cachedHead, kTail) = <<>>
  BY <1>1 DEF Init, Between, UserTail
<1> QED
  BY <1>1, <1>2 DEF Init, Channel!Init

\* A step that moves no index of the ring and stores nothing.
LEMMA QuietStep ==
  ASSUME UNCHANGED <<kHead, kTail, sqes, UserTail, cachedHead, taken>>
  PROVE  UNCHANGED Mapped
<1>1. ASSUME NEW i PROVE SqeAt(i)' = SqeAt(i)
  BY DEF SqeAt
<1> QED
  BY <1>1 DEF Mapped, Between

\* Accepting n entries at the tail is Stage.
LEMMA StageStep ==
  ASSUME IInv, IInv', [Next]_vars, NEW entries \in Seq(Entry),
         NEW n \in Nat, Len(entries) = n,
         handle = "held",
         WrappingSub(UserTail, kHead) + n <= RingEntries,
         tail' = WrappingAdd(tail, n),
         \A i \in 1..n :
           sqes'[Slot(WrappingAdd(tail, i - 1))] = entries[i],
         UNCHANGED <<kHead, kTail, handle, head, cachedHead, taken>>
  PROVE  Channel!Stage(entries)
<1> DEFINE d == WrappingSub(UserTail, kTail)
<1>1. /\ UserTail = tail /\ UserTail' = tail' /\ kTail \in Index /\ tail \in Index
      /\ sqes' \in [Slots -> Content] /\ sqes \in [Slots -> Content]
  BY DEF UserTail, IInv, TypeOK, Content
<1>2. /\ n <= RingEntries
      /\ d \in 0..RingEntries /\ d + n <= RingEntries
  <2>1. d + WrappingSub(kTail, kHead) = WrappingSub(UserTail, kHead)
        /\ d \in Nat /\ WrappingSub(kTail, kHead) \in Nat
    BY RingSizes DEF IInv, TypeOK, IndicesInOrder, UserTail, Index, WrappingSub
  <2> HIDE DEF d
  <2> QED
    BY <2>1, RingSizes
<1>3. WrappingSub(tail', kTail) = d + n
  BY <1>1, <1>2, DistanceGrows
<1>9. WrappingAdd(kTail, d) = tail
  BY <1>1, AddDistance
<1>4. Span(sqes', tail, n) = entries
  <2>1. /\ Span(sqes', tail, n) \in Seq(Content) /\ Len(Span(sqes', tail, n)) = n
        /\ \A i \in 1..n : Span(sqes', tail, n)[i] = sqes'[Slot(WrappingAdd(tail, i - 1))]
    <3> DEFINE mem == sqes'
    <3>1. mem \in [Slots -> Content] /\ n <= RingEntries /\ tail \in Index
      BY <1>1, <1>2
    <3> HIDE DEF mem
    <3>2. IsSpan(Span(mem, tail, n), Content, mem, tail, n)
      BY <3>1, SpanIsSpan, Zenon
    <3> QED
      BY <3>2 DEF mem, IsSpan
  <2>2. entries \in Seq(Content)
    BY DEF Content
  <2> QED
    BY <2>1, <2>2, SeqEqual
<1>5. Between(kTail, UserTail)' = Between(kTail, UserTail) \o entries
  <2>1. Between(kTail, UserTail)' = Span(sqes', kTail, d + n)
    <3>1. (IInv => Between(kTail, UserTail)
                     = Span(sqes, kTail, WrappingSub(UserTail, kTail)))'
      BY Mapping, PTL
    <3> QED
      BY <1>1, <1>3, <3>1
  <2>2. Span(sqes', kTail, d + n)
          = Span(sqes', kTail, d) \o Span(sqes', WrappingAdd(kTail, d), n)
    <3>1. d \in Nat
      BY <1>2, RingSizes
    <3> HIDE DEF d
    <3> QED
      BY <1>1, <1>2, <3>1, SpanConcat
  <2>3. Span(sqes', kTail, d) = Between(kTail, UserTail)
    BY SpansKept, Mapping
  <2> QED
    BY <1>9, <1>4, <2>1, <2>2, <2>3
<1>6. Between(cachedHead, kTail)' = Between(cachedHead, kTail)
  <2>1. Between(cachedHead, kTail)' = Span(sqes', cachedHead, WrappingSub(kTail, cachedHead))
    <3>1. (IInv => Between(cachedHead, kTail)
                     = Span(sqes, cachedHead, WrappingSub(kTail, cachedHead)))'
      BY Mapping, PTL
    <3> QED
      BY <3>1
  <2> QED
    BY <2>1, SpansKept, Mapping
<1>7. Len(Between(kTail, UserTail)) + Len(Between(cachedHead, kTail))
        + WrappingSub(cachedHead, kHead) = WrappingSub(UserTail, kHead)
  <2>0. ASSUME NEW from \in Index, NEW k \in 0..RingEntries
        PROVE  Len(Span(sqes, from, k)) = k
    <3>1. k \in Nat /\ k <= RingEntries
      BY RingSizes
    <3>2. IsSpan(Span(sqes, from, k), Content, sqes, from, k)
      BY <1>1, <3>1, SpanIsSpan, Zenon
    <3> QED
      BY <3>2 DEF IsSpan
  <2>1. Len(Between(kTail, UserTail)) = WrappingSub(UserTail, kTail)
    BY <2>0, Mapping, Lengths
  <2>2. Len(Between(cachedHead, kTail)) = WrappingSub(kTail, cachedHead)
    BY <2>0, Mapping, Lengths
  <2> QED
    BY <2>1, <2>2, Lengths
<1>8. WrappingSub(cachedHead, kHead)' = WrappingSub(cachedHead, kHead)
  BY DEF WrappingSub
<1> QED
  BY <1>5, <1>6, <1>7, <1>8 DEF Channel!Stage, Channel!Occupied

\* The handle's room is room in the channel.
LEMMA RoomIsReal ==
  ASSUME IInv, handle = "held", NEW n \in Nat, n <= RingEntries - SqLen
  PROVE  WrappingSub(UserTail, kHead) + n <= RingEntries
<1>1. /\ WrappingSub(tail, kHead) + WrappingSub(kHead, head) = SqLen
      /\ {WrappingSub(tail, kHead), WrappingSub(kHead, head), SqLen} \subseteq Nat
  BY WrappingSubType DEF IInv, TypeOK, HandleView, SqLen, Index
<1> QED
  BY <1>1, RingSizes DEF UserTail

\* A push is Stage of one entry, or is refused.
LEMMA PushStep ==
  ASSUME IInv, IInv', [Next]_vars, NEW entry \in Entry, Push(entry)
  PROVE  Channel!Stage(<<entry>>) \/ UNCHANGED Mapped
<1>1. CASE ~IsFull
  <2>1. /\ <<entry>> \in Seq(Entry) /\ Len(<<entry>>) = 1
        /\ 1 \in Nat
    OBVIOUS
  <2>2. 1 <= RingEntries - SqLen
    <3>1. SqLen \in Nat /\ SqLen <= RingEntries
      BY WrappingSubType DEF Push, IInv, TypeOK, HandleView, SqLen, Index
    <3> QED
      BY <1>1, <3>1, RingSizes DEF IsFull
  <2>3. \A i \in 1..1 : sqes'[Slot(WrappingAdd(tail, i - 1))] = <<entry>>[i]
    <3>1. WrappingAdd(tail, 0) = tail /\ tail \in Index
      BY RingSizes DEF WrappingAdd, Index, IInv, TypeOK
    <3>2. sqes'[Slot(tail)] = entry
      BY <1>1, <3>1, SlotType DEF Push, IInv, TypeOK
    <3> QED
      BY <3>1, <3>2
  <2>4. /\ handle = "held" /\ tail' = WrappingAdd(tail, 1)
        /\ UNCHANGED <<kHead, kTail, handle, head, cachedHead, taken>>
    BY <1>1 DEF Push, kernelVars
  <2>5. WrappingSub(UserTail, kHead) + 1 <= RingEntries
    BY <2>1, <2>2, <2>4, RoomIsReal
  <2> QED
    BY <2>1, <2>3, <2>4, <2>5, StageStep
<1>2. CASE IsFull
  BY <1>2, QuietStep DEF Push, kernelVars, UserTail
<1> QED
  BY <1>1, <1>2

\* A push_multiple is Stage of its whole slice, or is refused.
LEMMA PushMultipleStep ==
  ASSUME IInv, IInv', [Next]_vars,
         NEW entries \in SeqOf(Entry, MaxBatch), PushMultiple(entries)
  PROVE  \/ entries \in SeqOf(Entry, RingEntries) /\ Channel!Stage(entries)
         \/ UNCHANGED Mapped
<1>1. CASE HasRoom(Len(entries))
  <2>1. entries \in Seq(Entry) /\ Len(entries) \in Nat
    BY BatchType
  <2>2. PICK n \in Nat : Len(entries) = n
    BY <2>1
  <2>3. n <= RingEntries - SqLen /\ SqLen \in Nat /\ n <= RingEntries
    <3>1. SqLen \in Nat
      BY WrappingSubType DEF IInv, TypeOK, SqLen, Index
    <3> QED
      BY <1>1, <2>2, <3>1, RingSizes DEF HasRoom
  <2>4. /\ handle = "held" /\ tail' = WrappingAdd(tail, n)
        /\ sqes' = Stored(entries, tail)
        /\ UNCHANGED <<kHead, kTail, handle, head, cachedHead, taken>>
    BY <1>1, <2>2 DEF PushMultiple, kernelVars
  <2>5. WrappingSub(UserTail, kHead) + n <= RingEntries
    BY <2>3, <2>4, RoomIsReal
  <2>6. \A i \in 1..n : sqes'[Slot(WrappingAdd(tail, i - 1))] = entries[i]
    BY <2>1, <2>2, <2>3, <2>4, StoredSlots DEF IInv, TypeOK
  <2>7. Channel!Stage(entries)
    BY <2>1, <2>2, <2>4, <2>5, <2>6, StageStep
  <2>8. entries \in SeqOf(Entry, RingEntries)
    <3>1. entries \in [1..n -> Entry] /\ n \in 0..RingEntries
      BY <2>1, <2>2, <2>3, RingSizes, LenProperties
    <3> QED
      BY <3>1 DEF SeqOf
  <2> QED
    BY <2>7, <2>8
<1>2. CASE ~HasRoom(Len(entries))
  BY <1>2, QuietStep DEF PushMultiple, kernelVars, UserTail
<1> QED
  BY <1>1, <1>2

\* Storing the local tail, in sync or in drop, is Publish.
LEMMA PublishStep ==
  ASSUME IInv, IInv', [Next]_vars, handle = "held", kTail' = tail, UserTail' = tail,
         UNCHANGED <<kHead, sqes, cachedHead, taken>>
  PROVE  Channel!Publish
<1> DEFINE d == WrappingSub(kTail, cachedHead)
           n == WrappingSub(UserTail, kTail)
<1>1. /\ UserTail = tail /\ {kTail, tail, cachedHead} \subseteq Index
      /\ sqes \in [Slots -> Content]
      /\ d \in Nat /\ n \in Nat /\ d + n <= RingEntries
      /\ WrappingSub(tail, cachedHead) = d + n
      /\ WrappingSub(tail, tail) = 0
  <2>1. /\ UserTail = tail /\ {kTail, tail, cachedHead, kHead} \subseteq Index
        /\ sqes \in [Slots -> Content]
    BY DEF UserTail, IInv, TypeOK, Content
  <2>2. /\ d \in 0..RingEntries /\ n \in 0..RingEntries
        /\ WrappingSub(cachedHead, kHead) \in 0..RingEntries
        /\ WrappingSub(cachedHead, kHead) + d + n <= RingEntries
    BY Lengths, RingSizes
  <2>3. d + n <= RingEntries /\ d \in Nat /\ n \in Nat
    <3> HIDE DEF d, n
    <3> QED
      BY <2>2, RingSizes
  <2>4. WrappingSub(WrappingAdd(kTail, n), cachedHead) = d + n
    BY <2>1, <2>3, DistanceGrows
  <2>5. WrappingAdd(kTail, n) = tail
    BY <2>1, AddDistance
  <2>6. WrappingSub(tail, tail) = 0
    BY <2>1 DEF WrappingSub, Index
  <2> QED
    BY <2>1, <2>3, <2>4, <2>5, <2>6
<1>2. WrappingAdd(cachedHead, d) = kTail
  BY <1>1, AddDistance
<1>3. (IInv => /\ Between(kTail, UserTail)
                    = Span(sqes, kTail, WrappingSub(UserTail, kTail))
               /\ Between(cachedHead, kTail)
                    = Span(sqes, cachedHead, WrappingSub(kTail, cachedHead)))'
  BY Mapping, PTL
<1>4. Between(cachedHead, kTail)' = Span(sqes, cachedHead, d + n)
  BY <1>1, <1>3
<1>5. Between(kTail, UserTail)' = <<>>
  <2>1. Between(kTail, UserTail)' = Span(sqes, tail, 0)
    BY <1>1, <1>3
  <2> QED
    BY <2>1 DEF Span
<1>6. Span(sqes, cachedHead, d) \o Span(sqes, kTail, n) = Span(sqes, cachedHead, d + n)
  <2> HIDE DEF d, n
  <2> QED
    BY <1>1, <1>2, SpanConcat
<1>7. Between(cachedHead, kTail)' = Between(cachedHead, kTail) \o Between(kTail, UserTail)
  BY <1>4, <1>6, Mapping
<1>8. WrappingSub(cachedHead, kHead)' = WrappingSub(cachedHead, kHead)
  BY DEF WrappingSub
<1> QED
  BY <1>5, <1>7, <1>8 DEF Channel!Publish

\* Reading the next entry of a batch is Take.
LEMMA TakeStep ==
  ASSUME IInv, IInv', KernelRead
  PROVE  Channel!Take
<1> DEFINE d == WrappingSub(kTail, cachedHead)
           e == WrappingSub(cachedHead, kHead)
<1>1. /\ {kHead, kTail, cachedHead} \subseteq Index
      /\ sqes \in [Slots -> Content]
      /\ d \in Nat /\ d > 0 /\ d <= RingEntries /\ e \in Nat /\ e + 1 <= RingEntries
      /\ taken' = SqeAt(cachedHead) /\ cachedHead' = WrappingAdd(cachedHead, 1)
      /\ UNCHANGED <<kHead, kTail, sqes, handle, tail>>
  <2>1. /\ taken' = SqeAt(cachedHead) /\ cachedHead' = WrappingAdd(cachedHead, 1)
        /\ UNCHANGED <<kHead, kTail, sqes, handle, tail>>
        /\ budget > 0
    BY DEF KernelRead, ringVars, handleVars
  <2>2. /\ {kHead, kTail, cachedHead} \subseteq Index /\ sqes \in [Slots -> Content]
        /\ d \in 0..RingEntries /\ e \in 0..RingEntries
        /\ e + d = WrappingSub(kTail, kHead)
        /\ e + budget <= WrappingSub(kTail, kHead)
        /\ WrappingSub(kTail, kHead) <= RingEntries
        /\ WrappingSub(kTail, kHead) \in Nat
        /\ budget \in 0..RingEntries
    BY RingSizes DEF IInv, TypeOK, IndicesInOrder, UserTail, Index, WrappingSub, Content
  <2> HIDE DEF d, e
  <2> QED
    BY <2>1, <2>2, RingSizes
<1>2. d - 1 \in Nat /\ d - 1 <= RingEntries
  <2> HIDE DEF d
  <2> QED
    BY <1>1, RingSizes
<1>3. WrappingSub(WrappingAdd(cachedHead, 1), kHead) = e + 1
  BY <1>1, DistanceGrows
<1>4. WrappingSub(kTail, WrappingAdd(cachedHead, 1)) = d - 1
  BY <1>1, RingSizes DEF WrappingSub, WrappingAdd, Index
<1>5. SqeAt(cachedHead) = sqes[Slot(cachedHead)]
  BY <1>1, SqeAtSlot
<1>6. /\ Between(cachedHead, kTail) = Span(sqes, cachedHead, d)
      /\ Between(cachedHead, kTail)' = Span(sqes, WrappingAdd(cachedHead, 1), d - 1)
  <2>1. Between(cachedHead, kTail) = Span(sqes, cachedHead, d)
    BY Mapping
  <2>2. (IInv => Between(cachedHead, kTail)
                   = Span(sqes, cachedHead, WrappingSub(kTail, cachedHead)))'
    BY Mapping, PTL
  <2> QED
    BY <1>1, <1>4, <2>1, <2>2
<1>7. /\ Span(sqes, cachedHead, d) # <<>>
      /\ Head(Span(sqes, cachedHead, d)) = sqes[Slot(cachedHead)]
      /\ Tail(Span(sqes, cachedHead, d)) = Span(sqes, WrappingAdd(cachedHead, 1), d - 1)
  <2> HIDE DEF d
  <2> QED
    BY <1>1, SpanHeadTail
<1>8. Between(kTail, UserTail)' = Between(kTail, UserTail)
  <2>1. ASSUME NEW i PROVE SqeAt(i)' = SqeAt(i)
    BY <1>1 DEF SqeAt
  <2> QED
    BY <1>1, <2>1 DEF Between, UserTail, WrappingSub
<1>9. WrappingSub(cachedHead, kHead)' = e + 1
  BY <1>1, <1>3
<1> QED
  BY <1>1, <1>5, <1>6, <1>7, <1>8, <1>9 DEF Channel!Take

\* Storing the head is Release.
LEMMA ReleaseStep ==
  ASSUME IInv, KernelCommit
  PROVE  Channel!Release
<1>1. /\ kHead' = cachedHead /\ cachedHead \in Index
      /\ UNCHANGED <<kTail, sqes, handle, tail, cachedHead, taken>>
  BY DEF KernelCommit, handleVars, IInv, TypeOK
<1>2. ASSUME NEW i PROVE SqeAt(i)' = SqeAt(i)
  BY <1>1 DEF SqeAt
<1>3. WrappingSub(cachedHead, kHead)' = 0
  BY <1>1 DEF WrappingSub, Index
<1>4. Between(kTail, UserTail)' = Between(kTail, UserTail)
  BY <1>1, <1>2 DEF Between, UserTail, WrappingSub
<1>5. Between(cachedHead, kTail)' = Between(cachedHead, kTail)
  BY <1>1, <1>2 DEF Between, WrappingSub
<1> QED
  BY <1>1, <1>3, <1>4, <1>5 DEF Channel!Release

-----------------------------------------------------------------------------

\* Every step of the queue is a step of the channel or a stutter.
LEMMA NextRefines ==
  ASSUME IInv, IInv', [Next]_vars
  PROVE  [Channel!Next]_(Channel!channelVars)
<1>0. Channel!channelVars = Mapped
  BY DEF Channel!channelVars, Mapped
<1>1. CASE Borrow
  <2>1. UNCHANGED <<kHead, kTail, sqes, UserTail, cachedHead, taken>>
    BY <1>1 DEF Borrow, ringVars, kernelVars, UserTail
  <2> QED
    BY <1>0, <2>1, QuietStep DEF Mapped, Channel!channelVars
<1>2. ASSUME NEW entry \in Entry, Push(entry)
      PROVE  [Channel!Next]_(Channel!channelVars)
  <2>1. Channel!Stage(<<entry>>) \/ UNCHANGED Mapped
    BY <1>2, PushStep
  <2>2. <<entry>> \in SeqOf(Entry, RingEntries)
    <3>1. <<entry>> \in [1..1 -> Entry] /\ 1 \in 0..RingEntries
      BY RingSizes
    <3> QED
      BY <3>1 DEF SeqOf
  <2> QED
    BY <2>1, <2>2 DEF Channel!Next, Channel!BoundedSeq, Channel!SeqOf, SeqOf, BoundedSeq,
                      Mapped, Channel!channelVars
<1>3. ASSUME NEW entries \in SeqOf(Entry, MaxBatch), PushMultiple(entries)
      PROVE  [Channel!Next]_(Channel!channelVars)
  <2>1. \/ entries \in SeqOf(Entry, RingEntries) /\ Channel!Stage(entries)
        \/ UNCHANGED Mapped
    BY <1>3, PushMultipleStep
  <2> QED
    BY <2>1 DEF Channel!Next, Channel!BoundedSeq, Channel!SeqOf, SeqOf, BoundedSeq,
                Mapped, Channel!channelVars
<1>4. CASE SyncStore
  <2>1. Channel!Publish
    BY <1>4, PublishStep DEF SyncStore, kernelVars, UserTail
  <2> QED
    BY <2>1 DEF Channel!Next
<1>5. CASE SyncLoad
  <2>1. UNCHANGED <<kHead, kTail, sqes, UserTail, cachedHead, taken>>
    BY <1>5 DEF SyncLoad, ringVars, kernelVars, UserTail
  <2> QED
    BY <2>1, QuietStep DEF Mapped, Channel!channelVars
<1>6. CASE Drop
  <2>1. Channel!Publish
    BY <1>6, PublishStep DEF Drop, kernelVars, UserTail
  <2> QED
    BY <2>1 DEF Channel!Next
<1>7. CASE KernelBegin
  <2>1. UNCHANGED <<kHead, kTail, sqes, UserTail, cachedHead, taken>>
    BY <1>7 DEF KernelBegin, ringVars, handleVars, UserTail
  <2> QED
    BY <2>1, QuietStep DEF Mapped, Channel!channelVars
<1>8. CASE KernelRead
  BY <1>8, TakeStep DEF Channel!Next
<1>9. CASE KernelCommit
  BY <1>9, ReleaseStep DEF Channel!Next
<1>10. CASE UNCHANGED vars
  <2>1. UNCHANGED <<kHead, kTail, sqes, UserTail, cachedHead, taken>>
    BY <1>10 DEF vars, ringVars, handleVars, kernelVars, UserTail
  <2> QED
    BY <2>1, QuietStep DEF Mapped, Channel!channelVars
<1> QED
  BY <1>1, <1>2, <1>3, <1>4, <1>5, <1>6, <1>7, <1>8, <1>9, <1>10 DEF Next, Kernel

\* The submission queue is the channel it promises to be: what is pushed is
\* taken by the kernel exactly once, unchanged, in order, and only after sync
\* or drop has published it.
THEOREM QueueIsChannel == Spec => ImplementsChannel
<1>1. Init => Channel!Init
  BY InitRefines
<1>2. IInv /\ IInv' /\ [Next]_vars => [Channel!Next]_(Channel!channelVars)
  BY NextRefines
<1> QED
  BY <1>1, <1>2, Invariance, PTL DEF Spec, Channel!Spec, ImplementsChannel

=============================================================================
