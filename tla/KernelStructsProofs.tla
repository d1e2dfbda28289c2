------------------------- MODULE KernelStructsProofs -------------------------
(***************************************************************************)
(* Proofs about the structures in memory by which the program and the       *)
(* kernel speak to each other: the ring of provided buffers, what            *)
(* RecvMsgOut::parse makes of a buffer, and the submission entries that the  *)
(* builders of opcode.rs fill in.                                            *)
(***************************************************************************)
EXTENDS MCKernelStructs, RingIndexTheorems, FiniteSetTheorems

-----------------------------------------------------------------------------
(* The ring of provided buffers.  The invariant holds as long as the        *)
(* program registers the ring once and its requests take one buffer each:   *)
(* BuffersOwnedOnce is false of the code otherwise.                         *)

OneAtATime == MaxRegistrations <= 1 /\ MaxBundle = 1

\* Entries that are pushed, published or not, and not taken by the kernel.
Pushed == WrappingSub(localTail, kHead)
PushedBids == {EntryAt(i) : i \in 0..(Pushed - 1)}
InFlightBids == {s[1] : s \in inFlight}

BufRingTypeOK ==
  /\ registered \in BOOLEAN /\ registrations \in 0..MaxRegistrations
  /\ kHead \in Index /\ tail \in Index /\ localTail \in Index
  /\ entries \in [Slots -> Bids \cup {NoBid}]
  /\ toPush \in Seq(Bids) /\ syncing \in BOOLEAN
  /\ inFlight \subseteq {<<b>> : b \in Bids}
  /\ gbufs \in Seq(Bids)

\* Nothing happens before the ring is registered.
NotYetUsed ==
  registrations = 0 =>
    /\ ~registered /\ kHead = 0 /\ tail = 0 /\ localTail = 0
    /\ toPush = <<>> /\ inFlight = {} /\ gbufs = <<>>

\* The kernel is behind the tail and the tail behind the program's copy of it, all
\* within one turn; between calls the copy is published.
TailsInOrder ==
  /\ Pushed <= BufCnt
  /\ Available <= Pushed
  /\ ~syncing => toPush = <<>> /\ tail = localTail

NoneTwice(s) == \A i, j \in 1..Len(s) : s[i] = s[j] => i = j

\* A buffer is in at most one entry in use, or on its way to one, or with one request
\* or one GBuf.
OnePlaceEach ==
  /\ PushedBids \subseteq Bids
  /\ \A i, j \in 0..(Pushed - 1) : EntryAt(i) = EntryAt(j) => i = j
  /\ NoneTwice(toPush) /\ NoneTwice(gbufs)
  /\ PushedBids \cap ToSet(toPush) = {}
  /\ PushedBids \cap InFlightBids = {}
  /\ PushedBids \cap ToSet(gbufs) = {}
  /\ ToSet(toPush) \cap InFlightBids = {}
  /\ ToSet(toPush) \cap ToSet(gbufs) = {}
  /\ InFlightBids \cap ToSet(gbufs) = {}

RingInv == BufRingTypeOK /\ NotYetUsed /\ TailsInOrder /\ OnePlaceEach

-----------------------------------------------------------------------------
(* Sequences without repetition.                                           *)

\* The head of a sequence without repetition is not in its tail.
LEMMA TailOfOnce ==
  ASSUME NEW S, NEW s \in Seq(S), s # <<>>, NoneTwice(s)
  PROVE  /\ Tail(s) \in Seq(S) /\ NoneTwice(Tail(s))
         /\ Head(s) \in S /\ Head(s) \in ToSet(s)
         /\ ToSet(Tail(s)) = ToSet(s) \ {Head(s)}
<1>1. /\ Len(s) \in Nat \ {0} /\ Head(s) = s[1] /\ DOMAIN s = 1..Len(s)
      /\ Tail(s) \in Seq(S) /\ Len(Tail(s)) = Len(s) - 1
      /\ \A i \in 1..(Len(s) - 1) : Tail(s)[i] = s[i + 1]
      /\ DOMAIN Tail(s) = 1..(Len(s) - 1)
  OBVIOUS
<1>2. Head(s) \in S /\ Head(s) \in ToSet(s)
  BY <1>1 DEF ToSet
<1>3. NoneTwice(Tail(s))
  BY <1>1 DEF NoneTwice
<1>4. ASSUME NEW x \in ToSet(Tail(s)) PROVE x \in ToSet(s) \ {Head(s)}
  <2>1. PICK i \in 1..(Len(s) - 1) : x = s[i + 1]
    BY <1>1, <1>4 DEF ToSet
  <2>2. i + 1 \in 1..Len(s) /\ 1 \in 1..Len(s) /\ i + 1 # 1
    BY <1>1
  <2> QED
    BY <2>1, <2>2, <1>1 DEF ToSet, NoneTwice
<1>5. ASSUME NEW x \in ToSet(s) \ {Head(s)} PROVE x \in ToSet(Tail(s))
  <2>1. PICK i \in 1..Len(s) : x = s[i]
    BY <1>1, <1>5 DEF ToSet
  <2>2. i - 1 \in 1..(Len(s) - 1) /\ (i - 1) + 1 = i
    BY <2>1, <1>1, <1>5
  <2> QED
    BY <2>1, <2>2, <1>1 DEF ToSet
<1> QED
  BY <1>1, <1>2, <1>3, <1>4, <1>5

\* RemoveAt takes one element out of a sequence without repetition.
LEMMA RemoveAtOfOnce ==
  ASSUME NEW S, NEW s \in Seq(S), NEW i \in 1..Len(s), NoneTwice(s)
  PROVE  /\ RemoveAt(s, i) \in Seq(S) /\ NoneTwice(RemoveAt(s, i))
         /\ s[i] \in S /\ s[i] \in ToSet(s)
         /\ ToSet(RemoveAt(s, i)) = ToSet(s) \ {s[i]}
<1> DEFINE r == RemoveAt(s, i)
           n == Len(s)
           From(j) == IF j < i THEN j ELSE j + 1
<1>1. n \in Nat /\ i \in Nat /\ i <= n /\ i >= 1 /\ DOMAIN s = 1..n
  OBVIOUS
<1>2. r \in Seq(S) /\ Len(r) = n - 1 /\ \A j \in 1..(n - 1) : r[j] = s[From(j)]
  <2> DEFINE u == SubSeq(s, 1, i - 1)
             v == SubSeq(s, i + 1, n)
  <2>1. u \in Seq(S) /\ Len(u) = i - 1 /\ \A j \in 1..(i - 1) : u[j] = s[j]
    <3>1. \A j \in 1..(i - 1) : s[j] \in S
      BY <1>1
    <3>2. /\ u \in Seq(S) /\ Len(u) = IF 1 <= i - 1 THEN i - 1 - 1 + 1 ELSE 0
          /\ \A j \in 1..(i - 1 - 1 + 1) : u[j] = s[1 + j - 1]
      BY <1>1, <3>1, SubSeqProperties
    <3>3. i - 1 - 1 + 1 = i - 1 /\ \A j \in 1..(i - 1) : 1 + j - 1 = j
      BY <1>1
    <3> HIDE DEF u
    <3> QED
      BY <1>1, <3>2, <3>3
  <2>2. v \in Seq(S) /\ Len(v) = n - i /\ \A j \in 1..(n - i) : v[j] = s[i + j]
    <3>1. \A j \in (i + 1)..n : s[j] \in S
      BY <1>1
    <3>2. /\ v \in Seq(S) /\ Len(v) = IF i + 1 <= n THEN n - (i + 1) + 1 ELSE 0
          /\ \A j \in 1..(n - (i + 1) + 1) : v[j] = s[i + 1 + j - 1]
      BY <1>1, <3>1, SubSeqProperties
    <3>3. n - (i + 1) + 1 = n - i /\ \A j \in 1..(n - i) : i + 1 + j - 1 = i + j
      BY <1>1
    <3> HIDE DEF v
    <3>4. Len(v) = n - i
      <4> HIDE DEF n
      <4> QED
        BY <1>1, <3>2, SMTT(30)
    <3>5. ASSUME NEW j \in 1..(n - i) PROVE v[j] = s[i + j]
      BY <3>2, <3>3
    <3> QED
      BY <3>2, <3>4, <3>5
  <2>3. r = u \o v
    BY DEF RemoveAt
  <2> HIDE DEF r, u, v
  <2>4. /\ u \o v \in Seq(S) /\ Len(u \o v) = Len(u) + Len(v)
        /\ \A j \in 1..(Len(u) + Len(v)) :
              (u \o v)[j] = IF j <= Len(u) THEN u[j] ELSE v[j - Len(u)]
    BY <2>1, <2>2, ConcatProperties
  <2>5. Len(u) + Len(v) = n - 1
    BY <2>1, <2>2, <1>1
  <2>6. ASSUME NEW j \in 1..(n - 1) PROVE r[j] = s[From(j)]
    <3>1. CASE j < i
      <4>1. j \in 1..(i - 1) /\ j <= Len(u) /\ From(j) = j
        BY <3>1, <2>1, <1>1
      <4> QED
        BY <4>1, <2>1, <2>3, <2>4, <2>5
    <3>2. CASE j >= i
      <4>1. /\ j - Len(u) \in 1..(n - i) /\ ~(j <= Len(u))
            /\ i + (j - Len(u)) = j + 1 /\ From(j) = j + 1
        BY <3>2, <2>1, <1>1
      <4> QED
        BY <4>1, <2>2, <2>3, <2>4, <2>5
    <3> QED
      BY <3>1, <3>2, <1>1
  <2> QED
    BY <2>3, <2>4, <2>5, <2>6
<1>3. \A j \in 1..(n - 1) : From(j) \in 1..n /\ From(j) # i
  BY <1>1
<1>4. s[i] \in S /\ s[i] \in ToSet(s) /\ DOMAIN r = 1..(n - 1)
  BY <1>1, <1>2 DEF ToSet
<1>5. NoneTwice(r)
  <2>1. \A j, k \in 1..(n - 1) : From(j) = From(k) => j = k
    BY <1>1
  <2> SUFFICES ASSUME NEW j \in 1..(n - 1), NEW k \in 1..(n - 1), r[j] = r[k]
               PROVE  j = k
    BY <1>2 DEF NoneTwice
  <2> HIDE DEF From, r
  <2>2. s[From(j)] = s[From(k)]
    BY <1>2
  <2>3. From(j) = From(k)
    BY <1>3, <2>2 DEF NoneTwice
  <2> QED
    BY <2>1, <2>3
<1>6. ASSUME NEW x \in ToSet(r) PROVE x \in ToSet(s) \ {s[i]}
  <2> HIDE DEF From, r
  <2>1. PICK j \in 1..(n - 1) : x = r[j]
    BY <1>4, <1>6 DEF ToSet
  <2> QED
    BY <2>1, <1>1, <1>2, <1>3 DEF ToSet, NoneTwice
<1>7. ASSUME NEW x \in ToSet(s) \ {s[i]} PROVE x \in ToSet(r)
  <2>1. PICK j \in 1..n : x = s[j] /\ j # i
    BY <1>1, <1>7 DEF ToSet
  <2>2. PICK k \in 1..(n - 1) : From(k) = j
    <3>1. CASE j < i
      BY <3>1, <1>1, <2>1
    <3>2. CASE j > i
      <4>1. j - 1 \in 1..(n - 1) /\ From(j - 1) = j
        BY <3>2, <1>1, <2>1
      <4> QED
        BY <4>1
    <3> QED
      BY <3>1, <3>2, <1>1, <2>1
  <2> HIDE DEF From, r
  <2> QED
    BY <2>1, <2>2, <1>2, <1>4 DEF ToSet
<1> QED
  BY <1>2, <1>4, <1>5, <1>6, <1>7

\* Appending a new element.
LEMMA AppendToOnce ==
  ASSUME NEW S, NEW s \in Seq(S), NEW x \in S, NoneTwice(s), x \notin ToSet(s)
  PROVE  /\ s \o <<x>> \in Seq(S) /\ NoneTwice(s \o <<x>>)
         /\ ToSet(s \o <<x>>) = ToSet(s) \cup {x}
<1> DEFINE r == s \o <<x>>
           n == Len(s)
<1>1. /\ n \in Nat /\ r \in Seq(S) /\ Len(r) = n + 1 /\ DOMAIN s = 1..n
      /\ \A j \in 1..n : r[j] = s[j]
      /\ r[n + 1] = x /\ DOMAIN r = 1..(n + 1)
  OBVIOUS
<1>2. \A j \in 1..n : s[j] \in ToSet(s)
  BY <1>1 DEF ToSet
<1>3. NoneTwice(r)
  <2> SUFFICES ASSUME NEW j \in 1..(n + 1), NEW k \in 1..(n + 1), r[j] = r[k]
               PROVE  j = k
    BY <1>1 DEF NoneTwice
  <2> HIDE DEF r
  <2>1. CASE j \in 1..n /\ k \in 1..n
    BY <2>1, <1>1 DEF NoneTwice
  <2>2. CASE j = n + 1 \/ k = n + 1
    BY <2>2, <1>1, <1>2
  <2> QED
    BY <2>1, <2>2, <1>1
<1>4. ToSet(r) = ToSet(s) \cup {x}
  <2>1. ASSUME NEW y \in ToSet(r) PROVE y \in ToSet(s) \cup {x}
    <3>1. PICK j \in 1..(n + 1) : y = r[j]
      BY <1>1, <2>1 DEF ToSet
    <3> HIDE DEF r
    <3> QED
      BY <3>1, <1>1, <1>2
  <2>2. ASSUME NEW y \in ToSet(s) \cup {x} PROVE y \in ToSet(r)
    <3>1. PICK j \in 1..(n + 1) : y = r[j]
      <4>1. CASE y = x
        BY <4>1, <1>1
      <4>2. CASE y \in ToSet(s)
        <5>1. PICK j \in 1..n : y = s[j]
          BY <4>2, <1>1 DEF ToSet
        <5> QED
          BY <5>1, <1>1
      <4> QED
        BY <2>2, <4>1, <4>2
    <3> HIDE DEF r
    <3> QED
      BY <3>1, <1>1 DEF ToSet
  <2> QED
    BY <2>1, <2>2
<1> QED
  BY <1>1, <1>3, <1>4

-----------------------------------------------------------------------------
(* The entries of the ring.                                                *)

Entries == [Slots -> Bids \cup {NoBid}]

\* The entries after a buffer was written at an index.
Written(mem, t, b) == [mem EXCEPT ![Slot(t)] = b]

\* An entry written at the tail is the next one, and disturbs none in use.
LEMMA PushAtTail ==
  ASSUME NEW mem \in Entries, NEW h \in Index, NEW t \in Index, NEW b \in Bids,
         NEW n \in Nat, n = WrappingSub(t, h), n < RingEntries
  PROVE  /\ Written(mem, t, b) \in Entries
         /\ WrappingAdd(t, 1) \in Index
         /\ WrappingSub(WrappingAdd(t, 1), h) = n + 1
         /\ \A i \in 0..(n - 1) :
              Written(mem, t, b)[Slot(WrappingAdd(h, i))] = mem[Slot(WrappingAdd(h, i))]
         /\ Written(mem, t, b)[Slot(WrappingAdd(h, n))] = b
<1> DEFINE new == Written(mem, t, b)
<1> USE DEF Entries, Written
<1>1. new \in Entries /\ Slot(t) \in Slots
  BY SlotType
<1>2. WrappingAdd(t, 1) \in Index
  BY WrappingAddType, RingSizes
<1>3. WrappingSub(WrappingAdd(t, 1), h) = n + 1
  <2>1. 1 \in Nat /\ WrappingSub(t, h) + 1 <= RingEntries
    BY RingSizes
  <2> QED
    BY <2>1, DistanceGrows
<1>4. ASSUME NEW i \in 0..(n - 1)
      PROVE  new[Slot(WrappingAdd(h, i))] = mem[Slot(WrappingAdd(h, i))]
  <2>1. Slot(WrappingAdd(t, 0)) # Slot(WrappingAdd(h, i)) /\ WrappingAdd(t, 0) = t
    <3>1. i \in Nat /\ i < n /\ 0 \in Nat /\ n + 0 < RingEntries
      BY RingSizes
    <3>2. WrappingAdd(t, 0) = t
      BY RingSizes DEF WrappingAdd, Index
    <3> QED
      BY <3>1, <3>2, TailSlotIsFree
  <2>2. Slot(WrappingAdd(h, i)) \in Slots
    BY WrappingAddType, SlotType, RingSizes
  <2> QED
    BY <2>1, <2>2
<1>5. WrappingAdd(h, n) = t
  BY AddDistance
<1> QED
  BY <1>1, <1>2, <1>3, <1>4, <1>5

\* Moving the head on by one entry renumbers those after it.
LEMMA MoveHeadOn ==
  ASSUME NEW h \in Index, NEW t \in Index, NEW n \in Nat, n = WrappingSub(t, h),
         n > 0, n <= RingEntries
  PROVE  /\ WrappingAdd(h, 1) \in Index /\ WrappingAdd(h, 0) = h
         /\ WrappingSub(t, WrappingAdd(h, 1)) = n - 1
         /\ \A i \in 0..(n - 2) : WrappingAdd(WrappingAdd(h, 1), i) = WrappingAdd(h, i + 1)
<1>1. WrappingAdd(h, 1) \in Index
  BY WrappingAddType, RingSizes
<1>2. WrappingAdd(h, 0) = h /\ WrappingSub(t, WrappingAdd(h, 1)) = n - 1
  BY RingSizes DEF WrappingAdd, WrappingSub, Index
<1>3. ASSUME NEW i \in 0..(n - 2)
      PROVE  WrappingAdd(WrappingAdd(h, 1), i) = WrappingAdd(h, i + 1)
  <2>1. 1 \in Nat /\ i \in Nat /\ 1 + i <= RingEntries /\ 1 + i = i + 1
    BY RingSizes
  <2> QED
    BY <2>1, AddTwice
<1> QED
  BY <1>1, <1>2, <1>3

\* The buffers are as many as there are numbers for them.
LEMMA BufsCounted == IsFiniteSet(Bids) /\ Cardinality(Bids) = BufCnt
<1>1. BufCnt \in Nat \ {0}
  BY RingSizes, BufRingAssumption
<1> QED
  BY <1>1, FS_Interval DEF Bids

\* While a buffer waits to be pushed the entries in use are fewer than the buffers.
LEMMA RoomToPush ==
  ASSUME RingInv, toPush # <<>>
  PROVE  Pushed \in Nat /\ Pushed < BufCnt /\ Pushed < RingEntries
<1> USE DEF RingInv
<1>1. Pushed \in Nat /\ BufCnt \in Nat /\ BufCnt <= RingEntries
  BY WrappingSubType, RingSizes, BufRingAssumption DEF Pushed, BufRingTypeOK, Index
<1>2. PICK p \in Nat : p = Pushed
  BY <1>1
<1>3. Head(toPush) \in Bids /\ Head(toPush) \in ToSet(toPush)
  BY TailOfOnce DEF BufRingTypeOK, OnePlaceEach
<1>4. PICK last \in Bids : last = Head(toPush)
  BY <1>3
<1> DEFINE f == [i \in 0..p |-> IF i < p THEN EntryAt(i) ELSE last]
<1>5. \A i \in 0..(p - 1) : EntryAt(i) \in Bids /\ EntryAt(i) # last
  BY <1>2, <1>3, <1>4 DEF OnePlaceEach, PushedBids
<1>6. f \in [0..p -> Bids]
  BY <1>2, <1>5
<1>7. ASSUME NEW i \in 0..p, NEW j \in 0..p, f[i] = f[j] PROVE i = j
  <2>1. CASE i < p /\ j < p
    BY <1>2, <1>7, <2>1 DEF OnePlaceEach
  <2>2. CASE i = p \/ j = p
    BY <1>2, <1>5, <1>7, <2>2
  <2> QED
    BY <1>2, <2>1, <2>2
<1>8. IsFiniteSet(0..p) /\ Cardinality(0..p) = p + 1
  BY <1>2, FS_Interval
<1>9. ~(BufCnt < p + 1)
  <2> HIDE DEF f
  <2> QED
    BY <1>6, <1>7, <1>8, BufsCounted, FS_PigeonHole
<1> QED
  BY <1>1, <1>2, <1>9, RingSizes

-----------------------------------------------------------------------------
(* The invariant is kept by every step.                                    *)

\* What is in the entries depends on these three variables only.
LEMMA SameEntries ==
  ASSUME kHead' = kHead, localTail' = localTail, entries' = entries
  PROVE  /\ Pushed' = Pushed /\ PushedBids' = PushedBids
         /\ \A i \in 0..(Pushed - 1) : EntryAt(i)' = EntryAt(i)
BY DEF Pushed, PushedBids, EntryAt

LEMMA StepRegister ==
  ASSUME OneAtATime, RingInv, Register
  PROVE  RingInv'
<1> USE DEF RingInv, Register
<1> DEFINE all == [i \in 1..BufCnt |-> i - 1]
<1>1. BufCnt \in Nat \ {0} /\ MaxRegistrations \in Nat /\ 0 \in Index
  BY BufRingAssumption, RingSizes DEF Index
<1>2. registrations = 0 /\ registrations' \in 0..MaxRegistrations /\ registrations' # 0
  BY <1>1 DEF OneAtATime, BufRingTypeOK
<1>3. /\ kHead = 0 /\ tail = 0 /\ localTail = 0 /\ inFlight = {} /\ gbufs = <<>>
  BY <1>2 DEF NotYetUsed
<1>4. Pushed = 0 /\ Available = 0
  BY <1>3 DEF Pushed, Available, WrappingSub
<1>5. PushedBids = {} /\ InFlightBids = {} /\ ToSet(gbufs) = {}
  BY <1>3, <1>4 DEF PushedBids, InFlightBids, ToSet
<1>6. Pushed' = 0 /\ PushedBids' = {} /\ InFlightBids' = {} /\ Available' = 0
      /\ ToSet(gbufs') = {}
  <2>1. kHead' = kHead
    BY <1>3
  <2> QED
    BY <2>1, <1>4, <1>5, SameEntries DEF Available, InFlightBids
<1>7. all \in Seq(Bids) /\ NoneTwice(all)
  <2>1. \A i \in 1..BufCnt : i - 1 \in Bids
    BY <1>1 DEF Bids
  <2>2. all \in [1..BufCnt -> Bids] /\ BufCnt \in Nat
    BY <2>1, <1>1
  <2>3. all \in Seq(Bids) /\ Len(all) = BufCnt
    BY <2>2, <1>1
  <2> QED
    BY <2>3, <1>1 DEF NoneTwice
<1>8. toPush' = all /\ gbufs' = <<>>
  BY <1>3
<1>9. BufRingTypeOK'
  BY <1>1, <1>2, <1>7, <1>8 DEF BufRingTypeOK
<1>10. NotYetUsed'
  BY <1>2 DEF NotYetUsed
<1>11. TailsInOrder'
  BY <1>1, <1>6 DEF TailsInOrder
<1>12. OnePlaceEach'
  <2> HIDE DEF all
  <2>1. NoneTwice(gbufs')
    BY <1>8 DEF NoneTwice
  <2>2. NoneTwice(toPush')
    BY <1>7, <1>8
  <2>3. \A i, j \in 0..(Pushed' - 1) : i = j
    BY <1>6
  <2> QED
    BY <1>6, <2>1, <2>2, <2>3 DEF OnePlaceEach
<1> QED
  BY <1>9, <1>10, <1>11, <1>12

LEMMA StepUnregister ==
  ASSUME RingInv, Unregister
  PROVE  RingInv'
<1> USE DEF RingInv, Unregister
<1>1. Available' = Available
  BY DEF Available
<1> QED
  BY <1>1, SameEntries
     DEF BufRingTypeOK, NotYetUsed, TailsInOrder, OnePlaceEach, InFlightBids

LEMMA StepDropGBuf ==
  ASSUME RingInv, NEW i \in 1..BufCnt, DropGBuf(i)
  PROVE  RingInv'
<1> USE DEF RingInv, DropGBuf, kernelVars
<1>1. i \in 1..Len(gbufs) /\ gbufs \in Seq(Bids) /\ NoneTwice(gbufs)
  BY DEF BufRingTypeOK, OnePlaceEach
<1>2. PICK b \in Bids : b = gbufs[i]
  BY <1>1
<1>3. /\ gbufs' \in Seq(Bids) /\ NoneTwice(gbufs') /\ b \in ToSet(gbufs)
      /\ ToSet(gbufs') = ToSet(gbufs) \ {b}
  BY <1>1, <1>2, RemoveAtOfOnce
<1>4. toPush' = <<b>> /\ toPush' \in Seq(Bids) /\ NoneTwice(toPush') /\ ToSet(toPush') = {b}
  BY <1>2 DEF NoneTwice, ToSet
<1>5. Pushed' = Pushed /\ PushedBids' = PushedBids
      /\ \A j \in 0..(Pushed - 1) : EntryAt(j)' = EntryAt(j)
  BY SameEntries
<1>6. Available' = Available /\ InFlightBids' = InFlightBids
  BY DEF Available, InFlightBids
<1>7. BufRingTypeOK'
  BY <1>3, <1>4 DEF BufRingTypeOK
<1>8. NotYetUsed'
  <2>1. registrations # 0
    BY <1>1 DEF NotYetUsed
  <2> QED
    BY <2>1 DEF NotYetUsed
<1>9. TailsInOrder'
  BY <1>5, <1>6 DEF TailsInOrder
<1>10. OnePlaceEach'
  BY <1>3, <1>4, <1>5, <1>6 DEF OnePlaceEach
<1> QED
  BY <1>7, <1>8, <1>9, <1>10

\* A push moves one buffer to the entry after those in use.
LEMMA PushOne ==
  ASSUME RingInv, BufRingPush
  PROVE  \E n \in Nat, b \in Bids :
           /\ n = Pushed /\ n < BufCnt /\ n < RingEntries
           /\ toPush' \in Seq(Bids) /\ NoneTwice(toPush') /\ b \in ToSet(toPush)
           /\ ToSet(toPush') = ToSet(toPush) \ {b}
           /\ entries' \in Entries /\ localTail' \in Index
           /\ Pushed' = n + 1
           /\ \A j \in 0..(n - 1) : EntryAt(j)' = EntryAt(j)
           /\ EntryAt(n)' = b
<1> USE DEF RingInv, BufRingPush, kernelVars
<1>1. PICK n \in Nat : n = Pushed /\ n < BufCnt /\ n < RingEntries
  BY RoomToPush
<1>2. PICK b \in Bids : b = Head(toPush)
  BY TailOfOnce DEF BufRingTypeOK, OnePlaceEach
<1>3. /\ toPush' \in Seq(Bids) /\ NoneTwice(toPush') /\ b \in ToSet(toPush)
      /\ ToSet(toPush') = ToSet(toPush) \ {b}
  BY <1>2, TailOfOnce DEF BufRingTypeOK, OnePlaceEach
<1>4. PICK h \in Index, t \in Index, mem \in [Slots -> Bids \cup {NoBid}] :
        h = kHead /\ t = localTail /\ mem = entries
  BY DEF BufRingTypeOK
<1>5. kHead' = h /\ localTail' = WrappingAdd(t, 1) /\ entries' = [mem EXCEPT ![Slot(t)] = b]
  BY <1>2, <1>4
<1>6. n = WrappingSub(t, h)
  BY <1>1, <1>4 DEF Pushed
<1>7. /\ entries' \in Entries
      /\ localTail' \in Index
      /\ Pushed' = n + 1
      /\ \A j \in 0..(n - 1) : EntryAt(j)' = EntryAt(j)
      /\ EntryAt(n)' = b
  <2>1. entries' = Written(mem, t, b) /\ mem \in Entries
    BY <1>5 DEF Written, Entries
  <2>2. /\ Written(mem, t, b) \in Entries
        /\ WrappingAdd(t, 1) \in Index
        /\ WrappingSub(WrappingAdd(t, 1), h) = n + 1
        /\ \A j \in 0..(n - 1) :
             Written(mem, t, b)[Slot(WrappingAdd(h, j))] = mem[Slot(WrappingAdd(h, j))]
        /\ Written(mem, t, b)[Slot(WrappingAdd(h, n))] = b
    BY <1>1, <1>6, <2>1, PushAtTail, SMTT(30)
  <2> QED
    BY <1>4, <1>5, <2>1, <2>2 DEF Pushed, EntryAt, Entries
<1> QED
  BY <1>1, <1>3, <1>7

LEMMA StepPush ==
  ASSUME RingInv, BufRingPush
  PROVE  RingInv'
<1> USE DEF RingInv, BufRingPush, kernelVars
<1>1. PICK n \in Nat, b \in Bids :
        /\ n = Pushed /\ n < BufCnt /\ n < RingEntries
        /\ toPush' \in Seq(Bids) /\ NoneTwice(toPush') /\ b \in ToSet(toPush)
        /\ ToSet(toPush') = ToSet(toPush) \ {b}
        /\ entries' \in Entries /\ localTail' \in Index
        /\ Pushed' = n + 1
        /\ \A j \in 0..(n - 1) : EntryAt(j)' = EntryAt(j)
        /\ EntryAt(n)' = b
  BY PushOne
<1>8. BufRingTypeOK'
  BY <1>1 DEF BufRingTypeOK, Entries
<1>9. NotYetUsed'
  BY DEF NotYetUsed
<1>10. TailsInOrder'
  <2>1. Available' = Available
    BY DEF Available
  <2>3. Available \in Nat
    BY WrappingSubType DEF Available, BufRingTypeOK, Index
  <2>4. BufCnt \in Nat
    BY RingSizes, BufRingAssumption
  <2>2. syncing'
    BY DEF TailsInOrder
  <2> QED
    BY <1>1, <2>1, <2>2, <2>3, <2>4 DEF TailsInOrder
<1>11. PushedBids' = PushedBids \cup {b}
  <2>1. PushedBids' = {EntryAt(j)' : j \in 0..n}
    BY <1>1 DEF PushedBids
  <2>2. PushedBids = {EntryAt(j) : j \in 0..(n - 1)}
    BY <1>1 DEF PushedBids
  <2>3. 0..n = 0..(n - 1) \cup {n}
    BY <1>1
  <2> QED
    BY <2>1, <2>2, <2>3, <1>1
<1>12. InFlightBids' = InFlightBids
  BY DEF InFlightBids
<1>13. ASSUME NEW j \in 0..(Pushed' - 1), NEW k \in 0..(Pushed' - 1),
              EntryAt(j)' = EntryAt(k)'
       PROVE  j = k
  <2>1. \A m \in 0..(n - 1) : EntryAt(m)' # b /\ EntryAt(m)' = EntryAt(m)
    BY <1>1 DEF OnePlaceEach, PushedBids
  <2>2. j \in 0..n /\ k \in 0..n
    BY <1>1
  <2>3. CASE j = n \/ k = n
    BY <1>1, <1>13, <2>1, <2>2, <2>3
  <2>4. CASE j # n /\ k # n
    <3>1. j \in 0..(n - 1) /\ k \in 0..(n - 1)
      BY <1>1, <2>2, <2>4
    <3>2. EntryAt(j) = EntryAt(k)
      BY <3>1, <2>1, <1>13
    <3> QED
      BY <3>1, <3>2, <1>1 DEF OnePlaceEach
  <2> QED
    BY <2>3, <2>4
<1>14. OnePlaceEach'
  BY <1>1, <1>11, <1>12, <1>13 DEF OnePlaceEach
<1> QED
  BY <1>8, <1>9, <1>10, <1>14

LEMMA StepSync ==
  ASSUME RingInv, BufRingSync
  PROVE  RingInv'
<1> USE DEF RingInv, BufRingSync, kernelVars
<1>1. /\ Pushed' = Pushed /\ PushedBids' = PushedBids
      /\ \A j \in 0..(Pushed - 1) : EntryAt(j)' = EntryAt(j)
  BY SameEntries
<1>2. Available' = Pushed' /\ InFlightBids' = InFlightBids
  BY DEF Available, Pushed, InFlightBids
<1>3. Pushed \in Nat
  BY WrappingSubType DEF Pushed, BufRingTypeOK, Index
<1>4. NotYetUsed'
  BY DEF NotYetUsed
<1>5. BufRingTypeOK'
  BY DEF BufRingTypeOK
<1>6. TailsInOrder'
  BY <1>1, <1>2, <1>3 DEF TailsInOrder
<1>7. OnePlaceEach'
  BY <1>1, <1>2 DEF OnePlaceEach
<1> QED
  BY <1>4, <1>5, <1>6, <1>7

\* A request that takes one buffer takes the one at the head.
LEMMA TakeOne ==
  ASSUME OneAtATime, RingInv, Take
  PROVE  /\ Available \in Nat \ {0} /\ kHead' = WrappingAdd(kHead, 1)
         /\ EntryAt(0) \in Bids /\ EntryAt(0) \in PushedBids
         /\ inFlight' = inFlight \cup {<<EntryAt(0)>>}
<1> USE DEF RingInv, Take
<1>1. PICK n \in 1..MaxBundle :
        /\ n <= Available
        /\ inFlight' = inFlight \cup {[i \in 1..n |-> EntryAt(i - 1)]}
        /\ kHead' = WrappingAdd(kHead, n)
  OBVIOUS
<1>2. n = 1
  BY <1>1 DEF OneAtATime
<1>3. [i \in 1..1 |-> EntryAt(i - 1)] = <<EntryAt(0)>>
  OBVIOUS
<1>4. Available \in Nat /\ Pushed \in Nat
  BY WrappingSubType DEF Available, Pushed, BufRingTypeOK, Index
<1>5. 0 \in 0..(Pushed - 1)
  BY <1>1, <1>2, <1>4 DEF TailsInOrder
<1>6. EntryAt(0) \in Bids /\ EntryAt(0) \in PushedBids
  BY <1>5 DEF PushedBids, OnePlaceEach
<1>7. inFlight' = inFlight \cup {<<EntryAt(0)>>} /\ kHead' = WrappingAdd(kHead, 1)
  BY <1>1, <1>2, <1>3
<1>8. Available # 0
  BY <1>1, <1>2, <1>4
<1> QED
  BY <1>4, <1>6, <1>7, <1>8

LEMMA StepTake ==
  ASSUME OneAtATime, RingInv, Take
  PROVE  RingInv'
<1> USE DEF RingInv, Take
<1>1. PICK b \in Bids : b = EntryAt(0)
  BY TakeOne
<1>2. inFlight' = inFlight \cup {<<b>>} /\ b \in PushedBids /\ Available \in Nat \ {0}
  BY <1>1, TakeOne
<1>3. PICK h \in Index, t \in Index, u \in Index : h = kHead /\ t = localTail /\ u = tail
  BY DEF BufRingTypeOK
<1>4. kHead' = WrappingAdd(h, 1) /\ localTail' = t /\ tail' = u /\ entries' = entries
  BY <1>3, TakeOne
<1>5. PICK n \in Nat, m \in Nat : /\ n = Pushed /\ n = WrappingSub(t, h)
                                 /\ m = Available /\ m = WrappingSub(u, h)
  BY <1>3, WrappingSubType DEF Pushed, Available, Index
<1>6. BufCnt \in Nat /\ BufCnt <= RingEntries
  BY RingSizes, BufRingAssumption
<1>7. n > 0 /\ n <= RingEntries /\ m > 0 /\ m <= n /\ n <= BufCnt
  BY <1>2, <1>5, <1>6, RingSizes DEF TailsInOrder
<1>8. /\ WrappingAdd(h, 1) \in Index /\ WrappingAdd(h, 0) = h
      /\ WrappingSub(t, WrappingAdd(h, 1)) = n - 1
      /\ \A i \in 0..(n - 2) : WrappingAdd(WrappingAdd(h, 1), i) = WrappingAdd(h, i + 1)
  BY <1>5, <1>7, MoveHeadOn
<1>9. WrappingSub(u, WrappingAdd(h, 1)) = m - 1
  <2>1. m <= RingEntries
    BY <1>7, RingSizes
  <2> QED
    BY <2>1, <1>5, <1>7, MoveHeadOn
<1>10. Pushed' = n - 1 /\ Available' = m - 1
  BY <1>4, <1>8, <1>9 DEF Pushed, Available
<1>11. \A i \in 0..(n - 2) : EntryAt(i)' = EntryAt(i + 1)
  BY <1>3, <1>4, <1>8 DEF EntryAt
<1>12. PushedBids' = PushedBids \ {b}
  <2>1. PushedBids' = {EntryAt(i)' : i \in 0..(n - 2)}
    <3>1. Pushed' - 1 = n - 2
      BY <1>10
    <3> QED
      BY <3>1 DEF PushedBids
  <2>2. PushedBids = {EntryAt(i) : i \in 0..(n - 1)}
    BY <1>5 DEF PushedBids
  <2>3. ASSUME NEW x \in PushedBids' PROVE x \in PushedBids \ {b}
    <3>1. PICK i \in 0..(n - 2) : x = EntryAt(i)'
      BY <2>1, <2>3
    <3>2. x = EntryAt(i + 1) /\ i + 1 \in 0..(n - 1) /\ 0 \in 0..(n - 1) /\ i + 1 # 0
      BY <3>1, <1>11, <1>7
    <3>3. EntryAt(i + 1) # EntryAt(0)
      BY <3>2, <1>5 DEF OnePlaceEach
    <3> QED
      BY <3>2, <3>3, <2>2, <1>1
  <2>4. ASSUME NEW x \in PushedBids \ {b} PROVE x \in PushedBids'
    <3>1. PICK i \in 0..(n - 1) : x = EntryAt(i)
      BY <2>2, <2>4
    <3>2. i # 0
      BY <3>1, <2>4, <1>1
    <3>3. i - 1 \in 0..(n - 2) /\ (i - 1) + 1 = i
      BY <3>2, <1>7
    <3>4. x = EntryAt(i - 1)'
      BY <3>1, <3>3, <1>11
    <3> QED
      BY <3>3, <3>4, <2>1
  <2> QED
    BY <2>3, <2>4
<1>13. InFlightBids' = InFlightBids \cup {b}
  <2>1. <<b>>[1] = b
    OBVIOUS
  <2>2. ASSUME NEW x \in InFlightBids' PROVE x \in InFlightBids \cup {b}
    BY <1>2, <2>1, <2>2 DEF InFlightBids
  <2>3. ASSUME NEW x \in InFlightBids \cup {b} PROVE x \in InFlightBids'
    BY <1>2, <2>1, <2>3 DEF InFlightBids
  <2> QED
    BY <2>2, <2>3
<1>14. b \notin ToSet(toPush) /\ b \notin ToSet(gbufs)
  BY <1>2 DEF OnePlaceEach
<1>15. BufRingTypeOK'
  BY <1>2, <1>4, <1>8 DEF BufRingTypeOK
<1>16. NotYetUsed'
  <2>1. registrations # 0
    BY DEF NotYetUsed
  <2> QED
    BY <2>1 DEF NotYetUsed
<1>17. TailsInOrder'
  <2>1. n - 1 <= BufCnt /\ m - 1 <= n - 1
    BY <1>6, <1>7
  <2> QED
    BY <2>1, <1>10 DEF TailsInOrder
<1>18. ASSUME NEW i \in 0..(Pushed' - 1), NEW j \in 0..(Pushed' - 1),
              EntryAt(i)' = EntryAt(j)'
       PROVE  i = j
  <2>1. i \in 0..(n - 2) /\ j \in 0..(n - 2)
    BY <1>10
  <2>2. i + 1 \in 0..(n - 1) /\ j + 1 \in 0..(n - 1)
    BY <2>1, <1>7
  <2>3. i + 1 = j + 1
    BY <2>1, <2>2, <1>5, <1>11, <1>18 DEF OnePlaceEach
  <2> QED
    BY <2>1, <2>3
<1>19. OnePlaceEach'
  BY <1>12, <1>13, <1>14, <1>18 DEF OnePlaceEach
<1> QED
  BY <1>15, <1>16, <1>17, <1>19

LEMMA StepReap ==
  ASSUME RingInv, Reap
  PROVE  RingInv'
<1> USE DEF RingInv, Reap, kernelVars
<1>1. PICK bundle \in inFlight : /\ inFlight' = inFlight \ {bundle}
                                 /\ gbufs' = gbufs \o GetBufs(bundle[1], Len(bundle))
  OBVIOUS
<1>2. PICK b \in Bids : bundle = <<b>>
  BY DEF BufRingTypeOK
<1>3. b \in Int
  BY BufsCounted, RingSizes, BufRingAssumption DEF Bids
<1>4. GetBufs(bundle[1], Len(bundle)) = <<b>>
  <2>1. bundle[1] = b /\ Len(bundle) = 1
    BY <1>2
  <2>2. [i \in 1..1 |-> b + i - 1] = <<b>>
    BY <1>3
  <2> QED
    BY <2>1, <2>2 DEF GetBufs
<1>5. b \in InFlightBids /\ b \notin ToSet(gbufs)
  BY <1>2 DEF InFlightBids, OnePlaceEach
<1>6. /\ gbufs' \in Seq(Bids) /\ NoneTwice(gbufs')
      /\ ToSet(gbufs') = ToSet(gbufs) \cup {b}
  BY <1>1, <1>4, <1>5, AppendToOnce DEF BufRingTypeOK, OnePlaceEach
<1>7. InFlightBids' = InFlightBids \ {b}
  BY <1>1, <1>2 DEF InFlightBids, BufRingTypeOK
<1>8. /\ Pushed' = Pushed /\ PushedBids' = PushedBids
      /\ \A j \in 0..(Pushed - 1) : EntryAt(j)' = EntryAt(j)
  BY SameEntries
<1>9. Available' = Available
  BY DEF Available
<1>10. BufRingTypeOK'
  BY <1>1, <1>6 DEF BufRingTypeOK
<1>11. NotYetUsed'
  BY DEF NotYetUsed
<1>12. TailsInOrder'
  BY <1>8, <1>9 DEF TailsInOrder
<1>13. OnePlaceEach'
  BY <1>5, <1>6, <1>7, <1>8 DEF OnePlaceEach
<1> QED
  BY <1>10, <1>11, <1>12, <1>13

LEMMA InitiallyRing ==
  ASSUME Init
  PROVE  RingInv
<1> USE DEF Init
<1>1. 0 \in Index /\ BufCnt \in Nat
  BY RingSizes, BufRingAssumption DEF Index
<1>2. Pushed = 0 /\ Available = 0
  BY DEF Pushed, Available, WrappingSub
<1>3. PushedBids = {} /\ InFlightBids = {}
  BY <1>2 DEF PushedBids, InFlightBids
<1>4. NoneTwice(toPush) /\ NoneTwice(gbufs) /\ ToSet(toPush) = {} /\ ToSet(gbufs) = {}
  BY DEF NoneTwice, ToSet
<1>5. BufRingTypeOK
  <2>1. 0 \in 0..MaxRegistrations
    BY BufRingAssumption
  <2>2. <<>> \in Seq(Bids)
    OBVIOUS
  <2> QED
    BY <1>1, <2>1, <2>2 DEF BufRingTypeOK
<1>6. TailsInOrder
  BY <1>1, <1>2 DEF TailsInOrder
<1>7. OnePlaceEach
  BY <1>2, <1>3, <1>4 DEF OnePlaceEach
<1> QED
  BY <1>5, <1>6, <1>7 DEF RingInv, NotYetUsed

LEMMA StepRing ==
  ASSUME OneAtATime, RingInv, [Next]_vars
  PROVE  RingInv'
<1>1. CASE Register
  BY <1>1, StepRegister
<1>2. CASE Unregister
  BY <1>2, StepUnregister
<1>3. CASE \E i \in 1..BufCnt : DropGBuf(i)
  BY <1>3, StepDropGBuf
<1>4. CASE BufRingPush
  BY <1>4, StepPush
<1>5. CASE BufRingSync
  BY <1>5, StepSync
<1>6. CASE Take
  BY <1>6, StepTake
<1>7. CASE Reap
  BY <1>7, StepReap
<1>8. CASE UNCHANGED vars
  <2>1. Available' = Available /\ InFlightBids' = InFlightBids
    BY <1>8 DEF vars, Available, InFlightBids
  <2> QED
    BY <1>8, <2>1, SameEntries
       DEF vars, RingInv, BufRingTypeOK, NotYetUsed, TailsInOrder, OnePlaceEach
<1> QED
  BY <1>1, <1>2, <1>3, <1>4, <1>5, <1>6, <1>7, <1>8 DEF Next

\* A step of either part is a step of the ring or leaves it alone.
LEMMA RingSide ==
  [PartsNext]_partsVars => [Next]_vars
BY DEF PartsNext, partsVars, RingStep, ReceivedStep, EntryStep

LEMMA RingAlways ==
  ASSUME OneAtATime
  PROVE  PartsSpec => []RingInv
<1>1. PartsInit => RingInv
  BY InitiallyRing DEF PartsInit
<1>2. RingInv /\ [PartsNext]_partsVars => RingInv'
  BY RingSide, StepRing
<1> QED
  BY <1>1, <1>2, PTL DEF PartsSpec

\* What the invariant says of the buffers that requests and GBufs have.
LEMMA HeldBids == RingInv => Held = InFlightBids \cup ToSet(gbufs)
<1> SUFFICES ASSUME RingInv PROVE Held = InFlightBids \cup ToSet(gbufs)
  OBVIOUS
<1>1. \A s \in inFlight : ToSet(s) = {s[1]}
  BY DEF RingInv, BufRingTypeOK, ToSet
<1> QED
  BY <1>1 DEF Held, InFlightBids

LEMMA OwnedOnce ==
  ASSUME RingInv
  PROVE  BuffersOwnedOnce
<1> USE DEF RingInv
<1>1. ASSUME NEW b \in Bids
      PROVE  Cardinality({s \in inFlight : b \in ToSet(s)})
               + Cardinality({i \in 1..Len(gbufs) : gbufs[i] = b}) <= 1
  <2> DEFINE requests == {s \in inFlight : b \in ToSet(s)}
             places   == {i \in 1..Len(gbufs) : gbufs[i] = b}
  <2>1. requests \subseteq {<<b>>}
    BY DEF BufRingTypeOK, ToSet
  <2>2. requests = {} \/ requests = {<<b>>}
    BY <2>1
  <2>3. places = {} \/ \E i \in 1..Len(gbufs) : places = {i}
    BY DEF OnePlaceEach, NoneTwice
  <2>4. requests = {} \/ places = {}
    <3>1. requests # {} => b \in InFlightBids
      BY <2>2 DEF InFlightBids, BufRingTypeOK
    <3>2. places # {} => b \in ToSet(gbufs)
      BY DEF ToSet, BufRingTypeOK
    <3> QED
      BY <3>1, <3>2 DEF OnePlaceEach
  <2>5. Cardinality({}) = 0 /\ Cardinality({<<b>>}) = 1 /\ \A i : Cardinality({i}) = 1
    BY FS_EmptySet, FS_Singleton
  <2> HIDE DEF requests, places
  <2>6. Cardinality(requests) \in {0, 1} /\ (requests = {} => Cardinality(requests) = 0)
    BY <2>2, <2>5
  <2>7. Cardinality(places) \in {0, 1} /\ (places = {} => Cardinality(places) = 0)
    BY <2>3, <2>5
  <2>8. Cardinality(requests) + Cardinality(places) <= 1
    BY <2>4, <2>6, <2>7
  <2> QED
    BY <2>8 DEF requests, places
<1>2. ASSUME NEW i \in 1..Available
      PROVE  /\ EntryAt(i - 1) \notin Held
             /\ \A j \in 1..(i - 1) : EntryAt(i - 1) # EntryAt(j - 1)
  <2>1. Available \in Nat /\ Pushed \in Nat /\ Available <= Pushed
    BY WrappingSubType DEF Available, Pushed, BufRingTypeOK, TailsInOrder, Index
  <2>2. i - 1 \in 0..(Pushed - 1)
    BY <2>1
  <2>3. EntryAt(i - 1) \in PushedBids
    BY <2>2 DEF PushedBids
  <2>4. ASSUME NEW j \in 1..(i - 1) PROVE EntryAt(i - 1) # EntryAt(j - 1)
    <3>1. j - 1 \in 0..(Pushed - 1) /\ j - 1 # i - 1
      BY <2>1
    <3> QED
      BY <2>2, <3>1 DEF OnePlaceEach
  <2> QED
    BY <2>3, <2>4, HeldBids DEF OnePlaceEach
<1> QED
  BY <1>1, <1>2 DEF BuffersOwnedOnce

\* The ring of provided buffers, registered once and with requests for one buffer each:
\* however it wraps, no buffer has two users, now or when the kernel gets to it.
THEOREM BuffersAreOwnedOnce ==
  ASSUME MaxRegistrations <= 1, MaxBundle = 1
  PROVE  PartsSpec => []BuffersOwnedOnce
<1>1. OneAtATime
  BY DEF OneAtATime
<1> QED
  BY <1>1, RingAlways, OwnedOnce, PTL

-----------------------------------------------------------------------------
(* The ring implements the pool.                                           *)

\* A sequence over S without repetition is one of the permutations of a subset of S.
LEMMA OncePermutes ==
  ASSUME NEW S, NEW s \in Seq(S), NoneTwice(s)
  PROVE  s \in SetToAllKPermutations(S)
<1> DEFINE n == Len(s)
<1>1. PICK T : T = ToSet(s)
  OBVIOUS
<1>2. n \in Nat /\ T \subseteq S /\ s \in [1..n -> T]
  BY <1>1 DEF ToSet
<1>3. s \in Bijection(1..n, T)
  <2>1. \A x \in T : \E i \in 1..n : s[i] = x
    BY <1>1, <1>2 DEF ToSet
  <2>2. DOMAIN s = 1..n
    BY <1>2
  <2> HIDE DEF n
  <2> QED
    BY <1>2, <2>1, <2>2
       DEF n, Bijection, Injection, Surjection, IsInjective, NoneTwice
<1>4. Cardinality(T) = n
  <2> HIDE DEF n
  <2> QED
    BY <1>2, <1>3, FS_CountingElements DEF ExistsBijection
<1>5. s \in SetToSeqs(T)
  BY <1>2, <1>4 DEF SetToSeqs, NoneTwice
<1> QED
  BY <1>2, <1>5 DEF SetToAllKPermutations

\* What the pool offers: the entries that are published and not taken.
Offered == IF registered THEN Span(entries, kHead, Available) ELSE <<>>

LEMMA Mapped ==
  /\ Pool!poolVars = <<Offered, Held>>
  /\ Pool!poolVars' = <<Offered', Held'>>
  /\ (IF registered THEN [i \in 1..Available |-> EntryAt(i - 1)] ELSE <<>>) = Offered
  /\ (IF registered THEN [i \in 1..Available |-> EntryAt(i - 1)] ELSE <<>>)' = Offered'
BY DEF Pool!poolVars, Offered, Span, EntryAt

\* What is offered depends on these variables only.
LEMMA SameOffered ==
  ASSUME registered' = registered, kHead' = kHead, tail' = tail, entries' = entries
  PROVE  Offered' = Offered
BY DEF Offered, Available

\* The entries offered are buffers in their order.
LEMMA OfferedSeq ==
  ASSUME RingInv
  PROVE  /\ Offered \in Seq(Bids \cup {NoBid})
         /\ registered => /\ Len(Offered) = Available
                          /\ \A i \in 1..Available : Offered[i] = EntryAt(i - 1)
         /\ Available \in Nat /\ Pushed \in Nat /\ Available <= Pushed /\ Pushed <= RingEntries
<1> USE DEF RingInv
<1>1. /\ Available \in Nat /\ Pushed \in Nat /\ Available <= Pushed /\ Pushed <= BufCnt
      /\ BufCnt \in Nat /\ BufCnt <= RingEntries
  BY WrappingSubType, RingSizes, BufRingAssumption
     DEF Available, Pushed, BufRingTypeOK, TailsInOrder, Index
<1>2. PICK n \in Nat : n = Available /\ n <= RingEntries
  BY <1>1, RingSizes
<1>3. PICK mem \in [Slots -> Bids \cup {NoBid}], h \in Index : mem = entries /\ h = kHead
  BY DEF BufRingTypeOK
<1>4. PICK C : C = Bids \cup {NoBid}
  OBVIOUS
<1>5. mem \in [Slots -> C]
  BY <1>4
<1>6. /\ Span(mem, h, n) \in Seq(C) /\ Len(Span(mem, h, n)) = n
      /\ \A i \in 1..n : Span(mem, h, n)[i] = mem[Slot(WrappingAdd(h, i - 1))]
  <2>1. IsSpan(Span(mem, h, n), C, mem, h, n)
    BY <1>2, <1>5, SpanIsSpan
  <2> QED
    BY <2>1 DEF IsSpan
<1>7. <<>> \in Seq(C)
  OBVIOUS
<1> QED
  BY <1>1, <1>2, <1>3, <1>4, <1>6, <1>7, RingSizes DEF Offered, EntryAt

\* register: the ring is empty until the buffers are published.
LEMMA RegisterMaps ==
  ASSUME OneAtATime, RingInv, Register
  PROVE  UNCHANGED Pool!poolVars
<1>1. registrations = 0
  BY BufRingAssumption DEF OneAtATime, Register, RingInv, BufRingTypeOK
<1>2. kHead' = 0 /\ tail' = 0 /\ ~registered /\ UNCHANGED <<inFlight, gbufs>>
  BY <1>1 DEF Register, RingInv, NotYetUsed
<1>3. Available' = 0 /\ Offered = <<>>
  BY <1>2 DEF Available, WrappingSub, Offered
<1>4. Span(entries, kHead, Available)' = <<>>
  BY <1>3 DEF Span
<1>5. Offered' = <<>> /\ Held' = Held
  BY <1>2, <1>4 DEF Offered, Held
<1> QED
  BY <1>3, <1>5, Mapped

LEMMA UnregisterMaps ==
  ASSUME Unregister
  PROVE  Pool!Forget
<1>1. Offered' = <<>> /\ Held' = Held
  BY DEF Unregister, Offered, Held
<1> QED
  BY <1>1, Mapped DEF Pool!Forget, Pool!poolVars

\* Dropping a GBuf gives its buffer up.
LEMMA DropMaps ==
  ASSUME RingInv, NEW i \in 1..BufCnt, DropGBuf(i)
  PROVE  Pool!Return
<1>1. i \in 1..Len(gbufs) /\ gbufs \in Seq(Bids) /\ NoneTwice(gbufs)
  BY DEF DropGBuf, RingInv, BufRingTypeOK, OnePlaceEach
<1>2. PICK b \in Bids : b = gbufs[i]
  BY <1>1
<1>3. b \in ToSet(gbufs) /\ ToSet(gbufs') = ToSet(gbufs) \ {b}
  BY <1>1, <1>2, RemoveAtOfOnce DEF DropGBuf
<1>4. b \notin InFlightBids /\ Held = InFlightBids \cup ToSet(gbufs)
  BY <1>3, HeldBids DEF RingInv, OnePlaceEach
<1>5. RingInv'
  BY StepDropGBuf
<1>6. Held' = InFlightBids' \cup ToSet(gbufs')
  <2>1. (RingInv => Held = InFlightBids \cup ToSet(gbufs))'
    BY HeldBids, PTL
  <2> QED
    BY <1>5, <2>1
<1>7. InFlightBids' = InFlightBids
  BY DEF DropGBuf, InFlightBids
<1>8. Held' = Held \ {b} /\ b \in Held
  BY <1>3, <1>4, <1>6, <1>7
<1>9. Offered' = Offered
  BY SameOffered DEF DropGBuf, kernelVars
<1> QED
  BY <1>8, <1>9, Mapped DEF Pool!Return, Pool!poolVars

\* A pushed entry is not in sight of the kernel.
LEMMA PushMaps ==
  ASSUME RingInv, BufRingPush
  PROVE  UNCHANGED Pool!poolVars
<1>1. \A j \in 0..(Pushed - 1) : EntryAt(j)' = EntryAt(j)
  BY PushOne
<1>2. Available' = Available /\ registered' = registered /\ Held' = Held
  BY DEF BufRingPush, kernelVars, Available, Held
<1>3. \A i \in 1..Available : EntryAt(i - 1)' = EntryAt(i - 1)
  BY <1>1, OfferedSeq
<1>4. Offered' = Offered
  BY <1>2, <1>3 DEF Offered, Span, EntryAt
<1> QED
  BY <1>2, <1>4, Mapped

\* Publishing offers what was pushed since the last time, each buffer once.
LEMMA SyncMaps ==
  ASSUME RingInv, BufRingSync
  PROVE  Pool!Give \/ UNCHANGED Pool!poolVars
<1> USE DEF RingInv
<1>1. /\ tail' = localTail /\ kHead' = kHead /\ entries' = entries
      /\ registered' = registered /\ Held' = Held
  BY DEF BufRingSync, kernelVars, Held
<1>2. CASE ~registered
  BY <1>1, <1>2, Mapped DEF Offered
<1>3. CASE registered
  <2>1. PICK n \in Nat, m \in Nat :
          n = Available /\ n + m = Pushed /\ n + m <= RingEntries /\ n <= RingEntries
    <3>1. Pushed - Available \in Nat /\ Available + (Pushed - Available) = Pushed
      BY OfferedSeq
    <3> QED
      BY <3>1, OfferedSeq, RingSizes
  <2>2. PICK C : C = Bids \cup {NoBid}
    OBVIOUS
  <2>3. PICK mem \in [Slots -> C], h \in Index, u \in Index :
          mem = entries /\ h = kHead /\ u = tail
    BY <2>2 DEF BufRingTypeOK
  <2>4. n = WrappingSub(u, h)
    BY <2>1, <2>3 DEF Available
  <2>5. WrappingAdd(h, n) = u
    BY <2>4, AddDistance
  <2>6. Span(mem, h, n) \o Span(mem, WrappingAdd(h, n), m) = Span(mem, h, n + m)
    BY <2>1, SpanConcat
  <2> DEFINE rest == Span(mem, u, m)
  <2>7. Offered' = Offered \o rest
    <3>1. Offered = Span(mem, h, n)
      BY <1>3, <2>1, <2>3 DEF Offered
    <3>2. Offered' = Span(mem, h, n + m)
      BY <1>1, <1>3, <2>1, <2>3 DEF Offered, Available, Pushed
    <3> QED
      BY <3>1, <3>2, <2>5, <2>6
  <2>8. rest \in Seq(C) /\ Len(rest) = m
        /\ \A i \in 1..m : rest[i] = mem[Slot(WrappingAdd(u, i - 1))]
    <3>1. m <= RingEntries
      BY <2>1, RingSizes
    <3>2. IsSpan(Span(mem, u, m), C, mem, u, m)
      BY <3>1, SpanIsSpan
    <3> QED
      BY <3>2 DEF IsSpan
  <2>9. ASSUME NEW i \in 1..m
        PROVE  rest[i] = EntryAt(n + i - 1) /\ n + i - 1 \in 0..(Pushed - 1)
    <3>1. n + i - 1 \in 0..(Pushed - 1) /\ i - 1 \in Nat /\ n + (i - 1) <= RingEntries
          /\ n + (i - 1) = n + i - 1
      BY <2>1, RingSizes
    <3>2. WrappingAdd(WrappingAdd(h, n), i - 1) = WrappingAdd(h, n + (i - 1))
      BY <3>1, AddTwice
    <3>3. rest[i] = mem[Slot(WrappingAdd(h, n + i - 1))]
      BY <2>5, <2>8, <3>1, <3>2
    <3> QED
      BY <3>1, <3>3, <2>3 DEF EntryAt
  <2> HIDE DEF rest
  <2>10. NoneTwice(rest)
    <3> SUFFICES ASSUME NEW i \in 1..m, NEW j \in 1..m, rest[i] = rest[j]
                 PROVE  i = j
      BY <2>8 DEF NoneTwice
    <3>1. n + i - 1 = n + j - 1
      BY <2>9 DEF OnePlaceEach
    <3> QED
      BY <3>1, <2>1
  <2> DEFINE free == Bids \ (ToSet(Offered) \cup Held)
  <2>11. ASSUME NEW i \in 1..m
         PROVE  rest[i] \in free
    <3>1. rest[i] \in PushedBids
      BY <2>9 DEF PushedBids
    <3>2. rest[i] \in Bids /\ rest[i] \notin Held
      BY <3>1, HeldBids DEF OnePlaceEach
    <3>3. rest[i] \notin ToSet(Offered)
      <4> SUFFICES ASSUME rest[i] \in ToSet(Offered)
                   PROVE  FALSE
        OBVIOUS
      <4>1. PICK j \in 1..n : rest[i] = Offered[j]
        BY <1>3, <2>1, OfferedSeq DEF ToSet
      <4>2. Offered[j] = EntryAt(j - 1)
        BY <1>3, <2>1, <4>1, OfferedSeq
      <4>3. j - 1 \in 0..(Pushed - 1) /\ j - 1 # n + i - 1
        BY <2>1
      <4> QED
        BY <2>9, <4>1, <4>2, <4>3 DEF OnePlaceEach
    <3> QED
      BY <3>2, <3>3
  <2>12. CASE m = 0
    <3>1. rest = <<>>
      BY <2>8, <2>12
    <3>2. Offered' = Offered
      BY <2>7, <3>1, OfferedSeq
    <3> QED
      BY <1>1, <3>2, Mapped
  <2>13. CASE m # 0
    <3>1. rest \in Seq(free)
      <4> HIDE DEF free
      <4> QED
        BY <2>8, <2>11
    <3>2. rest \in SetToAllKPermutations(free)
      <4> HIDE DEF free
      <4> QED
        BY <3>1, <2>10, OncePermutes
    <3>3. rest # <<>>
      BY <2>8, <2>13
    <3>4. \E s \in SetToAllKPermutations(Bids \ (ToSet(Offered) \cup Held)) :
            s # <<>> /\ Offered' = Offered \o s
      BY <2>7, <3>2, <3>3
    <3>5. \E s \in Pool!SetToAllKPermutations(Bids \ (Pool!ToSet(Offered) \cup Held)) :
            s # <<>> /\ Offered' = Offered \o s
      <4>1. Pool!ToSet(Offered) = ToSet(Offered)
        BY DEF ToSet, Pool!ToSet
      <4>2. \A T : Pool!SetToSeqs(T) = SetToSeqs(T)
        <5>1. \A T : Pool!Cardinality(T) = Cardinality(T)
          BY DEF Cardinality, Pool!Cardinality
        <5> QED
          BY <5>1 DEF SetToSeqs, Pool!SetToSeqs
      <4>3. \A S : Pool!SetToAllKPermutations(S) = SetToAllKPermutations(S)
        BY <4>2 DEF SetToAllKPermutations, Pool!SetToAllKPermutations
      <4> QED
        BY <3>4, <4>1, <4>3
    <3> QED
      BY <1>1, <3>5, Mapped, Zenon DEF Pool!Give
  <2> QED
    BY <2>12, <2>13
<1> QED
  BY <1>2, <1>3

\* A request takes the buffer that was offered first.
LEMMA TakeMaps ==
  ASSUME OneAtATime, RingInv, Take
  PROVE  Pool!Take
<1> USE DEF RingInv
<1>1. registered /\ registered' /\ tail' = tail /\ entries' = entries /\ gbufs' = gbufs
  BY DEF Take, BufRingTypeOK
<1>2. /\ Available \in Nat \ {0} /\ kHead' = WrappingAdd(kHead, 1)
      /\ inFlight' = inFlight \cup {<<EntryAt(0)>>}
  BY TakeOne
<1>3. PICK C : C = Bids \cup {NoBid}
  OBVIOUS
<1>4. PICK mem \in [Slots -> C], h \in Index, u \in Index :
        mem = entries /\ h = kHead /\ u = tail
  BY <1>3 DEF BufRingTypeOK
<1>5. PICK n \in Nat : n = Available /\ n = WrappingSub(u, h) /\ n <= RingEntries /\ n > 0
  BY <1>2, <1>4, OfferedSeq, RingSizes DEF Available
<1>6. /\ Span(mem, h, n) # <<>>
      /\ Head(Span(mem, h, n)) = mem[Slot(h)]
      /\ Tail(Span(mem, h, n)) = Span(mem, WrappingAdd(h, 1), n - 1)
  BY <1>5, SpanHeadTail
<1>7. WrappingSub(u, WrappingAdd(h, 1)) = n - 1 /\ WrappingAdd(h, 0) = h
  BY <1>5, MoveHeadOn
<1>8. Offered = Span(mem, h, n)
  BY <1>1, <1>4, <1>5 DEF Offered
<1>9. Offered' = Span(mem, WrappingAdd(h, 1), n - 1)
  BY <1>1, <1>2, <1>4, <1>7 DEF Offered, Available
<1>10. EntryAt(0) = mem[Slot(h)]
  BY <1>4, <1>7 DEF EntryAt
<1>11. Held' = Held \cup {EntryAt(0)}
  <2>1. ToSet(<<EntryAt(0)>>) = {EntryAt(0)}
    BY DEF ToSet
  <2> QED
    BY <1>1, <1>2, <2>1 DEF Held
<1>12. Offered # <<>> /\ Head(Offered) = EntryAt(0) /\ Offered' = Tail(Offered)
  BY <1>6, <1>8, <1>9, <1>10
<1> QED
  BY <1>11, <1>12, Mapped DEF Pool!Take, Pool!poolVars

\* Reaping hands a buffer from the request to the program.
LEMMA ReapMaps ==
  ASSUME RingInv, Reap
  PROVE  UNCHANGED Pool!poolVars
<1>1. PICK bundle \in inFlight : /\ inFlight' = inFlight \ {bundle}
                                 /\ gbufs' = gbufs \o GetBufs(bundle[1], Len(bundle))
  BY DEF Reap
<1>2. PICK b \in Bids : bundle = <<b>>
  BY DEF RingInv, BufRingTypeOK
<1>3. b \in Int
  BY BufsCounted, RingSizes, BufRingAssumption DEF Bids
<1>4. GetBufs(bundle[1], Len(bundle)) = <<b>>
  <2>1. bundle[1] = b /\ Len(bundle) = 1
    BY <1>2
  <2>2. [i \in 1..1 |-> b + i - 1] = <<b>>
    BY <1>3
  <2> QED
    BY <2>1, <2>2 DEF GetBufs
<1>5. b \in InFlightBids /\ b \notin ToSet(gbufs)
  BY <1>2 DEF InFlightBids, RingInv, OnePlaceEach
<1>6. ToSet(gbufs') = ToSet(gbufs) \cup {b}
  BY <1>1, <1>4, <1>5, AppendToOnce DEF RingInv, BufRingTypeOK, OnePlaceEach
<1>7. InFlightBids' = InFlightBids \ {b}
  BY <1>1, <1>2 DEF InFlightBids, RingInv, BufRingTypeOK
<1>8. RingInv'
  BY StepReap
<1>9. Held' = InFlightBids' \cup ToSet(gbufs')
  <2>1. (RingInv => Held = InFlightBids \cup ToSet(gbufs))'
    BY HeldBids, PTL
  <2> QED
    BY <1>8, <2>1
<1>10. Held' = Held
  BY <1>5, <1>6, <1>7, <1>9, HeldBids
<1>11. Offered' = Offered
  BY SameOffered DEF Reap, kernelVars
<1> QED
  BY <1>10, <1>11, Mapped

LEMMA RingMaps ==
  ASSUME OneAtATime, RingInv, [Next]_vars
  PROVE  [Pool!Next]_(Pool!poolVars)
<1>1. CASE Register
  BY <1>1, RegisterMaps
<1>2. CASE Unregister
  BY <1>2, UnregisterMaps DEF Pool!Next
<1>3. CASE \E i \in 1..BufCnt : DropGBuf(i)
  BY <1>3, DropMaps DEF Pool!Next
<1>4. CASE BufRingPush
  BY <1>4, PushMaps
<1>5. CASE BufRingSync
  BY <1>5, SyncMaps DEF Pool!Next
<1>6. CASE Take
  BY <1>6, TakeMaps DEF Pool!Next
<1>7. CASE Reap
  BY <1>7, ReapMaps
<1>8. CASE UNCHANGED vars
  <2>1. Held' = Held /\ Offered' = Offered
    BY <1>8, SameOffered DEF vars, Held
  <2> QED
    BY <2>1, Mapped
<1> QED
  BY <1>1, <1>2, <1>3, <1>4, <1>5, <1>6, <1>7, <1>8 DEF Next

\* The memory with the wrapping tail in its first entry is a pool of buffers: the kernel
\* gets them in the order they were given back, and none that is taken already.
THEOREM RingIsPool ==
  ASSUME MaxRegistrations <= 1, MaxBundle = 1
  PROVE  PartsSpec => ImplementsPool
<1>1. OneAtATime
  BY DEF OneAtATime
<1>2. PartsInit => Pool!Init
  BY DEF PartsInit, Init, Pool!Init, Held, ToSet
<1>3. RingInv /\ [PartsNext]_partsVars
        => [Pool!Next]_(Pool!poolVars)
  BY <1>1, RingSide, RingMaps
<1> QED
  BY <1>1, <1>2, <1>3, RingAlways, PTL DEF PartsSpec, Pool!Spec, ImplementsPool

-----------------------------------------------------------------------------
(* RecvMsgOut::parse.                                                      *)

SentMessage == [name : Nat, control : Nat, payload : Nat, number : Nat]
Header  == [namelen : Nat, controllen : Nat, payloadlen : Nat,
            flags : SUBSET {"MSG_CTRUNC", "MSG_TRUNC"}]

ReceivedTypeOK ==
  /\ msghdr \in MsgHdrs
  /\ sent \in [Buffers -> SentMessage \cup {Received!NoMessage}]
  /\ memory = [b \in Buffers |-> memory[b]]
  /\ \A b \in Buffers :
       /\ memory[b] = [header |-> memory[b].header, bytes |-> memory[b].bytes]
       /\ memory[b].header \in Header
  /\ number \in Nat

\* What is in use at a buffer: the kernel's or a message's.
Full(b) == sent[b] # Received!NoMessage

\* The room of each field of a message in a buffer.
Space(b, field) ==
  CASE field = "name"    -> msghdr.namelen
    [] field = "control" -> msghdr.controllen
    [] field = "payload" -> Received!Room(b) - Received!Before("payload")

\* The header of a message tells its lengths, or what is left of them, and what was cut.
HeaderTells(b) ==
  LET h == memory[b].header
      m == sent[b]
  IN  /\ h.namelen = m.name
      /\ h.controllen = Received!Min({m.control, Space(b, "control")})
      /\ h.payloadlen \in {m.payload, Received!Min({m.payload, Space(b, "payload")})}
      /\ ("MSG_CTRUNC" \in h.flags) <=> (m.control > Space(b, "control"))
      /\ ("MSG_TRUNC" \in h.flags) <=> (m.payload > Space(b, "payload"))

\* Each field begins with the bytes of the message that have room in it.
BytesThere(b) ==
  \A field \in Received!Parts :
    \A k \in 1..Space(b, field) :
      k <= sent[b][field] =>
        memory[b].bytes[Received!Before(field) + k] = Received!Byte(field, k, sent[b].number)

FullOK(b) == Full(b) => Received!Fits(b) /\ HeaderTells(b) /\ BytesThere(b)

\* What was parsed lies in its buffer; while its buffer is not given back it is what parse
\* would still return.
OutOK ==
  /\ out.parsed.ok => out.buffer \in Buffers /\ Received!SlicesInsideBuffer
  /\ out.delivered => /\ out.buffer \in Buffers /\ Full(out.buffer)
                      /\ out.parsed = Received!Parse(out.buffer, msghdr)

ReceivedInv == ReceivedTypeOK /\ (\A b \in Buffers : FullOK(b)) /\ OutOK

LEMMA MinOfTwo ==
  ASSUME NEW x \in Int, NEW y \in Int
  PROVE  /\ Received!Min({x, y}) \in {x, y}
         /\ Received!Min({x, y}) <= x /\ Received!Min({x, y}) <= y
<1>1. \E z \in {x, y} : \A u \in {x, y} : z <= u
  <2>1. x <= y \/ y <= x
    OBVIOUS
  <2> QED
    BY <2>1
<1> QED
  BY <1>1 DEF Received!Min

LEMMA MinOfNats ==
  ASSUME NEW x \in Nat, NEW y \in Nat
  PROVE  /\ Received!Min({x, y}) \in Nat
         /\ Received!Min({x, y}) <= x /\ Received!Min({x, y}) <= y
<1>1. x \in Int /\ y \in Int
  OBVIOUS
<1> QED
  BY <1>1, MinOfTwo

LEMMA LesserOfTwo ==
  ASSUME NEW x \in Nat, NEW y \in Nat
  PROVE  Received!Min({x, y}) = IF x <= y THEN x ELSE y
<1>1. PICK z : z = Received!Min({x, y})
  OBVIOUS
<1>2. z \in {x, y} /\ z <= x /\ z <= y
  BY <1>1, MinOfTwo
<1>3. z = IF x <= y THEN x ELSE y
  BY <1>2
<1> QED
  BY <1>1, <1>3

LEMMA RoomBehindHeader ==
  ASSUME NEW b \in Buffers
  PROVE  /\ BufferLen[b] \in Nat /\ BufferLen[b] < UsizeMod
         /\ DataStart \in Nat /\ Received!Room(b) \in Nat
         /\ DataStart <= BufferLen[b] => Received!Room(b) = BufferLen[b] - DataStart
<1>1. BufferLen[b] \in 0..(UsizeMod - 1) /\ DataStart \in Nat /\ UsizeMod \in Nat
  BY RecvMsgAssumption DEF RecvMsgAssumption
<1>2. PICK room \in Int : room = BufferLen[b] - DataStart
  BY <1>1
<1>3. \E z \in {room, 0} : \A u \in {room, 0} : z >= u
  <2>1. room >= 0 \/ 0 >= room
    BY <1>2
  <2> QED
    BY <2>1
<1>4. /\ Received!Max({room, 0}) \in {room, 0}
      /\ Received!Max({room, 0}) >= room /\ Received!Max({room, 0}) >= 0
  BY <1>3 DEF Received!Max
<1> QED
  BY <1>1, <1>2, <1>4 DEF Received!Room

\* parse takes a buffer exactly when it holds the header and both fields; no sum wraps.
LEMMA LongEnough ==
  ASSUME NEW b \in Buffers, NEW hdr \in MsgHdrs
  PROVE  /\ hdr.namelen \in Nat /\ hdr.controllen \in Nat
         /\ Received!TooSmall(BufferLen[b], hdr)
              <=> BufferLen[b] < DataStart + hdr.namelen + hdr.controllen
<1>1. /\ BufferLen[b] \in 0..(UsizeMod - 1) /\ DataStart \in Nat /\ UsizeMod \in Nat
      /\ hdr.namelen \in Nat /\ hdr.controllen \in Nat
  BY RecvMsgAssumption DEF RecvMsgAssumption
<1> QED
  BY <1>1 DEF Received!TooSmall, Received!CheckedAdd, Received!Overflow

\* What parse returns of a buffer that is long enough.
LEMMA Parses ==
  ASSUME ReceivedTypeOK, NEW b \in Buffers, NEW hdr \in MsgHdrs,
         NEW o, o = Received!Parse(b, hdr)
  PROVE  /\ o.ok <=> ~Received!TooSmall(BufferLen[b], hdr)
         /\ o.ok =>
              /\ o.header = memory[b].header /\ o.namelen = hdr.namelen
              /\ o.name = Received!NameExtent(memory[b].header, hdr)
              /\ o.control = Received!ControlExtent(memory[b].header, hdr)
              /\ o.payload = Received!PayloadExtent(BufferLen[b], memory[b].header, hdr)
<1>1. CASE Received!TooSmall(BufferLen[b], hdr)
  BY <1>1 DEF Received!Parse, Received!Err
<1>2. CASE ~Received!TooSmall(BufferLen[b], hdr)
  BY <1>2 DEF Received!Parse
<1> QED
  BY <1>1, <1>2

\* Each slice begins where its field does and ends where the shorter of the length in
\* the header and the room of the field does.
LEMMA SliceEnds ==
  ASSUME NEW header \in Header, NEW b \in Buffers, NEW hdr \in MsgHdrs,
         ~Received!TooSmall(BufferLen[b], hdr)
  PROVE  /\ Received!NameExtent(header, hdr).from = DataStart
         /\ Received!NameExtent(header, hdr).to
              = DataStart + Received!Min({header.namelen, hdr.namelen})
         /\ Received!ControlExtent(header, hdr).from = DataStart + hdr.namelen
         /\ Received!ControlExtent(header, hdr).to
              = DataStart + hdr.namelen + Received!Min({header.controllen, hdr.controllen})
         /\ Received!PayloadExtent(BufferLen[b], header, hdr).from
              = DataStart + hdr.namelen + hdr.controllen
         /\ Received!PayloadExtent(BufferLen[b], header, hdr).to
              = DataStart + hdr.namelen + hdr.controllen
                + Received!Min({header.payloadlen,
                                BufferLen[b] - (DataStart + hdr.namelen + hdr.controllen)})
BY DEF Received!NameExtent, Received!ControlExtent, Received!PayloadExtent,
       Received!ControlStart, Received!PayloadStart, Received!Extent

\* Whatever the buffer holds and whichever msghdr is given, no slice leaves the buffer.
LEMMA ParsesInside ==
  ASSUME ReceivedTypeOK, NEW b \in Buffers, NEW hdr \in MsgHdrs,
         NEW o, o = Received!Parse(b, hdr), o.ok,
         NEW e \in {o.name, o.control, o.payload}
  PROVE  DataStart <= e.from /\ e.from <= e.to /\ e.to <= BufferLen[b]
<1> DEFINE start == DataStart + hdr.namelen + hdr.controllen
<1>0. PICK header : header = memory[b].header
  OBVIOUS
<1>1. /\ ~Received!TooSmall(BufferLen[b], hdr)
      /\ o.name = Received!NameExtent(header, hdr)
      /\ o.control = Received!ControlExtent(header, hdr)
      /\ o.payload = Received!PayloadExtent(BufferLen[b], header, hdr)
  BY <1>0, Parses
<1>2. header \in Header
  BY <1>0 DEF ReceivedTypeOK
<1>3. header.namelen \in Nat /\ header.controllen \in Nat /\ header.payloadlen \in Nat
  BY <1>2 DEF Header
<1>4. /\ hdr.namelen \in Nat /\ hdr.controllen \in Nat /\ BufferLen[b] \in Nat
      /\ DataStart \in Nat /\ start <= BufferLen[b]
  BY <1>1, LongEnough, RoomBehindHeader
<1>5. PICK n : n = Received!Min({header.namelen, hdr.namelen})
  OBVIOUS
<1>6. PICK c : c = Received!Min({header.controllen, hdr.controllen})
  OBVIOUS
<1>7. PICK left : left = BufferLen[b] - start
  OBVIOUS
<1>8. PICK p : p = Received!Min({header.payloadlen, left})
  OBVIOUS
<1>10. /\ n \in Nat /\ n <= hdr.namelen
       /\ c \in Nat /\ c <= hdr.controllen
       /\ p \in Nat /\ p <= left
  <2>1. n \in Nat /\ n <= hdr.namelen
    BY <1>3, <1>4, <1>5, MinOfNats
  <2>2. c \in Nat /\ c <= hdr.controllen
    BY <1>3, <1>4, <1>6, MinOfNats
  <2>3. p \in Nat /\ p <= left
    <3>1. left \in Nat
      BY <1>4, <1>7
    <3> QED
      BY <1>3, <1>8, <3>1, MinOfNats
  <2> QED
    BY <2>1, <2>2, <2>3
<1>9. /\ o.name.from = DataStart /\ o.name.to = DataStart + n
      /\ o.control.from = DataStart + hdr.namelen
      /\ o.control.to = DataStart + hdr.namelen + c
      /\ o.payload.from = start /\ o.payload.to = start + p
  <2>1. o.name.from = DataStart /\ o.name.to = DataStart + n
    BY <1>1, <1>2, <1>5, SliceEnds, ZenonT(30)
  <2>2. /\ o.control.from = DataStart + hdr.namelen
        /\ o.control.to = DataStart + hdr.namelen + c
    BY <1>1, <1>2, <1>6, SliceEnds, ZenonT(30)
  <2>3. /\ Received!PayloadExtent(BufferLen[b], header, hdr).from = start
        /\ Received!PayloadExtent(BufferLen[b], header, hdr).to = start + p
    BY <1>1, <1>2, <1>7, <1>8, SliceEnds, Zenon
  <2>4. o.payload.from = start /\ o.payload.to = start + p
    BY <1>1, <2>3
  <2> QED
    BY <2>1, <2>2, <2>4
<1> QED
  BY <1>4, <1>7, <1>9, <1>10

-----------------------------------------------------------------------------
(* The fields of a buffer that a message fits into.                         *)

LEMMA SpacesAre ==
  ASSUME msghdr \in MsgHdrs, NEW b \in Buffers
  PROVE  /\ Space(b, "name") = msghdr.namelen /\ msghdr.namelen \in Nat
         /\ Space(b, "control") = msghdr.controllen /\ msghdr.controllen \in Nat
         /\ Space(b, "payload") = Received!Room(b) - (msghdr.namelen + msghdr.controllen)
         /\ Received!Before("name") = 0
         /\ Received!Before("control") = msghdr.namelen
         /\ Received!Before("payload") = msghdr.namelen + msghdr.controllen
         /\ Received!Fits(b) =>
              /\ DataStart <= BufferLen[b]
              /\ Received!Room(b) = BufferLen[b] - DataStart
              /\ Space(b, "payload") \in Nat
<1>1. msghdr.namelen \in Nat /\ msghdr.controllen \in Nat
  BY LongEnough
<1>2. /\ Received!Before("name") = 0
      /\ Received!Before("control") = msghdr.namelen
      /\ Received!Before("payload") = msghdr.namelen + msghdr.controllen
  BY DEF Received!Before
<1>3. /\ Space(b, "name") = msghdr.namelen /\ Space(b, "control") = msghdr.controllen
      /\ Space(b, "payload") = Received!Room(b) - (msghdr.namelen + msghdr.controllen)
  BY <1>2 DEF Space
<1>4. ASSUME Received!Fits(b)
      PROVE  /\ DataStart <= BufferLen[b]
             /\ Received!Room(b) = BufferLen[b] - DataStart
             /\ Space(b, "payload") \in Nat
  BY <1>1, <1>3, <1>4, RoomBehindHeader DEF Received!Fits
<1> QED
  BY <1>1, <1>2, <1>3, <1>4

\* The k-th byte of a field is that field's, and inside the buffer.
LEMMA FieldAt ==
  ASSUME msghdr \in MsgHdrs, NEW b \in Buffers, Received!Fits(b),
         NEW field \in Received!Parts, NEW k \in 1..Space(b, field)
  PROVE  /\ Received!Before(field) + k \in 1..Received!Room(b)
         /\ Received!FieldOf(Received!Before(field) + k) = field
         /\ (Received!Before(field) + k) - Received!Before(field) = k
<1>1. /\ msghdr.namelen \in Nat /\ msghdr.controllen \in Nat /\ Received!Room(b) \in Nat
      /\ Received!Room(b) - (msghdr.namelen + msghdr.controllen) \in Nat
  BY SpacesAre, RoomBehindHeader
<1>2. CASE field = "name"
  <2>1. k \in 1..msghdr.namelen /\ Received!Before(field) = 0
    BY <1>2, SpacesAre
  <2> QED
    BY <1>1, <1>2, <2>1 DEF Received!FieldOf
<1>3. CASE field = "control"
  <2>1. k \in 1..msghdr.controllen /\ Received!Before(field) = msghdr.namelen
    BY <1>3, SpacesAre
  <2> QED
    BY <1>1, <1>3, <2>1 DEF Received!FieldOf
<1>4. CASE field = "payload"
  <2>1. /\ k \in 1..(Received!Room(b) - (msghdr.namelen + msghdr.controllen))
        /\ Received!Before(field) = msghdr.namelen + msghdr.controllen
    BY <1>4, SpacesAre
  <2> QED
    BY <1>1, <1>4, <2>1 DEF Received!FieldOf
<1> QED
  BY <1>2, <1>3, <1>4 DEF Received!Parts

-----------------------------------------------------------------------------
(* The steps of RecvMsgOut.                                                *)

\* What a buffer holds and what is known of it, where its memory and its message stay.
LEMMA SameBuffer ==
  ASSUME NEW b \in Buffers, FullOK(b), msghdr' = msghdr,
         sent'[b] = sent[b], memory'[b] = memory[b]
  PROVE  FullOK(b)' /\ (Full(b)' <=> Full(b))
<1>1. \A field : Space(b, field)' = Space(b, field)
  BY DEF Space, Received!Room, Received!Before
<1>2. \A field : Received!Before(field)' = Received!Before(field)
  BY DEF Received!Before
<1>3. HeaderTells(b) => HeaderTells(b)'
  BY <1>1 DEF HeaderTells
<1>4. BytesThere(b) => BytesThere(b)'
  BY <1>1, <1>2 DEF BytesThere
<1>5. Received!Fits(b)' <=> Received!Fits(b)
  BY DEF Received!Fits
<1>6. Full(b)' <=> Full(b)
  BY DEF Full
<1> QED
  BY <1>3, <1>4, <1>5, <1>6 DEF FullOK

\* What was parsed stays right while its buffer, if it was delivered, stays as it is.
LEMMA SameOut ==
  ASSUME ReceivedTypeOK, OutOK, out' = out,
         out.delivered => /\ msghdr' = msghdr
                          /\ sent'[out.buffer] = sent[out.buffer]
                          /\ memory'[out.buffer] = memory[out.buffer]
  PROVE  OutOK'
<1>1. Received!SlicesInsideBuffer' <=> Received!SlicesInsideBuffer
  BY DEF Received!SlicesInsideBuffer, Received!Extents
<1>2. ASSUME out.delivered
      PROVE  Received!Parse(out.buffer, msghdr)' = Received!Parse(out.buffer, msghdr)
  <2>1. out'.buffer = out.buffer /\ msghdr' = msghdr /\ memory'[out.buffer] = memory[out.buffer]
    BY <1>2
  <2> QED
    BY <2>1 DEF Received!Parse, Received!TooSmall, Received!CheckedAdd, Received!Overflow,
             Received!NameExtent, Received!ControlExtent, Received!PayloadExtent,
             Received!ControlStart, Received!PayloadStart, Received!Extent, Received!Err
<1> QED
  BY <1>1, <1>2 DEF OutOK, Full

LEMMA StepParse ==
  ASSUME ReceivedInv, NEW b \in Buffers, NEW hdr \in MsgHdrs, Received!ParseBuffer(b, hdr)
  PROVE  ReceivedInv'
<1>1. /\ UNCHANGED <<msghdr, memory, sent, number>>
      /\ out'.parsed = Received!Parse(b, hdr) /\ out'.buffer = b
      /\ out'.delivered => sent[b] # Received!NoMessage /\ hdr = msghdr
  BY DEF Received!ParseBuffer
<1>2. ReceivedTypeOK'
  BY <1>1 DEF ReceivedInv, ReceivedTypeOK
<1>3. ASSUME NEW c \in Buffers PROVE FullOK(c)'
  BY <1>1, SameBuffer DEF ReceivedInv
<1>4. ASSUME out'.parsed.ok PROVE Received!SlicesInsideBuffer'
  <2>1. PICK o : o = Received!Parse(b, hdr)
    OBVIOUS
  <2>2. \A e \in {o.name, o.control, o.payload} :
          DataStart <= e.from /\ e.from <= e.to /\ e.to <= BufferLen[b]
    BY <1>1, <1>4, <2>1, ParsesInside DEF ReceivedInv
  <2> QED
    BY <1>1, <2>1, <2>2 DEF Received!SlicesInsideBuffer, Received!Extents
<1>5. Received!Parse(b, msghdr)' = Received!Parse(b, msghdr)
  BY <1>1 DEF Received!Parse, Received!TooSmall, Received!CheckedAdd, Received!Overflow,
              Received!NameExtent, Received!ControlExtent, Received!PayloadExtent,
              Received!ControlStart, Received!PayloadStart, Received!Extent, Received!Err
<1>6. OutOK'
  BY <1>1, <1>4, <1>5 DEF OutOK, Full
<1> QED
  BY <1>2, <1>3, <1>6 DEF ReceivedInv

LEMMA StepGiveBack ==
  ASSUME ReceivedInv, NEW b \in Buffers, Received!GiveBack(b)
  PROVE  ReceivedInv'
<1>1. /\ UNCHANGED <<msghdr, memory, number>>
      /\ sent' = [sent EXCEPT ![b] = Received!NoMessage]
      /\ out' = IF out.buffer = b THEN Received!NotParsed ELSE out
  BY DEF Received!GiveBack
<1>2. sent \in [Buffers -> SentMessage \cup {Received!NoMessage}]
  BY DEF ReceivedInv, ReceivedTypeOK
<1>3. ReceivedTypeOK'
  BY <1>1, <1>2 DEF ReceivedInv, ReceivedTypeOK
<1>4. ASSUME NEW c \in Buffers PROVE FullOK(c)'
  <2>1. CASE c = b
    BY <1>1, <1>2, <2>1 DEF FullOK, Full
  <2>2. CASE c # b
    BY <1>1, <1>2, <2>2, SameBuffer DEF ReceivedInv
  <2> QED
    BY <2>1, <2>2
<1>5. OutOK'
  <2>1. CASE out.buffer = b
    BY <1>1, <2>1 DEF OutOK, Received!NotParsed, Received!Err
  <2>2. CASE out.buffer # b
    <3>1. /\ out' = out
          /\ out.delivered => /\ msghdr' = msghdr
                              /\ sent'[out.buffer] = sent[out.buffer]
                              /\ memory'[out.buffer] = memory[out.buffer]
      BY <1>1, <1>2, <2>2 DEF ReceivedInv, OutOK
    <3> QED
      BY <3>1, SameOut DEF ReceivedInv
  <2> QED
    BY <2>1, <2>2
<1> QED
  BY <1>3, <1>4, <1>5 DEF ReceivedInv

LEMMA StepRearm ==
  ASSUME ReceivedInv, NEW hdr \in MsgHdrs, Received!Rearm(hdr)
  PROVE  ReceivedInv'
<1>1. /\ UNCHANGED <<memory, sent, number, out>> /\ msghdr' = hdr
      /\ \A b \in Buffers : ~Full(b)
  BY DEF Received!Rearm, Full
<1>2. ReceivedTypeOK'
  BY <1>1 DEF ReceivedInv, ReceivedTypeOK
<1>3. ASSUME NEW c \in Buffers PROVE FullOK(c)'
  BY <1>1 DEF FullOK, Full
<1>4. ~out.delivered
  BY <1>1 DEF ReceivedInv, OutOK
<1> QED
  BY <1>1, <1>2, <1>3, <1>4, SameOut DEF ReceivedInv

\* The header of a message and the bytes behind it, as the kernel writes them.
HeaderFor(h, b, m, whole) ==
  /\ h \in Header
  /\ h.namelen = m.name
  /\ h.controllen = Received!Min({m.control, Space(b, "control")})
  /\ h.payloadlen = IF whole THEN m.payload ELSE Received!Min({m.payload, Space(b, "payload")})
  /\ ("MSG_CTRUNC" \in h.flags) <=> (m.control > Space(b, "control"))
  /\ ("MSG_TRUNC" \in h.flags) <=> (m.payload > Space(b, "payload"))

BytesFor(bytes, b, m) ==
  \A i \in 1..Received!Room(b) :
    LET field == Received!FieldOf(i)
        k     == i - Received!Before(field)
    IN  k <= m[field] => bytes[i] = Received!Byte(field, k, number)

LEMMA MessageLengths ==
  ASSUME NEW m \in Messages
  PROVE  /\ m.name \in Nat /\ m.control \in Nat /\ m.payload \in Nat
         /\ m = [name |-> m.name, control |-> m.control, payload |-> m.payload]
BY RecvMsgAssumption DEF RecvMsgAssumption

\* What the kernel leaves of a message in a buffer.
LEMMA ReceiveFills ==
  ASSUME ReceivedTypeOK, NEW b \in Buffers, NEW m \in Messages, NEW whole \in BOOLEAN,
         Received!Receive(b, m, whole)
  PROVE  /\ ~Full(b) /\ Received!Fits(b) /\ msghdr' = msghdr /\ out' = out
         /\ sent'[b] = [name |-> m.name, control |-> m.control, payload |-> m.payload,
                        number |-> number]
         /\ number' = (number % MaxSequence) + 1
         /\ sent' = [sent EXCEPT ![b] = sent'[b]]
         /\ memory' = [memory EXCEPT ![b] = memory'[b]]
         /\ memory'[b] = [header |-> memory'[b].header, bytes |-> memory'[b].bytes]
         /\ HeaderFor(memory'[b].header, b, m, whole)
         /\ BytesFor(memory'[b].bytes, b, m)
<1> DEFINE space == Received!Room(b) - Received!Before("payload")
           head  == [namelen    |-> m.name,
                     controllen |-> Received!Min({m.control, msghdr.controllen}),
                     payloadlen |-> IF whole THEN m.payload
                                             ELSE Received!Min({m.payload, space}),
                     flags      |->
                       {f \in {"MSG_CTRUNC", "MSG_TRUNC"} :
                          \/ f = "MSG_CTRUNC" /\ m.control > msghdr.controllen
                          \/ f = "MSG_TRUNC" /\ m.payload > space}]
           byte(i) == LET field == Received!FieldOf(i)
                          k == i - Received!Before(field)
                      IN  IF k <= m[field] THEN Received!Byte(field, k, number)
                                           ELSE memory[b].bytes[i]
<1>1. /\ sent[b] = Received!NoMessage /\ Received!Fits(b)
      /\ memory' = [memory EXCEPT ![b] =
                      [header |-> head, bytes |-> [i \in 1..Received!Room(b) |-> byte(i)]]]
      /\ sent' = [sent EXCEPT ![b] = [name |-> m.name, control |-> m.control,
                                      payload |-> m.payload, number |-> number]]
      /\ number' = (number % MaxSequence) + 1
      /\ UNCHANGED <<msghdr, out>>
  BY DEF Received!Receive
<1>2. /\ DOMAIN memory = Buffers /\ DOMAIN sent = Buffers
  BY DEF ReceivedTypeOK
<1>3. memory'[b] = [header |-> head, bytes |-> [i \in 1..Received!Room(b) |-> byte(i)]]
  BY <1>1, <1>2
<1>4. /\ sent'[b] = [name |-> m.name, control |-> m.control, payload |-> m.payload,
                     number |-> number]
      /\ sent' = [sent EXCEPT ![b] = sent'[b]] /\ memory' = [memory EXCEPT ![b] = memory'[b]]
  BY <1>1, <1>2
<1>5. memory'[b].header = head
  BY <1>3
<1>6. memory'[b].bytes = [i \in 1..Received!Room(b) |-> byte(i)]
  BY <1>3
<1>7. memory'[b] = [header |-> memory'[b].header, bytes |-> memory'[b].bytes]
  BY <1>3, <1>5, <1>6
<1>8. Space(b, "control") = msghdr.controllen /\ Space(b, "payload") = space
  BY DEF Space
<1>9. \A i \in 1..Received!Room(b) : memory'[b].bytes[i] = byte(i)
  BY <1>6
<1>10. HeaderFor(memory'[b].header, b, m, whole)
  <2>1. /\ m.name \in Nat /\ m.control \in Nat /\ m.payload \in Nat
        /\ msghdr.controllen \in Nat /\ space \in Nat
    BY <1>1, <1>8, MessageLengths, SpacesAre DEF ReceivedTypeOK
  <2>2. /\ Received!Min({m.control, msghdr.controllen}) \in Nat
        /\ Received!Min({m.payload, space}) \in Nat
    BY <2>1, MinOfNats
  <2>3. head \in Header
    BY <2>1, <2>2 DEF Header
  <2>4. /\ ("MSG_CTRUNC" \in head.flags) <=> (m.control > msghdr.controllen)
        /\ ("MSG_TRUNC" \in head.flags) <=> (m.payload > space)
    OBVIOUS
  <2>5. /\ head.namelen = m.name
        /\ head.controllen = Received!Min({m.control, msghdr.controllen})
        /\ head.payloadlen = IF whole THEN m.payload
                                      ELSE Received!Min({m.payload, space})
    OBVIOUS
  <2> HIDE DEF head, space
  <2> QED
    BY <1>5, <1>8, <2>3, <2>4, <2>5 DEF HeaderFor
<1>11. BytesFor(memory'[b].bytes, b, m)
  BY <1>9 DEF BytesFor
<1> HIDE DEF head, byte, space
<1> QED
  BY <1>1, <1>4, <1>7, <1>10, <1>11 DEF Full

LEMMA StepReceive ==
  ASSUME ReceivedInv, NEW b \in Buffers, NEW m \in Messages, NEW whole \in BOOLEAN,
         Received!Receive(b, m, whole)
  PROVE  ReceivedInv'
<1>0. ReceivedTypeOK
  BY DEF ReceivedInv
<1>1. /\ ~Full(b) /\ Received!Fits(b) /\ msghdr' = msghdr /\ out' = out
      /\ sent'[b] = [name |-> m.name, control |-> m.control, payload |-> m.payload,
                     number |-> number]
      /\ number' = (number % MaxSequence) + 1
      /\ sent' = [sent EXCEPT ![b] = sent'[b]]
      /\ memory' = [memory EXCEPT ![b] = memory'[b]]
  <2>1. ~Full(b) /\ Received!Fits(b) /\ msghdr' = msghdr /\ out' = out
    BY <1>0, ReceiveFills
  <2>2. sent' = [sent EXCEPT ![b] = sent'[b]]
    BY <1>0, ReceiveFills
  <2>3. memory' = [memory EXCEPT ![b] = memory'[b]]
    BY <1>0, ReceiveFills
  <2>4. sent'[b] = [name |-> m.name, control |-> m.control, payload |-> m.payload,
                    number |-> number]
    BY <1>0 DEF Received!Receive, ReceivedTypeOK
  <2>5. number' = (number % MaxSequence) + 1
    BY DEF Received!Receive
  <2> QED
    BY <2>1, <2>2, <2>3, <2>4, <2>5, Zenon
<1>2. /\ m.name \in Nat /\ m.control \in Nat /\ m.payload \in Nat
      /\ m = [name |-> m.name, control |-> m.control, payload |-> m.payload]
      /\ MaxSequence \in Nat \ {0}
  BY MessageLengths, RecvMsgAssumption DEF RecvMsgAssumption
<1>3. /\ number \in Nat /\ DOMAIN memory = Buffers /\ msghdr \in MsgHdrs
      /\ sent \in [Buffers -> SentMessage \cup {Received!NoMessage}]
  BY DEF ReceivedInv, ReceivedTypeOK
<1>4. HeaderFor(memory'[b].header, b, m, whole)
  BY <1>0, ReceiveFills
<1>5. BytesFor(memory'[b].bytes, b, m)
  BY <1>0, ReceiveFills
<1>6. ReceivedTypeOK'
  <2>1. sent'[b] \in SentMessage /\ number' \in Nat
    BY <1>1, <1>2, <1>3 DEF SentMessage
  <2>2. sent' \in [Buffers -> SentMessage \cup {Received!NoMessage}]
    BY <1>1, <1>3, <2>1
  <2>3. memory'[b] = [header |-> memory'[b].header, bytes |-> memory'[b].bytes]
    BY <1>0, ReceiveFills
  <2>4. memory' = [c \in Buffers |-> memory'[c]]
    BY <1>1, <1>3
  <2>5. ASSUME NEW c \in Buffers
        PROVE  /\ memory'[c] = [header |-> memory'[c].header, bytes |-> memory'[c].bytes]
               /\ memory'[c].header \in Header
    <3>1. CASE c = b
      BY <1>4, <2>3, <3>1 DEF HeaderFor
    <3>2. CASE c # b
      <4>1. memory'[c] = memory[c]
        BY <1>1, <1>3, <3>2
      <4> QED
        BY <4>1 DEF ReceivedInv, ReceivedTypeOK
    <3> QED
      BY <3>1, <3>2
  <2> QED
    BY <1>1, <1>3, <2>1, <2>2, <2>4, <2>5 DEF ReceivedTypeOK
<1>7. FullOK(b)'
  <2>1. /\ \A field : Space(b, field)' = Space(b, field)
        /\ \A field : Received!Before(field)' = Received!Before(field)
        /\ Received!Fits(b)'
    BY <1>1 DEF Space, Received!Room, Received!Before, Received!Fits
  <2>2. HeaderTells(b)'
    <3>1. /\ memory'[b].header.namelen = m.name
          /\ memory'[b].header.controllen = Received!Min({m.control, Space(b, "control")})
          /\ memory'[b].header.payloadlen
               \in {m.payload, Received!Min({m.payload, Space(b, "payload")})}
          /\ ("MSG_CTRUNC" \in memory'[b].header.flags) <=> (m.control > Space(b, "control"))
          /\ ("MSG_TRUNC" \in memory'[b].header.flags) <=> (m.payload > Space(b, "payload"))
      BY <1>4 DEF HeaderFor
    <3>2. /\ sent'[b].name = m.name /\ sent'[b].control = m.control
          /\ sent'[b].payload = m.payload
      BY <1>1
    <3> QED
      BY <2>1, <3>1, <3>2 DEF HeaderTells
  <2>3. BytesThere(b)'
    <3>1. ASSUME NEW field \in Received!Parts, NEW k \in 1..Space(b, field),
                 k <= sent'[b][field]
          PROVE  memory'[b].bytes[Received!Before(field) + k]
                   = Received!Byte(field, k, sent'[b].number)
      <4>1. sent'[b][field] = m[field] /\ sent'[b].number = number
        BY <1>1, <1>2 DEF Received!Parts
      <4>2. PICK i : i = Received!Before(field) + k
        OBVIOUS
      <4>3. /\ i \in 1..Received!Room(b) /\ Received!FieldOf(i) = field
            /\ i - Received!Before(field) = k
        BY <1>1, <1>3, <4>2, FieldAt
      <4>5. k <= m[field] => memory'[b].bytes[i] = Received!Byte(field, k, number)
        BY <1>5, <4>3 DEF BytesFor
      <4> QED
        BY <3>1, <4>1, <4>2, <4>5
    <3> QED
      BY <2>1, <3>1 DEF BytesThere, Received!Byte, Received!Parts
  <2> QED
    BY <2>1, <2>2, <2>3 DEF FullOK
<1>8. ASSUME NEW c \in Buffers PROVE FullOK(c)'
  <2>1. CASE c = b
    BY <1>7, <2>1
  <2>2. CASE c # b
    <3>1. sent'[c] = sent[c] /\ memory'[c] = memory[c]
      BY <1>1, <1>3, <2>2
    <3> QED
      BY <1>1, <3>1, SameBuffer DEF ReceivedInv
  <2> QED
    BY <2>1, <2>2
<1>9. OutOK'
  <2>1. ASSUME out.delivered
        PROVE  sent'[out.buffer] = sent[out.buffer] /\ memory'[out.buffer] = memory[out.buffer]
    <3>1. out.buffer \in Buffers /\ out.buffer # b
      BY <1>1, <2>1 DEF ReceivedInv, OutOK
    <3> QED
      BY <1>1, <1>3, <3>1
  <2> QED
    BY <1>1, <2>1, SameOut DEF ReceivedInv
<1> QED
  BY <1>6, <1>8, <1>9 DEF ReceivedInv

LEMMA ReceivedSide ==
  ASSUME [PartsNext]_partsVars
  PROVE  [Received!Next]_receivedVars
BY DEF PartsNext, partsVars, RingStep, ReceivedStep, EntryStep, receivedVars

LEMMA ReceivedStill ==
  ASSUME ReceivedInv, UNCHANGED receivedVars
  PROVE  ReceivedInv'
<1>1. msghdr' = msghdr /\ memory' = memory /\ sent' = sent /\ number' = number /\ out' = out
  BY DEF receivedVars
<1>2. ReceivedTypeOK'
  BY <1>1 DEF ReceivedInv, ReceivedTypeOK
<1>3. ASSUME NEW b \in Buffers PROVE FullOK(b)'
  BY <1>1, SameBuffer DEF ReceivedInv
<1>4. OutOK'
  BY <1>1, SameOut DEF ReceivedInv
<1> QED
  BY <1>2, <1>3, <1>4 DEF ReceivedInv

LEMMA ReceivedFirst ==
  ASSUME PartsInit
  PROVE  ReceivedInv
<1>1. /\ msghdr \in MsgHdrs /\ number = 1 /\ out = Received!NotParsed
      /\ sent = [b \in Buffers |-> Received!NoMessage]
      /\ memory = [b \in Buffers |->
                     [header |-> Received!NoHeader,
                      bytes  |-> [i \in 1..Received!Room(b) |-> Received!Stale]]]
  BY DEF PartsInit, Received!Init
<1>2. Received!NoHeader \in Header
  BY DEF Header, Received!NoHeader
<1>3. ReceivedTypeOK
  BY <1>1, <1>2 DEF ReceivedTypeOK
<1>4. ASSUME NEW b \in Buffers PROVE FullOK(b)
  BY <1>1 DEF FullOK, Full
<1>5. OutOK
  BY <1>1 DEF OutOK, Received!NotParsed, Received!Err
<1> QED
  BY <1>3, <1>4, <1>5 DEF ReceivedInv

LEMMA ReceivedAlways == PartsSpec => []ReceivedInv
<1>1. ReceivedInv /\ [PartsNext]_partsVars => ReceivedInv'
  <2> SUFFICES ASSUME ReceivedInv, [Received!Next]_receivedVars
               PROVE  ReceivedInv'
    BY ReceivedSide
  <2>1. CASE \E b \in Buffers, m \in Messages, whole \in BOOLEAN :
               Received!Receive(b, m, whole)
    BY <2>1, StepReceive
  <2>2. CASE \E b \in Buffers, hdr \in MsgHdrs : Received!ParseBuffer(b, hdr)
    BY <2>2, StepParse
  <2>3. CASE \E b \in Buffers : Received!GiveBack(b)
    BY <2>3, StepGiveBack
  <2>4. CASE \E hdr \in MsgHdrs : Received!Rearm(hdr)
    BY <2>4, StepRearm
  <2>5. CASE UNCHANGED receivedVars
    BY <2>5, ReceivedStill
  <2> QED
    BY <2>1, <2>2, <2>3, <2>4, <2>5 DEF Received!Next
<1> QED
  BY <1>1, ReceivedFirst, PTL DEF PartsSpec

-----------------------------------------------------------------------------
(* What parse makes of a message.                                          *)

\* Each slice of a delivered buffer begins where its field does and is as long as what
\* the field has of its part.
LEMMA SliceOfField ==
  ASSUME ReceivedInv, out.delivered, NEW field \in Received!Parts, NEW e, e = out.parsed[field],
         NEW m, m = sent[out.buffer], NEW b, b = out.buffer
  PROVE  /\ out.parsed.ok /\ b \in Buffers
         /\ out.parsed.header = memory[b].header /\ out.parsed.namelen = msghdr.namelen
         /\ m[field] \in Nat /\ Space(b, field) \in Nat
         /\ e.from - DataStart = Received!Before(field)
         /\ e.to - e.from = IF m[field] <= Space(b, field) THEN m[field] ELSE Space(b, field)
<1>1. /\ b \in Buffers /\ Full(b) /\ Received!Fits(b) /\ HeaderTells(b)
      /\ out.parsed = Received!Parse(b, msghdr)
  BY DEF ReceivedInv, OutOK, FullOK
<1>2. ReceivedTypeOK /\ msghdr \in MsgHdrs
  BY DEF ReceivedInv, ReceivedTypeOK
<1>3. m \in SentMessage
  BY <1>1, <1>2 DEF ReceivedTypeOK, Full
<1>4. m.name \in Nat /\ m.control \in Nat /\ m.payload \in Nat
  BY <1>3 DEF SentMessage
<1>5. PICK header : header = memory[b].header
  OBVIOUS
<1>6. header \in Header
  BY <1>1, <1>2, <1>5 DEF ReceivedTypeOK
<1>7. /\ header.namelen = m.name
      /\ header.controllen = Received!Min({m.control, Space(b, "control")})
      /\ header.payloadlen \in {m.payload, Received!Min({m.payload, Space(b, "payload")})}
  BY <1>1, <1>5 DEF HeaderTells
<1>8. ~Received!TooSmall(BufferLen[b], msghdr)
  <2>1. DataStart + msghdr.namelen + msghdr.controllen <= BufferLen[b]
    BY <1>1 DEF Received!Fits
  <2> QED
    BY <1>1, <1>2, <2>1, LongEnough, RoomBehindHeader, SpacesAre
<1>9. /\ out.parsed.ok
      /\ out.parsed.header = header /\ out.parsed.namelen = msghdr.namelen
      /\ out.parsed.name = Received!NameExtent(header, msghdr)
      /\ out.parsed.control = Received!ControlExtent(header, msghdr)
      /\ out.parsed.payload = Received!PayloadExtent(BufferLen[b], header, msghdr)
  BY <1>1, <1>2, <1>5, <1>8, Parses
<1>10. /\ Space(b, "name") = msghdr.namelen /\ msghdr.namelen \in Nat
       /\ Space(b, "control") = msghdr.controllen /\ msghdr.controllen \in Nat
       /\ Space(b, "payload") = BufferLen[b] - (DataStart + msghdr.namelen + msghdr.controllen)
       /\ Space(b, "payload") \in Nat /\ DataStart \in Nat /\ BufferLen[b] \in Nat
       /\ Received!Before("name") = 0 /\ Received!Before("control") = msghdr.namelen
       /\ Received!Before("payload") = msghdr.namelen + msghdr.controllen
  BY <1>1, <1>2, SpacesAre, RoomBehindHeader
<1>11. /\ Received!NameExtent(header, msghdr).from = DataStart
       /\ Received!NameExtent(header, msghdr).to
            = DataStart + Received!Min({header.namelen, msghdr.namelen})
       /\ Received!ControlExtent(header, msghdr).from = DataStart + msghdr.namelen
       /\ Received!ControlExtent(header, msghdr).to
            = DataStart + msghdr.namelen
              + Received!Min({header.controllen, msghdr.controllen})
       /\ Received!PayloadExtent(BufferLen[b], header, msghdr).from
            = DataStart + msghdr.namelen + msghdr.controllen
       /\ Received!PayloadExtent(BufferLen[b], header, msghdr).to
            = DataStart + msghdr.namelen + msghdr.controllen
              + Received!Min({header.payloadlen,
                  BufferLen[b] - (DataStart + msghdr.namelen + msghdr.controllen)})
  BY <1>1, <1>2, <1>6, <1>8, SliceEnds, Zenon
<1>12. CASE field = "name"
  <2>1. PICK n : n = Received!Min({header.namelen, msghdr.namelen})
    OBVIOUS
  <2>2. n = IF m.name <= msghdr.namelen THEN m.name ELSE msghdr.namelen
    BY <1>4, <1>7, <1>10, <2>1, LesserOfTwo
  <2>3. e.from = DataStart /\ e.to = DataStart + n
    BY <1>9, <1>11, <1>12, <2>1
  <2> QED
    BY <1>1, <1>4, <1>5, <1>9, <1>10, <1>12, <2>2, <2>3
<1>13. CASE field = "control"
  <2>1. PICK n : n = Received!Min({header.controllen, msghdr.controllen})
    OBVIOUS
  <2>2. header.controllen
          = IF m.control <= msghdr.controllen THEN m.control ELSE msghdr.controllen
    BY <1>4, <1>7, <1>10, LesserOfTwo
  <2>3. header.controllen \in Nat
    BY <1>6 DEF Header
  <2>4. n = header.controllen
    <3>1. n = IF header.controllen <= msghdr.controllen THEN header.controllen
                                                        ELSE msghdr.controllen
      BY <1>10, <2>1, <2>3, LesserOfTwo
    <3> QED
      BY <1>4, <1>10, <2>2, <3>1
  <2>5. e.from = DataStart + msghdr.namelen /\ e.to = DataStart + msghdr.namelen + n
    BY <1>9, <1>11, <1>13, <2>1
  <2> QED
    BY <1>1, <1>4, <1>5, <1>9, <1>10, <1>13, <2>2, <2>4, <2>5
<1>14. CASE field = "payload"
  <2>1. PICK space : space = Space(b, "payload")
    OBVIOUS
  <2>2. PICK n : n = Received!Min({header.payloadlen, space})
    OBVIOUS
  <2>3. space \in Nat /\ header.payloadlen \in Nat
    BY <1>6, <1>10, <2>1 DEF Header
  <2>4. \/ header.payloadlen = m.payload
        \/ header.payloadlen = IF m.payload <= space THEN m.payload ELSE space
    <3>1. Received!Min({m.payload, space}) = IF m.payload <= space THEN m.payload ELSE space
      BY <1>4, <2>3, LesserOfTwo
    <3> QED
      BY <1>7, <2>1, <3>1
  <2>5. n = IF header.payloadlen <= space THEN header.payloadlen ELSE space
    BY <2>2, <2>3, LesserOfTwo
  <2>6. n = IF m.payload <= space THEN m.payload ELSE space
    BY <1>4, <2>3, <2>4, <2>5
  <2>7. /\ Received!PayloadExtent(BufferLen[b], header, msghdr).from
             = DataStart + msghdr.namelen + msghdr.controllen
        /\ Received!PayloadExtent(BufferLen[b], header, msghdr).to
             = DataStart + msghdr.namelen + msghdr.controllen + n
    <3>1. space = BufferLen[b] - (DataStart + msghdr.namelen + msghdr.controllen)
      BY <1>10, <2>1
    <3> QED
      BY <1>11, <2>2, <3>1, Zenon
  <2> QED
    BY <1>1, <1>4, <1>5, <1>9, <1>10, <1>14, <2>1, <2>3, <2>6, <2>7
<1> QED
  BY <1>12, <1>13, <1>14 DEF Received!Parts

\* In every state, each slice of a parsed buffer lies inside the buffer; if the buffer was
\* delivered to the program, parse took it and each slice shows the first bytes of its own
\* part of the message, none that an earlier message left.
THEOREM SlicesShow == PartsSpec => []SlicesShowTheMessage
<1>1. ReceivedInv => SlicesShowTheMessage
  <2> SUFFICES ASSUME ReceivedInv
               PROVE  SlicesShowTheMessage
    OBVIOUS
  <2>1. out.parsed.ok => Received!SlicesInsideBuffer
    BY DEF ReceivedInv, OutOK
  <2>2. ASSUME out.delivered, NEW field \in Received!Parts, NEW e, e = out.parsed[field]
        PROVE  out.parsed.ok /\ Received!Shown(e) = Received!Arrived(field, e.to - e.from)
    <3>1. PICK b, m, n : b = out.buffer /\ m = sent[out.buffer] /\ n = e.to - e.from
      OBVIOUS
    <3>2. /\ out.parsed.ok /\ b \in Buffers
          /\ m[field] \in Nat /\ Space(b, field) \in Nat
          /\ e.from - DataStart = Received!Before(field)
          /\ n = IF m[field] <= Space(b, field) THEN m[field] ELSE Space(b, field)
      BY <2>2, <3>1, SliceOfField
    <3>3. BytesThere(b)
      BY <2>2, <3>1 DEF ReceivedInv, OutOK, FullOK
    <3>4. ASSUME NEW i \in 1..n
          PROVE  memory[b].bytes[e.from - DataStart + i] = Received!Byte(field, i, m.number)
      <4>1. i \in 1..Space(b, field) /\ i <= m[field]
        BY <3>2
      <4> QED
        BY <3>1, <3>2, <3>3, <4>1 DEF BytesThere
    <3> QED
      BY <3>1, <3>2, <3>4 DEF Received!Shown, Received!Arrived
  <2>3. ASSUME out.delivered PROVE out.parsed.ok
    BY <2>2, <2>3 DEF Received!Parts
  <2> QED
    BY <2>1, <2>2, <2>3 DEF SlicesShowTheMessage, Received!SlicesShowTheMessage
<1> QED
  BY <1>1, ReceivedAlways, PTL

\* In every state, a slice of a delivered message is shorter than what arrived of its part
\* exactly when the method for that part says that it was truncated.
THEOREM TruncationTold == PartsSpec => []TruncationIsReported
<1>1. ReceivedInv => TruncationIsReported
  <2> SUFFICES ASSUME ReceivedInv, out.delivered
               PROVE  LET o == out.parsed
                          m == sent[out.buffer]
                          Cut(field) == o[field].to - o[field].from < m[field]
                      IN  /\ Received!NameTruncated(o) <=> Cut("name")
                          /\ Received!ControlTruncated(o) <=> Cut("control")
                          /\ Received!PayloadTruncated(o) <=> Cut("payload")
    BY DEF TruncationIsReported, Received!TruncationIsReported
  <2>1. PICK b, m, o : b = out.buffer /\ m = sent[out.buffer] /\ o = out.parsed
    OBVIOUS
  <2>2. ASSUME NEW field \in Received!Parts
        PROVE  /\ b \in Buffers
               /\ o.header = memory[b].header /\ o.namelen = msghdr.namelen
               /\ o[field].to - o[field].from < m[field] <=> m[field] > Space(b, field)
    <3>1. PICK e : e = o[field]
      OBVIOUS
    <3>2. /\ b \in Buffers
          /\ o.header = memory[b].header /\ o.namelen = msghdr.namelen
          /\ m[field] \in Nat /\ Space(b, field) \in Nat
          /\ e.to - e.from = IF m[field] <= Space(b, field) THEN m[field] ELSE Space(b, field)
      BY <2>1, <3>1, SliceOfField
    <3> QED
      BY <3>1, <3>2
  <2>3. {"name", "control", "payload"} = Received!Parts
    BY DEF Received!Parts
  <2>4. HeaderTells(b)
    BY <2>1 DEF ReceivedInv, OutOK, FullOK
  <2>5. Received!NameTruncated(o) <=> o["name"].to - o["name"].from < m["name"]
    BY <2>2, <2>3, <2>4, <2>1 DEF HeaderTells, Received!NameTruncated, Space
  <2>6. Received!ControlTruncated(o) <=> o["control"].to - o["control"].from < m["control"]
    BY <2>2, <2>3, <2>4, <2>1 DEF HeaderTells, Received!ControlTruncated
  <2>7. Received!PayloadTruncated(o) <=> o["payload"].to - o["payload"].from < m["payload"]
    BY <2>2, <2>3, <2>4, <2>1 DEF HeaderTells, Received!PayloadTruncated
  <2> QED
    BY <2>1, <2>5, <2>6, <2>7
<1> QED
  BY <1>1, ReceivedAlways, PTL

-----------------------------------------------------------------------------
(* Submission entries: what holds of the table of the builders.             *)

\* The two assignments write different bytes, or no call makes both.
Disjoint(f, g) == f.offset + f.width <= g.offset \/ g.offset + g.width <= f.offset
Apart(v, w) ==
  \/ v.needs \cap w.unless # {} \/ w.needs \cap v.unless # {}
  \/ Disjoint(Fields[v.field], Fields[w.field])

\* No plain assignment of builder B writes where an earlier one did.
Kept(B) == \A i, j \in DOMAIN B : i < j /\ ~B[j].or => Apart(B[i], B[j])

\* Opcode, user data and personality are not the builder's, and the upper half of an
\* entry belongs to UringCmd80.
OwnFields(o, B) ==
  \A i \in DOMAIN B :
    /\ B[i].field \in DOMAIN Fields \ {"opcode", "user_data", "personality"}
    /\ B[i].field = "cmd_upper" => o = "UringCmd80"

\* A source is no wider than its field, or another assignment stores the rest of it.
RestStored(B, i, s) ==
  \E j \in DOMAIN B : \E t \in B[j].from :
    /\ B[j].needs = {} /\ B[j].unless = {} /\ B[j].field # "flags"
    /\ t.arg = s.arg /\ t.width = s.width /\ t.width \in Nat
    /\ t.skip = s.skip + Fields[B[i].field].width
    /\ t.width - t.skip <= Fields[B[j].field].width
HasRoom(o, B) ==
  \A i \in DOMAIN B : \A s \in B[i].from :
    /\ s.skip \in Nat /\ s.width \in Nat
    /\ \/ <<o, s.arg>> \in Narrowed
       \/ B[i].field = "flags"
       \/ s.width - s.skip <= Fields[B[i].field].width
       \/ RestStored(B, i, s)

\* What says that argument a of the builder is an index into the registered files, and
\* that nothing but a fixed a says it.
MarkOf(o, a) ==
  IF o = "AsyncCancel2" THEN [field |-> "op_flags", flag |-> "CANCEL_FD_FIXED"]
  ELSE IF a = "fd_in" THEN [field |-> "op_flags", flag |-> "SPLICE_F_FD_IN_FIXED"]
  ELSE [field |-> "flags", flag |-> "FIXED_FILE"]
Marked(B, a, mark) ==
  /\ \E i \in DOMAIN B :
       /\ B[i].field = mark.field /\ Const(mark.flag) \in B[i].from
       /\ B[i].needs = {a} /\ B[i].unless = {}
  /\ \A i \in DOMAIN B : (\E s \in B[i].from : s.arg = mark.flag) => a \in B[i].needs
TargetsMarked(o, B) ==
  \A i \in DOMAIN B : \A s \in B[i].from :
    s.file => o = "Close" \/ Marked(B, s.arg, MarkOf(o, s.arg))

IsSound(o, B) ==
  OwnFields(o, B) /\ Kept(B) /\ HasRoom(o, B) /\ TargetsMarked(o, B)

\* The fields of an entry.
LEMMA FieldTable ==
    /\ DOMAIN Fields = {"opcode", "flags", "ioprio", "fd", "len", "user_data",
                            "personality", "off", "addr2", "cmd_op", "addr",
                            "splice_off_in", "level", "optname", "op_flags", "buf_index",
                            "buf_group", "splice_fd_in", "file_index", "zcrx_ifq_idx",
                            "optlen", "addr_len", "addr3", "optval", "cmd", "cmd_upper"}
    /\ Fields["opcode"] = At(0, 1) /\ Fields["flags"] = At(1, 1)
    /\ Fields["ioprio"] = At(2, 2) /\ Fields["fd"] = At(4, 4)
    /\ Fields["len"] = At(24, 4) /\ Fields["user_data"] = At(32, 8)
    /\ Fields["personality"] = At(42, 2) /\ Fields["off"] = At(8, 8)
    /\ Fields["addr2"] = At(8, 8) /\ Fields["cmd_op"] = At(8, 4)
    /\ Fields["addr"] = At(16, 8) /\ Fields["splice_off_in"] = At(16, 8)
    /\ Fields["level"] = At(16, 4) /\ Fields["optname"] = At(20, 4)
    /\ Fields["op_flags"] = At(28, 4) /\ Fields["buf_index"] = At(40, 2)
    /\ Fields["buf_group"] = At(40, 2) /\ Fields["splice_fd_in"] = At(44, 4)
    /\ Fields["file_index"] = At(44, 4) /\ Fields["zcrx_ifq_idx"] = At(44, 4)
    /\ Fields["optlen"] = At(44, 4) /\ Fields["addr_len"] = At(44, 2)
    /\ Fields["addr3"] = At(48, 8) /\ Fields["optval"] = At(48, 8)
    /\ Fields["cmd"] = At(48, 16) /\ Fields["cmd_upper"] = At(64, 64)
BY DEF Fields, SqeFields, Anon1, Anon2, Anon3, Anon4, Anon5,
       Anon6, Upper

-----------------------------------------------------------------------------
(* The builders, written out: what each stores, in the order of its          *)
(* assignments.                                                              *)

LEMMA NopRows ==
    /\ DOMAIN Nop = 1..1
    /\ Nop[1] = Put("fd", I32("-1"))
BY DEF Nop, NoFd

LEMMA ReadvRows ==
    /\ DOMAIN Readv = 1..8
    /\ Readv[1] = Put("fd", Target("fd"))
    /\ Readv[2] = If("fd", OrIn("flags", "FIXED_FILE"))
    /\ Readv[3] = Put("ioprio", U16("ioprio"))
    /\ Readv[4] = Put("addr", Ptr("iovec"))
    /\ Readv[5] = Put("len", U32("len"))
    /\ Readv[6] = Put("off", U64("offset"))
    /\ Readv[7] = Put("op_flags", I32("rw_flags"))
    /\ Readv[8] = Put("buf_group", U16("buf_group"))
BY DEF Readv, ReadWrite, AssignFd

LEMMA WritevRows ==
    /\ DOMAIN Writev = 1..7
    /\ Writev[1] = Put("fd", Target("fd"))
    /\ Writev[2] = If("fd", OrIn("flags", "FIXED_FILE"))
    /\ Writev[3] = Put("ioprio", U16("ioprio"))
    /\ Writev[4] = Put("addr", Ptr("iovec"))
    /\ Writev[5] = Put("len", U32("len"))
    /\ Writev[6] = Put("off", U64("offset"))
    /\ Writev[7] = Put("op_flags", I32("rw_flags"))
BY DEF Writev, ReadWrite, AssignFd

LEMMA FsyncRows ==
    /\ DOMAIN Fsync = 1..5
    /\ Fsync[1] = Put("fd", Target("fd"))
    /\ Fsync[2] = If("fd", OrIn("flags", "FIXED_FILE"))
    /\ Fsync[3] = Put("len", U32("len"))
    /\ Fsync[4] = Put("off", U64("offset"))
    /\ Fsync[5] = Put("op_flags", U32("flags"))
BY DEF Fsync, AssignFd

LEMMA ReadFixedRows ==
    /\ DOMAIN ReadFixed = 1..8
    /\ ReadFixed[1] = Put("fd", Target("fd"))
    /\ ReadFixed[2] = If("fd", OrIn("flags", "FIXED_FILE"))
    /\ ReadFixed[3] = Put("ioprio", U16("ioprio"))
    /\ ReadFixed[4] = Put("addr", Ptr("buf"))
    /\ ReadFixed[5] = Put("len", U32("len"))
    /\ ReadFixed[6] = Put("off", U64("offset"))
    /\ ReadFixed[7] = Put("op_flags", I32("rw_flags"))
    /\ ReadFixed[8] = Put("buf_index", U16("buf_index"))
BY DEF ReadFixed, ReadWrite, AssignFd

LEMMA WriteFixedRows ==
    /\ DOMAIN WriteFixed = 1..8
    /\ WriteFixed[1] = Put("fd", Target("fd"))
    /\ WriteFixed[2] = If("fd", OrIn("flags", "FIXED_FILE"))
    /\ WriteFixed[3] = Put("ioprio", U16("ioprio"))
    /\ WriteFixed[4] = Put("addr", Ptr("buf"))
    /\ WriteFixed[5] = Put("len", U32("len"))
    /\ WriteFixed[6] = Put("off", U64("offset"))
    /\ WriteFixed[7] = Put("op_flags", I32("rw_flags"))
    /\ WriteFixed[8] = Put("buf_index", U16("buf_index"))
BY DEF WriteFixed, ReadWrite, AssignFd

LEMMA PollAddRows ==
    /\ DOMAIN PollAdd = 1..4
    /\ PollAdd[1] = Put("fd", Target("fd"))
    /\ PollAdd[2] = If("fd", OrIn("flags", "FIXED_FILE"))
    /\ PollAdd[3] = If("multi", Put("len", Const("POLL_ADD_MULTI")))
    /\ PollAdd[4] = Put("op_flags", U32("flags"))
BY DEF PollAdd, AssignFd

LEMMA PollRemoveRows ==
    /\ DOMAIN PollRemove = 1..2
    /\ PollRemove[1] = Put("fd", I32("-1"))
    /\ PollRemove[2] = Put("addr", U64("user_data"))
BY DEF PollRemove, NoFd

LEMMA SyncFileRangeRows ==
    /\ DOMAIN SyncFileRange = 1..5
    /\ SyncFileRange[1] = Put("fd", Target("fd"))
    /\ SyncFileRange[2] = If("fd", OrIn("flags", "FIXED_FILE"))
    /\ SyncFileRange[3] = Put("len", U32("len"))
    /\ SyncFileRange[4] = Put("off", U64("offset"))
    /\ SyncFileRange[5] = Put("op_flags", U32("flags"))
BY DEF SyncFileRange, AssignFd

LEMMA SendMsgRows ==
    /\ DOMAIN SendMsg = 1..6
    /\ SendMsg[1] = Put("fd", Target("fd"))
    /\ SendMsg[2] = If("fd", OrIn("flags", "FIXED_FILE"))
    /\ SendMsg[3] = Put("addr", Ptr("msg"))
    /\ SendMsg[4] = Put("len", Const("1"))
    /\ SendMsg[5] = Put("op_flags", U32("flags"))
    /\ SendMsg[6] = Put("ioprio", U16("ioprio"))
BY DEF SendMsg, AssignFd, Message

LEMMA RecvMsgRows ==
    /\ DOMAIN RecvMsg = 1..7
    /\ RecvMsg[1] = Put("fd", Target("fd"))
    /\ RecvMsg[2] = If("fd", OrIn("flags", "FIXED_FILE"))
    /\ RecvMsg[3] = Put("addr", Ptr("msg"))
    /\ RecvMsg[4] = Put("len", Const("1"))
    /\ RecvMsg[5] = Put("op_flags", U32("flags"))
    /\ RecvMsg[6] = Put("ioprio", U16("ioprio"))
    /\ RecvMsg[7] = Put("buf_group", U16("buf_group"))
BY DEF RecvMsg, AssignFd, Message

LEMMA RecvMsgMultiRows ==
    /\ DOMAIN RecvMsgMulti = 1..8
    /\ RecvMsgMulti[1] = Put("fd", Target("fd"))
    /\ RecvMsgMulti[2] = If("fd", OrIn("flags", "FIXED_FILE"))
    /\ RecvMsgMulti[3] = Put("addr", Ptr("msg"))
    /\ RecvMsgMulti[4] = Put("len", Const("1"))
    /\ RecvMsgMulti[5] = Put("op_flags", U32("flags"))
    /\ RecvMsgMulti[6] = Put("buf_group", U16("buf_group"))
    /\ RecvMsgMulti[7] = OrIn("flags", "BUFFER_SELECT")
    /\ RecvMsgMulti[8] = PutBoth("ioprio", U16("ioprio"), Const("RECV_MULTISHOT"))
BY DEF RecvMsgMulti, AssignFd, Message, BufferSelect

LEMMA TimeoutRows ==
    /\ DOMAIN Timeout = 1..5
    /\ Timeout[1] = Put("fd", I32("-1"))
    /\ Timeout[2] = Put("addr", Ptr("timespec"))
    /\ Timeout[3] = Put("len", Const("1"))
    /\ Timeout[4] = Put("off", U32("count"))
    /\ Timeout[5] = Put("op_flags", U32("flags"))
BY DEF Timeout, NoFd

LEMMA TimeoutRemoveRows ==
    /\ DOMAIN TimeoutRemove = 1..2
    /\ TimeoutRemove[1] = Put("fd", I32("-1"))
    /\ TimeoutRemove[2] = Put("addr", U64("user_data"))
BY DEF TimeoutRemove, NoFd

LEMMA TimeoutUpdateRows ==
    /\ DOMAIN TimeoutUpdate = 1..4
    /\ TimeoutUpdate[1] = Put("fd", I32("-1"))
    /\ TimeoutUpdate[2] = Put("off", Ptr("timespec"))
    /\ TimeoutUpdate[3] = Put("addr", U64("user_data"))
    /\ TimeoutUpdate[4] = PutBoth("op_flags", U32("flags"), Const("TIMEOUT_UPDATE"))
BY DEF TimeoutUpdate, NoFd

LEMMA AcceptRows ==
    /\ DOMAIN Accept = 1..6
    /\ Accept[1] = Put("fd", Target("fd"))
    /\ Accept[2] = If("fd", OrIn("flags", "FIXED_FILE"))
    /\ Accept[3] = Put("addr", Ptr("addr"))
    /\ Accept[4] = Put("addr2", Ptr("addrlen"))
    /\ Accept[5] = Put("op_flags", I32("flags"))
    /\ Accept[6] = If("file_index", Put("file_index", U32("file_index")))
BY DEF Accept, AssignFd, FileIndex

LEMMA SetSockOptRows ==
    /\ DOMAIN SetSockOpt = 1..8
    /\ SetSockOpt[1] = Put("fd", Target("fd"))
    /\ SetSockOpt[2] = If("fd", OrIn("flags", "FIXED_FILE"))
    /\ SetSockOpt[3] = Put("cmd_op", Const("SETSOCKOPT"))
    /\ SetSockOpt[4] = Put("level", U32("level"))
    /\ SetSockOpt[5] = Put("optname", U32("optname"))
    /\ SetSockOpt[6] = Put("op_flags", U32("flags"))
    /\ SetSockOpt[7] = Put("optlen", U32("optlen"))
    /\ SetSockOpt[8] = Put("optval", Ptr("optval"))
BY DEF SetSockOpt, AssignFd

LEMMA AsyncCancelRows ==
    /\ DOMAIN AsyncCancel = 1..2
    /\ AsyncCancel[1] = Put("fd", I32("-1"))
    /\ AsyncCancel[2] = Put("addr", U64("user_data"))
BY DEF AsyncCancel, NoFd

LEMMA LinkTimeoutRows ==
    /\ DOMAIN LinkTimeout = 1..4
    /\ LinkTimeout[1] = Put("fd", I32("-1"))
    /\ LinkTimeout[2] = Put("addr", Ptr("timespec"))
    /\ LinkTimeout[3] = Put("len", Const("1"))
    /\ LinkTimeout[4] = Put("op_flags", U32("flags"))
BY DEF LinkTimeout, NoFd

LEMMA ConnectRows ==
    /\ DOMAIN Connect = 1..4
    /\ Connect[1] = Put("fd", Target("fd"))
    /\ Connect[2] = If("fd", OrIn("flags", "FIXED_FILE"))
    /\ Connect[3] = Put("addr", Ptr("addr"))
    /\ Connect[4] = Put("off", U32("addrlen"))
BY DEF Connect, AssignFd

LEMMA FallocateRows ==
    /\ DOMAIN Fallocate = 1..5
    /\ Fallocate[1] = Put("fd", Target("fd"))
    /\ Fallocate[2] = If("fd", OrIn("flags", "FIXED_FILE"))
    /\ Fallocate[3] = Put("addr", U64("len"))
    /\ Fallocate[4] = Put("len", I32("mode"))
    /\ Fallocate[5] = Put("off", U64("offset"))
BY DEF Fallocate, AssignFd

LEMMA OpenAtRows ==
    /\ DOMAIN OpenAt = 1..5
    /\ OpenAt[1] = Put("fd", I32("dirfd"))
    /\ OpenAt[2] = Put("addr", Ptr("pathname"))
    /\ OpenAt[3] = Put("len", U32("mode"))
    /\ OpenAt[4] = Put("op_flags", I32("flags"))
    /\ OpenAt[5] = If("file_index", Put("file_index", U32("file_index")))
BY DEF OpenAt, FileIndex

LEMMA CloseRows ==
    /\ DOMAIN Close = 1..3
    /\ Close[1] = Unless("fd", Put("fd", Target("fd")))
    /\ Close[2] = If("fd", Put("fd", Const("0")))
    /\ Close[3] = Unless("last_slot", If("fd", Put("file_index", U32("fd_plus_1"))))
BY DEF Close

LEMMA FilesUpdateRows ==
    /\ DOMAIN FilesUpdate = 1..4
    /\ FilesUpdate[1] = Put("fd", I32("-1"))
    /\ FilesUpdate[2] = Put("addr", Ptr("fds"))
    /\ FilesUpdate[3] = Put("len", U32("len"))
    /\ FilesUpdate[4] = Put("off", I32("offset"))
BY DEF FilesUpdate, NoFd

LEMMA StatxRows ==
    /\ DOMAIN Statx = 1..5
    /\ Statx[1] = Put("fd", I32("dirfd"))
    /\ Statx[2] = Put("addr", Ptr("pathname"))
    /\ Statx[3] = Put("len", U32("mask"))
    /\ Statx[4] = Put("off", Ptr("statxbuf"))
    /\ Statx[5] = Put("op_flags", I32("flags"))
BY DEF Statx

LEMMA ReadRows ==
    /\ DOMAIN Read = 1..8
    /\ Read[1] = Put("fd", Target("fd"))
    /\ Read[2] = If("fd", OrIn("flags", "FIXED_FILE"))
    /\ Read[3] = Put("ioprio", U16("ioprio"))
    /\ Read[4] = Put("addr", Ptr("buf"))
    /\ Read[5] = Put("len", U32("len"))
    /\ Read[6] = Put("off", U64("offset"))
    /\ Read[7] = Put("op_flags", I32("rw_flags"))
    /\ Read[8] = Put("buf_group", U16("buf_group"))
BY DEF Read, ReadWrite, AssignFd

LEMMA WriteRows ==
    /\ DOMAIN Write = 1..7
    /\ Write[1] = Put("fd", Target("fd"))
    /\ Write[2] = If("fd", OrIn("flags", "FIXED_FILE"))
    /\ Write[3] = Put("ioprio", U16("ioprio"))
    /\ Write[4] = Put("addr", Ptr("buf"))
    /\ Write[5] = Put("len", U32("len"))
    /\ Write[6] = Put("off", U64("offset"))
    /\ Write[7] = Put("op_flags", I32("rw_flags"))
BY DEF Write, ReadWrite, AssignFd

LEMMA FadviseRows ==
    /\ DOMAIN Fadvise = 1..5
    /\ Fadvise[1] = Put("fd", Target("fd"))
    /\ Fadvise[2] = If("fd", OrIn("flags", "FIXED_FILE"))
    /\ Fadvise[3] = Put("len", I64("len"))
    /\ Fadvise[4] = Put("off", U64("offset"))
    /\ Fadvise[5] = Put("op_flags", I32("advice"))
BY DEF Fadvise, AssignFd

LEMMA MadviseRows ==
    /\ DOMAIN Madvise = 1..4
    /\ Madvise[1] = Put("fd", I32("-1"))
    /\ Madvise[2] = Put("addr", Ptr("addr"))
    /\ Madvise[3] = Put("len", I64("len"))
    /\ Madvise[4] = Put("op_flags", I32("advice"))
BY DEF Madvise, NoFd

LEMMA SendRows ==
    /\ DOMAIN Send = 1..8
    /\ Send[1] = Put("fd", Target("fd"))
    /\ Send[2] = If("fd", OrIn("flags", "FIXED_FILE"))
    /\ Send[3] = Put("addr", Ptr("buf"))
    /\ Send[4] = Put("addr2", Ptr("dest_addr"))
    /\ Send[5] = Put("addr_len", U32("dest_addr_len"))
    /\ Send[6] = Put("len", U32("len"))
    /\ Send[7] = Put("ioprio", U16("ioprio"))
    /\ Send[8] = Put("op_flags", I32("flags"))
BY DEF Send, AssignFd

LEMMA RecvRows ==
    /\ DOMAIN Recv = 1..7
    /\ Recv[1] = Put("fd", Target("fd"))
    /\ Recv[2] = If("fd", OrIn("flags", "FIXED_FILE"))
    /\ Recv[3] = Put("addr", Ptr("buf"))
    /\ Recv[4] = Put("len", U32("len"))
    /\ Recv[5] = Put("ioprio", U16("ioprio"))
    /\ Recv[6] = Put("op_flags", I32("flags"))
    /\ Recv[7] = Put("buf_group", U16("buf_group"))
BY DEF Recv, AssignFd

LEMMA RecvMultiRows ==
    /\ DOMAIN RecvMulti = 1..7
    /\ RecvMulti[1] = Put("fd", Target("fd"))
    /\ RecvMulti[2] = If("fd", OrIn("flags", "FIXED_FILE"))
    /\ RecvMulti[3] = Put("len", U32("len"))
    /\ RecvMulti[4] = Put("op_flags", I32("flags"))
    /\ RecvMulti[5] = Put("buf_group", U16("buf_group"))
    /\ RecvMulti[6] = OrIn("flags", "BUFFER_SELECT")
    /\ RecvMulti[7] = Put("ioprio", Const("RECV_MULTISHOT"))
BY DEF RecvMulti, AssignFd, BufferSelect

LEMMA OpenAt2Rows ==
    /\ DOMAIN OpenAt2 = 1..5
    /\ OpenAt2[1] = Put("fd", I32("dirfd"))
    /\ OpenAt2[2] = Put("addr", Ptr("pathname"))
    /\ OpenAt2[3] = Put("len", Const("sizeof_open_how"))
    /\ OpenAt2[4] = Put("off", Ptr("how"))
    /\ OpenAt2[5] = If("file_index", Put("file_index", U32("file_index")))
BY DEF OpenAt2, FileIndex

LEMMA EpollCtlRows ==
    /\ DOMAIN EpollCtl = 1..5
    /\ EpollCtl[1] = Put("fd", Target("epfd"))
    /\ EpollCtl[2] = If("epfd", OrIn("flags", "FIXED_FILE"))
    /\ EpollCtl[3] = Put("addr", Ptr("ev"))
    /\ EpollCtl[4] = Put("len", I32("op"))
    /\ EpollCtl[5] = Put("off", I32("fd"))
BY DEF EpollCtl, AssignFd

LEMMA SpliceRows ==
    /\ DOMAIN Splice = 1..8
    /\ Splice[1] = Put("fd", Target("fd_out"))
    /\ Splice[2] = If("fd_out", OrIn("flags", "FIXED_FILE"))
    /\ Splice[3] = Put("splice_fd_in", Target("fd_in"))
    /\ Splice[4] = Put("op_flags", U32("flags"))
    /\ Splice[5] = If("fd_in", OrIn("op_flags", "SPLICE_F_FD_IN_FIXED"))
    /\ Splice[6] = Put("len", U32("len"))
    /\ Splice[7] = Put("off", I64("off_out"))
    /\ Splice[8] = Put("splice_off_in", I64("off_in"))
BY DEF Splice, SpliceFds, AssignFd

LEMMA ProvideBuffersRows ==
    /\ DOMAIN ProvideBuffers = 1..5
    /\ ProvideBuffers[1] = Put("fd", U16("nbufs"))
    /\ ProvideBuffers[2] = Put("addr", Ptr("addr"))
    /\ ProvideBuffers[3] = Put("len", I32("len"))
    /\ ProvideBuffers[4] = Put("off", U16("bid"))
    /\ ProvideBuffers[5] = Put("buf_group", U16("bgid"))
BY DEF ProvideBuffers

LEMMA RemoveBuffersRows ==
    /\ DOMAIN RemoveBuffers = 1..2
    /\ RemoveBuffers[1] = Put("fd", U16("nbufs"))
    /\ RemoveBuffers[2] = Put("buf_group", U16("bgid"))
BY DEF RemoveBuffers

LEMMA TeeRows ==
    /\ DOMAIN Tee = 1..6
    /\ Tee[1] = Put("fd", Target("fd_out"))
    /\ Tee[2] = If("fd_out", OrIn("flags", "FIXED_FILE"))
    /\ Tee[3] = Put("splice_fd_in", Target("fd_in"))
    /\ Tee[4] = Put("op_flags", U32("flags"))
    /\ Tee[5] = If("fd_in", OrIn("op_flags", "SPLICE_F_FD_IN_FIXED"))
    /\ Tee[6] = Put("len", U32("len"))
BY DEF Tee, SpliceFds, AssignFd

LEMMA ShutdownRows ==
    /\ DOMAIN Shutdown = 1..3
    /\ Shutdown[1] = Put("fd", Target("fd"))
    /\ Shutdown[2] = If("fd", OrIn("flags", "FIXED_FILE"))
    /\ Shutdown[3] = Put("len", I32("how"))
BY DEF Shutdown, AssignFd

LEMMA RenameAtRows ==
    /\ DOMAIN RenameAt = 1..5
    /\ RenameAt[1] = Put("fd", I32("olddirfd"))
    /\ RenameAt[2] = Put("addr", Ptr("oldpath"))
    /\ RenameAt[3] = Put("len", I32("newdirfd"))
    /\ RenameAt[4] = Put("off", Ptr("newpath"))
    /\ RenameAt[5] = Put("op_flags", U32("flags"))
BY DEF RenameAt

LEMMA UnlinkAtRows ==
    /\ DOMAIN UnlinkAt = 1..3
    /\ UnlinkAt[1] = Put("fd", I32("dirfd"))
    /\ UnlinkAt[2] = Put("addr", Ptr("pathname"))
    /\ UnlinkAt[3] = Put("op_flags", I32("flags"))
BY DEF UnlinkAt

LEMMA MkDirAtRows ==
    /\ DOMAIN MkDirAt = 1..3
    /\ MkDirAt[1] = Put("fd", I32("dirfd"))
    /\ MkDirAt[2] = Put("addr", Ptr("pathname"))
    /\ MkDirAt[3] = Put("len", U32("mode"))
BY DEF MkDirAt

LEMMA SymlinkAtRows ==
    /\ DOMAIN SymlinkAt = 1..3
    /\ SymlinkAt[1] = Put("fd", I32("newdirfd"))
    /\ SymlinkAt[2] = Put("addr", Ptr("target"))
    /\ SymlinkAt[3] = Put("addr2", Ptr("linkpath"))
BY DEF SymlinkAt

LEMMA LinkAtRows ==
    /\ DOMAIN LinkAt = 1..5
    /\ LinkAt[1] = Put("fd", I32("olddirfd"))
    /\ LinkAt[2] = Put("addr", Ptr("oldpath"))
    /\ LinkAt[3] = Put("len", I32("newdirfd"))
    /\ LinkAt[4] = Put("addr2", Ptr("newpath"))
    /\ LinkAt[5] = Put("op_flags", I32("flags"))
BY DEF LinkAt

LEMMA GetXattrRows ==
    /\ DOMAIN GetXattr = 1..4
    /\ GetXattr[1] = Put("addr", Ptr("name"))
    /\ GetXattr[2] = Put("len", U32("len"))
    /\ GetXattr[3] = Put("off", Ptr("value"))
    /\ GetXattr[4] = Put("addr3", Ptr("path"))
BY DEF GetXattr

LEMMA SetXattrRows ==
    /\ DOMAIN SetXattr = 1..5
    /\ SetXattr[1] = Put("addr", Ptr("name"))
    /\ SetXattr[2] = Put("len", U32("len"))
    /\ SetXattr[3] = Put("off", Ptr("value"))
    /\ SetXattr[4] = Put("addr3", Ptr("path"))
    /\ SetXattr[5] = Put("op_flags", I32("flags"))
BY DEF SetXattr

LEMMA FGetXattrRows ==
    /\ DOMAIN FGetXattr = 1..5
    /\ FGetXattr[1] = Put("fd", Target("fd"))
    /\ FGetXattr[2] = If("fd", OrIn("flags", "FIXED_FILE"))
    /\ FGetXattr[3] = Put("addr", Ptr("name"))
    /\ FGetXattr[4] = Put("len", U32("len"))
    /\ FGetXattr[5] = Put("off", Ptr("value"))
BY DEF FGetXattr, AssignFd

LEMMA FSetXattrRows ==
    /\ DOMAIN FSetXattr = 1..6
    /\ FSetXattr[1] = Put("fd", Target("fd"))
    /\ FSetXattr[2] = If("fd", OrIn("flags", "FIXED_FILE"))
    /\ FSetXattr[3] = Put("addr", Ptr("name"))
    /\ FSetXattr[4] = Put("len", U32("len"))
    /\ FSetXattr[5] = Put("off", Ptr("value"))
    /\ FSetXattr[6] = Put("op_flags", I32("flags"))
BY DEF FSetXattr, AssignFd

LEMMA MsgRingDataRows ==
    /\ DOMAIN MsgRingData = 1..7
    /\ MsgRingData[1] = Put("addr", Const("MSG_DATA"))
    /\ MsgRingData[2] = Put("fd", I32("ring_fd"))
    /\ MsgRingData[3] = Put("len", I32("result"))
    /\ MsgRingData[4] = Put("off", U64("user_data"))
    /\ MsgRingData[5] = Put("op_flags", U32("opcode_flags"))
    /\ MsgRingData[6] = If("user_flags", Put("file_index", U32("user_flags")))
    /\ MsgRingData[7] = If("user_flags", OrIn("op_flags", "MSG_RING_FLAGS_PASS"))
BY DEF MsgRingData

LEMMA AsyncCancel2Rows ==
    /\ DOMAIN AsyncCancel2 = 1..7
    /\ AsyncCancel2[1] = Unless("by_fd", Put("fd", I32("-1")))
    /\ AsyncCancel2[2] = If("by_fd", Put("fd", Target("fd")))
    /\ AsyncCancel2[3] = If("user_data", Put("addr", U64("user_data")))
    /\ AsyncCancel2[4] = If("any", OrIn("op_flags", "CANCEL_ANY"))
    /\ AsyncCancel2[5] = If("by_fd", OrIn("op_flags", "CANCEL_FD"))
    /\ AsyncCancel2[6] = If("fd", OrIn("op_flags", "CANCEL_FD_FIXED"))
    /\ AsyncCancel2[7] = If("all", OrIn("op_flags", "CANCEL_ALL"))
BY DEF AsyncCancel2

LEMMA UringCmd16Rows ==
    /\ DOMAIN UringCmd16 = 1..7
    /\ UringCmd16[1] = Put("fd", Target("fd"))
    /\ UringCmd16[2] = If("fd", OrIn("flags", "FIXED_FILE"))
    /\ UringCmd16[3] = Put("cmd_op", U32("cmd_op"))
    /\ UringCmd16[4] = If("buf_index", Put("buf_index", U16("buf_index")))
    /\ UringCmd16[5] = If("buf_index", OrIn("op_flags", "URING_CMD_FIXED"))
    /\ UringCmd16[6] = If("addr", Put("addr", U64("addr")))
    /\ UringCmd16[7] = Put("cmd", CmdBytes(16, 0))
BY DEF UringCmd16, AssignFd, Command

LEMMA UringCmd80Rows ==
    /\ DOMAIN UringCmd80 = 1..8
    /\ UringCmd80[1] = Put("fd", Target("fd"))
    /\ UringCmd80[2] = If("fd", OrIn("flags", "FIXED_FILE"))
    /\ UringCmd80[3] = Put("cmd_op", U32("cmd_op"))
    /\ UringCmd80[4] = If("buf_index", Put("buf_index", U16("buf_index")))
    /\ UringCmd80[5] = If("buf_index", OrIn("op_flags", "URING_CMD_FIXED"))
    /\ UringCmd80[6] = If("addr", Put("addr", U64("addr")))
    /\ UringCmd80[7] = Put("cmd", CmdBytes(80, 0))
    /\ UringCmd80[8] = Put("cmd_upper", CmdBytes(80, 16))
BY DEF UringCmd80, AssignFd, Command

LEMMA SocketRows ==
    /\ DOMAIN Socket = 1..5
    /\ Socket[1] = Put("fd", I32("domain"))
    /\ Socket[2] = Put("off", I32("socket_type"))
    /\ Socket[3] = Put("len", I32("protocol"))
    /\ Socket[4] = Put("op_flags", I32("flags"))
    /\ Socket[5] = If("file_index", Put("file_index", U32("file_index")))
BY DEF Socket, FileIndex

LEMMA AcceptMultiRows ==
    /\ DOMAIN AcceptMulti = 1..5
    /\ AcceptMulti[1] = Put("fd", Target("fd"))
    /\ AcceptMulti[2] = If("fd", OrIn("flags", "FIXED_FILE"))
    /\ AcceptMulti[3] = Put("ioprio", Const("ACCEPT_MULTISHOT"))
    /\ AcceptMulti[4] = Put("op_flags", I32("flags"))
    /\ AcceptMulti[5] = If("allocate_file_index", Put("file_index", I32("FILE_INDEX_ALLOC")))
BY DEF AcceptMulti, AssignFd

LEMMA MsgRingSendFdRows ==
    /\ DOMAIN MsgRingSendFd = 1..6
    /\ MsgRingSendFd[1] = Put("addr", Const("MSG_SEND_FD"))
    /\ MsgRingSendFd[2] = Put("fd", I32("ring_fd"))
    /\ MsgRingSendFd[3] = Put("off", U64("user_data"))
    /\ MsgRingSendFd[4] = Put("addr3", U32("fixed_slot_src"))
    /\ MsgRingSendFd[5] = Put("file_index", U32("dest_slot_index"))
    /\ MsgRingSendFd[6] = Put("op_flags", U32("opcode_flags"))
BY DEF MsgRingSendFd

LEMMA SendZcRows ==
    /\ DOMAIN SendZc = 1..10
    /\ SendZc[1] = Put("fd", Target("fd"))
    /\ SendZc[2] = If("fd", OrIn("flags", "FIXED_FILE"))
    /\ SendZc[3] = Put("addr", Ptr("buf"))
    /\ SendZc[4] = Put("len", U32("len"))
    /\ SendZc[5] = Put("op_flags", I32("flags"))
    /\ SendZc[6] = Put("ioprio", U16("zc_flags"))
    /\ SendZc[7] = If("buf_index", Put("buf_index", U16("buf_index")))
    /\ SendZc[8] = If("buf_index", OrIn("ioprio", "FIXED_BUF"))
    /\ SendZc[9] = Put("addr2", Ptr("dest_addr"))
    /\ SendZc[10] = Put("addr_len", U32("dest_addr_len"))
BY DEF SendZc, AssignFd

LEMMA SendMsgZcRows ==
    /\ DOMAIN SendMsgZc = 1..6
    /\ SendMsgZc[1] = Put("fd", Target("fd"))
    /\ SendMsgZc[2] = If("fd", OrIn("flags", "FIXED_FILE"))
    /\ SendMsgZc[3] = Put("addr", Ptr("msg"))
    /\ SendMsgZc[4] = Put("len", Const("1"))
    /\ SendMsgZc[5] = Put("op_flags", U32("flags"))
    /\ SendMsgZc[6] = Put("ioprio", U16("ioprio"))
BY DEF SendMsgZc, AssignFd, Message

LEMMA ReadMultiRows ==
    /\ DOMAIN ReadMulti = 1..6
    /\ ReadMulti[1] = Put("fd", Target("fd"))
    /\ ReadMulti[2] = If("fd", OrIn("flags", "FIXED_FILE"))
    /\ ReadMulti[3] = Put("off", U64("offset"))
    /\ ReadMulti[4] = Put("len", U32("len"))
    /\ ReadMulti[5] = Put("buf_group", U16("buf_group"))
    /\ ReadMulti[6] = Put("flags", Const("BUFFER_SELECT"))
BY DEF ReadMulti, AssignFd

LEMMA FutexWaitRows ==
    /\ DOMAIN FutexWait = 1..5
    /\ FutexWait[1] = Put("fd", U32("futex_flags"))
    /\ FutexWait[2] = Put("addr", Ptr("futex"))
    /\ FutexWait[3] = Put("off", U64("val"))
    /\ FutexWait[4] = Put("addr3", U64("mask"))
    /\ FutexWait[5] = Put("op_flags", U32("flags"))
BY DEF FutexWait

LEMMA FutexWakeRows ==
    /\ DOMAIN FutexWake = 1..5
    /\ FutexWake[1] = Put("fd", U32("futex_flags"))
    /\ FutexWake[2] = Put("addr", Ptr("futex"))
    /\ FutexWake[3] = Put("off", U64("val"))
    /\ FutexWake[4] = Put("addr3", U64("mask"))
    /\ FutexWake[5] = Put("op_flags", U32("flags"))
BY DEF FutexWake, FutexWait

LEMMA FutexWaitVRows ==
    /\ DOMAIN FutexWaitV = 1..3
    /\ FutexWaitV[1] = Put("addr", Ptr("futexv"))
    /\ FutexWaitV[2] = Put("len", U32("nr_futex"))
    /\ FutexWaitV[3] = Put("op_flags", U32("flags"))
BY DEF FutexWaitV

LEMMA WaitIdRows ==
    /\ DOMAIN WaitId = 1..5
    /\ WaitId[1] = Put("fd", U32("id"))
    /\ WaitId[2] = Put("len", U32("idtype"))
    /\ WaitId[3] = Put("op_flags", U32("flags"))
    /\ WaitId[4] = Put("file_index", I32("options"))
    /\ WaitId[5] = Put("addr2", Ptr("infop"))
BY DEF WaitId

LEMMA FixedFdInstallRows ==
    /\ DOMAIN FixedFdInstall = 1..3
    /\ FixedFdInstall[1] = Put("fd", U32("fd"))
    /\ FixedFdInstall[2] = Put("flags", Const("FIXED_FILE"))
    /\ FixedFdInstall[3] = Put("op_flags", U32("file_flags"))
BY DEF FixedFdInstall

LEMMA FtruncateRows ==
    /\ DOMAIN Ftruncate = 1..3
    /\ Ftruncate[1] = Put("fd", Target("fd"))
    /\ Ftruncate[2] = If("fd", OrIn("flags", "FIXED_FILE"))
    /\ Ftruncate[3] = Put("off", U64("len"))
BY DEF Ftruncate, AssignFd

LEMMA SendBundleRows ==
    /\ DOMAIN SendBundle = 1..7
    /\ SendBundle[1] = Put("fd", Target("fd"))
    /\ SendBundle[2] = If("fd", OrIn("flags", "FIXED_FILE"))
    /\ SendBundle[3] = Put("len", U32("len"))
    /\ SendBundle[4] = Put("op_flags", I32("flags"))
    /\ SendBundle[5] = OrIn("ioprio", "BUNDLE")
    /\ SendBundle[6] = OrIn("flags", "BUFFER_SELECT")
    /\ SendBundle[7] = Put("buf_group", U16("buf_group"))
BY DEF SendBundle, AssignFd, BufferSelect

LEMMA RecvBundleRows ==
    /\ DOMAIN RecvBundle = 1..6
    /\ RecvBundle[1] = Put("fd", Target("fd"))
    /\ RecvBundle[2] = If("fd", OrIn("flags", "FIXED_FILE"))
    /\ RecvBundle[3] = Put("op_flags", I32("flags"))
    /\ RecvBundle[4] = Put("buf_group", U16("buf_group"))
    /\ RecvBundle[5] = OrIn("flags", "BUFFER_SELECT")
    /\ RecvBundle[6] = OrIn("ioprio", "BUNDLE")
BY DEF RecvBundle, AssignFd, BufferSelect

LEMMA RecvMultiBundleRows ==
    /\ DOMAIN RecvMultiBundle = 1..7
    /\ RecvMultiBundle[1] = Put("fd", Target("fd"))
    /\ RecvMultiBundle[2] = If("fd", OrIn("flags", "FIXED_FILE"))
    /\ RecvMultiBundle[3] = Put("op_flags", I32("flags"))
    /\ RecvMultiBundle[4] = Put("buf_group", U16("buf_group"))
    /\ RecvMultiBundle[5] = OrIn("flags", "BUFFER_SELECT")
    /\ RecvMultiBundle[6] = Put("ioprio", Const("RECV_MULTISHOT"))
    /\ RecvMultiBundle[7] = OrIn("ioprio", "BUNDLE")
BY DEF RecvMultiBundle, AssignFd, BufferSelect

LEMMA BindRows ==
    /\ DOMAIN Bind = 1..4
    /\ Bind[1] = Put("fd", Target("fd"))
    /\ Bind[2] = If("fd", OrIn("flags", "FIXED_FILE"))
    /\ Bind[3] = Put("addr", Ptr("addr"))
    /\ Bind[4] = Put("off", U32("addrlen"))
BY DEF Bind, Connect, AssignFd

LEMMA ListenRows ==
    /\ DOMAIN Listen = 1..3
    /\ Listen[1] = Put("fd", Target("fd"))
    /\ Listen[2] = If("fd", OrIn("flags", "FIXED_FILE"))
    /\ Listen[3] = Put("len", I32("backlog"))
BY DEF Listen, AssignFd

LEMMA RecvZcRows ==
    /\ DOMAIN RecvZc = 1..5
    /\ RecvZc[1] = Put("fd", Target("fd"))
    /\ RecvZc[2] = If("fd", OrIn("flags", "FIXED_FILE"))
    /\ RecvZc[3] = Put("len", U32("len"))
    /\ RecvZc[4] = PutBoth("ioprio", U16("ioprio"), Const("RECV_MULTISHOT"))
    /\ RecvZc[5] = Put("zcrx_ifq_idx", U32("ifq"))
BY DEF RecvZc, AssignFd

LEMMA EpollWaitRows ==
    /\ DOMAIN EpollWait = 1..5
    /\ EpollWait[1] = Put("fd", Target("fd"))
    /\ EpollWait[2] = If("fd", OrIn("flags", "FIXED_FILE"))
    /\ EpollWait[3] = Put("addr", Ptr("events"))
    /\ EpollWait[4] = Put("len", U32("max_events"))
    /\ EpollWait[5] = Put("op_flags", U32("flags"))
BY DEF EpollWait, AssignFd

LEMMA ReadvFixedRows ==
    /\ DOMAIN ReadvFixed = 1..8
    /\ ReadvFixed[1] = Put("fd", Target("fd"))
    /\ ReadvFixed[2] = If("fd", OrIn("flags", "FIXED_FILE"))
    /\ ReadvFixed[3] = Put("ioprio", U16("ioprio"))
    /\ ReadvFixed[4] = Put("addr", Ptr("iovec"))
    /\ ReadvFixed[5] = Put("len", U32("len"))
    /\ ReadvFixed[6] = Put("off", U64("offset"))
    /\ ReadvFixed[7] = Put("op_flags", I32("rw_flags"))
    /\ ReadvFixed[8] = Put("buf_index", U16("buf_index"))
BY DEF ReadvFixed, ReadWrite, AssignFd

LEMMA WritevFixedRows ==
    /\ DOMAIN WritevFixed = 1..8
    /\ WritevFixed[1] = Put("fd", Target("fd"))
    /\ WritevFixed[2] = If("fd", OrIn("flags", "FIXED_FILE"))
    /\ WritevFixed[3] = Put("ioprio", U16("ioprio"))
    /\ WritevFixed[4] = Put("addr", Ptr("iovec"))
    /\ WritevFixed[5] = Put("len", U32("len"))
    /\ WritevFixed[6] = Put("off", U64("offset"))
    /\ WritevFixed[7] = Put("op_flags", I32("rw_flags"))
    /\ WritevFixed[8] = Put("buf_index", U16("buf_index"))
BY DEF WritevFixed, ReadWrite, AssignFd

LEMMA PipeRows ==
    /\ DOMAIN Pipe = 1..4
    /\ Pipe[1] = Put("fd", Const("0"))
    /\ Pipe[2] = Put("addr", Ptr("fds"))
    /\ Pipe[3] = Put("op_flags", U32("flags"))
    /\ Pipe[4] = If("file_index", Put("file_index", U32("file_index")))
BY DEF Pipe, FileIndex

-----------------------------------------------------------------------------
(* Every builder but ReadMulti is sound.                                     *)

USE DEF At, Put, PutBoth, If, Unless, OrIn, Assign, Const, Target, U64, U32, I32, U16, I64,
        Ptr, CmdBytes, Source, Narrowed, OwnFields, Kept, Apart, Disjoint, HasRoom,
        TargetsMarked, Marked, MarkOf

LEMMA NopIsSound == IsSound("Nop", Nop)
<1>1. OwnFields("Nop", Nop)
  BY NopRows, FieldTable
<1>2. Kept(Nop)
  BY NopRows, FieldTable
<1>3. HasRoom("Nop", Nop)
  BY NopRows, FieldTable
<1>4. TargetsMarked("Nop", Nop)
  BY NopRows
<1> QED
  BY <1>1, <1>2, <1>3, <1>4 DEF IsSound

LEMMA ReadvIsSound == IsSound("Readv", Readv)
<1>1. OwnFields("Readv", Readv)
  BY ReadvRows, FieldTable
<1>2. Kept(Readv)
  BY ReadvRows, FieldTable
<1>3. HasRoom("Readv", Readv)
  BY ReadvRows, FieldTable
<1>4. TargetsMarked("Readv", Readv)
  BY ReadvRows
<1> QED
  BY <1>1, <1>2, <1>3, <1>4 DEF IsSound

LEMMA WritevIsSound == IsSound("Writev", Writev)
<1>1. OwnFields("Writev", Writev)
  BY WritevRows, FieldTable
<1>2. Kept(Writev)
  BY WritevRows, FieldTable
<1>3. HasRoom("Writev", Writev)
  BY WritevRows, FieldTable
<1>4. TargetsMarked("Writev", Writev)
  BY WritevRows
<1> QED
  BY <1>1, <1>2, <1>3, <1>4 DEF IsSound

LEMMA FsyncIsSound == IsSound("Fsync", Fsync)
<1>1. OwnFields("Fsync", Fsync)
  BY FsyncRows, FieldTable
<1>2. Kept(Fsync)
  BY FsyncRows, FieldTable
<1>3. HasRoom("Fsync", Fsync)
  BY FsyncRows, FieldTable
<1>4. TargetsMarked("Fsync", Fsync)
  BY FsyncRows
<1> QED
  BY <1>1, <1>2, <1>3, <1>4 DEF IsSound

LEMMA ReadFixedIsSound == IsSound("ReadFixed", ReadFixed)
<1>1. OwnFields("ReadFixed", ReadFixed)
  BY ReadFixedRows, FieldTable
<1>2. Kept(ReadFixed)
  BY ReadFixedRows, FieldTable
<1>3. HasRoom("ReadFixed", ReadFixed)
  BY ReadFixedRows, FieldTable
<1>4. TargetsMarked("ReadFixed", ReadFixed)
  BY ReadFixedRows
<1> QED
  BY <1>1, <1>2, <1>3, <1>4 DEF IsSound

LEMMA WriteFixedIsSound == IsSound("WriteFixed", WriteFixed)
<1>1. OwnFields("WriteFixed", WriteFixed)
  BY WriteFixedRows, FieldTable
<1>2. Kept(WriteFixed)
  BY WriteFixedRows, FieldTable
<1>3. HasRoom("WriteFixed", WriteFixed)
  BY WriteFixedRows, FieldTable
<1>4. TargetsMarked("WriteFixed", WriteFixed)
  BY WriteFixedRows
<1> QED
  BY <1>1, <1>2, <1>3, <1>4 DEF IsSound

LEMMA PollAddIsSound == IsSound("PollAdd", PollAdd)
<1>1. OwnFields("PollAdd", PollAdd)
  BY PollAddRows, FieldTable
<1>2. Kept(PollAdd)
  BY PollAddRows, FieldTable
<1>3. HasRoom("PollAdd", PollAdd)
  BY PollAddRows, FieldTable
<1>4. TargetsMarked("PollAdd", PollAdd)
  BY PollAddRows
<1> QED
  BY <1>1, <1>2, <1>3, <1>4 DEF IsSound

LEMMA PollRemoveIsSound == IsSound("PollRemove", PollRemove)
<1>1. OwnFields("PollRemove", PollRemove)
  BY PollRemoveRows, FieldTable
<1>2. Kept(PollRemove)
  BY PollRemoveRows, FieldTable
<1>3. HasRoom("PollRemove", PollRemove)
  BY PollRemoveRows, FieldTable
<1>4. TargetsMarked("PollRemove", PollRemove)
  BY PollRemoveRows
<1> QED
  BY <1>1, <1>2, <1>3, <1>4 DEF IsSound

LEMMA SyncFileRangeIsSound == IsSound("SyncFileRange", SyncFileRange)
<1>1. OwnFields("SyncFileRange", SyncFileRange)
  BY SyncFileRangeRows, FieldTable
<1>2. Kept(SyncFileRange)
  BY SyncFileRangeRows, FieldTable
<1>3. HasRoom("SyncFileRange", SyncFileRange)
  BY SyncFileRangeRows, FieldTable
<1>4. TargetsMarked("SyncFileRange", SyncFileRange)
  BY SyncFileRangeRows
<1> QED
  BY <1>1, <1>2, <1>3, <1>4 DEF IsSound

LEMMA SendMsgIsSound == IsSound("SendMsg", SendMsg)
<1>1. OwnFields("SendMsg", SendMsg)
  BY SendMsgRows, FieldTable
<1>2. Kept(SendMsg)
  BY SendMsgRows, FieldTable
<1>3. HasRoom("SendMsg", SendMsg)
  BY SendMsgRows, FieldTable
<1>4. TargetsMarked("SendMsg", SendMsg)
  BY SendMsgRows
<1> QED
  BY <1>1, <1>2, <1>3, <1>4 DEF IsSound

LEMMA RecvMsgIsSound == IsSound("RecvMsg", RecvMsg)
<1>1. OwnFields("RecvMsg", RecvMsg)
  BY RecvMsgRows, FieldTable
<1>2. Kept(RecvMsg)
  BY RecvMsgRows, FieldTable
<1>3. HasRoom("RecvMsg", RecvMsg)
  BY RecvMsgRows, FieldTable
<1>4. TargetsMarked("RecvMsg", RecvMsg)
  BY RecvMsgRows
<1> QED
  BY <1>1, <1>2, <1>3, <1>4 DEF IsSound

LEMMA RecvMsgMultiIsSound == IsSound("RecvMsgMulti", RecvMsgMulti)
<1>1. OwnFields("RecvMsgMulti", RecvMsgMulti)
  BY RecvMsgMultiRows, FieldTable
<1>2. Kept(RecvMsgMulti)
  BY RecvMsgMultiRows, FieldTable
<1>3. HasRoom("RecvMsgMulti", RecvMsgMulti)
  BY RecvMsgMultiRows, FieldTable
<1>4. TargetsMarked("RecvMsgMulti", RecvMsgMulti)
  BY RecvMsgMultiRows
<1> QED
  BY <1>1, <1>2, <1>3, <1>4 DEF IsSound

LEMMA TimeoutIsSound == IsSound("Timeout", Timeout)
<1>1. OwnFields("Timeout", Timeout)
  BY TimeoutRows, FieldTable
<1>2. Kept(Timeout)
  BY TimeoutRows, FieldTable
<1>3. HasRoom("Timeout", Timeout)
  BY TimeoutRows, FieldTable
<1>4. TargetsMarked("Timeout", Timeout)
  BY TimeoutRows
<1> QED
  BY <1>1, <1>2, <1>3, <1>4 DEF IsSound

LEMMA TimeoutRemoveIsSound == IsSound("TimeoutRemove", TimeoutRemove)
<1>1. OwnFields("TimeoutRemove", TimeoutRemove)
  BY TimeoutRemoveRows, FieldTable
<1>2. Kept(TimeoutRemove)
  BY TimeoutRemoveRows, FieldTable
<1>3. HasRoom("TimeoutRemove", TimeoutRemove)
  BY TimeoutRemoveRows, FieldTable
<1>4. TargetsMarked("TimeoutRemove", TimeoutRemove)
  BY TimeoutRemoveRows
<1> QED
  BY <1>1, <1>2, <1>3, <1>4 DEF IsSound

LEMMA TimeoutUpdateIsSound == IsSound("TimeoutUpdate", TimeoutUpdate)
<1>1. OwnFields("TimeoutUpdate", TimeoutUpdate)
  BY TimeoutUpdateRows, FieldTable
<1>2. Kept(TimeoutUpdate)
  BY TimeoutUpdateRows, FieldTable
<1>3. HasRoom("TimeoutUpdate", TimeoutUpdate)
  BY TimeoutUpdateRows, FieldTable
<1>4. TargetsMarked("TimeoutUpdate", TimeoutUpdate)
  BY TimeoutUpdateRows
<1> QED
  BY <1>1, <1>2, <1>3, <1>4 DEF IsSound

LEMMA AcceptIsSound == IsSound("Accept", Accept)
<1>1. OwnFields("Accept", Accept)
  BY AcceptRows, FieldTable
<1>2. Kept(Accept)
  BY AcceptRows, FieldTable
<1>3. HasRoom("Accept", Accept)
  BY AcceptRows, FieldTable
<1>4. TargetsMarked("Accept", Accept)
  BY AcceptRows
<1> QED
  BY <1>1, <1>2, <1>3, <1>4 DEF IsSound

LEMMA SetSockOptIsSound == IsSound("SetSockOpt", SetSockOpt)
<1>1. OwnFields("SetSockOpt", SetSockOpt)
  BY SetSockOptRows, FieldTable
<1>2. Kept(SetSockOpt)
  BY SetSockOptRows, FieldTable
<1>3. HasRoom("SetSockOpt", SetSockOpt)
  BY SetSockOptRows, FieldTable
<1>4. TargetsMarked("SetSockOpt", SetSockOpt)
  BY SetSockOptRows
<1> QED
  BY <1>1, <1>2, <1>3, <1>4 DEF IsSound

LEMMA AsyncCancelIsSound == IsSound("AsyncCancel", AsyncCancel)
<1>1. OwnFields("AsyncCancel", AsyncCancel)
  BY AsyncCancelRows, FieldTable
<1>2. Kept(AsyncCancel)
  BY AsyncCancelRows, FieldTable
<1>3. HasRoom("AsyncCancel", AsyncCancel)
  BY AsyncCancelRows, FieldTable
<1>4. TargetsMarked("AsyncCancel", AsyncCancel)
  BY AsyncCancelRows
<1> QED
  BY <1>1, <1>2, <1>3, <1>4 DEF IsSound

LEMMA LinkTimeoutIsSound == IsSound("LinkTimeout", LinkTimeout)
<1>1. OwnFields("LinkTimeout", LinkTimeout)
  BY LinkTimeoutRows, FieldTable
<1>2. Kept(LinkTimeout)
  BY LinkTimeoutRows, FieldTable
<1>3. HasRoom("LinkTimeout", LinkTimeout)
  BY LinkTimeoutRows, FieldTable
<1>4. TargetsMarked("LinkTimeout", LinkTimeout)
  BY LinkTimeoutRows
<1> QED
  BY <1>1, <1>2, <1>3, <1>4 DEF IsSound

LEMMA ConnectIsSound == IsSound("Connect", Connect)
<1>1. OwnFields("Connect", Connect)
  BY ConnectRows, FieldTable
<1>2. Kept(Connect)
  BY ConnectRows, FieldTable
<1>3. HasRoom("Connect", Connect)
  BY ConnectRows, FieldTable
<1>4. TargetsMarked("Connect", Connect)
  BY ConnectRows
<1> QED
  BY <1>1, <1>2, <1>3, <1>4 DEF IsSound

LEMMA FallocateIsSound == IsSound("Fallocate", Fallocate)
<1>1. OwnFields("Fallocate", Fallocate)
  BY FallocateRows, FieldTable
<1>2. Kept(Fallocate)
  BY FallocateRows, FieldTable
<1>3. HasRoom("Fallocate", Fallocate)
  BY FallocateRows, FieldTable
<1>4. TargetsMarked("Fallocate", Fallocate)
  BY FallocateRows
<1> QED
  BY <1>1, <1>2, <1>3, <1>4 DEF IsSound

LEMMA OpenAtIsSound == IsSound("OpenAt", OpenAt)
<1>1. OwnFields("OpenAt", OpenAt)
  BY OpenAtRows, FieldTable
<1>2. Kept(OpenAt)
  BY OpenAtRows, FieldTable
<1>3. HasRoom("OpenAt", OpenAt)
  BY OpenAtRows, FieldTable
<1>4. TargetsMarked("OpenAt", OpenAt)
  BY OpenAtRows
<1> QED
  BY <1>1, <1>2, <1>3, <1>4 DEF IsSound

LEMMA CloseIsSound == IsSound("Close", Close)
<1>1. OwnFields("Close", Close)
  BY CloseRows, FieldTable
<1>2. Kept(Close)
  BY CloseRows, FieldTable
<1>3. HasRoom("Close", Close)
  BY CloseRows, FieldTable, SMTT(20)
<1>4. TargetsMarked("Close", Close)
  BY CloseRows
<1> QED
  BY <1>1, <1>2, <1>3, <1>4 DEF IsSound

LEMMA FilesUpdateIsSound == IsSound("FilesUpdate", FilesUpdate)
<1>1. OwnFields("FilesUpdate", FilesUpdate)
  BY FilesUpdateRows, FieldTable
<1>2. Kept(FilesUpdate)
  BY FilesUpdateRows, FieldTable
<1>3. HasRoom("FilesUpdate", FilesUpdate)
  BY FilesUpdateRows, FieldTable
<1>4. TargetsMarked("FilesUpdate", FilesUpdate)
  BY FilesUpdateRows
<1> QED
  BY <1>1, <1>2, <1>3, <1>4 DEF IsSound

LEMMA StatxIsSound == IsSound("Statx", Statx)
<1>1. OwnFields("Statx", Statx)
  BY StatxRows, FieldTable
<1>2. Kept(Statx)
  BY StatxRows, FieldTable
<1>3. HasRoom("Statx", Statx)
  BY StatxRows, FieldTable
<1>4. TargetsMarked("Statx", Statx)
  BY StatxRows
<1> QED
  BY <1>1, <1>2, <1>3, <1>4 DEF IsSound

LEMMA ReadIsSound == IsSound("Read", Read)
<1>1. OwnFields("Read", Read)
  BY ReadRows, FieldTable
<1>2. Kept(Read)
  BY ReadRows, FieldTable
<1>3. HasRoom("Read", Read)
  BY ReadRows, FieldTable
<1>4. TargetsMarked("Read", Read)
  BY ReadRows
<1> QED
  BY <1>1, <1>2, <1>3, <1>4 DEF IsSound

LEMMA WriteIsSound == IsSound("Write", Write)
<1>1. OwnFields("Write", Write)
  BY WriteRows, FieldTable
<1>2. Kept(Write)
  BY WriteRows, FieldTable
<1>3. HasRoom("Write", Write)
  BY WriteRows, FieldTable
<1>4. TargetsMarked("Write", Write)
  BY WriteRows
<1> QED
  BY <1>1, <1>2, <1>3, <1>4 DEF IsSound

LEMMA FadviseIsSound == IsSound("Fadvise", Fadvise)
<1>1. OwnFields("Fadvise", Fadvise)
  BY FadviseRows, FieldTable
<1>2. Kept(Fadvise)
  BY FadviseRows, FieldTable
<1>3. HasRoom("Fadvise", Fadvise)
  BY FadviseRows, FieldTable
<1>4. TargetsMarked("Fadvise", Fadvise)
  BY FadviseRows
<1> QED
  BY <1>1, <1>2, <1>3, <1>4 DEF IsSound

LEMMA MadviseIsSound == IsSound("Madvise", Madvise)
<1>1. OwnFields("Madvise", Madvise)
  BY MadviseRows, FieldTable
<1>2. Kept(Madvise)
  BY MadviseRows, FieldTable
<1>3. HasRoom("Madvise", Madvise)
  BY MadviseRows, FieldTable
<1>4. TargetsMarked("Madvise", Madvise)
  BY MadviseRows
<1> QED
  BY <1>1, <1>2, <1>3, <1>4 DEF IsSound

LEMMA SendIsSound == IsSound("Send", Send)
<1>1. OwnFields("Send", Send)
  BY SendRows, FieldTable
<1>2. Kept(Send)
  BY SendRows, FieldTable
<1>3. HasRoom("Send", Send)
  BY SendRows, FieldTable, SMTT(20)
<1>4. TargetsMarked("Send", Send)
  BY SendRows
<1> QED
  BY <1>1, <1>2, <1>3, <1>4 DEF IsSound

LEMMA RecvIsSound == IsSound("Recv", Recv)
<1>1. OwnFields("Recv", Recv)
  BY RecvRows, FieldTable
<1>2. Kept(Recv)
  BY RecvRows, FieldTable
<1>3. HasRoom("Recv", Recv)
  BY RecvRows, FieldTable
<1>4. TargetsMarked("Recv", Recv)
  BY RecvRows
<1> QED
  BY <1>1, <1>2, <1>3, <1>4 DEF IsSound

LEMMA RecvMultiIsSound == IsSound("RecvMulti", RecvMulti)
<1>1. OwnFields("RecvMulti", RecvMulti)
  BY RecvMultiRows, FieldTable
<1>2. Kept(RecvMulti)
  BY RecvMultiRows, FieldTable
<1>3. HasRoom("RecvMulti", RecvMulti)
  BY RecvMultiRows, FieldTable
<1>4. TargetsMarked("RecvMulti", RecvMulti)
  BY RecvMultiRows
<1> QED
  BY <1>1, <1>2, <1>3, <1>4 DEF IsSound

LEMMA OpenAt2IsSound == IsSound("OpenAt2", OpenAt2)
<1>1. OwnFields("OpenAt2", OpenAt2)
  BY OpenAt2Rows, FieldTable
<1>2. Kept(OpenAt2)
  BY OpenAt2Rows, FieldTable
<1>3. HasRoom("OpenAt2", OpenAt2)
  BY OpenAt2Rows, FieldTable
<1>4. TargetsMarked("OpenAt2", OpenAt2)
  BY OpenAt2Rows
<1> QED
  BY <1>1, <1>2, <1>3, <1>4 DEF IsSound

LEMMA EpollCtlIsSound == IsSound("EpollCtl", EpollCtl)
<1>1. OwnFields("EpollCtl", EpollCtl)
  BY EpollCtlRows, FieldTable
<1>2. Kept(EpollCtl)
  BY EpollCtlRows, FieldTable
<1>3. HasRoom("EpollCtl", EpollCtl)
  BY EpollCtlRows, FieldTable
<1>4. TargetsMarked("EpollCtl", EpollCtl)
  BY EpollCtlRows
<1> QED
  BY <1>1, <1>2, <1>3, <1>4 DEF IsSound

LEMMA SpliceIsSound == IsSound("Splice", Splice)
<1>1. OwnFields("Splice", Splice)
  BY SpliceRows, FieldTable
<1>2. Kept(Splice)
  BY SpliceRows, FieldTable
<1>3. HasRoom("Splice", Splice)
  BY SpliceRows, FieldTable
<1>4. TargetsMarked("Splice", Splice)
  BY SpliceRows
<1> QED
  BY <1>1, <1>2, <1>3, <1>4 DEF IsSound

LEMMA ProvideBuffersIsSound == IsSound("ProvideBuffers", ProvideBuffers)
<1>1. OwnFields("ProvideBuffers", ProvideBuffers)
  BY ProvideBuffersRows, FieldTable
<1>2. Kept(ProvideBuffers)
  BY ProvideBuffersRows, FieldTable
<1>3. HasRoom("ProvideBuffers", ProvideBuffers)
  BY ProvideBuffersRows, FieldTable
<1>4. TargetsMarked("ProvideBuffers", ProvideBuffers)
  BY ProvideBuffersRows
<1> QED
  BY <1>1, <1>2, <1>3, <1>4 DEF IsSound

LEMMA RemoveBuffersIsSound == IsSound("RemoveBuffers", RemoveBuffers)
<1>1. OwnFields("RemoveBuffers", RemoveBuffers)
  BY RemoveBuffersRows, FieldTable
<1>2. Kept(RemoveBuffers)
  BY RemoveBuffersRows, FieldTable
<1>3. HasRoom("RemoveBuffers", RemoveBuffers)
  BY RemoveBuffersRows, FieldTable
<1>4. TargetsMarked("RemoveBuffers", RemoveBuffers)
  BY RemoveBuffersRows
<1> QED
  BY <1>1, <1>2, <1>3, <1>4 DEF IsSound

LEMMA TeeIsSound == IsSound("Tee", Tee)
<1>1. OwnFields("Tee", Tee)
  BY TeeRows, FieldTable
<1>2. Kept(Tee)
  BY TeeRows, FieldTable
<1>3. HasRoom("Tee", Tee)
  BY TeeRows, FieldTable
<1>4. TargetsMarked("Tee", Tee)
  BY TeeRows
<1> QED
  BY <1>1, <1>2, <1>3, <1>4 DEF IsSound

LEMMA ShutdownIsSound == IsSound("Shutdown", Shutdown)
<1>1. OwnFields("Shutdown", Shutdown)
  BY ShutdownRows, FieldTable
<1>2. Kept(Shutdown)
  BY ShutdownRows, FieldTable
<1>3. HasRoom("Shutdown", Shutdown)
  BY ShutdownRows, FieldTable
<1>4. TargetsMarked("Shutdown", Shutdown)
  BY ShutdownRows
<1> QED
  BY <1>1, <1>2, <1>3, <1>4 DEF IsSound

LEMMA RenameAtIsSound == IsSound("RenameAt", RenameAt)
<1>1. OwnFields("RenameAt", RenameAt)
  BY RenameAtRows, FieldTable
<1>2. Kept(RenameAt)
  BY RenameAtRows, FieldTable
<1>3. HasRoom("RenameAt", RenameAt)
  BY RenameAtRows, FieldTable
<1>4. TargetsMarked("RenameAt", RenameAt)
  BY RenameAtRows
<1> QED
  BY <1>1, <1>2, <1>3, <1>4 DEF IsSound

LEMMA UnlinkAtIsSound == IsSound("UnlinkAt", UnlinkAt)
<1>1. OwnFields("UnlinkAt", UnlinkAt)
  BY UnlinkAtRows, FieldTable
<1>2. Kept(UnlinkAt)
  BY UnlinkAtRows, FieldTable
<1>3. HasRoom("UnlinkAt", UnlinkAt)
  BY UnlinkAtRows, FieldTable
<1>4. TargetsMarked("UnlinkAt", UnlinkAt)
  BY UnlinkAtRows
<1> QED
  BY <1>1, <1>2, <1>3, <1>4 DEF IsSound

LEMMA MkDirAtIsSound == IsSound("MkDirAt", MkDirAt)
<1>1. OwnFields("MkDirAt", MkDirAt)
  BY MkDirAtRows, FieldTable
<1>2. Kept(MkDirAt)
  BY MkDirAtRows, FieldTable
<1>3. HasRoom("MkDirAt", MkDirAt)
  BY MkDirAtRows, FieldTable
<1>4. TargetsMarked("MkDirAt", MkDirAt)
  BY MkDirAtRows
<1> QED
  BY <1>1, <1>2, <1>3, <1>4 DEF IsSound

LEMMA SymlinkAtIsSound == IsSound("SymlinkAt", SymlinkAt)
<1>1. OwnFields("SymlinkAt", SymlinkAt)
  BY SymlinkAtRows, FieldTable
<1>2. Kept(SymlinkAt)
  BY SymlinkAtRows, FieldTable
<1>3. HasRoom("SymlinkAt", SymlinkAt)
  BY SymlinkAtRows, FieldTable
<1>4. TargetsMarked("SymlinkAt", SymlinkAt)
  BY SymlinkAtRows
<1> QED
  BY <1>1, <1>2, <1>3, <1>4 DEF IsSound

LEMMA LinkAtIsSound == IsSound("LinkAt", LinkAt)
<1>1. OwnFields("LinkAt", LinkAt)
  BY LinkAtRows, FieldTable
<1>2. Kept(LinkAt)
  BY LinkAtRows, FieldTable
<1>3. HasRoom("LinkAt", LinkAt)
  BY LinkAtRows, FieldTable
<1>4. TargetsMarked("LinkAt", LinkAt)
  BY LinkAtRows
<1> QED
  BY <1>1, <1>2, <1>3, <1>4 DEF IsSound

LEMMA GetXattrIsSound == IsSound("GetXattr", GetXattr)
<1>1. OwnFields("GetXattr", GetXattr)
  BY GetXattrRows, FieldTable
<1>2. Kept(GetXattr)
  BY GetXattrRows, FieldTable
<1>3. HasRoom("GetXattr", GetXattr)
  BY GetXattrRows, FieldTable
<1>4. TargetsMarked("GetXattr", GetXattr)
  BY GetXattrRows
<1> QED
  BY <1>1, <1>2, <1>3, <1>4 DEF IsSound

LEMMA SetXattrIsSound == IsSound("SetXattr", SetXattr)
<1>1. OwnFields("SetXattr", SetXattr)
  BY SetXattrRows, FieldTable
<1>2. Kept(SetXattr)
  BY SetXattrRows, FieldTable
<1>3. HasRoom("SetXattr", SetXattr)
  BY SetXattrRows, FieldTable
<1>4. TargetsMarked("SetXattr", SetXattr)
  BY SetXattrRows
<1> QED
  BY <1>1, <1>2, <1>3, <1>4 DEF IsSound

LEMMA FGetXattrIsSound == IsSound("FGetXattr", FGetXattr)
<1>1. OwnFields("FGetXattr", FGetXattr)
  BY FGetXattrRows, FieldTable
<1>2. Kept(FGetXattr)
  BY FGetXattrRows, FieldTable
<1>3. HasRoom("FGetXattr", FGetXattr)
  BY FGetXattrRows, FieldTable
<1>4. TargetsMarked("FGetXattr", FGetXattr)
  BY FGetXattrRows
<1> QED
  BY <1>1, <1>2, <1>3, <1>4 DEF IsSound

LEMMA FSetXattrIsSound == IsSound("FSetXattr", FSetXattr)
<1>1. OwnFields("FSetXattr", FSetXattr)
  BY FSetXattrRows, FieldTable
<1>2. Kept(FSetXattr)
  BY FSetXattrRows, FieldTable
<1>3. HasRoom("FSetXattr", FSetXattr)
  BY FSetXattrRows, FieldTable
<1>4. TargetsMarked("FSetXattr", FSetXattr)
  BY FSetXattrRows
<1> QED
  BY <1>1, <1>2, <1>3, <1>4 DEF IsSound

LEMMA MsgRingDataIsSound == IsSound("MsgRingData", MsgRingData)
<1>1. OwnFields("MsgRingData", MsgRingData)
  BY MsgRingDataRows, FieldTable
<1>2. Kept(MsgRingData)
  BY MsgRingDataRows, FieldTable
<1>3. HasRoom("MsgRingData", MsgRingData)
  BY MsgRingDataRows, FieldTable
<1>4. TargetsMarked("MsgRingData", MsgRingData)
  BY MsgRingDataRows
<1> QED
  BY <1>1, <1>2, <1>3, <1>4 DEF IsSound

LEMMA AsyncCancel2IsSound == IsSound("AsyncCancel2", AsyncCancel2)
<1>1. OwnFields("AsyncCancel2", AsyncCancel2)
  BY AsyncCancel2Rows, FieldTable
<1>2. Kept(AsyncCancel2)
  <2>1. \A j \in 4..7 : AsyncCancel2[j].or
    BY AsyncCancel2Rows
  <2>2. Apart(AsyncCancel2[1], AsyncCancel2[2])
    BY AsyncCancel2Rows
  <2>3. Apart(AsyncCancel2[1], AsyncCancel2[3])
    BY AsyncCancel2Rows, FieldTable
  <2>4. Apart(AsyncCancel2[2], AsyncCancel2[3])
    BY AsyncCancel2Rows, FieldTable
  <2>6. DOMAIN AsyncCancel2 = 1..7
    BY AsyncCancel2Rows
  <2> HIDE DEF Apart
  <2> QED
    BY <2>1, <2>2, <2>3, <2>4, <2>6
<1>3. HasRoom("AsyncCancel2", AsyncCancel2)
  BY AsyncCancel2Rows, FieldTable
<1>4. TargetsMarked("AsyncCancel2", AsyncCancel2)
  BY AsyncCancel2Rows
<1> QED
  BY <1>1, <1>2, <1>3, <1>4 DEF IsSound

LEMMA UringCmd16IsSound == IsSound("UringCmd16", UringCmd16)
<1>1. OwnFields("UringCmd16", UringCmd16)
  BY UringCmd16Rows, FieldTable
<1>2. Kept(UringCmd16)
  BY UringCmd16Rows, FieldTable
<1>3. HasRoom("UringCmd16", UringCmd16)
  BY UringCmd16Rows, FieldTable
<1>4. TargetsMarked("UringCmd16", UringCmd16)
  BY UringCmd16Rows
<1> QED
  BY <1>1, <1>2, <1>3, <1>4 DEF IsSound

LEMMA UringCmd80IsSound == IsSound("UringCmd80", UringCmd80)
<1>1. OwnFields("UringCmd80", UringCmd80)
  BY UringCmd80Rows, FieldTable
<1>2. Kept(UringCmd80)
  BY UringCmd80Rows, FieldTable
<1>3. HasRoom("UringCmd80", UringCmd80)
  <2> DEFINE B == UringCmd80
  <2>1. DOMAIN B = 1..8
    BY UringCmd80Rows
  <2>2. ASSUME NEW i \in 1..6, NEW s \in B[i].from
        PROVE  /\ s.skip \in Nat /\ s.width \in Nat
               /\ s.width - s.skip <= Fields[B[i].field].width \/ B[i].field = "flags"
    BY UringCmd80Rows, FieldTable
  <2>3. B[7].from = {CmdBytes(80, 0)} /\ Fields[B[7].field].width = 16
    BY UringCmd80Rows, FieldTable
  <2>4. /\ B[8].from = {CmdBytes(80, 16)} /\ Fields[B[8].field].width = 64
        /\ B[8].needs = {} /\ B[8].unless = {} /\ B[8].field # "flags"
    BY UringCmd80Rows, FieldTable
  <2>5. /\ CmdBytes(80, 0).arg = "cmd" /\ CmdBytes(80, 16).arg = "cmd"
        /\ CmdBytes(80, 0).width = 80 /\ CmdBytes(80, 16).width = 80
        /\ CmdBytes(80, 0).skip = 0 /\ CmdBytes(80, 16).skip = 16
    OBVIOUS
  <2> HIDE DEF B, CmdBytes
  <2>6. RestStored(B, 7, CmdBytes(80, 0))
    BY <2>1, <2>3, <2>4, <2>5 DEF RestStored
  <2>7. ASSUME NEW i \in DOMAIN B, NEW s \in B[i].from
        PROVE  /\ s.skip \in Nat /\ s.width \in Nat
               /\ \/ B[i].field = "flags" \/ s.width - s.skip <= Fields[B[i].field].width
                  \/ RestStored(B, i, s)
    <3>1. CASE i \in 1..6
      BY <2>2, <3>1
    <3>2. CASE i = 7
      BY <2>3, <2>5, <2>6, <3>2
    <3>3. CASE i = 8
      BY <2>4, <2>5, <3>3
    <3> QED
      BY <2>1, <3>1, <3>2, <3>3
  <2> QED
    BY <2>7 DEF HasRoom, B
<1>4. TargetsMarked("UringCmd80", UringCmd80)
  BY UringCmd80Rows
<1> QED
  BY <1>1, <1>2, <1>3, <1>4 DEF IsSound

LEMMA SocketIsSound == IsSound("Socket", Socket)
<1>1. OwnFields("Socket", Socket)
  BY SocketRows, FieldTable
<1>2. Kept(Socket)
  BY SocketRows, FieldTable
<1>3. HasRoom("Socket", Socket)
  BY SocketRows, FieldTable
<1>4. TargetsMarked("Socket", Socket)
  BY SocketRows
<1> QED
  BY <1>1, <1>2, <1>3, <1>4 DEF IsSound

LEMMA AcceptMultiIsSound == IsSound("AcceptMulti", AcceptMulti)
<1>1. OwnFields("AcceptMulti", AcceptMulti)
  BY AcceptMultiRows, FieldTable
<1>2. Kept(AcceptMulti)
  BY AcceptMultiRows, FieldTable
<1>3. HasRoom("AcceptMulti", AcceptMulti)
  BY AcceptMultiRows, FieldTable
<1>4. TargetsMarked("AcceptMulti", AcceptMulti)
  BY AcceptMultiRows
<1> QED
  BY <1>1, <1>2, <1>3, <1>4 DEF IsSound

LEMMA MsgRingSendFdIsSound == IsSound("MsgRingSendFd", MsgRingSendFd)
<1>1. OwnFields("MsgRingSendFd", MsgRingSendFd)
  BY MsgRingSendFdRows, FieldTable
<1>2. Kept(MsgRingSendFd)
  BY MsgRingSendFdRows, FieldTable
<1>3. HasRoom("MsgRingSendFd", MsgRingSendFd)
  BY MsgRingSendFdRows, FieldTable
<1>4. TargetsMarked("MsgRingSendFd", MsgRingSendFd)
  BY MsgRingSendFdRows
<1> QED
  BY <1>1, <1>2, <1>3, <1>4 DEF IsSound

LEMMA SendZcIsSound == IsSound("SendZc", SendZc)
<1>1. OwnFields("SendZc", SendZc)
  BY SendZcRows, FieldTable
<1>2. Kept(SendZc)
  BY SendZcRows, FieldTable
<1>3. HasRoom("SendZc", SendZc)
  BY SendZcRows, FieldTable
<1>4. TargetsMarked("SendZc", SendZc)
  BY SendZcRows
<1> QED
  BY <1>1, <1>2, <1>3, <1>4 DEF IsSound

LEMMA SendMsgZcIsSound == IsSound("SendMsgZc", SendMsgZc)
<1>1. OwnFields("SendMsgZc", SendMsgZc)
  BY SendMsgZcRows, FieldTable
<1>2. Kept(SendMsgZc)
  BY SendMsgZcRows, FieldTable
<1>3. HasRoom("SendMsgZc", SendMsgZc)
  BY SendMsgZcRows, FieldTable
<1>4. TargetsMarked("SendMsgZc", SendMsgZc)
  BY SendMsgZcRows
<1> QED
  BY <1>1, <1>2, <1>3, <1>4 DEF IsSound

LEMMA FutexWaitIsSound == IsSound("FutexWait", FutexWait)
<1>1. OwnFields("FutexWait", FutexWait)
  BY FutexWaitRows, FieldTable
<1>2. Kept(FutexWait)
  BY FutexWaitRows, FieldTable
<1>3. HasRoom("FutexWait", FutexWait)
  BY FutexWaitRows, FieldTable
<1>4. TargetsMarked("FutexWait", FutexWait)
  BY FutexWaitRows
<1> QED
  BY <1>1, <1>2, <1>3, <1>4 DEF IsSound

LEMMA FutexWakeIsSound == IsSound("FutexWake", FutexWake)
<1>1. OwnFields("FutexWake", FutexWake)
  BY FutexWakeRows, FieldTable
<1>2. Kept(FutexWake)
  BY FutexWakeRows, FieldTable
<1>3. HasRoom("FutexWake", FutexWake)
  BY FutexWakeRows, FieldTable
<1>4. TargetsMarked("FutexWake", FutexWake)
  BY FutexWakeRows
<1> QED
  BY <1>1, <1>2, <1>3, <1>4 DEF IsSound

LEMMA FutexWaitVIsSound == IsSound("FutexWaitV", FutexWaitV)
<1>1. OwnFields("FutexWaitV", FutexWaitV)
  BY FutexWaitVRows, FieldTable
<1>2. Kept(FutexWaitV)
  BY FutexWaitVRows, FieldTable
<1>3. HasRoom("FutexWaitV", FutexWaitV)
  BY FutexWaitVRows, FieldTable
<1>4. TargetsMarked("FutexWaitV", FutexWaitV)
  BY FutexWaitVRows
<1> QED
  BY <1>1, <1>2, <1>3, <1>4 DEF IsSound

LEMMA WaitIdIsSound == IsSound("WaitId", WaitId)
<1>1. OwnFields("WaitId", WaitId)
  BY WaitIdRows, FieldTable
<1>2. Kept(WaitId)
  BY WaitIdRows, FieldTable
<1>3. HasRoom("WaitId", WaitId)
  BY WaitIdRows, FieldTable
<1>4. TargetsMarked("WaitId", WaitId)
  BY WaitIdRows
<1> QED
  BY <1>1, <1>2, <1>3, <1>4 DEF IsSound

LEMMA FixedFdInstallIsSound == IsSound("FixedFdInstall", FixedFdInstall)
<1>1. OwnFields("FixedFdInstall", FixedFdInstall)
  BY FixedFdInstallRows, FieldTable
<1>2. Kept(FixedFdInstall)
  BY FixedFdInstallRows, FieldTable
<1>3. HasRoom("FixedFdInstall", FixedFdInstall)
  BY FixedFdInstallRows, FieldTable
<1>4. TargetsMarked("FixedFdInstall", FixedFdInstall)
  BY FixedFdInstallRows
<1> QED
  BY <1>1, <1>2, <1>3, <1>4 DEF IsSound

LEMMA FtruncateIsSound == IsSound("Ftruncate", Ftruncate)
<1>1. OwnFields("Ftruncate", Ftruncate)
  BY FtruncateRows, FieldTable
<1>2. Kept(Ftruncate)
  BY FtruncateRows, FieldTable
<1>3. HasRoom("Ftruncate", Ftruncate)
  BY FtruncateRows, FieldTable
<1>4. TargetsMarked("Ftruncate", Ftruncate)
  BY FtruncateRows
<1> QED
  BY <1>1, <1>2, <1>3, <1>4 DEF IsSound

LEMMA SendBundleIsSound == IsSound("SendBundle", SendBundle)
<1>1. OwnFields("SendBundle", SendBundle)
  BY SendBundleRows, FieldTable
<1>2. Kept(SendBundle)
  BY SendBundleRows, FieldTable
<1>3. HasRoom("SendBundle", SendBundle)
  BY SendBundleRows, FieldTable
<1>4. TargetsMarked("SendBundle", SendBundle)
  BY SendBundleRows
<1> QED
  BY <1>1, <1>2, <1>3, <1>4 DEF IsSound

LEMMA RecvBundleIsSound == IsSound("RecvBundle", RecvBundle)
<1>1. OwnFields("RecvBundle", RecvBundle)
  BY RecvBundleRows, FieldTable
<1>2. Kept(RecvBundle)
  BY RecvBundleRows, FieldTable
<1>3. HasRoom("RecvBundle", RecvBundle)
  BY RecvBundleRows, FieldTable
<1>4. TargetsMarked("RecvBundle", RecvBundle)
  BY RecvBundleRows
<1> QED
  BY <1>1, <1>2, <1>3, <1>4 DEF IsSound

LEMMA RecvMultiBundleIsSound == IsSound("RecvMultiBundle", RecvMultiBundle)
<1>1. OwnFields("RecvMultiBundle", RecvMultiBundle)
  BY RecvMultiBundleRows, FieldTable
<1>2. Kept(RecvMultiBundle)
  BY RecvMultiBundleRows, FieldTable
<1>3. HasRoom("RecvMultiBundle", RecvMultiBundle)
  BY RecvMultiBundleRows, FieldTable
<1>4. TargetsMarked("RecvMultiBundle", RecvMultiBundle)
  BY RecvMultiBundleRows
<1> QED
  BY <1>1, <1>2, <1>3, <1>4 DEF IsSound

LEMMA BindIsSound == IsSound("Bind", Bind)
<1>1. OwnFields("Bind", Bind)
  BY BindRows, FieldTable
<1>2. Kept(Bind)
  BY BindRows, FieldTable
<1>3. HasRoom("Bind", Bind)
  BY BindRows, FieldTable
<1>4. TargetsMarked("Bind", Bind)
  BY BindRows
<1> QED
  BY <1>1, <1>2, <1>3, <1>4 DEF IsSound

LEMMA ListenIsSound == IsSound("Listen", Listen)
<1>1. OwnFields("Listen", Listen)
  BY ListenRows, FieldTable
<1>2. Kept(Listen)
  BY ListenRows, FieldTable
<1>3. HasRoom("Listen", Listen)
  BY ListenRows, FieldTable
<1>4. TargetsMarked("Listen", Listen)
  BY ListenRows
<1> QED
  BY <1>1, <1>2, <1>3, <1>4 DEF IsSound

LEMMA RecvZcIsSound == IsSound("RecvZc", RecvZc)
<1>1. OwnFields("RecvZc", RecvZc)
  BY RecvZcRows, FieldTable
<1>2. Kept(RecvZc)
  BY RecvZcRows, FieldTable
<1>3. HasRoom("RecvZc", RecvZc)
  BY RecvZcRows, FieldTable
<1>4. TargetsMarked("RecvZc", RecvZc)
  BY RecvZcRows
<1> QED
  BY <1>1, <1>2, <1>3, <1>4 DEF IsSound

LEMMA EpollWaitIsSound == IsSound("EpollWait", EpollWait)
<1>1. OwnFields("EpollWait", EpollWait)
  BY EpollWaitRows, FieldTable
<1>2. Kept(EpollWait)
  BY EpollWaitRows, FieldTable
<1>3. HasRoom("EpollWait", EpollWait)
  BY EpollWaitRows, FieldTable
<1>4. TargetsMarked("EpollWait", EpollWait)
  BY EpollWaitRows
<1> QED
  BY <1>1, <1>2, <1>3, <1>4 DEF IsSound

LEMMA ReadvFixedIsSound == IsSound("ReadvFixed", ReadvFixed)
<1>1. OwnFields("ReadvFixed", ReadvFixed)
  BY ReadvFixedRows, FieldTable
<1>2. Kept(ReadvFixed)
  BY ReadvFixedRows, FieldTable
<1>3. HasRoom("ReadvFixed", ReadvFixed)
  BY ReadvFixedRows, FieldTable
<1>4. TargetsMarked("ReadvFixed", ReadvFixed)
  BY ReadvFixedRows
<1> QED
  BY <1>1, <1>2, <1>3, <1>4 DEF IsSound

LEMMA WritevFixedIsSound == IsSound("WritevFixed", WritevFixed)
<1>1. OwnFields("WritevFixed", WritevFixed)
  BY WritevFixedRows, FieldTable
<1>2. Kept(WritevFixed)
  BY WritevFixedRows, FieldTable
<1>3. HasRoom("WritevFixed", WritevFixed)
  BY WritevFixedRows, FieldTable
<1>4. TargetsMarked("WritevFixed", WritevFixed)
  BY WritevFixedRows
<1> QED
  BY <1>1, <1>2, <1>3, <1>4 DEF IsSound

LEMMA PipeIsSound == IsSound("Pipe", Pipe)
<1>1. OwnFields("Pipe", Pipe)
  BY PipeRows, FieldTable
<1>2. Kept(Pipe)
  BY PipeRows, FieldTable
<1>3. HasRoom("Pipe", Pipe)
  BY PipeRows, FieldTable
<1>4. TargetsMarked("Pipe", Pipe)
  BY PipeRows
<1> QED
  BY <1>1, <1>2, <1>3, <1>4 DEF IsSound

HIDE DEF At, Put, PutBoth, If, Unless, OrIn, Assign, Const, Target, U64, U32, I32, U16, I64,
         Ptr, CmdBytes, Source, Narrowed, OwnFields, Kept, Apart, Disjoint, HasRoom,
         TargetsMarked, Marked, MarkOf

\* The builders by name.
LEMMA BuilderNames ==
  DOMAIN Builders =
    {"Nop", "Readv", "Writev", "Fsync", "ReadFixed", "WriteFixed", "PollAdd", "PollRemove",
     "SyncFileRange", "SendMsg", "RecvMsg", "RecvMsgMulti", "Timeout", "TimeoutRemove",
     "TimeoutUpdate", "Accept", "SetSockOpt", "AsyncCancel", "LinkTimeout", "Connect",
     "Fallocate", "OpenAt", "Close", "FilesUpdate", "Statx", "Read", "Write", "Fadvise",
     "Madvise", "Send", "Recv", "RecvMulti", "OpenAt2", "EpollCtl", "Splice",
     "ProvideBuffers", "RemoveBuffers", "Tee", "Shutdown", "RenameAt", "UnlinkAt",
     "MkDirAt", "SymlinkAt", "LinkAt", "GetXattr", "SetXattr", "FGetXattr", "FSetXattr",
     "MsgRingData", "AsyncCancel2", "UringCmd16", "UringCmd80", "Socket", "AcceptMulti",
     "MsgRingSendFd", "SendZc", "SendMsgZc", "ReadMulti", "FutexWait", "FutexWake",
     "FutexWaitV", "WaitId", "FixedFdInstall", "Ftruncate", "SendBundle", "RecvBundle",
     "RecvMultiBundle", "Bind", "Listen", "RecvZc", "EpollWait", "ReadvFixed",
     "WritevFixed", "Pipe"}
BY SMTT(30) DEF Builders

LEMMA BuilderTable ==
    /\ Builders["Nop"] = Nop /\ Builders["Readv"] = Readv /\ Builders["Writev"] = Writev
    /\ Builders["Fsync"] = Fsync /\ Builders["ReadFixed"] = ReadFixed
    /\ Builders["WriteFixed"] = WriteFixed /\ Builders["PollAdd"] = PollAdd
    /\ Builders["PollRemove"] = PollRemove /\ Builders["SyncFileRange"] = SyncFileRange
    /\ Builders["SendMsg"] = SendMsg /\ Builders["RecvMsg"] = RecvMsg
    /\ Builders["RecvMsgMulti"] = RecvMsgMulti /\ Builders["Timeout"] = Timeout
    /\ Builders["TimeoutRemove"] = TimeoutRemove
    /\ Builders["TimeoutUpdate"] = TimeoutUpdate /\ Builders["Accept"] = Accept
    /\ Builders["SetSockOpt"] = SetSockOpt /\ Builders["AsyncCancel"] = AsyncCancel
    /\ Builders["LinkTimeout"] = LinkTimeout /\ Builders["Connect"] = Connect
    /\ Builders["Fallocate"] = Fallocate /\ Builders["OpenAt"] = OpenAt
    /\ Builders["Close"] = Close /\ Builders["FilesUpdate"] = FilesUpdate
    /\ Builders["Statx"] = Statx /\ Builders["Read"] = Read /\ Builders["Write"] = Write
    /\ Builders["Fadvise"] = Fadvise /\ Builders["Madvise"] = Madvise
    /\ Builders["Send"] = Send /\ Builders["Recv"] = Recv
    /\ Builders["RecvMulti"] = RecvMulti /\ Builders["OpenAt2"] = OpenAt2
    /\ Builders["EpollCtl"] = EpollCtl /\ Builders["Splice"] = Splice
    /\ Builders["ProvideBuffers"] = ProvideBuffers
    /\ Builders["RemoveBuffers"] = RemoveBuffers /\ Builders["Tee"] = Tee
    /\ Builders["Shutdown"] = Shutdown /\ Builders["RenameAt"] = RenameAt
    /\ Builders["UnlinkAt"] = UnlinkAt /\ Builders["MkDirAt"] = MkDirAt
    /\ Builders["SymlinkAt"] = SymlinkAt /\ Builders["LinkAt"] = LinkAt
    /\ Builders["GetXattr"] = GetXattr /\ Builders["SetXattr"] = SetXattr
    /\ Builders["FGetXattr"] = FGetXattr /\ Builders["FSetXattr"] = FSetXattr
    /\ Builders["MsgRingData"] = MsgRingData /\ Builders["AsyncCancel2"] = AsyncCancel2
    /\ Builders["UringCmd16"] = UringCmd16 /\ Builders["UringCmd80"] = UringCmd80
    /\ Builders["Socket"] = Socket /\ Builders["AcceptMulti"] = AcceptMulti
    /\ Builders["MsgRingSendFd"] = MsgRingSendFd /\ Builders["SendZc"] = SendZc
    /\ Builders["SendMsgZc"] = SendMsgZc /\ Builders["FutexWait"] = FutexWait
    /\ Builders["FutexWake"] = FutexWake /\ Builders["FutexWaitV"] = FutexWaitV
    /\ Builders["WaitId"] = WaitId /\ Builders["FixedFdInstall"] = FixedFdInstall
    /\ Builders["Ftruncate"] = Ftruncate /\ Builders["SendBundle"] = SendBundle
    /\ Builders["RecvBundle"] = RecvBundle /\ Builders["RecvMultiBundle"] = RecvMultiBundle
    /\ Builders["Bind"] = Bind /\ Builders["Listen"] = Listen /\ Builders["RecvZc"] = RecvZc
    /\ Builders["EpollWait"] = EpollWait /\ Builders["ReadvFixed"] = ReadvFixed
    /\ Builders["WritevFixed"] = WritevFixed /\ Builders["Pipe"] = Pipe
<1>1. /\ Builders["Nop"] = Nop /\ Builders["Readv"] = Readv /\ Builders["Writev"] = Writev
      /\ Builders["Fsync"] = Fsync /\ Builders["ReadFixed"] = ReadFixed
      /\ Builders["WriteFixed"] = WriteFixed /\ Builders["PollAdd"] = PollAdd
      /\ Builders["PollRemove"] = PollRemove /\ Builders["SyncFileRange"] = SyncFileRange
      /\ Builders["SendMsg"] = SendMsg /\ Builders["RecvMsg"] = RecvMsg
      /\ Builders["RecvMsgMulti"] = RecvMsgMulti /\ Builders["Timeout"] = Timeout
      /\ Builders["TimeoutRemove"] = TimeoutRemove
      /\ Builders["TimeoutUpdate"] = TimeoutUpdate
  BY DEF Builders
<1>2. /\ Builders["Accept"] = Accept /\ Builders["SetSockOpt"] = SetSockOpt
      /\ Builders["AsyncCancel"] = AsyncCancel /\ Builders["LinkTimeout"] = LinkTimeout
      /\ Builders["Connect"] = Connect /\ Builders["Fallocate"] = Fallocate
      /\ Builders["OpenAt"] = OpenAt /\ Builders["Close"] = Close
      /\ Builders["FilesUpdate"] = FilesUpdate /\ Builders["Statx"] = Statx
      /\ Builders["Read"] = Read /\ Builders["Write"] = Write
      /\ Builders["Fadvise"] = Fadvise /\ Builders["Madvise"] = Madvise
      /\ Builders["Send"] = Send
  BY DEF Builders
<1>3. /\ Builders["Recv"] = Recv /\ Builders["RecvMulti"] = RecvMulti
      /\ Builders["OpenAt2"] = OpenAt2 /\ Builders["EpollCtl"] = EpollCtl
      /\ Builders["Splice"] = Splice /\ Builders["ProvideBuffers"] = ProvideBuffers
      /\ Builders["RemoveBuffers"] = RemoveBuffers /\ Builders["Tee"] = Tee
      /\ Builders["Shutdown"] = Shutdown /\ Builders["RenameAt"] = RenameAt
      /\ Builders["UnlinkAt"] = UnlinkAt /\ Builders["MkDirAt"] = MkDirAt
      /\ Builders["SymlinkAt"] = SymlinkAt /\ Builders["LinkAt"] = LinkAt
      /\ Builders["GetXattr"] = GetXattr
  BY DEF Builders
<1>4. /\ Builders["SetXattr"] = SetXattr /\ Builders["FGetXattr"] = FGetXattr
      /\ Builders["FSetXattr"] = FSetXattr /\ Builders["MsgRingData"] = MsgRingData
      /\ Builders["AsyncCancel2"] = AsyncCancel2 /\ Builders["UringCmd16"] = UringCmd16
      /\ Builders["UringCmd80"] = UringCmd80 /\ Builders["Socket"] = Socket
      /\ Builders["AcceptMulti"] = AcceptMulti /\ Builders["MsgRingSendFd"] = MsgRingSendFd
      /\ Builders["SendZc"] = SendZc /\ Builders["SendMsgZc"] = SendMsgZc
      /\ Builders["FutexWait"] = FutexWait /\ Builders["FutexWake"] = FutexWake
      /\ Builders["FutexWaitV"] = FutexWaitV
  BY DEF Builders
<1>5. /\ Builders["WaitId"] = WaitId /\ Builders["FixedFdInstall"] = FixedFdInstall
      /\ Builders["Ftruncate"] = Ftruncate /\ Builders["SendBundle"] = SendBundle
      /\ Builders["RecvBundle"] = RecvBundle
      /\ Builders["RecvMultiBundle"] = RecvMultiBundle /\ Builders["Bind"] = Bind
      /\ Builders["Listen"] = Listen /\ Builders["RecvZc"] = RecvZc
      /\ Builders["EpollWait"] = EpollWait /\ Builders["ReadvFixed"] = ReadvFixed
      /\ Builders["WritevFixed"] = WritevFixed /\ Builders["Pipe"] = Pipe
  BY DEF Builders
<1> QED
  BY <1>1, <1>2, <1>3, <1>4, <1>5

\* ReadMulti stores its flags with a plain assignment, after the bit of a Fixed target.
SoundOps == DOMAIN Builders \ {"ReadMulti"}

LEMMA BuildersAreSound ==
  ASSUME NEW o \in SoundOps
  PROVE  IsSound(o, Builders[o])
BY BuilderNames, BuilderTable, NopIsSound, ReadvIsSound, WritevIsSound, FsyncIsSound,
   ReadFixedIsSound, WriteFixedIsSound, PollAddIsSound, PollRemoveIsSound,
   SyncFileRangeIsSound, SendMsgIsSound, RecvMsgIsSound, RecvMsgMultiIsSound,
   TimeoutIsSound, TimeoutRemoveIsSound, TimeoutUpdateIsSound, AcceptIsSound,
   SetSockOptIsSound, AsyncCancelIsSound, LinkTimeoutIsSound, ConnectIsSound,
   FallocateIsSound, OpenAtIsSound, CloseIsSound, FilesUpdateIsSound, StatxIsSound,
   ReadIsSound, WriteIsSound, FadviseIsSound, MadviseIsSound, SendIsSound, RecvIsSound,
   RecvMultiIsSound, OpenAt2IsSound, EpollCtlIsSound, SpliceIsSound, ProvideBuffersIsSound,
   RemoveBuffersIsSound, TeeIsSound, ShutdownIsSound, RenameAtIsSound, UnlinkAtIsSound,
   MkDirAtIsSound, SymlinkAtIsSound, LinkAtIsSound, GetXattrIsSound, SetXattrIsSound,
   FGetXattrIsSound, FSetXattrIsSound, MsgRingDataIsSound, AsyncCancel2IsSound,
   UringCmd16IsSound, UringCmd80IsSound, SocketIsSound, AcceptMultiIsSound,
   MsgRingSendFdIsSound, SendZcIsSound, SendMsgZcIsSound, FutexWaitIsSound,
   FutexWakeIsSound, FutexWaitVIsSound, WaitIdIsSound, FixedFdInstallIsSound,
   FtruncateIsSound, SendBundleIsSound, RecvBundleIsSound, RecvMultiBundleIsSound,
   BindIsSound, ListenIsSound, RecvZcIsSound, EpollWaitIsSound, ReadvFixedIsSound,
   WritevFixedIsSound, PipeIsSound
   DEF SoundOps

-----------------------------------------------------------------------------
(* What build() leaves in an entry.                                         *)

Built(o, c) ==
  StoreAll(Store(Zeroed(BytesBuilt(o)), Put("opcode", Const(o))), o, c)

\* Every field lies inside the entry, and the fields of the application apart from those
\* of the builders.
LEMMA FieldsApart ==
  ASSUME NEW f \in DOMAIN Fields \ {"opcode", "user_data", "personality"}
  PROVE  /\ Fields[f].offset \in Nat /\ Fields[f].width \in Nat
         /\ Fields[f].offset > 0
         /\ Fields[f].offset + Fields[f].width <= 128
         /\ f # "cmd_upper" => Fields[f].offset + Fields[f].width <= 64
         /\ \/ Fields[f].offset + Fields[f].width <= 32
            \/ Fields[f].offset >= 40
         /\ \/ Fields[f].offset + Fields[f].width <= 42
            \/ Fields[f].offset >= 44
         /\ f = "flags" \/ Fields[f].offset > 1
BY FieldTable DEF At

\* The bytes of the application.
UserBytes == (32..39) \cup (42..43)

\* An assignment of a builder that is reached writes bytes of the entry, none of them the
\* application's.
LEMMA WritesBytes ==
  ASSUME NEW o \in SoundOps, NEW i \in DOMAIN Builders[o], NEW b,
         Writes(Builders[o][i], b)
  PROVE  /\ b \in BytesBuilt(o) /\ b \in Int /\ b > 0
         /\ b \notin UserBytes
         /\ b = 1 <=> Builders[o][i].field = "flags"
<1> DEFINE f == Builders[o][i].field
<1>1. /\ f \in DOMAIN Fields \ {"opcode", "user_data", "personality"}
      /\ f = "cmd_upper" => o = "UringCmd80"
  BY BuildersAreSound DEF IsSound, OwnFields
<1>2. b \in Fields[f].offset .. (Fields[f].offset + Fields[f].width - 1)
  BY DEF Writes, BytesOf
<1> HIDE DEF f
<1>3. b \in Int /\ b > 0 /\ b < 128 /\ (f # "cmd_upper" => b < 64)
  BY <1>1, <1>2, FieldsApart
<1>4. b \notin UserBytes
  BY <1>1, <1>2, FieldsApart DEF UserBytes
<1>5. b = 1 <=> f = "flags"
  <2>1. CASE f = "flags"
    BY <2>1, <1>2, FieldTable DEF At
  <2>2. CASE f # "flags"
    BY <2>2, <1>1, <1>2, <1>3, FieldsApart
  <2> QED
    BY <2>1, <2>2
<1> QED
  BY <1>1, <1>3, <1>4, <1>5 DEF f, BytesBuilt, EntryBytes, Entry128Bytes

\* The zeroed entry holds its opcode.
LEMMA BuiltByte ==
  ASSUME NEW o \in SoundOps, NEW c, NEW b \in BytesBuilt(o)
  PROVE  LET B == Builders[o]
             To == {i \in DOMAIN B : Reached(B[i], c) /\ Writes(B[i], b)}
             Lasting == {i \in To : \A j \in To : j > i => B[j].or}
         IN  Built(o, c)[b] = UNION {Stored(B[i], b) : i \in Lasting}
                \cup (IF \A i \in To : B[i].or
                      THEN Store(Zeroed(BytesBuilt(o)), Put("opcode", Const(o)))[b]
                      ELSE {})
BY DEF Built, StoreAll, Store, Zeroed

LEMMA BuiltDomain ==
  ASSUME NEW o, NEW c
  PROVE  DOMAIN Built(o, c) = BytesBuilt(o)
BY DEF Built, StoreAll, Store, Zeroed

\* What a reached assignment stored is there after the last.
LEMMA BuiltHolds ==
  ASSUME NEW o \in SoundOps, NEW c, NEW i \in DOMAIN Builders[o], NEW b,
         Reached(Builders[o][i], c), Writes(Builders[o][i], b)
  PROVE  Stored(Builders[o][i], b) \subseteq Built(o, c)[b]
<1> DEFINE B == Builders[o]
           To == {j \in DOMAIN B : Reached(B[j], c) /\ Writes(B[j], b)}
           Lasting == {k \in To : \A j \in To : j > k => B[j].or}
<1>1. b \in BytesBuilt(o)
  BY WritesBytes
<1>2. ASSUME NEW j \in To, j > i PROVE B[j].or
  <2> SUFFICES ASSUME ~B[j].or PROVE FALSE
    OBVIOUS
  <2>1. Apart(B[i], B[j])
    BY <1>2, BuildersAreSound DEF IsSound, Kept
  <2>2. B[i].needs \cap B[j].unless = {} /\ B[j].needs \cap B[i].unless = {}
    BY DEF Reached
  <2>3. Disjoint(Fields[B[i].field], Fields[B[j].field])
    BY <2>1, <2>2 DEF Apart
  <2> DEFINE f == Fields[B[i].field]
             g == Fields[B[j].field]
  <2>4. f.offset \in Nat /\ f.width \in Nat /\ g.offset \in Nat /\ g.width \in Nat
    BY BuildersAreSound, FieldsApart DEF IsSound, OwnFields
  <2>5. b \in f.offset .. (f.offset + f.width - 1) /\ b \in g.offset .. (g.offset + g.width - 1)
    BY DEF Writes, BytesOf
  <2> HIDE DEF f, g
  <2> QED
    BY <2>3, <2>4, <2>5 DEF Disjoint, f, g
<1>3. i \in Lasting
  BY <1>2
<1> QED
  BY <1>1, <1>3, BuiltByte

\* Nothing else is there, save the opcode in byte 0.
LEMMA BuiltOnly ==
  ASSUME NEW o \in SoundOps, NEW c, NEW b \in BytesBuilt(o), b # 0,
         NEW x \in Built(o, c)[b]
  PROVE  \E i \in DOMAIN Builders[o] :
            /\ Reached(Builders[o][i], c) /\ Writes(Builders[o][i], b)
            /\ x \in Stored(Builders[o][i], b)
<1>1. Store(Zeroed(BytesBuilt(o)), Put("opcode", Const(o)))[b] = {}
  BY FieldTable DEF Store, Zeroed, Put, Assign, Writes, BytesOf, At
<1> QED
  BY <1>1, BuiltByte

\* So the bytes of the application are still zero.
LEMMA BuiltLeaves ==
  ASSUME NEW o \in SoundOps, NEW c, NEW b \in UserBytes
  PROVE  b \in BytesBuilt(o) /\ Built(o, c)[b] = {}
<1>1. b \in BytesBuilt(o) /\ b # 0
  BY DEF UserBytes, BytesBuilt, EntryBytes, Entry128Bytes
<1>2. ASSUME NEW x \in Built(o, c)[b] PROVE FALSE
  BY <1>1, <1>2, BuiltOnly, WritesBytes
<1> QED
  BY <1>1, <1>2

-----------------------------------------------------------------------------
(* The entry from build() to push.                                          *)

UserFlagBytes == {<<f, 0>> : f \in UserFlags}

AskedTypeOK ==
  /\ asked.flags \subseteq UserFlags /\ asked.cleared \in BOOLEAN
  /\ asked.user_data \in UserData \cup {"0"}
  /\ asked.personality \in Personalities \cup {"0"}
  /\ asked = [flags |-> asked.flags, cleared |-> asked.cleared,
              user_data |-> asked.user_data, personality |-> asked.personality]

\* The bytes that no setter writes are as build() left them, and zero in the half that
\* From<Entry> added.
BuiltPart ==
  /\ BytesBuilt(op) \subseteq DOMAIN entry
  /\ DOMAIN entry \in {EntryBytes, Entry128Bytes}
  /\ \A b \in BytesBuilt(op) \ (UserBytes \cup {1}) : entry[b] = Built(op, given)[b]
  /\ \A b \in DOMAIN entry \ BytesBuilt(op) : entry[b] = {}

\* The flags are those of the builder, until clear_flags, and those of the application.
FlagsPart ==
  /\ ~asked.cleared => Built(op, given)[1] \subseteq entry[1]
  /\ entry[1] \subseteq Built(op, given)[1] \cup UserFlagBytes
  /\ \A f \in asked.flags : <<f, 0>> \in entry[1]

UserPart ==
  /\ \A b \in 32..39 :
       entry[b] = IF asked.user_data = "0" THEN {} ELSE {<<asked.user_data, b - 32>>}
  /\ \A b \in 42..43 :
       entry[b] = IF asked.personality = "0" THEN {} ELSE {<<asked.personality, b - 42>>}

EntryInv ==
  /\ AskedTypeOK
  /\ op # "none" =>
       op \in Ops /\ given \in Calls(op) /\ BuiltPart /\ FlagsPart /\ UserPart

OnlySound == Ops \subseteq SoundOps
NothingIsZero == "0" \notin UserData \cup Personalities

\* The fields that setters write.
LEMMA SetterFields ==
  /\ BytesOf(Fields["flags"]) = {1} /\ Fields["flags"].offset = 1
  /\ BytesOf(Fields["user_data"]) = 32..39 /\ Fields["user_data"].offset = 32
  /\ BytesOf(Fields["personality"]) = 42..43 /\ Fields["personality"].offset = 42
BY FieldTable DEF BytesOf, At

\* build() starts an entry with nothing asked.
LEMMA StepBuild ==
  ASSUME OnlySound, EntryInv, NEW o \in Ops, NEW c \in Calls(o), Build(o, c)
  PROVE  EntryInv'
<1>1. o \in SoundOps
  BY DEF OnlySound
<1>2. op' = o /\ given' = c /\ entry' = Built(o, c) /\ asked' = NothingAsked
  BY DEF Build, Built
<1>3. AskedTypeOK'
  BY <1>2 DEF AskedTypeOK, NothingAsked
<1>4. BuiltPart'
  BY <1>1, <1>2, BuiltDomain DEF BuiltPart, BytesBuilt
<1>5. FlagsPart'
  BY <1>2 DEF FlagsPart, NothingAsked
<1>6. UserPart'
  BY <1>1, <1>2, BuiltLeaves DEF UserPart, UserBytes, NothingAsked
<1> QED
  BY <1>2, <1>3, <1>4, <1>5, <1>6 DEF EntryInv

\* A setter changes the bytes of its own field alone.
LEMMA SetterWrites ==
  ASSUME NEW w, Setter(w)
  PROVE  /\ op # "none" /\ op' = op /\ given' = given /\ DOMAIN entry' = DOMAIN entry
         /\ \A b \in DOMAIN entry :
              entry'[b] = IF b \notin BytesOf(Fields[w.field]) THEN entry[b]
                          ELSE Stored(w, b) \cup (IF w.or THEN entry[b] ELSE {})
BY DEF Setter, Store, Writes

\* The bytes in question.
LEMMA EntryHasBytes ==
  ASSUME BuiltPart
  PROVE  /\ 1 \in DOMAIN entry /\ UserBytes \subseteq DOMAIN entry
         /\ 1 \in BytesBuilt(op) /\ UserBytes \subseteq BytesBuilt(op)
         /\ 1 \notin UserBytes
BY DEF BuiltPart, UserBytes, BytesBuilt, EntryBytes, Entry128Bytes

\* Setters that leave the flags alone, and those that leave the application's bytes alone.
LEMMA KeepsBuiltPart ==
  ASSUME BuiltPart, op' = op, given' = given, DOMAIN entry' = DOMAIN entry,
         \A b \in DOMAIN entry : b \notin UserBytes \cup {1} => entry'[b] = entry[b]
  PROVE  BuiltPart'
<1>1. UserBytes \cup {1} \subseteq BytesBuilt(op)
  BY EntryHasBytes
<1> QED
  BY <1>1 DEF BuiltPart

LEMMA KeepsFlagsPart ==
  ASSUME BuiltPart, FlagsPart, op' = op, given' = given, entry'[1] = entry[1],
         asked'.flags = asked.flags, asked'.cleared = asked.cleared
  PROVE  FlagsPart'
BY DEF FlagsPart

LEMMA KeepsUserPart ==
  ASSUME UserPart, \A b \in UserBytes : entry'[b] = entry[b],
         asked'.user_data = asked.user_data, asked'.personality = asked.personality
  PROVE  UserPart'
BY DEF UserPart, UserBytes

\* Entry::flags adds a flag.
LEMMA StepSetFlags ==
  ASSUME EntryInv, NEW f \in UserFlags, SetFlags(f)
  PROVE  EntryInv'
<1> DEFINE w == OrIn("flags", f)
<1>1. /\ w.field = "flags" /\ w.or
      /\ \A b : b = 1 => Stored(w, b) = {<<f, 0>>}
  BY SetterFields DEF OrIn, Assign, Const, Source, Stored, ByteOf
<1>2. Setter(w) /\ asked' = [asked EXCEPT !.flags = asked.flags \cup {f}]
  BY DEF SetFlags
<1> HIDE DEF w
<1>3. /\ op # "none" /\ op' = op /\ given' = given /\ DOMAIN entry' = DOMAIN entry
      /\ \A b \in DOMAIN entry :
              entry'[b] = IF b \notin {1} THEN entry[b]
                          ELSE Stored(w, b) \cup entry[b]
  BY <1>1, <1>2, SetterWrites, SetterFields
<1>4. AskedTypeOK /\ BuiltPart /\ FlagsPart /\ UserPart /\ op \in Ops /\ given \in Calls(op)
  BY <1>3 DEF EntryInv
<1>5. /\ asked'.flags = asked.flags \cup {f} /\ asked'.cleared = asked.cleared
      /\ asked'.user_data = asked.user_data /\ asked'.personality = asked.personality
      /\ AskedTypeOK'
  BY <1>2, <1>4 DEF AskedTypeOK
<1>6. entry'[1] = {<<f, 0>>} \cup entry[1] /\ \A b \in UserBytes : entry'[b] = entry[b]
  BY <1>1, <1>3, <1>4, EntryHasBytes
<1>7. BuiltPart'
  BY <1>3, <1>4, KeepsBuiltPart
<1>8. FlagsPart'
  BY <1>3, <1>4, <1>5, <1>6 DEF FlagsPart, UserFlagBytes
<1>9. UserPart'
  BY <1>4, <1>5, <1>6, KeepsUserPart
<1> QED
  BY <1>3, <1>4, <1>5, <1>7, <1>8, <1>9 DEF EntryInv

\* Entry::clear_flags empties the flags.
LEMMA StepClearFlags ==
  ASSUME EntryInv, ClearFlags
  PROVE  EntryInv'
<1> DEFINE w == Assign("flags", FALSE, {}, {}, {})
<1>1. w.field = "flags" /\ ~w.or /\ \A b : Stored(w, b) = {}
  BY DEF Assign, Stored
<1>2. Setter(w) /\ asked' = [asked EXCEPT !.flags = {}, !.cleared = TRUE]
  BY DEF ClearFlags
<1> HIDE DEF w
<1>3. /\ op # "none" /\ op' = op /\ given' = given /\ DOMAIN entry' = DOMAIN entry
      /\ \A b \in DOMAIN entry : entry'[b] = IF b \notin {1} THEN entry[b] ELSE {}
  BY <1>1, <1>2, SetterWrites, SetterFields
<1>4. AskedTypeOK /\ BuiltPart /\ FlagsPart /\ UserPart /\ op \in Ops /\ given \in Calls(op)
  BY <1>3 DEF EntryInv
<1>5. /\ asked'.flags = {} /\ asked'.cleared
      /\ asked'.user_data = asked.user_data /\ asked'.personality = asked.personality
      /\ AskedTypeOK'
  BY <1>2, <1>4 DEF AskedTypeOK
<1>6. entry'[1] = {} /\ \A b \in UserBytes : entry'[b] = entry[b]
  BY <1>3, <1>4, EntryHasBytes
<1>7. BuiltPart'
  BY <1>3, <1>4, KeepsBuiltPart
<1>8. FlagsPart'
  BY <1>3, <1>5, <1>6 DEF FlagsPart
<1>9. UserPart'
  BY <1>4, <1>5, <1>6, KeepsUserPart
<1> QED
  BY <1>3, <1>4, <1>5, <1>7, <1>8, <1>9 DEF EntryInv

\* Entry::user_data replaces all eight bytes.
LEMMA StepSetUserData ==
  ASSUME "0" \notin UserData, EntryInv, NEW v \in UserData, SetUserData(v)
  PROVE  EntryInv'
<1> DEFINE w == Put("user_data", U64(v))
<1>1. /\ w.field = "user_data" /\ ~w.or
      /\ \A b \in 32..39 : Stored(w, b) = {<<v, b - 32>>}
  BY SetterFields DEF Put, Assign, U64, Source, Stored, ByteOf
<1>2. Setter(w) /\ asked' = [asked EXCEPT !.user_data = v]
  BY DEF SetUserData
<1> HIDE DEF w
<1>3. /\ op # "none" /\ op' = op /\ given' = given /\ DOMAIN entry' = DOMAIN entry
      /\ \A b \in DOMAIN entry :
           entry'[b] = IF b \notin 32..39 THEN entry[b] ELSE {<<v, b - 32>>}
  <2>1. /\ op # "none" /\ op' = op /\ given' = given /\ DOMAIN entry' = DOMAIN entry
        /\ \A b \in DOMAIN entry :
             entry'[b] = IF b \notin 32..39 THEN entry[b] ELSE Stored(w, b)
    <3>1. BytesOf(Fields[w.field]) = 32..39
      BY <1>1, SetterFields
    <3>2. \A b : Stored(w, b) \cup (IF w.or THEN entry[b] ELSE {}) = Stored(w, b)
      BY <1>1
    <3> QED
      BY <1>2, <3>1, <3>2, SetterWrites
  <2> QED
    BY <1>1, <2>1
<1>4. AskedTypeOK /\ BuiltPart /\ FlagsPart /\ UserPart /\ op \in Ops /\ given \in Calls(op)
  BY <1>3 DEF EntryInv
<1>5. /\ asked'.flags = asked.flags /\ asked'.cleared = asked.cleared
      /\ asked'.user_data = v /\ asked'.personality = asked.personality
      /\ AskedTypeOK'
  BY <1>2, <1>4 DEF AskedTypeOK
<1>6. entry'[1] = entry[1]
  BY <1>3, <1>4, EntryHasBytes
<1>7. BuiltPart'
  BY <1>3, <1>4, KeepsBuiltPart DEF UserBytes
<1>8. FlagsPart'
  BY <1>3, <1>4, <1>5, <1>6, KeepsFlagsPart
<1>9. UserPart'
  BY <1>3, <1>4, <1>5, EntryHasBytes DEF UserPart, UserBytes
<1> QED
  BY <1>3, <1>4, <1>5, <1>7, <1>8, <1>9 DEF EntryInv

\* Entry::personality replaces both bytes.
LEMMA StepSetPersonality ==
  ASSUME "0" \notin Personalities, EntryInv, NEW p \in Personalities, SetPersonality(p)
  PROVE  EntryInv'
<1> DEFINE w == Put("personality", U16(p))
<1>1. /\ w.field = "personality" /\ ~w.or
      /\ \A b \in 42..43 : Stored(w, b) = {<<p, b - 42>>}
  BY SetterFields DEF Put, Assign, U16, Source, Stored, ByteOf
<1>2. Setter(w) /\ asked' = [asked EXCEPT !.personality = p]
  BY DEF SetPersonality
<1> HIDE DEF w
<1>3. /\ op # "none" /\ op' = op /\ given' = given /\ DOMAIN entry' = DOMAIN entry
      /\ \A b \in DOMAIN entry :
           entry'[b] = IF b \notin 42..43 THEN entry[b] ELSE {<<p, b - 42>>}
  <2>1. /\ op # "none" /\ op' = op /\ given' = given /\ DOMAIN entry' = DOMAIN entry
        /\ \A b \in DOMAIN entry :
             entry'[b] = IF b \notin 42..43 THEN entry[b] ELSE Stored(w, b)
    <3>1. \A b : Stored(w, b) \cup {} = Stored(w, b)
      OBVIOUS
    <3> QED
      BY <1>1, <1>2, <3>1, SetterWrites, SetterFields
  <2> QED
    BY <1>1, <2>1
<1>4. AskedTypeOK /\ BuiltPart /\ FlagsPart /\ UserPart /\ op \in Ops /\ given \in Calls(op)
  BY <1>3 DEF EntryInv
<1>5. /\ asked'.flags = asked.flags /\ asked'.cleared = asked.cleared
      /\ asked'.user_data = asked.user_data /\ asked'.personality = p
      /\ AskedTypeOK'
  BY <1>2, <1>4 DEF AskedTypeOK
<1>6. entry'[1] = entry[1]
  BY <1>3, <1>4, EntryHasBytes
<1>7. BuiltPart'
  BY <1>3, <1>4, KeepsBuiltPart DEF UserBytes
<1>8. FlagsPart'
  BY <1>3, <1>4, <1>5, <1>6, KeepsFlagsPart
<1>9. UserPart'
  BY <1>3, <1>4, <1>5, EntryHasBytes DEF UserPart, UserBytes
<1> QED
  BY <1>3, <1>4, <1>5, <1>7, <1>8, <1>9 DEF EntryInv

\* From<Entry> for Entry128 adds zeroes.
LEMMA StepIntoEntry128 ==
  ASSUME EntryInv, IntoEntry128
  PROVE  EntryInv'
<1>1. /\ op # "none" /\ DOMAIN entry = EntryBytes
      /\ entry' = [b \in Entry128Bytes |-> IF b \in EntryBytes THEN entry[b] ELSE {}]
      /\ op' = op /\ given' = given /\ asked' = asked
  BY DEF IntoEntry128
<1>2. AskedTypeOK /\ BuiltPart /\ FlagsPart /\ UserPart /\ op \in Ops /\ given \in Calls(op)
  BY <1>1 DEF EntryInv
<1>3. BytesBuilt(op) = EntryBytes
  BY <1>1, <1>2 DEF BuiltPart, BytesBuilt, EntryBytes, Entry128Bytes
<1>4. DOMAIN entry' = Entry128Bytes /\ EntryBytes \subseteq Entry128Bytes
  BY <1>1 DEF EntryBytes, Entry128Bytes
<1>5. /\ \A b \in EntryBytes : entry'[b] = entry[b]
      /\ \A b \in Entry128Bytes \ EntryBytes : entry'[b] = {}
  BY <1>1, <1>4
<1>6. BuiltPart'
  BY <1>1, <1>2, <1>3, <1>4, <1>5 DEF BuiltPart
<1>7. entry'[1] = entry[1] /\ \A b \in UserBytes : entry'[b] = entry[b]
  BY <1>2, <1>3, <1>5, EntryHasBytes
<1>8. FlagsPart' /\ UserPart'
  BY <1>1, <1>2, <1>7, KeepsFlagsPart, KeepsUserPart
<1>9. AskedTypeOK'
  BY <1>1, <1>2 DEF AskedTypeOK
<1> QED
  BY <1>1, <1>2, <1>6, <1>8, <1>9 DEF EntryInv

LEMMA StepEntry ==
  ASSUME OnlySound, NothingIsZero, EntryInv, [EntryNext]_entryVars
  PROVE  EntryInv'
<1>1. ASSUME NEW o \in Ops, NEW c \in Calls(o), Build(o, c) PROVE EntryInv'
  BY <1>1, StepBuild
<1>2. ASSUME NEW f \in UserFlags, SetFlags(f) PROVE EntryInv'
  BY <1>2, StepSetFlags
<1>3. CASE ClearFlags
  BY <1>3, StepClearFlags
<1>4. ASSUME NEW v \in UserData, SetUserData(v) PROVE EntryInv'
  BY <1>4, StepSetUserData DEF NothingIsZero
<1>5. ASSUME NEW p \in Personalities, SetPersonality(p) PROVE EntryInv'
  BY <1>5, StepSetPersonality DEF NothingIsZero
<1>6. CASE IntoEntry128
  BY <1>6, StepIntoEntry128
<1>7. CASE Push
  BY <1>7 DEF Push, EntryInv, AskedTypeOK, NothingAsked
<1>8. CASE UNCHANGED entryVars
  BY <1>8 DEF entryVars, EntryInv, AskedTypeOK, BuiltPart, FlagsPart, UserPart
<1> QED
  BY <1>1, <1>2, <1>3, <1>4, <1>5, <1>6, <1>7, <1>8 DEF EntryNext

-----------------------------------------------------------------------------
(* What the entry says, from the invariant.                                 *)

\* A byte written by a reached assignment holds what it stored, unless it is a flag and
\* clear_flags was called.
LEMMA EntryHolds ==
  ASSUME OnlySound, EntryInv, op # "none", NEW i \in DOMAIN Builders[op], NEW b,
         Reached(Builders[op][i], given), Writes(Builders[op][i], b),
         ~(Builders[op][i].field = "flags" /\ asked.cleared)
  PROVE  b \in DOMAIN entry /\ Stored(Builders[op][i], b) \subseteq entry[b]
<1>1. op \in SoundOps /\ BuiltPart /\ FlagsPart
  BY DEF OnlySound, EntryInv
<1>2. b \in BytesBuilt(op) /\ b \notin UserBytes /\ (b = 1 <=> Builders[op][i].field = "flags")
  BY <1>1, WritesBytes
<1>3. Stored(Builders[op][i], b) \subseteq Built(op, given)[b]
  BY <1>1, BuiltHolds
<1>4. Built(op, given)[b] \subseteq entry[b]
  <2>1. CASE b = 1
    BY <2>1, <1>1, <1>2 DEF FlagsPart
  <2>2. CASE b # 1
    BY <2>2, <1>1, <1>2 DEF BuiltPart
  <2> QED
    BY <2>1, <2>2
<1> QED
  BY <1>1, <1>2, <1>3, <1>4 DEF BuiltPart

\* A source byte that fits in its field arrives.
LEMMA ByteArrives ==
  ASSUME OnlySound, EntryInv, op # "none", NEW i \in DOMAIN Builders[op],
         Reached(Builders[op][i], given), Builders[op][i].field # "flags",
         NEW s \in Builders[op][i].from, s.skip \in Nat, s.width \in Nat,
         NEW k \in s.skip .. (s.width - 1),
         k - s.skip < Fields[Builders[op][i].field].width
  PROVE  \E b \in DOMAIN entry : <<s.arg, k>> \in entry[b]
<1> DEFINE w == Builders[op][i]
           f == Fields[w.field]
           b == f.offset + (k - s.skip)
<1>1. op \in SoundOps
  BY DEF OnlySound, EntryInv
<1>2. f.offset \in Nat /\ f.width \in Nat /\ k - s.skip < f.width
  BY <1>1, BuildersAreSound, FieldsApart DEF IsSound, OwnFields
<1>3. Writes(w, b)
  <2>1. b \in f.offset .. (f.offset + f.width - 1)
    <3> HIDE DEF f
    <3> QED
      BY <1>2
  <2> QED
    BY <2>1 DEF Writes, BytesOf
<1>4. <<s.arg, k>> \in ByteOf(s, b - f.offset)
  <2>1. (b - f.offset) + s.skip = k /\ k < s.width
    <3> HIDE DEF f
    <3> QED
      BY <1>2
  <2> QED
    BY <2>1 DEF ByteOf
<1>5. <<s.arg, k>> \in Stored(w, b)
  BY <1>4 DEF Stored
<1>6. b \in DOMAIN entry /\ Stored(w, b) \subseteq entry[b]
  BY <1>3, EntryHolds
<1> QED
  BY <1>5, <1>6

LEMMA SourceArrives ==
  ASSUME OnlySound, EntryInv, op # "none", NEW i \in DOMAIN Builders[op],
         Reached(Builders[op][i], given), Builders[op][i].field # "flags",
         NEW s \in Builders[op][i].from, <<op, s.arg>> \notin Narrowed
  PROVE  Arrives(s)
<1> DEFINE B == Builders[op]
           f == Fields[B[i].field]
<1>1. op \in SoundOps
  BY DEF OnlySound, EntryInv
<1>2. /\ s.skip \in Nat /\ s.width \in Nat /\ f.width \in Nat
      /\ s.width - s.skip <= f.width \/ RestStored(B, i, s)
  BY <1>1, BuildersAreSound, FieldsApart DEF IsSound, HasRoom, OwnFields
<1>3. ASSUME NEW k \in s.skip .. (s.width - 1), k - s.skip < f.width
      PROVE  \E b \in DOMAIN entry : <<s.arg, k>> \in entry[b]
  BY <1>2, <1>3, ByteArrives
<1>4. ASSUME NEW k \in s.skip .. (s.width - 1), ~(k - s.skip < f.width)
      PROVE  \E b \in DOMAIN entry : <<s.arg, k>> \in entry[b]
  <2>1. RestStored(B, i, s)
    <3> HIDE DEF f
    <3> QED BY <1>2, <1>4
  <2>2. PICK j \in DOMAIN B : \E t \in B[j].from :
          /\ B[j].needs = {} /\ B[j].unless = {} /\ B[j].field # "flags"
          /\ t.arg = s.arg /\ t.width = s.width /\ t.width \in Nat
          /\ t.skip = s.skip + f.width
          /\ t.width - t.skip <= Fields[B[j].field].width
    BY <2>1 DEF RestStored
  <2>3. PICK t \in B[j].from :
          /\ B[j].needs = {} /\ B[j].unless = {} /\ B[j].field # "flags"
          /\ t.arg = s.arg /\ t.width = s.width /\ t.width \in Nat
          /\ t.skip = s.skip + f.width
          /\ t.width - t.skip <= Fields[B[j].field].width
    BY <2>2
  <2>4. Reached(B[j], given)
    BY <2>3 DEF Reached
  <2>5. Fields[B[j].field].width \in Nat
    BY <1>1, BuildersAreSound, FieldsApart DEF IsSound, OwnFields
  <2>6. /\ t.skip \in Nat /\ k \in t.skip .. (t.width - 1)
        /\ k - t.skip < Fields[B[j].field].width
    <3> HIDE DEF f
    <3> QED
      BY <1>2, <1>4, <2>3, <2>5, SMTT(20)
  <2>7. \E b \in DOMAIN entry : <<t.arg, k>> \in entry[b]
    BY <2>3, <2>4, <2>6, ByteArrives
  <2> QED
    BY <2>3, <2>7
<1> QED
  BY <1>3, <1>4 DEF Arrives

LEMMA SettersHonoured ==
  ASSUME OnlySound, EntryInv, op # "none"
  PROVE  SettersAreHonoured
<1>1. op \in SoundOps /\ AskedTypeOK /\ BuiltPart /\ FlagsPart /\ UserPart
  BY DEF OnlySound, EntryInv
<1>2. ASSUME NEW b \in 32..39
      PROVE  entry[b] = IF U64(asked.user_data).arg = "0" THEN {}
                        ELSE ByteOf(U64(asked.user_data), b - 32)
  <2>1. ByteOf(U64(asked.user_data), b - 32) = {<<asked.user_data, b - 32>>}
    BY DEF U64, Source, ByteOf
  <2>2. U64(asked.user_data).arg = asked.user_data
    BY DEF U64, Source
  <2> QED
    BY <1>1, <2>1, <2>2 DEF UserPart
<1>3. ASSUME NEW b \in 42..43
      PROVE  entry[b] = IF U16(asked.personality).arg = "0" THEN {}
                        ELSE ByteOf(U16(asked.personality), b - 42)
  <2>1. ByteOf(U16(asked.personality), b - 42) = {<<asked.personality, b - 42>>}
    BY DEF U16, Source, ByteOf
  <2>2. U16(asked.personality).arg = asked.personality
    BY DEF U16, Source
  <2> QED
    BY <1>1, <2>1, <2>2 DEF UserPart
<1>4. \A f \in asked.flags : Has("flags", f)
  BY <1>1, SetterFields DEF FlagsPart, Has
<1>5. op # "UringCmd80" => \A b \in DOMAIN entry \ EntryBytes : entry[b] = {}
  BY <1>1 DEF BuiltPart, BytesBuilt
<1> QED
  BY <1>2, <1>3, <1>4, <1>5, SetterFields DEF SettersAreHonoured

LEMMA EntryIsFaithful ==
  ASSUME OnlySound, EntryInv
  PROVE  EntrySaysWhatWasAsked
<1> SUFFICES ASSUME op # "none"
             PROVE  /\ \A w \in Given(op) :
                         /\ (w.field = "flags" /\ asked.cleared) \/ Holds(w)
                         /\ \A s \in w.from :
                              \/ <<op, s.arg>> \in Narrowed \/ w.field = "flags"
                              \/ Arrives(s)
                    /\ SettersAreHonoured
  BY DEF EntrySaysWhatWasAsked
<1>1. ASSUME NEW w \in Given(op)
      PROVE  /\ (w.field = "flags" /\ asked.cleared) \/ Holds(w)
             /\ \A s \in w.from :
                  <<op, s.arg>> \in Narrowed \/ w.field = "flags" \/ Arrives(s)
  <2>1. PICK i \in DOMAIN Builders[op] :
          w = Builders[op][i] /\ Reached(Builders[op][i], given)
    BY DEF Given, Assignments
  <2>2. ASSUME ~(w.field = "flags" /\ asked.cleared) PROVE Holds(w)
    BY <2>1, <2>2, EntryHolds DEF Holds, Writes, Stored
  <2>3. ASSUME NEW s \in w.from, <<op, s.arg>> \notin Narrowed, w.field # "flags"
        PROVE  Arrives(s)
    BY <2>1, <2>3, SourceArrives
  <2> QED
    BY <2>2, <2>3
<1> QED
  BY <1>1, SettersHonoured

-----------------------------------------------------------------------------
(* Targets.                                                                 *)

\* Nothing but the builder says that a file is fixed, and no flag was cleared.
NothingElseFixes ==
  "FIXED_FILE" \notin UserFlags /\ ~asked.cleared

\* A mark of the builder is in the entry exactly if its argument was given as Fixed.
LEMMA MarkSaid ==
  ASSUME OnlySound, EntryInv, op # "none", NothingElseFixes, NEW a, NEW f, NEW m,
         Marked(Builders[op], a, [field |-> f, flag |-> m]),
         (f = "flags" /\ m = "FIXED_FILE") \/ f = "op_flags"
  PROVE  Has(f, m) <=> a \in given
<1> DEFINE B == Builders[op]
<1>1. op \in SoundOps /\ BuiltPart /\ FlagsPart
  BY DEF OnlySound, EntryInv
<1>2. /\ Fields["flags"].offset = 1 /\ BytesOf(Fields["flags"]) = {1}
      /\ Fields["op_flags"].offset = 28 /\ BytesOf(Fields["op_flags"]) = 28..31
  BY FieldTable DEF At, BytesOf
<1>3. ASSUME a \in given PROVE Has(f, m)
  <2>1. PICK i \in DOMAIN B :
          B[i].field = f /\ Const(m) \in B[i].from /\ B[i].needs = {a} /\ B[i].unless = {}
    BY DEF Marked
  <2>2. Reached(B[i], given)
    BY <1>3, <2>1 DEF Reached
  <2> DEFINE b == Fields[f].offset
  <2>3. b \in BytesOf(Fields[f]) /\ Writes(B[i], b) /\ b \in Nat
    BY <1>2, <2>1 DEF Writes
  <2>4. <<m, 0>> \in ByteOf(Const(m), b - Fields[B[i].field].offset)
    <3>1. b - Fields[B[i].field].offset = 0
      BY <2>1, <2>3
    <3> QED
      BY <3>1 DEF ByteOf, Const, Source
  <2>5. <<m, 0>> \in Stored(B[i], b)
    BY <2>1, <2>4 DEF Stored
  <2>6. Stored(B[i], b) \subseteq entry[b]
    BY <2>2, <2>3, EntryHolds DEF NothingElseFixes
  <2> QED
    BY <2>3, <2>5, <2>6 DEF Has
<1>4. ASSUME Has(f, m) PROVE a \in given
  <2>1. PICK b \in BytesOf(Fields[f]) : <<m, 0>> \in entry[b]
    BY <1>4 DEF Has
  <2>2. b \in BytesBuilt(op) /\ b # 0 /\ b \notin UserBytes /\ (b = 1 <=> f = "flags")
    BY <1>2 DEF BytesBuilt, EntryBytes, Entry128Bytes, UserBytes
  <2>3. <<m, 0>> \in Built(op, given)[b]
    <3>1. CASE f = "flags"
      <4>1. <<m, 0>> \notin UserFlagBytes
        BY <3>1 DEF NothingElseFixes, UserFlagBytes
      <4> QED
        BY <3>1, <4>1, <1>1, <2>1, <2>2 DEF FlagsPart
    <3>2. CASE f # "flags"
      BY <3>2, <1>1, <2>1, <2>2 DEF BuiltPart
    <3> QED
      BY <3>1, <3>2
  <2>4. PICK i \in DOMAIN B : Reached(B[i], given) /\ <<m, 0>> \in Stored(B[i], b)
    BY <1>1, <2>2, <2>3, BuiltOnly
  <2>5. PICK s \in B[i].from : <<m, 0>> \in ByteOf(s, b - Fields[B[i].field].offset)
    BY <2>4 DEF Stored
  <2>6. s.arg = m
    BY <2>5 DEF ByteOf
  <2>7. a \in B[i].needs
    BY <2>6 DEF Marked
  <2> QED
    BY <2>4, <2>7 DEF Reached
<1> QED
  BY <1>3, <1>4

\* Close has its index in file_index, and nothing there for a descriptor.
LEMMA CloseSaid ==
  ASSUME OnlySound, EntryInv, op = "Close", LastSlotUsed = FALSE
  PROVE  (\E b \in BytesOf(Fields.file_index) : entry[b] # {}) <=> "fd" \in given
<1> DEFINE B == Builders[op]
<1>1. op \in SoundOps /\ BuiltPart /\ FlagsPart /\ given \in Calls(op)
  BY DEF OnlySound, EntryInv
<1>2. /\ Fields["file_index"].offset = 44
      /\ BytesOf(Fields["file_index"]) = 44..47
      /\ BytesOf(Fields["fd"]) = 4..7
  BY FieldTable DEF At, BytesOf
<1>3. "last_slot" \notin given
  BY <1>1 DEF Calls
<1>4. /\ DOMAIN B = 1..3 /\ B[1].field = "fd" /\ B[2].field = "fd" /\ B[3].field = "file_index"
      /\ B[3].needs = {"fd"} /\ B[3].unless = {"last_slot"}
      /\ B[3].from = {U32("fd_plus_1")}
  BY CloseRows, BuilderTable DEF Put, If, Unless, Assign
<1>5. ASSUME "fd" \in given PROVE entry[44] # {}
  <2>1. Reached(B[3], given) /\ Writes(B[3], 44)
    BY <1>2, <1>3, <1>4, <1>5 DEF Reached, Writes
  <2>2. <<"fd_plus_1", 0>> \in ByteOf(U32("fd_plus_1"), 44 - 44)
    BY DEF ByteOf, U32, Source
  <2>3. <<"fd_plus_1", 0>> \in Stored(B[3], 44)
    BY <1>2, <1>4, <2>2 DEF Stored
  <2>4. Stored(B[3], 44) \subseteq entry[44]
    BY <1>4, <2>1, EntryHolds
  <2> QED
    BY <2>3, <2>4
<1>6. ASSUME NEW b \in 44..47, entry[b] # {} PROVE "fd" \in given
  <2>1. b \in BytesBuilt(op) /\ b # 0 /\ b # 1 /\ b \notin UserBytes
    BY DEF BytesBuilt, EntryBytes, Entry128Bytes, UserBytes
  <2>2. PICK x : x \in Built(op, given)[b]
    BY <1>1, <1>6, <2>1 DEF BuiltPart
  <2>3. PICK i \in DOMAIN B : Reached(B[i], given) /\ Writes(B[i], b)
    BY <1>1, <2>1, <2>2, BuiltOnly
  <2>4. i = 3
    BY <1>2, <1>4, <2>3 DEF Writes
  <2> QED
    BY <1>4, <2>3, <2>4 DEF Reached
<1> QED
  BY <1>2, <1>5, <1>6

LEMMA TargetsAreHeld ==
  ASSUME OnlySound, EntryInv, LastSlotUsed = FALSE, "FIXED_FILE" \notin UserFlags
  PROVE  TargetsAsGiven
<1> SUFFICES ASSUME op # "none", ~asked.cleared, NEW a \in Targets(op)
             PROVE  InTable(a) <=> a \in given
  BY DEF TargetsAsGiven
<1> DEFINE B == Builders[op]
<1>1. op \in SoundOps /\ NothingElseFixes
  BY DEF OnlySound, EntryInv, NothingElseFixes
<1>2. PICK i \in DOMAIN B : \E s \in B[i].from : s.arg = a /\ s.file
  BY DEF Targets, Assignments
<1>3. CASE op = "Close"
  <2>1. a = "fd"
    BY <1>2, <1>3, CloseRows, BuilderTable DEF Put, If, Unless, Assign,
       Target, I32, U32, Const, Source
  <2>2. InTable(a) <=> \E b \in BytesOf(Fields.file_index) : entry[b] # {}
    BY <1>3 DEF InTable
  <2> QED
    BY <1>3, <2>1, <2>2, CloseSaid
<1>4. CASE op # "Close"
  <2>1. Marked(B, a, MarkOf(op, a))
    BY <1>1, <1>2, <1>4, BuildersAreSound DEF IsSound, TargetsMarked
  <2>2. CASE op = "AsyncCancel2"
    BY <1>1, <2>1, <2>2, MarkSaid DEF MarkOf, InTable
  <2>3. CASE op # "AsyncCancel2" /\ a = "fd_in"
    BY <1>1, <1>4, <2>1, <2>3, MarkSaid DEF MarkOf, InTable
  <2>4. CASE op # "AsyncCancel2" /\ a # "fd_in"
    BY <1>1, <1>4, <2>1, <2>4, MarkSaid DEF MarkOf, InTable
  <2> QED
    BY <2>2, <2>3, <2>4
<1> QED
  BY <1>3, <1>4

-----------------------------------------------------------------------------
(* The entries of a program.                                               *)

\* A step of any part is a step of the entry or leaves it alone.
LEMMA EntrySide ==
  ASSUME [PartsNext]_partsVars
  PROVE  [EntryNext]_entryVars
BY DEF PartsNext, partsVars, RingStep, ReceivedStep, EntryStep

LEMMA EntryFirst ==
  ASSUME PartsInit
  PROVE  EntryInv
BY DEF PartsInit, EntryInit, EntryInv, AskedTypeOK, NothingAsked

LEMMA SoundBuilders ==
  ASSUME "ReadMulti" \notin Ops
  PROVE  OnlySound /\ NothingIsZero
BY OpsAssumption DEF OnlySound, SoundOps, NothingIsZero

LEMMA EntryAlways ==
  ASSUME "ReadMulti" \notin Ops
  PROVE  PartsSpec => []EntryInv
<1>1. EntryInv /\ [PartsNext]_partsVars => EntryInv'
  BY SoundBuilders, EntrySide, StepEntry
<1> QED
  BY <1>1, EntryFirst, PTL DEF PartsSpec

\* Whatever the arguments of the builders and the order of the setters on their entries,
\* an entry holds the opcode, every argument given, in the bytes the kernel reads it
\* from and whole, and what the application set: of every builder of opcode.rs but
\* ReadMulti, which writes the buffer group over the flags of the file.
THEOREM EntriesSayWhatWasAsked ==
  ASSUME "ReadMulti" \notin Ops
  PROVE  PartsSpec => []EntrySaysWhatWasAsked
<1>1. EntryInv => EntrySaysWhatWasAsked
  BY SoundBuilders, EntryIsFaithful
<1> QED
  BY <1>1, EntryAlways, PTL

\* The kernel takes a file for an index into the registered files exactly if the program
\* gave a types::Fixed, as long as the program does not set FIXED_FILE by hand (which the
\* documentation hides) and Close is not given the last slot, whose index plus one does
\* not fit its field.
THEOREM TargetsAreAsGiven ==
  ASSUME "ReadMulti" \notin Ops, LastSlotUsed = FALSE, "FIXED_FILE" \notin UserFlags
  PROVE  PartsSpec => []TargetsAsGiven
<1>1. EntryInv => TargetsAsGiven
  BY SoundBuilders, TargetsAreHeld
<1> QED
  BY <1>1, EntryAlways, PTL

=============================================================================
