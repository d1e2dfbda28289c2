-------------------------- MODULE RingIndexTheorems --------------------------
(***************************************************************************)
(* Facts about the index arithmetic of RingIndex and about the contents of *)
(* consecutive positions of a ring, for every size of ring and every width *)
(* of index.                                                               *)
(***************************************************************************)
EXTENDS RingIndex, TLAPS, SequenceTheorems

\* The two numbers are positive and a ring is smaller than the index space.
LEMMA RingSizes ==
  /\ RingEntries \in Nat \ {0}
  /\ IndexMod \in Nat \ {0}
  /\ RingEntries < IndexMod
<1>1. PICK k \in 2..IndexMod : IndexMod = k * RingEntries
  BY RingAssumption
<1>2. k * RingEntries >= 2 * RingEntries
  BY RingAssumption
<1> QED
  BY <1>1, <1>2, RingAssumption

\* Advancing an index by at most a ring keeps it an index.
LEMMA WrappingAddType ==
  ASSUME NEW a \in Index, NEW k \in 0..RingEntries
  PROVE  WrappingAdd(a, k) \in Index
BY RingSizes DEF Index, WrappingAdd

\* A distance is an index.
LEMMA WrappingSubType ==
  ASSUME NEW a \in Index, NEW b \in Index
  PROVE  WrappingSub(a, b) \in Index
BY RingSizes DEF Index, WrappingSub

\* An index plus its distance to another one is that other one.
LEMMA AddDistance ==
  ASSUME NEW a \in Index, NEW b \in Index
  PROVE  WrappingAdd(b, WrappingSub(a, b)) = a
BY RingSizes DEF WrappingAdd, WrappingSub, Index

\* Advancing twice is advancing by the sum, within one turn.
LEMMA AddTwice ==
  ASSUME NEW a \in Index, NEW i \in Nat, NEW j \in Nat, i + j <= RingEntries
  PROVE  WrappingAdd(WrappingAdd(a, i), j) = WrappingAdd(a, i + j)
BY RingSizes DEF WrappingAdd, Index

\* Moving on by n puts the index n further ahead, within one turn.
LEMMA DistanceGrows ==
  ASSUME NEW a \in Index, NEW b \in Index, NEW n \in Nat,
         WrappingSub(a, b) + n <= RingEntries
  PROVE  WrappingSub(WrappingAdd(a, n), b) = WrappingSub(a, b) + n
BY RingSizes DEF WrappingAdd, WrappingSub, Index

\* Masking gives a slot.
LEMMA SlotType ==
  ASSUME NEW a \in Index
  PROVE  Slot(a) \in Slots
BY RingSizes DEF Index, Slot, Slots

\* What \div and % say of a natural number.
LEMMA DivisionWithRemainder ==
  ASSUME NEW n \in Nat \ {0}, NEW a \in Nat
  PROVE  a = n * (a \div n) + (a % n) /\ a \div n \in Int /\ a % n \in 0..(n - 1)
OBVIOUS

\* Two multiples of n that differ by less than n are equal.
LEMMA CloseMultiples ==
  ASSUME NEW n \in Nat \ {0}, NEW p \in Int, NEW q \in Int,
         n * p - n * q < n, n * q - n * p < n
  PROVE  p = q
<1>1. n * (p - q) = n * p - n * q
  OBVIOUS
<1>2. ASSUME p - q >= 1 PROVE n * (p - q) >= n
  BY <1>2
<1>3. ASSUME q - p >= 1 PROVE n * (q - p) >= n
  BY <1>3
<1>4. n * (q - p) = n * q - n * p
  OBVIOUS
<1> QED
  BY <1>1, <1>2, <1>3, <1>4

\* The positions of one turn of the ring lie in different slots, also when
\* the index wraps around between them.
LEMMA SlotsDistinct ==
  ASSUME NEW a \in Index,
         NEW i \in 0..(RingEntries - 1), NEW j \in 0..(RingEntries - 1),
         Slot(WrappingAdd(a, i)) = Slot(WrappingAdd(a, j))
  PROVE  i = j
<1> DEFINE N == RingEntries
           x == WrappingAdd(a, i)
           y == WrappingAdd(a, j)
<1>1. N \in Nat \ {0} /\ x \in Nat /\ y \in Nat
  BY RingSizes, WrappingAddType DEF Index
<1>2. x = N * (x \div N) + (x % N) /\ y = N * (y \div N) + (y % N)
  BY <1>1, DivisionWithRemainder
<1>3. x \div N \in Int /\ y \div N \in Int
  BY <1>1, DivisionWithRemainder
<1>4. PICK k \in Nat : IndexMod = k * N
  BY RingAssumption
<1>5. PICK u \in {0, 1} : x = a + i - N * (k * u)
  <2>1. N * (k * 0) = 0 /\ N * (k * 1) = IndexMod
    BY <1>1, <1>4
  <2> QED
    BY <2>1, RingSizes DEF WrappingAdd, Index
<1>6. PICK v \in {0, 1} : y = a + j - N * (k * v)
  <2>1. N * (k * 0) = 0 /\ N * (k * 1) = IndexMod
    BY <1>1, <1>4
  <2> QED
    BY <2>1, RingSizes DEF WrappingAdd, Index
<1>7. DEFINE p == (x \div N) + k * u
             q == (y \div N) + k * v
<1>8. p \in Int /\ q \in Int
  BY <1>3
<1>9. N * p = N * (x \div N) + N * (k * u) /\ N * q = N * (y \div N) + N * (k * v)
  BY <1>1, <1>3
<1>10. x % N = y % N
  BY DEF Slot
<1>11. N * p - N * q = i - j
  <2>1. N * p \in Int /\ N * q \in Int /\ a \in Int
    BY <1>1, <1>8 DEF Index
  <2>2. {N * (x \div N), N * (y \div N), N * (k * u), N * (k * v)} \subseteq Int
    BY <1>1, <1>3
  <2> HIDE DEF p, q, x, y, N
  <2> QED BY <2>1, <2>2, <1>1, <1>2, <1>5, <1>6, <1>9, <1>10
<1> QED
  <2>1. p = q
    <3> HIDE DEF p, q
    <3> QED BY <1>1, <1>8, <1>11, CloseMultiples
  <2> HIDE DEF p, q
  <2> QED BY <2>1, <1>11, <1>8, <1>1

\* A slot at or after t, less than a turn after h, is none of those from h to t.
LEMMA TailSlotIsFree ==
  ASSUME NEW h \in Index, NEW t \in Index, NEW i \in Nat, NEW j \in Nat,
         i < WrappingSub(t, h), WrappingSub(t, h) + j < RingEntries
  PROVE  Slot(WrappingAdd(t, j)) # Slot(WrappingAdd(h, i))
<1> DEFINE d == WrappingSub(t, h)
<1>1. d \in Nat
  BY WrappingSubType DEF Index
<1>2. WrappingAdd(t, j) = WrappingAdd(h, d + j)
  <2>1. d + j <= RingEntries
    BY <1>1, RingSizes
  <2>2. WrappingAdd(WrappingAdd(h, d), j) = WrappingAdd(h, d + j)
    BY <1>1, <2>1, AddTwice
  <2> QED
    BY <2>2, AddDistance
<1>3. d + j \in 0..(RingEntries - 1) /\ i \in 0..(RingEntries - 1) /\ d + j # i
  BY <1>1, RingSizes
<1> HIDE DEF d
<1> QED
  BY <1>2, <1>3, SlotsDistinct

-----------------------------------------------------------------------------
(* The contents of consecutive positions of a ring as a sequence, for the  *)
(* proofs that the two queues implement their channels.                    *)

\* The contents of n slots from position from on.
Span(mem, from, n) == [i \in 1..n |-> mem[Slot(WrappingAdd(from, i - 1))]]

\* A span is a sequence of its length.
LEMMA SpanSeq ==
  ASSUME NEW Content, NEW mem \in [Slots -> Content], NEW from \in Index,
         NEW n \in Nat, n <= RingEntries
  PROVE  /\ Span(mem, from, n) \in Seq(Content)
         /\ Len(Span(mem, from, n)) = n
         /\ \A i \in 1..n : Span(mem, from, n)[i] = mem[Slot(WrappingAdd(from, i - 1))]
<1>1. ASSUME NEW i \in 1..n
      PROVE  mem[Slot(WrappingAdd(from, i - 1))] \in Content
  <2>1. i - 1 \in 0..RingEntries
    BY RingSizes
  <2>2. Slot(WrappingAdd(from, i - 1)) \in Slots
    BY <2>1, WrappingAddType, SlotType
  <2> QED
    BY <2>2
<1>2. Span(mem, from, n) \in [1..n -> Content]
  BY <1>1 DEF Span
<1>3. Span(mem, from, n) \in Seq(Content)
  BY <1>2
<1>4. Len(Span(mem, from, n)) = n
  BY <1>2, <1>3, LenProperties
<1> QED
  BY <1>3, <1>4 DEF Span

\* The same as one formula, for the steps that cannot take it apart.
IsSpan(s, Content, mem, from, n) ==
  /\ s \in Seq(Content) /\ Len(s) = n
  /\ \A i \in 1..n : s[i] = mem[Slot(WrappingAdd(from, i - 1))]

LEMMA SpanIsSpan ==
  ASSUME NEW Content, NEW mem \in [Slots -> Content], NEW from \in Index,
         NEW n \in Nat, n <= RingEntries
  PROVE  IsSpan(Span(mem, from, n), Content, mem, from, n)
BY SpanSeq DEF IsSpan

\* Two spans after one another are one span.
LEMMA SpanConcat ==
  ASSUME NEW Content, NEW mem \in [Slots -> Content], NEW from \in Index,
         NEW n \in Nat, NEW m \in Nat, n + m <= RingEntries
  PROVE  Span(mem, from, n) \o Span(mem, WrappingAdd(from, n), m)
           = Span(mem, from, n + m)
<1> DEFINE u == Span(mem, from, n)
           v == Span(mem, WrappingAdd(from, n), m)
           w == Span(mem, from, n + m)
<1>1. /\ WrappingAdd(from, n) \in Index
      /\ n <= RingEntries /\ m <= RingEntries /\ n + m \in Nat
  BY WrappingAddType, RingSizes
<1>2. /\ u \in Seq(Content) /\ Len(u) = n
      /\ \A i \in 1..n : u[i] = mem[Slot(WrappingAdd(from, i - 1))]
  <2>1. IsSpan(u, Content, mem, from, n)
    BY <1>1, SpanIsSpan, Zenon
  <2> QED
    BY <2>1 DEF IsSpan
<1>3. /\ v \in Seq(Content) /\ Len(v) = m
      /\ \A i \in 1..m : v[i] = mem[Slot(WrappingAdd(WrappingAdd(from, n), i - 1))]
  <2>1. IsSpan(v, Content, mem, WrappingAdd(from, n), m)
    BY <1>1, SpanIsSpan, Zenon
  <2> QED
    BY <2>1 DEF IsSpan
<1>4. /\ w \in Seq(Content) /\ Len(w) = n + m
      /\ \A i \in 1..(n + m) : w[i] = mem[Slot(WrappingAdd(from, i - 1))]
  <2>1. IsSpan(w, Content, mem, from, n + m)
    BY <1>1, SpanIsSpan, Zenon
  <2> QED
    BY <2>1 DEF IsSpan
<1> HIDE DEF u, v, w
<1>5. /\ u \o v \in Seq(Content) /\ Len(u \o v) = n + m
      /\ \A i \in 1..(n + m) : (u \o v)[i] = IF i <= n THEN u[i] ELSE v[i - n]
  <2>1. /\ u \o v \in Seq(Content)
        /\ Len(u \o v) = Len(u) + Len(v)
        /\ \A i \in 1..(Len(u) + Len(v)) : (u \o v)[i] = IF i <= Len(u) THEN u[i] ELSE v[i - Len(u)]
    BY <1>2, <1>3, ConcatProperties, Zenon
  <2> QED
    BY <1>2, <1>3, <2>1
<1>6. ASSUME NEW i \in 1..(n + m) PROVE (u \o v)[i] = w[i]
  <2>1. CASE i <= n
    <3>1. i \in 1..n
      BY <2>1
    <3>2. (u \o v)[i] = u[i]
      BY <1>5, <2>1
    <3>3. u[i] = mem[Slot(WrappingAdd(from, i - 1))]
      BY <1>2, <3>1
    <3>4. w[i] = mem[Slot(WrappingAdd(from, i - 1))]
      BY <1>4
    <3> QED
      BY <3>2, <3>3, <3>4
  <2>2. CASE i > n
    <3>1. /\ i - n \in 1..m /\ (i - n) - 1 \in Nat /\ n + ((i - n) - 1) = i - 1
          /\ n + ((i - n) - 1) <= RingEntries
      BY <2>2, RingSizes
    <3>2. WrappingAdd(WrappingAdd(from, n), (i - n) - 1) = WrappingAdd(from, i - 1)
      BY <3>1, AddTwice
    <3>3. (u \o v)[i] = v[i - n]
      BY <1>5, <2>2
    <3>4. v[i - n] = mem[Slot(WrappingAdd(WrappingAdd(from, n), (i - n) - 1))]
      BY <1>3, <3>1
    <3>5. w[i] = mem[Slot(WrappingAdd(from, i - 1))]
      BY <1>4
    <3> QED
      BY <3>2, <3>3, <3>4, <3>5
  <2>3. i <= n \/ i > n
    OBVIOUS
  <2> QED
    BY <2>1, <2>2, <2>3, Zenon
<1>7. u \o v = w
  BY <1>4, <1>5, <1>6, SeqEqual
<1> QED
  BY <1>7 DEF u, v, w

\* The first element of a span, and the rest.
LEMMA SpanHeadTail ==
  ASSUME NEW Content, NEW mem \in [Slots -> Content], NEW from \in Index,
         NEW n \in Nat, n <= RingEntries, n > 0
  PROVE  /\ Span(mem, from, n) # <<>>
         /\ Head(Span(mem, from, n)) = mem[Slot(from)]
         /\ Tail(Span(mem, from, n)) = Span(mem, WrappingAdd(from, 1), n - 1)
<1> DEFINE u == Span(mem, from, n)
           v == Span(mem, WrappingAdd(from, 1), n - 1)
<1>1. /\ WrappingAdd(from, 1) \in Index /\ n - 1 \in Nat /\ n - 1 <= RingEntries
      /\ WrappingAdd(from, 0) = from
  BY WrappingAddType, RingSizes DEF WrappingAdd, Index
<1>2. /\ u \in Seq(Content) /\ Len(u) = n
      /\ \A i \in 1..n : u[i] = mem[Slot(WrappingAdd(from, i - 1))]
  <2>1. IsSpan(u, Content, mem, from, n)
    BY SpanIsSpan, Zenon
  <2> QED
    BY <2>1 DEF IsSpan
<1>3. /\ v \in Seq(Content) /\ Len(v) = n - 1
      /\ \A i \in 1..(n - 1) : v[i] = mem[Slot(WrappingAdd(WrappingAdd(from, 1), i - 1))]
  <2>1. IsSpan(v, Content, mem, WrappingAdd(from, 1), n - 1)
    BY <1>1, SpanIsSpan, Zenon
  <2> QED
    BY <2>1 DEF IsSpan
<1> HIDE DEF u, v
<1>4. u[1] = mem[Slot(from)]
  <2>1. 1 \in 1..n /\ 1 - 1 = 0
    OBVIOUS
  <2> QED
    BY <1>1, <1>2, <2>1
<1>5. ASSUME NEW i \in 1..(n - 1) PROVE u[i + 1] = v[i]
  <2>1. /\ i + 1 \in 1..n /\ 1 + (i - 1) = (i + 1) - 1 /\ i - 1 \in Nat
        /\ 1 + (i - 1) <= RingEntries
    BY RingSizes
  <2>2. WrappingAdd(WrappingAdd(from, 1), i - 1) = WrappingAdd(from, (i + 1) - 1)
    BY <2>1, AddTwice
  <2> QED
    BY <1>2, <1>3, <2>1, <2>2
<1>6. u # <<>> /\ Head(u) = u[1]
  BY <1>2
<1>7. /\ Tail(u) \in Seq(Content) /\ Len(Tail(u)) = n - 1
      /\ \A i \in 1..(n - 1) : Tail(u)[i] = u[i + 1]
  BY <1>2, <1>6
<1>8. Tail(u) = v
  BY <1>3, <1>5, <1>7, SeqEqual
<1> QED
  BY <1>4, <1>6, <1>8 DEF u, v

\* Storing at the end of a span, one place short of a full ring, appends to it.
LEMMA SpanAppend ==
  ASSUME NEW Content, NEW mem \in [Slots -> Content], NEW from \in Index,
         NEW n \in Nat, n < RingEntries, NEW entry \in Content
  PROVE  Span([mem EXCEPT ![Slot(WrappingAdd(from, n))] = entry], from, n + 1)
           = Append(Span(mem, from, n), entry)
<1> DEFINE slot == Slot(WrappingAdd(from, n))
           new  == [mem EXCEPT ![slot] = entry]
           u == Span(mem, from, n)
           w == Span(new, from, n + 1)
<1>1. slot \in Slots /\ new \in [Slots -> Content] /\ n + 1 \in Nat /\ n + 1 <= RingEntries
  <2>1. n \in 0..RingEntries
    BY RingSizes
  <2>2. slot \in Slots
    BY <2>1, WrappingAddType, SlotType
  <2> QED
    BY <2>2, RingSizes
<1>2. /\ u \in Seq(Content) /\ Len(u) = n
      /\ \A i \in 1..n : u[i] = mem[Slot(WrappingAdd(from, i - 1))]
  <2>1. n <= RingEntries
    BY RingSizes
  <2>2. IsSpan(u, Content, mem, from, n)
    BY <2>1, SpanIsSpan, Zenon
  <2> QED
    BY <2>2 DEF IsSpan
<1>3. /\ w \in Seq(Content) /\ Len(w) = n + 1
      /\ \A i \in 1..(n + 1) : w[i] = new[Slot(WrappingAdd(from, i - 1))]
  <2> DEFINE m == n + 1
  <2>1. m \in Nat /\ m <= RingEntries
    BY <1>1
  <2> HIDE DEF new, m
  <2>2. IsSpan(Span(new, from, m), Content, new, from, m)
    BY <1>1, <2>1, SpanIsSpan, Zenon
  <2> QED
    BY <2>2 DEF m, IsSpan
<1>4. new[slot] = entry /\ \A s \in Slots : s # slot => new[s] = mem[s]
  BY <1>1
<1> HIDE DEF new, u, w
<1>5. ASSUME NEW i \in 1..n PROVE w[i] = u[i]
  <2>1. /\ i - 1 \in 0..(RingEntries - 1) /\ n \in 0..(RingEntries - 1)
        /\ i - 1 # n /\ i - 1 \in 0..RingEntries /\ i \in 1..(n + 1)
    BY RingSizes
  <2>2. Slot(WrappingAdd(from, i - 1)) # slot /\ Slot(WrappingAdd(from, i - 1)) \in Slots
    BY <2>1, SlotsDistinct, WrappingAddType, SlotType
  <2> QED
    BY <1>2, <1>3, <1>4, <2>1, <2>2
<1>6. w[n + 1] = entry
  <2>1. n + 1 \in 1..(n + 1) /\ (n + 1) - 1 = n
    OBVIOUS
  <2> QED
    BY <1>3, <1>4, <2>1
<1>7. /\ Append(u, entry) \in Seq(Content) /\ Len(Append(u, entry)) = n + 1
      /\ \A i \in 1..n : Append(u, entry)[i] = u[i]
      /\ Append(u, entry)[n + 1] = entry
  BY <1>2, AppendProperties
<1>8. \A i \in 1..(n + 1) : w[i] = Append(u, entry)[i]
  BY <1>5, <1>6, <1>7
<1>9. w = Append(u, entry)
  BY <1>3, <1>7, <1>8, SeqEqual
<1> QED
  BY <1>9 DEF u, w, new

-----------------------------------------------------------------------------
(* A sequence in two parts.                                                *)

\* The head of the first part, and the rest of it before the second.
LEMMA HeadTailConcat ==
  ASSUME NEW S, NEW s \in Seq(S), NEW t \in Seq(S), s # <<>>
  PROVE  /\ s \o t # <<>>
         /\ Head(s \o t) = Head(s)
         /\ Tail(s \o t) = Tail(s) \o t
<1> DEFINE st == s \o t
           u  == Tail(s) \o t
<1>1. /\ st \in Seq(S) /\ Len(st) = Len(s) + Len(t)
      /\ \A i \in 1..(Len(s) + Len(t)) : st[i] = IF i <= Len(s) THEN s[i] ELSE t[i - Len(s)]
  BY ConcatProperties
<1>2. /\ Len(s) \in Nat \ {0} /\ Len(t) \in Nat
      /\ Tail(s) \in Seq(S) /\ Len(Tail(s)) = Len(s) - 1
      /\ \A i \in 1..(Len(s) - 1) : Tail(s)[i] = s[i + 1]
  OBVIOUS
<1>3. /\ u \in Seq(S) /\ Len(u) = Len(s) - 1 + Len(t)
      /\ \A i \in 1..(Len(s) - 1 + Len(t)) :
            u[i] = IF i <= Len(s) - 1 THEN Tail(s)[i] ELSE t[i - (Len(s) - 1)]
  BY <1>2, ConcatProperties
<1> HIDE DEF st, u
<1>4. st # <<>> /\ Head(st) = s[1] /\ Head(s) = s[1]
  BY <1>1, <1>2
<1>5. /\ Tail(st) \in Seq(S) /\ Len(Tail(st)) = Len(s) - 1 + Len(t)
      /\ \A i \in 1..(Len(s) - 1 + Len(t)) : Tail(st)[i] = st[i + 1]
  BY <1>1, <1>2, <1>4
<1>6. ASSUME NEW i \in 1..(Len(s) - 1 + Len(t)) PROVE Tail(st)[i] = u[i]
  <2>1. i + 1 \in 1..(Len(s) + Len(t)) /\ (i + 1) - Len(s) = i - (Len(s) - 1)
    BY <1>2
  <2>2. st[i + 1] = IF i + 1 <= Len(s) THEN s[i + 1] ELSE t[i - (Len(s) - 1)]
    BY <1>1, <2>1
  <2>3. CASE i <= Len(s) - 1
    BY <1>2, <1>3, <1>5, <2>2, <2>3
  <2>4. CASE ~(i <= Len(s) - 1)
    BY <1>2, <1>3, <1>5, <2>2, <2>4
  <2> QED
    BY <2>3, <2>4
<1>7. Tail(st) = u
  BY <1>3, <1>5, <1>6, SeqEqual
<1> QED
  BY <1>4, <1>7 DEF st, u

\* Appending to the second part appends to the whole.
LEMMA AppendConcat ==
  ASSUME NEW S, NEW s \in Seq(S), NEW t \in Seq(S), NEW e \in S
  PROVE  Append(s \o t, e) = s \o Append(t, e)
<1>1. <<e>> \in Seq(S) /\ s \o t \in Seq(S)
  BY ConcatProperties
<1>2. Append(s \o t, e) = (s \o t) \o <<e>> /\ Append(t, e) = t \o <<e>>
  BY <1>1, AppendIsConcat
<1> QED
  BY <1>1, <1>2, ConcatAssociative

\* Moving the head of the second part to the end of the first changes nothing.
LEMMA MoveHead ==
  ASSUME NEW S, NEW s \in Seq(S), NEW t \in Seq(S), t # <<>>
  PROVE  Append(s, Head(t)) \o Tail(t) = s \o t
<1>1. /\ Head(t) \in S /\ <<Head(t)>> \in Seq(S) /\ Tail(t) \in Seq(S)
      /\ Len(t) \in Nat \ {0}
  OBVIOUS
<1>2. t = <<Head(t)>> \o Tail(t)
  <2> DEFINE u == <<Head(t)>> \o Tail(t)
  <2>1. /\ u \in Seq(S) /\ Len(u) = Len(t)
        /\ \A i \in 1..Len(t) : u[i] = IF i <= 1 THEN <<Head(t)>>[i] ELSE Tail(t)[i - 1]
    BY <1>1, ConcatProperties
  <2> HIDE DEF u
  <2>2. \A i \in 1..Len(t) : u[i] = t[i]
    BY <1>1, <2>1
  <2>3. t = u
    BY <2>1, <2>2, SeqEqual
  <2> QED
    BY <2>3 DEF u
<1>3. Append(s, Head(t)) = s \o <<Head(t)>>
  BY <1>1, AppendIsConcat
<1>4. (s \o <<Head(t)>>) \o Tail(t) = s \o (<<Head(t)>> \o Tail(t))
  BY <1>1, ConcatAssociative
<1> QED
  BY <1>2, <1>3, <1>4

=============================================================================
