--------------------------- MODULE SubmitterProofs ---------------------------
(***************************************************************************)
(* Proofs about Submitter, for every set of callers, every ring size and   *)
(* every kind of ring: types, the counts passed to the kernel, and the      *)
(* wake-up protocol between a submitting program and the polling thread.    *)
(***************************************************************************)
EXTENDS Submitter, RingIndexTheorems

\* The shared head, the tail in memory and the publisher's tail follow each
\* other within one turn of the ring.
TailsInOrder ==
  /\ WrappingSub(sqTail, sqHead) + WrappingSub(pushed, sqTail) = WrappingSub(pushed, sqHead)
  /\ WrappingSub(pushed, sqHead) <= RingEntries

\* The head the publisher has loaded is behind the real one by no more than
\* what its count will be too large.
SeenHeadBehind ==
  pc[Publisher] = "tail" =>
    /\ WrappingSub(pushed, sqHead) + WrappingSub(sqHead, seenHead[Publisher])
         = WrappingSub(pushed, seenHead[Publisher])
    /\ WrappingSub(pushed, seenHead[Publisher]) <= RingEntries

\* The flag is up whenever the thread is not polling.
FlagIsUp == thread # "polling" => needWakeup

\* What is owed to the publisher is in memory, and the thread is up.
DueIsSeen ==
  due # NoDue =>
    /\ SqPoll
    /\ WrappingSub(due, sqHead) > 0
    /\ WrappingSub(due, sqHead) <= WrappingSub(sqTail, sqHead)
    /\ thread = "polling"

\* After the fence everything pushed is in memory; a publisher that goes on
\* without a wake-up has seen a polling thread, which can have stopped since
\* only after it had taken everything.
FencedIsSeen ==
  /\ SqPoll /\ pc[Publisher] = "wakeup" => sqTail = pushed
  /\ SqPoll /\ pc[Publisher] = "enter" /\ ~wake[Publisher] =>
       /\ sqTail = pushed
       /\ thread # "polling" => sqHead = sqTail

\* The inductive invariant.
Counts == TailsInOrder /\ SeenHeadBehind /\ LenCoversPublished
WakeUp == FlagIsUp /\ DueIsSeen /\ FencedIsSeen
IInv == TypeOK /\ Counts /\ WakeUp

-----------------------------------------------------------------------------
(* Lemmas about the parts of the actions.                                  *)

\* The smaller of two numbers.
LEMMA MinOfTwo ==
  ASSUME NEW a \in Int, NEW b \in Int
  PROVE  /\ Min({a, b}) \in {a, b}
         /\ Min({a, b}) <= a
         /\ Min({a, b}) <= b
<1>1. \E m \in {a, b} : \A y \in {a, b} : m <= y
  OBVIOUS
<1>2. Min({a, b}) \in {a, b} /\ \A y \in {a, b} : Min({a, b}) <= y
  BY <1>1 DEF Min
<1> QED
  BY <1>2

\* What is flushed fits.
LEMMA FlushFits ==
  ASSUME TypeOK
  PROVE  /\ FlushedInto(ready, backlog) \in Nat
         /\ ready + FlushedInto(ready, backlog) \in 0..CqEntries
         /\ backlog - FlushedInto(ready, backlog) \in Nat
<1> DEFINE m == Min({backlog, CqEntries - ready})
<1>1. ready \in Nat /\ ready <= CqEntries /\ backlog \in Nat /\ CqEntries \in Nat
  BY SubmitterAssumption DEF TypeOK
<1>2. backlog \in Int /\ CqEntries - ready \in Int
  BY <1>1
<1>3. m \in {backlog, CqEntries - ready} /\ m <= backlog /\ m <= CqEntries - ready
  BY <1>2, MinOfTwo
<1> HIDE DEF m
<1>4. m \in Nat /\ ready + m \in 0..CqEntries /\ backlog - m \in Nat
  BY <1>1, <1>3
<1> QED
  BY <1>4 DEF m, FlushedInto

\* The variables that hold the state of calls, by the types TypeOK gives them.
CallTypeOK ==
  /\ pc \in [Callers -> {"idle", "head", "tail", "overflow", "fence",
                         "wakeup", "enter", "wait", "sqwait"}]
  /\ want \in [Callers -> 0..MaxWant]
  /\ seenHead \in [Callers -> Index]
  /\ len \in [Callers -> Index]
  /\ {seenOverflow, wake} \subseteq [Callers -> BOOLEAN]

\* The other half of TypeOK.
RingTypeOK ==
  /\ {sqHead, sqTail, pushed} \subseteq Index
  /\ due \in Index \cup {NoDue}
  /\ thread \in {"polling", "dozing", "asleep"}
  /\ needWakeup \in BOOLEAN
  /\ inFlight \in Nat /\ backlog \in Nat
  /\ ready \in 0..CqEntries

LEMMA TypeHalves == TypeOK <=> CallTypeOK /\ RingTypeOK
BY DEF TypeOK, CallTypeOK, RingTypeOK

\* The end of a call, and a move of its program counter.
LEMMA ReturnType ==
  ASSUME CallTypeOK, NEW c \in Callers, Return(c)
  PROVE  CallTypeOK'
<1>1. 0 \in 0..MaxWant /\ 0 \in Index
  BY SubmitterAssumption, RingSizes DEF Index
<1>2. pc' \in [Callers -> {"idle", "head", "tail", "overflow", "fence",
                           "wakeup", "enter", "wait", "sqwait"}]
  BY DEF CallTypeOK, Return, Goto
<1>3. want' \in [Callers -> 0..MaxWant] /\ len' \in [Callers -> Index]
  BY <1>1 DEF CallTypeOK, Return
<1>4. {seenOverflow', wake'} \subseteq [Callers -> BOOLEAN]
  BY DEF CallTypeOK, Return
<1>5. seenHead' \in [Callers -> Index]
  BY DEF CallTypeOK, Return
<1> QED
  BY <1>2, <1>3, <1>4, <1>5 DEF CallTypeOK

LEMMA GotoType ==
  ASSUME CallTypeOK, NEW c \in Callers,
         NEW label \in {"idle", "head", "tail", "overflow", "fence",
                        "wakeup", "enter", "wait", "sqwait"},
         Goto(c, label), UNCHANGED regs
  PROVE  CallTypeOK'
<1>1. pc' \in [Callers -> {"idle", "head", "tail", "overflow", "fence",
                           "wakeup", "enter", "wait", "sqwait"}]
  BY DEF CallTypeOK, Goto
<1>2. UNCHANGED <<want, seenHead, len, seenOverflow, wake>>
  BY DEF regs
<1> QED
  BY <1>1, <1>2 DEF CallTypeOK

\* Collect keeps the types of what it touches.
LEMMA CollectType ==
  ASSUME TypeOK, NEW c \in Callers, Collect(c)
  PROVE  CallTypeOK' /\ ready' \in 0..CqEntries /\ backlog' \in Nat
<1>1. CASE GetEvents(c)
  <2>1. ready' \in 0..CqEntries /\ backlog' \in Nat
    BY <1>1, FlushFits DEF Collect
  <2> QED
    BY <1>1, <2>1, GotoType, TypeHalves DEF Collect
<1>2. CASE ~GetEvents(c)
  BY <1>2, ReturnType, TypeHalves DEF Collect, TypeOK
<1> QED
  BY <1>1, <1>2

\* Draining the publisher's buffer brings the memory up to its last store.
LEMMA DrainType ==
  ASSUME TypeOK, NEW c \in Callers, DrainStores(c)
  PROVE  sqTail' \in Index
BY DEF TypeOK, DrainStores, TailSeenBy

\* What a submission takes is in sight of the call, and it ends the call or
\* goes on to collect.
LEMMA SubmitTakes ==
  ASSUME IInv, NEW c \in Callers, EnterSubmit(c)
  PROVE  \E n \in 0..RingEntries :
           /\ n <= WrappingSub(TailSeenBy(c), sqHead)
           /\ sqHead' = WrappingAdd(sqHead, n)
           /\ inFlight' = inFlight + n
           /\ Collect(c) \/ (Return(c) /\ UNCHANGED <<ready, backlog>>)
<1> DEFINE d == WrappingSub(TailSeenBy(c), sqHead)
           m == Min({len[c], d})
<1>1. PICK n \in 0..m :
        /\ sqHead' = WrappingAdd(sqHead, n)
        /\ inFlight' = inFlight + n
        /\ IF n = len[c] THEN Collect(c)
           ELSE /\ n > 0 \/ sqHead = TailSeenBy(c)
                /\ UNCHANGED <<ready, backlog>>
                /\ Return(c)
  BY DEF EnterSubmit
<1>2. len[c] \in Int /\ d \in Int /\ d <= RingEntries
  <2>1. /\ {sqHead, sqTail, pushed} \subseteq Index
        /\ TailSeenBy(c) \in {pushed, sqTail}
        /\ len[c] \in Int
    BY DEF IInv, TypeOK, TailSeenBy, Index
  <2>2. /\ WrappingSub(pushed, sqHead) \in 0..RingEntries
        /\ WrappingSub(sqTail, sqHead) \in 0..RingEntries
    BY <2>1, RingSizes DEF IInv, Counts, TailsInOrder, Index, WrappingSub
  <2> QED
    BY <2>1, <2>2, RingSizes
<1> HIDE DEF d
<1>3. m \in Int /\ m <= d
  BY <1>2, MinOfTwo
<1> HIDE DEF m
<1>4. n \in 0..RingEntries /\ n <= d
  BY <1>1, <1>2, <1>3, RingSizes
<1>5. Collect(c) \/ (Return(c) /\ UNCHANGED <<ready, backlog>>)
  BY <1>1
<1> QED
  BY <1>1, <1>4, <1>5 DEF d

-----------------------------------------------------------------------------
(* Types.                                                                  *)

\* The steps of a call keep the types.
LEMMA CallStepType ==
  ASSUME IInv, NEW c \in Callers,
         CallStep(c) \/ EnterFails(c) \/ Interrupted(c) \/ SqueueWait(c)
           \/ \E w \in 0..MaxWant : Call(c, w)
  PROVE  TypeOK'
<1>0. TypeOK /\ CallTypeOK /\ RingTypeOK
  BY TypeHalves DEF IInv
<1>t. CallTypeOK' /\ RingTypeOK' => TypeOK'
  BY DEF TypeOK, CallTypeOK, RingTypeOK
<1>n. {pushed, sqTail, sqHead} \subseteq Index /\ len[c] \in Index
  BY <1>0 DEF RingTypeOK, CallTypeOK
<1>u. UNCHANGED <<sqVars, threadVars, cqVars>> => RingTypeOK'
  BY <1>0 DEF RingTypeOK, sqVars, threadVars, cqVars
<1>1. ASSUME NEW w \in 0..MaxWant, Call(c, w) PROVE TypeOK'
  <2>1. CallTypeOK'
    BY <1>0, <1>1 DEF Call, Goto, CallTypeOK
  <2> QED
    BY <1>1, <1>t, <1>u, <2>1 DEF Call
<1>2. CASE LoadHead(c)
  <2>1. CallTypeOK'
    BY <1>0, <1>2, <1>n DEF LoadHead, Goto, CallTypeOK
  <2> QED
    BY <1>2, <1>t, <1>u, <2>1 DEF LoadHead
<1>3. CASE LoadTail(c)
  <2>1. SqLen(c) \in Index /\ 0 \in Index
    <3>1. TailSeenBy(c) \in Index /\ seenHead[c] \in Index
      BY <1>0, <1>n DEF TailSeenBy, CallTypeOK
    <3>2. 0 \in Index
      BY RingSizes DEF Index
    <3> QED
      BY <3>1, <3>2, WrappingSubType DEF SqLen
  <2>2. CallTypeOK'
    BY <1>0, <1>3, <2>1 DEF LoadTail, Goto, CallTypeOK
  <2> QED
    BY <1>3, <1>t, <1>u, <2>2 DEF LoadTail
<1>4. CASE LoadOverflow(c)
  <2>1. CallTypeOK'
    BY <1>0, <1>4 DEF LoadOverflow, Goto, CallTypeOK
  <2> QED
    BY <1>4, <1>t, <1>u, <2>1 DEF LoadOverflow
<1>5. CASE Fence(c)
  <2>1. CallTypeOK'
    BY <1>0, <1>5, GotoType DEF Fence
  <2>2. RingTypeOK'
    BY <1>0, <1>5, DrainType DEF Fence, RingTypeOK, threadVars, cqVars
  <2> QED
    BY <1>t, <2>1, <2>2
<1>h. HandOver(c) /\ pushed' = pushed => due' \in Index \cup {NoDue}
  BY <1>0, <1>n DEF HandOver, RingTypeOK
<1>6. CASE CheckWakeup(c)
  <2>1. CASE needWakeup /\ wake' = [wake EXCEPT ![c] = TRUE] /\ Goto(c, "enter")
             /\ UNCHANGED <<due, want, seenHead, len, seenOverflow>>
    <3>1. CallTypeOK'
      BY <1>0, <2>1 DEF Goto, CallTypeOK
    <3> QED
      BY <1>0, <1>6, <1>t, <2>1, <3>1 DEF CheckWakeup, RingTypeOK, threadVars, cqVars
  <2>2. CASE HandOver(c) /\ Return(c)
    <3>1. CallTypeOK'
      BY <1>0, <2>2, ReturnType
    <3> QED
      BY <1>0, <1>6, <1>h, <1>t, <2>2, <3>1
      DEF CheckWakeup, RingTypeOK, threadVars, cqVars
  <2>3. CASE Goto(c, "enter") /\ UNCHANGED <<due, regs>>
    <3>1. CallTypeOK'
      BY <1>0, <2>3, GotoType
    <3> QED
      BY <1>0, <1>6, <1>t, <2>3, <3>1 DEF CheckWakeup, RingTypeOK, threadVars, cqVars
  <2> QED
    BY <1>6, <2>1, <2>2, <2>3 DEF CheckWakeup
<1>7. CASE EnterSqPoll(c)
  <2>1. CallTypeOK' /\ ready' \in 0..CqEntries /\ backlog' \in Nat
    BY <1>0, <1>7, CollectType DEF EnterSqPoll
  <2>2. sqTail' \in Index
    BY <1>0, <1>7, DrainType DEF EnterSqPoll
  <2>3. thread' \in {"polling", "dozing", "asleep"} /\ needWakeup' \in BOOLEAN
    BY <1>0, <1>7 DEF EnterSqPoll, RingTypeOK, threadVars
  <2> QED
    BY <1>0, <1>7, <1>h, <1>t, <2>1, <2>2, <2>3 DEF EnterSqPoll, RingTypeOK
<1>8. CASE EnterSubmit(c)
  <2>1. sqTail' \in Index
    BY <1>0, <1>8, DrainType DEF EnterSubmit
  <2>2. PICK n \in 0..RingEntries :
          /\ sqHead' = WrappingAdd(sqHead, n)
          /\ inFlight' = inFlight + n
          /\ Collect(c) \/ (Return(c) /\ UNCHANGED <<ready, backlog>>)
    BY <1>8, SubmitTakes
  <2>4. sqHead' \in Index /\ inFlight' \in Nat
    BY <1>0, <1>n, <2>2, WrappingAddType, RingSizes DEF RingTypeOK
  <2>5. CallTypeOK' /\ ready' \in 0..CqEntries /\ backlog' \in Nat
    <3>1. CASE Collect(c)
      BY <1>0, <3>1, CollectType
    <3>2. CASE Return(c) /\ UNCHANGED <<ready, backlog>>
      BY <1>0, <3>2, ReturnType DEF RingTypeOK
    <3> QED
      BY <2>2, <3>1, <3>2
  <2> QED
    BY <1>0, <1>8, <1>t, <2>1, <2>4, <2>5 DEF EnterSubmit, RingTypeOK, threadVars
<1>9. CASE FlushWaiting(c)
  <2>1. ready' \in 0..CqEntries /\ backlog' \in Nat
    BY <1>0, <1>9, FlushFits DEF FlushWaiting
  <2> QED
    BY <1>0, <1>9, <2>1 DEF FlushWaiting, TypeOK, sqVars, threadVars, regs
<1>10. CASE WaitDone(c)
  BY <1>0, <1>10, <1>t, <1>u, ReturnType DEF WaitDone
<1>11. CASE SqueueWaitDone(c)
  BY <1>0, <1>11, <1>t, <1>u, ReturnType DEF SqueueWaitDone
<1>12. CASE EnterFails(c)
  <2>1. CallTypeOK' /\ sqTail' \in Index
    BY <1>0, <1>12, ReturnType, DrainType DEF EnterFails
  <2> QED
    BY <1>0, <1>12, <1>t, <2>1 DEF EnterFails, RingTypeOK, threadVars, cqVars
<1>13. CASE Interrupted(c)
  BY <1>0, <1>13, <1>t, <1>u, ReturnType DEF Interrupted
<1>14. CASE SqueueWait(c)
  <2>1. CallTypeOK' /\ sqTail' \in Index
    BY <1>0, <1>14, GotoType, DrainType DEF SqueueWait
  <2> QED
    BY <1>0, <1>14, <1>t, <2>1 DEF SqueueWait, RingTypeOK, threadVars, cqVars
<1> QED
  BY <1>1, <1>2, <1>3, <1>4, <1>5, <1>6, <1>7, <1>8, <1>9, <1>10, <1>11, <1>12,
     <1>13, <1>14 DEF CallStep

\* Every step keeps the types.
LEMMA TypeStep ==
  ASSUME IInv, [Next]_vars
  PROVE  TypeOK'
<1>0. TypeOK
  BY DEF IInv
<1>n. {pushed, sqTail, sqHead} \subseteq Index
  BY <1>0 DEF TypeOK
<1>a. ASSUME NEW a \in Index PROVE WrappingAdd(a, 1) \in Index
  BY WrappingAddType, RingSizes
<1>1. CASE Publish
  BY <1>0, <1>1, <1>a DEF Publish, TypeOK, threadVars, cqVars, regs
<1>2. CASE StoreArrives
  <2>1. WrappingSub(pushed, sqTail) <= RingEntries
    BY <1>n, RingSizes DEF IInv, Counts, TailsInOrder, Index, WrappingSub
  <2>2. PICK n \in 1..WrappingSub(pushed, sqTail) : sqTail' = WrappingAdd(sqTail, n)
    BY <1>2 DEF StoreArrives
  <2>3. WrappingSub(pushed, sqTail) \in Int
    BY <1>n, WrappingSubType DEF Index
  <2>4. n \in 0..RingEntries
    BY <2>1, <2>3, RingSizes
  <2> QED
    BY <1>0, <1>2, <1>n, <2>2, <2>4, WrappingAddType
    DEF StoreArrives, TypeOK, threadVars, cqVars, regs
<1>3. CASE Reap
  <2>1. ready' \in 0..CqEntries
    BY <1>0, <1>3, SubmitterAssumption DEF Reap, TypeOK
  <2> QED
    BY <1>0, <1>3, <2>1 DEF Reap, TypeOK, sqVars, threadVars, regs
<1>4. CASE ThreadTakes
  BY <1>0, <1>4, <1>a DEF ThreadTakes, TypeOK, threadVars, regs
<1>5. CASE ThreadRechecks
  BY <1>0, <1>5 DEF ThreadRechecks, TypeOK, sqVars, cqVars, regs
<1>6. CASE ThreadDozes
  BY <1>0, <1>6 DEF ThreadDozes, TypeOK, sqVars, cqVars, regs
<1>7. CASE Complete
  <2>1. inFlight' \in Nat /\ ready' \in 0..CqEntries /\ backlog' \in Nat
    BY <1>0, <1>7, SubmitterAssumption DEF Complete, TypeOK
  <2> QED
    BY <1>0, <1>7, <2>1 DEF Complete, TypeOK, sqVars, threadVars, regs
<1>8. CASE UNCHANGED vars
  BY <1>0, <1>8 DEF TypeOK, vars, sqVars, threadVars, cqVars, regs
<1> QED
  BY <1>1, <1>2, <1>3, <1>4, <1>5, <1>6, <1>7, <1>8, CallStepType DEF Next, Thread

-----------------------------------------------------------------------------
(* The indices and the count of the publisher's call.                      *)

\* How the tail in memory may move: towards the publisher's last store.
Arrives ==
  /\ sqTail' \in Index
  /\ WrappingSub(sqTail', sqTail) <= WrappingSub(pushed, sqTail)

\* A call after its count is known.
Counted == {"overflow", "fence", "wakeup", "enter"}

LEMMA DrainArrives ==
  ASSUME TypeOK, NEW c \in Callers, DrainStores(c)
  PROVE  Arrives
<1>1. sqTail \in Index /\ pushed \in Index /\ sqTail' \in {sqTail, pushed}
  BY DEF TypeOK, DrainStores, TailSeenBy
<1>2. WrappingSub(sqTail, sqTail) = 0 /\ WrappingSub(pushed, sqTail) \in Nat
  BY <1>1, RingSizes DEF WrappingSub, Index
<1>3. CASE sqTail' = pushed
  BY <1>1, <1>2, <1>3 DEF Arrives
<1>4. CASE sqTail' = sqTail
  BY <1>1, <1>2, <1>4 DEF Arrives
<1> QED
  BY <1>1, <1>3, <1>4

\* The kernel takes n entries, perhaps none, out of those in sight, while the
\* publisher's call does not reach another stage of its count.
LEMMA CountsAdvance ==
  ASSUME IInv, pushed' = pushed, Arrives,
         NEW n \in Nat, n <= WrappingSub(sqTail', sqHead),
         sqHead' = WrappingAdd(sqHead, n),
         pc'[Publisher] = "tail" =>
           pc[Publisher] = "tail" /\ seenHead'[Publisher] = seenHead[Publisher],
         pc'[Publisher] \in Counted =>
           pc[Publisher] \in Counted /\ len'[Publisher] = len[Publisher]
  PROVE  Counts'
<1>1. /\ {sqHead, sqTail, pushed, sqTail'} \subseteq Index
      /\ seenHead[Publisher] \in Index /\ len[Publisher] \in Index
  BY SubmitterAssumption DEF IInv, TypeOK, Arrives
<1>2. TailsInOrder'
  BY <1>1, RingSizes
  DEF IInv, Counts, TailsInOrder, Arrives, WrappingSub, WrappingAdd, Index
<1>3. /\ n <= WrappingSub(pushed, sqHead)
      /\ WrappingSub(pushed, sqHead) \in Nat /\ WrappingSub(pushed, sqHead) <= RingEntries
      /\ WrappingSub(pushed, sqHead') = WrappingSub(pushed, sqHead) - n
  BY <1>1, RingSizes
  DEF IInv, Counts, TailsInOrder, Arrives, WrappingSub, WrappingAdd, Index
<1>4. SeenHeadBehind'
  <2> SUFFICES ASSUME pc'[Publisher] = "tail"
               PROVE  /\ WrappingSub(pushed', sqHead')
                           + WrappingSub(sqHead', seenHead'[Publisher])
                           = WrappingSub(pushed', seenHead'[Publisher])
                      /\ WrappingSub(pushed', seenHead'[Publisher]) <= RingEntries
    BY DEF SeenHeadBehind
  <2> DEFINE h == seenHead[Publisher]
  <2>1. /\ WrappingSub(pushed, sqHead) + WrappingSub(sqHead, h) = WrappingSub(pushed, h)
        /\ WrappingSub(pushed, h) <= RingEntries
        /\ seenHead'[Publisher] = h
    BY DEF IInv, Counts, SeenHeadBehind
  <2>2. h \in Index
    BY <1>1
  <2> HIDE DEF h
  <2>3. WrappingSub(pushed, sqHead') + WrappingSub(sqHead', h) = WrappingSub(pushed, h)
    BY <1>1, <1>3, <2>1, <2>2, RingSizes DEF WrappingSub, WrappingAdd, Index
  <2> QED
    BY <2>1, <2>3
<1>5. LenCoversPublished'
  <2> SUFFICES ASSUME pc'[Publisher] \in Counted
               PROVE  /\ WrappingSub(pushed', sqHead') <= len'[Publisher]
                      /\ len'[Publisher] <= RingEntries
    BY DEF LenCoversPublished, Counted
  <2>1. /\ WrappingSub(pushed, sqHead) <= len[Publisher]
        /\ len[Publisher] <= RingEntries /\ len'[Publisher] = len[Publisher]
    BY DEF IInv, Counts, LenCoversPublished, Counted
  <2>2. len[Publisher] \in Int
    BY <1>1 DEF Index
  <2> QED
    BY <1>3, <2>1, <2>2
<1> QED
  BY <1>2, <1>4, <1>5 DEF Counts

\* The same when the kernel takes nothing.
LEMMA CountsKept ==
  ASSUME IInv, UNCHANGED <<sqHead, pushed>>, Arrives,
         pc'[Publisher] = "tail" =>
           pc[Publisher] = "tail" /\ seenHead'[Publisher] = seenHead[Publisher],
         pc'[Publisher] \in Counted =>
           pc[Publisher] \in Counted /\ len'[Publisher] = len[Publisher]
  PROVE  Counts'
<1>1. {sqHead, sqTail'} \subseteq Index
  BY DEF IInv, TypeOK, Arrives
<1>2. WrappingAdd(sqHead, 0) = sqHead /\ 0 <= WrappingSub(sqTail', sqHead)
  BY <1>1, RingSizes DEF WrappingAdd, WrappingSub, Index
<1> QED
  BY <1>2, CountsAdvance

\* Every step keeps the indices in order and the publisher's count right.
LEMMA CountStep ==
  ASSUME IInv, [Next]_vars
  PROVE  Counts'
<1>0. /\ TypeOK /\ Publisher \in Callers /\ CallTypeOK
      /\ {sqHead, sqTail, pushed} \subseteq Index
  BY SubmitterAssumption, TypeHalves DEF IInv, TypeOK
<1>s. sqTail' = sqTail => Arrives
  BY <1>0, RingSizes DEF Arrives, WrappingSub, Index
<1>1. CASE Publish
  <2>1. pc'[Publisher] = "idle"
    BY <1>1 DEF Publish
  <2>2. TailsInOrder'
    BY <1>0, <1>1, RingSizes
    DEF Publish, IInv, Counts, TailsInOrder, WrappingSub, WrappingAdd, Index
  <2> QED
    BY <2>1, <2>2 DEF Counts, SeenHeadBehind, LenCoversPublished
<1>2. CASE StoreArrives
  <2>1. Arrives
    <3>1. PICK n \in 1..WrappingSub(pushed, sqTail) : sqTail' = WrappingAdd(sqTail, n)
      BY <1>2 DEF StoreArrives
    <3>2. WrappingSub(pushed, sqTail) \in 0..RingEntries
      BY <1>0, RingSizes DEF IInv, Counts, TailsInOrder, WrappingSub, Index
    <3> QED
      BY <1>0, <3>1, <3>2, RingSizes DEF Arrives, WrappingSub, WrappingAdd, Index
  <2> QED
    BY <1>2, <2>1, CountsKept DEF StoreArrives, regs
<1>3. CASE Reap \/ ThreadDozes \/ ThreadRechecks \/ Complete \/ UNCHANGED vars
  <2>1. UNCHANGED <<sqHead, sqTail, pushed, pc, seenHead, len>>
    BY <1>3 DEF Reap, ThreadDozes, ThreadRechecks, Complete, vars, sqVars, regs
  <2> QED
    BY <1>s, <2>1, CountsKept
<1>4. CASE ThreadTakes
  <2>1. 1 <= WrappingSub(sqTail', sqHead)
    BY <1>0, <1>4, RingSizes DEF ThreadTakes, WrappingSub, Index
  <2>2. UNCHANGED <<sqTail, pushed, pc, seenHead, len>>
    BY <1>4 DEF ThreadTakes, regs
  <2> QED
    BY <1>4, <1>s, <2>1, <2>2, CountsAdvance DEF ThreadTakes
<1>5. ASSUME NEW c \in Callers, LoadHead(c) PROVE Counts'
  <2>0. UNCHANGED <<sqHead, sqTail, pushed, len>>
    BY <1>5 DEF LoadHead, sqVars
  <2>1. CASE c = Publisher
    <3>1. pc'[Publisher] = "tail" /\ seenHead'[Publisher] = sqHead
      BY <1>0, <1>5, <2>1 DEF LoadHead, Goto, CallTypeOK
    <3>2. WrappingSub(sqHead, sqHead) = 0 /\ WrappingSub(pushed, sqHead) \in Int
      BY <1>0, RingSizes DEF WrappingSub, Index
    <3> QED
      BY <2>0, <3>1, <3>2 DEF IInv, Counts, TailsInOrder, SeenHeadBehind, LenCoversPublished
  <2>2. CASE c # Publisher
    <3>1. pc'[Publisher] = pc[Publisher] /\ seenHead'[Publisher] = seenHead[Publisher]
      BY <1>0, <1>5, <2>2 DEF LoadHead, Goto, CallTypeOK
    <3> QED
      BY <1>s, <2>0, <3>1, CountsKept
  <2> QED
    BY <2>1, <2>2
<1>6. ASSUME NEW c \in Callers, LoadTail(c) PROVE Counts'
  <2>0. UNCHANGED <<sqHead, sqTail, pushed>>
    BY <1>6 DEF LoadTail, sqVars
  <2>1. CASE c = Publisher
    <3>1. /\ pc'[Publisher] = "overflow" /\ pc[Publisher] = "tail"
          /\ len'[Publisher] = WrappingSub(pushed, seenHead[Publisher])
      BY <1>0, <1>6, <2>1 DEF LoadTail, Goto, CallTypeOK, SqLen, TailSeenBy
    <3>2. /\ WrappingSub(sqHead, seenHead[Publisher]) \in Nat
          /\ WrappingSub(pushed, sqHead) \in Nat
      BY <1>0, WrappingSubType DEF CallTypeOK, Index
    <3>3. /\ WrappingSub(pushed, sqHead) <= len'[Publisher]
          /\ len'[Publisher] <= RingEntries
      BY <3>1, <3>2 DEF IInv, Counts, SeenHeadBehind
    <3> QED
      BY <2>0, <3>1, <3>3 DEF IInv, Counts, TailsInOrder, SeenHeadBehind, LenCoversPublished
  <2>2. CASE c # Publisher
    <3>1. /\ pc'[Publisher] = pc[Publisher] /\ seenHead'[Publisher] = seenHead[Publisher]
          /\ len'[Publisher] = len[Publisher]
      BY <1>0, <1>6, <2>2 DEF LoadTail, Goto, CallTypeOK
    <3> QED
      BY <1>s, <2>0, <3>1, CountsKept
  <2> QED
    BY <2>1, <2>2
<1>7. ASSUME NEW c \in Callers, EnterSubmit(c) PROVE Counts'
  <2>1. PICK n \in 0..RingEntries :
          /\ n <= WrappingSub(TailSeenBy(c), sqHead)
          /\ sqHead' = WrappingAdd(sqHead, n)
          /\ Collect(c) \/ Return(c)
    BY <1>7, SubmitTakes
  <2>2. sqTail' = TailSeenBy(c) /\ pushed' = pushed /\ n \in Nat
    BY <1>7, RingSizes DEF EnterSubmit, DrainStores
  <2>4. (Goto(c, "wait") /\ UNCHANGED regs) \/ Return(c)
    <3>1. Collect(c) => (Goto(c, "wait") /\ UNCHANGED regs) \/ Return(c)
      BY Zenon DEF Collect
    <3> QED
      BY <2>1, <3>1, Zenon
  <2>5. \/ pc'[Publisher] \in {"idle", "wait"}
        \/ pc'[Publisher] = pc[Publisher] /\ seenHead'[Publisher] = seenHead[Publisher]
             /\ len'[Publisher] = len[Publisher]
    BY <1>0, <2>4 DEF Goto, Return, CallTypeOK, regs
  <2> QED
    BY <1>0, <1>7, <2>1, <2>2, <2>5, DrainArrives, CountsAdvance DEF EnterSubmit, Counted
<1>8. ASSUME NEW c \in Callers,
             \/ LoadOverflow(c) \/ Fence(c) \/ CheckWakeup(c) \/ EnterSqPoll(c)
             \/ FlushWaiting(c) \/ WaitDone(c) \/ SqueueWaitDone(c) \/ EnterFails(c)
             \/ Interrupted(c) \/ SqueueWait(c) \/ \E w \in 0..MaxWant : Call(c, w)
      PROVE  Counts'
  <2>1. UNCHANGED <<sqHead, pushed>>
    BY <1>8 DEF LoadOverflow, Fence, CheckWakeup, EnterSqPoll, FlushWaiting, WaitDone,
                SqueueWaitDone, EnterFails, Interrupted, SqueueWait, Call, sqVars
  <2>2. Arrives
    <3>1. sqTail' = sqTail \/ DrainStores(c)
      BY <1>8 DEF LoadOverflow, Fence, CheckWakeup, EnterSqPoll, FlushWaiting, WaitDone,
                  SqueueWaitDone, EnterFails, Interrupted, SqueueWait, Call, sqVars
    <3> QED
      BY <1>0, <1>s, <3>1, DrainArrives
  <2>3. \/ Return(c)
        \/ /\ UNCHANGED <<seenHead, len>>
           /\ pc[c] \in Counted /\ \E l \in Counted : Goto(c, l)
        \/ /\ UNCHANGED <<seenHead, len>>
           /\ Goto(c, "wait") \/ Goto(c, "sqwait") \/ Goto(c, "head") \/ UNCHANGED pc
    BY <1>8 DEF LoadOverflow, Fence, CheckWakeup, EnterSqPoll, FlushWaiting, WaitDone,
                SqueueWaitDone, EnterFails, Interrupted, SqueueWait, Call, regs, Collect,
                Counted
  <2>4. /\ pc'[Publisher] = "tail" =>
             pc[Publisher] = "tail" /\ seenHead'[Publisher] = seenHead[Publisher]
        /\ pc'[Publisher] \in Counted =>
             pc[Publisher] \in Counted /\ len'[Publisher] = len[Publisher]
    BY <1>0, <2>3 DEF Return, Goto, CallTypeOK, Counted
  <2> QED
    BY <2>1, <2>2, <2>4, CountsKept
<1> QED
  BY <1>1, <1>2, <1>3, <1>4, <1>5, <1>6, <1>7, <1>8 DEF Next, CallStep, Thread

-----------------------------------------------------------------------------
(* The wake-up protocol.                                                   *)

\* Arriving stores bring the memory no further than the publisher's tail, and
\* what was in sight of the thread stays in sight.
LEMMA StillInSight ==
  ASSUME IInv, Arrives
  PROVE  /\ WrappingSub(sqTail, sqHead) <= WrappingSub(sqTail', sqHead)
         /\ sqTail = pushed => sqTail' = pushed
         /\ {WrappingSub(sqTail, sqHead), WrappingSub(sqTail', sqHead)} \subseteq Nat
<1>1. {sqHead, sqTail, pushed, sqTail'} \subseteq Index
  BY DEF IInv, TypeOK, Arrives
<1> QED
  BY <1>1, RingSizes DEF IInv, Counts, TailsInOrder, Arrives, WrappingSub, Index

\* A step in which only stores arrive and the publisher, unless it becomes
\* idle, stays on its side of the fence.
LEMMA WakeUpKept ==
  ASSUME IInv, Arrives, UNCHANGED <<sqHead, due, thread, needWakeup>>,
         pc'[Publisher] \in {"wakeup", "enter"} => pushed' = pushed,
         SqPoll /\ pc'[Publisher] = "wakeup" =>
           pc[Publisher] = "wakeup" \/ sqTail' = pushed,
         SqPoll /\ pc'[Publisher] = "enter" /\ ~wake'[Publisher] =>
           pc[Publisher] = "enter" /\ ~wake[Publisher]
  PROVE  WakeUp'
<1>1. FlagIsUp'
  BY DEF IInv, WakeUp, FlagIsUp
<1>2. DueIsSeen'
  <2> SUFFICES ASSUME due # NoDue
               PROVE  /\ SqPoll
                      /\ WrappingSub(due, sqHead) > 0
                      /\ WrappingSub(due, sqHead) <= WrappingSub(sqTail', sqHead)
                      /\ thread = "polling"
    BY DEF DueIsSeen, WrappingSub
  <2>1. due \in Index /\ sqHead \in Index
    BY DEF IInv, TypeOK
  <2>2. WrappingSub(due, sqHead) \in Nat
    BY <2>1, WrappingSubType DEF Index
  <2> QED
    BY <2>2, StillInSight DEF IInv, WakeUp, DueIsSeen
<1>3. FencedIsSeen'
  BY StillInSight DEF IInv, WakeUp, FencedIsSeen
<1> QED
  BY <1>1, <1>2, <1>3 DEF WakeUp

\* A hand-over while everything pushed is in memory and the thread, unless it
\* has nothing left to take, is polling.
LEMMA HandOverSeen ==
  ASSUME IInv, NEW c \in Callers, HandOver(c), SqPoll,
         UNCHANGED <<sqHead, pushed>>, Arrives,
         c = Publisher => sqTail' = pushed,
         (c = Publisher /\ pushed # sqHead) \/ (c # Publisher /\ thread = "polling")
           => thread' = "polling"
  PROVE  DueIsSeen'
<1>0. {sqHead, sqTail, pushed, sqTail'} \subseteq Index /\ due \in Index \cup {NoDue}
  BY DEF IInv, TypeOK, Arrives
<1>1. CASE c = Publisher
  <2>1. CASE pushed = sqHead
    BY <1>1, <2>1 DEF HandOver, DueIsSeen
  <2>2. CASE pushed # sqHead
    <3>1. due' = pushed /\ thread' = "polling" /\ sqTail' = pushed
      BY <1>1, <2>2 DEF HandOver
    <3>2. WrappingSub(pushed, sqHead) > 0
          /\ WrappingSub(pushed, sqHead) <= WrappingSub(pushed, sqHead)
      BY <1>0, <2>2, RingSizes DEF WrappingSub, Index
    <3>3. WrappingSub(due, sqHead)' = WrappingSub(pushed, sqHead)
          /\ WrappingSub(sqTail, sqHead)' = WrappingSub(pushed, sqHead)
      BY <3>1 DEF WrappingSub
    <3> QED
      BY <3>1, <3>2, <3>3 DEF DueIsSeen
  <2> QED
    BY <2>1, <2>2
<1>2. CASE c # Publisher
  <2>1. due' = due
    BY <1>2 DEF HandOver
  <2> SUFFICES ASSUME due # NoDue PROVE DueIsSeen'
    BY <2>1 DEF DueIsSeen
  <2>2. /\ thread' = "polling"
        /\ WrappingSub(due, sqHead) > 0
        /\ WrappingSub(due, sqHead) <= WrappingSub(sqTail, sqHead)
    BY <1>2 DEF IInv, WakeUp, DueIsSeen
  <2>3. WrappingSub(due, sqHead) \in Nat
    BY <1>0, WrappingSubType DEF Index
  <2>4. WrappingSub(due, sqHead) <= WrappingSub(sqTail', sqHead)
    BY <2>2, <2>3, StillInSight
  <2>5. WrappingSub(due, sqHead)' = WrappingSub(due, sqHead)
        /\ WrappingSub(sqTail, sqHead)' = WrappingSub(sqTail', sqHead)
    BY <2>1 DEF WrappingSub
  <2> QED
    BY <2>2, <2>4, <2>5 DEF DueIsSeen
<1> QED
  BY <1>1, <1>2

\* Every step keeps the protocol's invariant.
LEMMA WakeUpStep ==
  ASSUME IInv, [Next]_vars
  PROVE  WakeUp'
<1>0. /\ TypeOK /\ Publisher \in Callers /\ CallTypeOK
      /\ {sqHead, sqTail, pushed} \subseteq Index
      /\ FlagIsUp /\ DueIsSeen /\ FencedIsSeen
  BY SubmitterAssumption, TypeHalves DEF IInv, TypeOK, WakeUp
<1>s. sqTail' = sqTail => Arrives
  BY <1>0, RingSizes DEF Arrives, WrappingSub, Index
<1>1. CASE Publish
  BY <1>0, <1>1, <1>s, WakeUpKept DEF Publish, threadVars, regs
<1>2. CASE StoreArrives
  <2>1. Arrives
    <3>1. PICK n \in 1..WrappingSub(pushed, sqTail) : sqTail' = WrappingAdd(sqTail, n)
      BY <1>2 DEF StoreArrives
    <3>2. WrappingSub(pushed, sqTail) \in 0..RingEntries
      BY <1>0, RingSizes DEF IInv, Counts, TailsInOrder, WrappingSub, Index
    <3> QED
      BY <1>0, <3>1, <3>2, RingSizes DEF Arrives, WrappingSub, WrappingAdd, Index
  <2> QED
    BY <1>2, <2>1, WakeUpKept DEF StoreArrives, threadVars, regs
<1>3. CASE Reap \/ Complete \/ UNCHANGED vars
  <2>1. UNCHANGED <<sqVars, threadVars, pc, wake>>
    BY <1>3 DEF Reap, Complete, vars, regs
  <2> QED
    BY <1>s, <2>1, WakeUpKept DEF sqVars, threadVars
<1>4. CASE ThreadTakes
  <2>1. /\ thread = "polling" /\ sqHead # sqTail /\ SqPoll
        /\ sqHead' = WrappingAdd(sqHead, 1)
        /\ due' = IF due = sqHead' THEN NoDue ELSE due
        /\ UNCHANGED <<sqTail, pushed, thread, needWakeup, pc, wake>>
    BY <1>4 DEF ThreadTakes, threadVars, regs
  <2>2. DueIsSeen'
    <3> SUFFICES ASSUME due' # NoDue PROVE DueIsSeen'
      BY DEF DueIsSeen
    <3>1. due' = due /\ due # NoDue /\ due # sqHead' /\ due \in Index
      BY <1>0, <2>1 DEF TypeOK
    <3>2. /\ WrappingSub(due, sqHead) > 0
          /\ WrappingSub(due, sqHead) <= WrappingSub(sqTail, sqHead)
      BY <1>0, <3>1 DEF DueIsSeen
    <3>3. /\ WrappingSub(due, sqHead') > 0
          /\ WrappingSub(due, sqHead') <= WrappingSub(sqTail, sqHead')
      BY <1>0, <2>1, <3>1, <3>2, RingSizes DEF WrappingSub, WrappingAdd, Index
    <3>4. WrappingSub(due, sqHead)' = WrappingSub(due, sqHead')
          /\ WrappingSub(sqTail, sqHead)' = WrappingSub(sqTail, sqHead')
      BY <2>1, <3>1 DEF WrappingSub
    <3> QED
      BY <2>1, <3>3, <3>4 DEF DueIsSeen
  <2>3. FlagIsUp' /\ FencedIsSeen'
    BY <1>0, <2>1 DEF FlagIsUp, FencedIsSeen
  <2> QED
    BY <2>2, <2>3 DEF WakeUp
<1>5. CASE ThreadDozes
  <2>1. /\ sqHead = sqTail /\ needWakeup'
        /\ UNCHANGED <<sqHead, sqTail, pushed, due, pc, wake>>
    BY <1>5 DEF ThreadDozes, sqVars, regs
  <2>2. due = NoDue
    <3>1. WrappingSub(sqTail, sqHead) = 0
      BY <1>0, <2>1 DEF WrappingSub, Index
    <3>2. due # NoDue => due \in Index
      BY <1>0 DEF TypeOK
    <3>3. due # NoDue => WrappingSub(due, sqHead) \in Nat
      BY <1>0, <3>2, WrappingSubType DEF Index
    <3> QED
      BY <1>0, <3>1, <3>3 DEF DueIsSeen
  <2> QED
    BY <1>0, <2>1, <2>2 DEF WakeUp, FlagIsUp, DueIsSeen, FencedIsSeen
<1>6. CASE ThreadRechecks
  <2>1. /\ thread = "dozing"
        /\ UNCHANGED <<sqHead, sqTail, pushed, due, pc, wake>>
        /\ (thread' = "asleep" /\ needWakeup' = needWakeup) \/ thread' = "polling"
    BY <1>6 DEF ThreadRechecks, sqVars, regs
  <2>2. due = NoDue /\ needWakeup
    BY <1>0, <2>1 DEF DueIsSeen, FlagIsUp
  <2> QED
    BY <1>0, <2>1, <2>2 DEF WakeUp, FlagIsUp, DueIsSeen, FencedIsSeen
<1>7. ASSUME NEW c \in Callers, Fence(c) PROVE WakeUp'
  <2>1. /\ UNCHANGED <<sqHead, pushed, due, thread, needWakeup, wake>>
        /\ DrainStores(c) /\ pc[c] = "fence" /\ pc' = [pc EXCEPT ![c] = "wakeup"]
    BY <1>7 DEF Fence, Goto, threadVars, regs
  <2>2. c = Publisher => sqTail' = pushed
    BY <2>1 DEF DrainStores, TailSeenBy
  <2>3. Arrives
    BY <1>0, <2>1, DrainArrives
  <2>4. pc'[Publisher] = IF c = Publisher THEN "wakeup" ELSE pc[Publisher]
    BY <1>0, <2>1 DEF CallTypeOK
  <2> QED
    BY <2>1, <2>2, <2>3, <2>4, WakeUpKept
<1>8. ASSUME NEW c \in Callers, CheckWakeup(c) PROVE WakeUp'
  <2>0. UNCHANGED <<sqHead, sqTail, pushed, thread, needWakeup>> /\ pc[c] = "wakeup"
    BY <1>8 DEF CheckWakeup, threadVars
  <2>1. CASE /\ needWakeup /\ wake' = [wake EXCEPT ![c] = TRUE] /\ Goto(c, "enter")
             /\ UNCHANGED due
    <3>1. IF c = Publisher THEN pc'[Publisher] = "enter" /\ wake'[Publisher]
          ELSE pc'[Publisher] = pc[Publisher] /\ wake'[Publisher] = wake[Publisher]
      BY <1>0, <2>1 DEF Goto, CallTypeOK
    <3> QED
      BY <1>s, <2>0, <2>1, <3>1, WakeUpKept
  <2>2. CASE ~needWakeup /\ HandOver(c) /\ Return(c)
    <3>1. CASE ~SqPoll
      <4>1. due' = due
        BY <2>2, <3>1 DEF HandOver
      <4> QED
        BY <1>s, <2>0, <3>1, <4>1, WakeUpKept
    <3>2. CASE SqPoll
      <4>1. thread = "polling"
        BY <1>0, <2>2 DEF FlagIsUp
      <4>2. c = Publisher => sqTail = pushed
        BY <1>0, <2>0, <3>2 DEF FencedIsSeen
      <4>3. DueIsSeen'
        BY <1>s, <2>0, <2>2, <3>2, <4>1, <4>2, HandOverSeen
      <4>4. \/ pc'[Publisher] = "idle"
            \/ pc'[Publisher] = pc[Publisher] /\ wake'[Publisher] = wake[Publisher]
        BY <1>0, <2>2 DEF Return, Goto, CallTypeOK
      <4> QED
        BY <1>0, <2>0, <4>3, <4>4 DEF WakeUp, FlagIsUp, FencedIsSeen
    <3> QED
      BY <3>1, <3>2
  <2>3. CASE ~needWakeup /\ Goto(c, "enter") /\ UNCHANGED <<due, wake>>
    <3>1. thread = "polling"
      BY <1>0, <2>3 DEF FlagIsUp
    <3>2. pc'[Publisher] = IF c = Publisher THEN "enter" ELSE pc[Publisher]
      BY <1>0, <2>3 DEF Goto, CallTypeOK
    <3>3. DueIsSeen'
      BY <1>0, <2>0, <2>3 DEF DueIsSeen, WrappingSub
    <3> QED
      BY <1>0, <2>0, <2>3, <3>1, <3>2, <3>3 DEF WakeUp, FlagIsUp, FencedIsSeen
  <2> QED
    BY <1>8, <2>1, <2>2, <2>3 DEF CheckWakeup, regs
<1>9. ASSUME NEW c \in Callers, EnterSqPoll(c) PROVE WakeUp'
  <2>0. /\ UNCHANGED <<sqHead, pushed>> /\ SqPoll /\ pc[c] = "enter"
        /\ DrainStores(c) /\ HandOver(c) /\ Collect(c)
        /\ IF wake[c] THEN thread' = "polling" /\ needWakeup' = FALSE
                      ELSE thread' = thread /\ needWakeup' = needWakeup
    BY <1>9 DEF EnterSqPoll, threadVars
  <2>1. Arrives
    BY <1>0, <2>0, DrainArrives
  <2>2. FlagIsUp'
    BY <1>0, <2>0 DEF FlagIsUp
  <2>3. c = Publisher => sqTail' = pushed
    BY <2>0 DEF DrainStores, TailSeenBy
  <2>4. c = Publisher /\ pushed # sqHead => thread' = "polling"
    BY <1>0, <2>0 DEF FencedIsSeen
  <2>5. thread = "polling" => thread' = "polling"
    BY <2>0
  <2>6. DueIsSeen'
    BY <2>0, <2>1, <2>3, <2>4, <2>5, HandOverSeen
  <2>7. (Goto(c, "wait") /\ UNCHANGED regs) \/ Return(c)
    <3>1. Collect(c) => (Goto(c, "wait") /\ UNCHANGED regs) \/ Return(c)
      BY Zenon DEF Collect
    <3> QED
      BY <2>0, <3>1
  <2>8. \/ pc'[Publisher] \in {"idle", "wait"}
        \/ pc'[Publisher] = pc[Publisher] /\ wake'[Publisher] = wake[Publisher]
    BY <1>0, <2>7 DEF Return, Goto, CallTypeOK, regs
  <2>9. FencedIsSeen'
    BY <1>0, <2>0, <2>1, <2>5, <2>8, StillInSight DEF FencedIsSeen
  <2> QED
    BY <2>2, <2>6, <2>9 DEF WakeUp
<1>10. ASSUME NEW c \in Callers, EnterSubmit(c) PROVE WakeUp'
  <2>1. ~SqPoll /\ UNCHANGED <<due, thread, needWakeup>>
    BY <1>10 DEF EnterSubmit, threadVars
  <2>2. due = NoDue
    BY <1>0, <2>1 DEF DueIsSeen
  <2> QED
    BY <1>0, <2>1, <2>2 DEF WakeUp, FlagIsUp, DueIsSeen, FencedIsSeen
<1>11. ASSUME NEW c \in Callers,
              \/ LoadHead(c) \/ LoadTail(c) \/ LoadOverflow(c)
              \/ FlushWaiting(c) \/ WaitDone(c) \/ SqueueWaitDone(c) \/ EnterFails(c)
              \/ Interrupted(c) \/ SqueueWait(c) \/ \E w \in 0..MaxWant : Call(c, w)
       PROVE  WakeUp'
  <2>1. UNCHANGED <<sqHead, pushed, due, thread, needWakeup>>
    BY <1>11 DEF LoadHead, LoadTail, LoadOverflow, FlushWaiting, WaitDone,
                 SqueueWaitDone, EnterFails, Interrupted, SqueueWait, Call, sqVars, threadVars
  <2>2. Arrives
    <3>1. sqTail' = sqTail \/ DrainStores(c)
      BY <1>11 DEF LoadHead, LoadTail, LoadOverflow, FlushWaiting, WaitDone,
                   SqueueWaitDone, EnterFails, Interrupted, SqueueWait, Call, sqVars
    <3> QED
      BY <1>0, <1>s, <3>1, DrainArrives
  <2>3. \/ Return(c)
        \/ /\ UNCHANGED wake
           /\ \/ Goto(c, "head") \/ Goto(c, "tail") \/ Goto(c, "overflow")
              \/ Goto(c, IF SqPoll THEN "fence" ELSE "enter")
              \/ Goto(c, "sqwait") \/ UNCHANGED pc
    BY <1>11
    DEF LoadHead, LoadTail, LoadOverflow, FlushWaiting, WaitDone,
        SqueueWaitDone, EnterFails, Interrupted, SqueueWait, Call, regs
  <2>4. SqPoll => \/ pc'[Publisher] \notin {"wakeup", "enter"}
                  \/ pc'[Publisher] = pc[Publisher] /\ wake'[Publisher] = wake[Publisher]
    BY <1>0, <2>3 DEF Return, Goto, CallTypeOK
  <2> QED
    BY <2>1, <2>2, <2>4, WakeUpKept
<1> QED
  BY <1>1, <1>2, <1>3, <1>4, <1>5, <1>6, <1>7, <1>8, <1>9, <1>10, <1>11
  DEF Next, CallStep, Thread

-----------------------------------------------------------------------------
(* The theorems.                                                           *)

LEMMA InitIInv == Init => IInv
<1> SUFFICES ASSUME Init PROVE IInv
  OBVIOUS
<1>1. TypeOK
  <2>1. 0 \in Index /\ 0 \in 0..CqEntries /\ 0 \in 0..MaxWant
    BY RingSizes, SubmitterAssumption DEF Index
  <2>2. CallTypeOK
    BY <2>1 DEF Init, CallTypeOK
  <2>3. RingTypeOK
    BY <2>1 DEF Init, RingTypeOK
  <2> QED
    BY <2>2, <2>3, TypeHalves
<1>2. Counts
  BY RingSizes, SubmitterAssumption
  DEF Init, Counts, TailsInOrder, SeenHeadBehind, LenCoversPublished, WrappingSub
<1>3. WakeUp
  BY SubmitterAssumption DEF Init, WakeUp, FlagIsUp, DueIsSeen, FencedIsSeen
<1> QED
  BY <1>1, <1>2, <1>3 DEF IInv

\* The strengthened invariant holds in every reachable state.
THEOREM Invariance == Spec => []IInv
<1>1. Init => IInv
  BY InitIInv
<1>2. IInv /\ [Next]_vars => IInv'
  BY TypeStep, CountStep, WakeUpStep DEF IInv
<1> QED
  BY <1>1, <1>2, PTL DEF Spec

\* Type correctness.
THEOREM TypeCorrect == Spec => []TypeOK
<1>1. IInv => TypeOK
  BY DEF IInv
<1> QED
  BY <1>1, Invariance, PTL

\* The count the publisher passes as to_submit covers what it has published
\* and fits the ring.
THEOREM LenCorrect == Spec => []LenCoversPublished
<1>1. IInv => LenCoversPublished
  BY DEF IInv, Counts
<1> QED
  BY <1>1, Invariance, PTL

\* The polling thread never sleeps on a submission whose call has returned.
THEOREM WakeUpCorrect == Spec => []NoLostWakeup
<1>1. IInv => NoLostWakeup
  BY DEF IInv, WakeUp, DueIsSeen, NoLostWakeup
<1> QED
  BY <1>1, Invariance, PTL

\* A submission the kernel accepts in full leaves nothing published behind.
LEMMA FullSubmitStep ==
  ASSUME IInv, [Next]_vars, ~SqPoll,
         pc[Publisher] = "enter", pc'[Publisher] # "enter",
         WrappingSub(sqHead', sqHead) = len[Publisher]
  PROVE  sqHead' = pushed
<1>0. /\ Publisher \in Callers /\ CallTypeOK
      /\ {sqHead, sqTail, pushed} \subseteq Index
      /\ WrappingSub(pushed, sqHead) <= len[Publisher]
      /\ len[Publisher] \in Nat /\ WrappingSub(pushed, sqHead) \in Nat
      /\ WrappingSub(pushed, sqHead) <= RingEntries
  <2>1. TypeOK /\ Counts
    BY DEF IInv
  <2>2. Publisher \in Callers
    BY SubmitterAssumption
  <2>3. CallTypeOK /\ {sqHead, sqTail, pushed} \subseteq Index
    BY <2>1, TypeHalves DEF TypeOK
  <2>4. WrappingSub(pushed, sqHead) <= len[Publisher]
    BY <2>1 DEF Counts, LenCoversPublished
  <2>5. WrappingSub(pushed, sqHead) <= RingEntries
    BY <2>1 DEF Counts, TailsInOrder
  <2>6. len[Publisher] \in Nat
    BY <2>2, <2>3, RingSizes DEF CallTypeOK, Index
  <2>7. WrappingSub(pushed, sqHead) \in Nat
    BY <2>3, RingSizes DEF WrappingSub, Index
  <2> QED
    BY <2>2, <2>3, <2>4, <2>5, <2>6, <2>7
<1>1. EnterSubmit(Publisher) \/ sqHead' = sqHead
  <2>1. ASSUME NEW c \in Callers, EnterSubmit(c) PROVE c = Publisher
    <3>1. (Goto(c, "wait") /\ UNCHANGED regs) \/ Return(c)
      <4>1. Collect(c) => (Goto(c, "wait") /\ UNCHANGED regs) \/ Return(c)
        BY Zenon DEF Collect
      <4> QED
        BY <2>1, <4>1, SubmitTakes
    <3> QED
      BY <1>0, <3>1 DEF Return, Goto, CallTypeOK
  <2>2. ~ThreadTakes
    BY DEF ThreadTakes
  <2> QED
    BY <2>1, <2>2
    DEF Next, CallStep, Thread, Publish, StoreArrives, Reap, Call, SqueueWait, LoadHead,
        LoadTail, LoadOverflow, Fence, CheckWakeup, EnterSqPoll, FlushWaiting, WaitDone,
        SqueueWaitDone, EnterFails, Interrupted, ThreadDozes, ThreadRechecks, Complete,
        vars, sqVars
<1>2. CASE EnterSubmit(Publisher)
  <2>1. PICK n \in 0..RingEntries : /\ n <= WrappingSub(TailSeenBy(Publisher), sqHead)
                                    /\ sqHead' = WrappingAdd(sqHead, n)
    BY <1>0, <1>2, SubmitTakes
  <2>2. n <= WrappingSub(pushed, sqHead) /\ n \in Nat
    BY <2>1, RingSizes DEF TailSeenBy
  <2>3. n = WrappingSub(pushed, sqHead)
    <3>1. WrappingSub(sqHead', sqHead) = n
      BY <1>0, <2>1, <2>2, RingSizes DEF WrappingSub, WrappingAdd, Index
    <3> QED
      BY <1>0, <2>2, <3>1
  <2> QED
    BY <1>0, <2>1, <2>3, AddDistance
<1>3. CASE sqHead' = sqHead
  <2>1. WrappingSub(sqHead, sqHead) = 0
    BY <1>0 DEF WrappingSub, Index
  <2>2. WrappingSub(pushed, sqHead) = 0
    BY <1>0, <1>3, <2>1
  <2> QED
    BY <1>0, <1>3, <2>2, RingSizes DEF WrappingSub, Index
<1> QED
  BY <1>1, <1>2, <1>3

\* The same of every step of every behaviour.
THEOREM FullSubmitCorrect == Spec => FullSubmitLeavesNothing
<1>1. IInv /\ [Next]_vars =>
        [(~SqPoll /\ pc[Publisher] = "enter" /\ pc'[Publisher] # "enter"
           /\ WrappingSub(sqHead', sqHead) = len[Publisher])
          => sqHead' = pushed]_vars
  BY FullSubmitStep
<1> QED
  BY <1>1, Invariance, PTL DEF Spec, FullSubmitLeavesNothing

=============================================================================
