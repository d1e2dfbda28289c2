---------------------------- MODULE RingsProofs ----------------------------
(***************************************************************************)
(* Proofs about what belongs to a ring as a whole.  RingFd, for every set of *)
(* rings, tasks, Submitters and slots: the index a Submitter remembers and  *)
(* the kernel's table never fall apart.  RingLifecycle, for every size of   *)
(* the queues and every kind of ring: setup, use and teardown.              *)
(***************************************************************************)
EXTENDS MCRings, TLAPS

\* An open descriptor names one ring.
DescriptorsDiffer ==
  \A r1, r2 \in Rings : fd[r1] = fd[r2] /\ fd[r1] # Closed => r1 = r2

\* A Submitter has an open ring and a task while it lives, and nothing else.
LivesAreWhole ==
  \A s \in Submitters :
    IF Live(s) THEN task[s] \in Tasks /\ fd[owner[s]] # Closed
               ELSE task[s] = NoTask /\ enterRingFd[s] = NotRegistered

\* The table holds what a Submitter remembers.
RememberedIsHeld ==
  \A s \in Submitters :
    Registered(s) => /\ Live(s)
                     /\ enterRingFd[s] \in Slots
                     /\ table[task[s]][enterRingFd[s]] = owner[s]

IInv == /\ TypeOK
        /\ DescriptorsDiffer
        /\ LivesAreWhole
        /\ RememberedIsHeld
        /\ SlotsAreAccountedFor

-----------------------------------------------------------------------------
(* The range of an index tells whether there is a registration. *)
LEMMA RegisteredIsSlot ==
  ASSUME TypeOK, NEW s \in Submitters
  PROVE  /\ Registered(s) <=> enterRingFd[s] \in Slots
         /\ ~Registered(s) <=> enterRingFd[s] = NotRegistered
<1>1. enterRingFd[s] \in Slots \/ enterRingFd[s] = NotRegistered
  BY DEF TypeOK
<1>2. CASE enterRingFd[s] \in Slots
  <2>1. enterRingFd[s] \in Nat
    BY <1>2, RingFdAssumption
  <2> QED BY <1>2, <2>1 DEF Registered, NotRegistered
<1>3. CASE enterRingFd[s] = NotRegistered
  <2>1. \A i \in Slots : i \in Nat
    BY RingFdAssumption
  <2>2. NotRegistered \notin Slots /\ ~(NotRegistered >= 0)
    BY <2>1 DEF NotRegistered
  <2> QED BY <1>3, <2>2 DEF Registered
<1> QED BY <1>1, <1>2, <1>3

(* The invariant is enough for calls to reach their ring. *)
LEMMA InvariantReaches == IInv => CallsReachOwnRing
<1> SUFFICES ASSUME IInv, NEW s \in Submitters, Live(s)
             PROVE  /\ Reaches(task[s], EnterTarget(s), owner[s])
                    /\ Reaches(task[s], RegisterTarget(s), owner[s])
  BY DEF CallsReachOwnRing
<1> USE RingFdAssumption DEF Reaches, Target
<1>1. CASE Registered(s)
  <2>1. /\ enterRingFd[s] \in Slots
        /\ table[task[s]][enterRingFd[s]] = owner[s]
    BY <1>1 DEF IInv, RememberedIsHeld
  <2>2. Reaches(task[s], EnterTarget(s), owner[s])
    BY <1>1, <2>1 DEF EnterTarget
  <2>3. Reaches(task[s], RegisterTarget(s), owner[s])
    BY <1>1, <2>1 DEF RegisterTarget
  <2> QED BY <2>2, <2>3
<1>2. CASE ~Registered(s)
  BY <1>2 DEF EnterTarget, RegisterTarget
<1> QED BY <1>1, <1>2

LEMMA InitEstablishes == Init => IInv
<1> SUFFICES ASSUME Init PROVE IInv
  OBVIOUS
<1> USE RingFdAssumption
<1>1. TypeOK
  BY DEF Init, TypeOK
<1>2. DescriptorsDiffer
  BY DEF Init, DescriptorsDiffer
<1>3. LivesAreWhole
  BY DEF Init, LivesAreWhole, Live
<1>4. RememberedIsHeld
  BY DEF Init, RememberedIsHeld, Registered, NotRegistered
<1>5. SlotsAreAccountedFor
  BY DEF Init, SlotsAreAccountedFor, Registered, NotRegistered
<1> QED BY <1>1, <1>2, <1>3, <1>4, <1>5 DEF IInv

-----------------------------------------------------------------------------
(* One lemma per step. *)

LEMMA OpenRingPreserves ==
  ASSUME IInv, NEW r \in Rings, OpenRing(r)
  PROVE  IInv'
<1> USE RingFdAssumption
<1>1. PICK n \in Fds : /\ \A q \in Rings : fd[q] # n
                       /\ fd' = [fd EXCEPT ![r] = n]
  BY DEF OpenRing
<1>2. n # Closed
  BY DEF Closed
<1>3. /\ \A q \in Rings \ {r} : fd'[q] = fd[q]
      /\ fd'[r] = n
  BY <1>1 DEF IInv, TypeOK
<1>4. TypeOK'
  BY <1>1 DEF IInv, TypeOK, OpenRing
<1>5. DescriptorsDiffer'
  BY <1>1, <1>3 DEF IInv, DescriptorsDiffer
<1>6. LivesAreWhole'
  <2> SUFFICES ASSUME NEW s \in Submitters
               PROVE IF Live(s)' THEN task'[s] \in Tasks /\ fd'[owner'[s]] # Closed
                     ELSE task'[s] = NoTask /\ enterRingFd'[s] = NotRegistered
    BY DEF LivesAreWhole
  <2>1. /\ owner' = owner /\ task' = task /\ enterRingFd' = enterRingFd
        /\ owner[s] \in Rings \cup {NoRing}
    BY DEF OpenRing, IInv, TypeOK
  <2> QED BY <1>2, <1>3, <2>1 DEF IInv, LivesAreWhole, Live
<1>7. RememberedIsHeld'
  BY DEF IInv, RememberedIsHeld, OpenRing, Registered, Live
<1>8. SlotsAreAccountedFor'
  BY DEF IInv, SlotsAreAccountedFor, OpenRing, Registered
<1> QED BY <1>4, <1>5, <1>6, <1>7, <1>8 DEF IInv

LEMMA DropRingPreserves ==
  ASSUME IInv, NEW r \in Rings, DropRing(r)
  PROVE  IInv'
<1> USE RingFdAssumption
<1>1. /\ \A q \in Rings \ {r} : fd'[q] = fd[q]
      /\ fd'[r] = Closed
  BY DEF IInv, TypeOK, DropRing
<1>2. TypeOK'
  BY DEF IInv, TypeOK, DropRing
<1>3. DescriptorsDiffer'
  BY <1>1 DEF IInv, DescriptorsDiffer
<1>4. LivesAreWhole'
  <2> SUFFICES ASSUME NEW s \in Submitters
               PROVE IF Live(s)' THEN task'[s] \in Tasks /\ fd'[owner'[s]] # Closed
                     ELSE task'[s] = NoTask /\ enterRingFd'[s] = NotRegistered
    BY DEF LivesAreWhole
  <2>1. /\ owner' = owner /\ task' = task /\ enterRingFd' = enterRingFd
        /\ owner[s] \in Rings \cup {NoRing} /\ owner[s] # r
    BY DEF DropRing, IInv, TypeOK
  <2> QED BY <1>1, <2>1 DEF IInv, LivesAreWhole, Live
<1>5. RememberedIsHeld'
  BY DEF IInv, RememberedIsHeld, DropRing, Registered, Live
<1>6. SlotsAreAccountedFor'
  BY DEF IInv, SlotsAreAccountedFor, DropRing, Registered
<1> QED BY <1>2, <1>3, <1>4, <1>5, <1>6 DEF IInv

LEMMA NewSubmitterPreserves ==
  ASSUME IInv, NEW s \in Submitters, NEW r \in Rings, NEW t \in Tasks,
         NewSubmitter(s, r, t)
  PROVE  IInv'
<1> USE RingFdAssumption
<1>1. /\ \A q \in Submitters \ {s} : /\ owner'[q] = owner[q] /\ task'[q] = task[q]
                                     /\ enterRingFd'[q] = enterRingFd[q]
      /\ owner'[s] = r /\ task'[s] = t /\ enterRingFd'[s] = NotRegistered
      /\ fd' = fd /\ table' = table /\ abandoned' = abandoned
  BY DEF IInv, TypeOK, NewSubmitter
<1>2. TypeOK'
  BY DEF IInv, TypeOK, NewSubmitter
<1>3. DescriptorsDiffer'
  BY <1>1 DEF IInv, DescriptorsDiffer
<1>4. LivesAreWhole'
  BY <1>1 DEF IInv, LivesAreWhole, Live, NewSubmitter
<1>5. RememberedIsHeld'
  BY <1>1 DEF IInv, RememberedIsHeld, Registered, Live, NotRegistered
<1>6. enterRingFd[s] = NotRegistered
  BY DEF IInv, LivesAreWhole, NewSubmitter
<1>7. SlotsAreAccountedFor'
  <2>1. ASSUME NEW u \in Tasks, NEW i \in Slots
        PROVE  table'[u][i] # NoRing <=>
                 \/ <<u, i>> \in abandoned'
                 \/ \E q \in Submitters : task'[q] = u /\ enterRingFd'[q] = i
    <3>1. i # NotRegistered
      BY DEF NotRegistered
    <3> QED BY <1>1, <1>6, <3>1 DEF IInv, SlotsAreAccountedFor
  <2>2. ASSUME NEW q \in Submitters
        PROVE  <<task'[q], enterRingFd'[q]>> \notin abandoned'
    BY <1>1 DEF IInv, SlotsAreAccountedFor, TypeOK, NotRegistered
  <2>3. ASSUME NEW q1 \in Submitters, NEW q2 \in Submitters, Registered(q1)',
               <<task'[q1], enterRingFd'[q1]>> = <<task'[q2], enterRingFd'[q2]>>
        PROVE  q1 = q2
    BY <1>1, <2>3 DEF IInv, SlotsAreAccountedFor, Registered, NotRegistered
  <2> QED BY <2>1, <2>2, <2>3 DEF SlotsAreAccountedFor
<1> QED BY <1>2, <1>3, <1>4, <1>5, <1>7 DEF IInv

LEMMA RegisterPreserves ==
  ASSUME IInv, NEW s \in Submitters, RegisterRingFd(s)
  PROVE  IInv'
<1> USE RingFdAssumption
<1>1. PICK i \in Slots \ Held(task[s]), r \in Rings :
        /\ Reaches(task[s], Target(fd[owner[s]], FALSE), r)
        /\ table' = [table EXCEPT ![task[s]][i] = r]
        /\ enterRingFd' = [enterRingFd EXCEPT ![s] = i]
  BY DEF RegisterRingFd
<1>2. /\ owner[s] \in Rings /\ task[s] \in Tasks /\ fd[owner[s]] # Closed
      /\ enterRingFd[s] = NotRegistered
  <2>1. Live(s) /\ ~Registered(s)
    BY DEF RegisterRingFd
  <2>2. owner[s] \in Rings /\ task[s] \in Tasks /\ fd[owner[s]] # Closed
    BY <2>1 DEF IInv, TypeOK, LivesAreWhole, Live
  <2> QED BY <2>1, <2>2, RegisteredIsSlot DEF IInv
<1>3. r = owner[s]
  BY <1>1, <1>2 DEF Reaches, Target, IInv, DescriptorsDiffer
<1>4. table[task[s]][i] = NoRing
  BY <1>1 DEF Held
<1>5. /\ fd' = fd /\ owner' = owner /\ task' = task /\ abandoned' = abandoned
      /\ \A q \in Submitters \ {s} : enterRingFd'[q] = enterRingFd[q]
      /\ enterRingFd'[s] = i
  BY <1>1 DEF RegisterRingFd, IInv, TypeOK
<1>6. \A u \in Tasks, j \in Slots :
        table'[u][j] = IF u = task[s] /\ j = i THEN owner[s] ELSE table[u][j]
  BY <1>1, <1>2, <1>3 DEF IInv, TypeOK
<1>7. TypeOK'
  <2>1. table' \in [Tasks -> [Slots -> Rings \cup {NoRing}]]
    BY <1>1, <1>2 DEF IInv, TypeOK
  <2>2. enterRingFd' \in [Submitters -> Slots \cup {NotRegistered}]
    BY <1>1 DEF IInv, TypeOK
  <2> QED BY <2>1, <2>2 DEF IInv, TypeOK, RegisterRingFd
<1>8. DescriptorsDiffer'
  BY <1>5 DEF IInv, DescriptorsDiffer
<1>9. LivesAreWhole'
  BY <1>2, <1>5 DEF IInv, LivesAreWhole, Live
<1>10. ASSUME NEW q \in Submitters \ {s}, Registered(q)
       PROVE  /\ task[q] \in Tasks /\ enterRingFd[q] \in Slots
              /\ table[task[q]][enterRingFd[q]] # NoRing
              /\ ~(task[q] = task[s] /\ enterRingFd[q] = i)
  BY <1>4, <1>10 DEF IInv, RememberedIsHeld, LivesAreWhole, Live
<1>11. RememberedIsHeld'
  <2> SUFFICES ASSUME NEW q \in Submitters, Registered(q)'
               PROVE  /\ Live(q)' /\ enterRingFd'[q] \in Slots
                      /\ table'[task'[q]][enterRingFd'[q]] = owner'[q]
    BY DEF RememberedIsHeld
  <2>1. CASE q = s
    BY <1>1, <1>2, <1>5, <1>6, <2>1 DEF Live
  <2>2. CASE q # s
    <3>1. Registered(q) /\ enterRingFd'[q] = enterRingFd[q]
      BY <1>5, <2>2 DEF Registered
    <3>2. /\ task[q] \in Tasks /\ enterRingFd[q] \in Slots
          /\ ~(task[q] = task[s] /\ enterRingFd[q] = i)
      BY <1>10, <2>2, <3>1
    <3>3. Live(q) /\ table[task[q]][enterRingFd[q]] = owner[q]
      BY <3>1 DEF IInv, RememberedIsHeld
    <3>4. table'[task[q]][enterRingFd[q]] = table[task[q]][enterRingFd[q]]
      BY <1>6, <3>2
    <3>5. enterRingFd'[q] = enterRingFd[q] /\ owner'[q] = owner[q] /\ task'[q] = task[q]
      BY <1>5, <3>1
    <3> QED BY <3>2, <3>3, <3>4, <3>5 DEF Live
  <2> QED BY <2>1, <2>2
<1>12. SlotsAreAccountedFor'
  <2>1. ASSUME NEW u \in Tasks, NEW j \in Slots
        PROVE  table'[u][j] # NoRing <=>
                 \/ <<u, j>> \in abandoned'
                 \/ \E q \in Submitters : task'[q] = u /\ enterRingFd'[q] = j
    <3>1. j # NotRegistered
      BY DEF NotRegistered
    <3>2. CASE u = task[s] /\ j = i
      BY <1>2, <1>5, <1>6, <3>2
    <3>3. CASE ~(u = task[s] /\ j = i)
      BY <1>2, <1>5, <1>6, <3>1, <3>3 DEF IInv, SlotsAreAccountedFor
    <3> QED BY <3>2, <3>3
  <2>2. ASSUME NEW q \in Submitters
        PROVE  <<task'[q], enterRingFd'[q]>> \notin abandoned'
    BY <1>1, <1>2, <1>4, <1>5 DEF IInv, SlotsAreAccountedFor
  <2>3. ASSUME NEW q1 \in Submitters, NEW q2 \in Submitters, Registered(q1)',
               <<task'[q1], enterRingFd'[q1]>> = <<task'[q2], enterRingFd'[q2]>>
        PROVE  q1 = q2
    <3>1. CASE q1 # s /\ q2 # s
      BY <1>5, <2>3, <3>1 DEF IInv, SlotsAreAccountedFor, Registered
    <3>2. ASSUME NEW q \in Submitters \ {s}, task[q] = task[s], enterRingFd[q] = i
          PROVE FALSE
      <4>1. Registered(q)
        BY <1>1, <3>2 DEF Registered
      <4> QED BY <1>10, <3>2, <4>1
    <3> QED BY <1>5, <2>3, <3>1, <3>2
  <2> QED BY <2>1, <2>2, <2>3 DEF SlotsAreAccountedFor
<1> QED BY <1>7, <1>8, <1>9, <1>11, <1>12 DEF IInv

LEMMA UnregisterPreserves ==
  ASSUME IInv, NEW s \in Submitters, UnregisterRingFd(s)
  PROVE  IInv'
<1> USE RingFdAssumption
<1>1. /\ owner[s] \in Rings /\ task[s] \in Tasks
      /\ enterRingFd[s] \in Slots
      /\ fd[owner[s]] # Closed
  BY DEF IInv, TypeOK, LivesAreWhole, Live, UnregisterRingFd, RememberedIsHeld
<1> DEFINE i == enterRingFd[s]
<1>2. /\ fd' = fd /\ owner' = owner /\ task' = task /\ abandoned' = abandoned
      /\ \A q \in Submitters \ {s} : enterRingFd'[q] = enterRingFd[q]
      /\ enterRingFd'[s] = NotRegistered
  BY DEF UnregisterRingFd, IInv, TypeOK
<1>3. \A u \in Tasks, j \in Slots :
        table'[u][j] = IF u = task[s] /\ j = i THEN NoRing ELSE table[u][j]
  BY <1>1 DEF IInv, TypeOK, UnregisterRingFd
<1>4. TypeOK'
  <2>1. table' \in [Tasks -> [Slots -> Rings \cup {NoRing}]]
    BY <1>1 DEF IInv, TypeOK, UnregisterRingFd
  <2>2. enterRingFd' \in [Submitters -> Slots \cup {NotRegistered}]
    BY DEF IInv, TypeOK, UnregisterRingFd
  <2> QED BY <2>1, <2>2 DEF IInv, TypeOK, UnregisterRingFd
<1>5. DescriptorsDiffer'
  BY <1>2 DEF IInv, DescriptorsDiffer
<1>6. LivesAreWhole'
  BY <1>1, <1>2 DEF IInv, LivesAreWhole, Live
<1>7. ASSUME NEW q \in Submitters \ {s}
      PROVE  ~(task[q] = task[s] /\ enterRingFd[q] = i)
  BY DEF IInv, SlotsAreAccountedFor, UnregisterRingFd
<1>8. RememberedIsHeld'
  <2> SUFFICES ASSUME NEW q \in Submitters, Registered(q)'
               PROVE  /\ Live(q)' /\ enterRingFd'[q] \in Slots
                      /\ table'[task'[q]][enterRingFd'[q]] = owner'[q]
    BY DEF RememberedIsHeld
  <2>1. q # s
    BY <1>2 DEF Registered, NotRegistered
  <2>2. Registered(q) /\ Live(q) /\ task[q] \in Tasks /\ enterRingFd[q] \in Slots
    BY <1>2, <2>1 DEF IInv, RememberedIsHeld, LivesAreWhole, Registered
  <2> QED BY <1>2, <1>3, <1>7, <2>1, <2>2 DEF IInv, RememberedIsHeld, Live
<1>9. SlotsAreAccountedFor'
  <2>1. ASSUME NEW u \in Tasks, NEW j \in Slots
        PROVE  table'[u][j] # NoRing <=>
                 \/ <<u, j>> \in abandoned'
                 \/ \E q \in Submitters : task'[q] = u /\ enterRingFd'[q] = j
    <3>1. j # NotRegistered
      BY DEF NotRegistered
    <3>2. CASE u = task[s] /\ j = i
      <4>1. <<u, j>> \notin abandoned'
        BY <1>2, <3>2 DEF IInv, SlotsAreAccountedFor
      <4>2. ASSUME NEW q \in Submitters, task'[q] = u, enterRingFd'[q] = j
            PROVE FALSE
        BY <1>2, <1>7, <3>1, <3>2, <4>2
      <4> QED BY <1>3, <3>2, <4>1, <4>2
    <3>3. CASE ~(u = task[s] /\ j = i)
      <4>1. table'[u][j] = table[u][j]
        BY <1>3, <3>3
      <4>2. \A q \in Submitters : (task'[q] = u /\ enterRingFd'[q] = j)
                                   <=> (task[q] = u /\ enterRingFd[q] = j)
        <5> SUFFICES ASSUME NEW q \in Submitters
                     PROVE (task'[q] = u /\ enterRingFd'[q] = j)
                           <=> (task[q] = u /\ enterRingFd[q] = j)
          OBVIOUS
        <5>1. CASE q = s
          BY <1>2, <3>1, <3>3, <5>1
        <5>2. CASE q # s
          BY <1>2, <5>2
        <5> QED BY <5>1, <5>2
      <4>3. table[u][j] # NoRing <=>
              \/ <<u, j>> \in abandoned
              \/ \E q \in Submitters : task[q] = u /\ enterRingFd[q] = j
        BY DEF IInv, SlotsAreAccountedFor
      <4> QED BY <1>2, <4>1, <4>2, <4>3
    <3> QED BY <3>2, <3>3
  <2>2. ASSUME NEW q \in Submitters
        PROVE  <<task'[q], enterRingFd'[q]>> \notin abandoned'
    BY <1>2 DEF IInv, SlotsAreAccountedFor, TypeOK, NotRegistered
  <2>3. ASSUME NEW q1 \in Submitters, NEW q2 \in Submitters, Registered(q1)',
               <<task'[q1], enterRingFd'[q1]>> = <<task'[q2], enterRingFd'[q2]>>
        PROVE  q1 = q2
    <3>1. q1 # s /\ q2 # s
      BY <1>2, <2>3 DEF Registered, NotRegistered
    <3> QED BY <1>2, <2>3, <3>1 DEF IInv, SlotsAreAccountedFor, Registered
  <2> QED BY <2>1, <2>2, <2>3 DEF SlotsAreAccountedFor
<1> QED BY <1>4, <1>5, <1>6, <1>8, <1>9 DEF IInv

LEMMA DropSubmitterPreserves ==
  ASSUME IInv, NEW s \in Submitters, DropSubmitter(s)
  PROVE  IInv'
<1> USE RingFdAssumption
<1>1. /\ fd' = fd /\ table' = table
      /\ \A q \in Submitters \ {s} : /\ owner'[q] = owner[q] /\ task'[q] = task[q]
                                     /\ enterRingFd'[q] = enterRingFd[q]
      /\ owner'[s] = NoRing /\ task'[s] = NoTask /\ enterRingFd'[s] = NotRegistered
  BY DEF DropSubmitter, IInv, TypeOK
<1>2. task[s] \in Tasks
  BY DEF IInv, LivesAreWhole, DropSubmitter
<1>3. \A u \in Tasks, j \in Slots :
        <<u, j>> \in abandoned' <=>
          <<u, j>> \in abandoned \/ (u = task[s] /\ j = enterRingFd[s])
  <2>1. \A j \in Slots : j = enterRingFd[s] => Registered(s)
    BY DEF Registered
  <2> QED BY <2>1 DEF DropSubmitter
<1>4. TypeOK'
  <2>1. abandoned' \subseteq Tasks \X Slots
    BY <1>2, RegisteredIsSlot DEF IInv, TypeOK, DropSubmitter
  <2> QED BY <2>1 DEF IInv, TypeOK, DropSubmitter
<1>5. DescriptorsDiffer'
  BY <1>1 DEF IInv, DescriptorsDiffer
<1>6. LivesAreWhole'
  BY <1>1 DEF IInv, LivesAreWhole, Live
<1>7. RememberedIsHeld'
  BY <1>1 DEF IInv, RememberedIsHeld, Registered, Live, NotRegistered
<1>8. SlotsAreAccountedFor'
  <2>1. ASSUME NEW u \in Tasks, NEW j \in Slots
        PROVE  table'[u][j] # NoRing <=>
                 \/ <<u, j>> \in abandoned'
                 \/ \E q \in Submitters : task'[q] = u /\ enterRingFd'[q] = j
    <3>1. j # NotRegistered
      BY DEF NotRegistered
    <3>2. (\E q \in Submitters : task[q] = u /\ enterRingFd[q] = j)
          <=> \/ u = task[s] /\ j = enterRingFd[s]
              \/ \E q \in Submitters : task'[q] = u /\ enterRingFd'[q] = j
      BY <1>1, <3>1
    <3>3. table[u][j] # NoRing <=>
            \/ <<u, j>> \in abandoned
            \/ \E q \in Submitters : task[q] = u /\ enterRingFd[q] = j
      BY DEF IInv, SlotsAreAccountedFor
    <3> QED BY <1>1, <1>3, <3>2, <3>3
  <2>2. ASSUME NEW q \in Submitters
        PROVE  <<task'[q], enterRingFd'[q]>> \notin abandoned'
    <3>1. CASE q = s
      BY <1>1, <1>4, <3>1 DEF TypeOK, NotRegistered
    <3>2. CASE q # s /\ <<task[q], enterRingFd[q]>> = <<task[s], enterRingFd[s]>>
      <4>1. ~Registered(q)
        BY <3>2 DEF IInv, SlotsAreAccountedFor
      <4>2. enterRingFd'[q] \notin Slots
        BY <1>1, <3>2, <4>1, RegisteredIsSlot DEF IInv
      <4> QED BY <1>4, <4>2 DEF TypeOK
    <3>3. CASE q # s /\ <<task[q], enterRingFd[q]>> # <<task[s], enterRingFd[s]>>
      <4>1. <<task[q], enterRingFd[q]>> \notin abandoned
        BY DEF IInv, SlotsAreAccountedFor
      <4> QED BY <1>1, <3>3, <4>1 DEF DropSubmitter
    <3> QED BY <3>1, <3>2, <3>3
  <2>3. ASSUME NEW q1 \in Submitters, NEW q2 \in Submitters, Registered(q1)',
               <<task'[q1], enterRingFd'[q1]>> = <<task'[q2], enterRingFd'[q2]>>
        PROVE  q1 = q2
    <3>1. q1 # s /\ q2 # s
      BY <1>1, <2>3 DEF Registered, NotRegistered
    <3> QED BY <1>1, <2>3, <3>1 DEF IInv, SlotsAreAccountedFor, Registered
  <2> QED BY <2>1, <2>2, <2>3 DEF SlotsAreAccountedFor
<1> QED BY <1>4, <1>5, <1>6, <1>7, <1>8 DEF IInv

LEMMA TaskEndsPreserves ==
  ASSUME IInv, NEW t \in Tasks, TaskEnds(t)
  PROVE  IInv'
<1> USE RingFdAssumption
<1>1. /\ fd' = fd /\ owner' = owner /\ task' = task /\ enterRingFd' = enterRingFd
      /\ \A s \in Submitters : task[s] # t
      /\ abandoned' = {a \in abandoned : a[1] # t}
  BY DEF TaskEnds
<1>2. \A u \in Tasks, j \in Slots :
        table'[u][j] = IF u = t THEN NoRing ELSE table[u][j]
  BY DEF IInv, TypeOK, TaskEnds
<1>3. TypeOK'
  BY DEF IInv, TypeOK, TaskEnds
<1>4. DescriptorsDiffer'
  BY <1>1 DEF IInv, DescriptorsDiffer
<1>5. LivesAreWhole'
  BY <1>1 DEF IInv, LivesAreWhole, Live
<1>6. RememberedIsHeld'
  BY <1>1, <1>2 DEF IInv, RememberedIsHeld, LivesAreWhole, Registered, Live
<1>7. SlotsAreAccountedFor'
  <2>1. ASSUME NEW u \in Tasks, NEW j \in Slots
        PROVE  table'[u][j] # NoRing <=>
                 \/ <<u, j>> \in abandoned'
                 \/ \E q \in Submitters : task'[q] = u /\ enterRingFd'[q] = j
    <3>1. table[u][j] # NoRing <=>
            \/ <<u, j>> \in abandoned
            \/ \E q \in Submitters : task[q] = u /\ enterRingFd[q] = j
      BY DEF IInv, SlotsAreAccountedFor
    <3>2. <<u, j>> \in abandoned' <=> <<u, j>> \in abandoned /\ u # t
      BY <1>1
    <3> QED BY <1>1, <1>2, <3>1, <3>2
  <2>2. ASSUME NEW q \in Submitters
        PROVE  <<task'[q], enterRingFd'[q]>> \notin abandoned'
    BY <1>1 DEF IInv, SlotsAreAccountedFor
  <2>3. ASSUME NEW q1 \in Submitters, NEW q2 \in Submitters, Registered(q1)',
               <<task'[q1], enterRingFd'[q1]>> = <<task'[q2], enterRingFd'[q2]>>
        PROVE  q1 = q2
    BY <1>1, <2>3 DEF IInv, SlotsAreAccountedFor, Registered
  <2> QED BY <2>1, <2>2, <2>3 DEF SlotsAreAccountedFor
<1> QED BY <1>3, <1>4, <1>5, <1>6, <1>7 DEF IInv

-----------------------------------------------------------------------------
(* The invariant holds in every reachable state. *)
THEOREM Invariance == Spec => []IInv
<1>1. ASSUME IInv, [Next]_vars
      PROVE  IInv'
  <2>1. ASSUME NEW r \in Rings, OpenRing(r)
        PROVE  IInv'
    BY <1>1, <2>1, OpenRingPreserves
  <2>2. ASSUME NEW r \in Rings, DropRing(r)
        PROVE  IInv'
    BY <1>1, <2>2, DropRingPreserves
  <2>3. ASSUME NEW s \in Submitters, NEW r \in Rings, NEW t \in Tasks,
               NewSubmitter(s, r, t)
        PROVE  IInv'
    BY <1>1, <2>3, NewSubmitterPreserves
  <2>4. ASSUME NEW s \in Submitters, RegisterRingFd(s)
        PROVE  IInv'
    BY <1>1, <2>4, RegisterPreserves
  <2>5. ASSUME NEW s \in Submitters, UnregisterRingFd(s)
        PROVE  IInv'
    BY <1>1, <2>5, UnregisterPreserves
  <2>6. ASSUME NEW s \in Submitters, DropSubmitter(s)
        PROVE  IInv'
    BY <1>1, <2>6, DropSubmitterPreserves
  <2>7. ASSUME NEW t \in Tasks, TaskEnds(t)
        PROVE  IInv'
    BY <1>1, <2>7, TaskEndsPreserves
  <2>8. CASE UNCHANGED vars
    BY <1>1, <2>8 DEF vars, IInv, TypeOK, DescriptorsDiffer, LivesAreWhole, Live,
         RememberedIsHeld, Registered, SlotsAreAccountedFor
  <2> QED BY <1>1, <2>1, <2>2, <2>3, <2>4, <2>5, <2>6, <2>7, <2>8 DEF Next
<1> QED BY <1>1, InitEstablishes, PTL DEF Spec

(* Types, for every instance (register_ring_fd stores what the kernel wrote *)
(* into `offset', a slot of the table).                                     *)
THEOREM TypeCorrect == Spec => []TypeOK
<1>1. IInv => TypeOK
  BY DEF IInv
<1> QED BY <1>1, Invariance, PTL

(* No sequence of registrations, refusals, drops and re-used slots makes a  *)
(* call of a Submitter act on another ring or on none.                      *)
THEOREM ReachOwnRing == Spec => []CallsReachOwnRing
BY Invariance, InvariantReaches, PTL

(* Every slot the kernel holds is remembered by one Submitter or was        *)
(* abandoned by one that was dropped while registered.                      *)
THEOREM SlotsAccounted == Spec => []SlotsAreAccountedFor
<1>1. IInv => SlotsAreAccountedFor
  BY DEF IInv
<1> QED BY <1>1, Invariance, PTL
-----------------------------------------------------------------------------
(* The life of a ring.  Its state is control: at each step of build the      *)
(* mappings made so far are known, with the lengths computed for them.       *)

Lengths == [sqe |-> Life!SqeLen, sq |-> Life!ScqLen, cq |-> Life!CqLen]
Mapping(name) == [name |-> name, len |-> Lengths[name]]
Sqe == Mapping("sqe")
Sq  == Mapping("sq")
Cq  == Mapping("cq")
All == {Sqe, Sq} \cup (IF ring.single THEN {} ELSE {Cq})

Idle == {"none", "map sqe"}
Complete == {"advise sq", "advise sqe", "advise cq", "live"}

\* Where build is tells which mappings there are; release has any of them left.
MapsAsBuilt ==
  /\ pc \in Idle => maps = {}
  /\ pc = "map sq" => maps = {Sqe}
  /\ pc = "map cq" => maps = {Sqe, Sq} /\ ~ring.single
  /\ pc \in Complete => maps = All
  /\ pc = "release" => maps \subseteq All

\* The advice given so far.
AdviceGiven ==
  /\ pc \in {"advise sqe", "advise cq"} => Sq \in noFork
  /\ pc = "advise cq" => Sqe \in noFork /\ ~ring.single
  /\ pc = "live" /\ dontfork => All \subseteq noFork

LifeInv ==
  /\ ring \in Life!RingParams
  /\ pc \in Idle \cup Complete \cup {"map sq", "map cq", "release"}
  /\ sqe128 \in BOOLEAN /\ cqe32 \in BOOLEAN
  /\ sqe128 => ring.sqe128
  /\ cqe32 => ring.cqe32
  /\ fdOpen <=> pc # "none"
  /\ handles # {} => pc = "live"
  /\ MapsAsBuilt
  /\ AdviceGiven

\* A ring that is not there yet has nothing.
LEMMA LifeInit == Life!Init => LifeInv
<1> SUFFICES ASSUME Life!Init PROVE LifeInv
  OBVIOUS
<1> QED
  BY DEF Life!Init, LifeInv, MapsAsBuilt, AdviceGiven, Idle, Complete

\* Steps that leave the parameters alone leave the lengths alone.
LEMMA LengthsStay ==
  ASSUME UNCHANGED <<ring, sqe128, cqe32>>
  PROVE  UNCHANGED <<Sqe, Sq, Cq, All>>
BY DEF Sqe, Sq, Cq, All, Mapping, Lengths, Life!SqeLen, Life!ScqLen, Life!CqLen, Life!SqLen,
       Life!ArrayOffset, Life!CqesEnd, Life!CqesOffset

\* Build and from_fd start from nothing.
LEMMA BeginStep ==
  ASSUME LifeInv, Life!Build \/ Life!FromFd
  PROVE  LifeInv'
<1>1. /\ pc = "none" /\ pc' = "map sqe" /\ fdOpen' = TRUE /\ maps' = maps /\ handles' = handles
      /\ ring' \in Life!RingParams
      /\ sqe128' \in BOOLEAN /\ cqe32' \in BOOLEAN
      /\ (sqe128' => ring'.sqe128) /\ (cqe32' => ring'.cqe32)
  <2>1. CASE Life!Build
    BY <2>1 DEF Life!Build, Life!RingParams
  <2>2. CASE Life!FromFd
    BY <2>2 DEF Life!FromFd
  <2> QED
    BY <2>1, <2>2
<1> QED
  BY <1>1 DEF LifeInv, MapsAsBuilt, AdviceGiven, Idle, Complete

\* A mapping is made in its turn, or the attempt ends.
LEMMA MapStep ==
  ASSUME LifeInv, Life!MapSqe \/ Life!MapSq \/ Life!MapCq
  PROVE  LifeInv'
<1>1. UNCHANGED <<ring, sqe128, cqe32, dontfork, fdOpen, noFork, handles>>
  BY DEF Life!MapSqe, Life!MapSq, Life!MapCq, Life!Map
<1>2. UNCHANGED <<Sqe, Sq, Cq, All>>
  BY <1>1, LengthsStay
<1>3. Life!AfterMaps = IF dontfork THEN "advise sq" ELSE "live"
  BY DEF Life!AfterMaps
<1> USE DEF LifeInv, MapsAsBuilt, AdviceGiven, Idle, Complete
<1>4. CASE UNCHANGED maps /\ pc' = "release"
  BY <1>1, <1>2, <1>4 DEF Life!MapSqe, Life!MapSq, Life!MapCq, All
<1>5. CASE pc = "map sqe" /\ maps' = maps \cup {Sqe} /\ pc' = "map sq"
  BY <1>1, <1>2, <1>5
<1>6. CASE pc = "map sq" /\ maps' = maps \cup {Sq}
           /\ pc' = IF ring.single THEN Life!AfterMaps ELSE "map cq"
  BY <1>1, <1>2, <1>3, <1>6 DEF All
<1>7. CASE pc = "map cq" /\ maps' = maps \cup {Cq} /\ pc' = Life!AfterMaps
  BY <1>1, <1>2, <1>3, <1>7 DEF All
<1>8. /\ Sqe = [name |-> "sqe", len |-> Life!SqeLen]
      /\ Sq = [name |-> "sq", len |-> Life!ScqLen]
      /\ Cq = [name |-> "cq", len |-> Life!CqLen]
  BY DEF Sqe, Sq, Cq, Mapping, Lengths
<1> QED
  BY <1>4, <1>5, <1>6, <1>7, <1>8 DEF Life!MapSqe, Life!MapSq, Life!MapCq, Life!Map

\* A mapping is named by its kind.
LEMMA NamesDiffer ==
  /\ Sqe.name = "sqe" /\ Sq.name = "sq" /\ Cq.name = "cq"
  /\ Sqe.len = Life!SqeLen /\ Sq.len = Life!ScqLen /\ Cq.len = Life!CqLen
BY DEF Sqe, Sq, Cq, Mapping, Lengths

\* The advice covers the mappings one after the other, or the attempt ends.
LEMMA AdviseStep ==
  ASSUME LifeInv, Life!AdviseSq \/ Life!AdviseSqe \/ Life!AdviseCq
  PROVE  LifeInv'
<1>1. /\ UNCHANGED <<ring, sqe128, cqe32, dontfork, fdOpen, maps, handles>>
      /\ noFork \subseteq noFork' /\ pc \in Complete /\ pc # "live"
  BY DEF Life!AdviseSq, Life!AdviseSqe, Life!AdviseCq, Life!Advise, Complete
<1>2. UNCHANGED <<Sqe, Sq, Cq, All>>
  BY <1>1, LengthsStay
<1> USE DEF LifeInv, MapsAsBuilt, AdviceGiven, Idle, Complete
<1>3. maps = All
  BY <1>1
<1>4. CASE pc' = "release"
  BY <1>1, <1>2, <1>3, <1>4
<1>5. CASE pc = "advise sq" /\ noFork' = noFork \cup {m \in maps : m.name = "sq"}
           /\ pc' = "advise sqe"
  <2>1. Sq \in noFork'
    BY <1>3, <1>5, NamesDiffer DEF All
  <2> QED
    BY <1>1, <1>2, <1>3, <1>5, <2>1
<1>6. CASE pc = "advise sqe" /\ noFork' = noFork \cup {m \in maps : m.name = "sqe"}
           /\ pc' = IF ring.single THEN "live" ELSE "advise cq"
  <2>1. Sqe \in maps /\ Sq \in noFork
    BY <1>3, <1>6 DEF All
  <2>2. Sq \in noFork' /\ Sqe \in noFork'
    BY <1>6, <2>1, NamesDiffer
  <2>3. ring.single => All \subseteq noFork'
    BY <2>2 DEF All
  <2> QED
    BY <1>1, <1>2, <1>3, <1>6, <2>2, <2>3
<1>7. CASE pc = "advise cq" /\ noFork' = noFork \cup {m \in maps : m.name = "cq"}
           /\ pc' = "live"
  <2>1. Sq \in noFork /\ Sqe \in noFork /\ ~ring.single
    BY <1>7
  <2>2. Cq \in maps
    BY <1>3, <2>1 DEF All
  <2>3. All \subseteq noFork'
    BY <1>7, <2>1, <2>2, NamesDiffer DEF All
  <2> QED
    BY <1>1, <1>2, <1>3, <1>7, <2>3
<1> QED
  BY <1>4, <1>5, <1>6, <1>7 DEF Life!AdviseSq, Life!AdviseSqe, Life!AdviseCq, Life!Advise

\* Handles come and go while the ring lives; its end releases what there is.
LEMMA UseAndRelease ==
  ASSUME LifeInv,
         \/ \E h \in Life!Handles : Life!Borrow(h) \/ Life!Return(h)
         \/ Life!DropRing \/ Life!Unmap \/ Life!Close
  PROVE  LifeInv'
<1>1. UNCHANGED <<ring, sqe128, cqe32, dontfork>>
  BY DEF Life!Borrow, Life!Return, Life!DropRing, Life!Unmap, Life!Close
<1>2. UNCHANGED <<Sqe, Sq, Cq, All>>
  BY <1>1, LengthsStay
<1> USE DEF LifeInv, MapsAsBuilt, AdviceGiven, Idle, Complete
<1>3. ASSUME NEW h \in Life!Handles, Life!Borrow(h) \/ Life!Return(h) PROVE LifeInv'
  <2>1. UNCHANGED <<pc, fdOpen, maps, noFork>> /\ pc = "live"
    BY <1>3 DEF Life!Borrow, Life!Return
  <2> QED
    BY <1>1, <1>2, <2>1
<1>4. CASE Life!DropRing
  BY <1>1, <1>2, <1>4 DEF Life!DropRing
<1>5. CASE Life!Unmap
  BY <1>1, <1>2, <1>5 DEF Life!Unmap
<1>6. CASE Life!Close
  BY <1>1, <1>2, <1>6 DEF Life!Close
<1> QED
  BY <1>3, <1>4, <1>5, <1>6

\* Every step keeps the invariant.
LEMMA LifeNext == LifeInv /\ [Life!Next]_lifeVars => LifeInv'
<1> SUFFICES ASSUME LifeInv, [Life!Next]_lifeVars PROVE LifeInv'
  OBVIOUS
<1>1. CASE UNCHANGED lifeVars
  <2>1. UNCHANGED <<ring, sqe128, cqe32, dontfork, pc, fdOpen, maps, noFork, handles>>
    BY <1>1 DEF lifeVars
  <2>2. UNCHANGED <<Sqe, Sq, Cq, All>>
    BY <2>1, LengthsStay
  <2>3. MapsAsBuilt' /\ AdviceGiven'
    BY <2>1, <2>2 DEF LifeInv, MapsAsBuilt, AdviceGiven
  <2> QED
    BY <2>1, <2>3 DEF LifeInv
<1> QED
  BY <1>1, BeginStep, MapStep, AdviseStep, UseAndRelease DEF Life!Next

\* The ring's part of the system steps as RingLifecycle says, or not at all.
LEMMA RingsFollowLife == RingsSpec => []LifeInv
<1>1. RingsInit => LifeInv
  BY LifeInit DEF RingsInit
<1>2. LifeInv /\ [DescriptorStep \/ LifecycleStep \/ LoopStep]_<<part, vars, lifeVars, loopVars>>
        => LifeInv'
  <2>1. [DescriptorStep \/ LifecycleStep \/ LoopStep]_<<part, vars, lifeVars, loopVars>>
          => [Life!Next]_lifeVars
    BY DEF DescriptorStep, LifecycleStep, LoopStep
  <2> QED
    BY <2>1, LifeNext
<1> QED
  BY <1>1, <1>2, PTL DEF RingsSpec

\* Whichever call fails, and wherever, nothing is left open or mapped, and the
\* descriptor is not closed before the mappings are gone.
THEOREM LifeLeaksNothing == RingsSpec => []NothingLeaks
<1>1. LifeInv => NothingLeaks
  BY DEF LifeInv, MapsAsBuilt, Idle, NothingLeaks, Life!NothingLeaks
<1> QED
  BY <1>1, RingsFollowLife, PTL

\* With dontfork no mapping of a ring that lives is passed on to a child.
THEOREM LifeKeepsFromChildren == RingsSpec => []ChildrenGetNoMapping
<1>1. LifeInv => ChildrenGetNoMapping
  BY DEF LifeInv, MapsAsBuilt, AdviceGiven, Complete, ChildrenGetNoMapping, Life!ChildrenGetNoMapping
<1> QED
  BY <1>1, RingsFollowLife, PTL

\* The larger of two lengths.
LEMMA MaxOfTwo ==
  ASSUME NEW a \in Nat, NEW b \in Nat
  PROVE  Life!Max({a, b}) \in {a, b} /\ Life!Max({a, b}) >= a /\ Life!Max({a, b}) >= b
<1>1. \E x \in {a, b} : \A y \in {a, b} : x >= y
  <2>1. CASE a >= b
    BY <2>1
  <2>2. CASE b >= a
    BY <2>2
  <2> QED
    BY <2>1, <2>2
<1> QED
  BY <1>1 DEF Life!Max

\* The largest of three lengths is bounded by what bounds each.
LEMMA MaxOfThree ==
  ASSUME NEW a \in Nat, NEW b \in Nat, NEW c \in Nat, NEW n \in Nat, a <= n, b <= n, c <= n
  PROVE  Life!Max({a, b, c}) <= n
<1>1. \E x \in {a, b, c} : \A y \in {a, b, c} : x >= y
  <2>1. PICK x \in {a, b} : x >= a /\ x >= b
    <3>1. CASE a >= b
      BY <3>1
    <3>2. CASE b >= a
      BY <3>2
    <3> QED
      BY <3>1, <3>2
  <2>2. CASE x >= c
    BY <2>1, <2>2
  <2>3. CASE c >= x
    BY <2>1, <2>3
  <2> QED
    BY <2>1, <2>2, <2>3
<1>2. Life!Max({a, b, c}) \in {a, b, c}
  BY <1>1 DEF Life!Max
<1> QED
  BY <1>2

\* The lengths the code computes, from an array offset that is zero when there
\* is no array, cover what the pointers reach and fit the kernel's regions.
LEMMA LengthsFit ==
  ASSUME LifeInv
  PROVE  /\ Life!Reached["sqe"] <= Life!SqeLen /\ Life!SqeLen <= Life!Region(ring)["sqe"]
         /\ Life!Reached["sq"] <= Life!ScqLen /\ Life!ScqLen <= Life!Region(ring)["sq"]
         /\ Life!Reached["cq"] <= Life!CqLen /\ Life!CqLen <= Life!Region(ring)["cq"]
<1> DEFINE n == ring.cqEntries
           cqes == n * Life!CqeWords(cqe32)
           end == n * Life!CqeWords(ring.cqe32)
<1>1. /\ n \in Nat /\ SqEntries \in Nat /\ SqEntries <= n
      /\ ring.single \in BOOLEAN /\ ring.noSqArray \in BOOLEAN
      /\ ring.noSqArray => ring.single
  BY SizesAssumption DEF LifeInv, Life!RingParams
<1>2. /\ cqes \in Nat /\ end \in Nat /\ n <= cqes /\ cqes <= end
  <2>1. /\ cqes = IF cqe32 THEN n * 8 ELSE n * 4
        /\ end = IF ring.cqe32 THEN n * 8 ELSE n * 4
        /\ cqe32 => ring.cqe32
    BY DEF LifeInv, Life!CqeWords
  <2> HIDE DEF n, cqes, end
  <2> QED
    BY <1>1, <2>1
<1>3. /\ Life!Reached["sqe"] = Life!SqeLen /\ Life!SqeLen \in Nat
      /\ Life!SqeLen <= Life!Region(ring)["sqe"]
  <2>1. Life!Reached["sqe"] = Life!SqeLen
    BY DEF Life!Reached, Life!SqeLen
  <2>2. /\ Life!SqeLen = IF sqe128 THEN SqEntries * 32 ELSE SqEntries * 16
        /\ Life!Region(ring)["sqe"] = IF ring.sqe128 THEN SqEntries * 32 ELSE SqEntries * 16
        /\ sqe128 => ring.sqe128
    BY DEF LifeInv, Life!SqeLen, Life!Region, Life!SqeWords
  <2> QED
    BY <1>1, <2>1, <2>2
<1>4. /\ Life!CqLen = 16 + cqes /\ Life!CqesEnd(ring) = 16 + end
      /\ Life!Reached["cq"] = Life!CqLen /\ Life!Region(ring)["cq"] = 16 + end
  BY DEF Life!CqLen, Life!CqesEnd, Life!Reached, Life!Region, Life!CqesOffset, Life!HeaderWords
<1>5. /\ Life!SqLen = IF ring.noSqArray THEN SqEntries
                       ELSE IF ring.single THEN 16 + end + SqEntries ELSE 16 + SqEntries
      /\ Life!Region(ring)["sq"] = IF ring.noSqArray THEN 16 + end
                       ELSE IF ring.single THEN 16 + end + SqEntries ELSE 16 + SqEntries
      /\ Life!ArrayEnd(ring) = Life!SqLen
  BY <1>1, <1>2, <1>4 DEF Life!SqLen, Life!ArrayOffset, Life!ArrayEnd, Life!Region, Life!HeaderWords
<1>6. Life!Reached["sq"] = Life!Max({16, IF ring.noSqArray THEN 0 ELSE Life!SqLen,
                                     IF ring.single THEN 16 + cqes ELSE 0})
  BY <1>5 DEF Life!Reached, Life!HeaderWords, Life!CqesOffset
<1>7. Life!ScqLen = IF ring.single THEN Life!Max({Life!SqLen, Life!CqLen}) ELSE Life!SqLen
  BY DEF Life!ScqLen
<1> HIDE DEF n, cqes, end
<1>8. Life!Reached["cq"] <= Life!CqLen /\ Life!CqLen <= Life!Region(ring)["cq"]
  BY <1>2, <1>4
<1>9. Life!Reached["sqe"] <= Life!SqeLen /\ Life!SqeLen <= Life!Region(ring)["sqe"]
  BY <1>3
<1>10. Life!SqLen \in Nat /\ Life!CqLen \in Nat
  BY <1>1, <1>2, <1>4, <1>5
<1>11. CASE ring.single
  <2>1. /\ Life!ScqLen \in {Life!SqLen, Life!CqLen}
        /\ Life!ScqLen >= Life!SqLen /\ Life!ScqLen >= Life!CqLen
    BY <1>7, <1>10, <1>11, MaxOfTwo
  <2>2. Life!ScqLen \in Nat
    BY <1>10, <2>1
  <2>3. Life!ScqLen <= Life!Region(ring)["sq"]
    BY <1>1, <1>2, <1>4, <1>5, <1>11, <2>1
  <2>4. Life!Reached["sq"] <= Life!ScqLen
    <3> DEFINE a == IF ring.noSqArray THEN 0 ELSE Life!SqLen
    <3>1. a \in Nat /\ a <= Life!ScqLen
      BY <1>10, <2>1, <2>2
    <3>2. 16 + cqes \in Nat /\ 16 + cqes <= Life!ScqLen /\ 16 <= Life!ScqLen
      BY <1>2, <1>4, <2>1, <2>2
    <3>3. Life!Reached["sq"] = Life!Max({16, a, 16 + cqes})
      BY <1>6, <1>11
    <3> HIDE DEF a
    <3> QED
      BY <2>2, <3>1, <3>2, <3>3, MaxOfThree
  <2> QED
    BY <1>8, <1>9, <2>3, <2>4
<1>12. CASE ~ring.single
  <2>1. Life!ScqLen = 16 + SqEntries /\ Life!SqLen = 16 + SqEntries /\ ~ring.noSqArray
    BY <1>1, <1>5, <1>7, <1>12
  <2>2. Life!Reached["sq"] = Life!Max({16, Life!SqLen, 0})
    BY <1>6, <1>12, <2>1
  <2>3. Life!Reached["sq"] <= Life!ScqLen
    BY <1>1, <1>10, <2>1, <2>2, MaxOfThree
  <2>4. Life!ScqLen <= Life!Region(ring)["sq"]
    BY <1>1, <1>5, <1>12, <2>1
  <2> QED
    BY <1>8, <1>9, <2>3, <2>4
<1> QED
  BY <1>1, <1>11, <1>12

\* Every pointer of a ring that lives is inside one of its mappings, for every
\* size and kind of ring, and no mapping is longer than its region.
THEOREM LifePointersInside == RingsSpec => []PointersInsideMaps
<1>1. LifeInv => PointersInsideMaps
  <2> SUFFICES ASSUME LifeInv PROVE Life!PointersInsideMaps
    BY DEF PointersInsideMaps
  <2>1. ASSUME pc = "live" \/ handles # {},
               NEW name \in {"sqe", "sq"} \cup (IF ring.single THEN {} ELSE {"cq"})
        PROVE  \E m \in maps : m.name = name /\ Life!Reached[name] <= m.len
    <3>1. maps = All
      BY <2>1 DEF LifeInv, MapsAsBuilt, Complete
    <3> QED
      BY <2>1, <3>1, LengthsFit, NamesDiffer DEF All
  <2>2. ASSUME NEW m \in maps PROVE m.len <= Life!Region(ring)[m.name]
    <3>1. m \in {Sqe, Sq, Cq}
      <4>1. maps \subseteq All \cup {Sqe, Sq}
        BY DEF LifeInv, MapsAsBuilt, Idle
      <4>2. All \subseteq {Sqe, Sq, Cq}
        BY DEF All
      <4> QED
        BY <4>1, <4>2
    <3> QED
      BY <3>1, LengthsFit, NamesDiffer
  <2> QED
    BY <2>1, <2>2 DEF Life!PointersInsideMaps
<1> QED
  BY <1>1, RingsFollowLife, PTL

=============================================================================
