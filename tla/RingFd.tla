------------------------------- MODULE RingFd -------------------------------
(***************************************************************************)
(* Registered ring descriptors: register_ring_fd, unregister_ring_fd and    *)
(* the choice between the raw descriptor and the registered index that      *)
(* every other system call of src/submit.rs makes.                          *)
(*                                                                         *)
(* The program has several rings and several Submitter values, each used on *)
(* the task that made it (a Submitter is not Send).  The kernel keeps for   *)
(* each task a small table of registered rings (external).  A slot holds    *)
(* the ring as long as an open descriptor does.                             *)
(***************************************************************************)
EXTENDS Integers, FiniteSets

CONSTANTS
  Rings,       \* the rings the program ever sets up
  Tasks,       \* its threads
  Submitters,  \* its Submitter values
  Fds,         \* numbers the kernel gives to descriptors
  Slots,       \* indices of a task's table of registered rings
  RegRegRing   \* IORING_FEAT_REG_REG_RING

NoRing == "no ring"
NoTask == "no task"
NotRegistered == -1   \* enter_ring_fd of a new Submitter
Closed == -2          \* a ring without a descriptor

ASSUME RingFdAssumption ==
  /\ Fds \subseteq Nat /\ Slots \subseteq Nat
  /\ NoRing \notin Rings /\ NoTask \notin Tasks
  /\ RegRegRing \in BOOLEAN

VARIABLES
  fd,         \* each ring's descriptor: OwnedFd of its IoUring
  dropped,    \* rings whose IoUring was dropped
  table,      \* the kernel's registered rings of each task
  owner,      \* each Submitter's ring, NoRing before and after its life
  task,       \* the task it is used on
  enterRingFd,\* its enter_ring_fd
  abandoned   \* history: slots whose Submitter was dropped while registered

vars == <<fd, dropped, table, owner, task, enterRingFd, abandoned>>

\* Descriptors are open or closed, an index is one of the table or none.
TypeOK ==
  /\ fd \in [Rings -> Fds \cup {Closed}]
  /\ dropped \subseteq Rings
  /\ table \in [Tasks -> [Slots -> Rings \cup {NoRing}]]
  /\ owner \in [Submitters -> Rings \cup {NoRing}]
  /\ task \in [Submitters -> Tasks \cup {NoTask}]
  /\ enterRingFd \in [Submitters -> Slots \cup {NotRegistered}]
  /\ abandoned \subseteq Tasks \X Slots

Init ==
  /\ fd = [r \in Rings |-> Closed]
  /\ dropped = {}
  /\ table = [t \in Tasks |-> [i \in Slots |-> NoRing]]
  /\ owner = [s \in Submitters |-> NoRing]
  /\ task = [s \in Submitters |-> NoTask]
  /\ enterRingFd = [s \in Submitters |-> NotRegistered]
  /\ abandoned = {}

Live(s) == owner[s] # NoRing
Registered(s) == enterRingFd[s] >= 0
Held(t) == {i \in Slots : table[t][i] # NoRing}

-----------------------------------------------------------------------------
(* What a system call of a Submitter names, and what the kernel makes of it *)

Target(number, flag) == [number |-> number, registered |-> flag]

\* enter: the index goes with IORING_ENTER_REGISTERED_RING.
EnterTargetUnflagged(s) ==
  Target(IF Registered(s) THEN enterRingFd[s] ELSE fd[owner[s]], FALSE)
EnterTarget(s) ==
  IF Registered(s) THEN Target(enterRingFd[s], TRUE)
                   ELSE Target(fd[owner[s]], FALSE)

\* register_ring and execute: the index goes with
\* IORING_REGISTER_USE_REGISTERED_RING, on kernels that know the flag.
RegisterTarget(s) ==
  IF Registered(s) /\ RegRegRing THEN Target(enterRingFd[s], TRUE)
                                 ELSE Target(fd[owner[s]], FALSE)

\* The ring a task's call acts on; NoRing stands for EBADF.
Reaches(t, target, r) ==
  IF target.registered
  THEN target.number \in Slots /\ table[t][target.number] = r
  ELSE fd[r] = target.number

-----------------------------------------------------------------------------
(* Rings and Submitters come and go.                                       *)

OpenRing(r) ==
  /\ fd[r] = Closed /\ r \notin dropped
  /\ \E n \in Fds : /\ \A q \in Rings : fd[q] # n
                    /\ fd' = [fd EXCEPT ![r] = n]
  /\ UNCHANGED <<dropped, table, owner, task, enterRingFd, abandoned>>

\* submitter() and split(): a new value knows of no registration.
NewSubmitter(s, r, t) ==
  /\ ~Live(s) /\ fd[r] # Closed
  /\ owner' = [owner EXCEPT ![s] = r]
  /\ task' = [task EXCEPT ![s] = t]
  /\ enterRingFd' = [enterRingFd EXCEPT ![s] = NotRegistered]
  /\ UNCHANGED <<fd, dropped, table, abandoned>>

\* There is no Drop for Submitter: the registration stays in the kernel.
DropSubmitter(s) ==
  /\ Live(s)
  /\ abandoned' = abandoned \cup
       (IF Registered(s) THEN {<<task[s], enterRingFd[s]>>} ELSE {})
  /\ owner' = [owner EXCEPT ![s] = NoRing]
  /\ task' = [task EXCEPT ![s] = NoTask]
  /\ enterRingFd' = [enterRingFd EXCEPT ![s] = NotRegistered]
  /\ UNCHANGED <<fd, dropped, table>>

\* The borrow checker keeps a ring alive under its Submitters.
DropRing(r) ==
  /\ fd[r] # Closed
  /\ \A s \in Submitters : owner[s] # r
  /\ fd' = [fd EXCEPT ![r] = Closed]
  /\ dropped' = dropped \cup {r}
  /\ UNCHANGED <<table, owner, task, enterRingFd, abandoned>>

\* A task ends with its Submitters; the kernel empties its table.
TaskEnds(t) ==
  /\ \A s \in Submitters : task[s] # t
  /\ table' = [table EXCEPT ![t] = [i \in Slots |-> NoRing]]
  /\ abandoned' = {a \in abandoned : a[1] # t}
  /\ UNCHANGED <<fd, dropped, owner, task, enterRingFd>>

-----------------------------------------------------------------------------
(* register_ring_fd and unregister_ring_fd.  When the code or the kernel    *)
(* refuses (EEXIST, EINVAL, EBUSY with a full table) nothing changes; the   *)
(* actions below are the calls that succeed.                                *)

\* The kernel takes the ring behind the descriptor, picks a free slot and
\* writes its number back into `offset'.
RegisterRingFdAgain(s) ==
  /\ Live(s)
  /\ \E i \in Slots \ Held(task[s]) :
       /\ \E r \in Rings : /\ Reaches(task[s], Target(fd[owner[s]], FALSE), r)
                           /\ table' = [table EXCEPT ![task[s]][i] = r]
       /\ enterRingFd' = [enterRingFd EXCEPT ![s] = i]
  /\ UNCHANGED <<fd, dropped, owner, task, abandoned>>

RegisterRingFd(s) ==
  /\ Live(s) /\ ~Registered(s)
  /\ \E i \in Slots \ Held(task[s]) :
       /\ \E r \in Rings : /\ Reaches(task[s], Target(fd[owner[s]], FALSE), r)
                           /\ table' = [table EXCEPT ![task[s]][i] = r]
       /\ enterRingFd' = [enterRingFd EXCEPT ![s] = i]
  /\ UNCHANGED <<fd, dropped, owner, task, abandoned>>

\* The slot is emptied in the kernel, then forgotten here.
UnregisterRingFd(s) ==
  /\ Live(s) /\ Registered(s)
  /\ \E r \in Rings : Reaches(task[s], RegisterTarget(s), r)
  /\ table' = [table EXCEPT ![task[s]][enterRingFd[s]] = NoRing]
  /\ enterRingFd' = [enterRingFd EXCEPT ![s] = NotRegistered]
  /\ UNCHANGED <<fd, dropped, owner, task, abandoned>>

Next ==
  \/ \E r \in Rings : OpenRing(r) \/ DropRing(r)
  \/ \E s \in Submitters, r \in Rings, t \in Tasks : NewSubmitter(s, r, t)
  \/ \E s \in Submitters :
       RegisterRingFd(s) \/ UnregisterRingFd(s) \/ DropSubmitter(s)
  \/ \E t \in Tasks : TaskEnds(t)

Spec == Init /\ [][Next]_vars

-----------------------------------------------------------------------------
(* Whatever was registered, unregistered, refused and dropped before, every *)
(* call of a Submitter, enter as well as register, names its own ring: the  *)
(* index it remembers is one its task's table holds for that ring, and the  *)
(* flag tells the kernel to look there.  A stale index would submit to      *)
(* another ring, or fail.                                                   *)
CallsReachOwnRing ==
  \A s \in Submitters : Live(s) =>
    /\ Reaches(task[s], EnterTarget(s), owner[s])
    /\ Reaches(task[s], RegisterTarget(s), owner[s])

(* The program's memory of the table is exact: a slot is held for one live  *)
(* Submitter that remembers it, or for one that was dropped while           *)
(* registered, never for two and never for nobody.                          *)
SlotsAreAccountedFor ==
  /\ \A t \in Tasks, i \in Slots :
       table[t][i] # NoRing <=>
         \/ <<t, i>> \in abandoned
         \/ \E s \in Submitters : task[s] = t /\ enterRingFd[s] = i
  /\ \A s \in Submitters : <<task[s], enterRingFd[s]>> \notin abandoned
  /\ \A s1, s2 \in Submitters :
       /\ Registered(s1)
       /\ <<task[s1], enterRingFd[s1]>> = <<task[s2], enterRingFd[s2]>>
       => s1 = s2
=============================================================================
