---------------------------- MODULE RingLifecycle ----------------------------
(***************************************************************************)
(* A ring's life: build and from_fd of src/lib.rs with every way they fail  *)
(* halfway, the mappings of src/util.rs, borrows by Submitters and queue    *)
(* handles, drop.  Each system call is a step; what releases resources runs *)
(* one resource at a time.  Lengths and offsets count 32-bit words.         *)
(***************************************************************************)
EXTENDS Integers, FiniteSets, FiniteSetsExt

CONSTANTS
  SqEntries,  \* sq_entries
  CqSizes     \* the cq_entries a program may ask for with setup_cqsize

HeaderWords == 16   \* the words before the first array of a ring
Handles == {"submitter", "sq", "cq"}

VARIABLES
  pc,        \* where build, from_fd or drop is; "none" and "live" between calls
  ring,      \* the kernel's ring: its parameters
  sqe128, cqe32,  \* the entry types S and C of the IoUring value
  dontfork,  \* Builder::dontfork
  fdOpen,    \* OwnedFd
  maps,      \* the mappings that exist, with their lengths
  noFork,    \* those a child process does not get
  handles    \* borrows of the IoUring that are alive

vars == <<pc, ring, sqe128, cqe32, dontfork, fdOpen, maps, noFork, handles>>

\* What the kernel reports in io_uring_params (external).  The rings are one
\* region (SINGLE_MMAP) or two; NO_SQARRAY came long after SINGLE_MMAP.
RingParams ==
  {p \in [single : BOOLEAN, noSqArray : BOOLEAN, sqe128 : BOOLEAN,
          cqe32 : BOOLEAN, cqEntries : CqSizes] : p.noSqArray => p.single}

CqeWords(wide) == IF wide THEN 8 ELSE 4
SqeWords(wide) == IF wide THEN 32 ELSE 16

CqesOffset == HeaderWords
CqesEnd(p) == CqesOffset + p.cqEntries * CqeWords(p.cqe32)
ArrayOffset(p) ==
  IF p.noSqArray THEN 0 ELSE IF p.single THEN CqesEnd(p) ELSE HeaderWords
ArrayEnd(p) == ArrayOffset(p) + SqEntries

\* The sizes of the regions that can be mapped (external).
Region(p) ==
  [sqe |-> SqEntries * SqeWords(p.sqe128),
   sq  |-> IF p.noSqArray THEN CqesEnd(p) ELSE ArrayEnd(p),
   cq  |-> CqesEnd(p)]

\* The words the two Inner values reach through each mapping: the indices, the
\* index array that Inner::new fills in, the entries as S and C.
Reached ==
  LET cqes == CqesOffset + ring.cqEntries * CqeWords(cqe32)
  IN  [sqe |-> SqEntries * SqeWords(sqe128),
       sq  |-> Max({HeaderWords, IF ring.noSqArray THEN 0 ELSE ArrayEnd(ring),
                    IF ring.single THEN cqes ELSE 0}),
       cq  |-> cqes]

-----------------------------------------------------------------------------

Init ==
  /\ pc = "none" /\ ring \in RingParams
  /\ sqe128 = FALSE /\ cqe32 = FALSE /\ dontfork = FALSE
  /\ fdOpen = FALSE /\ maps = {} /\ noFork = {} /\ handles = {}

\* with_params: io_uring_setup succeeds for flags that name the entry types.
Build ==
  /\ pc = "none"
  /\ ring' \in RingParams
  /\ sqe128' = ring'.sqe128 /\ cqe32' = ring'.cqe32
  /\ dontfork' \in BOOLEAN
  /\ fdOpen' = TRUE
  /\ pc' = "map sqe"
  /\ UNCHANGED <<maps, noFork, handles>>

\* from_fd: a ring somebody else set up, as an IoUring of the small entries.
FromFd ==
  /\ pc = "none"
  /\ ring' \in RingParams
  /\ sqe128' = FALSE /\ cqe32' = FALSE
  /\ dontfork' = FALSE
  /\ fdOpen' = TRUE
  /\ pc' = "map sqe"
  /\ UNCHANGED <<maps, noFork, handles>>

-----------------------------------------------------------------------------
(* setup_queue                                                             *)

SqLen == ArrayOffset(ring) + SqEntries
CqLen == CqesOffset + ring.cqEntries * CqeWords(cqe32)
SqeLen == SqEntries * SqeWords(sqe128)
ScqLenOfSq == IF ring.single THEN SqLen ELSE SqLen
ScqLen == IF ring.single THEN Max({SqLen, CqLen}) ELSE SqLen

AfterMaps == IF dontfork THEN "advise sq" ELSE "live"

\* Mmap::new: the mapping is made, or `?' unwinds what there is.
Map(name, len, next) ==
  /\ \/ maps' = maps \cup {[name |-> name, len |-> len]} /\ pc' = next
     \/ UNCHANGED maps /\ pc' = "release"
  /\ UNCHANGED <<ring, sqe128, cqe32, dontfork, fdOpen, noFork, handles>>

MapSqe == pc = "map sqe" /\ Map("sqe", SqeLen, "map sq")
MapSq  == pc = "map sq" /\ Map("sq", ScqLen, IF ring.single THEN AfterMaps ELSE "map cq")
MapCq  == pc = "map cq" /\ Map("cq", CqLen, AfterMaps)

-----------------------------------------------------------------------------
(* The rest of build: dontfork                                             *)

AdviseThenStop(name, next) ==
  /\ \/ /\ noFork' = noFork \cup {m \in maps : m.name = name}
        /\ pc' = next
     \/ UNCHANGED noFork /\ pc' = "none"
  /\ UNCHANGED <<ring, sqe128, cqe32, dontfork, fdOpen, maps, handles>>
Advise(name, next) ==
  /\ \/ /\ noFork' = noFork \cup {m \in maps : m.name = name}
        /\ pc' = next
     \/ UNCHANGED noFork /\ pc' = "release"
  /\ UNCHANGED <<ring, sqe128, cqe32, dontfork, fdOpen, maps, handles>>

AdviseSq   == pc = "advise sq" /\ Advise("sq", "advise sqe")
AdviseSqeLast == pc = "advise sqe" /\ Advise("sqe", "live")
AdviseSqe  == pc = "advise sqe" /\ Advise("sqe", IF ring.single THEN "live" ELSE "advise cq")
AdviseCq   == pc = "advise cq" /\ Advise("cq", "live")

-----------------------------------------------------------------------------
(* submitter, split, submission, completion: a handle borrows the ring.     *)

Borrow(h) ==
  /\ pc = "live" /\ h \notin handles
  /\ handles' = handles \cup {h}
  /\ UNCHANGED <<pc, ring, sqe128, cqe32, dontfork, fdOpen, maps, noFork>>

Return(h) ==
  /\ h \in handles
  /\ handles' = handles \ {h}
  /\ UNCHANGED <<pc, ring, sqe128, cqe32, dontfork, fdOpen, maps, noFork>>

DropRingBorrowed ==
  /\ pc = "live"
  /\ pc' = "release"
  /\ UNCHANGED <<ring, sqe128, cqe32, dontfork, fdOpen, maps, noFork, handles>>

DropRing ==
  /\ pc = "live" /\ handles = {}
  /\ pc' = "release"
  /\ UNCHANGED <<ring, sqe128, cqe32, dontfork, fdOpen, maps, noFork, handles>>

\* What is dropped on the way out, after a failure or at the end: first the
\* mappings one by one, the descriptor last.

Unmap ==
  /\ pc = "release"
  /\ \E m \in maps : maps' = maps \ {m} /\ noFork' = noFork \ {m}
  /\ UNCHANGED <<pc, ring, sqe128, cqe32, dontfork, fdOpen, handles>>

CloseEarly ==
  /\ pc = "release"
  /\ fdOpen' = FALSE
  /\ pc' = IF maps = {} THEN "none" ELSE pc
  /\ UNCHANGED <<ring, sqe128, cqe32, dontfork, maps, noFork, handles>>

Close ==
  /\ pc = "release" /\ maps = {}
  /\ fdOpen' = FALSE
  /\ pc' = "none"
  /\ UNCHANGED <<ring, sqe128, cqe32, dontfork, maps, noFork, handles>>

Next ==
  \/ Build \/ FromFd
  \/ MapSqe \/ MapSq \/ MapCq
  \/ AdviseSq \/ AdviseSqe \/ AdviseCq
  \/ \E h \in Handles : Borrow(h) \/ Return(h)
  \/ DropRing \/ Unmap \/ Close

Spec == Init /\ [][Next]_vars

-----------------------------------------------------------------------------
(* Whichever call failed, and at whichever step, nothing of the attempt is  *)
(* left when it returns (lib.rs, the `?' of setup_queue and build), and on   *)
(* every path "MemoryMap is released before fd".                            *)
NothingLeaks ==
  /\ pc = "none" => ~fdOpen
  /\ ~fdOpen => maps = {}

(* Everything the pointers of the two Inner values, the index array and the *)
(* entries reach is inside a mapping, and no mapping is longer than the     *)
(* kernel's region (it would be refused).  The lengths are computed from    *)
(* offsets that are zero for a missing array.                               *)
PointersInsideMaps ==
  /\ pc = "live" \/ handles # {} =>
       \A name \in {"sqe", "sq"} \cup (IF ring.single THEN {} ELSE {"cq"}) :
         \E m \in maps : m.name = name /\ Reached[name] <= m.len
  /\ \A m \in maps : m.len <= Region(ring)[m.name]

(* "Do not make this io_uring instance accessible by child processes after  *)
(* a fork": once build has returned, no mapping is passed on, be they two   *)
(* or three.                                                                *)
ChildrenGetNoMapping == pc = "live" /\ dontfork => maps \subseteq noFork
=============================================================================
