------------------------------- MODULE MCRings -------------------------------
(***************************************************************************)
(* Instances of RingFd, RingLifecycle and TaskWork for TLC: what belongs to *)
(* a ring as a whole.  The three share no state, so one run explores them   *)
(* one after the other: `part' says which of them moves.  The others stay   *)
(* in an initial state, TaskWork at a step its loop never comes to.         *)
(***************************************************************************)
EXTENDS RingFd

CONSTANTS SqEntries, CqSizes, Requests

VARIABLES part,
          pc, ring, sqe128, cqe32, dontfork, fdOpen, maps, noFork, handles,
          setup, loop, requests, sqFlags, step

Life == INSTANCE RingLifecycle
Loop == INSTANCE TaskWork WITH pc <- step

\* The completion queue is never the smaller one (lib.rs, setup_cqsize: "the
\* value must be greater than `entries`"; the kernel refuses less).
ASSUME SizesAssumption ==
  /\ SqEntries \in Nat \ {0} /\ CqSizes \subseteq Nat
  /\ \A n \in CqSizes : n >= SqEntries

MCFds == 3..4
MCSlots == 0..1

lifeVars == <<pc, ring, sqe128, cqe32, dontfork, fdOpen, maps, noFork, handles>>
loopVars == <<setup, loop, requests, sqFlags, step>>

RingsInit ==
  /\ part \in {"descriptors", "lifecycle", "task work"}
  /\ Init /\ Life!Init
  /\ part # "lifecycle" => ring = CHOOSE p \in Life!RingParams : TRUE
  /\ IF part = "task work" THEN Loop!Init
     ELSE /\ setup = {} /\ loop = "wait" /\ sqFlags = {} /\ step = "never"
          /\ requests = [r \in Requests |-> "idle"]

DescriptorStep == part = "descriptors" /\ Next /\ UNCHANGED <<part, lifeVars, loopVars>>
LifecycleStep  == part = "lifecycle" /\ Life!Next /\ UNCHANGED <<part, vars, loopVars>>
LoopStep       == part = "task work" /\ Loop!Next /\ UNCHANGED <<part, vars, lifeVars>>

RingsSpec ==
  /\ RingsInit
  /\ [][DescriptorStep \/ LifecycleStep \/ LoopStep]_<<part, vars, lifeVars, loopVars>>
  /\ Loop!Fairness

\* The properties of RingLifecycle and TaskWork, under names a configuration can use.
NothingLeaks         == Life!NothingLeaks
PointersInsideMaps   == Life!PointersInsideMaps
ChildrenGetNoMapping == Life!ChildrenGetNoMapping
SubmittedIsReaped    == Loop!SubmittedIsReaped
=============================================================================
