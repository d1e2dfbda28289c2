------------------------------- MODULE TaskWork -------------------------------
(***************************************************************************)
(* Completions that the kernel has but has not posted yet.                  *)
(*                                                                         *)
(* With IORING_SETUP_COOP_TASKRUN the work that posts a completion runs     *)
(* when the task enters the kernel, with IORING_SETUP_DEFER_TASKRUN only    *)
(* when it enters with IORING_ENTER_GETEVENTS, and with IORING_SETUP_IOPOLL *)
(* completions are looked for only then too.  Whether a loop over a ring    *)
(* ever sees its completions depends on when submit_and_wait enters and     *)
(* with which flags, and on what taskrun() says.  The rings are without     *)
(* SQPOLL, which cannot be combined with the first two.                     *)
(***************************************************************************)
EXTENDS Naturals, FiniteSets

CONSTANTS Requests,    \* the requests of the program, used again and again
          SqEntries    \* entries of the submission queue

VARIABLES setup,     \* the setup flags of the ring
          loop,      \* which calls the program's loop makes
          requests,  \* how far each request has come
          sqFlags,   \* of the flags word of the submission queue: IORING_SQ_TASKRUN
          pc         \* the next step of the loop

vars == <<setup, loop, requests, sqFlags, pc>>

\* "work": finished, and the work that posts its completion is still to run.

In(state) == {r \in Requests : requests[r] = state}

Move(from, to) == [r \in Requests |-> IF requests[r] \in from THEN to ELSE requests[r]]

-----------------------------------------------------------------------------
(* setup_coop_taskrun, setup_defer_taskrun, setup_taskrun_flag,             *)
(* setup_iopoll: the combinations the kernel accepts.                       *)

Setups ==
    {s \in SUBSET {"COOP_TASKRUN", "DEFER_TASKRUN", "TASKRUN_FLAG", "IOPOLL"} :
        "TASKRUN_FLAG" \in s => s \cap {"COOP_TASKRUN", "DEFER_TASKRUN"} # {}}

Init ==
    /\ setup \in Setups
    /\ loop \in {"submit", "peek", "wait"}
    /\ requests = [r \in Requests |-> "idle"]
    /\ sqFlags = {}
    /\ pc = "push"

\* SubmissionQueue::taskrun.
Taskrun == "TASKRUN" \in sqFlags

-----------------------------------------------------------------------------
(* The kernel (external).                                                  *)

\* A request finishes.  IOPOLL finds out when it polls, the other rings queue
\* task work; without COOP or DEFER the task is interrupted to run it.
Finish(r) ==
    /\ requests[r] = "inflight"
    /\ IF setup = {}
       THEN requests' = [requests EXCEPT ![r] = "posted"] /\ UNCHANGED sqFlags
       ELSE /\ requests' = [requests EXCEPT ![r] = "work"]
            /\ sqFlags' = IF "TASKRUN_FLAG" \in setup /\ "IOPOLL" \notin setup
                          THEN {"TASKRUN"} ELSE sqFlags
    /\ UNCHANGED <<setup, loop, pc>>

\* Whether entering with these flags runs the work.
RunsWork(getevents) ==
    getevents \/ setup \cap {"DEFER_TASKRUN", "IOPOLL"} = {}

\* io_uring_enter: takes what is queued, runs the work if it may, and is then
\* at the step given, or waits for a completion.
Enter(getevents, want, next) ==
    LET taken == IF RunsWork(getevents)
                 THEN [r \in Requests |->
                         CASE requests[r] = "queued" -> "inflight"
                           [] requests[r] = "work"   -> "posted"
                           [] OTHER                  -> requests[r]]
                 ELSE Move({"queued"}, "inflight")
    IN  /\ requests' = taken
        /\ sqFlags' = IF RunsWork(getevents) THEN {} ELSE sqFlags
        /\ pc' = IF getevents /\ want > Cardinality({r \in Requests : taken[r] = "posted"})
                 THEN "waiting" ELSE next

\* A task that waits for a completion runs the work it is woken for.
Wake ==
    /\ pc = "waiting"
    /\ In("work") \cup In("posted") # {}
    /\ requests' = Move({"work"}, "posted")
    /\ sqFlags' = {}
    /\ pc' = "reap"
    /\ UNCHANGED <<setup, loop>>

-----------------------------------------------------------------------------
(* The crate.                                                              *)

\* submit_and_wait(want) on a ring without SQPOLL: the flags, and the call.
GetEvents(want) == want > 0 \/ "IOPOLL" \in setup

SubmitAndWaitIfQueued(want, next) ==
    IF In("queued") = {} /\ want = 0
    THEN pc' = next /\ UNCHANGED <<requests, sqFlags>>
    ELSE Enter(GetEvents(want), want, next)

SubmitAndWait(want, next) == Enter(GetEvents(want), want, next)

-----------------------------------------------------------------------------
(* The loops of programs: each turn pushes, submits and reaps.              *)

\* The program pushes what it likes of what it has; it does not submit and
\* wait with nothing outstanding.  push refuses what the queue has no room for.
Push(S) ==
    /\ pc = "push"
    /\ In("idle") = Requests => S # {}
    /\ Cardinality(S) <= SqEntries
    /\ requests' = [r \in Requests |-> IF r \in S THEN "queued" ELSE requests[r]]
    /\ pc' = "submit"
    /\ UNCHANGED <<setup, loop, sqFlags>>

\* "wait" waits for a completion, "submit" calls submit() in every turn, "peek"
\* calls submit() when it has pushed and leaves the rest to taskrun().
Submit ==
    /\ pc = "submit"
    /\ CASE loop = "wait"   -> SubmitAndWait(1, "reap")
         [] loop = "submit" -> SubmitAndWait(0, "reap")
         [] loop = "peek"   -> IF In("queued") # {}
                               THEN SubmitAndWait(0, "peek")
                               ELSE pc' = "peek" /\ UNCHANGED <<requests, sqFlags>>
    /\ UNCHANGED <<setup, loop>>

\* As the documentation of setup_taskrun_flag has it: when taskrun() says that
\* completions are pending the program enters the kernel to process them.
Peek ==
    /\ pc = "peek"
    /\ IF Taskrun
       THEN SubmitAndWait(1, "reap")
       ELSE pc' = "reap" /\ UNCHANGED <<requests, sqFlags>>
    /\ UNCHANGED <<setup, loop>>

\* sync of the completion queue, and the loop over what it shows.
Reap ==
    /\ pc = "reap"
    /\ requests' = Move({"posted"}, "idle")
    /\ pc' = "push"
    /\ UNCHANGED <<setup, loop, sqFlags>>

Next ==
    \/ \E S \in SUBSET In("idle") : Push(S)
    \/ Submit
    \/ Peek
    \/ Reap
    \/ Wake
    \/ \E r \in Requests : Finish(r)

Spec == Init /\ [][Next]_vars

\* The program keeps turning its loop, the kernel finishes every request and
\* wakes a task it has work for.
Fairness ==
    /\ WF_vars(\E S \in SUBSET In("idle") : Push(S))
    /\ WF_vars(Submit) /\ WF_vars(Peek) /\ WF_vars(Reap)
    /\ WF_vars(Wake)
    /\ \A r \in Requests : WF_vars(Finish(r))

-----------------------------------------------------------------------------
(* Properties.                                                             *)

\* Whether the loop sees to it that pending work runs: one that waits always
\* does; one that only submits does unless the ring defers the work to a call
\* with GETEVENTS (submit() sets it for IOPOLL, and does not for DEFER_TASKRUN);
\* one that peeks needs TASKRUN_FLAG to be told, which IOPOLL does not set.
Triggers ==
    CASE loop = "wait"   -> TRUE
      [] loop = "submit" -> "IOPOLL" \in setup \/ "DEFER_TASKRUN" \notin setup
      [] loop = "peek"   -> setup = {} \/ ("TASKRUN_FLAG" \in setup /\ "IOPOLL" \notin setup)

\* In each such loop every request that was submitted is reaped.
SubmittedIsReaped ==
    \A r \in Requests : (Triggers /\ requests[r] = "inflight") ~> (requests[r] = "idle")

=============================================================================
