---------------------------- MODULE Cancellation -----------------------------
(***************************************************************************)
(* Cancelling requests: types::CancelBuilder, the calls that carry it to    *)
(* the kernel (register_sync_cancel, AsyncCancel, AsyncCancel2) and what    *)
(* the program may conclude from the answer.                               *)
(*                                                                         *)
(* The kernel sees a number, a descriptor and a set of flags and nothing of *)
(* what the builder was made for.  The same number can be a descriptor and  *)
(* an index into the file table, 0 is a user_data like any other, requests  *)
(* may be queued and not submitted, or run and not be stopped any more, and *)
(* may complete while they are being cancelled.                            *)
(***************************************************************************)
EXTENDS Integers, Sequences, FiniteSets

CONSTANTS Requests,    \* slots of the program's requests
          UserData,    \* the values of user_data in use, 0 among them
          Numbers,     \* descriptors and indices into the file table
          FileAt,      \* which file a descriptor, an index stands for
          QueueLen     \* bound: entries in the submission queue

Kinds   == {"Fd", "Fixed"}
Targets == [kind : Kinds, n : Numbers]

ASSUME CancellationAssumption ==
    /\ 0 \in UserData /\ UserData \subseteq Nat
    /\ Numbers \subseteq Nat
    /\ DOMAIN FileAt = Targets
    /\ QueueLen \in Nat \ {0}

VARIABLES requests,  \* the program's requests: state, user_data, target
          sq,        \* entries pushed and not submitted, in order
          sync       \* the register_sync_cancel under way or answered last

vars == <<requests, sq, sync>>

\* "running": in a worker that cannot be stopped any more.
States == {"idle", "queued", "inflight", "running", "done", "cancelled"}

-----------------------------------------------------------------------------
(* CancelBuilder.  A builder is its flags, user_data and fd (None: a set    *)
(* that is empty); meant is what its constructor is documented to match.    *)

Any ==
    [flags |-> {"ANY"}, user_data |-> {}, fd |-> {},
     meant |-> [by |-> "any", key |-> {}, all |-> TRUE]]

ByUserData(u) ==
    [flags |-> {}, user_data |-> {u}, fd |-> {},
     meant |-> [by |-> "user_data", key |-> {u}, all |-> FALSE]]

ByFdUnfixed(t) ==
    [flags |-> {"FD"}, user_data |-> {}, fd |-> {t},
     meant |-> [by |-> "fd", key |-> {t}, all |-> FALSE]]

ByFd(t) ==
    [flags     |-> IF t.kind = "Fixed" THEN {"FD", "FD_FIXED"} ELSE {"FD"},
     user_data |-> {}, fd |-> {t},
     meant     |-> [by |-> "fd", key |-> {t}, all |-> FALSE]]

AllForgotten(b) == [b EXCEPT !.meant.all = TRUE]

All(b) == [b EXCEPT !.flags = @ \cup {"ALL"}, !.meant.all = TRUE]

Builders ==
    LET one == {Any} \cup {ByUserData(u) : u \in UserData} \cup {ByFd(t) : t \in Targets}
    IN  one \cup {All(b) : b \in one}

UnwrapOr(option, default) ==
    IF option = {} THEN default ELSE CHOOSE x \in option : TRUE

\* to_fd: a descriptor or an index, as the same number.

ToFd(b) == IF b.fd = {} THEN -1 ELSE (CHOOSE t \in b.fd : TRUE).n

\* The fields of the entry of AsyncCancel2 and of io_uring_sync_cancel_reg.
Wire(b) == [addr |-> UnwrapOr(b.user_data, 0), fd |-> ToFd(b), flags |-> b.flags]

\* AsyncCancel { user_data }, without a builder.
WireOfUserData(u) == [addr |-> u, fd |-> -1, flags |-> {}]

-----------------------------------------------------------------------------
(* The kernel (external): matches on what it is given.                      *)

Matches(wire, request) ==
    CASE "ANY" \in wire.flags -> TRUE
      [] "ANY" \notin wire.flags /\ "FD" \in wire.flags ->
           \E t \in Targets :
               /\ t.n = wire.fd
               /\ t.kind = IF "FD_FIXED" \in wire.flags THEN "Fixed" ELSE "Fd"
               /\ FileAt[request.target] = FileAt[t]
      [] OTHER -> request.user_data = wire.addr

Hit(wire, states) ==
    {r \in Requests : requests[r].state \in states /\ Matches(wire, requests[r])}

\* What a search stops: one request, or all that it finds.
Chosen(wire) ==
    LET found == Hit(wire, {"inflight"})
    IN  IF wire.flags \cap {"ALL", "ANY"} # {} \/ found = {}
        THEN {found} ELSE {{r} : r \in found}

Stop(S) ==
    [r \in Requests |-> IF r \in S THEN [requests[r] EXCEPT !.state = "cancelled"]
                                   ELSE requests[r]]

-----------------------------------------------------------------------------

Idle == [state |-> "idle", user_data |-> 0, target |-> CHOOSE t \in Targets : TRUE]
NoCall == [at |-> "none", wire |-> Wire(Any), meant |-> Any.meant, timeout |-> {}]

Init ==
    /\ requests = [r \in Requests |-> Idle]
    /\ sq = <<>>
    /\ sync = NoCall

\* The entries of the queue: a request, or a cancellation as it is encoded.
RequestEntry(r) == [request |-> {r}, wire |-> Wire(Any), meant |-> Any.meant]
CancelEntry(wire, meant) == [request |-> {}, wire |-> wire, meant |-> meant]

Enqueue(entry) == Len(sq) < QueueLen /\ sq' = Append(sq, entry)

\* The program uses a user_data again as it likes, also while it is in use.
PushRequest(r, u, t) ==
    /\ requests[r].state = "idle"
    /\ requests' = [requests EXCEPT ![r] = [state |-> "queued", user_data |-> u, target |-> t]]
    /\ Enqueue(RequestEntry(r))
    /\ UNCHANGED sync

\* opcode::AsyncCancel and AsyncCancel2, pushed.
AsyncCancel(u) ==
    /\ Enqueue(CancelEntry(WireOfUserData(u), ByUserData(u).meant))
    /\ UNCHANGED <<requests, sync>>

AsyncCancel2(b) ==
    /\ Enqueue(CancelEntry(Wire(b), b.meant))
    /\ UNCHANGED <<requests, sync>>

\* The kernel takes the next entry; a cancellation is carried out on the spot
\* and may find a request running that it cannot stop.
TakeRequest ==
    /\ sq # <<>> /\ Head(sq).request # {}
    /\ requests' = [r \in Requests |->
                      IF r \in Head(sq).request
                      THEN [requests[r] EXCEPT !.state = "inflight"] ELSE requests[r]]
    /\ sq' = Tail(sq)
    /\ UNCHANGED sync

TakeCancel ==
    /\ sq # <<>> /\ Head(sq).request = {}
    /\ \E S \in Chosen(Head(sq).wire) : requests' = Stop(S)
    /\ sq' = Tail(sq)
    /\ UNCHANGED sync

\* Requests begin to run in a worker and complete; the program reaps them.
Become(r, from, to) ==
    /\ requests[r].state \in from
    /\ requests' = [requests EXCEPT ![r] = IF to = "idle" THEN Idle ELSE [@ EXCEPT !.state = to]]
    /\ UNCHANGED <<sq, sync>>

Run(r)      == Become(r, {"inflight"}, "running")
Complete(r) == Become(r, {"inflight", "running"}, "done")
Reap(r)     == Become(r, {"done", "cancelled"}, "idle")

-----------------------------------------------------------------------------
(* register_sync_cancel(timeout, builder).                                  *)

\* The timeout as the kernel gets it; it waits for ever only for this one.
Forever == <<-1, -1>>
TimespecOrZero(timeout) == UnwrapOr(timeout, <<0, 0>>)
Timespec(timeout) == UnwrapOr(timeout, Forever)

\* The kernel (external) looks for requests: it stops what it can, and has to
\* wait for the one it looked for to finish if that is running.
SyncSearch(call, otherwise) ==
    \/ \E S \in Chosen(call.wire) :
         /\ S # {}
         /\ requests' = Stop(S)
         /\ sync' = [call EXCEPT !.at = "ok"]
    \/ /\ Hit(call.wire, {"running"}) # {}
       /\ IF call.wire.flags \cap {"ALL", "ANY"} = {}
          THEN sync' = [call EXCEPT !.at = "waiting"] /\ UNCHANGED requests
          ELSE /\ Hit(call.wire, {"inflight"}) = {}
               /\ sync' = [call EXCEPT !.at = "ok"] /\ UNCHANGED requests
    \/ /\ Hit(call.wire, {"inflight", "running"}) = {}
       /\ sync' = [call EXCEPT !.at = otherwise]
       /\ UNCHANGED requests

SyncCancel(b, timeout) ==
    /\ sync.at = "none"
    /\ SyncSearch([at |-> "none", wire |-> Wire(b), meant |-> b.meant,
                   timeout |-> timeout], "NotFound")
    /\ UNCHANGED sq

\* Woken, it looks again; what it waited for may be gone by then.
SyncRetry ==
    /\ sync.at = "waiting"
    /\ SyncSearch(sync, "ok")
    /\ UNCHANGED sq

SyncTimeout ==
    /\ sync.at = "waiting" /\ Timespec(sync.timeout) # Forever
    /\ sync' = [sync EXCEPT !.at = "ETIME"]
    /\ UNCHANGED <<requests, sq>>

SyncReturn ==
    /\ sync.at \in {"ok", "NotFound", "ETIME"}
    /\ sync' = NoCall
    /\ UNCHANGED <<requests, sq>>

Next ==
    \/ \E r \in Requests, u \in UserData, t \in Targets : PushRequest(r, u, t)
    \/ \E u \in UserData : AsyncCancel(u)
    \/ \E b \in Builders : AsyncCancel2(b)
    \/ TakeRequest
    \/ TakeCancel
    \/ \E r \in Requests : Run(r) \/ Complete(r) \/ Reap(r)
    \/ \E b \in Builders, timeout \in {{}, {<<0, 1>>}} : SyncCancel(b, timeout)
    \/ SyncRetry
    \/ SyncTimeout
    \/ SyncReturn

Spec == Init /\ [][Next]_vars

-----------------------------------------------------------------------------
(* Properties.                                                             *)

\* What the documentation of the constructors says is matched.
Meant(m, request) ==
    CASE m.by = "any"       -> TRUE
      [] m.by = "user_data" -> request.user_data \in m.key
      [] m.by = "fd"        -> \E t \in m.key : FileAt[request.target] = FileAt[t]

\* What the kernel looked for in a step, for an entry of the queue or for the call.
Searched ==
    (IF Len(sq') < Len(sq) /\ Head(sq).request = {} THEN {Head(sq).meant} ELSE {})
    \cup (IF sync'.at # sync.at /\ sync'.at \in {"ok", "waiting", "NotFound"}
          THEN {sync'.meant} ELSE {})

Stopped == {r \in Requests : requests'[r].state = "cancelled" /\ requests[r].state # "cancelled"}

\* Whichever call it went through, a cancellation stops only requests in flight
\* that its builder was made to match, only one of them without all(), and with
\* any() or all() every one.
StopsWhatWasMeant ==
    [][\A m \in Searched :
         /\ \A r \in Stopped : requests[r].state = "inflight" /\ Meant(m, requests[r])
         /\ m.all \/ Cardinality(Stopped) <= 1
         /\ m.all => \A r \in Requests :
                       requests'[r].state = "inflight" => ~Meant(m, requests[r])]_vars

\* The errors of register_sync_cancel.  NotFound: no request that was submitted
\* and is not complete matches.  ETIME: the call was waiting and its caller gave
\* a timeout; and a call goes to wait only when a request that matches is
\* running, which may have completed by the time the timeout elapses.
SyncErrorsAreTrue ==
    [][sync'.at # sync.at =>
         /\ sync'.at = "NotFound" =>
              \A r \in Requests :
                  requests[r].state \in {"inflight", "running"} =>
                      ~Meant(sync'.meant, requests[r])
         /\ sync'.at = "waiting" =>
              \E r \in Requests : requests[r].state = "running" /\ Meant(sync'.meant, requests[r])
         /\ sync'.at = "ETIME" => sync.at = "waiting" /\ sync.timeout # {}]_vars

=============================================================================
