------------------------- MODULE RegistrationProofs -------------------------
(***************************************************************************)
(* Proofs about Cancellation, FileTable and BufferTable, for every set of   *)
(* requests, files, buffers and rings, every range of numbers and table.    *)
(***************************************************************************)
EXTENDS MCRegistration, TLAPS, FiniteSetTheorems, SequenceTheorems

-----------------------------------------------------------------------------
(* Cancellation.  What is on its way to the kernel says what was meant.     *)

\* The kernel stops all it finds.
TakesAll(wire) == wire.flags \cap {"ALL", "ANY"} # {}

\* The encoded form matches the requests that were meant, and as many.
Says(wire, meant) ==
  /\ \A request : Matches(wire, request) <=> Meant(meant, request)
  /\ TakesAll(wire) <=> meant.all

\* What the queue and the call of register_sync_cancel can hold.
QueueEntries ==
  {RequestEntry(r) : r \in Requests}
  \cup {CancelEntry(Wire(b), b.meant) : b \in Builders}
  \cup {CancelEntry(WireOfUserData(u), ByUserData(u).meant) : u \in UserData}

CallStates == {"none", "ok", "waiting", "NotFound", "ETIME"}
Calls ==
  {c \in [at : CallStates, wire : {Wire(b) : b \in Builders},
          meant : {b.meant : b \in Builders}, timeout : {{}, {<<0, 1>>}}] :
     \E b \in Builders : c.wire = Wire(b) /\ c.meant = b.meant}

AnyTarget == CHOOSE t \in Targets : TRUE
RequestType == [state : States, user_data : UserData, target : Targets \cup {AnyTarget}]

CancelInv ==
  /\ requests \in [Requests -> RequestType]
  /\ sq \in Seq(QueueEntries)
  /\ sync \in Calls

\* The option of a builder that has a value.
LEMMA UnwrapSome ==
  ASSUME NEW x, NEW default
  PROVE  UnwrapOr({x}, default) = x
BY DEF UnwrapOr

LEMMA UnwrapNone ==
  ASSUME NEW default
  PROVE  UnwrapOr({}, default) = default
BY DEF UnwrapOr

\* Without the flags of the others, user_data is compared.
LEMMA SaysUserData ==
  ASSUME NEW u \in UserData, NEW flags \in SUBSET {"ALL"}, NEW all \in BOOLEAN,
         all <=> "ALL" \in flags
  PROVE  Says([addr |-> u, fd |-> -1, flags |-> flags],
              [by |-> "user_data", key |-> {u}, all |-> all])
BY DEF Says, Matches, Meant, TakesAll

\* ANY stops everything.
LEMMA SaysAny ==
  ASSUME NEW flags \in SUBSET {"ALL", "ANY"}, "ANY" \in flags
  PROVE  Says([addr |-> 0, fd |-> -1, flags |-> flags],
              [by |-> "any", key |-> {}, all |-> TRUE])
BY DEF Says, Matches, Meant, TakesAll

\* FD and FD_FIXED tell a descriptor from an index of the same number.
LEMMA SaysFd ==
  ASSUME NEW t \in Targets, NEW flags \in SUBSET {"FD", "FD_FIXED", "ALL"}, NEW all \in BOOLEAN,
         "FD" \in flags, "FD_FIXED" \in flags <=> t.kind = "Fixed", all <=> "ALL" \in flags
  PROVE  Says([addr |-> 0, fd |-> t.n, flags |-> flags],
              [by |-> "fd", key |-> {t}, all |-> all])
<1> DEFINE wire == [addr |-> 0, fd |-> t.n, flags |-> flags]
           meant == [by |-> "fd", key |-> {t}, all |-> all]
<1>1. ASSUME NEW v \in Targets, v.n = t.n, v.kind = IF "FD_FIXED" \in flags THEN "Fixed" ELSE "Fd"
      PROVE  v = t
  BY <1>1 DEF Targets, Kinds
<1>2. t.kind = IF "FD_FIXED" \in flags THEN "Fixed" ELSE "Fd"
  BY DEF Targets, Kinds
<1>3. "ANY" \notin flags
  OBVIOUS
<1>4. ASSUME NEW request PROVE Matches(wire, request) <=> Meant(meant, request)
  BY <1>1, <1>2, <1>3 DEF Matches, Meant
<1>5. TakesAll(wire) <=> meant.all
  BY <1>3 DEF TakesAll
<1> QED
  BY <1>4, <1>5 DEF Says

\* What all() makes of a builder.
LEMMA AllOf ==
  ASSUME NEW flags, NEW user_data, NEW fd, NEW by, NEW key, NEW all
  PROVE  All([flags |-> flags, user_data |-> user_data, fd |-> fd,
              meant |-> [by |-> by, key |-> key, all |-> all]])
         = [flags |-> flags \cup {"ALL"}, user_data |-> user_data, fd |-> fd,
            meant |-> [by |-> by, key |-> key, all |-> TRUE]]
<1>1. ASSUME NEW b, NEW add, NEW val
      PROVE  [b EXCEPT !.flags = @ \cup add, !.meant.all = val]
             = [[b EXCEPT !.flags = b.flags \cup add] EXCEPT !.meant = [b.meant EXCEPT !.all = val]]
  OBVIOUS
<1>2. ASSUME NEW m, NEW g, NEW n
      PROVE  [[[flags |-> flags, user_data |-> user_data, fd |-> fd, meant |-> m]
                 EXCEPT !.flags = g] EXCEPT !.meant = n]
             = [flags |-> g, user_data |-> user_data, fd |-> fd, meant |-> n]
  <2>1. [[flags |-> flags, user_data |-> user_data, fd |-> fd, meant |-> m] EXCEPT !.flags = g]
        = [flags |-> g, user_data |-> user_data, fd |-> fd, meant |-> m]
    OBVIOUS
  <2>2. [[flags |-> g, user_data |-> user_data, fd |-> fd, meant |-> m] EXCEPT !.meant = n]
        = [flags |-> g, user_data |-> user_data, fd |-> fd, meant |-> n]
    OBVIOUS
  <2> QED
    BY <2>1, <2>2, Zenon
<1>3. ASSUME NEW val
      PROVE  [[by |-> by, key |-> key, all |-> all] EXCEPT !.all = val] = [by |-> by, key |-> key, all |-> val]
  OBVIOUS
<1> DEFINE m == [by |-> by, key |-> key, all |-> all]
           b == [flags |-> flags, user_data |-> user_data, fd |-> fd, meant |-> m]
<1>4. b.flags = flags /\ b.meant = m
  OBVIOUS
<1>5. [m EXCEPT !.all = TRUE] = [by |-> by, key |-> key, all |-> TRUE]
  BY <1>3, Zenon
<1>6. All(b) = [[b EXCEPT !.flags = b.flags \cup {"ALL"}] EXCEPT !.meant = [b.meant EXCEPT !.all = TRUE]]
  BY <1>1, Zenon DEF All
<1> HIDE DEF m
<1>7. All(b) = [[b EXCEPT !.flags = flags \cup {"ALL"}] EXCEPT !.meant = [m EXCEPT !.all = TRUE]]
  BY <1>4, <1>6, Zenon
<1>8. All(b) = [flags |-> flags \cup {"ALL"}, user_data |-> user_data, fd |-> fd,
                meant |-> [m EXCEPT !.all = TRUE]]
  BY <1>2, <1>7, Zenon
<1> QED
  BY <1>5, <1>8, Zenon DEF m

\* CancelBuilder: every builder says what its constructor is documented to match.
LEMMA BuildersSay ==
  ASSUME NEW b \in Builders
  PROVE  Says(Wire(b), b.meant)
<1>1. ASSUME NEW flags \in SUBSET {"ALL", "ANY"}, "ANY" \in flags,
             b = [flags |-> flags, user_data |-> {}, fd |-> {},
                  meant |-> [by |-> "any", key |-> {}, all |-> TRUE]]
      PROVE  Says(Wire(b), b.meant)
  <2>1. Wire(b) = [addr |-> 0, fd |-> -1, flags |-> flags]
    BY <1>1 DEF Wire, UnwrapOr, ToFd
  <2>2. b.meant = [by |-> "any", key |-> {}, all |-> TRUE]
    BY <1>1
  <2> QED
    BY <1>1, <2>1, <2>2, SaysAny, Zenon
<1>2. ASSUME NEW u \in UserData, NEW flags \in SUBSET {"ALL"}, NEW all \in BOOLEAN,
             all <=> "ALL" \in flags,
             b = [flags |-> flags, user_data |-> {u}, fd |-> {},
                  meant |-> [by |-> "user_data", key |-> {u}, all |-> all]]
      PROVE  Says(Wire(b), b.meant)
  <2>1. Wire(b) = [addr |-> u, fd |-> -1, flags |-> flags]
    BY <1>2, UnwrapSome DEF Wire, ToFd
  <2>2. b.meant = [by |-> "user_data", key |-> {u}, all |-> all]
    BY <1>2
  <2> QED
    BY <1>2, <2>1, <2>2, SaysUserData, Zenon
<1>3. ASSUME NEW t \in Targets, NEW flags \in SUBSET {"FD", "FD_FIXED", "ALL"},
             NEW all \in BOOLEAN, "FD" \in flags, "FD_FIXED" \in flags <=> t.kind = "Fixed",
             all <=> "ALL" \in flags,
             b = [flags |-> flags, user_data |-> {}, fd |-> {t},
                  meant |-> [by |-> "fd", key |-> {t}, all |-> all]]
      PROVE  Says(Wire(b), b.meant)
  <2>1. Wire(b) = [addr |-> 0, fd |-> t.n, flags |-> flags]
    <3>1. (CHOOSE x \in {t} : TRUE) = t
      OBVIOUS
    <3> QED
      BY <1>3, <3>1 DEF Wire, ToFd, UnwrapOr
  <2>2. b.meant = [by |-> "fd", key |-> {t}, all |-> all]
    BY <1>3
  <2> QED
    BY <1>3, <2>1, <2>2, SaysFd, Zenon
<1>4. CASE b \in {Any, All(Any)}
  <2>1. Any = [flags |-> {"ANY"}, user_data |-> {}, fd |-> {},
               meant |-> [by |-> "any", key |-> {}, all |-> TRUE]]
    BY DEF Any
  <2>2. All(Any) = [flags |-> {"ANY", "ALL"}, user_data |-> {}, fd |-> {},
                    meant |-> [by |-> "any", key |-> {}, all |-> TRUE]]
    <3>1. {"ANY"} \cup {"ALL"} = {"ANY", "ALL"}
      OBVIOUS
    <3> QED
      BY <2>1, <3>1, AllOf
  <2> QED
    BY <1>1, <1>4, <2>1, <2>2
<1>5. CASE \E u \in UserData : b \in {ByUserData(u), All(ByUserData(u))}
  <2>1. PICK u \in UserData : b \in {ByUserData(u), All(ByUserData(u))}
    BY <1>5
  <2>2. ByUserData(u) = [flags |-> {}, user_data |-> {u}, fd |-> {},
                         meant |-> [by |-> "user_data", key |-> {u}, all |-> FALSE]]
    BY DEF ByUserData
  <2>3. All(ByUserData(u)) = [flags |-> {"ALL"}, user_data |-> {u}, fd |-> {},
                              meant |-> [by |-> "user_data", key |-> {u}, all |-> TRUE]]
    <3>1. {} \cup {"ALL"} = {"ALL"}
      OBVIOUS
    <3>2. All([flags |-> {}, user_data |-> {u}, fd |-> {},
               meant |-> [by |-> "user_data", key |-> {u}, all |-> FALSE]])
          = [flags |-> {} \cup {"ALL"}, user_data |-> {u}, fd |-> {},
             meant |-> [by |-> "user_data", key |-> {u}, all |-> TRUE]]
      BY AllOf, SMTT(30)
    <3> QED
      BY <2>2, <3>1, <3>2, Zenon
  <2> QED
    BY <1>2, <2>1, <2>2, <2>3
<1>6. CASE \E t \in Targets : b \in {ByFd(t), All(ByFd(t))}
  <2>1. PICK t \in Targets : b \in {ByFd(t), All(ByFd(t))}
    BY <1>6
  <2> DEFINE flags == IF t.kind = "Fixed" THEN {"FD", "FD_FIXED"} ELSE {"FD"}
  <2>2. ByFd(t) = [flags |-> flags, user_data |-> {}, fd |-> {t},
                   meant |-> [by |-> "fd", key |-> {t}, all |-> FALSE]]
    BY DEF ByFd
  <2>3. All(ByFd(t)) = [flags |-> flags \cup {"ALL"}, user_data |-> {}, fd |-> {t},
                        meant |-> [by |-> "fd", key |-> {t}, all |-> TRUE]]
    <3> HIDE DEF flags
    <3>1. All([flags |-> flags, user_data |-> {}, fd |-> {t},
               meant |-> [by |-> "fd", key |-> {t}, all |-> FALSE]])
          = [flags |-> flags \cup {"ALL"}, user_data |-> {}, fd |-> {t},
             meant |-> [by |-> "fd", key |-> {t}, all |-> TRUE]]
      BY AllOf, SMTT(30)
    <3> QED
      BY <2>2, <3>1, Zenon
  <2>4. /\ flags \in SUBSET {"FD", "FD_FIXED", "ALL"}
        /\ "FD" \in flags /\ "ALL" \notin flags
        /\ "FD_FIXED" \in flags <=> t.kind = "Fixed"
    OBVIOUS
  <2> HIDE DEF flags
  <2>5. CASE b = ByFd(t)
    BY <1>3, <2>2, <2>4, <2>5
  <2>6. CASE b = All(ByFd(t))
    BY <1>3, <2>3, <2>4, <2>6
  <2> QED
    BY <2>1, <2>5, <2>6
<1> QED
  BY <1>4, <1>5, <1>6 DEF Builders

\* So does every cancellation in the queue, and that of the call under way.
LEMMA CancellationsSay ==
  ASSUME CancelInv
  PROVE  /\ sq # <<>> /\ Head(sq).request = {} => Says(Head(sq).wire, Head(sq).meant)
         /\ Says(sync.wire, sync.meant)
<1>1. ASSUME NEW u \in UserData
      PROVE  Says(WireOfUserData(u), ByUserData(u).meant)
  <2>1. WireOfUserData(u) = [addr |-> u, fd |-> -1, flags |-> {}]
    BY DEF WireOfUserData
  <2>2. ByUserData(u).meant = [by |-> "user_data", key |-> {u}, all |-> FALSE]
    BY DEF ByUserData
  <2> QED
    BY <2>1, <2>2, SaysUserData
<1>2. ASSUME NEW e \in QueueEntries, e.request = {}
      PROVE  Says(e.wire, e.meant)
  <2>1. ASSUME NEW r \in Requests, e = RequestEntry(r) PROVE FALSE
    BY <1>2, <2>1 DEF RequestEntry
  <2>2. ASSUME NEW wire, NEW meant, Says(wire, meant), e = CancelEntry(wire, meant)
        PROVE  Says(e.wire, e.meant)
    BY <2>2, Zenon DEF CancelEntry
  <2> QED
    BY <1>1, <1>2, <2>1, <2>2, BuildersSay DEF QueueEntries
<1>3. sq # <<>> => Head(sq) \in QueueEntries
  BY DEF CancelInv
<1>4. Says(sync.wire, sync.meant)
  <2>1. PICK b \in Builders : sync.wire = Wire(b) /\ sync.meant = b.meant
    BY DEF CancelInv, Calls
  <2> QED
    BY <2>1, BuildersSay, Zenon
<1> QED
  BY <1>2, <1>3, <1>4

\* A change of state alone leaves a request what it is.
LEMMA StateChanges ==
  ASSUME NEW q \in RequestType, NEW state \in States
  PROVE  /\ [q EXCEPT !.state = state] \in RequestType
         /\ [q EXCEPT !.state = state].state = state
BY DEF RequestType

LEMMA IdleIsRequest == Idle \in RequestType
BY CancellationAssumption DEF Idle, RequestType, States, AnyTarget

\* What a search of the kernel leaves behind.
LEMMA StopChanges ==
  ASSUME CancelInv, NEW S \in SUBSET Requests
  PROVE  /\ Stop(S) \in [Requests -> RequestType]
         /\ \A r \in Requests :
              Stop(S)[r].state = IF r \in S THEN "cancelled" ELSE requests[r].state
<1>1. requests \in [Requests -> RequestType] /\ "cancelled" \in States
  BY DEF CancelInv, States
<1>2. ASSUME NEW r \in Requests
      PROVE  /\ Stop(S)[r] \in RequestType
             /\ Stop(S)[r].state = IF r \in S THEN "cancelled" ELSE requests[r].state
  <2>1. Stop(S)[r] = IF r \in S THEN [requests[r] EXCEPT !.state = "cancelled"] ELSE requests[r]
    BY DEF Stop
  <2> QED
    BY <1>1, <2>1, StateChanges
<1> QED
  BY <1>2 DEF Stop

LEMMA ChosenAreInflight ==
  ASSUME NEW wire, NEW S \in Chosen(wire)
  PROVE  S \subseteq Hit(wire, {"inflight"}) /\ S \subseteq Requests
BY DEF Chosen, Hit

\* The queue: what is pushed is an entry, what is taken leaves entries.
LEMMA EntriesOfQueue ==
  ASSUME CancelInv
  PROVE  /\ sq # <<>> => Tail(sq) \in Seq(QueueEntries) /\ Len(Tail(sq)) < Len(sq)
         /\ \A e \in QueueEntries :
              Append(sq, e) \in Seq(QueueEntries) /\ Len(Append(sq, e)) > Len(sq)
BY DEF CancelInv

LEMMA IsCall ==
  ASSUME NEW at \in CallStates, NEW b \in Builders,
         NEW timeout \in {{}, {<<0, 1>>}}
  PROVE  [at |-> at, wire |-> Wire(b), meant |-> b.meant, timeout |-> timeout] \in Calls
BY DEF Calls

LEMMA NoCallIsCall == NoCall \in Calls
<1>1. Any \in Builders
  BY DEF Builders
<1> QED
  BY <1>1, IsCall DEF NoCall, CallStates

LEMMA CancelInit == Init => CancelInv
<1> SUFFICES ASSUME Init PROVE CancelInv
  OBVIOUS
<1>1. requests \in [Requests -> RequestType]
  BY IdleIsRequest DEF Init
<1>2. sync \in Calls
  BY NoCallIsCall DEF Init
<1> QED
  BY <1>1, <1>2 DEF Init, CancelInv

LEMMA CallsMove ==
  ASSUME NEW call \in Calls, NEW at \in CallStates
  PROVE  /\ [call EXCEPT !.at = at] \in Calls
         /\ [call EXCEPT !.at = at].at = at
         /\ [call EXCEPT !.at = at].meant = call.meant
BY DEF Calls

\* The kernel's search, for the call as it comes and as it is woken.
LEMMA SearchKeeps ==
  ASSUME CancelInv, NEW call \in Calls, NEW otherwise \in {"ok", "NotFound"},
         SyncSearch(call, otherwise), UNCHANGED sq
  PROVE  CancelInv'
<1>1. sync' \in Calls
  <2>1. PICK at \in CallStates : sync' = [call EXCEPT !.at = at]
    BY DEF SyncSearch, CallStates
  <2> QED
    BY <2>1, CallsMove
<1>2. requests' \in [Requests -> RequestType]
  BY StopChanges, ChosenAreInflight DEF SyncSearch, CancelInv
<1> QED
  BY <1>1, <1>2 DEF CancelInv

LEMMA PushKeeps ==
  ASSUME CancelInv, NEW e \in QueueEntries, Enqueue(e), UNCHANGED sync,
         requests' \in [Requests -> RequestType]
  PROVE  CancelInv'
BY EntriesOfQueue DEF CancelInv, Enqueue

\* A request that was pushed, taken, run, completed or reaped.
LEMMA RequestsMove ==
  ASSUME CancelInv
  PROVE  /\ \A r \in Requests, u \in UserData, t \in Targets :
              PushRequest(r, u, t) => requests' \in [Requests -> RequestType]
         /\ TakeRequest => requests' \in [Requests -> RequestType]
         /\ \A r \in Requests : Run(r) \/ Complete(r) \/ Reap(r) =>
              requests' \in [Requests -> RequestType]
<1>1. requests \in [Requests -> RequestType]
  BY DEF CancelInv
<1>2. ASSUME NEW r \in Requests, NEW u \in UserData, NEW t \in Targets, PushRequest(r, u, t)
      PROVE  requests' \in [Requests -> RequestType]
  <2>1. [state |-> "queued", user_data |-> u, target |-> t] \in RequestType
    BY DEF RequestType, States
  <2> QED
    BY <1>1, <1>2, <2>1 DEF PushRequest
<1>3. ASSUME TakeRequest PROVE requests' \in [Requests -> RequestType]
  <2>1. \A r \in Requests : [requests[r] EXCEPT !.state = "inflight"] \in RequestType
    BY <1>1, StateChanges DEF States
  <2> QED
    BY <1>1, <1>3, <2>1 DEF TakeRequest
<1>4. ASSUME NEW r \in Requests, Run(r) \/ Complete(r) \/ Reap(r)
      PROVE  requests' \in [Requests -> RequestType]
  <2>1. PICK state \in States :
          requests' = [requests EXCEPT ![r] = IF state = "idle" THEN Idle ELSE [@ EXCEPT !.state = state]]
    BY <1>4 DEF Run, Complete, Reap, Become, States
  <2>2. [requests[r] EXCEPT !.state = state] \in RequestType
    BY <1>1, StateChanges
  <2> QED
    BY <1>1, <2>1, <2>2, IdleIsRequest
<1> QED
  BY <1>2, <1>3, <1>4

LEMMA CancelStep ==
  ASSUME CancelInv, [Next]_vars
  PROVE  CancelInv'
<1>1. requests \in [Requests -> RequestType] /\ sync \in Calls
  BY DEF CancelInv
<1>2. ASSUME NEW r \in Requests, NEW u \in UserData, NEW t \in Targets, PushRequest(r, u, t)
      PROVE  CancelInv'
  <2>1. RequestEntry(r) \in QueueEntries
    BY DEF QueueEntries
  <2> QED
    BY <1>2, <2>1, PushKeeps, RequestsMove DEF PushRequest
<1>3. ASSUME NEW u \in UserData, AsyncCancel(u) PROVE CancelInv'
  <2>1. CancelEntry(WireOfUserData(u), ByUserData(u).meant) \in QueueEntries
    BY DEF QueueEntries
  <2> QED
    BY <1>1, <1>3, <2>1, PushKeeps DEF AsyncCancel
<1>4. ASSUME NEW b \in Builders, AsyncCancel2(b) PROVE CancelInv'
  <2>1. CancelEntry(Wire(b), b.meant) \in QueueEntries
    BY DEF QueueEntries
  <2> QED
    BY <1>1, <1>4, <2>1, PushKeeps DEF AsyncCancel2
<1>5. CASE TakeRequest
  BY <1>5, EntriesOfQueue, RequestsMove DEF TakeRequest, CancelInv
<1>6. CASE TakeCancel
  <2>1. PICK S \in Chosen(Head(sq).wire) : requests' = Stop(S)
    BY <1>6 DEF TakeCancel
  <2>2. S \in SUBSET Requests
    BY <2>1, ChosenAreInflight
  <2>3. requests' \in [Requests -> RequestType]
    BY <2>1, <2>2, StopChanges
  <2> QED
    BY <1>1, <1>6, <2>3, EntriesOfQueue DEF TakeCancel, CancelInv
<1>7. ASSUME NEW r \in Requests, Run(r) \/ Complete(r) \/ Reap(r) PROVE CancelInv'
  <2>1. UNCHANGED <<sq, sync>>
    BY <1>7 DEF Run, Complete, Reap, Become
  <2> QED
    BY <1>7, <2>1, RequestsMove DEF CancelInv
<1>8. ASSUME NEW b \in Builders, NEW timeout \in {{}, {<<0, 1>>}}, SyncCancel(b, timeout)
      PROVE  CancelInv'
  <2> DEFINE asked == [at |-> "none", wire |-> Wire(b), meant |-> b.meant, timeout |-> timeout]
  <2>1. asked \in Calls
    BY IsCall DEF CallStates
  <2> HIDE DEF asked
  <2>2. SyncSearch(asked, "NotFound") /\ UNCHANGED sq
    BY <1>8 DEF SyncCancel, asked
  <2>3. PICK call \in Calls : SyncSearch(call, "NotFound") /\ UNCHANGED sq
    BY <2>1, <2>2
  <2> QED
    BY <2>3, SearchKeeps
<1>9. CASE SyncRetry
  <2>1. PICK call \in Calls : SyncSearch(call, "ok") /\ UNCHANGED sq
    BY <1>1, <1>9 DEF SyncRetry
  <2> QED
    BY <2>1, SearchKeeps
<1>10. CASE SyncTimeout
  <2>1. [sync EXCEPT !.at = "ETIME"] \in Calls
    BY <1>1, CallsMove DEF CallStates
  <2> QED
    BY <1>10, <2>1 DEF SyncTimeout, CancelInv
<1>11. CASE SyncReturn
  BY <1>11, NoCallIsCall DEF SyncReturn, CancelInv
<1>12. CASE UNCHANGED vars
  BY <1>12 DEF vars, CancelInv
<1> QED
  BY <1>2, <1>3, <1>4, <1>5, <1>6, <1>7, <1>8, <1>9, <1>10, <1>11, <1>12 DEF Next

-----------------------------------------------------------------------------
\* What StopsWhatWasMeant says of one meaning.
Rightly(m) ==
  /\ \A r \in Stopped : requests[r].state = "inflight" /\ Meant(m, requests[r])
  /\ m.all \/ Cardinality(Stopped) <= 1
  /\ m.all => \A r \in Requests : requests'[r].state = "inflight" => ~Meant(m, requests[r])

\* A search that stops what it chose, of those in flight.
LEMMA SearchStops ==
  ASSUME CancelInv, NEW wire, NEW meant, Says(wire, meant), NEW S \in Chosen(wire),
         requests' = Stop(S)
  PROVE  Rightly(meant)
<1> DEFINE found == Hit(wire, {"inflight"})
<1>1. /\ S \in SUBSET Requests /\ S \subseteq found
      /\ \A r \in found : requests[r].state = "inflight" /\ Meant(meant, requests[r])
  BY ChosenAreInflight DEF Hit, Says
<1>2. \A r \in Requests : requests'[r].state = IF r \in S THEN "cancelled" ELSE requests[r].state
  BY <1>1, StopChanges
<1>3. Stopped = S
  BY <1>1, <1>2 DEF Stopped
<1>4. meant.all \/ Cardinality(S) <= 1
  <2>1. SUFFICES ASSUME ~meant.all PROVE Cardinality(S) <= 1
    OBVIOUS
  <2>2. ~TakesAll(wire)
    BY <2>1 DEF Says
  <2>3. S = {} \/ \E r \in found : S = {r}
    BY <2>2 DEF Chosen, TakesAll
  <2>4. CASE S = {}
    BY <2>4, FS_EmptySet
  <2>5. ASSUME NEW r, S = {r} PROVE Cardinality(S) <= 1
    <3>1. Cardinality({r}) = 1
      BY FS_Singleton
    <3> QED
      BY <2>5, <3>1
  <2> QED
    BY <2>3, <2>4, <2>5
<1>5. ASSUME meant.all, NEW r \in Requests, requests'[r].state = "inflight"
      PROVE  ~Meant(meant, requests[r])
  <2>1. TakesAll(wire)
    BY <1>5 DEF Says
  <2>2. S = found
    BY <2>1 DEF Chosen, TakesAll
  <2>3. r \notin S /\ requests[r].state = "inflight"
    BY <1>2, <1>5
  <2> QED
    BY <2>2, <2>3 DEF Hit, Says
<1> QED
  BY <1>1, <1>3, <1>4, <1>5 DEF Rightly

\* A search that leaves all as it is, because it stops one at most or finds none.
LEMMA SearchSpares ==
  ASSUME CancelInv, NEW wire, NEW meant, Says(wire, meant), UNCHANGED requests,
         TakesAll(wire) => Hit(wire, {"inflight"}) = {}
  PROVE  Rightly(meant)
<1>1. Stopped = {}
  BY DEF Stopped
<1>2. Cardinality(Stopped) = 0
  BY <1>1, FS_EmptySet
<1>3. ASSUME meant.all, NEW r \in Requests, requests'[r].state = "inflight"
      PROVE  ~Meant(meant, requests[r])
  BY <1>3 DEF Says, Hit
<1> QED
  BY <1>1, <1>2, <1>3 DEF Rightly

\* Both ways of register_sync_cancel.
LEMMA SyncSearchStops ==
  ASSUME CancelInv, NEW call \in Calls, Says(call.wire, call.meant),
         NEW otherwise \in {"ok", "NotFound"}, SyncSearch(call, otherwise)
  PROVE  /\ sync'.meant = call.meant
         /\ Rightly(call.meant)
<1>1. sync'.meant = call.meant
  <2>1. PICK at \in CallStates : sync' = [call EXCEPT !.at = at]
    BY DEF SyncSearch, CallStates
  <2> QED
    BY <2>1, CallsMove
<1>2. CASE \E S \in Chosen(call.wire) : requests' = Stop(S)
  <2>1. PICK S \in Chosen(call.wire) : requests' = Stop(S)
    BY <1>2
  <2> QED
    BY <1>1, <2>1, SearchStops, Zenon
<1>3. CASE UNCHANGED requests /\ ~TakesAll(call.wire)
  BY <1>1, <1>3, SearchSpares, Zenon
<1>4. CASE UNCHANGED requests /\ Hit(call.wire, {"inflight"}) = {}
  BY <1>1, <1>4, SearchSpares, Zenon
<1>5. Hit(call.wire, {"inflight", "running"}) = {} => Hit(call.wire, {"inflight"}) = {}
  BY DEF Hit
<1>6. \/ \E S \in Chosen(call.wire) : requests' = Stop(S)
      \/ UNCHANGED requests /\ ~TakesAll(call.wire)
      \/ UNCHANGED requests /\ Hit(call.wire, {"inflight"}) = {}
  BY <1>5 DEF SyncSearch, TakesAll
<1> QED
  BY <1>1, <1>2, <1>3, <1>4, <1>6

\* A step that neither takes a cancellation from the queue nor answers the call.
LEMMA NothingSearched ==
  ASSUME CancelInv, [Next]_vars, sync' = sync \/ sync'.at \in {"none", "ETIME"},
         sq # <<>> /\ Head(sq).request = {} => Len(sq') >= Len(sq)
  PROVE  Searched = {}
<1>1. sq \in Seq(QueueEntries) /\ sq' \in Seq(QueueEntries)
  BY CancelStep DEF CancelInv
<1>2. ~(Len(sq') < Len(sq) /\ Head(sq).request = {})
  BY <1>1
<1>3. ~(sync'.at # sync.at /\ sync'.at \in {"ok", "waiting", "NotFound"})
  OBVIOUS
<1> QED
  BY <1>2, <1>3 DEF Searched

LEMMA StepStopsWhatWasMeant ==
  ASSUME CancelInv, [Next]_vars
  PROVE  \A m \in Searched : Rightly(m)
<1>1. sq \in Seq(QueueEntries) /\ sync \in Calls
  BY DEF CancelInv
<1>2. CASE \E e : Enqueue(e) /\ UNCHANGED sync
  <2>1. Len(sq') >= Len(sq)
    BY <1>1, <1>2 DEF Enqueue
  <2> QED
    BY <1>2, <2>1, NothingSearched
<1>3. CASE TakeRequest
  BY <1>3, NothingSearched DEF TakeRequest
<1>4. CASE UNCHANGED <<sq, sync>>
  <2>1. Len(sq') >= Len(sq)
    BY <1>1, <1>4
  <2> QED
    BY <1>4, <2>1, NothingSearched
<1>5. CASE UNCHANGED sq /\ sync'.at \in {"none", "ETIME"}
  <2>1. Len(sq') >= Len(sq)
    BY <1>1, <1>5
  <2> QED
    BY <1>5, <2>1, NothingSearched
<1>6. CASE TakeCancel
  <2>1. PICK S \in Chosen(Head(sq).wire) : requests' = Stop(S)
    BY <1>6 DEF TakeCancel
  <2>2. Says(Head(sq).wire, Head(sq).meant)
    BY <1>6, CancellationsSay DEF TakeCancel
  <2>3. Rightly(Head(sq).meant)
    BY <2>1, <2>2, SearchStops, Zenon
  <2>4. Searched \subseteq {Head(sq).meant}
    BY <1>6 DEF TakeCancel, Searched
  <2> QED
    BY <2>3, <2>4
<1>7. ASSUME NEW call \in Calls, NEW otherwise \in {"ok", "NotFound"},
             SyncSearch(call, otherwise), UNCHANGED sq
      PROVE  \A m \in Searched : Rightly(m)
  <2>1. Says(call.wire, call.meant)
    <3>1. PICK b \in Builders : call.wire = Wire(b) /\ call.meant = b.meant
      BY DEF Calls
    <3> QED
      BY <3>1, BuildersSay, Zenon
  <2>2. sync'.meant = call.meant /\ Rightly(call.meant)
    BY <1>7, <2>1, SyncSearchStops, Zenon
  <2>3. Searched \subseteq {sync'.meant}
    <3>1. Len(sq') = Len(sq) /\ Len(sq) \in Int
      BY <1>1, <1>7
    <3> QED
      BY <3>1 DEF Searched
  <2> QED
    BY <2>2, <2>3
<1>8. ASSUME NEW b \in Builders, NEW timeout \in {{}, {<<0, 1>>}}, SyncCancel(b, timeout)
      PROVE  \A m \in Searched : Rightly(m)
  <2> DEFINE asked == [at |-> "none", wire |-> Wire(b), meant |-> b.meant, timeout |-> timeout]
  <2>1. asked \in Calls
    BY IsCall DEF CallStates
  <2> HIDE DEF asked
  <2>2. SyncSearch(asked, "NotFound") /\ UNCHANGED sq
    BY <1>8 DEF SyncCancel, asked
  <2>3. PICK call \in Calls : SyncSearch(call, "NotFound") /\ UNCHANGED sq
    BY <2>1, <2>2
  <2> QED
    BY <1>7, <2>3
<1>9. CASE SyncRetry
  <2>1. PICK call \in Calls : SyncSearch(call, "ok") /\ UNCHANGED sq
    BY <1>1, <1>9 DEF SyncRetry
  <2> QED
    BY <1>7, <2>1
<1>10. CASE SyncTimeout \/ SyncReturn
  <2>1. [sync EXCEPT !.at = "ETIME"].at = "ETIME"
    BY <1>1, CallsMove DEF CallStates
  <2>2. NoCall.at = "none"
    BY DEF NoCall
  <2> QED
    BY <1>5, <1>10, <2>1, <2>2 DEF SyncTimeout, SyncReturn
<1>11. CASE \E r \in Requests : Run(r) \/ Complete(r) \/ Reap(r)
  BY <1>4, <1>11 DEF Run, Complete, Reap, Become
<1>12. CASE UNCHANGED vars
  BY <1>4, <1>12 DEF vars
<1>13. (\/ \E r \in Requests, u \in UserData, t \in Targets : PushRequest(r, u, t)
        \/ \E u \in UserData : AsyncCancel(u)
        \/ \E b \in Builders : AsyncCancel2(b))
       => \E e : Enqueue(e) /\ UNCHANGED sync
  BY DEF PushRequest, AsyncCancel, AsyncCancel2
<1> QED
  BY <1>2, <1>3, <1>6, <1>8, <1>9, <1>10, <1>11, <1>12, <1>13 DEF Next

\* The errors of register_sync_cancel.
LEMMA StepErrorsAreTrue ==
  ASSUME CancelInv, [Next]_vars
  PROVE  sync'.at # sync.at =>
           /\ sync'.at = "NotFound" =>
                \A r \in Requests :
                  requests[r].state \in {"inflight", "running"} =>
                    ~Meant(sync'.meant, requests[r])
           /\ sync'.at = "waiting" =>
                \E r \in Requests :
                  requests[r].state = "running" /\ Meant(sync'.meant, requests[r])
           /\ sync'.at = "ETIME" => sync.at = "waiting" /\ sync.timeout # {}
<1>1. sync \in Calls
  BY DEF CancelInv
<1>2. CASE sync' = sync
  BY <1>2
<1>3. ASSUME NEW call \in Calls, NEW otherwise \in {"ok", "NotFound"},
             SyncSearch(call, otherwise)
      PROVE  /\ sync'.at # "ETIME"
             /\ sync'.at = "NotFound" =>
                  \A r \in Requests :
                    requests[r].state \in {"inflight", "running"} =>
                      ~Meant(sync'.meant, requests[r])
             /\ sync'.at = "waiting" =>
                  \E r \in Requests :
                    requests[r].state = "running" /\ Meant(sync'.meant, requests[r])
  <2>1. PICK at \in CallStates :
          /\ sync' = [call EXCEPT !.at = at]
          /\ at # "ETIME"
          /\ at = "NotFound" => Hit(call.wire, {"inflight", "running"}) = {}
          /\ at = "waiting" => Hit(call.wire, {"running"}) # {}
    BY <1>3 DEF SyncSearch, CallStates
  <2>2. sync'.at = at /\ sync'.meant = call.meant
    <3>1. /\ [call EXCEPT !.at = at].at = at
          /\ [call EXCEPT !.at = at].meant = call.meant
      BY CallsMove
    <3> QED
      BY <2>1, <3>1
  <2>3. PICK b \in Builders : call.wire = Wire(b) /\ call.meant = b.meant
    BY DEF Calls
  <2>4. Says(call.wire, call.meant)
    BY <2>3, BuildersSay, Zenon
  <2>5. ASSUME sync'.at = "NotFound", NEW r \in Requests,
               requests[r].state \in {"inflight", "running"}
        PROVE  ~Meant(sync'.meant, requests[r])
    <3>1. ~Matches(call.wire, requests[r])
      BY <2>1, <2>2, <2>5 DEF Hit
    <3>2. ~Meant(call.meant, requests[r])
      BY <2>4, <3>1 DEF Says
    <3> QED
      BY <2>2, <3>2
  <2>6. ASSUME sync'.at = "waiting"
        PROVE  \E r \in Requests :
                 requests[r].state = "running" /\ Meant(sync'.meant, requests[r])
    <3>1. PICK r \in Requests :
            requests[r].state = "running" /\ Matches(call.wire, requests[r])
      BY <2>1, <2>2, <2>6 DEF Hit
    <3>2. Meant(call.meant, requests[r])
      BY <2>4, <3>1 DEF Says
    <3> QED
      BY <2>2, <3>1, <3>2
  <2> QED
    BY <2>1, <2>2, <2>5, <2>6
<1>4. ASSUME NEW b \in Builders, NEW timeout \in {{}, {<<0, 1>>}}, SyncCancel(b, timeout)
      PROVE  \E call \in Calls : SyncSearch(call, "NotFound")
  <2> DEFINE asked == [at |-> "none", wire |-> Wire(b), meant |-> b.meant, timeout |-> timeout]
  <2>1. asked \in Calls
    BY IsCall DEF CallStates
  <2> HIDE DEF asked
  <2>2. SyncSearch(asked, "NotFound")
    BY <1>4 DEF SyncCancel, asked
  <2> QED
    BY <2>1, <2>2
<1>5. CASE SyncRetry
  BY <1>1, <1>3, <1>5 DEF SyncRetry
<1>6. CASE SyncTimeout
  <2>1. sync.timeout # {}
    BY <1>6, UnwrapNone DEF SyncTimeout, Timespec
  <2>2. sync.at = "waiting" /\ sync'.at = "ETIME"
    BY <1>1, <1>6, CallsMove DEF SyncTimeout, CallStates
  <2> QED
    BY <2>1, <2>2
<1>7. CASE SyncReturn
  BY <1>7 DEF SyncReturn, NoCall
<1>8. sync' = sync \/ SyncRetry \/ SyncTimeout \/ SyncReturn
      \/ \E b \in Builders, timeout \in {{}, {<<0, 1>>}} : SyncCancel(b, timeout)
  BY DEF Next, PushRequest, AsyncCancel, AsyncCancel2, TakeRequest, TakeCancel,
         Run, Complete, Reap, Become, vars
<1> QED
  BY <1>2, <1>3, <1>4, <1>5, <1>6, <1>7, <1>8

\* Whatever part of the instance moves, the cancellation side makes a step or none.
LEMMA CancellationSide ==
  [CancellationStep \/ FileStep \/ BufferStep]_<<part, vars, fileVars, bufVars>> => [Next]_vars
BY DEF CancellationStep, FileStep, BufferStep

LEMMA CancelAlways == PartsSpec => []CancelInv
<1>1. PartsInit => CancelInv
  BY CancelInit DEF PartsInit
<1>2. CancelInv /\ [CancellationStep \/ FileStep \/ BufferStep]_<<part, vars, fileVars, bufVars>>
      => CancelInv'
  BY CancellationSide, CancelStep
<1> QED
  BY <1>1, <1>2, PTL DEF PartsSpec

\* CancelBuilder, AsyncCancel, AsyncCancel2 and register_sync_cancel: a cancellation stops
\* what its builder was made to match, one request without all() and every one with it.
THEOREM CancellationStops == PartsSpec => StopsWhatWasMeant
<1>1. CancelInv /\ [CancellationStep \/ FileStep \/ BufferStep]_<<part, vars, fileVars, bufVars>>
      => [\A m \in Searched :
             /\ \A r \in Stopped : requests[r].state = "inflight" /\ Meant(m, requests[r])
             /\ m.all \/ Cardinality(Stopped) <= 1
             /\ m.all => \A r \in Requests :
                           requests'[r].state = "inflight" => ~Meant(m, requests[r])]_vars
  BY CancellationSide, StepStopsWhatWasMeant DEF Rightly
<1> QED
  BY <1>1, CancelAlways, PTL DEF PartsSpec, StopsWhatWasMeant

\* register_sync_cancel: NotFound means that nothing submitted and incomplete matches, a
\* call waits only for a match that runs, and ETIME ends only the wait of a caller that
\* gave a timeout.
THEOREM CancellationErrors == PartsSpec => SyncErrorsAreTrue
<1>1. CancelInv /\ [CancellationStep \/ FileStep \/ BufferStep]_<<part, vars, fileVars, bufVars>>
      => [sync'.at # sync.at =>
             /\ sync'.at = "NotFound" =>
                  \A r \in Requests :
                      requests[r].state \in {"inflight", "running"} =>
                          ~Meant(sync'.meant, requests[r])
             /\ sync'.at = "waiting" =>
                  \E r \in Requests :
                      requests[r].state = "running" /\ Meant(sync'.meant, requests[r])
             /\ sync'.at = "ETIME" => sync.at = "waiting" /\ sync.timeout # {}]_vars
  BY CancellationSide, StepErrorsAreTrue
<1> QED
  BY <1>1, CancelAlways, PTL DEF PartsSpec, SyncErrorsAreTrue

-----------------------------------------------------------------------------
(* FileTable.  While operations are on their way, no two of them may be     *)
(* meant for one slot, and what is on its way to a slot the application     *)
(* takes for empty is either all asked for or all automatic.                *)

Automatic == FileSide!AutoTarget
Slots == FileSide!SlotsOf(fileTable)
OnTheirWay == pending \cup cqes

FileTablesOK ==
  /\ fileTable \in Seq(FileSide!Entries)
  /\ fileView \in Seq(FileSide!Entries)
  /\ Len(fileView) = Len(fileTable)

\* DestinationSlot: the argument is automatic or one above the slot asked for.
PendingOK ==
  \A op \in pending :
    /\ op.file \in Files
    /\ \/ op.asked = Automatic /\ op.arg = Automatic
       \/ op.asked \in 0 .. MaxU32 - 2 /\ op.arg = op.asked + 1

CqesOK ==
  \A c \in cqes :
    /\ c.file \in Files
    /\ c.asked \in 0 .. MaxU32
    /\ c.slot \in {FileSide!NoSlot} \cup Slots

\* A slot of the table is asked for by one operation at a time,
AskedOnce ==
  /\ \A p, q \in pending : p.asked # Automatic /\ p.asked \in Slots /\ p.asked = q.asked => p = q
  /\ \A p \in pending, c \in cqes : p.asked # Automatic /\ p.asked \in Slots => p.asked # c.asked

\* and filled by one.
FilledOnce ==
  \A c, d \in cqes : c.slot # FileSide!NoSlot /\ c.slot = d.slot => c = d

KindsApart ==
  \A op, auto \in OnTheirWay :
    auto.asked = Automatic /\ op.asked # Automatic /\ op.asked \in Slots =>
      FileSide!At(fileView, op.asked) # FileSide!Empty

FileInv ==
  /\ FileTablesOK /\ PendingOK /\ CqesOK
  /\ AskedOnce /\ FilledOnce /\ KindsApart
  /\ FileTableIsKnown

\* The operators on tables.
LEMMA SlotIsEntry ==
  ASSUME NEW t \in Seq(FileSide!Entries), NEW i \in FileSide!SlotsOf(t)
  PROVE  FileSide!At(t, i) \in FileSide!Entries /\ i \in Int
BY DEF FileSide!At, FileSide!SlotsOf

LEMMA PutSlots ==
  ASSUME NEW t \in Seq(FileSide!Entries), NEW i \in FileSide!SlotsOf(t),
         NEW f \in FileSide!Entries
  PROVE  /\ FileSide!Put(t, i, f) \in Seq(FileSide!Entries)
         /\ Len(FileSide!Put(t, i, f)) = Len(t)
         /\ \A j \in FileSide!SlotsOf(t) :
              FileSide!At(FileSide!Put(t, i, f), j) = IF j = i THEN f ELSE FileSide!At(t, j)
BY DEF FileSide!Put, FileSide!At, FileSide!SlotsOf

LEMMA UpdatedSlots ==
  ASSUME NEW t \in Seq(FileSide!Entries), NEW offset \in Nat,
         NEW fds \in FileSide!SlicesToUpdate, NEW done \in 1 .. Len(fds)
  PROVE  LET new == FileSide!Updated(t, offset, fds, done)
         IN  /\ new \in Seq(FileSide!Entries)
             /\ Len(new) = Len(t)
             /\ \A j \in FileSide!SlotsOf(t) :
                  FileSide!At(new, j) =
                    IF j + 1 - offset \in 1 .. done /\ fds[j + 1 - offset] # FileSide!Skip
                    THEN fds[j + 1 - offset] ELSE FileSide!At(t, j)
<1> DEFINE new == FileSide!Updated(t, offset, fds, done)
<1>1. fds \in Seq(FileSide!Entries \cup {FileSide!Skip})
  <2>1. PICK m \in 0 .. 2 : fds \in [1 .. m -> FileSide!Entries \cup {FileSide!Skip}]
    BY DEF FileSide!SlicesToUpdate, FileSide!SeqOf
  <2> QED
    BY <2>1
<1>2. DOMAIN t = 1 .. Len(t) /\ Len(t) \in Nat /\ \A i \in 1 .. Len(t) : t[i] \in FileSide!Entries
  OBVIOUS
<1>3. new = [i \in 1 .. Len(t) |->
               IF i - offset \in 1 .. done /\ fds[i - offset] # FileSide!Skip
               THEN fds[i - offset] ELSE t[i]]
  BY <1>2 DEF FileSide!Updated
<1>4. \A i \in 1 .. Len(t) :
        i - offset \in 1 .. done /\ fds[i - offset] # FileSide!Skip =>
          fds[i - offset] \in FileSide!Entries
  BY <1>1
<1>5. \A i \in 1 .. Len(t) : new[i] \in FileSide!Entries
  BY <1>2, <1>3, <1>4
<1>6. new \in Seq(FileSide!Entries) /\ Len(new) = Len(t)
  BY <1>2, <1>3, <1>5
<1>7. ASSUME NEW j \in FileSide!SlotsOf(t)
      PROVE  FileSide!At(new, j) =
               IF j + 1 - offset \in 1 .. done /\ fds[j + 1 - offset] # FileSide!Skip
               THEN fds[j + 1 - offset] ELSE FileSide!At(t, j)
  <2>1. j \in Int /\ j + 1 \in 1 .. Len(t)
    BY <1>2 DEF FileSide!SlotsOf
  <2>2. new[j + 1] = IF j + 1 - offset \in 1 .. done /\ fds[j + 1 - offset] # FileSide!Skip
                     THEN fds[j + 1 - offset] ELSE t[j + 1]
    <3>1. \A i \in 1 .. Len(t) :
            new[i] = IF i - offset \in 1 .. done /\ fds[i - offset] # FileSide!Skip
                     THEN fds[i - offset] ELSE t[i]
      BY <1>3
    <3> HIDE DEF new
    <3> QED
      BY <1>2, <2>1, <3>1
  <2> QED
    BY <2>2 DEF FileSide!At
<1> QED
  BY <1>6, <1>7

LEMMA FilesApart == FileSide!Empty \notin Files
BY TablesAssumption DEF FileSide!Empty

LEMMA FileInit == FileSide!Init => FileInv
BY DEF FileSide!Init, FileInv, FileTablesOK, PendingOK, CqesOK, AskedOnce, FilledOnce,
       KindsApart, OnTheirWay, FileTableIsKnown, FileSide!TableIsKnown, FileSide!SlotsOf

\* Nothing on its way, and a table that the application knows.
LEMMA QuietFiles ==
  ASSUME NEW t \in Seq(FileSide!Entries), FileSide!Quiet, UNCHANGED <<pending, cqes>>,
         fileTable' = t, fileView' = t
  PROVE  FileInv'
<1>1. pending' = {} /\ cqes' = {}
  BY DEF FileSide!Quiet
<1>2. FileTablesOK' /\ FileTableIsKnown'
  BY <1>1 DEF FileTablesOK, FileTableIsKnown, FileSide!TableIsKnown
<1> QED
  BY <1>1, <1>2 DEF FileInv, PendingOK, CqesOK, AskedOnce, FilledOnce, KindsApart, OnTheirWay

\* register_files_update keeps clear of every slot something may be on its way to.
LEMMA UpdateKeeps ==
  ASSUME FileInv, NEW offset \in Nat, NEW fds \in FileSide!SlicesToUpdate,
         FileSide!UpdateFiles(offset, fds)
  PROVE  FileInv'
<1> DEFINE touched == offset .. offset + Len(fds) - 1
<1>1. PICK done \in 1 .. Len(fds) :
        /\ fileTable' = FileSide!Updated(fileTable, offset, fds, done)
        /\ fileView' = FileSide!Updated(fileView, offset, fds, done)
        /\ pending' = pending /\ cqes' = cqes
        /\ FileSide!MayUpdate(touched)
  BY DEF FileSide!UpdateFiles
<1>2. /\ fileTable \in Seq(FileSide!Entries) /\ fileView \in Seq(FileSide!Entries)
      /\ Len(fileView) = Len(fileTable) /\ Len(fileTable) \in Nat
  BY DEF FileInv, FileTablesOK
<1>3. /\ fileTable' \in Seq(FileSide!Entries) /\ fileView' \in Seq(FileSide!Entries)
      /\ Len(fileTable') = Len(fileTable) /\ Len(fileView') = Len(fileTable)
  BY <1>1, <1>2, UpdatedSlots
<1>4. FileSide!SlotsOf(fileView) = Slots /\ Slots' = Slots /\ Slots \subseteq Int
  BY <1>2, <1>3 DEF Slots, FileSide!SlotsOf
<1>5. Len(fds) \in Nat
  <2>1. PICK m \in 0 .. 2 : fds \in [1 .. m -> FileSide!Entries \cup {FileSide!Skip}]
    BY DEF FileSide!SlicesToUpdate, FileSide!SeqOf
  <2> QED
    BY <2>1
<1>6. ASSUME NEW j \in Slots
      PROVE  \/ /\ FileSide!At(fileTable', j) = FileSide!At(fileTable, j)
                /\ FileSide!At(fileView', j) = FileSide!At(fileView, j)
             \/ j \in touched /\ FileSide!At(fileTable', j) = FileSide!At(fileView', j)
  <2>1. j + 1 - offset \in 1 .. done => j \in touched
    BY <1>4, <1>5
  <2>2. FileSide!At(fileTable', j) =
          IF j + 1 - offset \in 1 .. done /\ fds[j + 1 - offset] # FileSide!Skip
          THEN fds[j + 1 - offset] ELSE FileSide!At(fileTable, j)
    BY <1>1, <1>2, <1>4, UpdatedSlots DEF Slots
  <2>3. FileSide!At(fileView', j) =
          IF j + 1 - offset \in 1 .. done /\ fds[j + 1 - offset] # FileSide!Skip
          THEN fds[j + 1 - offset] ELSE FileSide!At(fileView, j)
    BY <1>1, <1>2, <1>4, UpdatedSlots
  <2> HIDE DEF touched
  <2> QED
    BY <2>1, <2>2, <2>3
<1>7. /\ \A op \in OnTheirWay : op.asked \notin touched
      /\ (\E op \in OnTheirWay : op.asked = Automatic) =>
            \A j \in touched : FileSide!At(fileView, j) # FileSide!Empty
  BY <1>1 DEF FileSide!MayUpdate, OnTheirWay, Automatic
<1> HIDE DEF touched
<1>8. /\ FileTablesOK' /\ PendingOK' /\ CqesOK' /\ AskedOnce' /\ FilledOnce'
  BY <1>1, <1>3, <1>4 DEF FileInv, FileTablesOK, PendingOK, CqesOK, AskedOnce, FilledOnce
<1>9. KindsApart'
  <2>1. \A op \in OnTheirWay : op.asked \in Slots =>
          FileSide!At(fileView', op.asked) = FileSide!At(fileView, op.asked)
    BY <1>6, <1>7
  <2> QED
    BY <1>1, <1>4, <2>1 DEF FileInv, KindsApart, OnTheirWay
<1>10. FileTableIsKnown'
  <2>1. ASSUME NEW i \in Slots
        PROVE  FileSide!At(fileView', i) = FileSide!At(fileTable', i) \/ \E c \in cqes : c.slot = i
    BY <1>6, <2>1 DEF FileInv, FileTableIsKnown, FileSide!TableIsKnown, Slots
  <2>2. ASSUME NEW c \in cqes, c.slot # FileSide!NoSlot
        PROVE  /\ FileSide!At(fileTable', c.slot) = c.file
               /\ c.asked # Automatic => c.slot = c.asked
               /\ c.asked = Automatic => FileSide!At(fileView', c.slot) = FileSide!Empty
    <3>1. /\ c.slot \in Slots /\ c \in OnTheirWay
          /\ FileSide!At(fileTable, c.slot) = c.file
          /\ c.asked # Automatic => c.slot = c.asked
          /\ c.asked = Automatic => FileSide!At(fileView, c.slot) = FileSide!Empty
      BY <2>2 DEF FileInv, FileTableIsKnown, FileSide!TableIsKnown, CqesOK, OnTheirWay, Automatic
    <3>2. c.slot \notin touched
      BY <1>7, <3>1
    <3> QED
      BY <1>6, <3>1, <3>2
  <2> QED
    BY <1>1, <1>4, <2>1, <2>2 DEF FileTableIsKnown, FileSide!TableIsKnown, Slots, Automatic
<1> QED
  BY <1>8, <1>9, <1>10 DEF FileInv

\* A request with a destination slot.
LEMMA InstallKeeps ==
  ASSUME FileInv, NEW op, op.file \in Files,
         \/ op.asked = Automatic /\ op.arg = Automatic
         \/ op.asked \in 0 .. MaxU32 - 2 /\ op.arg = op.asked + 1,
         pending' = pending \cup {op}, UNCHANGED <<fileTable, fileView, cqes>>,
         op.asked # Automatic /\ op.asked \in Slots => FileSide!MayUpdate({op.asked}),
         op.asked = Automatic =>
           \A other \in OnTheirWay : other.asked \in Slots =>
             FileSide!At(fileView, other.asked) # FileSide!Empty
  PROVE  FileInv'
<1>1. fileTable' = fileTable /\ fileView' = fileView /\ cqes' = cqes /\ Slots' = Slots
  BY DEF Slots
<1>2. FileTablesOK' /\ CqesOK' /\ FilledOnce' /\ PendingOK'
  BY <1>1 DEF FileInv, FileTablesOK, PendingOK, CqesOK, FilledOnce
<1>3. FileTableIsKnown'
  BY <1>1 DEF FileInv, FileTableIsKnown, FileSide!TableIsKnown
<1>4. op.asked # Automatic /\ op.asked \in Slots =>
        /\ \A other \in OnTheirWay : other.asked # op.asked
        /\ (\E other \in OnTheirWay : other.asked = Automatic) =>
              FileSide!At(fileView, op.asked) # FileSide!Empty
  BY DEF FileSide!MayUpdate, OnTheirWay, Automatic
<1>5. OnTheirWay' = OnTheirWay \cup {op}
  BY <1>1 DEF OnTheirWay
<1>6. AskedOnce'
  BY <1>1, <1>4 DEF FileInv, AskedOnce, OnTheirWay
<1>7. KindsApart'
  BY <1>1, <1>4, <1>5 DEF FileInv, KindsApart
<1> QED
  BY <1>2, <1>3, <1>6, <1>7 DEF FileInv

\* The kernel puts a file where nothing else has been put or is meant to be.
LEMMA CompleteKeeps ==
  ASSUME FileInv, NEW op \in pending, FileSide!Complete(op)
  PROVE  FileInv'
<1>1. /\ fileTable \in Seq(FileSide!Entries) /\ fileView \in Seq(FileSide!Entries)
      /\ Len(fileView) = Len(fileTable) /\ Len(fileTable) \in Nat
      /\ Slots \subseteq Int /\ FileSide!NoSlot \notin Slots
      /\ FileSide!SlotsOf(fileView) = Slots
  BY DEF FileInv, FileTablesOK, Slots, FileSide!SlotsOf, FileSide!NoSlot
<1>2. /\ op.file \in Files /\ op.asked \in 0 .. MaxU32
      /\ \/ op.asked = Automatic /\ op.arg = Automatic
         \/ op.asked # Automatic /\ op.arg # Automatic /\ op.arg - 1 = op.asked
  BY TablesAssumption
     DEF FileInv, PendingOK, Automatic, FileSide!AutoTarget, FileSide!FileIndexAlloc
<1>3. PICK cqe :
        /\ cqe.asked = op.asked /\ cqe.file = op.file
        /\ pending' = pending \ {op} /\ cqes' = cqes \cup {cqe} /\ fileView' = fileView
        /\ \/ /\ cqe.slot \in FileSide!Places(op.arg)
              /\ fileTable' = FileSide!Put(fileTable, cqe.slot, op.file)
           \/ /\ cqe.slot = FileSide!NoSlot
              /\ fileTable' = fileTable
  <2>1. CASE \E i \in FileSide!Places(op.arg) :
               /\ fileTable' = FileSide!Put(fileTable, i, op.file)
               /\ cqes' = cqes \cup {[asked |-> op.asked, slot |-> i, file |-> op.file]}
    <3>1. PICK i \in FileSide!Places(op.arg) :
               /\ fileTable' = FileSide!Put(fileTable, i, op.file)
               /\ cqes' = cqes \cup {[asked |-> op.asked, slot |-> i, file |-> op.file]}
      BY <2>1
    <3>2. PICK cqe : cqe = [asked |-> op.asked, slot |-> i, file |-> op.file]
      OBVIOUS
    <3>3. cqe.asked = op.asked /\ cqe.slot = i /\ cqe.file = op.file
      BY <3>2
    <3> QED
      BY <3>1, <3>2, <3>3 DEF FileSide!Complete
  <2>2. CASE /\ cqes' = cqes \cup {[asked |-> op.asked, slot |-> FileSide!NoSlot, file |-> op.file]}
             /\ fileTable' = fileTable
    <3>1. PICK cqe : cqe = [asked |-> op.asked, slot |-> FileSide!NoSlot, file |-> op.file]
      OBVIOUS
    <3>2. cqe.asked = op.asked /\ cqe.slot = FileSide!NoSlot /\ cqe.file = op.file
      BY <3>1
    <3> QED
      BY <2>2, <3>1, <3>2 DEF FileSide!Complete
  <2> QED
    BY <2>1, <2>2 DEF FileSide!Complete
<1>4. cqe.slot \in Slots \/ cqe.slot = FileSide!NoSlot
  BY <1>3 DEF FileSide!Places, Slots
<1>5. /\ fileTable' \in Seq(FileSide!Entries) /\ Len(fileTable') = Len(fileTable)
      /\ \A j \in Slots : FileSide!At(fileTable', j) =
           IF j = cqe.slot THEN op.file ELSE FileSide!At(fileTable, j)
  <2>1. CASE cqe.slot \in Slots
    <3>1. fileTable' = FileSide!Put(fileTable, cqe.slot, op.file)
      BY <1>1, <1>3, <2>1
    <3>2. op.file \in FileSide!Entries
      BY <1>2 DEF FileSide!Entries
    <3> QED
      BY <1>1, <2>1, <3>1, <3>2, PutSlots DEF Slots
  <2>2. CASE cqe.slot = FileSide!NoSlot
    <3>1. fileTable' = fileTable
      BY <1>1, <1>3, <2>2 DEF FileSide!Places, Slots
    <3> QED
      BY <1>1, <2>2, <3>1
  <2> QED
    BY <1>4, <2>1, <2>2
<1>6. Slots' = Slots /\ FileSide!SlotsOf(fileView') = Slots
  BY <1>1, <1>3, <1>5 DEF Slots, FileSide!SlotsOf
<1>7. \* where the file goes
      cqe.slot \in Slots =>
        /\ op.asked = Automatic => FileSide!At(fileTable, cqe.slot) = FileSide!Empty
        /\ op.asked # Automatic => cqe.slot = op.asked
  BY <1>1, <1>2, <1>3 DEF FileSide!Places, Automatic, FileSide!AutoTarget, Slots
<1>8. \* another file is not there
      ASSUME NEW c \in cqes, c.slot \in Slots
      PROVE  c.slot # cqe.slot
  <2>1. /\ FileSide!At(fileTable, c.slot) = c.file /\ c.file \in Files
        /\ c.asked # Automatic => c.slot = c.asked
        /\ c.asked = Automatic => FileSide!At(fileView, c.slot) = FileSide!Empty
    BY <1>1, <1>8 DEF FileInv, CqesOK, FileTableIsKnown, FileSide!TableIsKnown, Automatic
  <2>2. SUFFICES ASSUME c.slot = cqe.slot PROVE FALSE
    OBVIOUS
  <2>3. op.asked # Automatic /\ op.asked = c.slot
    BY <1>7, <1>8, <2>1, <2>2, FilesApart
  <2>4. op \in OnTheirWay /\ c \in OnTheirWay
    BY DEF OnTheirWay
  <2>5. CASE c.asked = Automatic
    BY <1>8, <2>1, <2>3, <2>4, <2>5 DEF FileInv, KindsApart
  <2>6. CASE c.asked # Automatic
    BY <1>8, <2>1, <2>3, <2>6 DEF FileInv, AskedOnce
  <2> QED
    BY <2>5, <2>6
<1>9. FileTablesOK'
  BY <1>1, <1>3, <1>5 DEF FileTablesOK
<1>10. PendingOK'
  BY <1>3 DEF FileInv, PendingOK
<1>11. CqesOK'
  BY <1>2, <1>3, <1>4, <1>6 DEF FileInv, CqesOK
<1>12. AskedOnce'
  <2>1. \A p \in pending : p # op /\ p.asked # Automatic /\ p.asked \in Slots => p.asked # op.asked
    BY DEF FileInv, AskedOnce
  <2> QED
    BY <1>3, <1>6, <2>1 DEF FileInv, AskedOnce
<1>13. FilledOnce'
  <2>1. \A c \in cqes : c.slot # FileSide!NoSlot => c.slot # cqe.slot
    BY <1>8 DEF FileInv, CqesOK
  <2> QED
    BY <1>3, <2>1 DEF FileInv, FilledOnce
<1>14. KindsApart'
  <2>1. \A p \in OnTheirWay' : \E q \in OnTheirWay : q.asked = p.asked
    BY <1>3 DEF OnTheirWay
  <2> QED
    BY <1>3, <1>6, <2>1 DEF FileInv, KindsApart
<1>15. FileTableIsKnown'
  <2>1. ASSUME NEW i \in Slots
        PROVE  FileSide!At(fileView', i) = FileSide!At(fileTable', i) \/ \E c \in cqes' : c.slot = i
    BY <1>3, <1>5 DEF FileInv, FileTableIsKnown, FileSide!TableIsKnown, Slots
  <2>2. ASSUME NEW c \in cqes', c.slot # FileSide!NoSlot
        PROVE  /\ FileSide!At(fileTable', c.slot) = c.file
               /\ c.asked # Automatic => c.slot = c.asked
               /\ c.asked = Automatic => FileSide!At(fileView', c.slot) = FileSide!Empty
    <3>1. CASE c \in cqes
      <4>1. /\ c.slot \in Slots
            /\ FileSide!At(fileTable, c.slot) = c.file
            /\ c.asked # Automatic => c.slot = c.asked
            /\ c.asked = Automatic => FileSide!At(fileView, c.slot) = FileSide!Empty
        BY <2>2, <3>1 DEF FileInv, CqesOK, FileTableIsKnown, FileSide!TableIsKnown, Automatic
      <4>2. c.slot # cqe.slot
        BY <1>8, <3>1, <4>1
      <4> QED
        BY <1>3, <1>5, <4>1, <4>2
    <3>2. CASE c = cqe
      <4>1. cqe.slot \in Slots
        BY <1>4, <2>2, <3>2
      <4>2. op.asked = Automatic => FileSide!At(fileView, cqe.slot) = FileSide!Empty
        BY <1>7, <1>8, <4>1 DEF FileInv, FileTableIsKnown, FileSide!TableIsKnown, Slots
      <4> QED
        BY <1>3, <1>5, <1>7, <3>2, <4>1, <4>2
    <3> QED
      BY <1>3, <2>2, <3>1, <3>2
  <2> QED
    BY <1>6, <2>1, <2>2 DEF FileTableIsKnown, FileSide!TableIsKnown, Slots, Automatic
<1> QED
  BY <1>9, <1>10, <1>11, <1>12, <1>13, <1>14, <1>15 DEF FileInv

\* The application reads where its file is.
LEMMA ReapKeeps ==
  ASSUME FileInv, NEW cqe \in cqes, FileSide!Reap(cqe)
  PROVE  FileInv'
<1>1. /\ fileTable \in Seq(FileSide!Entries) /\ fileView \in Seq(FileSide!Entries)
      /\ Len(fileView) = Len(fileTable) /\ Len(fileTable) \in Nat
      /\ FileSide!NoSlot \notin Slots /\ FileSide!SlotsOf(fileView) = Slots
  BY DEF FileInv, FileTablesOK, Slots, FileSide!SlotsOf, FileSide!NoSlot
<1>2. /\ cqes' = cqes \ {cqe} /\ fileTable' = fileTable /\ pending' = pending
      /\ cqe.slot = FileSide!NoSlot \/ cqe.slot \in Slots
      /\ cqe.file \in FileSide!Entries /\ cqe.file # FileSide!Empty
  BY FilesApart DEF FileSide!Reap, FileInv, CqesOK, FileSide!Entries
<1>3. cqe.slot \in Slots =>
        /\ FileSide!At(fileTable, cqe.slot) = cqe.file
        /\ fileView' = FileSide!Put(fileView, cqe.slot, cqe.file)
  BY <1>1 DEF FileSide!Reap, FileInv, FileTableIsKnown, FileSide!TableIsKnown
<1>4. /\ fileView' \in Seq(FileSide!Entries) /\ Len(fileView') = Len(fileTable)
      /\ \A j \in Slots : FileSide!At(fileView', j) =
           IF j = cqe.slot THEN cqe.file ELSE FileSide!At(fileView, j)
  <2>1. CASE cqe.slot \in Slots
    BY <1>1, <1>2, <1>3, <2>1, PutSlots
  <2>2. CASE cqe.slot = FileSide!NoSlot
    <3>1. fileView' = fileView
      BY <2>2 DEF FileSide!Reap
    <3> QED
      BY <1>1, <2>2, <3>1
  <2> QED
    BY <1>2, <2>1, <2>2
<1>5. Slots' = Slots /\ FileSide!SlotsOf(fileView') = Slots
  BY <1>1, <1>2, <1>4 DEF Slots, FileSide!SlotsOf
<1>6. FileTablesOK' /\ PendingOK' /\ CqesOK' /\ AskedOnce' /\ FilledOnce'
  BY <1>1, <1>2, <1>4, <1>5
     DEF FileInv, FileTablesOK, PendingOK, CqesOK, AskedOnce, FilledOnce
<1>7. KindsApart'
  BY <1>2, <1>4, <1>5 DEF FileInv, KindsApart, OnTheirWay
<1>8. FileTableIsKnown'
  <2>1. ASSUME NEW i \in Slots
        PROVE  FileSide!At(fileView', i) = FileSide!At(fileTable', i) \/ \E c \in cqes' : c.slot = i
    BY <1>2, <1>3, <1>4 DEF FileInv, FileTableIsKnown, FileSide!TableIsKnown, Slots
  <2>2. ASSUME NEW c \in cqes', c.slot # FileSide!NoSlot
        PROVE  /\ FileSide!At(fileTable', c.slot) = c.file
               /\ c.asked # Automatic => c.slot = c.asked
               /\ c.asked = Automatic => FileSide!At(fileView', c.slot) = FileSide!Empty
    <3>1. /\ c \in cqes /\ c # cqe /\ c.slot \in Slots
          /\ FileSide!At(fileTable, c.slot) = c.file
          /\ c.asked # Automatic => c.slot = c.asked
          /\ c.asked = Automatic => FileSide!At(fileView, c.slot) = FileSide!Empty
      BY <1>2, <2>2 DEF FileInv, CqesOK, FileTableIsKnown, FileSide!TableIsKnown, Automatic
    <3>2. c.slot # cqe.slot
      BY <2>2, <3>1 DEF FileInv, FilledOnce
    <3> QED
      BY <1>2, <1>4, <3>1, <3>2
  <2> QED
    BY <1>5, <2>1, <2>2 DEF FileTableIsKnown, FileSide!TableIsKnown, Slots, Automatic
<1> QED
  BY <1>6, <1>7, <1>8 DEF FileInv

LEMMA FileKeeps ==
  ASSUME FileInv, [FileSide!Next]_fileVars
  PROVE  FileInv'
<1>1. ASSUME NEW fds \in FileSide!Slices, FileSide!RegisterFiles(fds) PROVE FileInv'
  <2>1. PICK m \in 0 .. 2 : fds \in [1 .. m -> FileSide!Entries]
    BY DEF FileSide!Slices, FileSide!SeqOf
  <2>2. fds \in Seq(FileSide!Entries)
    BY <2>1
  <2> QED
    BY <1>1, <2>2, QuietFiles DEF FileSide!RegisterFiles
<1>2. ASSUME NEW nr \in TableSizes, FileSide!RegisterFilesSparse(nr) PROVE FileInv'
  <2>1. [i \in 1 .. nr |-> FileSide!Empty] \in Seq(FileSide!Entries)
    BY TablesAssumption DEF FileSide!Entries
  <2>2. PICK t \in Seq(FileSide!Entries) : fileTable' = t /\ fileView' = t
    BY <1>2, <2>1 DEF FileSide!RegisterFilesSparse
  <2> QED
    BY <1>2, <2>2, QuietFiles DEF FileSide!RegisterFilesSparse
<1>3. CASE FileSide!UnregisterFiles
  <2>1. PICK t \in Seq(FileSide!Entries) : fileTable' = t /\ fileView' = t
    <3>1. <<>> \in Seq(FileSide!Entries) /\ fileTable' = <<>> /\ fileView' = <<>>
      BY <1>3 DEF FileSide!UnregisterFiles
    <3> QED
      BY <3>1, Zenon
  <2> QED
    BY <1>3, <2>1, QuietFiles DEF FileSide!UnregisterFiles
<1>4. ASSUME NEW offset \in 0 .. MaxU32, NEW fds \in FileSide!SlicesToUpdate,
             FileSide!UpdateFiles(offset, fds)
      PROVE  FileInv'
  BY <1>4, UpdateKeeps
<1>5. ASSUME NEW f \in Files, FileSide!InstallAnywhere(f) PROVE FileInv'
  <2>1. PICK op : op = [asked |-> Automatic, arg |-> Automatic, file |-> f]
    OBVIOUS
  <2>2. op.asked = Automatic /\ op.arg = Automatic /\ op.file = f
    BY <2>1
  <2>3. FileSide!SlotsOf(fileView) = Slots
    BY DEF FileInv, FileTablesOK, Slots, FileSide!SlotsOf
  <2>4. \A other \in OnTheirWay : other.asked \in Slots =>
           FileSide!At(fileView, other.asked) # FileSide!Empty
    BY <1>5, <2>3 DEF FileSide!InstallAnywhere, OnTheirWay
  <2>5. pending' = pending \cup {op} /\ UNCHANGED <<fileTable, fileView, cqes>>
    BY <1>5, <2>1 DEF FileSide!InstallAnywhere, Automatic
  <2> QED
    BY <2>2, <2>4, <2>5, InstallKeeps
<1>6. ASSUME NEW target \in 0 .. MaxU32, NEW f \in Files, FileSide!InstallAt(target, f)
      PROVE  FileInv'
  <2>1. target \in 0 .. MaxU32 - 2 /\ FileSide!TryFromSlotTarget(target) = target + 1
    BY <1>6, TablesAssumption
       DEF FileSide!InstallAt, FileSide!TryFromSlotTarget, FileSide!SaturatingInc,
           FileSide!FileIndexAlloc, FileSide!NoSlot
  <2>2. PICK op : op = [asked |-> target, arg |-> target + 1, file |-> f]
    OBVIOUS
  <2>3. op.asked = target /\ op.arg = target + 1 /\ op.file = f
    BY <2>2
  <2>4. op.asked # Automatic
    BY <2>1, <2>3, TablesAssumption DEF Automatic, FileSide!AutoTarget, FileSide!FileIndexAlloc
  <2>5. pending' = pending \cup {op} /\ UNCHANGED <<fileTable, fileView, cqes>>
    BY <1>6, <2>1, <2>2 DEF FileSide!InstallAt
  <2>6. op.asked \in Slots => FileSide!MayUpdate({op.asked})
    BY <1>6, <2>3 DEF FileSide!InstallAt, Slots
  <2> QED
    BY <2>1, <2>3, <2>4, <2>5, <2>6, InstallKeeps
<1>7. ASSUME NEW op \in pending, FileSide!Complete(op) PROVE FileInv'
  BY <1>7, CompleteKeeps
<1>8. ASSUME NEW cqe \in cqes, FileSide!Reap(cqe) PROVE FileInv'
  BY <1>8, ReapKeeps
<1>9. CASE UNCHANGED fileVars
  BY <1>9 DEF fileVars, FileInv, FileTablesOK, PendingOK, CqesOK, AskedOnce, FilledOnce,
              KindsApart, OnTheirWay, Slots, FileTableIsKnown, FileSide!TableIsKnown
<1> QED
  BY <1>1, <1>2, <1>3, <1>4, <1>5, <1>6, <1>7, <1>8, <1>9 DEF FileSide!Next

\* The table of files: whatever calls, requests and completions there were, the application
\* knows the file in every slot that nothing is on its way to.
THEOREM FilesAreKnown == PartsSpec => []FileTableIsKnown
<1>1. PartsInit => FileInv
  BY FileInit DEF PartsInit
<1>2. FileInv /\ [CancellationStep \/ FileStep \/ BufferStep]_<<part, vars, fileVars, bufVars>>
      => FileInv'
  <2>1. [CancellationStep \/ FileStep \/ BufferStep]_<<part, vars, fileVars, bufVars>>
        => [FileSide!Next]_fileVars
    BY DEF CancellationStep, FileStep, BufferStep
  <2> QED
    BY <2>1, FileKeeps
<1>3. FileInv => FileTableIsKnown
  BY DEF FileInv
<1> QED
  BY <1>1, <1>2, <1>3, PTL DEF PartsSpec

-----------------------------------------------------------------------------
(* BufferTable.  A buffer is registered in one place at a time: what else   *)
(* the tables and the requests hold of it are clones, which have no tag.    *)

Nodes == [ring  : Rings \cup {"no ring"}, buf   : Bufs \cup {"no buffer"},
          tag   : Bufs \cup {BufSide!NoTag}, clone : BOOLEAN]

Held == BufSide!HeldBy(bufTable, inFlight)

BufTypeOK ==
  /\ bufTable \in [Rings -> Seq(Nodes)]
  /\ inFlight \in [BufRequests -> Nodes]

\* A tag is that of the buffer itself.
TagsOK == \A n \in Held : n.tag \in {BufSide!NoTag, n.buf} /\ (n.clone => n.tag = BufSide!NoTag)

OneOriginal == \A m, n \in Held : ~m.clone /\ ~n.clone /\ m.buf = n.buf => m = n

TagInv == BufTypeOK /\ TagsOK /\ OneOriginal /\ TagMeansUnused

\* With every update carried out to its end the application's view is the table.
FreedInv == TagInv /\ bufView = bufTable /\ FreedBuffersAreUnused

\* A clone of a node of S.
CloneOf(n, S) == n.clone /\ n.tag = BufSide!NoTag /\ \E m \in S : m.buf = n.buf

\* Nodes for buffers that are in use nowhere.
Fresh(N) ==
  /\ \A n \in N : /\ ~n.clone /\ n.tag \in {BufSide!NoTag, n.buf}
                  /\ n.buf \notin tagCqes \cup freed
                  /\ \A m \in Held : m.buf # n.buf
  /\ \A m, n \in N : m.buf = n.buf => m = n

\* Every call and every completion: what is held then was held before, is fresh or is a
\* clone of what was held, and what is held no more has its tag posted.
Moves(N) ==
  /\ BufTypeOK'
  /\ tagCqes' = tagCqes \cup ({n.tag : n \in Held \ Held'} \ {BufSide!NoTag})
  /\ announced' \subseteq announced /\ \A n \in N : n.buf \notin announced'
  /\ freed' = freed
  /\ \A n \in Held' :
       \/ n \in Held \cup N
       \/ CloneOf(n, Held)

LEMMA MovesKeepTags ==
  ASSUME TagInv, NEW N, Fresh(N), Moves(N)
  PROVE  TagInv'
<1>1. TagsOK'
  BY DEF TagInv, TagsOK, Fresh, Moves, CloneOf
<1>2. OneOriginal'
  BY DEF TagInv, OneOriginal, Fresh, Moves, CloneOf
<1>3. ASSUME NEW n \in Held', ~n.clone, NEW b \in tagCqes' \cup announced'
      PROVE  n.buf # b
  <2>1. n \in Held \cup N
    BY <1>3 DEF Moves, CloneOf
  <2>2. CASE b \in tagCqes \cup announced'
    BY <1>3, <2>1, <2>2
       DEF TagInv, TagMeansUnused, BufSide!TagMeansUnused, Held, Fresh, Moves
  <2>3. CASE b \notin tagCqes \cup announced'
    <3>1. PICK gone \in Held \ Held' : gone.tag = b /\ b # BufSide!NoTag
      BY <1>3, <2>3 DEF Moves
    <3>2. gone.buf = b /\ ~gone.clone
      BY <3>1 DEF TagInv, TagsOK
    <3>3. n # gone
      BY <1>3, <3>1
    <3> QED
      BY <1>3, <2>1, <3>1, <3>2, <3>3 DEF TagInv, OneOriginal, Fresh
  <2> QED
    BY <2>2, <2>3
<1>4. TagMeansUnused'
  BY <1>3 DEF TagMeansUnused, BufSide!TagMeansUnused, Held
<1> QED
  BY <1>1, <1>2, <1>4 DEF TagInv, Moves

LEMMA MovesKeepFreed ==
  ASSUME FreedBuffersAreUnused, NEW N, Fresh(N), Moves(N)
  PROVE  FreedBuffersAreUnused'
BY DEF FreedBuffersAreUnused, BufSide!FreedBuffersAreUnused, Held, Fresh, Moves, CloneOf

LEMMA EmptyIsNode == BufSide!Empty \in Nodes
BY DEF BufSide!Empty, BufSide!Node, Nodes

\* What tables and requests hold.
LEMMA HeldMembers ==
  ASSUME NEW tables, NEW reqs, NEW n
  PROVE  n \in BufSide!HeldBy(tables, reqs) <=>
           \/ \E r \in Rings : n \in BufSide!NodesIn(tables[r])
           \/ n # BufSide!Empty /\ \E q \in BufRequests : n = reqs[q]
BY DEF BufSide!HeldBy, BufSide!Idle

LEMMA HeldIn ==
  ASSUME BufTypeOK
  PROVE  /\ \A r \in Rings : BufSide!NodesIn(bufTable[r]) \subseteq Held
         /\ \A q \in BufRequests : inFlight[q] # BufSide!Empty => inFlight[q] \in Held
         /\ \A n \in Held : n # BufSide!Empty /\
              ((\E r \in Rings : n \in BufSide!NodesIn(bufTable[r]))
               \/ (\E q \in BufRequests : n = inFlight[q]))
<1>1. \A n \in Held : n # BufSide!Empty
  BY DEF Held, BufSide!HeldBy, BufSide!NodesIn, BufSide!Idle
<1> QED
  BY <1>1, HeldMembers DEF Held

LEMMA TableChanges ==
  ASSUME BufTypeOK, NEW r \in Rings, NEW t \in Seq(Nodes),
         bufTable' = [bufTable EXCEPT ![r] = t], inFlight' = inFlight
  PROVE  BufTypeOK' /\ Held' \subseteq Held \cup BufSide!NodesIn(t)
<1>1. BufTypeOK' /\ \A s \in Rings : bufTable'[s] = IF s = r THEN t ELSE bufTable[s]
  BY DEF BufTypeOK
<1>2. ASSUME NEW n \in Held' PROVE n \in Held \cup BufSide!NodesIn(t)
  <2>1. CASE \E s \in Rings : n \in BufSide!NodesIn(bufTable'[s])
    BY <1>1, <2>1, HeldIn
  <2>2. CASE \E q \in BufRequests : n # BufSide!Empty /\ n = inFlight'[q]
    BY <2>2, HeldIn
  <2>3. \/ \E s \in Rings : n \in BufSide!NodesIn(bufTable'[s])
        \/ \E q \in BufRequests : n # BufSide!Empty /\ n = inFlight'[q]
    <3>1. PICK tables, reqs : tables = bufTable' /\ reqs = inFlight'
      OBVIOUS
    <3>2. n \in BufSide!HeldBy(tables, reqs)
      BY <3>1, Zenon DEF Held
    <3>3. \/ \E s \in Rings : n \in BufSide!NodesIn(tables[s])
          \/ \E q \in BufRequests : n # BufSide!Empty /\ n = reqs[q]
      BY <3>2, HeldMembers
    <3> QED
      BY <3>1, <3>3, Zenon
  <2> QED
    BY <2>1, <2>2, <2>3
<1> QED
  BY <1>1, <1>2

\* The tags of what is held no more.
LEMMA SettleHeld ==
  ASSUME NEW tables, NEW reqs, BufSide!Settle(tables, reqs)
  PROVE  /\ bufTable' = tables /\ inFlight' = reqs
         /\ tagCqes' = tagCqes \cup ({n.tag : n \in Held \ Held'} \ {BufSide!NoTag})
<1>1. bufTable' = tables /\ inFlight' = reqs
  BY DEF BufSide!Settle
<1>2. Held' = BufSide!HeldBy(tables, reqs)
  BY <1>1, Zenon DEF Held
<1> QED
  BY <1>1, <1>2, Zenon DEF BufSide!Settle, Held

\* A call on the table of one ring.
LEMMA TableMoves ==
  ASSUME BufTypeOK, NEW r \in Rings, NEW t \in Seq(Nodes), NEW N,
         BufSide!Settle([bufTable EXCEPT ![r] = t], inFlight),
         announced' \subseteq announced, \A n \in N : n.buf \notin announced', freed' = freed,
         \A n \in BufSide!NodesIn(t) :
           \/ n \in Held \cup N
           \/ CloneOf(n, Held)
  PROVE  Moves(N)
<1>1. PICK tables, reqs : /\ tables = [bufTable EXCEPT ![r] = t] /\ reqs = inFlight
                          /\ BufSide!Settle(tables, reqs)
  OBVIOUS
<1>2. /\ bufTable' = tables /\ inFlight' = reqs
      /\ tagCqes' = tagCqes \cup ({n.tag : n \in Held \ Held'} \ {BufSide!NoTag})
  BY <1>1, SettleHeld
<1>3. bufTable' = [bufTable EXCEPT ![r] = t] /\ inFlight' = inFlight
  BY <1>1, <1>2
<1>4. BufTypeOK' /\ Held' \subseteq Held \cup BufSide!NodesIn(t)
  BY <1>3, TableChanges
<1> QED
  BY <1>2, <1>4 DEF Moves

LEMMA NothingFresh == Fresh({})
BY DEF Fresh

\* Slices of the application: sequences no longer than the largest table.
LEMMA SlicesAreSeqs ==
  /\ \A bufs \in BufSide!BufSlices : bufs \in Seq(Bufs)
  /\ \A tags \in BufSide!TagSlices : tags \in Seq(BOOLEAN)
<1>1. ASSUME NEW bufs \in BufSide!BufSlices PROVE bufs \in Seq(Bufs)
  <2>1. PICK m \in 0 .. MaxTable : bufs \in [1 .. m -> Bufs]
    BY DEF BufSide!BufSlices, BufSide!SeqOf
  <2> QED
    BY <2>1, TablesAssumption
<1>2. ASSUME NEW tags \in BufSide!TagSlices PROVE tags \in Seq(BOOLEAN)
  <2>1. PICK m \in 0 .. MaxTable : tags \in [1 .. m -> BOOLEAN]
    BY DEF BufSide!TagSlices, BufSide!SeqOf
  <2> QED
    BY <2>1, TablesAssumption
<1> QED
  BY <1>1, <1>2

LEMMA NodeFields ==
  ASSUME NEW r \in Rings, NEW b \in Bufs, NEW tag \in {BufSide!NoTag, b}
  PROVE  LET n == BufSide!Node(r, b, tag)
         IN  n \in Nodes /\ n.buf = b /\ n.tag = tag /\ ~n.clone
BY DEF BufSide!Node, Nodes

\* What is registered is fresh.
LEMMA NewNodesAreFresh ==
  ASSUME NEW r \in Rings, NEW bufs \in Seq(Bufs), NEW tags \in Seq(BOOLEAN), NEW garbage,
         NEW nr \in Nat, nr <= Len(bufs), nr <= Len(tags), BufSide!Registrable(bufs)
  PROVE  LET nodes == BufSide!NewNodes(r, bufs, tags, nr, garbage)
         IN  /\ nodes \in Seq(Nodes) /\ Len(nodes) = nr
             /\ Fresh(BufSide!NodesIn(nodes))
<1> DEFINE nodes == BufSide!NewNodes(r, bufs, tags, nr, garbage)
<1>1. ASSUME NEW k \in 1 .. nr
      PROVE  /\ nodes[k] \in Nodes /\ nodes[k].buf = bufs[k] /\ ~nodes[k].clone
             /\ nodes[k].tag \in {BufSide!NoTag, bufs[k]}
             /\ nodes[k] = BufSide!Node(r, bufs[k], BufSide!TagAt(tags, k, bufs[k], garbage))
  <2>1. bufs[k] \in Bufs /\ BufSide!TagAt(tags, k, bufs[k], garbage) \in {BufSide!NoTag, bufs[k]}
    BY DEF BufSide!TagAt
  <2>2. nodes[k] = BufSide!Node(r, bufs[k], BufSide!TagAt(tags, k, bufs[k], garbage))
    BY DEF BufSide!NewNodes
  <2> QED
    BY <2>1, <2>2, NodeFields
<1>2. nodes \in [1 .. nr -> Nodes] /\ nodes \in Seq(Nodes) /\ Len(nodes) = nr
  <2>1. nodes \in [1 .. nr -> Nodes]
    BY <1>1 DEF BufSide!NewNodes
  <2> QED
    BY <2>1
<1> HIDE DEF nodes
<1>3. ASSUME NEW n \in BufSide!NodesIn(nodes)
      PROVE  \E k \in 1 .. nr : n = nodes[k]
  BY <1>2 DEF BufSide!NodesIn
<1>4. \A k \in 1 .. nr : k \in DOMAIN bufs
  OBVIOUS
<1>5. ASSUME NEW n \in BufSide!NodesIn(nodes)
      PROVE  /\ ~n.clone /\ n.tag \in {BufSide!NoTag, n.buf}
             /\ n.buf \notin tagCqes \cup freed
             /\ \A m \in Held : m.buf # n.buf
  BY <1>1, <1>3, <1>4 DEF BufSide!Registrable, Held
<1>6. ASSUME NEW m \in BufSide!NodesIn(nodes), NEW n \in BufSide!NodesIn(nodes), m.buf = n.buf
      PROVE  m = n
  <2>1. PICK j \in 1 .. nr, k \in 1 .. nr : m = nodes[j] /\ n = nodes[k]
    BY <1>3
  <2>2. bufs[j] = bufs[k]
    BY <1>1, <1>6, <2>1
  <2>3. j = k
    BY <1>4, <2>2 DEF BufSide!Registrable
  <2> QED
    BY <2>1, <2>3
<1> QED
  BY <1>2, <1>5, <1>6 DEF Fresh, nodes

LEMMA SplicedNodes ==
  ASSUME NEW t \in Seq(Nodes), NEW nodes \in Seq(Nodes), NEW offset \in Nat,
         NEW done \in 1 .. Len(nodes)
  PROVE  LET new == BufSide!Spliced(t, offset, nodes, done)
         IN  /\ new \in Seq(Nodes)
             /\ BufSide!NodesIn(new) \subseteq BufSide!NodesIn(t) \cup BufSide!NodesIn(nodes)
<1> DEFINE new == BufSide!Spliced(t, offset, nodes, done)
<1>1. DOMAIN t = 1 .. Len(t) /\ Len(t) \in Nat /\ DOMAIN nodes = 1 .. Len(nodes) /\ Len(nodes) \in Nat
  OBVIOUS
<1>2. new = [i \in 1 .. Len(t) |-> IF i - offset \in 1 .. done THEN nodes[i - offset] ELSE t[i]]
  BY <1>1 DEF BufSide!Spliced
<1>3. ASSUME NEW i \in 1 .. Len(t)
      PROVE  /\ \/ new[i] = t[i]
                \/ \E k \in 1 .. Len(nodes) : new[i] = nodes[k]
             /\ new[i] \in Nodes
  BY <1>1, <1>2
<1>4. new \in Seq(Nodes) /\ DOMAIN new = 1 .. Len(t)
  <2>1. new \in [1 .. Len(t) -> Nodes]
    BY <1>1, <1>2, <1>3
  <2> QED
    BY <1>1, <2>1
<1> HIDE DEF new
<1>5. BufSide!NodesIn(new) \subseteq BufSide!NodesIn(t) \cup BufSide!NodesIn(nodes)
  BY <1>1, <1>3, <1>4 DEF BufSide!NodesIn
<1> QED
  BY <1>4, <1>5 DEF new

LEMMA ClonedFields ==
  ASSUME NEW r \in Rings, NEW n \in Nodes, n # BufSide!Empty
  PROVE  LET c == BufSide!Cloned(r, n)
         IN  c \in Nodes /\ c.clone /\ c.tag = BufSide!NoTag /\ c.buf = n.buf
BY DEF BufSide!Cloned, Nodes

\* A range that a table has.
Fits(off, count, t) == off + count <= Len(t)

LEMMA OverlaidNodes ==
  ASSUME NEW r \in Rings, NEW t \in Seq(Nodes), NEW from \in Seq(Nodes), NEW dstOff \in Nat,
         NEW srcOff \in Nat, NEW count \in Nat, Fits(srcOff, count, from)
  PROVE  LET new == BufSide!Overlaid(r, t, dstOff, from, srcOff, count)
         IN  /\ new \in Seq(Nodes)
             /\ \A n \in BufSide!NodesIn(new) :
                  \/ n \in BufSide!NodesIn(t)
                  \/ CloneOf(n, BufSide!NodesIn(from))
<1> DEFINE new == BufSide!Overlaid(r, t, dstOff, from, srcOff, count)
           len == BufSide!LargerOf(dstOff + count, Len(t))
<1>1. /\ DOMAIN t = 1 .. Len(t) /\ Len(t) \in Nat
      /\ DOMAIN from = 1 .. Len(from) /\ Len(from) \in Nat /\ len \in Nat
  BY DEF BufSide!LargerOf
<1> HIDE DEF len
<1>2. new = [i \in 1 .. len |->
               IF i - dstOff \in 1 .. count THEN BufSide!Cloned(r, from[srcOff + i - dstOff])
               ELSE IF i \in DOMAIN t THEN t[i] ELSE BufSide!Empty]
  BY DEF BufSide!Overlaid, len
<1>3. ASSUME NEW i \in 1 .. len
      PROVE  \/ new[i] = BufSide!Empty
             \/ i \in DOMAIN t /\ new[i] = t[i]
             \/ \E k \in 1 .. Len(from) :
                  from[k] # BufSide!Empty /\ new[i] = BufSide!Cloned(r, from[k])
  <2>1. CASE i - dstOff \in 1 .. count
    <3>1. PICK k \in 1 .. Len(from) : k = srcOff + i - dstOff
      BY <1>1, <2>1 DEF Fits
    <3>2. new[i] = BufSide!Cloned(r, from[k])
      BY <1>2, <2>1, <3>1
    <3>3. from[k] = BufSide!Empty => new[i] = BufSide!Empty
      BY <3>2 DEF BufSide!Cloned
    <3> QED
      BY <3>2, <3>3
  <2>2. CASE i - dstOff \notin 1 .. count
    BY <1>2, <2>2
  <2> QED
    BY <2>1, <2>2
<1>4. \A k \in 1 .. Len(from) : from[k] \in Nodes
  OBVIOUS
<1>5. ASSUME NEW i \in 1 .. len PROVE new[i] \in Nodes
  BY <1>1, <1>3, <1>4, ClonedFields, EmptyIsNode
<1>6. new \in Seq(Nodes) /\ DOMAIN new = 1 .. len
  <2>1. new \in [1 .. len -> Nodes]
    BY <1>2, <1>5
  <2> QED
    BY <1>1, <2>1
<1> HIDE DEF new
<1>7. ASSUME NEW n \in BufSide!NodesIn(new)
      PROVE  \/ n \in BufSide!NodesIn(t)
             \/ CloneOf(n, BufSide!NodesIn(from))
  <2>1. PICK i \in 1 .. len : n = new[i] /\ n # BufSide!Empty
    BY <1>6 DEF BufSide!NodesIn
  <2>2. CASE i \in DOMAIN t /\ new[i] = t[i]
    BY <2>1, <2>2 DEF BufSide!NodesIn
  <2>3. ASSUME NEW k \in 1 .. Len(from), from[k] # BufSide!Empty,
               new[i] = BufSide!Cloned(r, from[k])
        PROVE  CloneOf(n, BufSide!NodesIn(from))
    <3>1. from[k] \in BufSide!NodesIn(from)
      BY <1>1, <2>3 DEF BufSide!NodesIn
    <3>2. n.clone /\ n.tag = BufSide!NoTag /\ n.buf = from[k].buf
      BY <1>4, <2>1, <2>3, ClonedFields
    <3> QED
      BY <3>1, <3>2 DEF CloneOf
  <2> QED
    BY <1>3, <2>1, <2>2, <2>3
<1> QED
  BY <1>6, <1>7 DEF new

LEMMA NewTableMoves ==
  ASSUME TagInv, NEW r \in Rings, NEW nodes \in Seq(Nodes), BufSide!NewTable(r, nodes)
  PROVE  Moves(BufSide!NodesIn(nodes))
<1>1. \A n \in BufSide!NodesIn(nodes) : n.buf \notin announced'
  BY DEF BufSide!NewTable, BufSide!BufsIn
<1>2. /\ BufSide!Settle([bufTable EXCEPT ![r] = nodes], inFlight)
      /\ announced' \subseteq announced /\ freed' = freed
  BY DEF BufSide!NewTable
<1> QED
  BY <1>1, <1>2, TableMoves DEF TagInv

LEMMA RegisterMoves ==
  ASSUME TagInv, NEW r \in Rings, BufSide!Register(r)
  PROVE  \E N : Fresh(N) /\ Moves(N)
<1>1. ASSUME NEW bufs \in BufSide!BufSlices, BufSide!RegisterBuffers(r, bufs)
      PROVE  \E N : Fresh(N) /\ Moves(N)
  <2>1. PICK tags : tags = BufSide!Untagged(bufs)
    OBVIOUS
  <2>2. bufs \in Seq(Bufs) /\ tags \in Seq(BOOLEAN) /\ Len(tags) = Len(bufs) /\ Len(bufs) \in Nat
    <3>1. bufs \in Seq(Bufs)
      BY SlicesAreSeqs
    <3>2. DOMAIN bufs = 1 .. Len(bufs) /\ Len(bufs) \in Nat
      BY <3>1
    <3>3. tags = [k \in 1 .. Len(bufs) |-> FALSE]
      BY <2>1, <3>2 DEF BufSide!Untagged
    <3>4. tags \in [1 .. Len(bufs) -> BOOLEAN]
      BY <3>3, Zenon
    <3> QED
      BY <3>1, <3>2, <3>4
  <2>3. PICK nodes : nodes = BufSide!NewNodes(r, bufs, tags, Len(bufs), BufSide!NoTag)
    OBVIOUS
  <2>4. BufSide!Registrable(bufs) /\ BufSide!NewTable(r, nodes)
    BY <1>1, <2>1, <2>3, Zenon DEF BufSide!RegisterBuffers
  <2>5. nodes \in Seq(Nodes) /\ Fresh(BufSide!NodesIn(nodes))
    BY <2>2, <2>3, <2>4, NewNodesAreFresh
  <2> QED
    BY <2>4, <2>5, NewTableMoves
<1>2. ASSUME NEW bufs \in BufSide!BufSlices, NEW tags \in BufSide!TagSlices, NEW garbage \in Bufs,
             BufSide!RegisterBuffers2(r, bufs, tags, garbage)
      PROVE  \E N : Fresh(N) /\ Moves(N)
  <2>1. PICK nr : nr = BufSide!MinLen(bufs, tags)
    OBVIOUS
  <2>2. /\ bufs \in Seq(Bufs) /\ tags \in Seq(BOOLEAN)
        /\ nr \in Nat /\ nr <= Len(bufs) /\ nr <= Len(tags)
    BY <2>1, SlicesAreSeqs DEF BufSide!MinLen
  <2>3. PICK nodes : nodes = BufSide!NewNodes(r, bufs, tags, nr, garbage)
    OBVIOUS
  <2>4. BufSide!Registrable(bufs) /\ BufSide!NewTable(r, nodes)
    BY <1>2, <2>1, <2>3, Zenon DEF BufSide!RegisterBuffers2
  <2>5. nodes \in Seq(Nodes) /\ Fresh(BufSide!NodesIn(nodes))
    BY <2>2, <2>3, <2>4, NewNodesAreFresh
  <2> QED
    BY <2>4, <2>5, NewTableMoves
<1>3. ASSUME NEW nr \in 1 .. MaxTable, BufSide!RegisterBuffersSparse(r, nr)
      PROVE  \E N : Fresh(N) /\ Moves(N)
  <2>1. PICK nodes : nodes = [k \in 1 .. nr |-> BufSide!Empty]
    OBVIOUS
  <2>2. nodes \in Seq(Nodes) /\ BufSide!NodesIn(nodes) = {}
    BY <2>1, EmptyIsNode, TablesAssumption DEF BufSide!NodesIn
  <2>3. BufSide!NewTable(r, nodes)
    BY <1>3, <2>1 DEF BufSide!RegisterBuffersSparse
  <2> QED
    BY <2>2, <2>3, NewTableMoves, NothingFresh
<1> QED
  BY <1>1, <1>2, <1>3 DEF BufSide!Register

LEMMA UpdateMoves ==
  ASSUME TagInv, NEW r \in Rings, BufSide!Update(r)
  PROVE  \E N : Fresh(N) /\ Moves(N)
<1>1. PICK offset \in BufSide!Offsets, bufs \in BufSide!BufSlices, tags \in BufSide!TagSlices,
           garbage \in Bufs : BufSide!RegisterBuffersUpdate(r, offset, bufs, tags, garbage)
  BY DEF BufSide!Update
<1>2. PICK nr : nr = BufSide!MinLen(bufs, tags)
  OBVIOUS
<1>3. /\ bufs \in Seq(Bufs) /\ tags \in Seq(BOOLEAN) /\ offset \in Nat
      /\ nr \in Nat /\ nr <= Len(bufs) /\ nr <= Len(tags)
  BY <1>2, SlicesAreSeqs, TablesAssumption DEF BufSide!MinLen, BufSide!Offsets
<1>4. PICK nodes : nodes = BufSide!NewNodes(r, bufs, tags, nr, garbage)
  OBVIOUS
<1>5. /\ BufSide!Registrable(bufs)
      /\ \E done \in (IF Partial THEN 1 .. nr ELSE {nr}) :
           BufSide!Settle([bufTable EXCEPT ![r] = BufSide!Spliced(@, offset, nodes, done)], inFlight)
      /\ announced' = announced \ BufSide!BufsIn(nodes)
      /\ freed' = freed /\ nr > 0
  BY <1>1, <1>2, <1>4 DEF BufSide!RegisterBuffersUpdate
<1>6. PICK done, t :
        /\ done \in 1 .. nr
        /\ t = BufSide!Spliced(bufTable[r], offset, nodes, done)
        /\ BufSide!Settle([bufTable EXCEPT ![r] = t], inFlight)
  <2>1. PICK done \in 1 .. nr :
          BufSide!Settle([bufTable EXCEPT ![r] = BufSide!Spliced(@, offset, nodes, done)], inFlight)
    <3>1. (IF Partial THEN 1 .. nr ELSE {nr}) \subseteq 1 .. nr
      BY <1>3, <1>5
    <3> QED
      BY <1>5, <3>1, Zenon
  <2>2. PICK t : t = BufSide!Spliced(bufTable[r], offset, nodes, done)
    OBVIOUS
  <2>3. [bufTable EXCEPT ![r] = BufSide!Spliced(@, offset, nodes, done)] = [bufTable EXCEPT ![r] = t]
    BY <2>2
  <2> QED
    BY <2>1, <2>2, <2>3, Zenon
<1>7. nodes \in Seq(Nodes) /\ Len(nodes) = nr /\ Fresh(BufSide!NodesIn(nodes))
  BY <1>3, <1>4, <1>5, NewNodesAreFresh
<1>8. bufTable[r] \in Seq(Nodes) /\ BufSide!NodesIn(bufTable[r]) \subseteq Held
  BY HeldIn DEF TagInv, BufTypeOK
<1>9. t \in Seq(Nodes) /\ BufSide!NodesIn(t) \subseteq Held \cup BufSide!NodesIn(nodes)
  BY <1>3, <1>6, <1>7, <1>8, SplicedNodes
<1>10. announced' \subseteq announced /\ \A n \in BufSide!NodesIn(nodes) : n.buf \notin announced'
  BY <1>5 DEF BufSide!BufsIn
<1>11. Moves(BufSide!NodesIn(nodes))
  BY <1>5, <1>6, <1>9, <1>10, TableMoves DEF TagInv
<1> QED
  BY <1>7, <1>11

LEMMA UnregisterMoves ==
  ASSUME TagInv, NEW r \in Rings, BufSide!UnregisterBuffers(r)
  PROVE  \E N : Fresh(N) /\ Moves(N)
<1>1. PICK t : t = <<>>
  OBVIOUS
<1>2. t \in Seq(Nodes) /\ BufSide!NodesIn(t) = {}
  BY <1>1 DEF BufSide!NodesIn
<1>3. BufSide!Settle([bufTable EXCEPT ![r] = t], inFlight) /\ announced' = announced /\ freed' = freed
  BY <1>1 DEF BufSide!UnregisterBuffers
<1>4. Moves({})
  BY <1>2, <1>3, TableMoves DEF TagInv
<1> QED
  BY <1>4, NothingFresh

LEMMA CloneMoves ==
  ASSUME TagInv, NEW r \in Rings, BufSide!Clone(r)
  PROVE  \E N : Fresh(N) /\ Moves(N)
<1>1. PICK src \in Rings, srcOff \in Nat, dstOff \in Nat, nr \in Nat, replace \in BOOLEAN :
        BufSide!RegisterBuffersCloneOffset(r, src, srcOff, dstOff, nr, replace)
  <2>1. BufSide!Offsets \subseteq Nat /\ 0 .. MaxTable \subseteq Nat
    BY TablesAssumption DEF BufSide!Offsets
  <2> QED
    BY <2>1 DEF BufSide!Clone, BufSide!RegisterBuffersClone
<1>2. bufTable[r] \in Seq(Nodes) /\ bufTable[src] \in Seq(Nodes)
  BY DEF TagInv, BufTypeOK
<1>3. PICK count, from, dst, t :
        /\ count = IF nr = 0 THEN Len(bufTable[src]) ELSE nr
        /\ from = bufTable[src] /\ dst = bufTable[r]
        /\ t = BufSide!Overlaid(r, dst, dstOff, from, srcOff, count)
  OBVIOUS
<1>4. /\ count \in Nat /\ from \in Seq(Nodes) /\ srcOff + count <= Len(from)
      /\ BufSide!Settle([bufTable EXCEPT ![r] = t], inFlight)
      /\ announced' \subseteq announced /\ freed' = freed
  BY <1>1, <1>2, <1>3 DEF BufSide!RegisterBuffersCloneOffset, BufSide!CloneCall
<1>5. /\ t \in Seq(Nodes)
      /\ \A n \in BufSide!NodesIn(t) :
           \/ n \in BufSide!NodesIn(dst)
           \/ CloneOf(n, BufSide!NodesIn(from))
  <2>1. dst \in Seq(Nodes)
    BY <1>2, <1>3
  <2>2. t = BufSide!Overlaid(r, dst, dstOff, from, srcOff, count)
    BY <1>3
  <2> QED
    BY <1>4, <2>1, <2>2, OverlaidNodes DEF Fits
<1>6. BufSide!NodesIn(dst) \subseteq Held /\ BufSide!NodesIn(from) \subseteq Held
  BY <1>3, HeldIn DEF TagInv
<1>7. \A n \in BufSide!NodesIn(t) :
           \/ n \in Held \cup {}
           \/ CloneOf(n, Held)
  BY <1>5, <1>6 DEF CloneOf
<1>8. Moves({})
  BY <1>4, <1>5, <1>7, TableMoves DEF TagInv
<1> QED
  BY <1>8, NothingFresh

\* A request takes the node of its slot, and lets it go when it is done.
LEMMA RequestMoves ==
  ASSUME TagInv, NEW q \in BufRequests,
         BufSide!Complete(q) \/ \E r \in Rings, i \in 1 .. MaxTable : BufSide!Submit(q, r, i)
  PROVE  \E N : Fresh(N) /\ Moves(N)
<1>1. BufTypeOK
  BY DEF TagInv
<1>2. ASSUME NEW r \in Rings, NEW i \in 1 .. MaxTable, BufSide!Submit(q, r, i)
      PROVE  Moves({})
  <2>1. PICK node : node = bufTable[r][i] /\ inFlight' = [inFlight EXCEPT ![q] = node]
    BY <1>2 DEF BufSide!Submit
  <2>2. node \in Nodes /\ node \in Held
    <3>1. node \in BufSide!NodesIn(bufTable[r])
      BY <1>2, <2>1 DEF BufSide!Submit, BufSide!NodesIn
    <3>2. node \in Nodes
      BY <1>1, <1>2, <2>1 DEF BufSide!Submit, BufTypeOK
    <3> QED
      BY <1>1, <3>1, <3>2, HeldIn
  <2>3. inFlight[q] = BufSide!Empty /\ bufTable' = bufTable
    BY <1>2 DEF BufSide!Submit, BufSide!Idle
  <2>4. BufTypeOK'
    BY <1>1, <2>1, <2>2, <2>3 DEF BufTypeOK
  <2>5. \A p \in BufRequests : inFlight'[p] = IF p = q THEN node ELSE inFlight[p]
    BY <1>1, <2>1 DEF BufTypeOK
  <2>6. Held' = Held
    <3>1. PICK tables, reqs : tables = bufTable' /\ reqs = inFlight'
      OBVIOUS
    <3>2. PICK tables0, reqs0 : tables0 = bufTable /\ reqs0 = inFlight
      OBVIOUS
    <3>3. Held' = BufSide!HeldBy(tables, reqs) /\ Held = BufSide!HeldBy(tables0, reqs0)
      BY <3>1, <3>2, Zenon DEF Held
    <3>4. ASSUME NEW n PROVE n \in BufSide!HeldBy(tables, reqs) <=> n \in BufSide!HeldBy(tables0, reqs0)
      <4>1. tables = tables0 /\ node # BufSide!Empty /\ node \in BufSide!HeldBy(tables0, reqs0)
        BY <1>1, <2>2, <2>3, <3>1, <3>2, <3>3, HeldIn
      <4>2. \A p \in BufRequests : reqs[p] = IF p = q THEN node ELSE reqs0[p]
        BY <2>5, <3>1, <3>2
      <4>3. reqs0[q] = BufSide!Empty
        BY <2>3, <3>2
      <4> QED
        BY <4>1, <4>2, <4>3, HeldMembers
    <3> QED
      BY <3>3, <3>4
  <2> QED
    BY <1>2, <2>4, <2>6 DEF BufSide!Submit, Moves
<1>3. ASSUME BufSide!Complete(q) PROVE Moves({})
  <2>1. PICK tables, reqs :
          /\ tables = bufTable /\ reqs = [inFlight EXCEPT ![q] = BufSide!Empty]
          /\ BufSide!Settle(tables, reqs)
    BY <1>3 DEF BufSide!Complete, BufSide!Idle
  <2>2. /\ bufTable' = tables /\ inFlight' = reqs
        /\ tagCqes' = tagCqes \cup ({n.tag : n \in Held \ Held'} \ {BufSide!NoTag})
    BY <2>1, SettleHeld
  <2>3. BufTypeOK' /\ \A p \in BufRequests : reqs[p] = IF p = q THEN BufSide!Empty ELSE inFlight[p]
    BY <1>1, <2>1, <2>2, EmptyIsNode DEF BufTypeOK
  <2>4. Held' = BufSide!HeldBy(tables, reqs)
    BY <2>2, Zenon DEF Held
  <2>5. \A n \in BufSide!HeldBy(tables, reqs) : n \in BufSide!HeldBy(bufTable, inFlight)
    <3>1. PICK reqs0 : reqs0 = inFlight
      OBVIOUS
    <3>2. \A p \in BufRequests : reqs[p] = IF p = q THEN BufSide!Empty ELSE reqs0[p]
      BY <2>3, <3>1
    <3>3. \A n \in BufSide!HeldBy(tables, reqs) : n \in BufSide!HeldBy(tables, reqs0)
      BY <3>2, HeldMembers
    <3> QED
      BY <2>1, <3>1, <3>3
  <2>6. Held' \subseteq Held
    BY <2>4, <2>5 DEF Held
  <2> QED
    BY <1>3, <2>2, <2>3, <2>6 DEF BufSide!Complete, Moves
<1> QED
  BY <1>2, <1>3, NothingFresh

LEMMA StepMoves ==
  ASSUME TagInv, BufSide!Next
  PROVE  \/ \E N : Fresh(N) /\ Moves(N)
         \/ /\ UNCHANGED <<bufTable, inFlight>>
            /\ \/ \E tag \in tagCqes : BufSide!ReadTag(tag)
               \/ \E b \in Bufs : BufSide!Free(b) \/ BufSide!Allocate(b)
BY RegisterMoves, UpdateMoves, UnregisterMoves, CloneMoves, RequestMoves
   DEF BufSide!Next, BufSide!ReadTag, BufSide!Free, BufSide!Allocate

LEMMA TagStep ==
  ASSUME TagInv, [BufSide!Next]_bufVars
  PROVE  TagInv'
<1>1. ASSUME UNCHANGED <<bufTable, inFlight>>,
             tagCqes' \cup announced' \subseteq tagCqes \cup announced
      PROVE  TagInv'
  <2>1. Held' = Held
    BY <1>1 DEF Held
  <2> QED
    BY <1>1, <2>1 DEF TagInv, BufTypeOK, TagsOK, OneOriginal, TagMeansUnused,
                      BufSide!TagMeansUnused, Held
<1>2. ASSUME NEW N, Fresh(N), Moves(N) PROVE TagInv'
  BY <1>2, MovesKeepTags
<1>3. CASE UNCHANGED bufVars
  BY <1>1, <1>3 DEF bufVars
<1>4. ASSUME NEW tag \in tagCqes, BufSide!ReadTag(tag)
      PROVE  tagCqes' \cup announced' \subseteq tagCqes \cup announced
  BY <1>4 DEF BufSide!ReadTag
<1>5. ASSUME NEW b \in Bufs, BufSide!Free(b) \/ BufSide!Allocate(b)
      PROVE  tagCqes' \cup announced' \subseteq tagCqes \cup announced
  BY <1>5 DEF BufSide!Free, BufSide!Allocate
<1> QED
  BY <1>1, <1>2, <1>3, <1>4, <1>5, StepMoves

LEMMA TagInit == BufSide!Init => TagInv /\ FreedInv
<1> SUFFICES ASSUME BufSide!Init PROVE TagInv /\ FreedInv
  OBVIOUS
<1>1. BufTypeOK
  BY EmptyIsNode DEF BufSide!Init, BufTypeOK, BufSide!Idle
<1>2. \A r \in Rings : bufTable[r] = <<>>
  BY DEF BufSide!Init
<1>3. Held = {}
  <2>1. ASSUME NEW n \in Held PROVE FALSE
    <3>1. CASE \E r \in Rings : n \in BufSide!NodesIn(bufTable[r])
      <4>1. BufSide!NodesIn(<<>>) = {}
        BY DEF BufSide!NodesIn
      <4> QED
        BY <1>2, <3>1, <4>1
    <3>2. CASE n # BufSide!Empty /\ \E q \in BufRequests : n = inFlight[q]
      BY <3>2 DEF BufSide!Init, BufSide!Idle
    <3> QED
      BY <1>1, <3>1, <3>2, HeldIn
  <2> QED
    BY <2>1
<1>4. TagInv
  BY <1>1, <1>3 DEF TagInv, TagsOK, OneOriginal, TagMeansUnused, BufSide!TagMeansUnused, Held
<1>5. FreedBuffersAreUnused /\ bufView = bufTable
  BY <1>3 DEF FreedBuffersAreUnused, BufSide!FreedBuffersAreUnused, Held, BufSide!Init
<1> QED
  BY <1>4, <1>5 DEF FreedInv

LEMMA BufferSide ==
  [CancellationStep \/ FileStep \/ BufferStep]_<<part, vars, fileVars, bufVars>>
    => [BufSide!Next]_bufVars
BY DEF CancellationStep, FileStep, BufferStep

\* Tags: however buffers are registered, updated, cloned and used, the completion that
\* carries a buffer's tag comes when nothing but clones holds the buffer.
THEOREM TagsMeanUnused == PartsSpec => []TagMeansUnused
<1>1. PartsInit => TagInv
  BY TagInit DEF PartsInit
<1>2. TagInv /\ [CancellationStep \/ FileStep \/ BufferStep]_<<part, vars, fileVars, bufVars>>
      => TagInv'
  BY BufferSide, TagStep
<1>3. TagInv => TagMeansUnused
  BY DEF TagInv
<1> QED
  BY <1>1, <1>2, <1>3, PTL DEF PartsSpec

\* Updates that are carried out to the end leave the view and the table alike.
LEMMA ViewIsTable ==
  ASSUME bufView = bufTable, Partial = FALSE, [BufSide!Next]_bufVars
  PROVE  bufView' = bufTable'
<1>1. ASSUME NEW r \in Rings, NEW nodes, BufSide!NewTable(r, nodes) PROVE bufView' = bufTable'
  BY <1>1 DEF BufSide!NewTable, BufSide!Settle
<1>2. ASSUME NEW r \in Rings, BufSide!Register(r) PROVE bufView' = bufTable'
  BY <1>1, <1>2 DEF BufSide!Register, BufSide!RegisterBuffers, BufSide!RegisterBuffers2,
                    BufSide!RegisterBuffersSparse
<1>3. ASSUME NEW r \in Rings, BufSide!Update(r) PROVE bufView' = bufTable'
  BY <1>3 DEF BufSide!Update, BufSide!RegisterBuffersUpdate, BufSide!Settle
<1>4. ASSUME NEW r \in Rings, BufSide!UnregisterBuffers(r) PROVE bufView' = bufTable'
  BY <1>4 DEF BufSide!UnregisterBuffers, BufSide!Settle
<1>5. ASSUME NEW r \in Rings, BufSide!Clone(r) PROVE bufView' = bufTable'
  <2>1. PICK src, srcOff, dstOff, nr, replace :
          BufSide!RegisterBuffersCloneOffset(r, src, srcOff, dstOff, nr, replace)
    BY <1>5 DEF BufSide!Clone, BufSide!RegisterBuffersClone
  <2>2. PICK count : count = IF nr = 0 THEN Len(bufTable[src]) ELSE nr
    OBVIOUS
  <2>3. /\ bufTable' = [bufTable EXCEPT
              ![r] = BufSide!Overlaid(r, @, dstOff, bufTable[src], srcOff, count)]
        /\ bufView' = [bufView EXCEPT
              ![r] = BufSide!Overlaid(r, @, dstOff, bufView[src], srcOff, count)]
    BY <2>1, <2>2, Zenon
       DEF BufSide!RegisterBuffersCloneOffset, BufSide!CloneCall, BufSide!Settle
  <2> QED
    BY <2>3, Zenon
<1>6. ASSUME NEW q \in BufRequests, BufSide!Complete(q) PROVE bufView' = bufTable'
  BY <1>6 DEF BufSide!Complete, BufSide!Settle
<1>7. CASE UNCHANGED <<bufTable, bufView>>
  BY <1>7
<1> QED
  BY <1>2, <1>3, <1>4, <1>5, <1>6, <1>7
     DEF BufSide!Next, bufVars, BufSide!Submit, BufSide!ReadTag, BufSide!Free, BufSide!Allocate

LEMMA FreedStep ==
  ASSUME FreedInv, Partial = FALSE, Discipline = "careful", [BufSide!Next]_bufVars
  PROVE  FreedInv'
<1>1. TagInv' /\ bufView' = bufTable'
  BY TagStep, ViewIsTable DEF FreedInv
<1>2. FreedBuffersAreUnused'
  <2>1. ASSUME UNCHANGED <<bufTable, inFlight>>, freed' \subseteq freed
        PROVE  FreedBuffersAreUnused'
    <3>1. Held' = Held
      BY <2>1 DEF Held
    <3> QED
      BY <2>1, <3>1 DEF FreedInv, FreedBuffersAreUnused, BufSide!FreedBuffersAreUnused, Held
  <2>2. ASSUME NEW N, Fresh(N), Moves(N) PROVE FreedBuffersAreUnused'
    BY <2>2, MovesKeepFreed DEF FreedInv
  <2>3. ASSUME NEW b \in Bufs, BufSide!Free(b) PROVE FreedBuffersAreUnused'
    <3>1. BufTypeOK /\ bufView = bufTable
      BY DEF FreedInv, TagInv
    <3>2. ASSUME NEW n \in Held, n.buf = b PROVE FALSE
      <4>1. CASE BufSide!Quiesced(b)
        BY <3>1, <3>2, <4>1, HeldIn DEF BufSide!Quiesced, BufSide!InNoView, BufSide!BufsIn
      <4>2. CASE b \in announced /\ BufSide!Uncloned(b)
        <5>1. n.clone
          BY <3>2, <4>2 DEF FreedInv, TagInv, TagMeansUnused, BufSide!TagMeansUnused, Held
        <5> QED
          BY <3>1, <3>2, <4>2, <5>1, HeldIn DEF BufSide!Uncloned, BufSide!ClonedInto
      <4> QED
        BY <2>3, <4>1, <4>2 DEF BufSide!Free, BufSide!MayFree
    <3>3. Held' = Held
      BY <2>3 DEF BufSide!Free, Held
    <3> QED
      BY <2>3, <3>2, <3>3
         DEF BufSide!Free, FreedInv, FreedBuffersAreUnused, BufSide!FreedBuffersAreUnused, Held
  <2>4. ASSUME NEW b \in Bufs, BufSide!Allocate(b)
        PROVE  UNCHANGED <<bufTable, inFlight>> /\ freed' \subseteq freed
    BY <2>4 DEF BufSide!Allocate
  <2>5. ASSUME NEW tag \in tagCqes, BufSide!ReadTag(tag)
        PROVE  UNCHANGED <<bufTable, inFlight>> /\ freed' \subseteq freed
    BY <2>5 DEF BufSide!ReadTag
  <2>6. CASE UNCHANGED bufVars
    BY <2>1, <2>6 DEF bufVars
  <2>7. TagInv
    BY DEF FreedInv
  <2> QED
    BY <2>1, <2>2, <2>3, <2>4, <2>5, <2>6, <2>7, StepMoves
<1> QED
  BY <1>1, <1>2 DEF FreedInv

\* When updates are carried out to the end, an application that gives memory back only
\* when no table and no request of its rings holds it, or when it has read the tag of a
\* buffer it has not cloned, never gives back memory a later request would use.
THEOREM FreedAreUnused ==
  ASSUME Partial = FALSE, Discipline = "careful"
  PROVE  PartsSpec => []FreedBuffersAreUnused
<1>1. PartsInit => FreedInv
  BY TagInit DEF PartsInit
<1>2. FreedInv /\ [CancellationStep \/ FileStep \/ BufferStep]_<<part, vars, fileVars, bufVars>>
      => FreedInv'
  BY BufferSide, FreedStep
<1>3. FreedInv => FreedBuffersAreUnused
  BY DEF FreedInv
<1> QED
  BY <1>1, <1>2, <1>3, PTL DEF PartsSpec

=============================================================================
