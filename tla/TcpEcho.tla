------------------------------- MODULE TcpEcho -------------------------------
(***************************************************************************)
(* The echo server of examples/tcp_echo.rs: one thread that lives off the  *)
(* two queues it got from split() and never drops, with a table of tokens   *)
(* (one per connection, its index is the user_data of the requests), a pool *)
(* of buffers and a backlog of entries the submission queue refused.        *)
(*                                                                         *)
(* The queues are the channels of SubmissionChannel and CompletionChannel,  *)
(* with what their handles make visible, and when: entries are staged until *)
(* sync, room comes back with sync, completions are in view since the last  *)
(* sync and given back with the next.  The kernel and the clients are       *)
(* external.                                                               *)
(***************************************************************************)
EXTENDS Integers, Sequences, FiniteSets, SequencesExt

CONSTANTS
  Fd,           \* file descriptors accept can return
  SqEntries,    \* slots of the submission queue (256 in the example)
  AcceptDepth,  \* accepts kept in flight (3 in the example)
  MaxLen,       \* bound: bytes a receive returns
  CallErrors,   \* how system calls may fail: a subset of {"EBUSY", "other"}
  RequestErrors \* requests may fail

ASSUME EchoAssumption ==
  /\ IsFiniteSet(Fd)
  /\ {SqEntries, AcceptDepth, MaxLen} \subseteq Nat \ {0}
  /\ CallErrors \subseteq {"EBUSY", "other"}
  /\ RequestErrors \in BOOLEAN

TokenId == 1..Cardinality(Fd)
Buffer == 1..Cardinality(Fd)
Listening == 0   \* the token of the accepts
None == 0        \* no buffer, no descriptor
Failed == -1

Vacant == [kind |-> "vacant", fd |-> None, buf |-> None, offset |-> 0, len |-> 0]

VARIABLES
  pc,         \* where the loop of main is
  accepts,    \* AcceptCount::count: accepts not in the queue
  tokens, pool, bufs,  \* token_alloc, bufpool and the size of buf_alloc
  backlog,    \* entries the queue refused
  staged, published,   \* entries pushed: before and after sync
  unseen,     \* slots the kernel gave back since the last sync
  accepting, inFlight, \* accepts, other requests in the kernel
  cq,         \* completions in the ring that were not consumed
  inView,     \* how many of them the queue handle has in view
  held,       \* completions were consumed and not given back
  open,       \* descriptors of accepted connections
  owed,       \* per descriptor: bytes received and not echoed
  lost        \* tokens whose entry was dropped

sqVars == <<staged, published, unseen>>
cqVars == <<cq, inView, held>>
kernelVars == <<accepting, inFlight>>
tableVars == <<tokens, pool, bufs>>
clientVars == <<open, owed>>
vars == <<pc, accepts, backlog, lost, sqVars, cqVars, kernelVars, tableVars, clientVars>>

AcceptEntry == [op |-> "accept", tok |-> Listening, fd |-> None, buf |-> None, len |-> 0]
Entry == [op : {"poll", "recv", "send"}, tok : TokenId, fd : Fd,
          buf : Buffer \cup {None}, len : 0..MaxLen] \cup {AcceptEntry}

\* push_to has run once before the loop.
Init ==
  /\ pc = "wait"
  /\ published = [i \in 1..(IF AcceptDepth < SqEntries THEN AcceptDepth ELSE SqEntries)
                    |-> AcceptEntry]
  /\ accepts = AcceptDepth - Len(published)
  /\ staged = <<>> /\ unseen = 0 /\ backlog = <<>> /\ lost = {}
  /\ tokens = [t \in TokenId |-> Vacant] /\ pool = {} /\ bufs = 0
  /\ accepting = 0 /\ inFlight = {}
  /\ cq = <<>> /\ inView = 0 /\ held = FALSE
  /\ open = {} /\ owed = [fd \in Fd |-> 0]

-----------------------------------------------------------------------------
(* The submission queue as its handle sees it.                             *)

Occupied == Len(staged) + Len(published) + unseen

\* push, or the backlog when the queue is full.
PushOrKeep(entry) ==
  IF Occupied < SqEntries
  THEN staged' = Append(staged, entry) /\ UNCHANGED <<published, unseen, backlog>>
  ELSE backlog' = Append(backlog, entry) /\ UNCHANGED sqVars

\* What a system call takes: all that is published.
Requests(entries) == {entries[i] : i \in {j \in DOMAIN entries : entries[j].op # "accept"}}
AcceptsIn(entries) == Cardinality({i \in DOMAIN entries : entries[i].op = "accept"})

KernelTakes ==
  /\ inFlight' = inFlight \cup Requests(published)
  /\ accepting' = accepting + AcceptsIn(published)

-----------------------------------------------------------------------------
(* The loop of main.                                                       *)

\* submit_and_wait(1): entries in sight are submitted, then the kernel waits.
SubmitAndWait ==
  /\ pc = "wait"
  /\ KernelTakes
  /\ published' = <<>> /\ unseen' = unseen + Len(published)
  /\ pc' = "blocked"
  /\ UNCHANGED <<accepts, backlog, lost, staged, cqVars, tableVars, clientVars>>

\* The queue's view of the ring is renewed, what was consumed is given back.
CqSync ==
  /\ inView' = Len(cq)
  /\ held' = FALSE
  /\ pc' = "backlog"
  /\ UNCHANGED <<accepts, backlog, lost, sqVars, cq, kernelVars, tableVars, clientVars>>

\* The kernel counts what is in the ring and was not given back.
WaitDone ==
  /\ pc = "blocked"
  /\ cq # <<>> \/ held
  /\ CqSync

\* EBUSY from submit_and_wait is ignored.
WaitBusy ==
  /\ pc = "wait" /\ "EBUSY" \in CallErrors
  /\ CqSync

\* Any other error ends the program: rings and connections go with it.
Exit ==
  /\ pc \in {"wait", "backlog"} /\ "other" \in CallErrors
  /\ pc = "backlog" => Occupied = SqEntries
  /\ pc' = "exited"
  /\ staged' = <<>> /\ published' = <<>> /\ unseen' = 0 /\ backlog' = <<>> /\ lost' = {}
  /\ tokens' = [t \in TokenId |-> Vacant] /\ pool' = {} /\ bufs' = 0 /\ accepts' = 0
  /\ accepting' = 0 /\ inFlight' = {}
  /\ cq' = <<>> /\ inView' = 0 /\ held' = FALSE
  /\ open' = {} /\ owed' = [fd \in Fd |-> 0]

\* What a round of the backlog loop leaves in the queue after submit and sync.
Visible(submitted) == IF submitted THEN staged ELSE published \o staged

FrontOfBacklog == backlog
AfterPop == Tail(backlog)

\* One round of cleaning the backlog: submit when the queue looks full, sync,
\* and push the first entry; the result of that push is ignored.
BacklogRound ==
  /\ pc = "backlog"
  /\ LET full == Occupied = SqEntries
         room == Len(Visible(full)) < SqEntries
     IN /\ IF full THEN KernelTakes ELSE UNCHANGED kernelVars
        /\ published' = Visible(full) /\ unseen' = 0
        /\ IF backlog = <<>>
           THEN pc' = "accept" /\ staged' = <<>> /\ UNCHANGED <<backlog, lost>>
           ELSE /\ backlog' = AfterPop
                /\ staged' = IF room THEN <<Head(backlog)>> ELSE <<>>
                /\ lost' = IF room THEN lost ELSE lost \cup {Head(backlog).tok}
                /\ UNCHANGED pc
  /\ UNCHANGED <<accepts, cqVars, tableVars, clientVars>>

BacklogBusy ==
  /\ pc = "backlog" /\ "EBUSY" \in CallErrors
  /\ Occupied = SqEntries
  /\ pc' = "accept"
  /\ UNCHANGED <<accepts, backlog, lost, sqVars, cqVars, kernelVars, tableVars, clientVars>>

AcceptsLeft(n) == accepts - n

\* AcceptCount::push_to: as many accepts as there is room for, then sync.
PushAccepts ==
  /\ pc = "accept"
  /\ \E n \in 0..accepts :
       /\ n = accepts \/ Occupied + n = SqEntries
       /\ Occupied + n <= SqEntries
       /\ published' = published \o staged \o [i \in 1..n |-> AcceptEntry]
       /\ accepts' = AcceptsLeft(n)
  /\ staged' = <<>> /\ unseen' = 0
  /\ pc' = "reap"
  /\ UNCHANGED <<backlog, lost, cqVars, kernelVars, tableVars, clientVars>>

\* A plausible tidying: the queue is synced when the loop over it is over.
ReapDoneWithSync ==
  /\ pc = "reap" /\ inView = 0
  /\ pc' = "wait" /\ held' = FALSE
  /\ UNCHANGED <<accepts, backlog, lost, sqVars, cq, inView, kernelVars, tableVars, clientVars>>

ReapDone ==
  /\ pc = "reap" /\ inView = 0
  /\ pc' = "wait"
  /\ UNCHANGED <<accepts, backlog, lost, sqVars, cqVars, kernelVars, tableVars, clientVars>>

-----------------------------------------------------------------------------
(* The body of the loop over the completions.                              *)

PollEntry(t, fd) == [op |-> "poll", tok |-> t, fd |-> fd, buf |-> None, len |-> 0]

OnAccept(fd) ==
  LET t == CHOOSE i \in TokenId : tokens[i] = Vacant
  IN /\ accepts' = accepts + 1
     /\ tokens' = [tokens EXCEPT ![t] = [Vacant EXCEPT !.kind = "poll", !.fd = fd]]
     /\ PushOrKeep(PollEntry(t, fd))
     /\ UNCHANGED <<pool, bufs, clientVars>>

\* The connection is readable: a buffer from the pool, or a new one.
OnPoll(t) ==
  \E b \in IF pool # {} THEN pool ELSE {bufs + 1} :
    /\ pool' = pool \ {b}
    /\ bufs' = IF b > bufs THEN b ELSE bufs
    /\ tokens' = [tokens EXCEPT ![t].kind = "read", ![t].buf = b]
    /\ PushOrKeep([op |-> "recv", tok |-> t, fd |-> tokens[t].fd, buf |-> b, len |-> MaxLen])
    /\ UNCHANGED <<accepts, clientVars>>

OnShutdownPollingOn(t) ==
  /\ pool' = pool \cup {tokens[t].buf}
  /\ tokens' = [tokens EXCEPT ![t].kind = "poll", ![t].buf = None]
  /\ open' = open \ {tokens[t].fd}
  /\ PushOrKeep(PollEntry(t, tokens[t].fd))
  /\ UNCHANGED <<accepts, bufs, owed>>

\* End of file: the buffer goes back, the token and the connection go.
OnShutdown(t) ==
  /\ pool' = pool \cup {tokens[t].buf}
  /\ tokens' = [tokens EXCEPT ![t] = Vacant]
  /\ open' = open \ {tokens[t].fd}
  /\ UNCHANGED <<accepts, bufs, backlog, sqVars, owed>>

OnRead(t, n) ==
  /\ tokens' = [tokens EXCEPT ![t].kind = "write", ![t].offset = 0, ![t].len = n]
  /\ owed' = [owed EXCEPT ![tokens[t].fd] = n]
  /\ PushOrKeep([op |-> "send", tok |-> t, fd |-> tokens[t].fd, buf |-> tokens[t].buf,
                 len |-> n])
  /\ UNCHANGED <<accepts, pool, bufs, open>>

WroteMore(t, n) == tokens[t].offset + n > tokens[t].len
WroteAll(t, n) == tokens[t].offset + n >= tokens[t].len

PoolAfterAnyWrite(t, n) == pool \cup {tokens[t].buf}
PoolAfterWrite(t, n) == IF WroteAll(t, n) THEN pool \cup {tokens[t].buf} ELSE pool

\* The message is out: wait for the next one.  Else send the rest of it.
OnWrite(t, n) ==
  LET fd   == tokens[t].fd
      next == tokens[t].offset + n
      rest == tokens[t].len - next
  IN /\ owed' = [owed EXCEPT ![fd] = @ - n]
     /\ pool' = PoolAfterWrite(t, n)
     /\ IF WroteAll(t, n)
        THEN /\ tokens' = [tokens EXCEPT ![t] = [Vacant EXCEPT !.kind = "poll", !.fd = fd]]
             /\ PushOrKeep(PollEntry(t, fd))
        ELSE /\ tokens' = [tokens EXCEPT ![t].offset = next, ![t].len = rest]
             /\ PushOrKeep([op |-> "send", tok |-> t, fd |-> fd, buf |-> tokens[t].buf,
                            len |-> rest])
     /\ UNCHANGED <<accepts, bufs, open>>

\* One completion.  A failed request is reported and forgotten: its token,
\* buffer and connection stay as they are.
HandleCqe ==
  /\ pc = "reap" /\ inView > 0
  /\ cq' = Tail(cq) /\ inView' = inView - 1 /\ held' = TRUE
  /\ LET c == Head(cq)
     IN \/ /\ c.res = Failed
           /\ UNCHANGED <<accepts, backlog, sqVars, tableVars, clientVars>>
        \/ c.res # Failed /\ c.tok = Listening /\ OnAccept(c.fd)
        \/ /\ c.res # Failed /\ c.tok # Listening
           /\ \/ tokens[c.tok].kind = "poll" /\ OnPoll(c.tok)
              \/ tokens[c.tok].kind = "read" /\ c.res = 0 /\ OnShutdown(c.tok)
              \/ tokens[c.tok].kind = "read" /\ c.res > 0 /\ OnRead(c.tok, c.res)
              \/ tokens[c.tok].kind = "write" /\ OnWrite(c.tok, c.res)
  /\ UNCHANGED <<pc, lost, kernelVars>>

-----------------------------------------------------------------------------
(* The kernel and the clients (external).                                  *)

Post(t, fd, res) == cq' = Append(cq, [tok |-> t, fd |-> fd, res |-> res])

\* A client connects.
KernelAccept(fd) ==
  /\ accepting > 0 /\ fd \notin open
  /\ accepting' = accepting - 1
  /\ open' = open \cup {fd}
  /\ owed' = [owed EXCEPT ![fd] = 0]
  /\ Post(Listening, fd, 0)
  /\ UNCHANGED <<pc, accepts, backlog, lost, sqVars, inView, held, inFlight, tableVars>>

\* A poll fires, a receive returns up to MaxLen bytes or the end of file, a
\* send takes some of its bytes.
Results(e) ==
  CASE e.op = "poll" -> {0}
    [] e.op = "recv" -> 0..MaxLen
    [] e.op = "send" -> 1..e.len

KernelCompletes(e) ==
  /\ inFlight' = inFlight \ {e}
  /\ \E res \in Results(e) : Post(e.tok, e.fd, res)
  /\ UNCHANGED <<pc, accepts, backlog, lost, sqVars, inView, held, accepting, tableVars,
                 clientVars>>

KernelRefuses ==
  /\ RequestErrors
  /\ \/ /\ accepting > 0 /\ accepting' = accepting - 1
        /\ Post(Listening, None, Failed) /\ UNCHANGED inFlight
     \/ \E e \in inFlight :
          /\ inFlight' = inFlight \ {e}
          /\ Post(e.tok, e.fd, Failed) /\ UNCHANGED accepting
  /\ UNCHANGED <<pc, accepts, backlog, lost, sqVars, inView, held, tableVars, clientVars>>

-----------------------------------------------------------------------------

Main ==
  \/ SubmitAndWait \/ WaitDone \/ BacklogRound \/ PushAccepts \/ ReapDone \/ HandleCqe

Next ==
  \/ Main \/ WaitBusy \/ BacklogBusy \/ Exit
  \/ \E fd \in Fd : KernelAccept(fd)
  \/ \E e \in inFlight : KernelCompletes(e)
  \/ KernelRefuses

Spec == Init /\ [][Next]_vars

\* The server runs, its system calls do not fail every time, and a send that
\* was submitted is taken by the client.  Nothing makes a client connect or talk.
FairSpec ==
  /\ Spec
  /\ WF_vars(Main)
  /\ SF_vars(SubmitAndWait)
  /\ \A t \in TokenId :
       WF_vars(\E e \in inFlight : e.tok = t /\ e.op = "send" /\ KernelCompletes(e))

-----------------------------------------------------------------------------
(* Properties.                                                             *)

Waiting == ToSet(backlog) \cup ToSet(staged) \cup ToSet(published)
Operations(t) == {e \in Waiting \cup inFlight : e.tok = t}
Completions(t) == {i \in DOMAIN cq : cq[i].tok = t}

\* Wherever an entry waits - backlog, queue, kernel, ring of completions - a
\* connection never has two requests under way: its token describes the one
\* there is, and the connection is open.  A connection without one was dropped
\* or has failed, and nothing happens to it any more.
OneRequestPerToken ==
  \A t \in TokenId :
    /\ Cardinality(Operations(t)) + Cardinality(Completions(t)) <=
         IF tokens[t] = Vacant THEN 0 ELSE 1
    /\ \A e \in Operations(t) :
         /\ e.fd = tokens[t].fd /\ e.fd \in open /\ e.buf = tokens[t].buf
         /\ e.op = "send" => e.len = tokens[t].len

\* A buffer is in the pool or belongs to one connection.
BuffersOwnedOnce ==
  \A b \in 1..bufs :
    Cardinality({t \in TokenId : tokens[t].buf = b}) + (IF b \in pool THEN 1 ELSE 0) = 1

\* A connection goes back to waiting for input only after everything it had
\* received was sent.  The code sends a message right that goes out in two parts,
\* and stops too early on one of three: the length kept after the first is that
\* of the rest, the offset is that in the whole.
EchoIsComplete == \A t \in TokenId : tokens[t].kind = "poll" => owed[tokens[t].fd] = 0

\* What was pushed while reaping is not in sight of the kernel when the loop
\* goes on to wait.  The server does not fall asleep on it: the completions
\* that made it push were not given back, so the wait is over at once and the
\* queue is synced.
NeverSleepsOnStaged == pc = "blocked" /\ staged # <<>> => held \/ cq # <<>>

\* The program has ended, the request of the connection has failed or was
\* lost, or it is in the backlog of a server that sleeps: after an EBUSY in the
\* backlog loop the entries wait for some other connection to stir.
GivenUp(t) ==
  \/ pc = "exited"
  \/ Operations(t) = {} /\ Completions(t) = {}
  \/ pc = "blocked" /\ \E i \in DOMAIN backlog : backlog[i].tok = t

\* A connection that sends does not do so for ever: it listens again or is given
\* up, whatever a send takes at a time, though the queue is full and calls are
\* refused.  Whether all of its message is out by then is EchoIsComplete.
WritersListenAgain ==
  \A t \in TokenId :
    (tokens[t].kind = "write") ~> (tokens[t].kind = "poll" \/ GivenUp(t))

\* "clean backlog": the entries go from the backlog to the queue.
BacklogIsHandedOver == lost = {}

=============================================================================
