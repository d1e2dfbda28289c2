---------------------------- MODULE TcpEchoProofs ----------------------------
(***************************************************************************)
(* Proofs about TcpEcho, for every set of descriptors, queue size, number   *)
(* of accepts, message length and way in which calls and requests fail.    *)
(***************************************************************************)
EXTENDS TcpEcho, TLAPS, FiniteSetTheorems, SequenceTheorems

Request == [op : {"poll", "recv", "send"}, tok : TokenId, fd : Fd, buf : Nat, len : Nat]
Item == Request \cup {AcceptEntry}
Token == [kind : {"vacant", "poll", "read", "write"},
          fd : Fd \cup {None}, buf : Nat, offset : Nat, len : Nat]
Completion == [tok : TokenId \cup {Listening}, fd : Fd \cup {None}, res : Nat \cup {Failed}]

TypeOK ==
  /\ {accepts, accepting, unseen, bufs} \subseteq Nat
  /\ tokens \in [TokenId -> Token]
  /\ backlog \in Seq(Request) /\ staged \in Seq(Item) /\ published \in Seq(Item)
  /\ inFlight \subseteq Request
  /\ cq \in Seq(Completion) /\ inView \in 0..Len(cq)
  /\ open \subseteq Fd

-----------------------------------------------------------------------------
(* The inductive invariant.                                                *)

Live(t) == tokens[t].kind # "vacant"

\* A live token is that of an open connection, which no other token has.
TokensOK ==
  \A t \in TokenId :
    /\ ~Live(t) => tokens[t] = Vacant
    /\ Live(t) => tokens[t].fd \in open
    /\ \A u \in TokenId : Live(t) /\ Live(u) /\ tokens[t].fd = tokens[u].fd => t = u

\* A connection the kernel has accepted and the server does not know of yet
\* is in one completion, and in no token.
IsNew(c) == c.tok = Listening /\ c.res # Failed
NewConnections ==
  \A i \in DOMAIN cq : IsNew(cq[i]) =>
    /\ cq[i].fd \in open
    /\ \A t \in TokenId : Live(t) => tokens[t].fd # cq[i].fd
    /\ \A j \in DOMAIN cq : IsNew(cq[j]) /\ cq[i].fd = cq[j].fd => i = j

\* The buffers are those of the pool and those of the tokens that read or write.
BuffersOK ==
  /\ pool \subseteq 1..bufs
  /\ \A t \in TokenId :
       /\ tokens[t].buf \in 0..bufs /\ tokens[t].buf \notin pool
       /\ tokens[t].buf # None <=> tokens[t].kind \in {"read", "write"}
       /\ \A u \in TokenId : tokens[t].buf # None /\ tokens[t].buf = tokens[u].buf => t = u
  /\ \A b \in 1..bufs : b \in pool \/ \E t \in TokenId : tokens[t].buf = b

\* No two requests of a queue, no two completions, are of one token.
Once(s) == \A i, j \in DOMAIN s : s[i].tok = s[j].tok /\ s[i].tok # Listening => i = j
Apart(S, T) == \A e \in S, f \in T : e.tok # f.tok

\* The requests of the backlog, the queue and the kernel are of different tokens.
EntriesApart ==
  LET B == Requests(backlog)   S == Requests(staged)   P == Requests(published)
  IN /\ Once(backlog) /\ Once(staged) /\ Once(published)
     /\ \A e, f \in inFlight : e.tok = f.tok => e = f
     /\ Apart(B, S) /\ Apart(B, P) /\ Apart(S, P)
     /\ Apart(B, inFlight) /\ Apart(S, inFlight) /\ Apart(P, inFlight)

UnderWay == Requests(backlog) \cup Requests(staged) \cup Requests(published) \cup inFlight
Completed == {cq[i].tok : i \in DOMAIN cq} \ {Listening}

\* The token of a request describes it, and the request is not complete.
Described(e) ==
  /\ Live(e.tok) /\ e.fd = tokens[e.tok].fd /\ e.buf = tokens[e.tok].buf
  /\ e.op = "send" => e.len = tokens[e.tok].len
RequestsOK == \A e \in UnderWay : Described(e) /\ e.tok \notin Completed

CompletionsOK == Once(cq) /\ \A t \in Completed : Live(t)

\* What was pushed while reaping was pushed for a completion that is held.
StagedIsHeld == pc \in {"reap", "wait", "blocked"} /\ staged # <<>> => held

IInv ==
  /\ TypeOK /\ TokensOK /\ NewConnections /\ BuffersOK
  /\ EntriesApart /\ RequestsOK /\ CompletionsOK /\ StagedIsHeld

-----------------------------------------------------------------------------
(* The requests of a sequence of entries.                                  *)

\* The members of the sets the invariant is about.
LEMMA RequestFacts ==
  /\ Cardinality(Fd) \in Nat /\ MaxLen \in Nat /\ IsFiniteSet(Fd)
  /\ TokenId \subseteq Nat \ {0}
  /\ \A e \in Request : e.op # "accept" /\ e.tok \in TokenId /\ e.tok # Listening
  /\ AcceptEntry.op = "accept" /\ AcceptEntry.tok = Listening
<1>1. Cardinality(Fd) \in Nat /\ MaxLen \in Nat /\ IsFiniteSet(Fd)
  BY EchoAssumption, FS_CardinalityType
<1> QED
  BY <1>1 DEF TokenId, Request, AcceptEntry, Listening

\* An entry of a sequence is a request or an accept.
LEMMA ItemFacts ==
  ASSUME NEW s \in Seq(Item), NEW i \in DOMAIN s
  PROVE  /\ s[i].op # "accept" => s[i] \in Request
         /\ s[i].op # "accept" <=> s[i].tok # Listening
  BY RequestFacts DEF Item

\* An empty queue has no requests.
LEMMA RequestsEmpty ==
  /\ <<>> \in Seq(Item) /\ Requests(<<>>) = {} /\ Once(<<>>)
  /\ <<>> \in Seq(Request)
  BY DEF Requests, Once

\* What is backed up are entries like those of the queue.
LEMMA RequestSeq ==
  ASSUME NEW s \in Seq(Request)
  PROVE  s \in Seq(Item)
  BY DEF Item

\* An entry is added to those there are.
LEMMA RequestsAppend ==
  ASSUME NEW s \in Seq(Item), NEW e \in Request, Once(s),
         \A f \in Requests(s) : f.tok # e.tok
  PROVE  /\ Append(s, e) \in Seq(Item)
         /\ Requests(Append(s, e)) = Requests(s) \cup {e}
         /\ Once(Append(s, e))
<1> DEFINE r == Append(s, e)
<1>1. /\ r \in Seq(Item) /\ Len(r) = Len(s) + 1 /\ Len(s) \in Nat
      /\ r[Len(s) + 1] = e
      /\ \A i \in 1..Len(s) : r[i] = s[i]
  BY DEF Item
<1>2. DOMAIN s = 1..Len(s) /\ DOMAIN r = 1..(Len(s) + 1)
  BY <1>1
<1> HIDE DEF r
<1>3. e.op # "accept" /\ e.tok # Listening
  BY RequestFacts
<1>4. Requests(r) = Requests(s) \cup {e}
  <2>1. ASSUME NEW x \in Requests(r) PROVE x \in Requests(s) \cup {e}
    BY <1>1, <1>2, <2>1 DEF Requests
  <2>2. e \in Requests(r)
    BY <1>1, <1>2, <1>3 DEF Requests
  <2>3. ASSUME NEW x \in Requests(s) PROVE x \in Requests(r)
    BY <1>1, <1>2, <2>3 DEF Requests
  <2> QED
    BY <2>1, <2>2, <2>3
<1>5. ASSUME NEW i \in DOMAIN s, s[i].tok = e.tok PROVE FALSE
  BY <1>3, <1>5, ItemFacts DEF Requests
<1>6. Once(r)
  BY <1>1, <1>2, <1>3, <1>5 DEF Once
<1> QED
  BY <1>1, <1>4, <1>6 DEF r

\* The first entry leaves, the others stay.
LEMMA RequestsTail ==
  ASSUME NEW s \in Seq(Request), s # <<>>, Once(s)
  PROVE  /\ Tail(s) \in Seq(Request) /\ Head(s) \in Requests(s) /\ Head(s) \in Request
         /\ Requests(Tail(s)) \subseteq Requests(s)
         /\ Once(Tail(s))
         /\ \A e \in Requests(Tail(s)) : e.tok # Head(s).tok
<1> DEFINE r == Tail(s)
<1>1. /\ r \in Seq(Request) /\ Len(r) = Len(s) - 1 /\ Len(s) \in Nat \ {0}
      /\ \A i \in 1..(Len(s) - 1) : r[i] = s[i + 1]
      /\ Head(s) = s[1]
  OBVIOUS
<1>2. DOMAIN s = 1..Len(s) /\ DOMAIN r = 1..(Len(s) - 1)
  BY <1>1
<1>3. \A i \in DOMAIN s : s[i] \in Request
  OBVIOUS
<1> HIDE DEF r
<1>4. Head(s) \in Requests(s) /\ Head(s) \in Request
  BY <1>1, <1>2, <1>3, RequestFacts DEF Requests
<1>5. Requests(r) \subseteq Requests(s)
  <2>1. \A i \in DOMAIN r : i + 1 \in DOMAIN s /\ r[i] = s[i + 1]
    BY <1>1, <1>2
  <2> QED
    BY <2>1 DEF Requests
<1>6. Once(r)
  <2>1. \A i \in DOMAIN r : i + 1 \in DOMAIN s /\ r[i] = s[i + 1] /\ i \in Nat
    BY <1>1, <1>2
  <2> QED
    BY <2>1 DEF Once
<1>7. ASSUME NEW e \in Requests(r) PROVE e.tok # Head(s).tok
  <2>1. PICK i \in DOMAIN r : e = r[i]
    BY DEF Requests
  <2>2. e = s[i + 1] /\ i + 1 \in DOMAIN s /\ i + 1 # 1 /\ 1 \in DOMAIN s
    BY <1>1, <1>2, <2>1
  <2> QED
    BY <1>1, <1>3, <2>2, RequestFacts DEF Once
<1> QED
  BY <1>1, <1>4, <1>5, <1>6, <1>7 DEF r

\* Two queues one after the other.
LEMMA RequestsConcat ==
  ASSUME NEW r \in Seq(Item), NEW s \in Seq(Item), Once(r), Once(s),
         Apart(Requests(r), Requests(s))
  PROVE  /\ r \o s \in Seq(Item)
         /\ Requests(r \o s) = Requests(r) \cup Requests(s)
         /\ Once(r \o s)
<1> DEFINE q == r \o s
<1>1. /\ q \in Seq(Item) /\ Len(q) = Len(r) + Len(s) /\ Len(r) \in Nat /\ Len(s) \in Nat
      /\ \A i \in 1..Len(r) : q[i] = r[i]
      /\ \A i \in 1..(Len(r) + Len(s)) : i > Len(r) => q[i] = s[i - Len(r)]
  OBVIOUS
<1>2. /\ DOMAIN r = 1..Len(r) /\ DOMAIN s = 1..Len(s)
      /\ DOMAIN q = 1..(Len(r) + Len(s))
  BY <1>1
<1> HIDE DEF q
<1>3. \A i \in DOMAIN q : \/ i \in DOMAIN r /\ q[i] = r[i]
                          \/ i > Len(r) /\ i - Len(r) \in DOMAIN s /\ q[i] = s[i - Len(r)]
  BY <1>1, <1>2
<1>4. \A i \in DOMAIN r : i \in DOMAIN q /\ q[i] = r[i]
  BY <1>1, <1>2
<1>5. \A i \in DOMAIN s : i + Len(r) \in DOMAIN q /\ q[i + Len(r)] = s[i]
  BY <1>1, <1>2
<1>6. Requests(q) = Requests(r) \cup Requests(s)
  <2>1. Requests(q) \subseteq Requests(r) \cup Requests(s)
    BY <1>3 DEF Requests
  <2>2. Requests(r) \subseteq Requests(q)
    BY <1>4 DEF Requests
  <2>3. Requests(s) \subseteq Requests(q)
    BY <1>5 DEF Requests
  <2> QED
    BY <2>1, <2>2, <2>3
<1>7. ASSUME NEW i \in DOMAIN r, NEW j \in DOMAIN s, r[i].tok = s[j].tok
      PROVE  r[i].tok = Listening
  BY <1>7, ItemFacts DEF Requests, Apart
<1>8. Once(q)
  <2> SUFFICES ASSUME NEW i \in DOMAIN q, NEW j \in DOMAIN q,
                      q[i].tok = q[j].tok, q[i].tok # Listening
               PROVE  i = j
    BY DEF Once
  <2>1. i \in Nat /\ j \in Nat
    BY <1>2
  <2>2. CASE i \in DOMAIN r /\ q[i] = r[i]
    <3>1. j \in DOMAIN r /\ q[j] = r[j]
      BY <1>3, <1>7, <2>2
    <3> QED
      BY <2>2, <3>1 DEF Once
  <2>3. CASE i > Len(r) /\ i - Len(r) \in DOMAIN s /\ q[i] = s[i - Len(r)]
    <3>1. j > Len(r) /\ j - Len(r) \in DOMAIN s /\ q[j] = s[j - Len(r)]
      BY <1>3, <1>7, <2>3
    <3>2. i - Len(r) = j - Len(r)
      BY <2>3, <3>1 DEF Once
    <3> QED
      BY <1>1, <2>1, <3>2
  <2> QED
    BY <1>3, <2>2, <2>3
<1> QED
  BY <1>1, <1>6, <1>8 DEF q

\* Accepts are not requests of a token.
LEMMA RequestsAccepts ==
  ASSUME NEW n \in Nat
  PROVE  LET s == [i \in 1..n |-> AcceptEntry]
         IN s \in Seq(Item) /\ Requests(s) = {} /\ Once(s)
<1> DEFINE s == [i \in 1..n |-> AcceptEntry]
<1>1. s \in Seq(Item)
  BY DEF Item
<1>2. \A i \in DOMAIN s : s[i] = AcceptEntry
  OBVIOUS
<1> HIDE DEF s
<1>3. Requests(s) = {} /\ Once(s)
  BY <1>2, RequestFacts DEF Requests, Once
<1> QED
  BY <1>1, <1>3 DEF s

\* A queue of one entry.
LEMMA RequestsOne ==
  ASSUME NEW e \in Request
  PROVE  <<e>> \in Seq(Item) /\ Requests(<<e>>) = {e} /\ Once(<<e>>)
<1>1. e.op # "accept"
  BY RequestFacts
<1>2. DOMAIN <<e>> = {1} /\ <<e>>[1] = e
  OBVIOUS
<1> QED
  BY <1>1, <1>2 DEF Requests, Once, Item

\* The requests of a queue, and how many accepts it has.
LEMMA QueueFacts ==
  ASSUME NEW s \in Seq(Item), Once(s)
  PROVE  /\ Requests(s) \subseteq Request
         /\ \A e, f \in Requests(s) : e.tok = f.tok => e = f
         /\ AcceptsIn(s) \in Nat
<1>1. Requests(s) \subseteq Request
  BY ItemFacts DEF Requests
<1>2. ASSUME NEW e \in Requests(s), NEW f \in Requests(s), e.tok = f.tok PROVE e = f
  <2>1. PICK i \in DOMAIN s : s[i] = e /\ s[i].tok # Listening
    BY ItemFacts DEF Requests
  <2>2. PICK j \in DOMAIN s : s[j] = f
    BY DEF Requests
  <2> QED
    BY <1>2, <2>1, <2>2 DEF Once
<1>3. AcceptsIn(s) \in Nat
  <2>1. {i \in DOMAIN s : s[i].op = "accept"} \subseteq 1..Len(s) /\ Len(s) \in Nat
    OBVIOUS
  <2>2. IsFiniteSet(1..Len(s))
    BY <2>1, FS_Interval
  <2>3. IsFiniteSet({i \in DOMAIN s : s[i].op = "accept"})
    BY <2>1, <2>2, FS_Subset
  <2> QED
    BY <2>3, FS_CardinalityType DEF AcceptsIn
<1> QED
  BY <1>1, <1>2, <1>3

\* The requests there are, in the invariant.
LEMMA UnderWayFacts ==
  ASSUME TypeOK, EntriesApart
  PROVE  /\ UnderWay \subseteq Request
         /\ \A e, f \in UnderWay : e.tok = f.tok => e = f
         /\ backlog \in Seq(Item)
         /\ AcceptsIn(published) \in Nat
<1>1. backlog \in Seq(Item)
  BY RequestSeq DEF TypeOK
<1>2. /\ Requests(backlog) \subseteq Request
      /\ \A e, f \in Requests(backlog) : e.tok = f.tok => e = f
  BY <1>1, QueueFacts DEF TypeOK, EntriesApart
<1>3. /\ Requests(staged) \subseteq Request
      /\ \A e, f \in Requests(staged) : e.tok = f.tok => e = f
  BY QueueFacts DEF TypeOK, EntriesApart
<1>4. /\ Requests(published) \subseteq Request
      /\ \A e, f \in Requests(published) : e.tok = f.tok => e = f
      /\ AcceptsIn(published) \in Nat
  BY QueueFacts DEF TypeOK, EntriesApart
<1> QED
  BY <1>1, <1>2, <1>3, <1>4 DEF UnderWay, TypeOK, EntriesApart, Apart

-----------------------------------------------------------------------------
(* Steps that move entries along.                                          *)

\* The backlog, the queue and the kernel hand requests on, and may drop some.
HandsOn == TypeOK' /\ EntriesApart' /\ UnderWay' \subseteq UnderWay

\* The kernel takes what is published, which leaves the queue.
LEMMA SubmitHandsOn ==
  ASSUME IInv, SubmitAndWait PROVE HandsOn
<1> USE DEF IInv
<1>1. AcceptsIn(published) \in Nat /\ Requests(published) \subseteq Request
  BY UnderWayFacts DEF UnderWay
<1>2. TypeOK'
  BY <1>1, RequestsEmpty DEF SubmitAndWait, KernelTakes, TypeOK, cqVars, tableVars, clientVars
<1>3. /\ Requests(published)' = {} /\ Once(published)'
      /\ inFlight' = inFlight \cup Requests(published)
      /\ UNCHANGED <<backlog, staged>>
  BY RequestsEmpty DEF SubmitAndWait, KernelTakes
<1>4. \A e, f \in inFlight' : e.tok = f.tok => e = f
  BY <1>3, UnderWayFacts DEF UnderWay
<1>5. EntriesApart'
  BY <1>3, <1>4 DEF EntriesApart, Apart, Requests
<1>6. UnderWay' \subseteq UnderWay
  BY <1>3 DEF UnderWay, Requests
<1> QED
  BY <1>2, <1>5, <1>6 DEF HandsOn

\* A sync of the completion queue does not touch the entries.
LEMMA CqSyncHandsOn ==
  ASSUME IInv, CqSync PROVE HandsOn
<1>1. TypeOK'
  BY DEF IInv, CqSync, TypeOK, sqVars, kernelVars, tableVars, clientVars
<1>2. UNCHANGED <<backlog, staged, published, inFlight>>
  BY DEF CqSync, sqVars, kernelVars
<1> QED
  BY <1>1, <1>2 DEF IInv, HandsOn, EntriesApart, UnderWay, Requests, Once

\* What is in sight after the sync of a round of the backlog loop, and what
\* the kernel took in it, is what was staged, published or in the kernel.
LEMMA VisibleFacts ==
  ASSUME IInv, NEW full \in BOOLEAN, IF full THEN KernelTakes ELSE UNCHANGED kernelVars
  PROVE  /\ Visible(full) \in Seq(Item) /\ Once(Visible(full))
         /\ accepting' \in Nat /\ inFlight' \subseteq Request
         /\ Requests(Visible(full)) \cup inFlight'
              = Requests(staged) \cup Requests(published) \cup inFlight
         /\ Apart(Requests(Visible(full)), inFlight')
<1> USE DEF IInv, TypeOK
<1>1. UnderWay \subseteq Request /\ AcceptsIn(published) \in Nat
  BY UnderWayFacts
<1>2. CASE full
  BY <1>1, <1>2 DEF Visible, KernelTakes, EntriesApart, UnderWay, Apart
<1>3. CASE ~full
  <2>1. Once(published) /\ Once(staged) /\ Apart(Requests(published), Requests(staged))
    BY DEF EntriesApart, Apart
  <2>2. /\ published \o staged \in Seq(Item)
        /\ Requests(published \o staged) = Requests(published) \cup Requests(staged)
        /\ Once(published \o staged)
    BY <2>1, RequestsConcat
  <2> QED
    BY <1>3, <2>2 DEF Visible, kernelVars, EntriesApart, Apart
<1> QED
  BY <1>2, <1>3

\* A round of the backlog loop: the first entry goes to the queue, if there is
\* room in it after the sync.
LEMMA RoundHandsOn ==
  ASSUME IInv, BacklogRound PROVE HandsOn
<1> DEFINE full == Occupied = SqEntries
           v == Visible(full)
           room == Len(v) < SqEntries
<1>1. /\ v \in Seq(Item) /\ Once(v)
      /\ accepting' \in Nat /\ inFlight' \subseteq Request
      /\ Requests(v) \cup inFlight' = Requests(staged) \cup Requests(published) \cup inFlight
      /\ Apart(Requests(v), inFlight')
  <2>1. IF full THEN KernelTakes ELSE UNCHANGED kernelVars
    BY DEF BacklogRound
  <2>2. full \in BOOLEAN
    OBVIOUS
  <2> HIDE DEF full
  <2> QED
    BY <2>1, <2>2, VisibleFacts
<1>2. /\ published' = v /\ unseen' = 0
      /\ UNCHANGED <<accepts, cqVars, tableVars, clientVars>>
      /\ \/ backlog = <<>> /\ staged' = <<>> /\ backlog' = backlog
         \/ /\ backlog # <<>> /\ backlog' = Tail(backlog)
            /\ staged' = <<Head(backlog)>> \/ staged' = <<>>
  BY DEF BacklogRound, AfterPop
<1> HIDE DEF v, full, room
<1> USE DEF IInv
<1>3. \A e, f \in inFlight' : e.tok = f.tok => e = f
  BY <1>1, UnderWayFacts DEF UnderWay
<1>4. Apart(Requests(backlog), Requests(v)) /\ Apart(Requests(backlog), inFlight')
  BY <1>1 DEF EntriesApart, Apart
<1>5. Requests(published') = Requests(v) /\ Once(published')
  BY <1>1, <1>2
<1>6. CASE backlog = <<>> /\ staged' = <<>> /\ backlog' = backlog
  <2>1. TypeOK'
    BY <1>1, <1>2, <1>6, RequestsEmpty DEF TypeOK, cqVars, tableVars, clientVars
  <2>2. Requests(staged') = {} /\ Once(staged') /\ Requests(backlog') = {} /\ Once(backlog')
    BY <1>6, RequestsEmpty
  <2>3. EntriesApart'
    BY <1>1, <1>3, <1>5, <2>2 DEF EntriesApart, Apart, Requests, Once
  <2>4. UnderWay' \subseteq UnderWay
    BY <1>1, <1>5, <2>2 DEF UnderWay, Requests
  <2> QED
    BY <2>1, <2>3, <2>4 DEF HandsOn
<1>7. CASE /\ backlog # <<>> /\ backlog' = Tail(backlog)
           /\ staged' = <<Head(backlog)>> \/ staged' = <<>>
  <2> DEFINE e == Head(backlog)
  <2>1. /\ Tail(backlog) \in Seq(Request) /\ e \in Requests(backlog) /\ e \in Request
        /\ Requests(Tail(backlog)) \subseteq Requests(backlog)
        /\ Once(Tail(backlog))
        /\ \A f \in Requests(Tail(backlog)) : f.tok # e.tok
    BY <1>7, RequestsTail DEF TypeOK, EntriesApart
  <2> HIDE DEF e
  <2>2. /\ staged' \in Seq(Item) /\ Once(staged')
        /\ Requests(staged') \subseteq {e}
    BY <1>7, <2>1, RequestsOne, RequestsEmpty DEF e
  <2>3. TypeOK'
    BY <1>1, <1>2, <1>7, <2>1, <2>2 DEF TypeOK, cqVars, tableVars, clientVars
  <2>4. /\ Requests(backlog') \subseteq Requests(backlog) /\ Once(backlog')
        /\ Apart(Requests(backlog'), Requests(staged'))
    BY <1>7, <2>1, <2>2 DEF Apart
  <2>5. EntriesApart'
    <3>1. /\ Apart(Requests(backlog'), Requests(published'))
          /\ Apart(Requests(backlog'), inFlight')
      BY <1>4, <1>5, <2>4 DEF Apart
    <3>2. /\ Apart(Requests(staged'), Requests(published'))
          /\ Apart(Requests(staged'), inFlight')
      BY <1>4, <1>5, <2>1, <2>2 DEF Apart
    <3>3. Apart(Requests(published'), inFlight')
      BY <1>1, <1>5
    <3> QED
      BY <1>3, <1>5, <2>2, <2>4, <3>1, <3>2, <3>3 DEF EntriesApart, Requests, Once, Apart
  <2>6. UnderWay' \subseteq UnderWay
    BY <1>1, <1>5, <2>1, <2>2, <2>4 DEF UnderWay, Requests
  <2> QED
    BY <2>3, <2>5, <2>6 DEF HandsOn
<1> QED
  BY <1>2, <1>6, <1>7

\* The accepts go behind what was published and staged.
LEMMA PushAcceptsHandsOn ==
  ASSUME IInv, PushAccepts PROVE HandsOn
<1> USE DEF IInv
<1>1. PICK n \in 0..accepts :
        /\ published' = published \o staged \o [i \in 1..n |-> AcceptEntry]
        /\ accepts' = accepts - n
  BY DEF PushAccepts, AcceptsLeft
<1>2. n \in Nat /\ accepts - n \in Nat
  BY DEF TypeOK
<1> DEFINE news == [i \in 1..n |-> AcceptEntry]
           both == published \o staged
<1>3. news \in Seq(Item) /\ Requests(news) = {} /\ Once(news)
  BY <1>2, RequestsAccepts
<1> HIDE DEF news
<1>4. /\ both \in Seq(Item) /\ Once(both)
      /\ Requests(both) = Requests(published) \cup Requests(staged)
  <2>1. Apart(Requests(published), Requests(staged))
    BY DEF EntriesApart, Apart
  <2> QED
    BY <2>1, RequestsConcat DEF TypeOK, EntriesApart
<1> HIDE DEF both
<1>5. /\ both \o news \in Seq(Item) /\ Once(both \o news)
      /\ Requests(both \o news) = Requests(published) \cup Requests(staged)
  <2>1. Apart(Requests(both), Requests(news))
    BY <1>3 DEF Apart
  <2>2. /\ both \o news \in Seq(Item) /\ Once(both \o news)
        /\ Requests(both \o news) = Requests(both) \cup Requests(news)
    BY ONLY <1>3, <1>4, <2>1, RequestsConcat
  <2> QED
    BY <1>3, <1>4, <2>2
<1>6. published' = both \o news
  BY <1>1 DEF both, news
<1>7. /\ published' \in Seq(Item) /\ Once(published')
      /\ Requests(published') = Requests(published) \cup Requests(staged)
      /\ Requests(staged') = {} /\ Once(staged') /\ staged' \in Seq(Item)
      /\ UNCHANGED <<backlog, inFlight, cqVars, kernelVars, tableVars, clientVars>>
      /\ unseen' = 0
  BY <1>5, <1>6, RequestsEmpty DEF PushAccepts, kernelVars
<1>8. TypeOK'
  BY <1>1, <1>2, <1>7 DEF TypeOK, cqVars, tableVars, clientVars, kernelVars
<1>9. EntriesApart'
  BY <1>7 DEF EntriesApart, Apart, Requests, Once
<1>10. UnderWay' \subseteq UnderWay
  BY <1>7 DEF UnderWay, Requests
<1> QED
  BY <1>8, <1>9, <1>10 DEF HandsOn

\* What hands requests on and leaves the tokens and the completions alone
\* keeps the invariant.
LEMMA HandedOn ==
  ASSUME IInv, HandsOn, StagedIsHeld', UNCHANGED <<cq, tableVars, open>>
  PROVE  IInv'
<1> USE DEF IInv, HandsOn, tableVars
<1>1. TokensOK'
  BY DEF TokensOK, Live
<1>2. NewConnections'
  BY DEF NewConnections, Live, IsNew
<1>3. BuffersOK'
  BY DEF BuffersOK
<1>4. RequestsOK'
  BY DEF RequestsOK, Described, Live, Completed
<1>5. CompletionsOK'
  BY DEF CompletionsOK, Once, Live, Completed
<1> QED
  BY <1>1, <1>2, <1>3, <1>4, <1>5

-----------------------------------------------------------------------------
(* Steps that handle a completion.                                         *)

\* There are as many tokens as descriptors: a connection that has no token
\* finds one that is vacant.
LEMMA VacantTokenExists ==
  ASSUME TypeOK, TokensOK, NEW fd \in open, \A t \in TokenId : Live(t) => tokens[t].fd # fd
  PROVE  \E t \in TokenId : tokens[t] = Vacant
<1> SUFFICES ASSUME \A t \in TokenId : Live(t) PROVE FALSE
  BY DEF TokensOK
<1> DEFINE others == Fd \ {fd}
           f == [t \in TokenId |-> tokens[t].fd]
<1>1. f \in [TokenId -> others]
  BY DEF TokensOK, TypeOK
<1>2. IsFiniteSet(others) /\ Cardinality(others) = Cardinality(Fd) - 1
  BY RequestFacts, FS_RemoveElement DEF TypeOK
<1>3. IsFiniteSet(TokenId) /\ Cardinality(TokenId) = Cardinality(Fd)
  BY RequestFacts, FS_Interval DEF TokenId
<1>4. Cardinality(others) < Cardinality(TokenId)
  BY <1>2, <1>3, RequestFacts
<1>5. \A t, u \in TokenId : f[t] = f[u] => t = u
  BY DEF TokensOK
<1> HIDE DEF f, others
<1> QED
  BY <1>1, <1>2, <1>3, <1>4, <1>5, FS_PigeonHole

\* The completion at the head of the queue is taken.
Consume == cq # <<>> /\ cq' = Tail(cq) /\ inView > 0 /\ inView' = inView - 1

\* What is left of the completions: none of the token that is handled, and
\* none that brings its connection.
LEMMA ConsumeFacts ==
  ASSUME IInv, Consume
  PROVE  /\ Head(cq) \in Completion
         /\ cq' \in Seq(Completion) /\ inView' \in 0..Len(cq')
         /\ Completed' \subseteq Completed /\ Head(cq).tok \notin Completed' /\ Once(cq')
         /\ Head(cq).tok # Listening =>
              Head(cq).tok \in TokenId /\ Head(cq).tok \in Completed /\ Live(Head(cq).tok)
         /\ IsNew(Head(cq)) =>
              /\ Head(cq).fd \in open
              /\ \A t \in TokenId : Live(t) => tokens[t].fd # Head(cq).fd
         /\ \A i \in DOMAIN cq' : IsNew(cq'[i]) =>
              /\ cq'[i].fd \in open
              /\ \A t \in TokenId : Live(t) => tokens[t].fd # cq'[i].fd
              /\ IsNew(Head(cq)) => cq'[i].fd # Head(cq).fd
              /\ \A j \in DOMAIN cq' : IsNew(cq'[j]) /\ cq'[i].fd = cq'[j].fd => i = j
<1> DEFINE r == Tail(cq)
<1>1. cq \in Seq(Completion) /\ cq # <<>>
  BY DEF IInv, TypeOK, Consume
<1>2. /\ r \in Seq(Completion) /\ Len(r) = Len(cq) - 1 /\ Len(cq) \in Nat \ {0}
      /\ \A i \in 1..(Len(cq) - 1) : r[i] = cq[i + 1]
      /\ Head(cq) = cq[1]
  BY <1>1
<1>3. /\ DOMAIN cq = 1..Len(cq) /\ DOMAIN r = 1..(Len(cq) - 1)
      /\ 1 \in DOMAIN cq /\ cq[1] \in Completion
  BY <1>1, <1>2
<1>4. cq' = r /\ inView' \in 0..Len(r)
  BY <1>2 DEF Consume, IInv, TypeOK
<1> HIDE DEF r
<1>5. \A i \in DOMAIN r : i + 1 \in DOMAIN cq /\ r[i] = cq[i + 1] /\ i \in Nat /\ i + 1 # 1
  BY <1>2, <1>3
<1>6. Once(cq) /\ \A t \in Completed : Live(t)
  BY DEF IInv, CompletionsOK
<1>7. Completed' = {r[i].tok : i \in DOMAIN r} \ {Listening}
  BY <1>4 DEF Completed
<1>8. Completed' \subseteq Completed /\ Head(cq).tok \notin Completed'
  <2>1. \A i \in DOMAIN r : r[i].tok = Listening \/ r[i].tok # cq[1].tok
    BY <1>3, <1>5, <1>6 DEF Once
  <2>2. Head(cq).tok \notin Completed'
    BY <1>2, <1>7, <2>1
  <2>3. Completed' \subseteq Completed
    BY <1>5, <1>7 DEF Completed
  <2> QED
    BY <2>2, <2>3
<1>9. Once(r)
  BY <1>5, <1>6 DEF Once
<1>10. Head(cq).tok # Listening =>
         Head(cq).tok \in TokenId /\ Head(cq).tok \in Completed /\ Live(Head(cq).tok)
  BY <1>2, <1>3, <1>6 DEF Completed, Completion
<1>11. NewConnections
  BY DEF IInv
<1>12. IsNew(Head(cq)) =>
         /\ Head(cq).fd \in open
         /\ \A t \in TokenId : Live(t) => tokens[t].fd # Head(cq).fd
  BY <1>2, <1>3, <1>11 DEF NewConnections
<1>13. ASSUME NEW i \in DOMAIN r, IsNew(r[i])
       PROVE  /\ r[i].fd \in open
              /\ \A t \in TokenId : Live(t) => tokens[t].fd # r[i].fd
              /\ IsNew(Head(cq)) => r[i].fd # Head(cq).fd
              /\ \A j \in DOMAIN r : IsNew(r[j]) /\ r[i].fd = r[j].fd => i = j
  <2>1. i + 1 \in DOMAIN cq /\ IsNew(cq[i + 1]) /\ r[i] = cq[i + 1] /\ i + 1 # 1
    BY <1>5, <1>13
  <2>2. /\ r[i].fd \in open
        /\ \A t \in TokenId : Live(t) => tokens[t].fd # r[i].fd
    BY <1>11, <2>1 DEF NewConnections
  <2>3. IsNew(Head(cq)) => r[i].fd # Head(cq).fd
    BY <1>2, <1>3, <1>11, <2>1 DEF NewConnections
  <2>4. ASSUME NEW j \in DOMAIN r, IsNew(r[j]), r[i].fd = r[j].fd PROVE i = j
    <3>1. j + 1 \in DOMAIN cq /\ IsNew(cq[j + 1]) /\ r[j] = cq[j + 1] /\ i + 1 = j + 1
      BY <1>5, <1>11, <2>1, <2>4 DEF NewConnections
    <3> QED
      BY <1>5, <3>1
  <2> QED
    BY <2>2, <2>3, <2>4
<1> QED
  BY <1>2, <1>3, <1>4, <1>8, <1>9, <1>10, <1>12, <1>13

\* A request is pushed or kept in the backlog.
LEMMA PushedOrKept ==
  ASSUME IInv, NEW e \in Request, PushOrKeep(e), UNCHANGED inFlight,
         \A f \in UnderWay : f.tok # e.tok
  PROVE  /\ backlog' \in Seq(Request) /\ staged' \in Seq(Item) /\ published' \in Seq(Item)
         /\ unseen' = unseen
         /\ EntriesApart' /\ UnderWay' = UnderWay \cup {e}
<1> USE DEF IInv, TypeOK
<1>1. CASE staged' = Append(staged, e) /\ UNCHANGED <<published, unseen, backlog>>
  <2>1. Append(staged, e) \in Seq(Item)
        /\ Requests(Append(staged, e)) = Requests(staged) \cup {e} /\ Once(Append(staged, e))
    BY RequestsAppend DEF EntriesApart, UnderWay
  <2>2. Requests(staged') = Requests(staged) \cup {e} /\ Once(staged')
    BY <1>1, <2>1
  <2>3. EntriesApart'
    <3>1. /\ \A f \in Requests(backlog) : f.tok # e.tok
          /\ \A f \in Requests(published) : f.tok # e.tok
          /\ \A f \in inFlight : f.tok # e.tok
      BY DEF UnderWay
    <3>2. Requests(staged)' = Requests(staged) \cup {e} /\ Once(staged)'
      <4>1. Requests(staged)' = Requests(staged') /\ (Once(staged)' <=> Once(staged'))
        BY DEF Requests, Once
      <4> QED
        BY <2>2, <4>1
    <3>3. UNCHANGED <<backlog, published>>
      BY <1>1
    <3>4. /\ Requests(backlog)' = Requests(backlog) /\ (Once(backlog)' <=> Once(backlog))
          /\ Requests(published)' = Requests(published) /\ (Once(published)' <=> Once(published))
      BY <3>3 DEF Requests, Once
    <3> QED
      BY <3>1, <3>2, <3>4 DEF EntriesApart, Apart
  <2>4. UnderWay' = UnderWay \cup {e}
    BY <1>1, <2>2 DEF UnderWay, Requests
  <2> QED
    BY <1>1, <2>1, <2>3, <2>4
<1>2. CASE backlog' = Append(backlog, e) /\ UNCHANGED sqVars
  <2>1. Once(backlog) /\ \A f \in Requests(backlog) : f.tok # e.tok
    BY DEF EntriesApart, UnderWay
  <2>2. Requests(Append(backlog, e)) = Requests(backlog) \cup {e} /\ Once(Append(backlog, e))
    BY <2>1, RequestsAppend, RequestSeq
  <2>3. Requests(backlog') = Requests(backlog) \cup {e} /\ Once(backlog')
    BY <1>2, <2>2
  <2>4. EntriesApart'
    <3>1. /\ \A f \in Requests(staged) : f.tok # e.tok
          /\ \A f \in Requests(published) : f.tok # e.tok
          /\ \A f \in inFlight : f.tok # e.tok
      BY DEF UnderWay
    <3>2. Requests(backlog)' = Requests(backlog) \cup {e} /\ Once(backlog)'
      <4>1. Requests(backlog)' = Requests(backlog') /\ (Once(backlog)' <=> Once(backlog'))
        BY DEF Requests, Once
      <4> QED
        BY <2>3, <4>1
    <3>3. UNCHANGED <<staged, published>>
      BY <1>2 DEF sqVars
    <3>4. /\ Requests(staged)' = Requests(staged) /\ (Once(staged)' <=> Once(staged))
          /\ Requests(published)' = Requests(published) /\ (Once(published)' <=> Once(published))
      BY <3>3 DEF Requests, Once
    <3> QED
      BY <3>1, <3>2, <3>4 DEF EntriesApart, Apart
  <2>5. UnderWay' = UnderWay \cup {e}
    BY <1>2, <2>3 DEF UnderWay, Requests, sqVars
  <2>6. Append(backlog, e) \in Seq(Request)
    OBVIOUS
  <2> QED
    BY <1>2, <2>4, <2>5, <2>6 DEF sqVars
<1> QED
  BY <1>1, <1>2 DEF PushOrKeep

\* The step is about token t: its completion is gone, or it had none.
Handles(t) ==
  /\ Consume /\ held' /\ UNCHANGED <<inFlight, accepting>>
  /\ t \in TokenId /\ t \notin Completed' /\ \A e \in UnderWay : e.tok # t
  /\ tokens' \in [TokenId -> Token]
  /\ \A u \in TokenId : u # t => tokens'[u] = tokens[u]
  /\ {accepts', bufs'} \subseteq Nat /\ open' \subseteq Fd

\* The requests and the completions of the other tokens stay described.
LEMMA OthersStay ==
  ASSUME IInv, NEW t, Handles(t)
  PROVE  /\ \A e \in UnderWay : Described(e)' /\ e.tok \notin Completed'
         /\ CompletionsOK'
<1>1. Completed' \subseteq Completed /\ Once(cq') /\ t \notin Completed'
  BY ConsumeFacts DEF Handles
<1>2. Completed \subseteq TokenId
  <2>1. \A i \in DOMAIN cq : cq[i] \in Completion
    BY DEF IInv, TypeOK
  <2> QED
    BY <2>1 DEF Completed, Completion
<1>3. UnderWay \subseteq Request
  BY UnderWayFacts DEF IInv
<1>4. ASSUME NEW e \in UnderWay PROVE Described(e)' /\ e.tok \notin Completed'
  <2>1. Described(e) /\ e.tok \notin Completed /\ e.tok # t /\ e.tok \in TokenId
    BY <1>3, RequestFacts DEF IInv, RequestsOK, Handles
  <2>2. tokens'[e.tok] = tokens[e.tok]
    BY <2>1 DEF Handles
  <2> QED
    BY <1>1, <2>1, <2>2 DEF Described, Live
<1>5. ASSUME NEW u \in Completed' PROVE Live(u)'
  <2>1. Live(u) /\ u \in TokenId /\ u # t
    BY <1>1, <1>2, <1>5 DEF IInv, CompletionsOK
  <2> QED
    BY <2>1 DEF Handles, Live
<1>6. Once(cq)'
  BY <1>1 DEF Once
<1> QED
  BY <1>4, <1>5, <1>6 DEF CompletionsOK

\* A token that goes on with its connection.
LEMMA SameConnection ==
  ASSUME IInv, NEW t, Handles(t), Live(t), tokens'[t].kind # "vacant",
         tokens'[t].fd = tokens[t].fd, open' = open
  PROVE  TokensOK' /\ NewConnections'
<1>1. \A u \in TokenId : /\ tokens'[u].kind # "vacant" <=> Live(u)
                         /\ tokens'[u].fd = tokens[u].fd
                         /\ ~Live(u) => tokens'[u] = tokens[u]
  BY DEF Handles, Live
<1>2. TokensOK'
  BY <1>1 DEF IInv, TokensOK, Live
<1>3. Consume
  BY DEF Handles
<1>4. NewConnections'
  BY <1>1, <1>3, ConsumeFacts DEF NewConnections, Live, IsNew
<1> QED
  BY <1>2, <1>4

\* A completion is answered with the next request of its token.
LEMMA Answered ==
  ASSUME IInv, NEW t, Handles(t), NEW e \in Request, e.tok = t, PushOrKeep(e),
         Described(e)', TokensOK', NewConnections', BuffersOK'
  PROVE  IInv'
<1>1. /\ backlog' \in Seq(Request) /\ staged' \in Seq(Item) /\ published' \in Seq(Item)
      /\ unseen' = unseen
      /\ EntriesApart' /\ UnderWay' = UnderWay \cup {e}
  BY PushedOrKept DEF Handles
<1>2. cq' \in Seq(Completion) /\ inView' \in 0..Len(cq')
  BY ConsumeFacts DEF Handles
<1>3. TypeOK'
  BY <1>1, <1>2 DEF IInv, TypeOK, Handles
<1>4. /\ \A f \in UnderWay : Described(f)' /\ f.tok \notin Completed'
      /\ CompletionsOK'
  BY OthersStay
<1>5. RequestsOK'
  <2>1. e.tok \notin Completed'
    BY DEF Handles
  <2> QED
    BY <1>1, <1>4, <2>1 DEF RequestsOK
<1>6. StagedIsHeld'
  BY DEF StagedIsHeld, Handles
<1> QED
  BY <1>1, <1>3, <1>4, <1>5, <1>6 DEF IInv

\* The token of the completion at hand is handled.
LEMMA HandlesHead ==
  ASSUME IInv, Consume, Head(cq).tok # Listening
  PROVE  LET t == Head(cq).tok
         IN /\ t \in TokenId /\ Live(t) /\ t \notin Completed'
            /\ \A e \in UnderWay : e.tok # t
            /\ tokens[t].fd \in open /\ tokens[t].fd \in Fd
<1> DEFINE t == Head(cq).tok
<1>1. t \in TokenId /\ Live(t) /\ t \in Completed /\ t \notin Completed'
  BY ConsumeFacts
<1>2. \A e \in UnderWay : e.tok # t
  BY <1>1 DEF IInv, RequestsOK
<1> QED
  BY <1>1, <1>2 DEF IInv, TokensOK, TypeOK

\* What HandleCqe does whatever the completion is.
HandlesOne == Consume /\ held' /\ UNCHANGED <<inFlight, accepting>>

\* An accepted connection gets a vacant token and is polled.
LEMMA AcceptStep ==
  ASSUME IInv, HandlesOne, IsNew(Head(cq)), OnAccept(Head(cq).fd)
  PROVE  IInv'
<1>1. PICK fd : fd = Head(cq).fd
  OBVIOUS
<1>2. /\ fd \in open /\ fd \in Fd
      /\ \A u \in TokenId : Live(u) => tokens[u].fd # fd
  BY <1>1, ConsumeFacts DEF HandlesOne, IInv, TypeOK
<1>3. PICK t \in TokenId : t = CHOOSE i \in TokenId : tokens[i] = Vacant
  BY <1>2, VacantTokenExists DEF IInv
<1>4. tokens[t] = Vacant
  BY <1>2, <1>3, VacantTokenExists DEF IInv
<1>5. PICK e : e = PollEntry(t, fd)
  OBVIOUS
<1>6. PICK new : new = [Vacant EXCEPT !.kind = "poll", !.fd = fd]
  OBVIOUS
<1>7. /\ tokens' = [tokens EXCEPT ![t] = new]
      /\ accepts' = accepts + 1 /\ PushOrKeep(e)
      /\ UNCHANGED <<pool, bufs, open>>
  BY <1>1, <1>3, <1>5, <1>6 DEF OnAccept, clientVars
<1>8. tokens[t].kind = "vacant" /\ tokens[t].buf = None
  BY <1>4 DEF Vacant
<1>9. t \notin Completed' /\ \A f \in UnderWay : f.tok # t
  <2>1. Completed' \subseteq Completed
    BY ConsumeFacts DEF HandlesOne
  <2> QED
    BY <1>8, <2>1 DEF IInv, RequestsOK, CompletionsOK, Described, Live
<1>10. new.kind = "poll" /\ new.fd = fd /\ new.buf = None /\ new \in Token
  BY <1>2, <1>6 DEF Vacant, None, Token
<1>11. e \in Request /\ e.tok = t /\ e.fd = fd /\ e.buf = None /\ e.op = "poll"
  BY <1>2, <1>5 DEF PollEntry, Request, None
<1>12. /\ tokens' \in [TokenId -> Token] /\ tokens'[t] = new
       /\ \A u \in TokenId : u # t => tokens'[u] = tokens[u]
  BY <1>7, <1>10 DEF IInv, TypeOK
<1>13. Handles(t)
  <2>1. accepts \in Nat /\ bufs \in Nat /\ open \subseteq Fd
    BY DEF IInv, TypeOK
  <2> QED
    BY <1>7, <1>9, <1>12, <2>1 DEF Handles, HandlesOne
<1>14. Described(e)'
  BY <1>10, <1>11, <1>12 DEF Described, Live
<1>15. TokensOK'
  BY <1>2, <1>7, <1>10, <1>12 DEF IInv, TokensOK, Live
<1>16. NewConnections'
  <2>1. \A u \in TokenId : tokens'[u].kind # "vacant" =>
          \/ tokens'[u].fd = fd
          \/ Live(u) /\ tokens'[u].fd = tokens[u].fd
    BY <1>10, <1>12 DEF Live
  <2>2. \A i \in DOMAIN cq' : IsNew(cq'[i]) =>
          /\ cq'[i].fd \in open
          /\ \A u \in TokenId : Live(u) => tokens[u].fd # cq'[i].fd
          /\ cq'[i].fd # fd
          /\ \A j \in DOMAIN cq' : IsNew(cq'[j]) /\ cq'[i].fd = cq'[j].fd => i = j
    BY <1>1, ConsumeFacts DEF HandlesOne
  <2> QED
    BY <1>7, <2>1, <2>2 DEF NewConnections, Live, IsNew
<1>17. BuffersOK'
  <2>1. \A u \in TokenId : /\ tokens'[u].buf = tokens[u].buf
                           /\ tokens'[u].kind \in {"read", "write"}
                                <=> tokens[u].kind \in {"read", "write"}
    BY <1>8, <1>10, <1>12
  <2> QED
    BY <1>7, <2>1 DEF IInv, BuffersOK
<1> QED
  BY <1>7, <1>11, <1>13, <1>14, <1>15, <1>16, <1>17, Answered

\* The token at the head of the completions takes the record new.
Becomes(t, new) == tokens' = [tokens EXCEPT ![t] = new]

\* It goes on with its connection.
LEMMA GoesOn ==
  ASSUME IInv, HandlesOne, NEW t, t = Head(cq).tok, t # Listening,
         NEW new \in Token, Becomes(t, new),
         new.kind # "vacant", new.fd = tokens[t].fd,
         {accepts', bufs'} \subseteq Nat, open' = open
  PROVE  /\ t \in TokenId /\ Live(t) /\ tokens[t].fd \in Fd
         /\ tokens'[t] = new /\ \A u \in TokenId : u # t => tokens'[u] = tokens[u]
         /\ Handles(t) /\ TokensOK' /\ NewConnections'
<1>1. /\ t \in TokenId /\ Live(t) /\ t \notin Completed'
      /\ \A e \in UnderWay : e.tok # t
      /\ tokens[t].fd \in Fd
  BY HandlesHead DEF HandlesOne
<1>2. /\ tokens' \in [TokenId -> Token] /\ tokens'[t] = new
      /\ \A u \in TokenId : u # t => tokens'[u] = tokens[u]
  BY <1>1 DEF IInv, TypeOK, Becomes
<1>3. open' \subseteq Fd
  BY DEF IInv, TypeOK
<1>4. Handles(t)
  BY <1>1, <1>2, <1>3 DEF Handles, HandlesOne
<1>5. TokensOK' /\ NewConnections'
  BY <1>1, <1>2, <1>4, SameConnection
<1> QED
  BY <1>1, <1>2, <1>4, <1>5

\* A connection that is readable takes a buffer and receives.
LEMMA PollStep ==
  ASSUME IInv, HandlesOne, NEW t, t = Head(cq).tok, t # Listening,
         tokens[t].kind = "poll", OnPoll(t)
  PROVE  IInv'
<1>1. t \in TokenId /\ tokens[t] \in Token /\ MaxLen \in Nat
  BY HandlesHead, RequestFacts DEF HandlesOne, IInv, TypeOK
<1>2. PICK b \in IF pool # {} THEN pool ELSE {bufs + 1} :
        /\ pool' = pool \ {b}
        /\ bufs' = IF b > bufs THEN b ELSE bufs
        /\ tokens' = [tokens EXCEPT ![t].kind = "read", ![t].buf = b]
        /\ PushOrKeep([op |-> "recv", tok |-> t, fd |-> tokens[t].fd, buf |-> b, len |-> MaxLen])
        /\ UNCHANGED <<accepts, clientVars>>
  BY DEF OnPoll
<1>3. bufs \in Nat /\ accepts \in Nat /\ pool \subseteq 1..bufs
  BY DEF IInv, TypeOK, BuffersOK
<1>4. b \in Nat \ {0} /\ bufs' \in Nat /\ b <= bufs' /\ 1..bufs \subseteq 1..bufs'
  BY <1>2, <1>3
<1>5. PICK new : new = [tokens[t] EXCEPT !.kind = "read", !.buf = b]
  OBVIOUS
<1>6. /\ new \in Token /\ new.kind = "read" /\ new.buf = b /\ new.fd = tokens[t].fd
      /\ Becomes(t, new)
  BY <1>1, <1>2, <1>4, <1>5 DEF Token, Becomes
<1>7. PICK e : e = [op |-> "recv", tok |-> t, fd |-> tokens[t].fd, buf |-> b, len |-> MaxLen]
  OBVIOUS
<1>8. /\ t \in TokenId /\ Live(t) /\ tokens[t].fd \in Fd
      /\ tokens'[t] = new /\ \A u \in TokenId : u # t => tokens'[u] = tokens[u]
      /\ Handles(t) /\ TokensOK' /\ NewConnections'
  <2>1. {accepts', bufs'} \subseteq Nat /\ open' = open
    BY <1>2, <1>3, <1>4 DEF clientVars
  <2> QED
    BY <1>6, <2>1, GoesOn
<1>9. /\ e \in Request /\ e.tok = t /\ e.fd = tokens[t].fd /\ e.buf = b /\ e.op = "recv"
      /\ PushOrKeep(e)
  BY <1>1, <1>2, <1>4, <1>7, <1>8 DEF Request
<1>10. Described(e)'
  BY <1>6, <1>8, <1>9 DEF Described, Live
<1>11. BuffersOK'
  <2>1. tokens[t].buf = None
    BY <1>1 DEF IInv, BuffersOK
  <2>2. \A u \in TokenId : tokens[u].buf # b
    BY <1>1, <1>2, <1>3, <1>4 DEF IInv, BuffersOK
  <2>3. pool' \subseteq 1..bufs' /\ b \notin pool'
    BY <1>2, <1>3, <1>4
  <2>4. ASSUME NEW u \in TokenId
        PROVE  /\ tokens'[u].buf \in 0..bufs' /\ tokens'[u].buf \notin pool'
               /\ tokens'[u].buf # None <=> tokens'[u].kind \in {"read", "write"}
    <3>1. tokens[u].buf \in 0..bufs /\ tokens[u].buf \notin pool
          /\ (tokens[u].buf # None <=> tokens[u].kind \in {"read", "write"})
      BY DEF IInv, BuffersOK
    <3>2. CASE u = t
      BY <1>4, <1>6, <1>8, <2>3, <3>2 DEF None
    <3>3. CASE u # t
      <4>1. tokens'[u] = tokens[u]
        BY <1>8, <3>3
      <4>2. 0..bufs \subseteq 0..bufs' /\ pool' \subseteq pool
        BY <1>2, <1>3, <1>4
      <4> QED
        BY <3>1, <4>1, <4>2
    <3> QED
      BY <3>2, <3>3
  <2>5. ASSUME NEW u \in TokenId, NEW v \in TokenId,
               tokens'[u].buf # None, tokens'[u].buf = tokens'[v].buf
        PROVE  u = v
    BY <1>6, <1>8, <2>2, <2>5 DEF IInv, BuffersOK
  <2>6. ASSUME NEW x \in 1..bufs'
        PROVE  x \in pool' \/ \E u \in TokenId : tokens'[u].buf = x
    <3>1. CASE x = b
      BY <1>6, <1>8, <3>1
    <3>2. CASE x # b
      <4>1. x \in 1..bufs
        BY <1>2, <1>3, <1>4, <2>6, <3>2
      <4>2. x \in pool \/ \E u \in TokenId : tokens[u].buf = x
        BY <4>1 DEF IInv, BuffersOK
      <4>3. CASE x \in pool
        BY <1>2, <3>2, <4>3
      <4>4. ASSUME NEW u \in TokenId, tokens[u].buf = x PROVE \E w \in TokenId : tokens'[w].buf = x
        <5>1. u # t
          BY <2>1, <4>1, <4>4 DEF None
        <5> QED
          BY <1>8, <4>4, <5>1
      <4> QED
        BY <4>2, <4>3, <4>4
    <3> QED
      BY <3>1, <3>2
  <2> QED
    BY <2>3, <2>4, <2>5, <2>6 DEF BuffersOK
<1> QED
  BY <1>8, <1>9, <1>10, <1>11, Answered

\* What was received is sent back from the same buffer.
LEMMA ReadStep ==
  ASSUME IInv, HandlesOne, NEW t, t = Head(cq).tok, t # Listening, NEW n \in Nat,
         tokens[t].kind = "read", OnRead(t, n)
  PROVE  IInv'
<1>1. t \in TokenId /\ tokens[t] \in Token
  BY HandlesHead DEF HandlesOne, IInv, TypeOK
<1>2. PICK new : new = [tokens[t] EXCEPT !.kind = "write", !.offset = 0, !.len = n]
  OBVIOUS
<1>3. /\ new \in Token /\ new.kind = "write" /\ new.len = n
      /\ new.buf = tokens[t].buf /\ new.fd = tokens[t].fd
  BY <1>1, <1>2 DEF Token
<1>4. PICK e : e = [op |-> "send", tok |-> t, fd |-> tokens[t].fd, buf |-> tokens[t].buf,
                    len |-> n]
  OBVIOUS
<1>5. /\ Becomes(t, new)
      /\ PushOrKeep(e) /\ UNCHANGED <<accepts, pool, bufs, open>>
  BY <1>2, <1>4 DEF OnRead, Becomes
<1>6. {accepts', bufs'} \subseteq Nat
  BY <1>5 DEF IInv, TypeOK
<1>7. /\ t \in TokenId /\ Live(t) /\ tokens[t].fd \in Fd
      /\ tokens'[t] = new /\ \A u \in TokenId : u # t => tokens'[u] = tokens[u]
      /\ Handles(t) /\ TokensOK' /\ NewConnections'
  BY <1>3, <1>5, <1>6, GoesOn
<1>8. /\ e \in Request /\ e.tok = t /\ e.fd = new.fd /\ e.buf = new.buf /\ e.len = new.len
  BY <1>1, <1>3, <1>4, <1>7 DEF Request, Token
<1>9. Described(e)'
  BY <1>3, <1>7, <1>8 DEF Described, Live
<1>10. BuffersOK'
  <2>1. \A u \in TokenId : /\ tokens'[u].buf = tokens[u].buf
                           /\ tokens'[u].kind \in {"read", "write"}
                                <=> tokens[u].kind \in {"read", "write"}
    BY <1>3, <1>7
  <2> QED
    BY <1>5, <2>1 DEF IInv, BuffersOK
<1> QED
  BY <1>5, <1>7, <1>8, <1>9, <1>10, Answered

\* A token gives its buffer back.
LEMMA GivesBack ==
  ASSUME BuffersOK, NEW t \in TokenId, tokens[t].buf # None,
         tokens'[t].buf = None, tokens'[t].kind \notin {"read", "write"},
         \A u \in TokenId : u # t => tokens'[u] = tokens[u],
         bufs \in Nat, bufs' = bufs, pool' = pool \cup {tokens[t].buf}
  PROVE  BuffersOK'
<1> DEFINE b == tokens[t].buf
<1>1. b \in 1..bufs
  BY DEF BuffersOK, None
<1> HIDE DEF b
<1>2. pool' \subseteq 1..bufs'
  BY <1>1 DEF BuffersOK, b
<1>3. ASSUME NEW u \in TokenId
      PROVE  /\ tokens'[u].buf \in 0..bufs' /\ tokens'[u].buf \notin pool'
             /\ tokens'[u].buf # None <=> tokens'[u].kind \in {"read", "write"}
  <2>1. CASE u = t
    BY <1>2, <2>1 DEF None
  <2>2. CASE u # t
    BY <2>2 DEF BuffersOK
  <2> QED
    BY <2>1, <2>2
<1>4. ASSUME NEW u \in TokenId, NEW v \in TokenId,
             tokens'[u].buf # None, tokens'[u].buf = tokens'[v].buf
      PROVE  u = v
  BY <1>4 DEF BuffersOK
<1>5. ASSUME NEW x \in 1..bufs'
      PROVE  x \in pool' \/ \E u \in TokenId : tokens'[u].buf = x
  BY <1>5 DEF BuffersOK
<1> QED
  BY <1>2, <1>3, <1>4, <1>5 DEF BuffersOK

\* The end of a message gives the buffer back, and the connection is polled;
\* a part of it is followed by the rest.
LEMMA WriteStep ==
  ASSUME IInv, HandlesOne, NEW t, t = Head(cq).tok, t # Listening, NEW n \in Nat,
         tokens[t].kind = "write", OnWrite(t, n)
  PROVE  IInv'
<1> DEFINE next == tokens[t].offset + n
           rest == tokens[t].len - next
<1>1. /\ t \in TokenId /\ tokens[t] \in Token /\ tokens[t].fd \in Fd
      /\ accepts \in Nat /\ bufs \in Nat
  BY HandlesHead DEF HandlesOne, IInv, TypeOK
<1>2. UNCHANGED <<accepts, bufs, open>> /\ {accepts', bufs'} \subseteq Nat
  BY <1>1 DEF OnWrite
<1>3. CASE WroteAll(t, n)
  <2>1. PICK new : new = [Vacant EXCEPT !.kind = "poll", !.fd = tokens[t].fd]
    OBVIOUS
  <2>2. PICK e : e = PollEntry(t, tokens[t].fd)
    OBVIOUS
  <2>3. /\ Becomes(t, new) /\ PushOrKeep(e)
        /\ pool' = pool \cup {tokens[t].buf}
    BY <1>3, <2>1, <2>2 DEF OnWrite, PoolAfterWrite, Becomes
  <2>4. new.kind = "poll" /\ new.fd = tokens[t].fd /\ new.buf = None /\ new \in Token
    BY <1>1, <2>1 DEF Vacant, None, Token
  <2>5. e \in Request /\ e.tok = t /\ e.fd = new.fd /\ e.buf = None /\ e.op = "poll"
    BY <1>1, <2>2, <2>4 DEF PollEntry, Request, None
  <2>6. /\ tokens'[t] = new /\ \A u \in TokenId : u # t => tokens'[u] = tokens[u]
        /\ Handles(t) /\ TokensOK' /\ NewConnections'
    BY <1>2, <2>3, <2>4, GoesOn
  <2>7. Described(e)'
    BY <2>4, <2>5, <2>6 DEF Described, Live
  <2>8. BuffersOK'
    <3>1. tokens[t].buf # None
      BY <1>1 DEF IInv, BuffersOK
    <3> QED
      BY <1>1, <1>2, <2>3, <2>4, <2>6, <3>1, GivesBack DEF IInv
  <2> QED
    BY <2>3, <2>5, <2>6, <2>7, <2>8, Answered
<1>4. CASE ~WroteAll(t, n)
  <2>1. next \in Nat /\ rest \in Nat
    BY <1>1, <1>4 DEF WroteAll, Token
  <2>2. PICK new : new = [tokens[t] EXCEPT !.offset = next, !.len = rest]
    OBVIOUS
  <2>3. PICK e : e = [op |-> "send", tok |-> t, fd |-> tokens[t].fd, buf |-> tokens[t].buf,
                      len |-> rest]
    OBVIOUS
  <2>4. Becomes(t, new) /\ PushOrKeep(e) /\ pool' = pool
    <3>1. pool' = pool
      BY <1>4 DEF OnWrite, PoolAfterWrite
    <3>2. /\ tokens' = [tokens EXCEPT ![t].offset = next, ![t].len = rest]
          /\ PushOrKeep([op |-> "send", tok |-> t, fd |-> tokens[t].fd, buf |-> tokens[t].buf,
                          len |-> rest])
      BY <1>4, ZenonT(30) DEF OnWrite
    <3> QED
      BY <2>2, <2>3, <3>1, <3>2 DEF Becomes
  <2>5. /\ new \in Token /\ new.kind = "write" /\ new.len = rest
        /\ new.buf = tokens[t].buf /\ new.fd = tokens[t].fd
    BY <1>1, <2>1, <2>2 DEF Token
  <2>6. e \in Request /\ e.tok = t /\ e.fd = new.fd /\ e.buf = new.buf /\ e.len = new.len
    BY <1>1, <2>1, <2>3, <2>5 DEF Request, Token
  <2>7. /\ tokens'[t] = new /\ \A u \in TokenId : u # t => tokens'[u] = tokens[u]
        /\ Handles(t) /\ TokensOK' /\ NewConnections'
    BY <1>2, <2>4, <2>5, GoesOn
  <2>8. Described(e)'
    BY <2>5, <2>6, <2>7 DEF Described, Live
  <2>9. BuffersOK'
    <3>1. \A u \in TokenId : /\ tokens'[u].buf = tokens[u].buf
                             /\ tokens'[u].kind \in {"read", "write"}
                                  <=> tokens[u].kind \in {"read", "write"}
      BY <2>5, <2>7
    <3> QED
      BY <1>2, <2>4, <3>1 DEF IInv, BuffersOK
  <2> QED
    BY <2>4, <2>6, <2>7, <2>8, <2>9, Answered
<1> QED
  BY <1>3, <1>4

\* At the end of file buffer, token and connection are given up.
LEMMA ShutdownStep ==
  ASSUME IInv, HandlesOne, NEW t, t = Head(cq).tok, t # Listening,
         tokens[t].kind = "read", OnShutdown(t)
  PROVE  IInv'
<1>1. /\ t \in TokenId /\ Live(t) /\ t \notin Completed'
      /\ \A e \in UnderWay : e.tok # t
      /\ tokens[t].fd \in open /\ bufs \in Nat /\ accepts \in Nat /\ open \subseteq Fd
  BY HandlesHead DEF HandlesOne, IInv, TypeOK
<1>2. /\ pool' = pool \cup {tokens[t].buf}
      /\ tokens' = [tokens EXCEPT ![t] = Vacant]
      /\ open' = open \ {tokens[t].fd}
      /\ accepts' = accepts /\ bufs' = bufs
      /\ UNCHANGED <<backlog, staged, published, unseen>>
  BY DEF OnShutdown, sqVars
<1>3. Vacant \in Token /\ Vacant.kind = "vacant" /\ Vacant.buf = None
  BY DEF Vacant, Token, None
<1>4. /\ tokens' \in [TokenId -> Token] /\ tokens'[t] = Vacant
      /\ \A u \in TokenId : u # t => tokens'[u] = tokens[u]
  BY <1>1, <1>2, <1>3 DEF IInv, TypeOK
<1>5. Handles(t)
  BY <1>1, <1>2, <1>4 DEF Handles, HandlesOne
<1>6. TokensOK'
  <2>1. \A u \in TokenId : u # t => (Live(u) => tokens[u].fd \in open')
    BY <1>1, <1>2 DEF IInv, TokensOK
  <2> QED
    BY <1>1, <1>3, <1>4, <2>1 DEF IInv, TokensOK, Live
<1>7. NewConnections'
  <2>1. \A u \in TokenId : tokens'[u].kind # "vacant" =>
          Live(u) /\ tokens'[u].fd = tokens[u].fd
    BY <1>3, <1>4 DEF Live
  <2>2. \A i \in DOMAIN cq' : IsNew(cq'[i]) =>
          /\ cq'[i].fd \in open /\ cq'[i].fd # tokens[t].fd
          /\ \A u \in TokenId : Live(u) => tokens[u].fd # cq'[i].fd
          /\ \A j \in DOMAIN cq' : IsNew(cq'[j]) /\ cq'[i].fd = cq'[j].fd => i = j
    BY <1>1, ConsumeFacts DEF HandlesOne
  <2> QED
    BY <1>2, <2>1, <2>2 DEF NewConnections, Live, IsNew
<1>8. BuffersOK'
  <2>1. tokens[t].buf # None
    BY <1>1 DEF IInv, BuffersOK
  <2> QED
    BY <1>1, <1>2, <1>3, <1>4, <2>1, GivesBack DEF IInv
<1>9. EntriesApart' /\ UnderWay' = UnderWay
  <2>1. UNCHANGED <<backlog, staged, published, inFlight>>
    BY <1>2 DEF HandlesOne
  <2> QED
    BY <2>1 DEF IInv, EntriesApart, UnderWay, Requests, Once
<1>10. RequestsOK' /\ CompletionsOK'
  BY <1>5, <1>9, OthersStay DEF RequestsOK
<1>11. TypeOK'
  <2>1. cq' \in Seq(Completion) /\ inView' \in 0..Len(cq')
    BY ConsumeFacts DEF HandlesOne
  <2>2. accepting' = accepting /\ inFlight' = inFlight
    BY DEF HandlesOne
  <2> QED
    BY <1>1, <1>2, <1>4, <2>1, <2>2 DEF IInv, TypeOK
<1>12. StagedIsHeld'
  BY DEF StagedIsHeld, HandlesOne
<1> QED
  BY <1>6, <1>7, <1>8, <1>9, <1>10, <1>11, <1>12 DEF IInv

\* A failure is reported, and that is all.
LEMMA FailureStep ==
  ASSUME IInv, HandlesOne, UNCHANGED <<accepts, backlog, sqVars, tableVars, clientVars>>
  PROVE  IInv'
<1>1. /\ UNCHANGED <<backlog, staged, published, unseen, inFlight, accepting, accepts>>
      /\ UNCHANGED <<tokens, pool, bufs, open>>
      /\ held' /\ Consume
  BY DEF HandlesOne, sqVars, tableVars, clientVars
<1>2. /\ cq' \in Seq(Completion) /\ inView' \in 0..Len(cq')
      /\ Completed' \subseteq Completed /\ Once(cq')
  BY <1>1, ConsumeFacts
<1>3. TypeOK'
  BY <1>1, <1>2 DEF IInv, TypeOK
<1>4. TokensOK' /\ BuffersOK'
  BY <1>1 DEF IInv, TokensOK, BuffersOK, Live
<1>5. NewConnections'
  BY <1>1, ConsumeFacts DEF NewConnections, Live, IsNew
<1>6. EntriesApart' /\ UnderWay' = UnderWay
  BY <1>1 DEF IInv, EntriesApart, UnderWay, Requests, Once
<1>7. RequestsOK'
  BY <1>1, <1>2, <1>6 DEF IInv, RequestsOK, Described, Live
<1>8. CompletionsOK'
  BY <1>1, <1>2 DEF IInv, CompletionsOK, Live, Once
<1>9. StagedIsHeld'
  BY <1>1 DEF StagedIsHeld
<1> QED
  BY <1>3, <1>4, <1>5, <1>6, <1>7, <1>8, <1>9 DEF IInv

\* Whatever the completion is, the invariant is kept.
LEMMA HandleStep ==
  ASSUME IInv, HandleCqe
  PROVE  IInv'
<1>1. PICK c : c = Head(cq)
  OBVIOUS
<1>2. /\ pc = "reap" /\ inView > 0 /\ cq' = Tail(cq) /\ inView' = inView - 1 /\ held'
      /\ UNCHANGED kernelVars
      /\ \/ UNCHANGED <<accepts, backlog, sqVars, tableVars, clientVars>>
         \/ c.res # Failed /\ c.tok = Listening /\ OnAccept(c.fd)
         \/ /\ c.res # Failed /\ c.tok # Listening
            /\ \/ tokens[c.tok].kind = "poll" /\ OnPoll(c.tok)
               \/ tokens[c.tok].kind = "read" /\ c.res = 0 /\ OnShutdown(c.tok)
               \/ tokens[c.tok].kind = "read" /\ c.res > 0 /\ OnRead(c.tok, c.res)
               \/ tokens[c.tok].kind = "write" /\ OnWrite(c.tok, c.res)
  BY <1>1 DEF HandleCqe
<1>3. cq # <<>>
  BY <1>2 DEF IInv, TypeOK
<1>4. HandlesOne
  BY <1>2, <1>3 DEF HandlesOne, Consume, kernelVars
<1>5. c \in Completion
  BY <1>1, <1>4, ConsumeFacts DEF HandlesOne
<1>6. PICK t : t = c.tok
  OBVIOUS
<1>7. PICK n : n = c.res
  OBVIOUS
<1>8. c.res # Failed => n \in Nat
  BY <1>5, <1>7 DEF Completion
<1>9. CASE UNCHANGED <<accepts, backlog, sqVars, tableVars, clientVars>>
  BY <1>4, <1>9, FailureStep
<1>10. CASE c.res # Failed /\ c.tok = Listening /\ OnAccept(c.fd)
  BY <1>1, <1>4, <1>10, AcceptStep DEF IsNew
<1>11. CASE c.res # Failed /\ t # Listening /\ tokens[t].kind = "poll" /\ OnPoll(t)
  BY <1>1, <1>4, <1>6, <1>11, PollStep
<1>12. CASE c.res # Failed /\ t # Listening /\ tokens[t].kind = "read" /\ OnShutdown(t)
  BY <1>1, <1>4, <1>6, <1>12, ShutdownStep
<1>13. CASE c.res # Failed /\ t # Listening /\ tokens[t].kind = "read" /\ OnRead(t, n)
  BY <1>1, <1>4, <1>6, <1>8, <1>13, ReadStep
<1>14. CASE c.res # Failed /\ t # Listening /\ tokens[t].kind = "write" /\ OnWrite(t, n)
  BY <1>1, <1>4, <1>6, <1>8, <1>14, WriteStep
<1> QED
  BY <1>2, <1>6, <1>7, <1>9, <1>10, <1>11, <1>12, <1>13, <1>14

-----------------------------------------------------------------------------
(* Steps of the kernel and the clients.                                    *)

\* A completion is posted behind those there are.
LEMMA PostFacts ==
  ASSUME IInv, NEW t, NEW fd, NEW res, [tok |-> t, fd |-> fd, res |-> res] \in Completion,
         Post(t, fd, res), inView' = inView
  PROVE  LET c == [tok |-> t, fd |-> fd, res |-> res]   n == Len(cq) + 1
         IN /\ cq' \in Seq(Completion) /\ inView' \in 0..Len(cq')
            /\ DOMAIN cq' = DOMAIN cq \cup {n} /\ n \notin DOMAIN cq
            /\ cq'[n] = c /\ \A i \in DOMAIN cq : cq'[i] = cq[i]
            /\ Completed' = Completed \cup ({t} \ {Listening})
            /\ t \notin Completed => Once(cq')
<1> DEFINE c == [tok |-> t, fd |-> fd, res |-> res]
           n == Len(cq) + 1
           r == Append(cq, c)
<1>1. cq \in Seq(Completion) /\ c \in Completion /\ c.tok = t /\ Len(cq) \in Nat
  BY DEF IInv, TypeOK
<1> HIDE DEF c
<1>2. /\ r \in Seq(Completion) /\ Len(r) = n /\ r[n] = c
      /\ \A i \in 1..Len(cq) : r[i] = cq[i]
      /\ DOMAIN cq = 1..Len(cq)
  BY <1>1
<1>3. DOMAIN r = 1..n
  BY <1>1, <1>2
<1>4. cq' = r
  BY DEF Post, c
<1> HIDE DEF r
<1>5. /\ DOMAIN cq' = DOMAIN cq \cup {n} /\ n \notin DOMAIN cq
      /\ cq'[n] = c /\ \A i \in DOMAIN cq : cq'[i] = cq[i]
  BY <1>1, <1>2, <1>3, <1>4
<1> HIDE DEF n
<1>6. Completed' = Completed \cup ({t} \ {Listening})
  BY <1>1, <1>5 DEF Completed
<1>7. ASSUME t \notin Completed PROVE Once(cq')
  <2>1. \A i \in DOMAIN cq : cq[i].tok = Listening \/ cq[i].tok # t
    BY <1>7 DEF Completed
  <2> QED
    BY <1>1, <1>5, <2>1 DEF IInv, CompletionsOK, Once
<1>8. inView' \in 0..Len(cq')
  BY <1>1, <1>2, <1>4 DEF IInv, TypeOK, n
<1> QED
  BY <1>2, <1>4, <1>5, <1>6, <1>7, <1>8 DEF c, n

\* A client connects: the connection is new, in one completion.
LEMMA KernelAcceptStep ==
  ASSUME IInv, NEW fd \in Fd, KernelAccept(fd)
  PROVE  IInv'
<1> DEFINE n == Len(cq) + 1
           c == [tok |-> Listening, fd |-> fd, res |-> 0]
<1>1. c \in Completion /\ c.tok = Listening /\ c.fd = fd
  BY DEF Completion
<1>2. /\ fd \notin open /\ open' = open \cup {fd}
      /\ accepting > 0 /\ accepting' = accepting - 1 /\ inView' = inView
      /\ Post(Listening, fd, 0)
      /\ UNCHANGED <<pc, accepts, backlog, staged, published, unseen, held, inFlight>>
      /\ UNCHANGED <<tokens, pool, bufs>>
  BY DEF KernelAccept, sqVars, tableVars
<1>3. /\ cq' \in Seq(Completion) /\ inView' \in 0..Len(cq')
      /\ DOMAIN cq' = DOMAIN cq \cup {n} /\ n \notin DOMAIN cq
      /\ cq'[n] = c /\ \A i \in DOMAIN cq : cq'[i] = cq[i]
      /\ Completed' = Completed \cup ({Listening} \ {Listening})
      /\ Listening \notin Completed => Once(cq')
  BY <1>1, <1>2, PostFacts
<1>4. Completed' = Completed /\ Once(cq')
  BY <1>3 DEF Completed
<1> HIDE DEF n, c
<1>5. TypeOK'
  BY <1>2, <1>3 DEF IInv, TypeOK
<1>6. TokensOK' /\ BuffersOK'
  BY <1>2 DEF IInv, TokensOK, BuffersOK, Live
<1>7. NewConnections'
  <2>1. /\ \A t \in TokenId : Live(t) => tokens[t].fd # fd
        /\ \A i \in DOMAIN cq : IsNew(cq[i]) => cq[i].fd # fd
    BY <1>2 DEF IInv, TokensOK, NewConnections
  <2> QED
    BY <1>1, <1>2, <1>3, <2>1 DEF IInv, NewConnections, Live, IsNew
<1>8. EntriesApart' /\ UnderWay' = UnderWay
  BY <1>2 DEF IInv, EntriesApart, UnderWay, Requests, Once
<1>9. RequestsOK'
  BY <1>2, <1>4, <1>8 DEF IInv, RequestsOK, Described, Live
<1>10. CompletionsOK'
  BY <1>2, <1>4 DEF IInv, CompletionsOK, Live, Once
<1>11. StagedIsHeld'
  BY <1>2 DEF IInv, StagedIsHeld
<1> QED
  BY <1>5, <1>6, <1>7, <1>8, <1>9, <1>10, <1>11 DEF IInv

\* A request leaves the kernel for a completion, well or badly.
LEMMA CompletionStep ==
  ASSUME IInv, NEW e \in inFlight, NEW res \in Nat \cup {Failed},
         inFlight' = inFlight \ {e}, Post(e.tok, e.fd, res),
         UNCHANGED <<pc, accepts, backlog, lost, sqVars, inView, held, accepting, tableVars,
                     clientVars>>
  PROVE  IInv'
<1> DEFINE n == Len(cq) + 1
           c == [tok |-> e.tok, fd |-> e.fd, res |-> res]
<1>1. /\ UNCHANGED <<pc, accepts, backlog, staged, published, unseen, held, accepting>>
      /\ UNCHANGED <<tokens, pool, bufs, open>> /\ inView' = inView
  BY DEF sqVars, tableVars, clientVars
<1>2. e \in Request /\ e \in UnderWay
  BY DEF IInv, TypeOK, UnderWay
<1>3. /\ e.tok \in TokenId /\ e.tok # Listening /\ e.tok \notin Completed /\ Live(e.tok)
      /\ c \in Completion /\ c.tok = e.tok
  BY <1>2, RequestFacts DEF IInv, RequestsOK, Described, Completion, Request
<1>4. /\ cq' \in Seq(Completion) /\ inView' \in 0..Len(cq')
      /\ DOMAIN cq' = DOMAIN cq \cup {n} /\ n \notin DOMAIN cq
      /\ cq'[n] = c /\ \A i \in DOMAIN cq : cq'[i] = cq[i]
      /\ Completed' = Completed \cup ({e.tok} \ {Listening})
      /\ e.tok \notin Completed => Once(cq')
  BY <1>1, <1>3, PostFacts
<1> HIDE DEF n, c
<1>5. TypeOK'
  BY <1>1, <1>4 DEF IInv, TypeOK
<1>6. TokensOK' /\ BuffersOK'
  BY <1>1 DEF IInv, TokensOK, BuffersOK, Live
<1>7. NewConnections'
  <2>1. ~IsNew(cq'[n])
    BY <1>3, <1>4 DEF IsNew
  <2> QED
    BY <1>1, <1>4, <2>1 DEF IInv, NewConnections, Live, IsNew
<1>8. EntriesApart'
  BY <1>1 DEF IInv, EntriesApart, Apart, Requests, Once
<1>9. UnderWay' \subseteq UnderWay /\ \A f \in UnderWay' : f.tok # e.tok
  <2>1. UnderWay' = Requests(backlog) \cup Requests(staged) \cup Requests(published)
                      \cup (inFlight \ {e})
    BY <1>1 DEF UnderWay, Requests
  <2>2. \A f \in Requests(backlog) \cup Requests(staged) \cup Requests(published) : f.tok # e.tok
    BY DEF IInv, EntriesApart, Apart
  <2>3. \A f \in inFlight \ {e} : f.tok # e.tok
    BY DEF IInv, EntriesApart
  <2> QED
    BY <2>1, <2>2, <2>3 DEF UnderWay
<1>10. RequestsOK'
  BY <1>1, <1>4, <1>9 DEF IInv, RequestsOK, Described, Live
<1>11. CompletionsOK'
  <2>1. Once(cq)'
    BY <1>3, <1>4 DEF Once
  <2> QED
    BY <1>1, <1>3, <1>4, <2>1 DEF IInv, CompletionsOK, Live
<1>12. StagedIsHeld'
  BY <1>1 DEF IInv, StagedIsHeld
<1> QED
  BY <1>5, <1>6, <1>7, <1>8, <1>10, <1>11, <1>12 DEF IInv

\* An accept fails: no connection comes of it.
LEMMA AcceptFailsStep ==
  ASSUME IInv, accepting > 0, accepting' = accepting - 1, Post(Listening, None, Failed),
         UNCHANGED <<inFlight, pc, accepts, backlog, lost, sqVars, inView, held, tableVars,
                     clientVars>>
  PROVE  IInv'
<1> DEFINE n == Len(cq) + 1
           c == [tok |-> Listening, fd |-> None, res |-> Failed]
<1>1. /\ UNCHANGED <<pc, accepts, backlog, staged, published, unseen, held, inFlight>>
      /\ UNCHANGED <<tokens, pool, bufs, open>> /\ inView' = inView
  BY DEF sqVars, tableVars, clientVars
<1>2. c \in Completion /\ c.res = Failed
  BY DEF Completion
<1>3. /\ cq' \in Seq(Completion) /\ inView' \in 0..Len(cq')
      /\ DOMAIN cq' = DOMAIN cq \cup {n} /\ n \notin DOMAIN cq
      /\ cq'[n] = c /\ \A i \in DOMAIN cq : cq'[i] = cq[i]
      /\ Completed' = Completed \cup ({Listening} \ {Listening})
      /\ Listening \notin Completed => Once(cq')
  BY <1>1, <1>2, PostFacts
<1>4. Completed' = Completed /\ Once(cq')
  BY <1>3 DEF Completed
<1> HIDE DEF n, c
<1>5. TypeOK'
  BY <1>1, <1>3 DEF IInv, TypeOK
<1>6. TokensOK' /\ BuffersOK'
  BY <1>1 DEF IInv, TokensOK, BuffersOK, Live
<1>7. NewConnections'
  <2>1. ~IsNew(cq'[n])
    BY <1>2, <1>3 DEF IsNew
  <2> QED
    BY <1>1, <1>3, <2>1 DEF IInv, NewConnections, Live, IsNew
<1>8. EntriesApart' /\ UnderWay' = UnderWay
  BY <1>1 DEF IInv, EntriesApart, UnderWay, Requests, Once
<1>9. RequestsOK'
  BY <1>1, <1>4, <1>8 DEF IInv, RequestsOK, Described, Live
<1>10. CompletionsOK'
  BY <1>1, <1>4 DEF IInv, CompletionsOK, Live, Once
<1>11. StagedIsHeld'
  BY <1>1 DEF IInv, StagedIsHeld
<1> QED
  BY <1>5, <1>6, <1>7, <1>8, <1>9, <1>10, <1>11 DEF IInv

-----------------------------------------------------------------------------
(* The invariant.                                                          *)

\* Nobody is connected, nothing is under way but accepts.
Blank ==
  /\ {accepts, accepting, unseen} \subseteq Nat
  /\ staged = <<>> /\ backlog = <<>> /\ inFlight = {} /\ cq = <<>> /\ inView = 0
  /\ published \in Seq(Item) /\ Requests(published) = {} /\ Once(published)
  /\ tokens = [t \in TokenId |-> Vacant] /\ pool = {} /\ bufs = 0 /\ open = {}

LEMMA BlankIInv == Blank => IInv
<1> SUFFICES ASSUME Blank PROVE IInv
  OBVIOUS
<1> USE DEF Blank
<1>1. Vacant \in Token /\ Vacant.kind = "vacant" /\ Vacant.buf = None
  BY DEF Vacant, Token, None
<1>2. \A t \in TokenId : tokens[t] = Vacant /\ ~Live(t)
  BY <1>1 DEF Live
<1>3. /\ Requests(backlog) = {} /\ Requests(staged) = {} /\ Completed = {}
      /\ Once(backlog) /\ Once(staged) /\ Once(cq)
  BY DEF Requests, Completed, Once
<1>4. TypeOK
  BY <1>1, RequestsEmpty DEF TypeOK
<1>5. TokensOK
  BY <1>2 DEF TokensOK
<1>6. NewConnections
  BY DEF NewConnections
<1>7. BuffersOK
  BY <1>1, <1>2 DEF BuffersOK, None
<1>8. EntriesApart
  BY <1>3 DEF EntriesApart, Apart
<1>9. RequestsOK /\ CompletionsOK
  BY <1>3 DEF RequestsOK, CompletionsOK, UnderWay
<1>10. StagedIsHeld
  BY DEF StagedIsHeld
<1> QED
  BY <1>4, <1>5, <1>6, <1>7, <1>8, <1>9, <1>10 DEF IInv

\* The server starts with accepts in its queue.
LEMMA InitIInv == Init => IInv
<1> SUFFICES ASSUME Init PROVE IInv
  OBVIOUS
<1> DEFINE n == IF AcceptDepth < SqEntries THEN AcceptDepth ELSE SqEntries
<1>1. /\ published = [i \in 1..n |-> AcceptEntry]
      /\ n \in Nat /\ AcceptDepth - n \in Nat
  BY EchoAssumption DEF Init
<1> HIDE DEF n
<1>2. Len(published) = n
  BY <1>1
<1>3. published \in Seq(Item) /\ Requests(published) = {} /\ Once(published)
  BY <1>1, RequestsAccepts
<1>4. {accepts, accepting, unseen} \subseteq Nat
  <2>1. accepts = AcceptDepth - n /\ accepting = 0 /\ unseen = 0
    BY <1>2 DEF Init
  <2> QED
    BY <1>1, <2>1
<1>5. Blank
  BY <1>3, <1>4 DEF Init, Blank
<1> QED
  BY <1>5, BlankIInv

\* The end of the program leaves nothing.
LEMMA ExitStep == Exit => IInv'
<1>1. (Blank => IInv)'
  BY BlankIInv, PTL
<1>2. Exit => Blank'
  BY RequestsEmpty DEF Exit, Blank, Requests, Once
<1> QED
  BY <1>1, <1>2

\* Every step keeps the invariant.
LEMMA NextIInv == IInv /\ [Next]_vars => IInv'
<1> SUFFICES ASSUME IInv, [Next]_vars PROVE IInv'
  OBVIOUS
<1>1. CASE SubmitAndWait
  <2>1. StagedIsHeld' /\ UNCHANGED <<cq, tableVars, open>>
    BY <1>1 DEF SubmitAndWait, IInv, StagedIsHeld, cqVars, clientVars
  <2> QED
    BY <1>1, <2>1, SubmitHandsOn, HandedOn
<1>2. CASE CqSync
  <2>1. StagedIsHeld' /\ UNCHANGED <<cq, tableVars, open>>
    BY <1>2 DEF CqSync, StagedIsHeld, clientVars
  <2> QED
    BY <1>2, <2>1, CqSyncHandsOn, HandedOn
<1>3. CASE BacklogRound
  <2>1. staged' = <<>> \/ pc' = "backlog"
    BY <1>3 DEF BacklogRound
  <2>2. StagedIsHeld' /\ UNCHANGED <<cq, tableVars, open>>
    BY <1>3, <2>1 DEF BacklogRound, StagedIsHeld, cqVars, clientVars
  <2> QED
    BY <1>3, <2>2, RoundHandsOn, HandedOn
<1>4. CASE PushAccepts
  <2>1. StagedIsHeld' /\ UNCHANGED <<cq, tableVars, open>>
    BY <1>4 DEF PushAccepts, StagedIsHeld, cqVars, clientVars
  <2> QED
    BY <1>4, <2>1, PushAcceptsHandsOn, HandedOn
<1>5. CASE ReapDone \/ BacklogBusy \/ UNCHANGED vars
  <2>1. /\ UNCHANGED <<accepts, sqVars, backlog, cq, inView, kernelVars, tableVars, clientVars>>
        /\ StagedIsHeld'
    BY <1>5 DEF ReapDone, BacklogBusy, vars, IInv, StagedIsHeld, cqVars, sqVars
  <2>2. /\ UNCHANGED <<accepts, staged, published, unseen, backlog, cq, inView>>
        /\ UNCHANGED <<inFlight, accepting, tokens, pool, bufs, open>>
    BY <2>1 DEF sqVars, kernelVars, tableVars, clientVars
  <2>3. HandsOn
    BY <2>2 DEF IInv, HandsOn, TypeOK, EntriesApart, UnderWay, Requests, Once
  <2>4. UNCHANGED <<cq, tableVars, open>>
    BY <2>2 DEF tableVars
  <2> QED
    BY <2>1, <2>3, <2>4, HandedOn
<1>6. CASE HandleCqe
  BY <1>6, HandleStep
<1>7. CASE Exit
  BY <1>7, ExitStep
<1>8. ASSUME NEW fd \in Fd, KernelAccept(fd) PROVE IInv'
  BY <1>8, KernelAcceptStep
<1>9. ASSUME NEW e \in inFlight, KernelCompletes(e) PROVE IInv'
  <2>1. PICK res \in Results(e) : Post(e.tok, e.fd, res)
    BY <1>9 DEF KernelCompletes
  <2>2. res \in Nat
    <3>1. e \in Request /\ MaxLen \in Nat
      BY RequestFacts DEF IInv, TypeOK
    <3> QED
      BY <2>1, <3>1 DEF Results, Request
  <2> QED
    BY <1>9, <2>1, <2>2, CompletionStep DEF KernelCompletes
<1>10. CASE KernelRefuses
  <2>1. CASE accepting > 0 /\ accepting' = accepting - 1
             /\ Post(Listening, None, Failed) /\ UNCHANGED inFlight
    BY <1>10, <2>1, AcceptFailsStep DEF KernelRefuses
  <2>2. ASSUME NEW e \in inFlight, inFlight' = inFlight \ {e},
               Post(e.tok, e.fd, Failed), UNCHANGED accepting
        PROVE  IInv'
    BY <1>10, <2>2, CompletionStep DEF KernelRefuses
  <2> QED
    BY <1>10, <2>1, <2>2 DEF KernelRefuses
<1> QED
  BY <1>1, <1>2, <1>3, <1>4, <1>5, <1>6, <1>7, <1>8, <1>9, <1>10
     DEF Next, Main, WaitDone, WaitBusy

\* Tokens, buffers, connections, requests and completions fit together.
THEOREM EchoInvariant == Spec => []IInv
<1> QED
  BY InitIInv, NextIInv, PTL DEF Spec

-----------------------------------------------------------------------------
(* The properties.                                                         *)

\* A connection has one request under way, or one completion, and its token
\* describes it: wherever entries wait, however often calls fail.
THEOREM OneRequest == Spec => []OneRequestPerToken
<1>1. IInv => OneRequestPerToken
  <2> SUFFICES ASSUME IInv, NEW t \in TokenId
               PROVE  /\ Cardinality(Operations(t)) + Cardinality(Completions(t)) <=
                           IF tokens[t] = Vacant THEN 0 ELSE 1
                      /\ \A e \in Operations(t) :
                           /\ e.fd = tokens[t].fd /\ e.fd \in open /\ e.buf = tokens[t].buf
                           /\ e.op = "send" => e.len = tokens[t].len
    BY DEF OneRequestPerToken
  <2>1. t # Listening
    BY RequestFacts DEF Listening
  <2>2. Operations(t) \subseteq UnderWay
    <3>1. backlog \in Seq(Item) /\ staged \in Seq(Item) /\ published \in Seq(Item)
      BY RequestSeq DEF IInv, TypeOK
    <3>2. ASSUME NEW s \in Seq(Item), NEW e \in ToSet(s), e.tok = t PROVE e \in Requests(s)
      <4>1. PICK i \in DOMAIN s : s[i] = e
        BY DEF ToSet
      <4> QED
        BY <2>1, <3>2, <4>1, ItemFacts DEF Requests
    <3> QED
      BY <3>1, <3>2 DEF Operations, Waiting, UnderWay
  <2>3. \A e \in Operations(t) : e.tok = t
    BY DEF Operations
  <2>4. \A e \in Operations(t) : Described(e) /\ t \notin Completed /\ Live(t)
    BY <2>2, <2>3 DEF IInv, RequestsOK, Described
  <2>5. \A e, f \in Operations(t) : e = f
    BY <2>2, <2>3, UnderWayFacts DEF IInv
  <2>6. Completions(t) # {} => t \in Completed /\ Live(t)
    BY <2>1 DEF Completions, Completed, IInv, CompletionsOK
  <2>7. \A i, j \in Completions(t) : i = j
    BY <2>1 DEF Completions, IInv, CompletionsOK, Once
  <2>8. Live(t) => tokens[t] # Vacant
    BY DEF Live, Vacant
  <2>9. /\ Cardinality(Operations(t)) = IF Operations(t) = {} THEN 0 ELSE 1
        /\ Cardinality(Completions(t)) = IF Completions(t) = {} THEN 0 ELSE 1
    <3>1. ASSUME NEW S, \A x, y \in S : x = y
          PROVE  Cardinality(S) = IF S = {} THEN 0 ELSE 1
      <4>1. CASE S = {}
        BY <4>1, FS_EmptySet
      <4>2. ASSUME NEW x \in S PROVE Cardinality(S) = 1
        <5>1. S = {x}
          BY <3>1, <4>2
        <5> QED
          BY <5>1, FS_Singleton
      <4> QED
        BY <4>1, <4>2
    <3> QED
      BY <2>5, <2>7, <3>1
  <2>10. \A e \in Operations(t) : /\ e.fd = tokens[t].fd /\ e.fd \in open
                                  /\ e.buf = tokens[t].buf
                                  /\ e.op = "send" => e.len = tokens[t].len
    BY <2>3, <2>4 DEF Described, IInv, TokensOK
  <2>11. Operations(t) # {} => Completions(t) = {} /\ Live(t)
    BY <2>4, <2>6
  <2> QED
    BY <2>6, <2>8, <2>9, <2>10, <2>11
<1> QED
  BY <1>1, EchoInvariant, PTL

\* A buffer is in the pool or belongs to one connection, never to two.
THEOREM BuffersAreOwnedOnce == Spec => []BuffersOwnedOnce
<1>1. IInv => BuffersOwnedOnce
  <2> SUFFICES ASSUME IInv, NEW b \in 1..bufs
               PROVE  Cardinality({t \in TokenId : tokens[t].buf = b})
                        + (IF b \in pool THEN 1 ELSE 0) = 1
    BY DEF BuffersOwnedOnce
  <2> DEFINE owners == {t \in TokenId : tokens[t].buf = b}
  <2>1. b # None
    BY DEF None, IInv, TypeOK
  <2>2. CASE b \in pool
    <3>1. owners = {}
      BY <2>2 DEF IInv, BuffersOK
    <3> QED
      BY <2>2, <3>1, FS_EmptySet
  <2>3. CASE b \notin pool
    <3>1. PICK t \in TokenId : tokens[t].buf = b
      BY <2>3 DEF IInv, BuffersOK
    <3>2. owners = {t}
      BY <2>1, <3>1 DEF IInv, BuffersOK
    <3> HIDE DEF owners
    <3>3. Cardinality(owners) = 1
      BY <3>2, FS_Singleton
    <3> QED
      BY <2>3, <3>3 DEF owners
  <2> QED
    BY <2>2, <2>3
<1> QED
  BY <1>1, EchoInvariant, PTL

\* The server does not fall asleep with entries the kernel cannot see.
THEOREM EchoStaysAwake == Spec => []NeverSleepsOnStaged
<1>1. IInv => NeverSleepsOnStaged
  BY DEF IInv, StagedIsHeld, NeverSleepsOnStaged
<1> QED
  BY <1>1, EchoInvariant, PTL

=============================================================================
