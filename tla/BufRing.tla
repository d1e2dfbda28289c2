------------------------------- MODULE BufRing -------------------------------
(***************************************************************************)
(* A ring of provided buffers: BufRingEntry of src/types.rs, the register    *)
(* calls of src/submit.rs, and the program around them in                   *)
(* io-uring-test/src/tests/register_buf_ring.rs (InnerBufRing, GBuf), next  *)
(* to a kernel that takes buffers at any moment (external).                 *)
(*                                                                         *)
(* The tail is a 16-bit word in the `resv' field of entry 0, which the      *)
(* kernel reads whenever it needs a buffer: IndexMod is 2^16 here.          *)
(***************************************************************************)
EXTENDS RingIndex, Sequences, SequencesExt, FiniteSets

CONSTANTS
  BufCnt,        \* buffers in the ring
  MaxRegistrations, \* bound: how often the program registers this ring
  MaxBundle      \* bound: buffers one request takes

ASSUME BufRingAssumption ==
  /\ BufCnt \in 1..RingEntries
  /\ MaxRegistrations \in Nat
  /\ MaxBundle \in Nat \ {0}

Bids == 0..(BufCnt - 1)
NoBid == -1

VARIABLES
  registered,    \* the kernel knows the ring
  registrations, \* how often it was registered
  kHead,         \* the kernel's own head
  tail,          \* entries[0].resv
  entries,       \* the bid of each entry
  localTail,     \* InnerBufRing.local_tail
  toPush,        \* buffers that the call under way has yet to push
  syncing,       \* the call under way has yet to store the tail
  inFlight,      \* bundles of buffers with requests
  gbufs          \* buffers the program believes to have, in the order received

vars == <<registered, registrations, kHead, tail, entries, localTail, toPush,
          syncing, inFlight, gbufs>>
kernelVars == <<registered, registrations, kHead>>

\* The memory is zero-filled; nothing is pushed before it is registered.
Init ==
  /\ registered = FALSE /\ registrations = 0 /\ kHead = 0
  /\ tail = 0 /\ localTail = 0
  /\ entries = [i \in Slots |-> NoBid]
  /\ toPush = <<>> /\ syncing = FALSE
  /\ inFlight = {} /\ gbufs = <<>>

Available == WrappingSub(tail, kHead)
EntryAt(n) == entries[Slot(WrappingAdd(kHead, n))]
Idle == toPush = <<>> /\ ~syncing

-----------------------------------------------------------------------------
(* The program                                                             *)

\* register: the kernel starts at head 0, and all buffers are pushed after it.
Register ==
  /\ Idle /\ ~registered /\ registrations < MaxRegistrations
  /\ registered' = TRUE /\ registrations' = registrations + 1
  /\ kHead' = 0
  /\ toPush' = [i \in 1..BufCnt |-> i - 1]
  /\ syncing' = TRUE
  /\ UNCHANGED <<tail, entries, localTail, inFlight, gbufs>>

Unregister ==
  /\ Idle /\ registered
  /\ registered' = FALSE
  /\ UNCHANGED <<registrations, kHead, tail, entries, localTail, toPush, syncing,
                 inFlight, gbufs>>

\* Dropping a GBuf pushes its buffer and publishes it.
DropGBufTwice(i) ==
  /\ Idle /\ i \in 1..Len(gbufs)
  /\ gbufs' = RemoveAt(gbufs, i)
  /\ toPush' = <<gbufs[i], gbufs[i]>>
  /\ syncing' = TRUE
  /\ UNCHANGED <<kernelVars, tail, entries, localTail, inFlight>>

DropGBuf(i) ==
  /\ Idle /\ i \in 1..Len(gbufs)
  /\ gbufs' = RemoveAt(gbufs, i)
  /\ toPush' = <<gbufs[i]>>
  /\ syncing' = TRUE
  /\ UNCHANGED <<kernelVars, tail, entries, localTail, inFlight>>

\* buf_ring_push: set_addr, set_len and set_bid leave `resv' alone.

BufRingPushAfterIncrement ==
  /\ toPush # <<>>
  /\ localTail' = WrappingAdd(localTail, 1)
  /\ entries' = [entries EXCEPT ![Slot(localTail')] = Head(toPush)]
  /\ toPush' = Tail(toPush)
  /\ UNCHANGED <<kernelVars, tail, syncing, inFlight, gbufs>>

BufRingPush ==
  /\ toPush # <<>>
  /\ entries' = [entries EXCEPT ![Slot(localTail)] = Head(toPush)]
  /\ localTail' = WrappingAdd(localTail, 1)
  /\ toPush' = Tail(toPush)
  /\ UNCHANGED <<kernelVars, tail, syncing, inFlight, gbufs>>

\* buf_ring_sync: the tail is stored through the pointer of BufRingEntry::tail.
BufRingSyncLost ==
  /\ syncing /\ toPush = <<>>
  /\ syncing' = FALSE
  /\ UNCHANGED <<kernelVars, tail, entries, localTail, toPush, inFlight, gbufs>>

BufRingSync ==
  /\ syncing /\ toPush = <<>>
  /\ tail' = localTail
  /\ syncing' = FALSE
  /\ UNCHANGED <<kernelVars, entries, localTail, toPush, inFlight, gbufs>>

-----------------------------------------------------------------------------
(* The kernel (external): a request takes the next buffers, its completion  *)
(* names the first one.                                                    *)

Take ==
  /\ registered
  /\ \E n \in 1..MaxBundle :
       /\ n <= Available
       /\ inFlight' = inFlight \cup {[i \in 1..n |-> EntryAt(i - 1)]}
       /\ kHead' = WrappingAdd(kHead, n)
  /\ UNCHANGED <<registered, registrations, tail, entries, localTail, toPush,
                 syncing, gbufs>>

\* get_buf and get_bufs: the buffers after the first are numbered from it.
GetBufs(first, n) == [i \in 1..n |-> first + i - 1]

Reap ==
  /\ Idle
  /\ \E bundle \in inFlight :
       /\ inFlight' = inFlight \ {bundle}
       /\ gbufs' = gbufs \o GetBufs(bundle[1], Len(bundle))
  /\ UNCHANGED <<kernelVars, tail, entries, localTail, toPush, syncing>>

Next ==
  \/ Register \/ Unregister
  \/ \E i \in 1..BufCnt : DropGBuf(i)
  \/ BufRingPush \/ BufRingSync
  \/ Take \/ Reap

Spec == Init /\ [][Next]_vars

\* The program finishes what it is doing, reaps, and drops what it got.
Fairness ==
  /\ WF_vars(BufRingPush) /\ WF_vars(BufRingSync) /\ WF_vars(Reap)
  /\ WF_vars(DropGBuf(1))
FairSpec == Spec /\ Fairness

-----------------------------------------------------------------------------
Held == (UNION {ToSet(s) : s \in inFlight}) \cup ToSet(gbufs)

(* The ring in memory behaves as a pool: the kernel sees complete entries   *)
(* only, in the order they were pushed; a buffer that a request or a GBuf   *)
(* has is not offered, and none is offered twice.  Writing entry 0 and the  *)
(* wrap of the 16-bit tail must not disturb this.                           *)
Pool == INSTANCE BufferPool WITH
  offered <- IF registered THEN [i \in 1..Available |-> EntryAt(i - 1)] ELSE <<>>,
  held <- Held

ImplementsPool == Pool!Spec

(* "dropping a duplicate bid is likely to cause undefined behavior as the   *)
(* kernel could use the same buffer for different data concurrently"        *)
(* (register_buf_ring.rs, dropping_bid): no two users of one buffer, now or *)
(* when the kernel gets to it.                                              *)
BuffersOwnedOnce ==
  /\ \A b \in Bids :
       Cardinality({s \in inFlight : b \in ToSet(s)})
         + Cardinality({i \in 1..Len(gbufs) : gbufs[i] = b}) <= 1
  /\ registered => \A i \in 1..Available :
                    /\ EntryAt(i - 1) \notin Held
                    /\ \A j \in 1..(i - 1) : EntryAt(i - 1) # EntryAt(j - 1)

(* A request that found no buffer (ENOBUFS) is not refused for ever: the    *)
(* program's buffers come back into sight of the kernel.                    *)
BuffersComeBack == registered /\ Available = 0 ~> Available > 0 \/ ~registered

(* "Returns vector of buffers for completion results that can return a      *)
(* bundle": the buffers it returns are those the kernel filled.  False once *)
(* buffers were given back in another order, as get_bufs counts up from the *)
(* first.                                                                   *)
BundleIsWhatWasFilled ==
  [][\A s \in inFlight : inFlight' = inFlight \ {s} =>
       ToSet(SubSeq(gbufs', Len(gbufs) + 1, Len(gbufs'))) = ToSet(s)]_vars
=============================================================================
