-------------------------- MODULE CompletionChannel --------------------------
(***************************************************************************)
(* What the completion queue promises: completions reach the program       *)
(* exactly once, unchanged, in the order the kernel posted them, whether    *)
(* they went through the ring at once or waited in the kernel because the   *)
(* ring was full.  A completion the kernel cannot keep is counted, and      *)
(* counting is all that happens to the channel.                            *)
(***************************************************************************)
EXTENDS Naturals, Sequences

CONSTANTS Entry,      \* the completion queue entries
          NoEntry,    \* none has been delivered yet
          CounterMod  \* the number of values of the loss counter

VARIABLES inFlight,   \* posted, not yet delivered
          lost,       \* how many were dropped
          delivered   \* the last one delivered

channelVars == <<inFlight, lost, delivered>>

Init == inFlight = <<>> /\ lost = 0 /\ delivered = NoEntry

Post(entry) ==
  /\ inFlight' = Append(inFlight, entry)
  /\ UNCHANGED <<lost, delivered>>

Lose ==
  /\ lost' = (lost + 1) % CounterMod
  /\ UNCHANGED <<inFlight, delivered>>

Deliver ==
  /\ inFlight # <<>>
  /\ delivered' = Head(inFlight)
  /\ inFlight' = Tail(inFlight)
  /\ UNCHANGED lost

Next == Deliver \/ Lose \/ \E entry \in Entry : Post(entry)

Spec == Init /\ [][Next]_channelVars

=============================================================================
