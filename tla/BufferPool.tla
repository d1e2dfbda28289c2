----------------------------- MODULE BufferPool -----------------------------
(***************************************************************************)
(* What a provided buffer ring promises: the kernel takes buffers in the    *)
(* order they were given to it, and a buffer it took, or whose completion   *)
(* the program still works on, is not offered until it was returned.        *)
(***************************************************************************)
EXTENDS SequencesExt

CONSTANT Bids   \* buffer ids

VARIABLES
  offered,  \* buffers in sight of the kernel, in order
  held      \* buffers taken and not yet returned

poolVars == <<offered, held>>

Init == offered = <<>> /\ held = {}

\* Some buffers are given: each is in one place only.
Give ==
  /\ \E s \in SetToAllKPermutations(Bids \ (ToSet(offered) \cup held)) :
       s # <<>> /\ offered' = offered \o s
  /\ UNCHANGED held

Take ==
  /\ offered # <<>>
  /\ held' = held \cup {Head(offered)}
  /\ offered' = Tail(offered)

Return ==
  /\ \E b \in held : held' = held \ {b}
  /\ UNCHANGED offered

\* The group is unregistered: nothing more is taken from it.
Forget == offered' = <<>> /\ UNCHANGED held

Next == Give \/ Take \/ Return \/ Forget
Spec == Init /\ [][Next]_poolVars
=============================================================================
