-------------------------- MODULE SubmissionChannel --------------------------
(***************************************************************************)
(* What the submission queue promises: a bounded first-in first-out channel *)
(* from the program to the kernel in which an entry first waits, invisible  *)
(* to the kernel, until the program publishes it.  Every entry accepted is  *)
(* handed over exactly once, unchanged and in order; the room it took is    *)
(* given back only after the kernel has read it.                           *)
(***************************************************************************)
EXTENDS Naturals, Sequences, SequencesExt

CONSTANTS Entry,      \* the submission queue entries
          NoEntry,    \* no entry has been taken yet
          Capacity    \* how many entries the channel can hold

VARIABLES staged,     \* accepted from the program, not yet published
          published,  \* published, not yet read by the kernel
          reading,    \* how many entries the kernel has read without giving their room back
          taken       \* the entry the kernel read last

channelVars == <<staged, published, reading, taken>>

Occupied == Len(staged) + Len(published) + reading

Init ==
  /\ staged = <<>>
  /\ published = <<>>
  /\ reading = 0
  /\ taken = NoEntry

\* A push of one or several entries: all of them or none.
Stage(entries) ==
  /\ Occupied + Len(entries) <= Capacity
  /\ staged' = staged \o entries
  /\ UNCHANGED <<published, reading, taken>>

Publish ==
  /\ published' = published \o staged
  /\ staged' = <<>>
  /\ UNCHANGED <<reading, taken>>

Take ==
  /\ published # <<>>
  /\ taken' = Head(published)
  /\ published' = Tail(published)
  /\ reading' = reading + 1
  /\ UNCHANGED staged

Release ==
  /\ reading' = 0
  /\ UNCHANGED <<staged, published, taken>>

Next ==
  \/ \E entries \in BoundedSeq(Entry, Capacity) : Stage(entries)
  \/ Publish
  \/ Take
  \/ Release

Spec == Init /\ [][Next]_channelVars

=============================================================================
