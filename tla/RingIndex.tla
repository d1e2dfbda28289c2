------------------------------ MODULE RingIndex ------------------------------
(***************************************************************************)
(* Index arithmetic of the two io_uring rings (src/squeue.rs,              *)
(* src/cqueue.rs) and of a ring of provided buffers.  Positions in a ring   *)
(* are free-running counters: they are advanced with wrapping_add, compared *)
(* with wrapping_sub, and turned into a slot by masking with ring_mask =    *)
(* ring_entries - 1.                                                       *)
(*                                                                         *)
(* IndexMod stands for 2^32, for 2^16 in a ring of buffers, and RingEntries *)
(* for ring_entries.  The kernel makes or wants ring_entries a power of two *)
(* below half of IndexMod or equal to it, so masking is taking the          *)
(* remainder, and RingEntries divides IndexMod at least twice; nothing else *)
(* about the two numbers is used.                                          *)
(***************************************************************************)
EXTENDS Integers

CONSTANTS IndexMod,     \* the number of values of a ring index (2^32, 2^16)
          RingEntries   \* ring_entries, the number of slots of the ring

ASSUME RingAssumption ==
  /\ IndexMod \in Nat
  /\ RingEntries \in Nat \ {0}
  /\ \E k \in 2..IndexMod : IndexMod = k * RingEntries

Index == 0..(IndexMod - 1)
Slots == 0..(RingEntries - 1)

\* Mutants of the arithmetic below.
AddWithoutWrap(a, k)  == a + k

\* a.wrapping_add(k), for 0 <= k <= IndexMod.
WrappingAdd(a, k) == IF a + k < IndexMod THEN a + k ELSE a + k - IndexMod

\* a.wrapping_sub(b): how far a is ahead of b.
WrappingSub(a, b) == IF a >= b THEN a - b ELSE a - b + IndexMod

\* i & ring_mask.
Slot(i) == i % RingEntries

=============================================================================
