---------------------------- MODULE MCRegistration ----------------------------
(***************************************************************************)
(* Instances of Cancellation, FileTable and BufferTable for TLC.  The three *)
(* share no state, so one run explores them one after the other: `part'     *)
(* says which of them moves, the others stay in their initial states.       *)
(***************************************************************************)
EXTENDS Cancellation

CONSTANTS Files, MaxU32, TableSizes, MaxPending,
          Rings, Bufs, BufRequests, MaxTable, Partial, Discipline

VARIABLES part,
          fileTable, fileView, pending, cqes,
          bufTable, bufView, inFlight, tagCqes, announced, freed

Tools    == INSTANCE TLC
FileSide == INSTANCE FileTable WITH table <- fileTable, view <- fileView
BufSide  == INSTANCE BufferTable WITH
                table <- bufTable, view <- bufView, Requests <- BufRequests

ASSUME TablesAssumption ==
    /\ MaxU32 \in Nat /\ MaxU32 >= 2
    /\ {"empty", "skip"} \cap Files = {}
    /\ TableSizes \subseteq (Nat \ {0})
    /\ {MaxPending, MaxTable} \subseteq Nat
    /\ Partial \in BOOLEAN
    /\ Discipline \in {"documented", "careful"}

\* Descriptors and indices of the same numbers stand for different files.
MCFileAt ==
    [t \in Targets |-> IF t.kind = "Fd" THEN <<"file", t.n>> ELSE <<"file", t.n + 1>>]

Symmetry ==
    UNION {Tools!Permutations(set) : set \in {Requests, Files, Bufs}}

fileVars == <<fileTable, fileView, pending, cqes>>
bufVars  == <<bufTable, bufView, inFlight, tagCqes, announced, freed>>

PartsInit ==
    /\ part \in {"cancellation", "files", "buffers"}
    /\ Init /\ FileSide!Init /\ BufSide!Init

CancellationStep == part = "cancellation" /\ Next /\ UNCHANGED <<part, fileVars, bufVars>>
FileStep   == part = "files" /\ FileSide!Next /\ UNCHANGED <<part, vars, bufVars>>
BufferStep == part = "buffers" /\ BufSide!Next /\ UNCHANGED <<part, vars, fileVars>>

PartsSpec ==
    PartsInit /\ [][CancellationStep \/ FileStep \/ BufferStep]_<<part, vars, fileVars, bufVars>>

\* The properties of FileTable and BufferTable, under names a configuration can use.
FileTableIsKnown      == FileSide!TableIsKnown
FreedBuffersAreUnused == BufSide!FreedBuffersAreUnused
TagMeansUnused        == BufSide!TagMeansUnused
=============================================================================
