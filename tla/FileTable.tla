------------------------------- MODULE FileTable ------------------------------
(***************************************************************************)
(* The table of registered files: the calls of submit.rs that create,      *)
(* change and drop it, the operations that install a file into a slot of   *)
(* it (accept, open, socket: DestinationSlot), and what the application    *)
(* knows of it from the results.  Requests with a Fixed target run on      *)
(* whatever file the table has in that slot, so an application that is     *)
(* wrong about the table reads and writes the wrong file.                  *)
(***************************************************************************)
EXTENDS Integers, Sequences, FiniteSets, SequencesExt

CONSTANTS Files,        \* files the application may register
          MaxU32,       \* u32::MAX, scaled down
          TableSizes,   \* sizes of the tables it asks for
          MaxPending    \* operations in flight or unread that install a file

VARIABLES table,    \* the kernel's table, <<>> when there is none
          view,     \* what the application takes it to be
          pending,  \* operations with a destination slot in flight
          cqes      \* their completions, unread

vars == <<table, view, pending, cqes>>

Empty == "empty"        \* a sparse slot: -1 in a slice of descriptors
Skip  == "skip"         \* SKIP_FILE, -2

Entries == Files \cup {Empty}

\* Slot i of the table, counted from 0 as the kernel does.
At(t, i) == t[i + 1]
Put(t, i, f) == [t EXCEPT ![i + 1] = f]
SlotsOf(t) == 0 .. Len(t) - 1

-----------------------------------------------------------------------------
(* DestinationSlot: a slot as the kernel takes it is one-based, and         *)
(* IORING_FILE_INDEX_ALLOC, u32::MAX, asks for any free one.                *)

FileIndexAlloc == MaxU32
AutoTarget == FileIndexAlloc
NoSlot == -1

SaturatingInc(n) == IF n = MaxU32 THEN n ELSE n + 1

TryFromSlotTargetUpToAlloc(target) ==
    IF target > FileIndexAlloc - 1 THEN NoSlot ELSE SaturatingInc(target)

TryFromSlotTargetZeroBased(target) ==
    IF target > FileIndexAlloc - 2 THEN NoSlot ELSE target

\* try_from_slot_target: NoSlot stands for Err.
TryFromSlotTarget(target) ==
    IF target > FileIndexAlloc - 2 THEN NoSlot ELSE SaturatingInc(target)

-----------------------------------------------------------------------------
Init == table = <<>> /\ view = <<>> /\ pending = {} /\ cqes = {}

Quiet == pending = {} /\ cqes = {}

\* register_files: EBUSY when there is a table, which an application that knows it
\* does not ask for; each fd may be -1.  The kernel waits for the ring to idle.
RegisterFiles(fds) ==
    /\ Quiet /\ table = <<>>
    /\ table' = fds /\ view' = fds
    /\ UNCHANGED <<pending, cqes>>

RegisterFilesSparse(nr) ==
    /\ Quiet /\ table = <<>>
    /\ table' = [i \in 1 .. nr |-> Empty] /\ view' = table'
    /\ UNCHANGED <<pending, cqes>>

UnregisterFiles ==
    /\ Quiet /\ table # <<>>
    /\ table' = <<>> /\ view' = <<>>
    /\ UNCHANGED <<pending, cqes>>

\* The kernel's half of an update: the first `done` of fds are in.
Updated(t, offset, fds, done) ==
    [i \in DOMAIN t |->
        LET k == i - offset IN
        IF k \in 1 .. done /\ fds[k] # Skip THEN fds[k] ELSE t[i]]

\* An application does not update a slot an operation in flight may be filling: those
\* it asked for, and with an automatic one any that it takes for empty.
MayUpdate(slots) ==
    /\ \A op \in pending \cup cqes : op.asked \notin slots
    /\ (\E op \in pending \cup cqes : op.asked = AutoTarget) =>
            \A i \in slots : At(view, i) # Empty

UpdateFilesIgnoringCount(offset, fds) ==
    /\ offset + Len(fds) <= Len(table)
    /\ MayUpdate(offset .. offset + Len(fds) - 1)
    /\ \E done \in 1 .. Len(fds) :
            /\ table' = Updated(table, offset, fds, done)
            /\ view' = Updated(view, offset, fds, Len(fds))
    /\ UNCHANGED <<pending, cqes>>

\* register_files_update returns how many entries the kernel changed before the first
\* one it could not; with none it is an error and nothing has changed.
UpdateFiles(offset, fds) ==
    /\ offset + Len(fds) <= Len(table)
    /\ MayUpdate(offset .. offset + Len(fds) - 1)
    /\ \E done \in 1 .. Len(fds) :
            /\ table' = Updated(table, offset, fds, done)
            /\ view' = Updated(view, offset, fds, done)
    /\ UNCHANGED <<pending, cqes>>

-----------------------------------------------------------------------------
Unnamed == Files \ ({table[i] : i \in DOMAIN table} \cup {op.file : op \in pending \cup cqes})

CanInstall == table # <<>> /\ Cardinality(pending \cup cqes) < MaxPending

\* A request with file_index(DestinationSlot::auto_target()).  Nothing keeps the kernel
\* from picking the very slot an earlier request named: an application that mixes the
\* two must not have both on their way to empty slots.
InstallAnywhere(f) ==
    /\ CanInstall /\ f \in Unnamed
    /\ \A op \in pending \cup cqes :
            op.asked \in SlotsOf(view) => At(view, op.asked) # Empty
    /\ pending' = pending \cup {[asked |-> AutoTarget, arg |-> AutoTarget, file |-> f]}
    /\ UNCHANGED <<table, view, cqes>>

\* A request with file_index(DestinationSlot::try_from_slot_target(target)?).
InstallAt(target, f) ==
    /\ CanInstall /\ f \in Unnamed /\ TryFromSlotTarget(target) # NoSlot
    /\ target \in SlotsOf(table) => MayUpdate({target})
    /\ pending' = pending \cup
            {[asked |-> target, arg |-> TryFromSlotTarget(target), file |-> f]}
    /\ UNCHANGED <<table, view, cqes>>

\* Where the kernel may put a file: any free slot for IORING_FILE_INDEX_ALLOC, else the
\* slot one below the argument; a table without room, or without the slot, is an error.
Places(arg) ==
    IF arg = FileIndexAlloc THEN {i \in SlotsOf(table) : At(table, i) = Empty}
    ELSE {arg - 1} \cap SlotsOf(table)

Complete(op) ==
    /\ op \in pending
    /\ pending' = pending \ {op}
    /\ UNCHANGED view
    /\ \/ \E i \in Places(op.arg) :
            /\ table' = Put(table, i, op.file)
            /\ cqes' = cqes \cup {[asked |-> op.asked, slot |-> i, file |-> op.file]}
       \/ /\ Places(op.arg) = {}
          /\ cqes' = cqes \cup {[asked |-> op.asked, slot |-> NoSlot, file |-> op.file]}
          /\ UNCHANGED table

\* The application reads the completion: an automatic slot is its result, an asked one
\* is where it asked for it.
Reap(cqe) ==
    /\ cqe \in cqes
    /\ cqes' = cqes \ {cqe}
    /\ view' = IF cqe.slot = NoSlot THEN view
               ELSE Put(view, IF cqe.asked = AutoTarget THEN cqe.slot ELSE cqe.asked, cqe.file)
    /\ UNCHANGED <<table, pending>>

Slices == SeqOf(Entries, 2) \ {<<>>}
SlicesToUpdate == SeqOf(Entries \cup {Skip}, 2) \ {<<>>}

Next ==
    \/ \E fds \in Slices : RegisterFiles(fds)
    \/ \E nr \in TableSizes : RegisterFilesSparse(nr)
    \/ UnregisterFiles
    \/ \E offset \in 0 .. MaxU32 : \E fds \in SlicesToUpdate : UpdateFiles(offset, fds)
    \/ \E f \in Files : InstallAnywhere(f)
    \/ \E target \in 0 .. MaxU32 : \E f \in Files : InstallAt(target, f)
    \/ \E op \in pending : Complete(op)
    \/ \E cqe \in cqes : Reap(cqe)

Spec == Init /\ [][Next]_vars

-----------------------------------------------------------------------------
\* Where no completion is on its way, the application knows what a Fixed target means:
\* partial updates, skipped entries and automatic slots included.  A file asked into a
\* slot is in that slot or nowhere, and an automatic slot never costs another file its
\* place.
TableIsKnown ==
    /\ \A i \in SlotsOf(table) :
            At(view, i) = At(table, i) \/ \E c \in cqes : c.slot = i
    /\ \A c \in cqes : c.slot # NoSlot =>
            /\ At(table, c.slot) = c.file
            /\ c.asked # AutoTarget => c.slot = c.asked
            /\ c.asked = AutoTarget => At(view, c.slot) = Empty
=============================================================================
