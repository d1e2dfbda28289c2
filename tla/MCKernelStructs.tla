--------------------------- MODULE MCKernelStructs ---------------------------
(***************************************************************************)
(* Instances of BufRing, RecvMsgOut and Opcodes for TLC: the structures in   *)
(* memory by which the program and the kernel speak to each other.  How      *)
(* buffers go to the kernel and come back, what the program makes of one     *)
(* that holds a message, and what an entry says that a builder filled in.    *)
(* They share no state, so one run explores them one after the other:       *)
(* `part' says which of them moves, the others stay in an initial state.     *)
(***************************************************************************)
EXTENDS BufRing, Opcodes, TLC

CONSTANTS Buffers, BufferLen, DataStart, UsizeMod, MsgHdrs, Messages, MaxSequence

VARIABLES part, msghdr, memory, sent, number, out

Received == INSTANCE RecvMsgOut

ASSUME RecvMsgAssumption ==
    /\ Buffers \subseteq Nat
    /\ UsizeMod \in Nat
    /\ BufferLen \in [Buffers -> 0 .. UsizeMod - 1]
    /\ DataStart \in 1 .. UsizeMod - 1
    /\ MsgHdrs \subseteq [namelen : 0 .. UsizeMod - 1, controllen : 0 .. UsizeMod - 1]
    /\ Messages \subseteq [name : Nat, control : Nat, payload : Nat]
    /\ MaxSequence \in Nat \ {0}

\* A buffer just large enough for some msghdrs, larger than the fields of others
\* and too small for the rest, one of which has lengths that overflow a usize;
\* messages whose parts fit, fall short and are cut.
MCBuffers   == {0}
MCBufferLen == [b \in MCBuffers |-> 5]
MCUsizeMod  == 12

MCMsgHdr(n, c) == [namelen |-> n, controllen |-> c]
MCMsgHdrs ==
    {MCMsgHdr(0, 0), MCMsgHdr(2, 1), MCMsgHdr(1, 3), MCMsgHdr(3, 2), MCMsgHdr(1, 11)}

MCMessages == [name : {1, 3}, control : {0, 2}, payload : {0, 2}]

\* ReadMulti is the subject of a run of its own.
MCSoundOps == DOMAIN Builders \ {"ReadMulti"}

receivedVars == <<msghdr, memory, sent, number, out>>

PartsInit ==
    /\ part \in {"ring", "received", "entry"}
    /\ Init /\ Received!Init /\ EntryInit
    /\ part # "received" => msghdr = CHOOSE hdr \in MsgHdrs : TRUE

RingStep     == part = "ring" /\ Next /\ UNCHANGED <<part, receivedVars, entryVars>>
ReceivedStep == part = "received" /\ Received!Next /\ UNCHANGED <<part, vars, entryVars>>
EntryStep    == part = "entry" /\ EntryNext /\ UNCHANGED <<part, vars, receivedVars>>

PartsNext == RingStep \/ ReceivedStep \/ EntryStep
partsVars == <<part, vars, receivedVars, entryVars>>

PartsSpec == PartsInit /\ [][PartsNext]_partsVars

\* What BufRing assumes of the program: where the others move, none of these
\* actions is ever enabled.
FairPartsSpec == PartsSpec /\ Fairness

\* The properties of RecvMsgOut, under names a configuration can use.
SlicesShowTheMessage == Received!SlicesShowTheMessage
TruncationIsReported == Received!TruncationIsReported
=============================================================================
