------------------------------- MODULE Opcodes -------------------------------
(***************************************************************************)
(* The operation builders of opcode.rs.  A builder is a list of            *)
(* assignments to the fields of a zeroed sqe, in the order of its build(). *)
(* What an assignment stores is a set of sources, the arguments and        *)
(* constants OR-ed together; a byte of an entry is in turn the set of      *)
(* source bytes that went into it, so that one assignment wiping out       *)
(* another, and a cast dropping the top of an argument, both show.         *)
(***************************************************************************)
EXTENDS SqeLayout, Sequences

\* Sources.  A signed one is sign-extended by a cast to a wider field; skip is
\* for the tail of an argument that is stored in two places.
Source(a, width, signed, skip) ==
    [arg |-> a, width |-> width, signed |-> signed, skip |-> skip, file |-> FALSE]
U16(a) == Source(a, 2, FALSE, 0)
U32(a) == Source(a, 4, FALSE, 0)
I32(a) == Source(a, 4, TRUE, 0)
U64(a) == Source(a, 8, FALSE, 0)
Ptr(a) == U64(a)
I64(a) == Source(a, 8, TRUE, 0)
\* `impl UseFixed`: a descriptor or an index into the table of registered files
Target(a) == [I32(a) EXCEPT !.file = TRUE]
\* of the [u8; N] of a uring_cmd, those from skip on
CmdBytes(n, skip) == Source("cmd", n, FALSE, skip)
\* a small constant of the code, in the lowest byte
Const(c) == Source(c, 1, FALSE, 0)

\* What byte i of a field holds after source s was cast to it.
ByteOf(s, i) ==
    LET k == i + s.skip IN
    IF k < s.width THEN {<<s.arg, k>>}
    ELSE IF s.signed THEN {<<s.arg, "sign">>} ELSE {}

\* Assignments: `needs` names the arguments that must have been given as Some,
\* true or Fixed for the code to reach the assignment.
Assign(f, or, sources, needs, unless) ==
    [field |-> f, or |-> or, from |-> sources, needs |-> needs, unless |-> unless]
Put(f, s)        == Assign(f, FALSE, {s}, {}, {})
PutBoth(f, s, t) == Assign(f, FALSE, {s, t}, {}, {})
OrIn(f, c)       == Assign(f, TRUE, {Const(c)}, {}, {})
If(a, w)     == Assign(w.field, w.or, w.from, w.needs \cup {a}, w.unless)
Unless(a, w) == Assign(w.field, w.or, w.from, w.needs, w.unless \cup {a})

Reached(w, given) == w.needs \subseteq given /\ w.unless \cap given = {}

Writes(w, b) == b \in BytesOf(Fields[w.field])
Stored(w, b) == UNION {ByteOf(s, b - Fields[w.field].offset) : s \in w.from}

Store(sqe, w) ==
    [b \in DOMAIN sqe |->
        IF ~Writes(w, b) THEN sqe[b] ELSE Stored(w, b) \cup (IF w.or THEN sqe[b] ELSE {})]

\* sqe.fd = -1
NoFd == <<Put("fd", I32("-1"))>>

AssignFdUnflagged(a) == <<Put("fd", Target(a))>>

\* assign_fd!: a Fixed target is an index, and says so in the flags
AssignFd(a) == <<Put("fd", Target(a)), If(a, OrIn("flags", "FIXED_FILE"))>>

\* if let Some(dest) = file_index { file_index = dest.kernel_index_arg() }
FileIndex == <<If("file_index", Put("file_index", U32("file_index")))>>

BufferSelect == <<OrIn("flags", "BUFFER_SELECT")>>

\* Assignments several builders have in common.
ReadWrite(buf) ==
    AssignFd("fd")
    \o <<Put("ioprio", U16("ioprio")), Put("addr", Ptr(buf)), Put("len", U32("len")),
         Put("off", U64("offset")), Put("op_flags", I32("rw_flags"))>>
Message ==
    <<Put("addr", Ptr("msg")), Put("len", Const("1")), Put("op_flags", U32("flags"))>>
\* splice and tee read fd_in beside the flags, where a bit says what kind it is
SpliceFds ==
    AssignFd("fd_out")
    \o <<Put("splice_fd_in", Target("fd_in")), Put("op_flags", U32("flags")),
         If("fd_in", OrIn("op_flags", "SPLICE_F_FD_IN_FIXED"))>>
Command ==
    <<Put("cmd_op", U32("cmd_op")), If("buf_index", Put("buf_index", U16("buf_index"))),
      If("buf_index", OrIn("op_flags", "URING_CMD_FIXED")),
      If("addr", Put("addr", U64("addr")))>>

\* The builders, in the order of the file.
Nop == NoFd
Readv == ReadWrite("iovec") \o <<Put("buf_group", U16("buf_group"))>>
Writev == ReadWrite("iovec")
Fsync ==
    AssignFd("fd") \o <<Put("len", U32("len")), Put("off", U64("offset")),
      Put("op_flags", U32("flags"))>>
ReadFixed == ReadWrite("buf") \o <<Put("buf_index", U16("buf_index"))>>
WriteFixed == ReadWrite("buf") \o <<Put("buf_index", U16("buf_index"))>>
PollAdd ==
    AssignFd("fd") \o <<If("multi", Put("len", Const("POLL_ADD_MULTI"))),
      Put("op_flags", U32("flags"))>>
PollRemove == NoFd \o <<Put("addr", U64("user_data"))>>
SyncFileRange ==
    AssignFd("fd") \o <<Put("len", U32("len")), Put("off", U64("offset")),
      Put("op_flags", U32("flags"))>>
SendMsg == AssignFd("fd") \o Message \o <<Put("ioprio", U16("ioprio"))>>
RecvMsg ==
    AssignFd("fd") \o Message \o <<Put("ioprio", U16("ioprio")),
      Put("buf_group", U16("buf_group"))>>
RecvMsgMulti ==
    AssignFd("fd") \o Message \o <<Put("buf_group", U16("buf_group"))>> \o BufferSelect
    \o <<PutBoth("ioprio", U16("ioprio"), Const("RECV_MULTISHOT"))>>
Timeout ==
    NoFd \o <<Put("addr", Ptr("timespec")), Put("len", Const("1")),
      Put("off", U32("count")), Put("op_flags", U32("flags"))>>
TimeoutRemove == NoFd \o <<Put("addr", U64("user_data"))>>
TimeoutUpdate ==
    NoFd \o <<Put("off", Ptr("timespec")), Put("addr", U64("user_data")),
      PutBoth("op_flags", U32("flags"), Const("TIMEOUT_UPDATE"))>>
Accept ==
    AssignFd("fd") \o <<Put("addr", Ptr("addr")), Put("addr2", Ptr("addrlen")),
      Put("op_flags", I32("flags"))>> \o FileIndex
SetSockOpt ==
    AssignFd("fd") \o <<Put("cmd_op", Const("SETSOCKOPT")), Put("level", U32("level")),
      Put("optname", U32("optname")), Put("op_flags", U32("flags")),
      Put("optlen", U32("optlen")), Put("optval", Ptr("optval"))>>
AsyncCancel == NoFd \o <<Put("addr", U64("user_data"))>>
LinkTimeout ==
    NoFd \o <<Put("addr", Ptr("timespec")), Put("len", Const("1")),
      Put("op_flags", U32("flags"))>>
Connect == AssignFd("fd") \o <<Put("addr", Ptr("addr")), Put("off", U32("addrlen"))>>
FallocateSwapped ==
    AssignFd("fd") \o <<Put("addr", I32("mode")), Put("len", U64("len")),
      Put("off", U64("offset"))>>
Fallocate ==
        AssignFd("fd") \o <<Put("addr", U64("len")), Put("len", I32("mode")),
      Put("off", U64("offset"))>>
OpenAt ==
    <<Put("fd", I32("dirfd")), Put("addr", Ptr("pathname")), Put("len", U32("mode")),
      Put("op_flags", I32("flags"))>> \o FileIndex
\* a Fixed target is a one-based index in file_index: the last u32 wraps to zero
Close ==
    <<Unless("fd", Put("fd", Target("fd"))), If("fd", Put("fd", Const("0"))),
      Unless("last_slot", If("fd", Put("file_index", U32("fd_plus_1"))))>>
FilesUpdate ==
    NoFd \o <<Put("addr", Ptr("fds")), Put("len", U32("len")),
      Put("off", I32("offset"))>>
Statx ==
    <<Put("fd", I32("dirfd")), Put("addr", Ptr("pathname")), Put("len", U32("mask")),
      Put("off", Ptr("statxbuf")), Put("op_flags", I32("flags"))>>
Read == ReadWrite("buf") \o <<Put("buf_group", U16("buf_group"))>>
Write == ReadWrite("buf")
Fadvise ==
    AssignFd("fd") \o <<Put("len", I64("len")), Put("off", U64("offset")),
      Put("op_flags", I32("advice"))>>
Madvise ==
    NoFd \o <<Put("addr", Ptr("addr")), Put("len", I64("len")),
      Put("op_flags", I32("advice"))>>
Send ==
    AssignFd("fd") \o <<Put("addr", Ptr("buf")), Put("addr2", Ptr("dest_addr")),
      Put("addr_len", U32("dest_addr_len")), Put("len", U32("len")),
      Put("ioprio", U16("ioprio")), Put("op_flags", I32("flags"))>>
Recv ==
    AssignFd("fd") \o <<Put("addr", Ptr("buf")), Put("len", U32("len")),
      Put("ioprio", U16("ioprio")), Put("op_flags", I32("flags")),
      Put("buf_group", U16("buf_group"))>>
RecvMulti ==
    AssignFd("fd") \o <<Put("len", U32("len")), Put("op_flags", I32("flags")),
      Put("buf_group", U16("buf_group"))>> \o BufferSelect \o
      <<Put("ioprio", Const("RECV_MULTISHOT"))>>
OpenAt2 ==
    <<Put("fd", I32("dirfd")), Put("addr", Ptr("pathname")),
      Put("len", Const("sizeof_open_how")), Put("off", Ptr("how"))>> \o FileIndex
EpollCtl ==
    AssignFd("epfd") \o <<Put("addr", Ptr("ev")), Put("len", I32("op")),
      Put("off", I32("fd"))>>
Splice ==
    SpliceFds \o <<Put("len", U32("len")), Put("off", I64("off_out")),
      Put("splice_off_in", I64("off_in"))>>
ProvideBuffers ==
    <<Put("fd", U16("nbufs")), Put("addr", Ptr("addr")), Put("len", I32("len")),
      Put("off", U16("bid")), Put("buf_group", U16("bgid"))>>
RemoveBuffers == <<Put("fd", U16("nbufs")), Put("buf_group", U16("bgid"))>>
Tee == SpliceFds \o <<Put("len", U32("len"))>>
Shutdown == AssignFd("fd") \o <<Put("len", I32("how"))>>
RenameAt ==
    <<Put("fd", I32("olddirfd")), Put("addr", Ptr("oldpath")),
      Put("len", I32("newdirfd")), Put("off", Ptr("newpath")),
      Put("op_flags", U32("flags"))>>
UnlinkAt ==
    <<Put("fd", I32("dirfd")), Put("addr", Ptr("pathname")),
      Put("op_flags", I32("flags"))>>
MkDirAt ==
    <<Put("fd", I32("dirfd")), Put("addr", Ptr("pathname")), Put("len", U32("mode"))>>
SymlinkAtSameWord ==
    <<Put("fd", I32("newdirfd")), Put("addr", Ptr("target")), Put("addr", Ptr("linkpath"))>>
SymlinkAt ==
    <<Put("fd", I32("newdirfd")), Put("addr", Ptr("target")),
      Put("addr2", Ptr("linkpath"))>>
LinkAt ==
    <<Put("fd", I32("olddirfd")), Put("addr", Ptr("oldpath")),
      Put("len", I32("newdirfd")), Put("addr2", Ptr("newpath")),
      Put("op_flags", I32("flags"))>>
GetXattr ==
    <<Put("addr", Ptr("name")), Put("len", U32("len")), Put("off", Ptr("value")),
      Put("addr3", Ptr("path"))>>
SetXattr ==
    <<Put("addr", Ptr("name")), Put("len", U32("len")), Put("off", Ptr("value")),
      Put("addr3", Ptr("path")), Put("op_flags", I32("flags"))>>
FGetXattr ==
    AssignFd("fd") \o <<Put("addr", Ptr("name")), Put("len", U32("len")),
      Put("off", Ptr("value"))>>
FSetXattr ==
    AssignFd("fd") \o <<Put("addr", Ptr("name")), Put("len", U32("len")),
      Put("off", Ptr("value")), Put("op_flags", I32("flags"))>>
MsgRingData ==
    <<Put("addr", Const("MSG_DATA")), Put("fd", I32("ring_fd")),
      Put("len", I32("result")), Put("off", U64("user_data")),
      Put("op_flags", U32("opcode_flags")),
      If("user_flags", Put("file_index", U32("user_flags"))),
      If("user_flags", OrIn("op_flags", "MSG_RING_FLAGS_PASS"))>>
\* CancelBuilder: any, user_data or fd, the last of them a descriptor or an index
AsyncCancel2 ==
    <<Unless("by_fd", Put("fd", I32("-1"))), If("by_fd", Put("fd", Target("fd"))),
      If("user_data", Put("addr", U64("user_data"))), If("any", OrIn("op_flags", "CANCEL_ANY")),
      If("by_fd", OrIn("op_flags", "CANCEL_FD")), If("fd", OrIn("op_flags", "CANCEL_FD_FIXED")),
      If("all", OrIn("op_flags", "CANCEL_ALL"))>>
UringCmd16 == AssignFd("fd") \o Command \o <<Put("cmd", CmdBytes(16, 0))>>
UringCmd80 ==
    AssignFd("fd") \o Command \o <<Put("cmd", CmdBytes(80, 0)),
      Put("cmd_upper", CmdBytes(80, 16))>>
Socket ==
    <<Put("fd", I32("domain")), Put("off", I32("socket_type")),
      Put("len", I32("protocol")), Put("op_flags", I32("flags"))>> \o FileIndex
AcceptMulti ==
    AssignFd("fd") \o <<Put("ioprio", Const("ACCEPT_MULTISHOT")),
      Put("op_flags", I32("flags")),
      If("allocate_file_index", Put("file_index", I32("FILE_INDEX_ALLOC")))>>
MsgRingSendFd ==
    <<Put("addr", Const("MSG_SEND_FD")), Put("fd", I32("ring_fd")),
      Put("off", U64("user_data")), Put("addr3", U32("fixed_slot_src")),
      Put("file_index", U32("dest_slot_index")), Put("op_flags", U32("opcode_flags"))>>
SendZc ==
    AssignFd("fd") \o <<Put("addr", Ptr("buf")), Put("len", U32("len")),
      Put("op_flags", I32("flags")), Put("ioprio", U16("zc_flags")),
      If("buf_index", Put("buf_index", U16("buf_index"))),
      If("buf_index", OrIn("ioprio", "FIXED_BUF")), Put("addr2", Ptr("dest_addr")),
      Put("addr_len", U32("dest_addr_len"))>>
SendMsgZc == AssignFd("fd") \o Message \o <<Put("ioprio", U16("ioprio"))>>
ReadMulti ==
    AssignFd("fd") \o <<Put("off", U64("offset")), Put("len", U32("len")),
      Put("buf_group", U16("buf_group")), Put("flags", Const("BUFFER_SELECT"))>>
FutexWait ==
    <<Put("fd", U32("futex_flags")), Put("addr", Ptr("futex")), Put("off", U64("val")),
      Put("addr3", U64("mask")), Put("op_flags", U32("flags"))>>
FutexWake == FutexWait
FutexWaitV ==
    <<Put("addr", Ptr("futexv")), Put("len", U32("nr_futex")),
      Put("op_flags", U32("flags"))>>
WaitId ==
    <<Put("fd", U32("id")), Put("len", U32("idtype")), Put("op_flags", U32("flags")),
      Put("file_index", I32("options")), Put("addr2", Ptr("infop"))>>
FixedFdInstall ==
    <<Put("fd", U32("fd")), Put("flags", Const("FIXED_FILE")),
      Put("op_flags", U32("file_flags"))>>
Ftruncate == AssignFd("fd") \o <<Put("off", U64("len"))>>
SendBundle ==
    AssignFd("fd") \o <<Put("len", U32("len")), Put("op_flags", I32("flags")),
      OrIn("ioprio", "BUNDLE")>> \o BufferSelect \o
      <<Put("buf_group", U16("buf_group"))>>
RecvBundle ==
    AssignFd("fd") \o <<Put("op_flags", I32("flags")),
      Put("buf_group", U16("buf_group"))>> \o BufferSelect \o
      <<OrIn("ioprio", "BUNDLE")>>
RecvMultiBundle ==
    AssignFd("fd") \o <<Put("op_flags", I32("flags")),
      Put("buf_group", U16("buf_group"))>> \o BufferSelect \o
      <<Put("ioprio", Const("RECV_MULTISHOT")), OrIn("ioprio", "BUNDLE")>>
Bind == Connect
Listen == AssignFd("fd") \o <<Put("len", I32("backlog"))>>
RecvZc ==
    AssignFd("fd") \o <<Put("len", U32("len")),
      PutBoth("ioprio", U16("ioprio"), Const("RECV_MULTISHOT")),
      Put("zcrx_ifq_idx", U32("ifq"))>>
EpollWait ==
    AssignFd("fd") \o <<Put("addr", Ptr("events")), Put("len", U32("max_events")),
      Put("op_flags", U32("flags"))>>
ReadvFixed == ReadWrite("iovec") \o <<Put("buf_index", U16("buf_index"))>>
WritevFixed == ReadWrite("iovec") \o <<Put("buf_index", U16("buf_index"))>>
Pipe ==
    <<Put("fd", Const("0")), Put("addr", Ptr("fds")), Put("op_flags", U32("flags"))>> \o
      FileIndex

Builders ==
    [Nop |-> Nop, Readv |-> Readv, Writev |-> Writev, Fsync |-> Fsync,
     ReadFixed |-> ReadFixed, WriteFixed |-> WriteFixed, PollAdd |-> PollAdd,
     PollRemove |-> PollRemove, SyncFileRange |-> SyncFileRange,
     SendMsg |-> SendMsg, RecvMsg |-> RecvMsg, RecvMsgMulti |-> RecvMsgMulti,
     Timeout |-> Timeout, TimeoutRemove |-> TimeoutRemove,
     TimeoutUpdate |-> TimeoutUpdate, Accept |-> Accept, SetSockOpt |-> SetSockOpt,
     AsyncCancel |-> AsyncCancel, LinkTimeout |-> LinkTimeout, Connect |-> Connect,
     Fallocate |-> Fallocate, OpenAt |-> OpenAt, Close |-> Close,
     FilesUpdate |-> FilesUpdate, Statx |-> Statx, Read |-> Read, Write |-> Write,
     Fadvise |-> Fadvise, Madvise |-> Madvise, Send |-> Send, Recv |-> Recv,
     RecvMulti |-> RecvMulti, OpenAt2 |-> OpenAt2, EpollCtl |-> EpollCtl,
     Splice |-> Splice, ProvideBuffers |-> ProvideBuffers,
     RemoveBuffers |-> RemoveBuffers, Tee |-> Tee, Shutdown |-> Shutdown,
     RenameAt |-> RenameAt, UnlinkAt |-> UnlinkAt, MkDirAt |-> MkDirAt,
     SymlinkAt |-> SymlinkAt, LinkAt |-> LinkAt, GetXattr |-> GetXattr,
     SetXattr |-> SetXattr, FGetXattr |-> FGetXattr, FSetXattr |-> FSetXattr,
     MsgRingData |-> MsgRingData, AsyncCancel2 |-> AsyncCancel2,
     UringCmd16 |-> UringCmd16, UringCmd80 |-> UringCmd80, Socket |-> Socket,
     AcceptMulti |-> AcceptMulti, MsgRingSendFd |-> MsgRingSendFd,
     SendZc |-> SendZc, SendMsgZc |-> SendMsgZc, ReadMulti |-> ReadMulti,
     FutexWait |-> FutexWait, FutexWake |-> FutexWake, FutexWaitV |-> FutexWaitV,
     WaitId |-> WaitId, FixedFdInstall |-> FixedFdInstall, Ftruncate |-> Ftruncate,
     SendBundle |-> SendBundle, RecvBundle |-> RecvBundle,
     RecvMultiBundle |-> RecvMultiBundle, Bind |-> Bind, Listen |-> Listen,
     RecvZc |-> RecvZc, EpollWait |-> EpollWait, ReadvFixed |-> ReadvFixed,
     WritevFixed |-> WritevFixed, Pipe |-> Pipe]

-----------------------------------------------------------------------------
(***************************************************************************)
(* An application builds an entry and then sets what belongs to every      *)
(* request: flags, user data and personality.                              *)
(***************************************************************************)
CONSTANTS Ops,          \* the builders the application uses
          LastSlotUsed, \* whether it closes the table slot u32::MAX
          UserFlags,    \* flags it may ask for itself
          UserData,     \* user data values
          Personalities,
          MaxSetters    \* setter calls on one entry

\* "0" stands for the zero of a field that was never set.
ASSUME OpsAssumption ==
    /\ Ops \subseteq DOMAIN Builders /\ LastSlotUsed \in BOOLEAN
    /\ "0" \notin UserData \cup Personalities

VARIABLES op,       \* the builder of the current entry, "none" before the first
          given,    \* its arguments given as Fixed, Some or true
          entry,    \* the bytes of the entry
          asked,    \* what the setters asked for since build
          setters   \* setter calls made

entryVars == <<op, given, entry, asked, setters>>

Zeroed(bytes) == [b \in bytes |-> {}]
NothingAsked == [flags |-> {}, cleared |-> FALSE, user_data |-> "0", personality |-> "0"]

Assignments(o) == {Builders[o][i] : i \in DOMAIN Builders[o]}
\* The arguments of the builder that name a file, and with them all that are a choice.
Targets(o) == {s.arg : s \in {x \in UNION {w.from : w \in Assignments(o)} : x.file}}
Options(o) == Targets(o) \cup UNION {w.needs \cup w.unless : w \in Assignments(o)}

\* The ways to call new() and the optional setters of a builder.
Calls(o) ==
    {c \in SUBSET Options(o) :
        /\ "last_slot" \in c => LastSlotUsed /\ "fd" \in c
        /\ o = "AsyncCancel2" =>
            /\ \E criterion \in {"any", "user_data", "by_fd"} :
                    c \cap {"any", "user_data", "by_fd"} = {criterion}
            /\ "fd" \in c => "by_fd" \in c}

\* build(): every assignment in its order.  A byte holds what the last plain assignment
\* to it stored, or else what it held before, and what was OR-ed in since.
StoreAll(sqe, o, c) ==
    LET B == Builders[o]
        To(b)      == {i \in DOMAIN B : Reached(B[i], c) /\ Writes(B[i], b)}
        Lasting(b) == {i \in To(b) : \A j \in To(b) : j > i => B[j].or}
    IN [b \in DOMAIN sqe |->
           UNION {Stored(B[i], b) : i \in Lasting(b)}
           \cup (IF \A i \in To(b) : B[i].or THEN sqe[b] ELSE {})]

BytesBuilt(o) == IF o = "UringCmd80" THEN Entry128Bytes ELSE EntryBytes

EntryInit ==
    /\ op = "none" /\ given = {} /\ entry = Zeroed(EntryBytes)
    /\ asked = NothingAsked /\ setters = 0

Build(o, c) ==
    /\ op = "none"
    /\ op' = o /\ given' = c
    /\ entry' = StoreAll(Store(Zeroed(BytesBuilt(o)), Put("opcode", Const(o))), o, c)
    /\ asked' = NothingAsked
    /\ setters' = 0

Setter(w) ==
    /\ op # "none"
    /\ setters < MaxSetters
    /\ setters' = setters + 1
    /\ entry' = Store(entry, w)
    /\ UNCHANGED <<op, given>>

SetFlagsAnew(f) ==
    /\ Setter(Put("flags", Const(f)))
    /\ asked' = [asked EXCEPT !.flags = @ \cup {f}]

\* Entry::flags: adds
SetFlags(f) ==
    /\ Setter(OrIn("flags", f))
    /\ asked' = [asked EXCEPT !.flags = @ \cup {f}]

\* Entry::clear_flags: also those the builder set
ClearFlags ==
    /\ Setter(Assign("flags", FALSE, {}, {}, {}))
    /\ asked' = [asked EXCEPT !.flags = {}, !.cleared = TRUE]

SetUserDataOrIn(v) ==
    /\ Setter(Assign("user_data", TRUE, {U64(v)}, {}, {}))
    /\ asked' = [asked EXCEPT !.user_data = v]

\* Entry::user_data and EntryMarker::set_user_data
SetUserData(v) ==
    /\ Setter(Put("user_data", U64(v)))
    /\ asked' = [asked EXCEPT !.user_data = v]

SetPersonality(p) ==
    /\ Setter(Put("personality", U16(p)))
    /\ asked' = [asked EXCEPT !.personality = p]

\* From<Entry> for Entry128
IntoEntry128Dirty ==
    /\ op # "none" /\ DOMAIN entry = EntryBytes /\ setters < MaxSetters
    /\ setters' = setters + 1
    /\ entry' = [b \in Entry128Bytes |-> entry[b % 64]]
    /\ UNCHANGED <<op, given, asked>>

IntoEntry128 ==
    /\ op # "none" /\ DOMAIN entry = EntryBytes /\ setters < MaxSetters
    /\ setters' = setters + 1
    /\ entry' = [b \in Entry128Bytes |-> IF b \in EntryBytes THEN entry[b] ELSE {}]
    /\ UNCHANGED <<op, given, asked>>

\* push copies the entry out (SubmissionQueue); the application builds the next one
Push ==
    /\ op # "none"
    /\ op' = "none" /\ given' = {} /\ entry' = Zeroed(EntryBytes)
    /\ asked' = NothingAsked /\ setters' = 0

EntryNext ==
    \/ \E o \in Ops : \E c \in Calls(o) : Build(o, c)
    \/ \E f \in UserFlags : SetFlags(f)
    \/ ClearFlags
    \/ \E v \in UserData : SetUserData(v)
    \/ \E p \in Personalities : SetPersonality(p)
    \/ IntoEntry128
    \/ Push

EntrySpec == EntryInit /\ [][EntryNext]_entryVars

-----------------------------------------------------------------------------
(* What the entry says to the kernel.                                      *)

Has(field, c) == \E b \in BytesOf(Fields[field]) : <<c, 0>> \in entry[b]

\* The kernel looks argument a up in the table of registered files, and not among
\* the descriptors of the process.
InTable(a) ==
    \/ op = "Close" /\ \E b \in BytesOf(Fields.file_index) : entry[b] # {}
    \/ op = "AsyncCancel2" /\ Has("op_flags", "CANCEL_FD_FIXED")
    \/ op \notin {"Close", "AsyncCancel2"} /\
          IF a = "fd_in" THEN Has("op_flags", "SPLICE_F_FD_IN_FIXED")
          ELSE Has("flags", "FIXED_FILE")

Holds(w) ==
    LET f == Fields[w.field] IN
    \A b \in BytesOf(f) : UNION {ByteOf(s, b - f.offset) : s \in w.from} \subseteq entry[b]

\* The arguments the code narrows, by `as _`: socket addresses are short anyway, the
\* other two lengths are off_t and are cut.
Narrowed ==
    {<<"Fadvise", "len">>, <<"Madvise", "len">>,
     <<"Send", "dest_addr_len">>, <<"SendZc", "dest_addr_len">>}

Arrives(s) ==
    \A k \in s.skip .. (s.width - 1) : \E b \in DOMAIN entry : <<s.arg, k>> \in entry[b]

Given(o) == {w \in Assignments(o) : Reached(w, given)}

\* user_data and personality are the application's: they hold what it set last, and
\* nothing where it set nothing; the flags it asked for are set, and the upper half
\* of an entry of 128 bytes is empty.
SettersAreHonoured ==
    LET Exactly(field, s) ==
            \A b \in BytesOf(Fields[field]) :
                entry[b] = IF s.arg = "0" THEN {} ELSE ByteOf(s, b - Fields[field].offset)
    IN  /\ Exactly("user_data", U64(asked.user_data))
        /\ Exactly("personality", U16(asked.personality))
        /\ \A f \in asked.flags : Has("flags", f)
        /\ op # "UringCmd80" => \A b \in DOMAIN entry \ EntryBytes : entry[b] = {}

\* Whatever the operation keeps in its unions and shared flag words, nothing a
\* builder stored is lost to a later assignment of it or to a setter (its flags
\* after clear_flags excepted), every argument is there with all its bytes, save
\* those named in Narrowed, and so is what the setters were asked for.
EntrySaysWhatWasAsked ==
    op # "none" =>
        /\ \A w \in Given(op) :
              /\ (w.field = "flags" /\ asked.cleared) \/ Holds(w)
              /\ \A s \in w.from :
                    <<op, s.arg>> \in Narrowed \/ w.field = "flags" \/ Arrives(s)
        /\ SettersAreHonoured

\* A target given as Fixed is looked up in the registered table, one given as Fd is a
\* descriptor of the process: whatever else the builder or the caller put in the
\* flag words, save a FIXED_FILE that the caller set by hand.
TargetsAsGiven ==
    op # "none" /\ ~asked.cleared => \A a \in Targets(op) : InTable(a) <=> a \in given
=============================================================================
