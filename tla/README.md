# A formal model of io-uring

This directory holds TLA+ models of the `io-uring` crate (the Rust interface to
Linux io_uring in `src/`), the TLC configurations that check them, and theorems
about them proved with TLAPS. `PROJECT.json` is the index: which definition
stands for which lines, which run checks what, which theorem proves what.

## 1. The system

A ring is two arrays shared by a program and the kernel, each with a head and a
tail index. The program writes submission entries and moves the submission
tail; the kernel reads them and moves the submission head. The kernel writes
completions and moves the completion tail; the program reads them and moves the
completion head. There are no locks: everything rests on the order of loads and
stores of four 32-bit words and a flags word, and on who may touch which slot.

| Part | State it keeps | Operations |
| --- | --- | --- |
| Submission queue, `squeue.rs` | shared head, tail, slots, index array; a handle with its own `head` and `tail` | `borrow`, `push`, `push_multiple`, `sync`, drop, `len`, `is_full`, `need_wakeup` |
| Completion queue, `cqueue.rs` | shared head, tail, slots; a handle with its own `head` and `tail`; a detached `CompletionStatus` | `borrow`, `next`, `fill`, `sync`, drop, `len`, `status`, `CompletionStatus::is_empty` |
| Submitter, `submit.rs` | pointers to the shared words, the registered descriptor | `submit`, `submit_and_wait`, `submit_with_args`, `squeue_wait`, `enter`, about forty `register_*` calls |
| Ring, `lib.rs`, `util.rs` | descriptor, parameters, two or three mappings | `new`, `from_fd`, `build`, `split`, `submission`, `completion`, drop |
| Builder and Parameters, `lib.rs` | flag words | setters, getters |
| Opcode builders, `opcode.rs`; entry types, `types.rs`, `register.rs` | none | conversions into kernel structs |
| Provided buffer ring, `types.rs` | entries and a 16-bit tail in program memory | setters, `tail` |
| Echo server, `examples/tcp_echo.rs` | token and buffer tables, a backlog of entries | an event loop over `split()` |

How they interact. A `SubmissionQueue` or `CompletionQueue` value (a *handle*
below) is a snapshot of the shared indices; it works on its copies, and `sync`
and drop exchange them with the shared words. A `Submitter` never sees a handle:
it reads the shared words itself, so it submits what handles have *published*,
and nothing else. The kernel acts at any moment: inside `io_uring_enter`, on the
polling thread of an `SQPOLL` ring, and whenever a request completes. The borrow
checker (and the contract of the `_shared` functions) keeps handles of one queue
from overlapping, but a handle, a submitter and the kernel may all be at work
together.

What makes each part correct:

| Part | Promise |
| --- | --- |
| Submission queue | a bounded FIFO channel to the kernel: accepted entries arrive once and in order, a refused push changes nothing, no slot in use is stored to; a refused push gets room after syncs |
| Completion queue | a FIFO channel from the kernel: nothing delivered twice or skipped, no unread slot overwritten, what is lost is counted; the status never hides work |
| Submitter | the count covers what is published; no submission sleeps with the polling thread; waits end; completions held back and `IOPOLL` requests come through |
| Registered descriptor | the index used is the one the kernel holds for this ring, or none |
| Setup and teardown | every failure releases exactly what was acquired; mappings outlive their users |
| Resource registration | the kernel's table is what the calls so far say, also when one fails halfway |
| Builder, opcode builders, conversions | values arrive in the field and the encoding the kernel reads |
| Provided buffer ring | a buffer belongs to the program or to the kernel, never to both; publishing leaves entry 0 intact |
| Echo server | a connection has one operation under way and a buffer one owner; the server never sleeps on what it has to hand over |
| Cancellation | what is stopped is what the builder was made to match; errors mean what they say |

What is hard, and where:

- indices run freely and wrap at 2^32; a slot is the index masked;
- a handle's view is stale at once: it may only be stale in the safe direction;
- slots are stored to and read without synchronization of their own;
- `sq_len` is two loads, with the kernel and other callers in between;
- an `SQPOLL` thread falls asleep while the program decides whether to wake it:
  a store and a load on each side, in the order that store buffers break;
- with `NODROP` a full completion ring makes the kernel hold completions back,
  and only a system call with `GETEVENTS` gets them out;
- on an `IOPOLL` ring nothing completes unless somebody polls;
- setup, `dontfork` and registration can fail halfway through, and updates of a
  registered table stop in the middle;
- with `DEFER_TASKRUN`, `COOP_TASKRUN` or `IOPOLL` a finished request completes
  only when the program enters the kernel, for some only with `GETEVENTS`;
- a buffer is used by requests, by tables, by clones of tables and by the kernel,
  and the program must know when none of them does any more;
- an entry is a handful of unions: two assignments of a builder can be to the
  same bytes;
- lengths and tails are 16 or 32 bits, slot numbers are one-based with a reserved
  value.

`PROJECT.json` lists these one by one, each with its line and the properties
that cover it.

## 2. Modules

| Module | Stands for | Kind |
| --- | --- | --- |
| `RingIndex` | wrapping index arithmetic | operators |
| `SubmissionChannel` | what the submission queue promises | abstract specification |
| `SubmissionQueue` | `squeue.rs` next to a consuming kernel | specification |
| `CompletionChannel` | what the completion queue promises | abstract specification |
| `CompletionQueue` | `cqueue.rs` next to a producing kernel | specification |
| `Submitter` | the submit and wait path of `submit.rs` | specification |
| `TaskWork` | the same path on rings that complete lazily, and loops over it | specification |
| `RingFd` | registered ring descriptors | specification |
| `RingLifecycle` | `build`, `from_fd`, `util.rs`, borrows, drop | specification |
| `TcpEcho` | `examples/tcp_echo.rs` over the two channels | specification |
| `BufferPool` | what a provided buffer ring promises | abstract specification |
| `BufRing` | `BufRingEntry` and the program of `register_buf_ring.rs` | specification |
| `FileTable` | registered files, `DestinationSlot` | specification |
| `BufferTable` | registered buffers: tags, updates, clones | specification |
| `Cancellation` | `CancelBuilder`, `register_sync_cancel`, `AsyncCancel`, `AsyncCancel2` | specification |
| `SqeLayout` | where the fields of `io_uring_sqe` lie | operators |
| `Opcodes` | the builders of `opcode.rs`, the setters of an entry, `Entry128` | specification |
| `RecvMsgOut` | `RecvMsgOut::parse` on buffers a kernel fills | specification |
| `MC...` | instances for TLC | model checking |
| `RingIndexTheorems` | algebra of the indices; contents of a stretch of a ring as a sequence | proofs |
| `SubmissionQueueProofs` | invariants and refinement of the submission queue | proofs |
| `CompletionQueueProofs` | invariants and refinement of the completion queue | proofs |
| `SubmitterProofs` | the counts and the wake-up protocol of the submit path | proofs |
| `RingsProofs` | registered descriptors; setup and teardown | proofs |
| `TcpEchoProofs` | the tables and the queue of the echo server | proofs |
| `RegistrationProofs` | cancellation, file tables, buffer tables | proofs |
| `KernelStructsProofs` | invariants and refinement of the buffer ring; message parsing; entries | proofs |

Operators whose names say that they are wrong (`IsFullOffByOne`,
`DropWithoutStore`, `FenceMissing`, ...) are plausible bugs of the definition
next to them. Nothing refers to them; substituting one for the original makes
the run named in `PROJECT.json` fail, which shows that the property is sensitive
to that code.

*Parts.* Some components share no state. Composing them freely would multiply
their states and show nothing more, so `MCRings`, `MCRegistration` and
`MCKernelStructs` explore them one after the other: a variable `part`, constant in
a behaviour, says which component moves while the others stay in an initial
state. Every behaviour of each component is a behaviour of the run.

### Indices

`IndexMod` stands for 2^32 (2^16 for the tail of a provided buffer ring) and
`RingEntries` for `ring_entries`. The only
assumption is that `RingEntries` divides `IndexMod` at least twice, which holds
for every power of two the kernel hands out; masking is then the remainder.
Small values make TLC go through the wrap-around all the time; the proofs
cover every value.

### Submission queue

`kHead`, `kTail` and `sqes` are the memory behind the pointers of `Inner`;
`handle`, `head`, `tail` are the one `SubmissionQueue` value. Each public
operation is one action, except `sync`, which is two (`SyncStore`, then
`SyncLoad`), because the kernel can act between its store and its load. A push
is a single action although it stores a slot and then moves the local tail: the
slot is one the kernel does not read and the local tail is private, so nobody
can see the difference.

The kernel is external. It starts a batch (`KernelBegin`), copies entries out
one by one through the index array (`KernelRead`), and stores the head once
(`KernelCommit`), possibly before the batch is finished. That is both what
`io_uring_enter` and what the polling thread do; the model allows every
interleaving with the handle.

### Completion queue

The mirror image: the kernel fills slots ahead of the shared tail
(`KernelWrite`) and publishes them with one store (`KernelPublish`); a
completion that finds no room goes to `backlog` with `NODROP` and is counted in
`overflow` without it. `fill` pops one entry per step, as its loop does.
`CompletionStatus` is the state function `StatusIsEmpty`: it can be evaluated in
any state, with or without a handle.

The status reads the head (no ordering) before the tail. The head is moved only
by the thread that owns the queue, the same that evaluates the status, so the
two loads are one observation as far as the head goes, and the moment of the
second load is the moment of the observation.

### Submit and wait

`Submitter` reduces the two rings to indices and counts and keeps the control
of the calls: every load of a shared word is a step of its own. Each caller has
its registers (`want`, `seenHead`, `len`, `seenOverflow`, `wake`) and a program
counter that follows the code: `head`, `tail` (`sq_len`), `overflow`
(`sq_cq_overflow` and the flags computed from it), `fence` and `wakeup` on an
`SQPOLL` ring, `enter` (the system call), `wait`. `submit()` is `want = 0`.
`submit_with_args` has the same control and its own copy of the overflow
decision (`NeedSyscallForArgs` next to `NeedSyscallForOverflow`); a call may be
either: it returns without a system call where one of the two says so, and makes
one where one of the two says so.

Memory order: the publisher's stores to the tail pass through a store buffer.
`pushed` is what the publisher has stored, `sqTail` what everybody else sees;
`StoreArrives` moves one to the other, and the `SeqCst` fence and system calls
force it. This is the reordering that the comment in `need_wakeup` discusses,
and the only one that matters there: the handshake is a store followed by a
load, on both sides.

The kernel is external: `EnterSqPoll`, `EnterSubmit`, `EnterFails`, `Collect`,
waiting and flushing, the polling thread (`ThreadTakes`, `ThreadDozes`,
`ThreadRechecks`: set the flag, full barrier, look at the tail once more,
sleep), and `Complete`. Without `SQPOLL` the kernel may take fewer entries than
asked for, and then returns without waiting.

### Task work

`TaskWork` is the same `submit_and_wait`, on a ring without a polling thread, seen
from the question it leaves open: which flags it enters with. A request goes
`idle`, `queued`, `inflight`, `work` (finished, but the work that posts its
completion has not run), `posted`. `Enter` runs the work if `GETEVENTS` is given
or if the setup does not defer it. The code sets `GETEVENTS` for `want > 0`,
`IOPOLL` and an overflow, and never looks at `IORING_SQ_TASKRUN`. Three loops are
modelled: `wait` (`submit_and_wait(1)`), `submit` (only `submit()`), and `peek`
(`submit()` when there is something to submit, and an entry into the kernel when
`taskrun()` says so, as the documentation of `setup_taskrun_flag` has it).
`Triggers` says for which combinations of setup and loop completions must come,
and the property is that they do. For the others they may not, and TLC shows it
if `Triggers` is dropped from the property: a loop over `submit()` alone on a
`DEFER_TASKRUN` ring, and a loop that peeks on a ring without `TASKRUN_FLAG` or
with `IOPOLL`.

### Registered descriptors

`RingFd` has several rings and several `Submitter` values, each on the task that
made it. The kernel's table is per task and its slots are used again. `EnterTarget`
and `RegisterTarget` are what `enter` and `register_ring`/`execute` put into the
system call; on kernels without `REG_REG_RING` the latter keeps the plain
descriptor. Descriptors are numbers the kernel uses again, so a call to a stale
one reaches another ring and is not just an error.

There is no `Drop` for `Submitter`: one that is dropped while registered leaves
its slot taken (`abandoned`), and the ring behind it alive although its `IoUring`
is gone. `SlotsAreAccountedFor` says that this is the only way a slot stays.

### Setup and teardown

`RingLifecycle` makes every system call of `build`, `from_fd`, `Mmap::new` and
`dontfork` a step that may fail, and follows the values `?` drops on the way
out, in the order of the fields: mappings, then descriptor. Lengths are computed
as in `setup_queue` and compared with the kernel's regions and with everything
the `Inner` values reach, for one and for two ring mappings, with and without an
index array (whose offset is then 0), and for both entry sizes.

`from_fd` builds a ring of the small entries whatever the ring behind the
descriptor is; the stride of the entries is then wrong on a ring with `SQE128` or
`CQE32`. The code cannot know, the function is `unsafe`, and nothing is reached
outside the mappings, which is what the property says.

### Echo server

`TcpEcho` is the loop of `main`, with the two queues as the channels of the
abstract specifications plus what the handles of `split()` add: entries are
`staged` until `sync`, room comes back with `sync` (`unseen`), completions are in
view since the last `sync` and given back with the next (`held`). The queue is
tiny, so the backlog is in use, and calls and requests fail.

The loop waits *before* it syncs what it pushed while reaping. It does not sleep
on those entries for a reason that is nowhere written down: the completions it
consumed are given back only by the `sync` after the wait, so the kernel still
counts them and the wait returns at once. `NeverSleepsOnStaged` states this; its
mutant syncs the completion queue at the end of the reaping loop, a tidying that
would make the server hang.

### Provided buffers

`BufRing` has the entries with the tail in the `resv` field of entry 0, the local
tail of `InnerBufRing`, the kernel's own head, and buffers in requests and with the
program (`gbufs`). Pushing and publishing are separate steps, as the kernel may
look in between. `BufferPool` is what it amounts to: buffers are offered in order,
and one that is taken is not offered until it was returned.

### Registered files and buffers

`FileTable` has the kernel's table next to what the program takes it to be
(`view`), which it builds from arguments and results only: whole tables, sparse
ones, updates that stop halfway and say so, and operations that install a file
into a chosen or an automatic slot. `DestinationSlot` is modelled by its
arithmetic over a scaled-down `u32`. One discipline is the program's: nothing keeps
the kernel from picking for an automatic installation the very slot an earlier
request named, so `InstallAnywhere` and `InstallAt` keep the two apart where both
could be on their way to empty slots.

`BufferTable` has tables of several rings, tags, updates, clones with offsets and
requests that hold a buffer after its slot is gone. `Registrable` has a program
that registers a buffer again only after it has read its tag, so a tag it finds is
never an old one. `MayFree` is when it gives memory back; the *careful* program
waits until no table has the buffer and no request uses it, or for the tag of a
buffer that was not cloned.

`Cancellation` runs requests through queue, flight and a worker that cannot be
stopped, with `user_data` that is used more than once and with descriptors and
indices of the same number. A builder carries what it was documented to match
(`meant`) next to what it puts on the wire; the kernel sees the wire only.

### Entries

`Opcodes` writes each of the 74 builders as a list of assignments to the fields of
a zeroed entry, in the order of its `build`. `SqeLayout` says which bytes a field
is. A byte of an entry is the set of argument bytes that went into it, so that an
assignment that undoes another, a field that shares bytes with another and a cast
that drops the top of an argument all show, and nothing else about a value is
kept. `StoreAll` says what a whole list leaves in a byte: what the last assignment
that replaces the byte stored, and what was OR-ed in after it. The properties hold
after `build`, after up to three
setters in any order, and after the conversion to `Entry128`. `clear_flags` clears
what the builder put there, as its documentation warns, and is the one exception
`EntrySaysWhatWasAsked` makes.

`RecvMsgOut` lets a kernel fill buffers that are used again, with messages longer
and shorter than their fields, and parses them, also with the wrong `msghdr`:
`parse` is safe to call.

## 3. Runs

| Run | Question | Instance |
| --- | --- | --- |
| `submission_queue` | Is the submission ring a bounded FIFO channel, whatever interleaves? Is a live slot ever overwritten? Does a refused push get room if the program keeps syncing? | 4 slots, indices mod 8, 2 entries, batches up to 5 |
| `completion_queue` | Are completions delivered in order and once, through ring and backlog, and losses counted? Does the status hide work? Does everything published get consumed? | 2 slots, indices mod 8, backlog up to 1, `fill` up to 3 |
| `cq_status_doc` | Is the status empty whenever everything posted is consumed, as documented? (No.) | 2 slots |
| `sqpoll` | Can the thread sleep on a submission a returned call handed over? Is it taken, is a wait answered, do completions held back get out? | 1 caller, up to 4 requests, rings of 2, store buffers |
| `submit_concurrently` | Does a call that is taken in full leave nothing behind when two threads submit? | 2 callers, no thread, up to 3 requests, rings of 2 |
| `echo` | Does the echo server keep its tables and its queue in order when everything is full and everything may fail? | 2 connections, queue of 2, sends in up to two parts |
| `echo_backlog` | Does every entry go from the backlog to the queue? (No.) | 3 connections, queue of 2 |
| `echo_long_message` | Is all of a message sent before the connection listens again? (No.) | 1 connection, queue of 2, a message in up to three parts |
| `rings` | Does every call reach its own ring? Does setup leak or map too little? Which loops get their completions? | 2 rings, 3 submitters, 2 tasks; all ring layouts; all setups with 3 loops and 3 requests |
| `kernel_structs` | Is the buffer ring a pool, with one owner for each buffer? Does a parsed message show what arrived, and say what was cut? Does an entry say what was asked? | 4 entries, 3 buffers, tail mod 8; lengths up to a `usize` of 12 values; 73 builders with all choices of arguments, 3 setters |
| `registration` | Does the program know its tables, does it free memory in use, does it stop what it meant to? | 3 files, tables up to 4, `u32::MAX` = 4; 2 rings, 2 buffers, 1 request; 2 requests, 2 `user_data`, 2 numbers |
| `sqe_read_multi` | Is a `Fixed` target of `ReadMulti` a fixed file? (No.) | one builder |

Why the bounds are enough. The rings are small so that they are full, empty and
wrapped in most states; `IndexMod` is at least two turns of the ring, the least
the arithmetic allows, and four in `completion_queue`, whose head and tail wrap
independently of who holds the slots. Batches and `fill` slices go one beyond the
ring, so both outcomes occur. Two entries suffice to tell orders apart. `MaxWork`
exceeds the slots of both rings in `Submitter`, so that rings fill and completions
overflow; `MaxWant` covers a call that waits and one that does not. `MaxWork` bounds
what the program has outstanding, never what the kernel does.

In `echo` every `push` while reaping competes for two slots, and with two
connections the third entry goes to the backlog; `MaxLen` 2 is a send that goes out
in two parts. `WritersListenAgain` says that sending ends, not that all is sent by
then; that is `EchoIsComplete`, which holds for two parts and not for three
(`echo_long_message`, with one connection and nothing failing, so that the parts are
all that matters). Three submitters over two rings and two table slots per task are the
least for which a slot can be freed and taken by a submitter of another ring while
the first one lives. In `registration` the tables reach `MaxU32`, so that the last
slot and the reserved value are hit, and there is one file more than automatic
installations under way. One request on a buffer is enough, since requests meet only
through the buffers they hold. `MCMsgHdrs` has one `msghdr` whose lengths overflow,
one that fits exactly, one that does not fit, and two that leave room.
`TableSizes`, `MaxPending`, `MaxTable`, `QueueLen`, `MaxSequence`, `MaxSetters`,
`MaxBundle` and `MaxRegistrations` are bounds on the program.

Symmetry is used in `registration` only, over requests, files and buffers, for
invariants and action properties; none of its properties is a liveness property.

Deadlock is checked in every run but two. The echo server stops when a call
fails for good or nothing is left in the kernel, and a program on a buffer ring
may unregister it and be done (`CHECK_DEADLOCK FALSE` in `EchoServer.cfg` and
`KernelStructs.cfg`). Everywhere else the program can always make another call.

### Disagreements found

*`CompletionStatus::is_empty`* is documented to return `true` if the kernel "has
posted no completions beyond those already consumed". It compares the *shared*
head, which a handle stores only in `sync` or drop. While a handle has consumed
everything and is still alive, the status says there is work
(`cq_status_doc` gives the trace). In the other direction it is right:
`StatusNeverMissesWork` holds, and is proved.

*The backlog of the echo server* (`tcp_echo.rs:94`) ignores the result of the push
for an entry it has popped. Usually there is room, since a full queue is submitted
first. With three connections on a queue of two there need not be, and the entry
and its connection are lost (`echo_backlog`).

*A message in three parts* (`tcp_echo.rs:198`). After a partial send the server keeps
the length of the rest and the offset in the whole, and compares the two after the
next. With three parts the end comes too early: the connection listens again while
it owes a byte (`echo_long_message`).

*`ReadMulti`* (`opcode.rs:1955`) assigns the flags of the entry after the target
has put `FIXED_FILE` into them. An index into the file table is then read as a
descriptor (`sqe_read_multi`). The other five builders with a buffer group add
their flag.

### Seen by changing a constant

These are not runs of their own; each is reproduced by one change to a
configuration, and the run that would show it is named.

- *An `EBUSY` in the backlog loop* sends the server on with entries in its backlog;
  if nothing else stirs it sleeps on them. `WritersListenAgain` excepts this case by
  name (`GivenUp`).
- *A buffer ring registered again* starts with the kernel's head at 0 and the local
  tail where it was: `BuffersOwnedOnce` fails for `MaxRegistrations = 2` in
  `kernel_structs`. The test registers a ring twice
  in a row (`register_buf_ring.rs:540-544`), but uses it only after a single
  registration.
- *Bundles.* `get_bufs` counts up from the first buffer id. After buffers came back
  in another order this is not what the kernel filled: `BundleIsWhatWasFilled` fails
  for `MaxBundle = 2`. The test uses bundles on a ring whose buffers are in their
  first order.
- *Closing the last slot.* `Close` on a `Fixed` target adds one to the index; for
  `u32::MAX` this wraps in a build without overflow checks and the entry says `fd`
  0: `TargetsAsGiven` fails with `LastSlotUsed = TRUE` and `Ops = {"Close"}`.
- *Lengths cut.* `Fadvise` and `Madvise` take a `libc::off_t` and store 32 bits;
  `Send` and `SendZc` store 16 bits of an address length that never needs more.
  They are named in `Narrowed`, the only builders that are.
- *Freeing as documented.* `register_buffers` says its buffers must stay valid "until
  buffers are unregistered". With requests in flight or clones this is too early:
  `FreedBuffersAreUnused` fails with `Discipline = "documented"`.
- *A partial `register_buffers_update`* returns success; the count is dropped, and
  the program takes slots for filled that are not. No property is stated about
  `Partial = TRUE`, since the program has no way to know.

## 4. Fairness

- `SubmissionQueue!FairSpec`: the kernel keeps consuming what is published, and
  the program keeps borrowing and syncing, as the retry loops in
  `tcp_echo.rs:82-98` and `tests/sqpoll.rs:55-57` do. Nothing is assumed of pushes
  or drops.
- `CompletionQueue!FairSpec`: the program keeps borrowing, finishes a `fill`,
  finishes a `sync`, and iterates whenever it again and again has entries in
  sight (strong fairness, since a handle may be dropped unlooked at). The kernel
  is not assumed fair.
- `Submitter!FairSpec`: store buffers drain, a function that was called runs,
  the thread runs while awake, requests complete. Nothing makes the program call
  again, and system calls may fail. `Complete` gets strong fairness because on an
  `IOPOLL` ring it is enabled only while somebody polls. `OverflowKeepsDraining`
  carries in its premise the loop it is about (`LoopFairness`): one that keeps
  calling and reaping, and whose system calls do not fail every time.
- `TaskWork!Fairness`: the loop keeps turning, every request finishes, a task that
  waits is woken when there is work. What the properties turn on - whether the work
  runs - is not assumed; it follows, or not, from the flags of the calls.
- `TcpEcho!FairSpec`: the thread runs, the first `submit_and_wait` of a round is not
  refused for ever (strong fairness: `EBUSY` in between is allowed), and a send that
  was submitted is taken by its client. Clients need not connect or talk.
- `MCKernelStructs!FairPartsSpec`: the program finishes a push and a sync once begun,
  reaps what completed, and drops the oldest buffer it holds.

## 5. Proofs

The theorems hold for every value of the constants, under the named assumptions
of the modules; two of the buffer ring, one of the buffer tables and two of the
entries have further hypotheses, given with them below, because the property is
false of the code without them. What is assumed of the constants:

- `RingAssumption`: the ring size divides the index modulus, at least twice.
- `QueueAssumption`: `NoEntry` is no entry, `NoSqArray` a Boolean, the batch a
  number, and likewise for the completion queue.
- `SubmitterAssumption` types the bounds and says that the publisher is a caller.
- `RingFdAssumption`: descriptors and slots are numbers, and the values for "none"
  are no ring and no task.
- `SizesAssumption`: a completion queue has at least as many entries as a
  submission queue, and that at least one. The kernel refuses anything else.
- `EchoAssumption`: finitely many connections; the depth of the queue, of the
  accepts and the parts of a send are at least one.
- `CancellationAssumption` types `user_data` and descriptors and has a queue with
  room for an entry. `TablesAssumption`: the reserved values are no files, tables are
  not empty, and the integers that name a slot have at least three values.
- `BufRingAssumption`: no more buffers than entries. `RecvMsgAssumption`: lengths of
  buffers and fields are of the type `usize`, of any width. `OpsAssumption`: the
  builders used are those of `opcode.rs`, and "0", which stands for a field that was
  never set, is no user data or personality.

**Indices** (`RingIndexTheorems`). Advancing and measuring distances are inverse
(`AddDistance`, `AddTwice`, `DistanceGrows`), and positions within one turn lie
in different slots also across the wrap-around (`SlotsDistinct`). The last one is where it is
needed that the ring size divides 2^32.

**Submission queue** (`SubmissionQueueProofs`). `IndicesInOrder` is not
inductive: a push is justified by the handle's `head`, which is stale, so the
invariant must say how a stale head relates to the real one. `HandleView` does:
the distance from the real head to the local tail plus the distance from the
stale head to the real one is the handle's `len()`, and that never exceeds the
ring. `IInv == TypeOK /\ IndicesInOrder /\ HandleView` is inductive, and
`TypeCorrect`, `OrderCorrect` and `LenCorrect` follow. `LiveSlotsCorrect` (no
live slot is ever stored to) adds the fact that a position at or after the tail
and a live position lie in one turn, hence in different slots.

**Refinement** (also in `SubmissionQueueProofs`). `QueueIsChannel` is
`Spec => ImplementsChannel`: the slots between the three indices are the staged
and published entries. The proof speaks of spans of the ring, with three lemmas
(a span is a sequence, two adjoining spans concatenate, a span has a head and a
tail), shows that no step changes a span in use, and then goes through the
actions: push is `Stage`, the store in sync and drop is `Publish`, `KernelRead`
is `Take`, `KernelCommit` is `Release`, the rest stutters.

**Submit and wait** (`SubmitterProofs`). The inductive invariant is
`TypeOK /\ Counts /\ WakeUp`, and `TypeCorrect`, `LenCorrect`, `WakeUpCorrect` and
`FullSubmitCorrect` follow for any number of callers.

`Counts` is about `sq_len`. `TailsInOrder` puts the head, the tail in memory and
the tail in the publisher's store buffer in order within one turn of the ring;
`SeenHeadBehind` relates the head a caller has loaded to the real one while the
second load is still to come, the same device as `HandleView` above. Together
they give `LenCoversPublished`: entries the kernel takes between the two loads
make the count too large, never too small. `FullSubmitCorrect` follows because
the kernel can take at most what is published.

`WakeUp` is about the handshake. `NoLostWakeup` is not inductive, because what is
owed (`due`) is decided by the return of a call, long after the fence that makes
it safe. `FlagIsUp` says that a thread which is not polling has its flag up.
`FencedIsSeen` says what a publisher may rely on between the fence and its
return: its stores are in memory, and if it has read the flag as down and still
enters the kernel, a thread that is no longer polling has nothing to take.
`DueIsSeen`, stronger than `NoLostWakeup`, says that what is owed is visible in memory and
the thread is awake, so the thread finds it before it can set the flag again.

**Completion queue** (`CompletionQueueProofs`). Here `TypeOK /\ IndicesInOrder`
is inductive as it stands: a handle's stale *tail* errs on the safe side and its
head is the program's own, so nothing has to be said about distances to stale
values. `StatusCorrect` and `UnreadCorrect` follow; the latter again from positions
within one turn lying in different slots. `QueueIsChannel` maps the span between
the program's head and the kernel's tail, followed by the backlog, to the channel's
contents: a completion written is `Post`, one that finds no room is `Post` too or
`Lose`, a `pop` is `Deliver`, and moving a completion from the backlog to the ring
changes nothing. `RingIndexTheorems` holds
what the refinements share.

**Registered descriptors** (`RingsProofs`). `CallsReachOwnRing` is not inductive:
a slot the kernel hands out must not be remembered by anyone else. `IInv` adds that
different open rings have different descriptors, that a live submitter's ring is
open, and that every index remembered is held for its ring, and
`SlotsAreAccountedFor`: held by nobody else, and not abandoned. The
borrow checker enters as the guard of `DropRing`.

**Setup and teardown** (`RingsProofs`). `LifeInv` says for every value of the program
counter which mappings exist (`MapsAsBuilt`) and which of them were advised
(`AdviceGiven`): the three properties only look at the descriptor being gone and at
a ring that is live, and say nothing of the steps in between, where a failing call
must undo exactly what was done. `LifeLeaksNothing` and `LifeKeepsFromChildren` follow.
For `LifePointersInside` the lengths of the mappings, written as the code computes
them, are compared with the last byte each queue dereferences, for all ring sizes,
with one mapping or two, with wide and narrow entries.

**Echo server** (`TcpEchoProofs`). `IInv` relates the token table to everything that
mentions a token: a request waits in one of four places (`EntriesApart`: backlog,
queue, ring, kernel), is what its token describes and is not complete (`RequestsOK`);
a completion has a live token and is that token's only one (`CompletionsOK`); a
connection accepted but not seen yet is in one completion and in no token
(`NewConnections`); a buffer is in the pool or with the token that reads or writes
(`BuffersOK`). None of these is inductive without the others: that a slot of the slab
which is given out again has no old request depends on all of them. `OneRequest` and
`BuffersAreOwnedOnce` follow for any number of connections and slots and any pattern
of failing calls. `EchoStaysAwake` rests on `StagedIsHeld`: what was pushed while
reaping was pushed for a completion that is still held.

**Cancellation** (`RegistrationProofs`). `CancelInv` only types the requests and the
queue; the work is in the step. `CancellationStops` shows for each way to build a
criterion that what it puts on the wire means to the kernel what its constructor
documents, so that a step which stops requests stops only those, and all of them if
asked to. `CancellationErrors` is the same for what `register_sync_cancel` returns:
`NotFound` when nothing matches, `ETIME` only out of the wait of a caller that gave a
timeout, a wait that begins only when a match is running.

**File tables** (`RegistrationProofs`). `FileTableIsKnown` holds through an update that
stops half way only because the view is advanced by the returned count, and through an
installation only because nothing else is on its way to the same slot: `AskedOnce`
and `FilledOnce` say so for chosen and for automatic slots, `KindsApart` that the two
kinds do not meet in an empty slot. `PendingOK` carries the arithmetic of
`DestinationSlot`: what is passed is the slot plus one, or the value for automatic.

**Buffer tables** (`RegistrationProofs`). `TagInv` says that all places that hold a
buffer, table slots and requests, have at most one that is not a clone
(`OneOriginal`), that a clone has no tag and that a tag is its buffer's own. So the
tag can come only when that one is gone (`TagsMeanUnused`). `FreedAreUnused` assumes
`Discipline = "careful"` and `Partial = FALSE`: with the discipline of the
documentation the property is false, and after a partial update the program cannot
know its table (both in section 3). It adds that the program's view is the table.

**Provided buffers** (`KernelStructsProofs`). `RingInv` puts the kernel's head, the
published tail and the local tail in order within one turn (`TailsInOrder`), and says
of each buffer that it is in one place: one entry between the head and the local
tail, one push under way, one request or one `GBuf` (`OnePlaceEach`). That entries do
not repeat is what makes the wrapping tail harmless: with no more buffers than
entries the distance never exceeds the ring. `BuffersAreOwnedOnce` follows, and
`RingIsPool`, where the span between the head and the published tail is the pool's
sequence: publishing is a `Give` of all buffers pushed since the last one. Both assume
`MaxRegistrations <= 1` and `MaxBundle = 1`; for a ring registered again, and for
requests that take bundles, they are false (section 3).

**Messages** (`KernelStructsProofs`). `ReceivedInv` says what is in a buffer between
the kernel's filling it and the program's giving it back: the fields fit
(`Fits`), the header tells each length or what is left of it (`HeaderTells`), each
field begins with the bytes of this message (`BytesThere`); and what was parsed is
what `parse` would still return (`OutOK`). The lemma `ParsesInside` needs none of
this: it holds for any bytes and any `msghdr`, from the one test in `parse` and its
checked additions. `SlicesShow` and `TruncationTold` follow for buffers, fields
and messages of all lengths, and for a `usize` of any width.

**Entries** (`KernelStructsProofs`). Proved in three layers.
First the table: a lemma per builder writes its assignments out (`SendZcRows`), and a
second (`SendZcIsSound`) shows that they are sound: none goes to the opcode or to a
field of the application (`OwnFields`), a plain assignment shares no byte with an
earlier one made in the same call (`Kept`), each field has room for its source, or
another assignment stores the rest (`HasRoom`), and a target that can be `Fixed` is
marked in the bit where the kernel looks for it, by nothing else (`TargetsMarked`).
`BuildersAreSound` collects 73 of them; `ReadMulti` is not `Kept`. Then, from soundness alone
and for a list of any length, what `build` leaves in a byte: all that was assigned to
it (`BuiltHolds`) and nothing else (`BuiltOnly`). Last the setters: `EntryInv` says of each
byte after any number of setters, and after the conversion to `Entry128`, that it is
as built (`BuiltPart`), or holds the flags built and asked for (`FlagsPart`), or
what was last set (`UserPart`). Neither property is inductive without it, since
each looks at bytes that come from the builder through setters that write next to
them.

`EntriesSayWhatWasAsked` assumes only that `ReadMulti` is not used, for any flags, user data
and personalities and any number of setters. `TargetsAreAsGiven` also assumes that
`Close` is not asked for the slot `u32::MAX` (section 3), and that the program does not
set `FIXED_FILE` itself: it could, but the flag is hidden from the documentation
(`squeue.rs:119`), and an entry that has it names a fixed file whatever the builder
was given.

### Only model-checked

- Everything under fairness (`RefusedPushGetsRoom`, `PublishedIsConsumed`,
  `SubmittedIsTaken`, `WaitReturns`, `OverflowKeepsDraining`, `SubmittedIsReaped`,
  `WritersListenAgain`, `BuffersComeBack`): liveness is out of the prover's reach.
Every other property of a passing run, so every invariant and every refinement, is
stated by a theorem.

## 6. What is not modelled

- *Kernel bindings.* Five generated `sys_*.rs` files are 73% of the lines of the
  implementation: constants, structs without behaviour and assertions about their
  layout, the same for five architectures. The one thing in them a property here
  depends on is the layout of `io_uring_sqe`, and `SqeLayout` has it (x86_64). The
  rest is data, and no line of it is claimed.
- *System calls* (`sys/mod.rs`): three calls and the translation of their results.
  What they do appears as external actions of the other modules.
- *Builder and Parameters.* The flags that change what the crate or a program must
  do are state of `Submitter`, `TaskWork` and `RingLifecycle`. The other setters and
  getters store or test one bit that only the kernel looks at.
- *Registration calls without state*: eventfd, probe, personality, restrictions,
  io-wq affinity and workers, NAPI, zero-copy receive queues. They pass an argument
  on and keep nothing.
- *Plain data*: `SubmitArgs`, `Timespec`, `OpenHow`, `EpollEvent`, `FutexWaitV`, flag
  sets, formatting.
- *`sqe_read_multi`, `Close` on the last slot* are kept out of `kernel_structs` and dealt
  with on their own, as above.
- *Tests and benchmarks* were read for how the API is used. The program of
  `register_buf_ring.rs` is modelled with its component.
- *Weak memory* beyond the store buffers of `Submitter`: the queues are modelled with
  atomic loads and stores of their indices, and slots that are written before the
  release store that publishes them. What the acquire and release pairs order is
  taken from there, not derived.

## 7. Plan

Done: the queues, the submit path, task work, registered descriptors, setup and
teardown, registered tables, cancellation, builders, message parsing, buffer
rings, the echo server, and proofs of the safety properties of all of them. Left:

1. `Submitter` composed with the queues instead of counts, for programs that submit
   without syncing first.
2. Bundles: `RingInv` for requests that take several buffers, with what `get_bufs`
   may assume of their order in place of `MaxBundle = 1`.
3. The loops of `TaskWork`: which completions a call must flush, as a safety property
   between calls that does not need fairness.
