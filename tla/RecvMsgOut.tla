----------------------------- MODULE RecvMsgOut -----------------------------
(***************************************************************************)
(* types::RecvMsgOut: taking apart the buffer a multishot recvmsg filled.   *)
(*                                                                         *)
(* The kernel lays a message out in a buffer as a header, a field for the   *)
(* name, a field for the control data and the payload.  The fields have the *)
(* lengths of the msghdr of the request, whatever arrived, and the header   *)
(* gives lengths that may be those before truncation.  Buffers are used     *)
(* again as they are, so what a message did not fill holds bytes of the     *)
(* messages before it.  The name is taken without its padding.             *)
(***************************************************************************)
EXTENDS Integers, Sequences, FiniteSetsExt

CONSTANTS Buffers,      \* the provided buffers
          BufferLen,    \* their lengths in bytes
          DataStart,    \* size_of::<io_uring_recvmsg_out>()
          UsizeMod,     \* the number of values of a usize
          MsgHdrs,      \* msghdrs used: records of namelen, controllen
          Messages,     \* messages that arrive: records of name, control, payload
          MaxSequence   \* the numbers that tell messages apart

VARIABLES msghdr,   \* of the request that is armed
          memory,   \* the buffers: a header and the bytes behind it
          sent,     \* what each filled buffer holds; NoMessage: it is the kernel's
          number,   \* of the next message
          out       \* the RecvMsgOut parsed last, with the buffer it borrows

vars == <<msghdr, memory, sent, number, out>>

NoMessage == [name |-> -1, control |-> -1, payload |-> -1, number |-> 0]
NoHeader  == [namelen |-> 0, controllen |-> 0, payloadlen |-> 0, flags |-> {}]

Parts == {"name", "control", "payload"}

\* A byte of a message, told apart by where it comes from.
Byte(part, i, n) == <<part, i, n>>
Stale == Byte("none", 0, 0)

Room(b) == Max({BufferLen[b] - DataStart, 0})

Err == [ok |-> FALSE]

NotParsed == [parsed |-> Err, buffer |-> -1, delivered |-> FALSE]

-----------------------------------------------------------------------------
(* parse.                                                                  *)

\* checked_add: Overflow stands for None.
Overflow == UsizeMod
CheckedAdd(x, y) == IF x + y < UsizeMod THEN x + y ELSE Overflow

WrappingAdd(x, y) == (x + y) % UsizeMod

\* The test of the length: the buffer holds the header and both fields.
TooSmallWrapping(len, hdr) ==
    len < WrappingAdd(WrappingAdd(DataStart, hdr.namelen), hdr.controllen)

TooSmallOrExact(len, hdr) ==
    len <= CheckedAdd(CheckedAdd(DataStart, hdr.namelen), hdr.controllen)

TooSmall(len, hdr) ==
    len < CheckedAdd(CheckedAdd(DataStart, hdr.namelen), hdr.controllen)

\* Extents are half open, counted from the start of the buffer.
Extent(from, to) == [from |-> from, to |-> to]

NameExtentUntruncated(header, hdr) ==
    Extent(DataStart, DataStart + header.namelen)

NameExtent(header, hdr) ==
    Extent(DataStart, DataStart + Min({header.namelen, hdr.namelen}))

ControlStart(hdr) == DataStart + hdr.namelen

ControlExtentPacked(header, hdr) ==
    LET start == NameExtent(header, hdr).to
    IN  Extent(start, start + Min({header.controllen, hdr.controllen}))

ControlExtent(header, hdr) ==
    Extent(ControlStart(hdr),
           ControlStart(hdr) + Min({header.controllen, hdr.controllen}))

PayloadStart(hdr) == ControlStart(hdr) + hdr.controllen

PayloadExtent(len, header, hdr) ==
    Extent(PayloadStart(hdr),
           PayloadStart(hdr) + Min({header.payloadlen, len - PayloadStart(hdr)}))

Parse(b, hdr) ==
    IF TooSmall(BufferLen[b], hdr)
    THEN Err
    ELSE LET header == memory[b].header
         IN  [ok      |-> TRUE,
              header  |-> header,
              namelen |-> hdr.namelen,
              name    |-> NameExtent(header, hdr),
              control |-> ControlExtent(header, hdr),
              payload |-> PayloadExtent(BufferLen[b], header, hdr)]

\* is_name_data_truncated, is_control_data_truncated, is_payload_truncated.
NameTruncated(o)    == o.header.namelen > o.namelen
ControlTruncated(o) == "MSG_CTRUNC" \in o.header.flags
PayloadTruncated(o) == "MSG_TRUNC" \in o.header.flags

-----------------------------------------------------------------------------

Init ==
    /\ msghdr \in MsgHdrs
    /\ memory = [b \in Buffers |-> [header |-> NoHeader,
                                    bytes  |-> [i \in 1 .. Room(b) |-> Stale]]]
    /\ sent = [b \in Buffers |-> NoMessage]
    /\ number = 1
    /\ out = NotParsed

\* The kernel (external) takes a message into a buffer it owns, if the buffer
\* holds the header and both fields (it completes with an error otherwise).
\* It reports the true length of the payload when asked to (MSG_TRUNC).
Fits(b) == DataStart + msghdr.namelen + msghdr.controllen <= BufferLen[b]

FieldOf(i) ==
    IF i <= msghdr.namelen THEN "name"
    ELSE IF i <= msghdr.namelen + msghdr.controllen THEN "control" ELSE "payload"

Before(part) ==
    CASE part = "name"    -> 0
      [] part = "control" -> msghdr.namelen
      [] part = "payload" -> msghdr.namelen + msghdr.controllen

Receive(b, m, whole) ==
    LET space == Room(b) - Before("payload")
        Written(i) ==
            LET part == FieldOf(i)
                k    == i - Before(part)
            IN  IF k <= m[part] THEN Byte(part, k, number) ELSE memory[b].bytes[i]
    IN  /\ sent[b] = NoMessage
        /\ Fits(b)
        /\ memory' = [memory EXCEPT ![b] =
             [header |-> [namelen    |-> m.name,
                          controllen |-> Min({m.control, msghdr.controllen}),
                          payloadlen |-> IF whole THEN m.payload ELSE Min({m.payload, space}),
                          flags      |->
                            {f \in {"MSG_CTRUNC", "MSG_TRUNC"} :
                                \/ f = "MSG_CTRUNC" /\ m.control > msghdr.controllen
                                \/ f = "MSG_TRUNC" /\ m.payload > space}],
              bytes  |-> [i \in 1 .. Room(b) |-> Written(i)]]]
        /\ sent' = [sent EXCEPT ![b] = [name |-> m.name, control |-> m.control,
                                        payload |-> m.payload, number |-> number]]
        /\ number' = (number % MaxSequence) + 1
        /\ UNCHANGED <<msghdr, out>>

\* The application parses a buffer with the msghdr of the request or, by
\* mistake, any buffer with any msghdr: parse is a safe function.
ParseBuffer(b, hdr) ==
    /\ out' = [parsed    |-> Parse(b, hdr),
               buffer    |-> b,
               delivered |-> sent[b] # NoMessage /\ hdr = msghdr]
    /\ UNCHANGED <<msghdr, memory, sent, number>>

\* It gives the buffer back once no RecvMsgOut borrows it any more.
GiveBack(b) ==
    /\ sent[b] # NoMessage
    /\ sent' = [sent EXCEPT ![b] = NoMessage]
    /\ out' = IF out.buffer = b THEN NotParsed ELSE out
    /\ UNCHANGED <<msghdr, memory, number>>

\* The request ends and is armed again, with a msghdr of other lengths.
Rearm(hdr) ==
    /\ \A b \in Buffers : sent[b] = NoMessage
    /\ msghdr' = hdr
    /\ UNCHANGED <<memory, sent, number, out>>

Next ==
    \/ \E b \in Buffers, m \in Messages, whole \in BOOLEAN : Receive(b, m, whole)
    \/ \E b \in Buffers, hdr \in MsgHdrs : ParseBuffer(b, hdr)
    \/ \E b \in Buffers : GiveBack(b)
    \/ \E hdr \in MsgHdrs : Rearm(hdr)

Spec == Init /\ [][Next]_vars

-----------------------------------------------------------------------------
(* Properties.                                                             *)

Extents(o) == {o.name, o.control, o.payload}

\* No slice reaches outside the buffer.
SlicesInsideBuffer ==
    \A e \in Extents(out.parsed) :
        /\ DataStart <= e.from
        /\ e.from <= e.to
        /\ e.to <= BufferLen[out.buffer]

\* The bytes of a part that a slice shows.
Shown(e) ==
    [i \in 1 .. e.to - e.from |-> memory[out.buffer].bytes[e.from - DataStart + i]]

Arrived(part, k) ==
    [i \in 1 .. k |-> Byte(part, i, sent[out.buffer].number)]

\* parse never makes a slice that reaches outside the buffer it was given, whatever
\* the bytes in it say and whichever msghdr it was given.  It takes every buffer the
\* kernel delivered, given the msghdr of its request, and then each slice shows the
\* part it is named for, from its first byte on, of the message in the buffer, and
\* no byte that an earlier message left there.
SlicesShowTheMessage ==
    /\ out.parsed.ok => SlicesInsideBuffer
    /\ out.delivered =>
         /\ out.parsed.ok
         /\ \A part \in Parts :
              LET e == out.parsed[part] IN Shown(e) = Arrived(part, e.to - e.from)

\* A slice is shorter than what arrived exactly when the method that tells so
\* says that this part was truncated.
TruncationIsReported ==
    (out.delivered /\ out.parsed.ok) =>
        LET o == out.parsed
            m == sent[out.buffer]
            Cut(part) == o[part].to - o[part].from < m[part]
        IN  /\ NameTruncated(o) <=> Cut("name")
            /\ ControlTruncated(o) <=> Cut("control")
            /\ PayloadTruncated(o) <=> Cut("payload")

=============================================================================
