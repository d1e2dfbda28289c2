----------------------------- MODULE BufferTable -----------------------------
(***************************************************************************)
(* The tables of registered buffers of the rings of an application: the    *)
(* calls of submit.rs that create, change, clone and drop them, requests   *)
(* that run on a slot, and the moment the application may give the memory  *)
(* of a buffer back.  A request keeps the buffer it started with; a tag    *)
(* announces, by a completion, that nothing uses the buffer any more.      *)
(***************************************************************************)
EXTENDS Integers, Sequences, FiniteSets, SequencesExt

CONSTANTS Rings, Bufs, Requests,
          MaxTable,     \* entries of the largest table
          Partial,      \* the kernel may stop an update before its end
          Discipline    \* when it frees a buffer: "documented" or "careful"

VARIABLES table,     \* the kernel's table of each ring
          view,      \* what the application takes it to be
          inFlight,  \* the buffer node each request runs on
          tagCqes,   \* tags posted and not read yet
          announced, \* buffers whose tag the application has read
          freed      \* buffers whose memory it has given back

vars == <<table, view, inFlight, tagCqes, announced, freed>>

NoTag == "no tag"

\* What a slot or a request holds on to: a buffer as registered in a ring with a tag,
\* or as cloned into it.
Node(r, b, tag) == [ring |-> r, buf |-> b, tag |-> tag, clone |-> FALSE]
\* a slot without a buffer, a request that is not in flight
Empty == Node("no ring", "no buffer", NoTag)
Idle  == Empty
Cloned(r, n) == IF n = Empty THEN Empty
                ELSE [ring |-> r, buf |-> n.buf, tag |-> NoTag, clone |-> TRUE]

NodesIn(t) == {t[i] : i \in DOMAIN t} \ {Empty}
HeldBy(tables, requests) ==
    (UNION {NodesIn(tables[r]) : r \in Rings}) \cup ({requests[q] : q \in Requests} \ {Idle})
BufsIn(t) == {n.buf : n \in NodesIn(t)}

\* The kernel posts the tag of a node when the last hold on it goes.
Settle(tables, requests) ==
    /\ table' = tables
    /\ inFlight' = requests
    /\ tagCqes' = tagCqes \cup
            ({n.tag : n \in HeldBy(table, inFlight) \ HeldBy(tables, requests)} \ {NoTag})

\* An application registers memory it has, in one place of one table.
Registrable(bufs) ==
    /\ \A k \in DOMAIN bufs : bufs[k] \notin freed
    /\ \A k \in DOMAIN bufs : \A n \in HeldBy(table, inFlight) : n.buf # bufs[k]
    /\ \A k \in DOMAIN bufs : bufs[k] \notin tagCqes
    /\ \A j, k \in DOMAIN bufs : bufs[j] = bufs[k] => j = k

LargerOf(m, n) == IF m < n THEN n ELSE m

\* `garbage` is what lies behind the end of the tags, should the kernel read there.
TagAt(tags, k, b, garbage) ==
    IF k > Len(tags) THEN garbage ELSE IF tags[k] THEN b ELSE NoTag

BufsLen(bufs, tags) == Len(bufs)
MinLen(bufs, tags) == IF Len(tags) < Len(bufs) THEN Len(tags) ELSE Len(bufs)

NewNodes(r, bufs, tags, nr, garbage) ==
    [k \in 1 .. nr |-> Node(r, bufs[k], TagAt(tags, k, bufs[k], garbage))]

Untagged(bufs) == [k \in DOMAIN bufs |-> FALSE]

-----------------------------------------------------------------------------
Init ==
    /\ table = [r \in Rings |-> <<>>] /\ view = table
    /\ inFlight = [q \in Requests |-> Idle]
    /\ tagCqes = {} /\ announced = {} /\ freed = {}

NewTable(r, nodes) ==
    /\ table[r] = <<>>
    /\ Settle([table EXCEPT ![r] = nodes], inFlight)
    /\ view' = [view EXCEPT ![r] = nodes]
    /\ announced' = announced \ BufsIn(nodes)
    /\ UNCHANGED freed

RegisterBuffers(r, bufs) ==
    /\ Registrable(bufs)
    /\ NewTable(r, NewNodes(r, bufs, Untagged(bufs), Len(bufs), NoTag))

\* register_buffers2: as many as both slices have
RegisterBuffers2(r, bufs, tags, garbage) ==
    /\ Registrable(bufs)
    /\ NewTable(r, NewNodes(r, bufs, tags, MinLen(bufs, tags), garbage))

RegisterBuffersSparse(r, nr) == NewTable(r, [k \in 1 .. nr |-> Empty])

Spliced(t, offset, nodes, done) ==
    [i \in DOMAIN t |-> IF i - offset \in 1 .. done THEN nodes[i - offset] ELSE t[i]]

\* register_buffers_update: the kernel replaces entry after entry and returns how many
\* it did; the call drops the number and is Ok.  tags = None is <<FALSE, ...>>.
RegisterBuffersUpdate(r, offset, bufs, tags, garbage) ==
    LET nr    == MinLen(bufs, tags)
        nodes == NewNodes(r, bufs, tags, nr, garbage)
    IN  /\ nr > 0 /\ offset + nr <= Len(table[r])
        /\ Registrable(bufs)
        /\ \E done \in (IF Partial THEN 1 .. nr ELSE {nr}) :
                Settle([table EXCEPT ![r] = Spliced(@, offset, nodes, done)], inFlight)
        /\ view' = [view EXCEPT ![r] = Spliced(@, offset, nodes, nr)]
        /\ announced' = announced \ BufsIn(nodes)
        /\ UNCHANGED freed

UnregisterBuffersUnchecked(r) ==
    /\ table[r] # <<>>
    /\ \/ Settle([table EXCEPT ![r] = <<>>], inFlight)
       \/ UNCHANGED <<table, inFlight, tagCqes>>
    /\ view' = [view EXCEPT ![r] = <<>>]
    /\ UNCHANGED <<announced, freed>>

UnregisterBuffers(r) ==
    /\ table[r] # <<>>
    /\ Settle([table EXCEPT ![r] = <<>>], inFlight)
    /\ view' = [view EXCEPT ![r] = <<>>]
    /\ UNCHANGED <<announced, freed>>

\* `count` entries of `from` at srcOff, written over `dst` at dstOff.
Overlaid(r, dst, dstOff, from, srcOff, count) ==
    [i \in 1 .. LargerOf(dstOff + count, Len(dst)) |->
        IF i - dstOff \in 1 .. count THEN Cloned(r, from[srcOff + i - dstOff])
        ELSE IF i \in DOMAIN dst THEN dst[i] ELSE Empty]

CloneCall(r, src, srcOff, dstOff, nr, replace, kernelSrcOff, kernelDstOff) ==
    LET count == IF nr = 0 THEN Len(table[src]) ELSE nr
    IN  /\ src # r /\ Len(view[src]) = Len(table[src])
        /\ count > 0 /\ srcOff + count <= Len(table[src])
        /\ kernelSrcOff + count <= Len(table[src])
        /\ dstOff + count <= MaxTable
        /\ table[r] # <<>> => replace
        /\ Settle([table EXCEPT
                    ![r] = Overlaid(r, @, kernelDstOff, table[src], kernelSrcOff, count)], inFlight)
        /\ view' = [view EXCEPT ![r] = Overlaid(r, @, dstOff, view[src], srcOff, count)]
        /\ announced' = announced \ BufsIn(table'[r])
        /\ UNCHANGED freed

RegisterBuffersCloneSwapped(r, src, srcOff, dstOff, nr, replace) ==
    CloneCall(r, src, srcOff, dstOff, nr, replace, dstOff, srcOff)

\* register_buffers_clone_offset: nr = 0 is the whole source, and the destination has
\* no table unless DST_REPLACE is given.
RegisterBuffersCloneOffset(r, src, srcOff, dstOff, nr, replace) ==
    CloneCall(r, src, srcOff, dstOff, nr, replace, srcOff, dstOff)

\* register_buffers_clone
RegisterBuffersClone(r, src) == RegisterBuffersCloneOffset(r, src, 0, 0, 0, FALSE)

-----------------------------------------------------------------------------
\* ReadFixed or WriteFixed on a slot the application takes for filled.
Submit(q, r, i) ==
    /\ inFlight[q] = Idle
    /\ i \in DOMAIN view[r] /\ view[r][i] # Empty
    /\ i \in DOMAIN table[r] /\ table[r][i] # Empty
    /\ inFlight' = [inFlight EXCEPT ![q] = table[r][i]]
    /\ UNCHANGED <<table, view, tagCqes, announced, freed>>

Complete(q) ==
    /\ inFlight[q] # Idle
    /\ Settle(table, [inFlight EXCEPT ![q] = Idle])
    /\ UNCHANGED <<view, announced, freed>>

ReadTag(tag) ==
    /\ tag \in tagCqes
    /\ tagCqes' = tagCqes \ {tag}
    /\ announced' = announced \cup {tag}
    /\ UNCHANGED <<table, view, inFlight, freed>>

InNoView(b) == \A r \in Rings : b \notin BufsIn(view[r])

Quiesced(b) == InNoView(b) /\ \A q \in Requests : inFlight[q].buf # b

ClonedInto(b, n) == n.clone /\ n.buf = b

Uncloned(b) ==
    /\ \A r \in Rings : \A n \in NodesIn(view[r]) : ~ClonedInto(b, n)
    /\ \A q \in Requests : ~ClonedInto(b, inFlight[q])

\* documented: "valid until buffers are unregistered" from the ring they were registered
\* with; careful: from every table, and the requests on them done, or when the tag of a
\* buffer that was not cloned has been read.
MayFree(b) ==
    CASE Discipline = "documented" ->
            \A r \in Rings : \A n \in NodesIn(view[r]) : n.buf = b => n.clone
      [] Discipline = "careful" -> Quiesced(b) \/ (b \in announced /\ Uncloned(b))

Free(b) ==
    /\ b \notin freed /\ MayFree(b)
    /\ freed' = freed \cup {b}
    /\ UNCHANGED <<table, view, inFlight, tagCqes, announced>>

\* Memory at the same place again.
Allocate(b) ==
    /\ b \in freed
    /\ freed' = freed \ {b}
    /\ announced' = announced \ {b}
    /\ UNCHANGED <<table, view, inFlight, tagCqes>>

BufSlices == SeqOf(Bufs, MaxTable) \ {<<>>}
TagSlices == SeqOf(BOOLEAN, MaxTable) \ {<<>>}
Offsets == 0 .. MaxTable - 1

Register(r) ==
    \/ \E bufs \in BufSlices : RegisterBuffers(r, bufs)
    \/ \E bufs \in BufSlices, tags \in TagSlices, garbage \in Bufs :
            RegisterBuffers2(r, bufs, tags, garbage)
    \/ \E nr \in 1 .. MaxTable : RegisterBuffersSparse(r, nr)

Update(r) ==
    \E offset \in Offsets, bufs \in BufSlices, tags \in TagSlices, garbage \in Bufs :
        RegisterBuffersUpdate(r, offset, bufs, tags, garbage)

Clone(r) ==
    \E src \in Rings :
        \/ RegisterBuffersClone(r, src)
        \/ \E srcOff, dstOff \in Offsets, nr \in 0 .. MaxTable, replace \in BOOLEAN :
                RegisterBuffersCloneOffset(r, src, srcOff, dstOff, nr, replace)

Next ==
    \/ \E r \in Rings : Register(r)
    \/ \E r \in Rings : Update(r)
    \/ \E r \in Rings : UnregisterBuffers(r)
    \/ \E r \in Rings : Clone(r)
    \/ \E q \in Requests, r \in Rings, i \in 1 .. MaxTable : Submit(q, r, i)
    \/ \E q \in Requests : Complete(q)
    \/ \E tag \in tagCqes : ReadTag(tag)
    \/ \E b \in Bufs : Free(b)
    \/ \E b \in Bufs : Allocate(b)

Spec == Init /\ [][Next]_vars

-----------------------------------------------------------------------------

\* Memory the application gave back is in no table and under no request: else a later
\* request, or the one still running, reads and writes memory that is something else.
FreedBuffersAreUnused ==
    \A n \in HeldBy(table, inFlight) : n.buf \notin freed

\* A tag says what its documentation says: the buffer had been unregistered and is not
\* used any more, by a slot or by a request that outlived its slot.  It says nothing of
\* the clones other rings have of it.
TagMeansUnused ==
    \A n \in HeldBy(table, inFlight) : n.clone \/ n.buf \notin tagCqes \cup announced

=============================================================================
