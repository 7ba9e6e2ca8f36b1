-------------------------- MODULE StreamReassembly ---------------------------
(***************************************************************************)
(* One stream of content (reassembly.rs, StreamState): fragments come with *)
(* the offset the kernel gave them; what is contiguous is cut into         *)
(* prompts, what is ahead waits.  The u64 and usize conversions of the     *)
(* code, which no stream a machine can hold overflows, are left out.       *)
(***************************************************************************)
EXTENDS Framing, Maps

CONSTANT
    CompactThreshold   \* COMPACT_CONSUMED_THRESHOLD

\* StreamState::new.  The channel and the direction are part of the stream's
\* identity, so the owner is all a later fragment can disagree with.
NewStream(owner) ==
    [owner |-> owner, base |-> 0, next |-> 0, buf |-> <<>>, pending |-> EmptyMap,
     consumed |-> 0, reasons |-> {}]

Because(st, reason) == [st EXCEPT !.reasons = @ \cup {reason}]

\* insert_pending
InsertPending(st, offset, bytes) ==
    IF offset \notin DOMAIN st.pending
    THEN [st EXCEPT !.pending = Put(@, offset, bytes)]
    ELSE IF st.pending[offset] = bytes THEN st ELSE Because(st, "overlap_conflict")

\* A slip: a fragment that repeats bytes is not compared with them.
CompareOverlapNever(st, offset, bytes) == st

\* compare_overlap
CompareOverlap(st, offset, bytes) ==
    LET from == offset - st.base
    IN  IF SubSeq(st.buf, from + 1, from + Len(bytes)) = bytes THEN st
        ELSE Because(st, "overlap_conflict")

\* extend_contiguous
ExtendContiguous(st, bytes) ==
    [st EXCEPT !.buf = @ \o bytes, !.next = @ + Len(bytes)]

\* The mark of a fragment that begins behind the compaction.
Trimmed(st, offset) ==
    IF offset < st.base THEN Because(st, "fragment_behind_compaction") ELSE st

\* append_bytes
AppendBytes(st, offset, bytes) ==
    LET from == IF offset < st.base THEN st.base ELSE offset
        rest == After(bytes, from - offset)
        overlap == st.next - from
        marked == Trimmed(st, offset)
    IN  IF bytes = <<>> \/ offset + Len(bytes) <= st.base THEN st
        ELSE IF from > st.next THEN InsertPending(marked, from, rest)
        ELSE IF overlap > Len(rest) THEN CompareOverlap(marked, from, rest)
        ELSE ExtendContiguous(CompareOverlap(marked, from, SubSeq(rest, 1, overlap)),
                              After(rest, overlap))

\* drain_pending: the waiting fragments in the order of their offsets, up to
\* the first that is still ahead.
DrainPending(st) ==
    LET Drained(acc, offset) ==
            IF offset > acc.next THEN acc
            ELSE AppendBytes([acc EXCEPT !.pending = Without(@, offset)],
                             offset, acc.pending[offset])
    IN  FoldLeft(Drained, st, SetToSortSeq(DOMAIN st.pending, <))

\* append.  A fragment has reasons of its own: content_truncated.
Appended(st, frag) ==
    LET owned == IF st.owner = frag.owner THEN st
                 ELSE Because(st, "stream_metadata_conflict")
        told == IF frag.truncated THEN Because(owned, "content_truncated") ELSE owned
    IN  DrainPending(AppendBytes(told, frag.offset, frag.bytes))

\* prompts_from_body and prompt
PromptsFromBody(st, body) ==
    LET PromptOf(candidate) ==
            [owner |-> st.owner, text |-> candidate.text,
             full |-> st.reasons \cup candidate.reasons = {}]
    IN  [i \in DOMAIN ExtractFromBody(body) |-> PromptOf(ExtractFromBody(body)[i])]

\* A slip: the buffer is cut and the base stays.
CompactKeepingBase(st) ==
    IF st.consumed < CompactThreshold /\ st.consumed < Len(st.buf) THEN st
    ELSE [st EXCEPT !.buf = After(@, st.consumed), !.consumed = 0]

\* compact_consumed
CompactConsumed(st) ==
    IF st.consumed < CompactThreshold /\ st.consumed < Len(st.buf) THEN st
    ELSE [st EXCEPT !.buf = After(@, st.consumed), !.base = @ + st.consumed, !.consumed = 0]

\* HTTP before JSON
FrameOf(bytes) ==
    LET http == ParseBodyFrame(bytes)
    IN  IF http.status = "not this" THEN ParseJsonFrame(bytes) ELSE http

\* extract_ready: frame after frame until nothing complete is left.
ExtractReady(st) ==
    LET From[n \in 0 .. Len(st.buf)] ==
            LET frame == FrameOf(After(st.buf, n))
            IN  IF n = Len(st.buf) THEN [consumed |-> n, out |-> <<>>]
                ELSE IF frame.status # "complete" THEN [consumed |-> n, out |-> <<>>]
                ELSE [From[n + frame.consumed] EXCEPT
                         !.out = PromptsFromBody(st, frame.body) \o @]
        cut == From[st.consumed]
    IN  [st |-> CompactConsumed([st EXCEPT !.consumed = cut.consumed]), out |-> cut.out]
=============================================================================
