------------------------------- MODULE Framing -------------------------------
(***************************************************************************)
(* How a prefix of a byte stream is cut into bodies and the bodies into    *)
(* prompts: http.rs and extract.rs.  A byte stands for the run of bytes    *)
(* the parsers treat alike: the method that begins an HTTP message, the    *)
(* end of a header (with what it says of the body), the size line of a     *)
(* chunk, a line break, the brackets of a JSON value and what is inside.   *)
(***************************************************************************)
EXTENDS Naturals, Sequences, FiniteSets, SequencesExt

CONSTANTS
    Texts,           \* pieces of prompts and of names
    ContentLength,   \* end of a header with a content-length -> that length
    ChunkSize,       \* size line of a chunk -> the size
    ExcerptMax       \* TEXT_EXCERPT_MAX

Method == "POST"
LineBreak == "nl"
HeaderEnds == DOMAIN ContentLength \cup {"chunked", "unsized"}
SizeLines == DOMAIN ChunkSize
LineEnds == HeaderEnds \cup SizeLines \cup {LineBreak}
Bytes == Texts \cup LineEnds \cup {Method, "{", "}", "[", "]"}

\* {...} is a JSON value with a prompt (prompt, input, messages, arguments),
\* [...] one without (a list of tools).
Closing == [open \in {"{", "["} |-> IF open = "{" THEN "}" ELSE "]"]

Least(S) == CHOOSE n \in S : \A m \in S : n <= m
After(bytes, n) == SubSeq(bytes, n + 1, Len(bytes))

Incomplete == [status |-> "incomplete", body |-> <<>>, consumed |-> 0]
NotThis == [status |-> "not this", body |-> <<>>, consumed |-> 0]
Complete(body, consumed) ==
    [status |-> "complete", body |-> body, consumed |-> consumed]

-----------------------------------------------------------------------------
\* A slip in decode_chunked: the line break after the last chunk is left.
LastChunkLeavingBreak(bytes, n) == n

\* The line break after the last chunk is consumed if it is there already.
LastChunk(bytes, n) ==
    IF n < Len(bytes) /\ bytes[n + 1] = LineBreak THEN n + 1 ELSE n

\* decode_chunked, the body beginning after the first n bytes
DecodeChunked(bytes, n) ==
    LET From[cursor \in n .. Len(bytes)] ==
            LET ends == {i \in cursor + 1 .. Len(bytes) : bytes[i] \in LineEnds}
                line == Least(ends)
                last == line + ChunkSize[bytes[line]]
            IN  IF ends = {} THEN Incomplete
                ELSE IF line # cursor + 1 \/ bytes[line] \notin SizeLines
                     THEN Complete(<<>>, line)
                ELSE IF last = line THEN Complete(<<>>, LastChunk(bytes, line))
                ELSE IF last >= Len(bytes) \/ bytes[last + 1] # LineBreak
                     THEN Incomplete
                ELSE [From[last + 1] EXCEPT !.body = SubSeq(bytes, line + 1, last) \o @]
    IN  From[n]

\* parse_body_frame
ParseBodyFrame(bytes) ==
    LET ends == {i \in DOMAIN bytes : bytes[i] \in HeaderEnds}
        start == Least(ends)
        end == start + ContentLength[bytes[start]]
    IN  IF Head(bytes) # Method THEN NotThis
        ELSE IF ends = {} THEN Incomplete
        ELSE CASE bytes[start] = "chunked" -> DecodeChunked(bytes, start)
               [] bytes[start] = "unsized" -> Complete(<<>>, start)
               [] OTHER -> IF Len(bytes) < end THEN Incomplete
                           ELSE Complete(SubSeq(bytes, start + 1, end), end)

\* parse_json_frame: the first value after any line breaks.  (The body of the
\* frame is the value, its brackets included; the line breaks before it, which
\* a text of last resort would keep, are left out.)
ParseJsonFrame(bytes) ==
    LET begins == {i \in DOMAIN bytes : bytes[i] # LineBreak}
        begin == Least(begins)
        stops == {i \in begin + 1 .. Len(bytes) : bytes[i] \notin Texts}
        stop == Least(stops)
    IN  IF begins = {} \/ bytes[begin] \notin DOMAIN Closing THEN NotThis
        ELSE IF stops = {} THEN Incomplete
        ELSE IF bytes[stop] # Closing[bytes[begin]] THEN NotThis
        ELSE Complete(SubSeq(bytes, begin, stop), stop)

\* serde_json::from_str of a whole text: one value and nothing behind it.
IsJson(bytes) ==
    /\ bytes # <<>>
    /\ ParseJsonFrame(bytes).status = "complete"
    /\ \A i \in ParseJsonFrame(bytes).consumed + 1 .. Len(bytes) : bytes[i] = LineBreak

Value(bytes) == ParseJsonFrame(bytes).body
Inside(value) == SubSeq(value, 2, Len(value) - 1)

\* collect_json_prompts
PromptIn(value) == IF Head(value) = "{" THEN Inside(value) ELSE <<>>

\* excerpt: the head and the tail of a long text
Excerpt(text) ==
    IF Len(text) <= ExcerptMax THEN text
    ELSE Append(SubSeq(text, 1, ExcerptMax - 1), Last(text))

Candidate(text, reasons) ==
    [text |-> Excerpt(text),
     reasons |-> IF Len(text) > ExcerptMax THEN reasons \cup {"truncation"} ELSE reasons]

\* extract_from_body.  (extract_ready gives the same candidates for a bare
\* JSON value as for a body that holds it.)
ExtractFromBody(body) ==
    IF IsJson(body) /\ PromptIn(Value(body)) # <<>>
    THEN <<Candidate(PromptIn(Value(body)), {})>>
    ELSE IF \A i \in DOMAIN body : body[i] = LineBreak THEN <<>>
    ELSE <<Candidate(body, {"fallback_whole_body"})>>
=============================================================================
