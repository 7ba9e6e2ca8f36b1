--------------------------- MODULE ContentStreams ----------------------------
(***************************************************************************)
(* Content on its way from a write of a traced process to the prompts and  *)
(* the tools the pipeline knows of: the hooks that copy fragments into the *)
(* rings and number their offsets, the reassembly of the streams and the   *)
(* registry of MCP tools.  A stream is one direction of one SSL object or  *)
(* of one captured descriptor.                                             *)
(***************************************************************************)
EXTENDS StreamReassembly, McpRegistry

CONSTANTS
    Pids,
    Streams,
    PidOf,             \* stream -> its process
    ChannelOf,         \* stream -> "tls", "stdio" or "mcp"
    DirectionOf,       \* stream -> "read" or "write"
    HandleOf,          \* stream -> the SSL object or descriptor (ssl_ctx), which
                       \* both directions have in common
    MessagesOf,        \* stream -> the messages a process may send on it
    UsedTogether,      \* bound: sets of streams that are in use in one behaviour
    AgentOf,           \* pid -> what the graph binds the process to
    InlineMax,         \* CONTENT_INLINE_MAX
    RingSlots,         \* fragments a ring holds (bytes in the code)
    StreamCapacity,    \* MAX_STREAMS
    MaxMessages,       \* bound: messages composed
    MaxWrites,         \* bound: calls of read and write
    MaxTrouble         \* bound: short writes, interrupted hooks, resets,
                       \* reused SSL objects and late attributions, together

Rings == {"tls", "content"}
RingOf(s) == IF ChannelOf[s] = "tls" THEN "tls" ELSE "content"

\* A message is its bytes and the prompt they carry: the text, and whether
\* the extraction is exact (not a text of last resort).
ASSUME ContentAssumption ==
    /\ PidOf \in [Streams -> Pids]
    /\ ChannelOf \in [Streams -> {"tls", "stdio", "mcp"}]
    /\ DirectionOf \in [Streams -> {"read", "write"}]
    /\ \A s, u \in Streams : HandleOf[s] = HandleOf[u] =>
          PidOf[s] = PidOf[u] /\ ChannelOf[s] = ChannelOf[u]
    /\ \A s \in Streams : \A m \in MessagesOf[s] : m.bytes \in Seq(Bytes)

VARIABLES
    used,              \* the streams in use
    unsent,            \* stream -> what the process still has to write
    composed,          \* history: stream -> messages begun
    writes,            \* calls of read and write
    trouble,           \* how many of the things MaxTrouble bounds
    offsets,           \* stream_offsets, fd_stream_offsets
    ring,              \* ring -> fragments reserved and not yet consumed
    binding,           \* pid -> the agent, or "none"
    streams,           \* ContentRuntime.streams
    registry,          \* McpRegistry
    queued,            \* pending_mcp_anomalies: pid -> anomalies
    reported,          \* history: anomalies that became findings
    prompts,           \* history: stream -> prompts extracted
    taint              \* history: stream -> what happened to it

process_vars == <<used, unsent, composed, writes, trouble>>
daemon_vars == <<streams, registry, queued, reported, prompts>>
vars == <<process_vars, offsets, ring, binding, daemon_vars, taint>>

Init ==
    /\ used \in UsedTogether
    /\ unsent = [s \in Streams |-> <<>>]
    /\ composed = [s \in Streams |-> <<>>]
    /\ writes = 0
    /\ trouble = 0
    /\ offsets = [s \in Streams |-> 0]
    /\ ring = [r \in Rings |-> <<>>]
    /\ binding \in {AgentOf, [p \in Pids |-> "none"]}
    /\ streams = <<>>
    /\ registry = EmptyRegistry
    /\ queued = EmptyMap
    /\ reported = {}
    /\ prompts = [s \in Streams |-> <<>>]
    /\ taint = [s \in Streams |-> {}]

-----------------------------------------------------------------------------
(* The traced processes and the hooks. *)

Full(r) == Len(ring[r]) >= RingSlots

\* The directions of one object or descriptor that are in use.
Sharing(s) == {u \in used : HandleOf[u] = HandleOf[s]}

InFlight(s) == {i \in DOMAIN ring[RingOf(s)] :
                   /\ ring[RingOf(s)][i].stream = s
                   /\ ring[RingOf(s)][i].stage # "sent"}

\* What becomes of a stream by the nth byte of pool being the last of a write
\* of which the process is told that only done bytes went out.
Causes(s, pool, n, done, joins) ==
    UNION {
      IF joins THEN {"joined"} ELSE {},
      IF n > InlineMax THEN {"truncated"} ELSE {},
      IF n < Len(pool) /\ pool[n] \in SizeLines /\ pool[n + 1] = LineBreak
      THEN {"split before break"} ELSE {},
      IF done < n THEN {"short"} ELSE {},
      IF InFlight(s) # {} THEN {"raced"} ELSE {},
      IF Full(RingOf(s)) THEN {"lost"} ELSE {}}

\* CONTENT_FLAG_TRUNCATED; byte_len > frag_len
Cut(bytes) == Len(bytes) > InlineMax

\* The offset of an SSL object moves by all that was written, that of a
\* descriptor by what was copied.
Stride(s, bytes) ==
    IF Cut(bytes) /\ ChannelOf[s] # "tls" THEN InlineMax ELSE Len(bytes)

\* emit_content_frag, emit_fd_content: nothing is numbered, and nothing
\* remembers the fragment, if the ring has no room.  The hook runs through,
\* or is interrupted before it numbers the fragment.
Emit(s, bytes, interrupted) ==
    LET frag == [stream |-> s, offset |-> offsets[s], truncated |-> Cut(bytes),
                 bytes |-> SubSeq(bytes, 1, IF Cut(bytes) THEN InlineMax ELSE Len(bytes)),
                 stride |-> Stride(s, bytes),
                 stage |-> IF interrupted THEN "reserved" ELSE "sent"]
    IN  IF Full(RingOf(s)) THEN UNCHANGED <<ring, offsets>>
        ELSE /\ ring' = [ring EXCEPT ![RingOf(s)] = Append(@, frag)]
             /\ offsets' = IF interrupted THEN offsets
                           ELSE [offsets EXCEPT ![s] = @ + frag.stride]

\* The hooks of SSL_read, SSL_write and their _ex forms report when the call
\* returns, with the bytes it took; so does read(2).  write(2) is reported
\* when it is entered, with the bytes it is asked to take.
ReportedAtReturn(s) == ChannelOf[s] = "tls" \/ DirectionOf[s] = "read"

\* A call that moves the next n bytes, which may belong to a message just
\* composed.  While the hook of one call is interrupted only whole messages
\* are moved by others.
Transfer(s) ==
    /\ writes < MaxWrites
    /\ \E m \in MessagesOf[s] \cup {[bytes |-> <<>>, prompts |-> <<>>]},
          interrupted \in BOOLEAN :
       \E n \in 1 .. Len(unsent[s] \o m.bytes) :
       \E done \in IF ReportedAtReturn(s) THEN {n} ELSE 0 .. n :
          LET pool == unsent[s] \o m.bytes
              joins == unsent[s] # <<>> /\ m.bytes # <<>>
              causes == Causes(s, pool, n, done, joins)
              mixed == {u \in Sharing(s) \ {s} : unsent[u] # <<>>}
              begun == IF m.bytes = <<>> THEN <<>> ELSE <<m>>
              cost == Cardinality({c \in {"short", "slow"} :
                          IF c = "short" THEN done < n ELSE interrupted})
          IN  /\ joins => n > Len(unsent[s])
              /\ InFlight(s) # {} => unsent[s] = <<>> /\ n = Len(m.bytes)
              /\ interrupted => ~Full(RingOf(s)) /\ unsent[s] = <<>> /\ n = Len(m.bytes)
              /\ writes' = writes + 1
              /\ trouble + cost <= MaxTrouble
              /\ trouble' = trouble + cost
              /\ Len(composed[s]) + Len(begun) <= MaxMessages
              /\ composed' = [composed EXCEPT ![s] = @ \o begun]
              /\ unsent' = [unsent EXCEPT ![s] = After(pool, done)]
              /\ taint' = [u \in Streams |->
                              (IF u = s THEN taint[u] \cup causes ELSE taint[u])
                                  \cup IF u \in mixed THEN {"mixed"} ELSE {}]
              /\ Emit(s, SubSeq(pool, 1, n), interrupted)
    /\ UNCHANGED <<used, binding, daemon_vars>>

\* reserve_stream_offset, reserve_fd_stream_offset: the offset is read and
\* later stored, without atomicity.
ReadOffset(s, i) ==
    /\ i \in InFlight(s)
    /\ ring[RingOf(s)][i].stage = "reserved"
    /\ ring' = [ring EXCEPT ![RingOf(s)][i].offset = offsets[s],
                            ![RingOf(s)][i].stage = "numbered"]
    /\ UNCHANGED <<process_vars, offsets, binding, daemon_vars, taint>>

\* += and bpf_ringbuf_submit.  The compiler may add to the value read before
\* or load the counter again.
StoreOffset(s, i) ==
    /\ i \in InFlight(s)
    /\ ring[RingOf(s)][i].stage = "numbered"
    /\ \E loaded \in {ring[RingOf(s)][i].offset, offsets[s]} :
          offsets' = [offsets EXCEPT ![s] = loaded + ring[RingOf(s)][i].stride]
    /\ ring' = [ring EXCEPT ![RingOf(s)][i].stage = "sent"]
    /\ UNCHANGED <<process_vars, binding, daemon_vars, taint>>

\* The number of an SSL object or descriptor is used again for another
\* connection while a message was only half written.  Nothing tells the hooks:
\* SSL_free has none.
Reuse(s) ==
    /\ ChannelOf[s] = "tls"
    /\ unsent[s] # <<>>
    /\ trouble < MaxTrouble
    /\ trouble' = trouble + 1
    /\ unsent' = [unsent EXCEPT ![s] = <<>>]
    /\ taint' = [taint EXCEPT ![s] = @ \cup {"abandoned"}]
    /\ UNCHANGED <<used, composed, writes, offsets, ring, binding, daemon_vars>>

\* apply_content_io_command, as far as offsets go: every update of the
\* descriptor's policy starts them again (reset_fd_stream_offsets).
ResetOffsets(s) ==
    /\ ChannelOf[s] # "tls"
    /\ offsets[s] > 0
    /\ trouble < MaxTrouble
    /\ trouble' = trouble + 1
    /\ offsets' = [offsets EXCEPT ![s] = 0]
    /\ taint' = [taint EXCEPT ![s] = @ \cup {"reset"}]
    /\ UNCHANGED <<used, unsent, composed, writes, ring, binding, daemon_vars>>

\* The graph attributes a process late.
Attribute(pid) ==
    /\ binding[pid] = "none"
    /\ trouble < MaxTrouble
    /\ trouble' = trouble + 1
    /\ binding' = [binding EXCEPT ![pid] = AgentOf[pid]]
    /\ taint' = [s \in Streams |->
                    IF PidOf[s] = pid THEN taint[s] \cup {"attributed late"} ELSE taint[s]]
    /\ UNCHANGED <<used, unsent, composed, writes, offsets, ring, daemon_vars>>

-----------------------------------------------------------------------------
(* The pipeline. *)

\* The identity of an MCP server.
Server(pid) == IF binding[pid] = "none" THEN pid ELSE binding[pid]

\* observe_mcp_registry
Observed(frag) ==
    IF ChannelOf[frag.stream] = "mcp"
    THEN ObserveFragment(registry, Server(PidOf[frag.stream]), HandleOf[frag.stream],
                         frag.bytes)
    ELSE [owners |-> registry.owners, buffers |-> registry.buffers, anomalies |-> {}]

\* ContentRuntime::append, the stream's first fragment: a new stream, which may
\* push out the oldest.
OpenStream(frag) ==
    IF frag.stream \in KeysIn(streams) THEN streams
    ELSE InsertYoungest(streams, frag.stream, NewStream(frag.owner), StreamCapacity)

\* ContentRuntime::append and handle_content_fragment
Reassembled(frag) ==
    LET opened == OpenStream(frag)
        done == ExtractReady(Appended(ValueOf(opened, frag.stream), frag))
    IN  [streams |-> Replace(opened, frag.stream, done.st), prompts |-> done.out]

\* A slip: the anomalies of a process not yet attributed are dropped.
QueueNothing(pid, anomalies) == queued

\* process_content_fragment, the anomalies of a process not yet attributed
QueueAnomalies(pid, anomalies) ==
    Put(queued, pid, anomalies \cup IF pid \in DOMAIN queued THEN queued[pid] ELSE {})

\* process_content_fragment, for the next fragment of a ring
Process(r) ==
    LET record == Head(ring[r])
        pid == PidOf[record.stream]
        frag == [stream |-> record.stream, owner |-> binding[pid],
                 offset |-> record.offset, bytes |-> record.bytes,
                 truncated |-> record.truncated]
        seen == Observed(frag)
        done == Reassembled(frag)
    IN  /\ ring[r] # <<>>
        /\ record.stage = "sent"
        /\ ring' = [ring EXCEPT ![r] = Tail(@)]
        /\ registry' = [owners |-> seen.owners, buffers |-> seen.buffers]
        /\ streams' = done.streams
        /\ prompts' = [prompts EXCEPT ![frag.stream] = @ \o done.prompts]
        /\ taint' = [s \in Streams |->
                        IF s \in KeysIn(streams) \ KeysIn(done.streams)
                        THEN taint[s] \cup {"evicted"} ELSE taint[s]]
        /\ IF seen.anomalies = {} THEN UNCHANGED <<queued, reported>>
           ELSE IF binding[pid] = "none"
           THEN queued' = QueueAnomalies(pid, seen.anomalies) /\ UNCHANGED reported
           ELSE reported' = reported \cup seen.anomalies /\ UNCHANGED queued
    /\ UNCHANGED <<process_vars, offsets, binding>>

\* process_owned_event, as far as queued anomalies go: any other event of the
\* process takes them, and they become findings if it is attributed by now.
OtherEvent(pid) ==
    /\ pid \in DOMAIN queued
    /\ queued' = Without(queued, pid)
    /\ reported' = IF binding[pid] = "none" THEN reported ELSE reported \cup queued[pid]
    /\ taint' = IF binding[pid] = "none"
                THEN [s \in Streams |-> IF PidOf[s] = pid THEN taint[s] \cup {"discarded"}
                                        ELSE taint[s]]
                ELSE taint
    /\ UNCHANGED <<process_vars, offsets, ring, binding, streams, registry, prompts>>

-----------------------------------------------------------------------------
Hooks ==
    \E s \in used :
        \/ Transfer(s)
        \/ \E i \in InFlight(s) : ReadOffset(s, i) \/ StoreOffset(s, i)
        \/ Reuse(s)

Daemon ==
    \/ \E r \in Rings : Process(r)
    \/ \E s \in Streams : ResetOffsets(s)
    \/ \E pid \in Pids : Attribute(pid) \/ OtherEvent(pid)

Next == Hooks \/ Daemon

Spec == Init /\ [][Next]_vars

-----------------------------------------------------------------------------
\* The type invariant: in particular the bookkeeping of a stream between two
\* fragments.  What is buffered is what lies between the base and the next
\* offset, and what waits lies ahead of it.
TypeOK ==
    /\ \A s \in Streams : unsent[s] \in Seq(Bytes) /\ offsets[s] \in Nat
    /\ \A r \in Rings : Len(ring[r]) <= RingSlots
    /\ \A p \in Pids : binding[p] \in {AgentOf[p], "none"}
    /\ KeysIn(streams) \subseteq Streams
    /\ Len(streams) <= StreamCapacity
    /\ \A s \in KeysIn(streams) :
          LET st == ValueOf(streams, s)
          IN  /\ st.next = st.base + Len(st.buf)
              /\ st.consumed \in 0 .. Len(st.buf)
              /\ \A offset \in DOMAIN st.pending : offset > st.next /\ st.pending[offset] # <<>>
    /\ Len(registry.buffers) <= McpBuffers
    /\ DOMAIN queued \subseteq Pids

Quiet(s) == unsent[s] = <<>> /\ \A i \in DOMAIN ring[RingOf(s)] : ring[RingOf(s)][i].stream # s

Exact(list) == SelectSeq(list, LAMBDA p : p.full)
TimesIn(list, text) == Cardinality({i \in DOMAIN list : list[i].text = text})
Promised(s) == FoldLeft(LAMBDA all, m : all \o m.prompts, <<>>, composed[s])

\* A prompt the daemon calls fully visible is a prompt a process has sent, and
\* is not reported more often than it was sent: whatever was truncated,
\* numbered twice, reset, evicted or left half written, the rest is either
\* marked or not passed off as a prompt.  A fragment the ring had no room for
\* and a write that went out only in part are the exceptions.
\* (reassembly.rs: append_bytes, compare_overlap, prompt)
FullPromptsAreWhole ==
    \A s \in used : taint[s] \cap {"lost", "short"} = {} =>
        \A i \in DOMAIN Exact(prompts[s]) :
            LET text == Exact(prompts[s])[i].text
            IN  TimesIn(Exact(prompts[s]), text) <= TimesIn(Exact(Promised(s)), text)

\* A stream nothing has happened to delivers exactly the prompts sent on it, in
\* their order and under the process's owner, however the writes cut them up.
\* ("joined": several messages of one write are no exception, nor is "mixed":
\* both directions of one object at once.)
\* (reassembly.rs: extract_ready; http.rs, extract.rs)
CleanStreamsDeliver ==
    \A s \in used : (Quiet(s) /\ taint[s] \subseteq {"joined", "mixed"}) =>
        prompts[s] = [i \in DOMAIN Promised(s) |->
                         [owner |-> binding[PidOf[s]], text |-> Promised(s)[i].text,
                          full |-> Promised(s)[i].full]]

Advertised(s) ==
    {CanonicalName[t] : t \in
        UNION {Range(ToolsIn(composed[s][i].bytes)) : i \in DOMAIN composed[s]}}
AdvertisedBy(server) ==
    UNION {Advertised(s) : s \in {x \in used : ChannelOf[x] = "mcp" /\ Server(PidOf[x]) = server}}

Anomalies == reported \cup UNION {queued[p] : p \in DOMAIN queued}
AttributedLate == \E s \in used : "attributed late" \in taint[s]

\* An anomaly is about a tool that two different servers have advertised, as
\* long as no process was attributed late: that gives a server a second name.
\* (mcp.rs: observe_tools, observe_jsonrpc_fragment)
AnomaliesAreCollisions ==
    AttributedLate \/ \A a \in Anomalies :
        /\ a.claimed # a.registered
        /\ a.tool \in AdvertisedBy(a.claimed) \cap AdvertisedBy(a.registered)

\* Two servers that advertise one tool in whole messages do not go unnoticed,
\* as long as nothing is sent in the other direction of their objects while a
\* message is half sent: the two directions are collected together.
\* (pipeline.rs: process_content_fragment, observe_mcp_registry)
CollisionsAreNoticed ==
    \A s, u \in {x \in used : ChannelOf[x] = "mcp"} :
        (/\ \A x \in Sharing(s) \cup Sharing(u) : Quiet(x) /\ taint[x] \subseteq {"evicted"}
         /\ Server(PidOf[s]) # Server(PidOf[u]))
        => \A tool \in Advertised(s) \cap Advertised(u) :
              \E a \in Anomalies : a.tool = tool

\* "ringbuf backpressure: content cut short is degraded and marked"
\* (docs/对比分析_功能性能创新性.md:93): a prompt called fully visible has been
\* sent as it stands, whatever the ring lost.
LossIsMarked ==
    \A s \in used : \A i \in DOMAIN Exact(prompts[s]) :
        TimesIn(Exact(Promised(s)), Exact(prompts[s])[i].text) > 0
=============================================================================
