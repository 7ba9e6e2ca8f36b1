----------------------------- MODULE Correlation -----------------------------
(***************************************************************************)
(* Agents that write files, read each other's, send prompts and run        *)
(* shells; and what the pipeline makes of it: prompts that wait for their  *)
(* process to be bound, the prompt store, and chains from one session to   *)
(* another.  Each program object of the kernel side has a ring of its own; *)
(* the daemon gets the events of a ring in order, those of one ring before *)
(* or after those of another, and reads a file when it processes the event *)
(* that tells it was opened.                                               *)
(***************************************************************************)
EXTENDS CapiState

CONSTANTS
    Pids,
    SessionOf,     \* pid -> the session the graph binds it to once it started
    Workspaces,    \* the directories that are workspaces
    Scenarios      \* bound: [started, calls, most, waiting, gaps]: which processes
                   \* have started, what may be called, how many calls there are,
                   \* how many events wait, and the time between two calls

\* A process makes a call: start, open (path, writes, reads and, when it writes,
\* text), remove (path), say (a prompt: stream, text, visibility), shell.
IsCall(call) ==
    /\ DOMAIN call = {"kind", "pid", "path", "writes", "reads", "text", "stream", "visibility"}
    /\ call.kind \in {"start", "open", "remove", "say", "shell"}
    /\ call.pid \in Pids
    /\ {call.writes, call.reads} \subseteq BOOLEAN
    /\ IsText(call.text)

ASSUME CorrelationAssumption ==
    /\ Pids \subseteq Nat
    /\ \A sc \in Scenarios : /\ sc.started \subseteq Pids
                            /\ sc.gaps \subseteq Nat
                            /\ \A call \in sc.calls : IsCall(call)

VARIABLES
    scenario,
    clock,         \* the time of the last call
    count,         \* the calls made
    disk,          \* path -> its text
    flight,        \* events not yet processed, as they were made
    bound,         \* processes the graph has bound
    pending,       \* pending_prompts: pid -> prompts
    pending_total, \* pending_prompt_total
    prompts,       \* PromptStore
    capi,          \* CapiState
    seen           \* history: what has been processed, with what came of it

host_vars == <<scenario, clock, count, disk>>
daemon_vars == <<bound, pending, pending_total, prompts, capi, seen>>
vars == <<host_vars, flight, daemon_vars>>

Init ==
    /\ scenario \in Scenarios
    /\ clock = 0
    /\ count = 0
    /\ disk = EmptyMap
    /\ flight = <<>>
    /\ bound = scenario.started
    /\ pending = EmptyMap
    /\ pending_total = 0
    /\ prompts = NewPromptStore
    /\ capi = NewCapi
    /\ seen = <<>>

-----------------------------------------------------------------------------
RingOf(call) == CASE call.kind \in {"start", "shell"} -> "proc"
                  [] call.kind \in {"open", "remove"} -> "fs"
                  [] call.kind = "say" -> "tls"

Call(call, gap) ==
    /\ count < scenario.most /\ Len(flight) < scenario.waiting
    /\ call.kind \in {"open", "remove"} /\ ~call.writes => call.path \in DOMAIN disk
    /\ clock' = clock + gap
    /\ count' = count + 1
    /\ disk' = CASE call.kind = "open" /\ call.writes -> Put(disk, call.path, call.text)
                 [] call.kind = "remove" -> Without(disk, call.path)
                 [] OTHER -> disk
    /\ flight' = Append(flight, Joined(call, [id |-> count + 1, ts |-> clock + gap]))
    /\ UNCHANGED <<scenario, daemon_vars>>

-----------------------------------------------------------------------------
\* What the daemon keeps of prompts: d is [pending, total, prompts, capi, seen].

\* oldest_pending_prompt_pid: of several any one; the pids are numbers.
OldestPending(waiting) ==
    CHOOSE p \in DOMAIN waiting : \A q \in DOMAIN waiting :
        \/ waiting[p][1].ts < waiting[q][1].ts
        \/ waiting[p][1].ts = waiting[q][1].ts /\ p <= q

\* queue_pending_prompt, enforce_pending_prompt_bound_to
QueuePendingPrompt(d, pid, said) ==
    LET queue == IF pid \in DOMAIN d.pending THEN d.pending[pid] ELSE <<>>
        queued == Put(d.pending, pid, Append(queue, said))
        oldest == OldestPending(queued)
        left == IF Len(queued[oldest]) = 1 THEN Without(queued, oldest)
                ELSE Put(queued, oldest, Tail(queued[oldest]))
    IN  IF d.total + 1 <= MaxPrompts
        THEN [d EXCEPT !.pending = queued, !.total = @ + 1]
        ELSE [d EXCEPT !.pending = left]

\* insert_prompt, prompt_input_from_extraction: the time is that of the fragment.
TakePrompt(d, pid, said) ==
    LET input == [session |-> SessionOf[pid], stream |-> said.stream, ts |-> said.ts,
                  text |-> said.text, visibility |-> said.visibility]
        store == InsertPrompt(d.prompts, input)
    IN  [d EXCEPT !.prompts = store,
                  !.capi = IF PromptId(input) \in KeysIn(store.prompts)
                           THEN ObservePrompt(@, input) ELSE @,
                  !.seen = Append(@, Joined(input, [kind |-> "say"]))]

\* drain_pending_prompts_for_pid
DrainPendingPrompts(d, pid) ==
    LET queue == d.pending[pid]
        rest == [d EXCEPT !.pending = Without(@, pid), !.total = @ - Len(queue)]
        taken[n \in 0 .. Len(queue)] ==
            IF n = 0 THEN rest ELSE TakePrompt(taken[n - 1], pid, queue[n])
    IN  IF pid \in DOMAIN d.pending THEN taken[Len(queue)] ELSE d

\* evict_pending_prompts
EvictPendingPrompts(d, now) ==
    LET waiting == [p \in DOMAIN d.pending |->
                      Picked(d.pending[p], {i \in DOMAIN d.pending[p] :
                                               d.pending[p][i].ts + PromptWindow >= now})]
    IN  [d EXCEPT !.pending = Keep(waiting, {p \in DOMAIN waiting : waiting[p] # <<>>}),
                  !.total = TotalOf(waiting)]

Daemon == [pending |-> pending, total |-> pending_total, prompts |-> prompts, capi |-> capi,
           seen |-> seen]

Becomes(d) ==
    /\ pending' = d.pending
    /\ pending_total' = d.total
    /\ prompts' = d.prompts
    /\ capi' = d.capi
    /\ seen' = d.seen

\* The kind prompts are linked to, and the findings the detectors make of it.
RiskOf(ev) == CASE ev.kind = "open" -> "file_open"
                [] ev.kind = "remove" -> "file_unlink"
                [] OTHER -> "proc_exec"

\* process_owned_event, what concerns prompts and chains, for a bound process:
\* the file is observed, then the risk.
ObserveFile(c, ev, content) ==
    IF ev.kind # "open" THEN c
    ELSE ObserveFileEvent(c, [session |-> SessionOf[ev.pid], path |-> ev.path, ts |-> ev.ts,
                              workspace |-> ev.path[1] \in Workspaces,
                              writes |-> ev.writes, reads |-> ev.reads], content)

ObserveRisk(c, p, ev) ==
    IF ev.kind # "shell" THEN [c |-> c, chains |-> <<>>]
    ELSE ChainsForRiskyEvent(c, p, SessionOf[ev.pid], ev.id, ev.ts, "UnexpectedShell")

ObserveDrained(d, ev) ==
    LET content == IF ev.kind = "open" /\ ev.path \in DOMAIN disk THEN disk[ev.path] ELSE NoText
        evidence == EvidenceForEvent(d.prompts, SessionOf[ev.pid], ev.ts, RiskOf(ev))
        risk == ObserveRisk(ObserveFile(d.capi, ev, content), evidence.p, ev)
    IN  [d EXCEPT
            !.prompts = evidence.p, !.capi = risk.c,
            !.seen = Append(@, Joined(ev,
                [session |-> SessionOf[ev.pid], content |-> content, links |-> evidence.links,
                 repeated |-> evidence.repeated, chains |-> risk.chains]))]

Observe(d, ev) ==
    ObserveDrained(EvictPendingPrompts(DrainPendingPrompts(d, ev.pid), ev.ts), ev)

\* The next event of a ring is processed.
Process(ring) ==
    \E i \in DOMAIN flight :
        LET ev == flight[i]
        IN  /\ RingOf(ev) = ring
            /\ \A j \in 1 .. i - 1 : RingOf(flight[j]) # ring
            /\ flight' = RemoveAt(flight, i)
            /\ bound' = IF ev.kind = "start" THEN bound \cup {ev.pid} ELSE bound
            /\ Becomes(CASE ev.kind = "say" ->
                              IF ev.pid \in bound THEN TakePrompt(Daemon, ev.pid, ev)
                              ELSE QueuePendingPrompt(Daemon, ev.pid, ev)
                         [] ev.kind # "say" /\ ev.pid \in bound' -> Observe(Daemon, ev)
                         [] OTHER -> EvictPendingPrompts(Daemon, ev.ts))
            /\ UNCHANGED host_vars

Next ==
    \/ \E call \in scenario.calls, gap \in scenario.gaps : Call(call, gap)
    \/ \E ring \in {"proc", "fs", "tls"} : Process(ring)

Spec == Init /\ [][Next]_vars
-----------------------------------------------------------------------------
\* The indexes agree with what they index, the totals are totals, and nothing
\* exceeds its bound.
TypeOK ==
    /\ \A s \in DOMAIN prompts.sessions :
          /\ IsInjective(prompts.sessions[s])
          /\ Range(prompts.sessions[s]) = {id \in KeysIn(prompts.prompts) : id[1] = s}
    /\ \A id \in KeysIn(prompts.prompts) : id[1] \in DOMAIN prompts.sessions
    /\ Len(prompts.prompts) <= MaxPrompts
    /\ pending_total = TotalOf(pending)
    /\ pending_total <= MaxPrompts
    /\ capi.total = TotalOf(capi.pending)
    /\ capi.total <= MaxArtifacts
    /\ PendingReadTokens(capi) \subseteq Range(capi.order)
    /\ {Len(capi.artifacts), Len(capi.lineage), Len(capi.candidates)} \subseteq 0 .. MaxArtifacts
    /\ \A i \in DOMAIN seen : seen[i].kind # "say" =>
          \A j \in DOMAIN seen[i].links : seen[i].links[j][1] = seen[i].session

\* The chains of the event processed last, if it was one.
ChainsNow == IF seen = <<>> \/ Last(seen).kind = "say" THEN {} ELSE Range(Last(seen).chains)

\* Two texts resemble each other, or are both too short for the difference to
\* be noticed.
Resemble(a, b) ==
    \/ Norm(a) = Norm(b)
    \/ Range(Norm(a)) \cap Range(Norm(b)) # {}
    \/ BytesOf(Norm(a)) < 5 /\ BytesOf(Norm(b)) < 5

\* A chain tells what happened: its root session opened the file for writing,
\* its other session then opened it for reading and then sent the prompt, which
\* resembles what was in the file, and then, within CAPI_WINDOW_MS, came the
\* risky event (observe_file_event, observe_prompt, build_evidence_chain).
ChainsArePropagated ==
    \A chain \in ChainsNow :
        /\ chain.root # chain.downstream
        /\ \E w, r, p \in DOMAIN seen :
              /\ seen[w].kind = "open" /\ seen[w].writes /\ seen[w].session = chain.root
              /\ seen[r].kind = "open" /\ seen[r].reads /\ seen[r].session = chain.downstream
              /\ seen[w].path = chain.artifact.path /\ seen[r].path = chain.artifact.path
              /\ seen[p].kind = "say" /\ seen[p].session = chain.downstream
              /\ seen[w].ts <= seen[r].ts /\ seen[r].ts <= seen[p].ts
              /\ seen[p].ts <= chain.ts /\ chain.ts <= seen[p].ts + CapiWindow
              /\ Resemble(seen[r].content, seen[p].text)

Opened(h) == {i \in DOMAIN h : h[i].kind = "open"}
WritesOf(h, path) == {i \in Opened(h) : h[i].writes /\ h[i].path = path}
ReadsIn(h) == {i \in Opened(h) : h[i].reads /\ ~h[i].writes}
PromptsIn(h) == {i \in DOMAIN h : h[i].kind = "say"}

\* A session reads at r what another wrote at w, and nobody since.
HandedOver(h, w, r) ==
    /\ w < r /\ r \in ReadsIn(h) /\ w \in WritesOf(h, h[r].path)
    /\ h[w].path[1] \in Workspaces
    /\ h[r].session # h[w].session
    /\ h[r].content # NoText
    /\ \A i \in WritesOf(h, h[r].path) : ~(w < i /\ i < r)

\* And then says it, at p.  The text is no template, and no prompt that is older
\* than the read came between them.
SaidAgain(h, r, p) ==
    /\ r < p /\ p \in PromptsIn(h)
    /\ h[p].session = h[r].session /\ h[p].text = h[r].content /\ h[r].ts <= h[p].ts
    /\ ~TemplateShape(Norm(h[p].text))
    /\ \A i \in PromptsIn(h) : r < i /\ i < p /\ h[i].session = h[r].session => h[i].ts >= h[r].ts

\* The daemon is still aware of it: its stores sufficed, nothing was processed
\* that makes the read too old (events of all rings are its clock), and no file
\* written after the prompt was read with the same text (which makes what has
\* been read younger than the prompt).
StillKnown(h, r, p) ==
    /\ Cardinality(Opened(h)) <= MaxArtifacts
    /\ Cardinality(ReadsIn(h)) * Cardinality(PromptsIn(h)) <= MaxArtifacts
    /\ Cardinality(PromptsIn(h)) <= MaxPrompts
    /\ \A i \in DOMAIN h : r < i => h[i].ts <= h[r].ts + CapiWindow
    /\ \A j \in ReadsIn(h) : Norm(h[j].content) = Norm(h[p].text) =>
          \A i \in WritesOf(h, h[j].path) : i < j => h[i].ts <= h[p].ts

\* An injection is not missed: when a session prompts what it read in another's
\* file and then runs a shell, there is a chain for that event that quotes it
\* (observe_file_event, observe_prompt, chains_for_risky_event).
InjectionsAreFound ==
    \A w, r, p \in DOMAIN seen :
        /\ HandedOver(seen, w, r) /\ SaidAgain(seen, r, p) /\ StillKnown(seen, r, p)
        /\ Last(seen).kind = "shell" /\ Last(seen).session = seen[r].session
        /\ seen[p].ts <= Last(seen).ts
        => \E chain \in ChainsNow :
              /\ chain.downstream = seen[r].session
              /\ Norm(chain.artifact.text) = Norm(seen[p].text)

\* What a chain quotes is masked: no secret token, and nothing of a PEM block
\* (redact_excerpt_string; a secret within a longer token is not recognized).
ExcerptsAreMasked ==
    \A chain \in ChainsNow : \A words \in chain.excerpts :
        Range(words) \cap {"key", "begin", "body", "end"} = {}
=============================================================================
