# Veriskein: verification project

TLA+ models of [Veriskein](../src/README.md), a daemon that watches AI agents on
a Linux host from the kernel, with the TLC configurations that check them and
the theorems TLAPS proves about them. Every definition is translated from the
source; `PROJECT.json` maps each to its lines.

Check a run with `tlc -workers 2 -config <cfg> <module>` and the proofs of a
module with `tlapm <name>Proofs.tla`, all in this directory.

## 1. The system

    hooks in the kernel           5 BPF objects: proc, fs, net, tls_uprobe, content_io
        |  one ring buffer per object, one sequence counter per object and CPU
    worker thread                 veriskein-bpf: polls the rings, applies capture commands
        |  mpsc channel                                      ^ mpsc channel
    driver loop                   veriskein-daemon/driver ---+  (one task, every few ms)
        |   collector             sequence check, MetaDrop events, ingest_seq
        |   pipeline
        |     normalizer          process table, descriptors, paths
        |     state-net           descriptor versions, TLS associations
        |     graph               which session a pid belongs to
        |     content             fragments -> streams -> prompts, MCP registry
        |     correlator          prompts, artifacts, chains between sessions
        |     detectors           rules; dead-loop windows
        |     alert               policy, throttling
        |   runtime health        how far alerts are to be degraded
        v
    IPC server                    history and broadcast, one task per client

Everything between the channel and the sink runs in one task, so the hard
behaviour is at its two ends and in time: the kernel (many CPUs, full rings,
task numbers reused), the clients (tasks interleaved with the driver), and
handlers that meet events late, out of order or never.

### Components

| component | state | operations | what makes it correct |
|---|---|---|---|
| retention stores (`veriskein-retention`) | two indexes, a wrapping counter | insert, get_mut, remove, retain | indexes agree, capacity kept, oldest evicted |
| BPF programs (`bpf/*.c`) | counters, argument maps, capture whitelist, stream offsets | one hook each | every event reported or its loss reported |
| BPF worker (`veriskein-bpf`) | channel ends, shutdown flag | poll, apply commands, shut down | nothing lost or doubled between ring and channel |
| collector | last number per (CPU, source), counters | process_bytes | a report is a loss, a loss is a report |
| driver | health window, metrics window | drain, tick, shut down | health follows the counters and recovers; shutdown ends |
| normalizer | process table, descriptor tables, path cache | apply | state of the process the event is about, not of another |
| state-net | descriptor versions, associations | apply, record_tls_fragment | an association names the socket it was made for |
| graph | bindings, draining, environment evidence | apply, seed_from_snapshot, apply_env_evidence | roots earned, candidates expire, identity stable, descendants follow |
| content | streams, MCP tool owners | append, observe | what is called a full prompt was sent as it stands; collisions are found and are collisions |
| prompt store, capi | prompts, pending reads, candidates, templates | insert, observe, evidence | a chain tells what happened, in its order; none is missed while the stores suffice |
| redaction | none | mask | no secret in what a chain quotes |
| detectors | dead-loop windows and cooldowns | apply | counts follow the window; a session found looping rests |
| alert | throttle entries | project | equal alerts are apart; what is held back is listed later |
| IPC server | history, cursor, channels; per client: receivers, line | publish, accept, hello, query | no frame missed in silence |
| pipeline | pending prompts and anomalies, capture policy | process_owned_event | nothing pending forgotten |

Interactions: calls within the driver task; the two mpsc channels with the
worker; the history mutex, the broadcast channels and one watch channel with
the clients' tasks; BPF maps shared with the hooks.

## 2. The modules

| module | models | kind |
|---|---|---|
| `Maps` | the daemon's maps as functions on the keys present | helper |
| `AgeOrderedMap` | what a retention store promises | abstract specification |
| `BoundedMap` | `BoundedMap` of `veriskein-retention` | implements `AgeOrderedMap` |
| `AgeList` | the same promise as a value, a sequence of keys and values by age | helper, for the stores built on `BoundedMap` |
| `EventRecords`, `EventRings` | hooks, sequence counters, rings, worker | parts of `Telemetry` |
| `Collector` | `CollectorCore` | part of `Telemetry` |
| `RuntimeHealth` | `RuntimeHealthTracker` | part of `Telemetry` |
| `Telemetry` | these composed with the driver's loop, from start to end | composition |
| `Graph` | `GraphState`, under any stream of events | component |
| `TracedHost` | `Graph` fed by a host traced without loss | composition |
| `IpcServer` | publishing and `serve_client` | component |
| `ContentCapture` | the capture policy: the pipeline's mirror, the commands, the kernel's whitelist | component |
| `CaptureHost` | `ContentCapture` fed by a host that forks, execs and juggles descriptors | composition |
| `Framing` | where an HTTP or JSON message ends, what text it carries | pure operators |
| `StreamReassembly` | the streams of `ContentRuntime` | component |
| `McpRegistry` | `McpRegistry` | component |
| `ContentStreams` | these three fed by hooks on a real process | composition |
| `PathResolution` | lexical resolution, links, the path cache | pure operators and a store |
| `Normalizer` | `NormalizerState::apply` | component |
| `StateNet` | `StateNet::apply`, `record_tls_fragment` | component |
| `DescriptorHost` | these three fed by a host of real processes | composition |
| `DeadloopDetector`, `Detectors` | the detector engine | components |
| `AlertThrottle` | policy, throttle key, `AlertThrottler` | component |
| `Alerting` | these three fed by events in and out of order | composition |
| `TextMatching` | normal form, hash, minhash, substring, template, masking | pure operators |
| `PromptStore`, `CapiState` | the two stores of the correlator | components |
| `Correlation` | these fed by agents that write, read, prompt and run shells | composition |
| `BoundedMapProofs`, `TelemetryProofs`, `TracedHostProofs`, `CaptureHostProofs`, `AlertingProofs`, `IpcProofs`, `DescriptorHostProofs`, `CorrelationProofs` | theorems about the module of the name; `TracedHostProofs` also those about `Graph` | proofs |
| `MC*` | constants for TLC (`BoundedMap.cfg` and `CaptureHost.cfg` need no such module) | |

The stateful parts of the pipeline are pure in the code (a `&mut self` and an
event in, a list out), so the components of the lower half are operators from
a state record and an event to the next record; the compositions hold the
variables and choose the events. A composition always contains the *real*
system beside the daemon's picture of it (descriptor tables, file contents,
messages sent), kept by the same actions, and the properties compare the two.

**BoundedMap.** `entries` and `order` are the two B-trees, `next_seq` the
counter, of width `SeqLimit` (2^64 in the code). `Insert` is the whole of
`insert`: the stale number removed, the number reserved (with `resequence` when
the counter wraps, in the order of the code: the number returned is the one
from before the wrap), both indexes edited, the excess evicted. `remove(key)`
is `Retain` of every other key. `wrapped` is history. After a wrap the entry
being inserted has a number from before it, so it is not the youngest any more:
the map still keeps its bound, but evicts out of order. Hence the refinement
holds *until the wrap*.

**Telemetry.** `Fire` is one run of a hook on one CPU: it reserves room in its
object's ring, and only if there is room takes a number (`next_seq` is called
by `fill_header`). `Poll` is one callback of `ringbuf.poll`; the rings are
served in any order. The driver's loop is `Wake` (its sleep ends), `Receive`
for each buffered record, `Tick` on an empty channel (with or without the
health interval having elapsed), `Stop` (SIGTERM, looked at only while it
sleeps), `Disconnected` (the worker has failed and its records are taken) and
`Abort` (an error while a record is processed). A record always parses. What
the pipeline's stores evict is an arbitrary amount (`detail_evictions_total`),
up to `MaxEvictions`.

**Graph.** One action per kind of event, each of them the whole of what
`apply_state` and `GraphState::apply` do: the cached and merged environment
evidence before garbage collection, collection by the event's timestamp, the
handler. An attribution keeps the *set of kinds* of its evidence, which is all
the code asks of the list; workspaces are one boolean (is one found); the file
name of an exec is one of four classes; identities are the pid and instant they
are hashed from. Events come in any order with any timestamps up to `Lateness`
behind the last: a lost event is one that never comes. One restriction: no pid
is bound twice at one instant (identities are hashed from pid and instant), that
is, it is neither created twice nor seeded again because its binding expired at
once. The promotion window is positive, as the code's is.

**TracedHost.** Clone, exec, connect, exit of *tasks*, as the kernel makes
them, and what the hooks make of them: a fork names the tasks, an exit names
the process of the task. `ancestry` and `member` are ghosts: what the host
knows of who descends from which root. Reuse of numbers is bounded by
`ReuseDelay` and `ThreadsRecycled`.

**ContentCapture, CaptureHost.** `Process` is the pipeline on one event: the
handler of its kind (`Observed`) edits `mirror` (`active_content_capture`) and
pushes commands, which `ApplyCommand` carries out one by one, as the worker does.
`lookup_policy`, of a task in read or write, is two steps: `Lookup` finds a
policy and sees that it has expired, `DeleteFound` deletes what the key has by
then; in between the worker may have written another. `robbed` is history: the
keys that lost one so. A ring and the channel behind it are one sequence: what
matters is that proc's events and open's events each keep their order and are
otherwise interleaved at will. The role of a process is whatever its exec event
says (the graph decides in the code). The reset of stream offsets is in
`ContentStreams`. `CaptureHost` makes the system calls, also those no hook
reports (`OpenOther`, `DupUnseen`); `table` is a ghost: what each open descriptor
descends from.

**ContentStreams.** A process composes messages (a sequence of tokens: braces,
brackets, a header, a length, letters) and writes them in pieces of its choosing;
the hook copies a piece into a ring if there is room, with an offset it reads and
stores in two steps (`ReadOffset`, `StoreOffset`), so two threads can meet.
`Process` is `process_content_fragment` on the head of a ring: reassembly,
extraction, the MCP registry, the queue of anomalies. `taint` remembers what
happened to a stream: a loss, a short write, a reset. The two directions of one
object are two streams of one *handle*, and for MCP, as in the code, one buffer.
Tokens stand for the bytes the framing tells apart, which makes `Framing` short;
the lengths and limits (`ExcerptMax`, `CompactThreshold`, `McpMessageMax`) are
counted in tokens.

**DescriptorHost.** A call changes the real process (`table`, `threads`, `links`)
or the file system (`files`), and its event goes into the ring of its object or
is lost; `Deliver` is the pipeline on the head of a ring: normalizer, StateNet, or
the attribution of a TLS fragment. The real side is the kernel's. What a process
has open, its directory included, is a *place*, a file or directory whose path
`places` gives, and which a rename moves for everyone who has it in use. `open`
and `chdir` follow links to the end (`Walk`), `unlink` and `rename` act on the name
itself (`Entry`), whether or not it is a link's. A fork is reported under the
number of the task that forks. Paths are sequences of names, of a file system
with two links, which are moved, removed, renamed and linked elsewhere. `last`
keeps, of the event processed last, what the daemon claims and what was really
the case: for a link removed or renamed, which the daemon names by where it leads,
either name. `taint` remembers, by process, why the two may differ; what is not in
that list must agree.

**Alerting.** `Observe` is one normalized event of a session: the detector
engine (with the dead-loop detector's window, counters, cooldown and the bound
on sessions), then policy and throttler on each finding. `Content` is a
fragment that revealed MCP anomalies. What an event carries (its prompts,
chains, anomalies) is given, since `Correlation` and `ContentStreams` make it.
`told`, `active` and `loops` are history. The file threshold is not one
(`DEADLOOP_FILE_REPEAT` is 20): if it were, a session whose own event has just
expired it would be found looping again by that event alone.

**Correlation.** Agents write and read files, send prompts, run shells, in any
order; events of three rings reach the daemon interleaved at will. A text is a
sequence of words of known length, two of them secret, some marking a PEM block;
hash, minhash and substring are computed from words. `seen` is the history of
what was processed, from which the properties reconstruct what a chain should
say.

**IpcServer.** `Publish` and `FinishPublishing` are the two halves of
`publish_*`: the history under its lock, then the broadcast. A broadcast channel
is the sequence of everything sent and the position of a receiver in it; it has
lagged when it is more than `ChannelCapacity` behind. (The channel of the code
rounds its capacity up to a power of two; nothing depends on it.) A line of the
client reaches the server in one or two pieces; a branch of `select!` that wins
while half a line has been read drops that read.

## 3. The runs

| run | asks | bounds |
|---|---|---|
| `bounded_map` | are the indexes, the bound and the age order kept, through a wrap? | 3 keys, 2 values, capacity 2, counter of 8: one more key than fits, and the counter wraps several times |
| `telemetry` | is anything lost or doubled between hook and collector; does health recover; does the daemon end? | two objects that share a source and one that does not, 2 CPUs, rings of 1, 3 hooks: a ring overflows, two objects interleave on a CPU; SIGTERM, worker failure and processing errors at any point |
| `graph` | are attributions earned, stable, collected in time under any stream? | 2 pids (parent, child, successor of one another), 4 events, timestamps 0..1, window and drain time 1, events late by 1; checked once with 5 events too |
| `traced_host` | does the graph follow a real host's processes? | 2 numbers beside the ancestor, 6 events, timestamps 0..2, window and drain time 1 |
| `host_threads` | is a live root kept? (no) | the same |
| `capture_policy` | does the whitelist follow the mirror, and the mirror the descriptors? | 2 numbers (parent and child, process and thread, successor), 2 descriptors of which 1 standard, 4 calls, clock 0..2, policies of 1 tick, whitelist of 3 (so it can be full); checked once with 5 calls, clock 0..1 and policies of 0 ticks |
| `content` | is a prompt called full one that was sent; do undisturbed streams deliver; are collisions found? | 2 processes, 5 streams of which 1 to 3 are in use, two of them of one object, 2 messages (bare JSON, sized, chunked, tool lists), 3 writes, 1 trouble, rings of 2, 1 stream kept (so one evicts the other) |
| `content_silent_gap` | is a loss marked? (no) | rings of 1, no other trouble |
| `descriptors` | do paths, endpoints and associations tell the truth? | 3 numbers (processes, a thread), 2 descriptors, 2 peers, 1 SSL object, two links, one into the workspace and one to a sensitive file, stores of 1 and 2 entries; 14 groups of 3 to 7 calls, each with its own 3 or 4 paths, at most 2 events waiting, 1 trouble; no link leads to another, and a rename replaces nothing |
| `alerting` | are counts exact, do loop findings rest, are alerts apart and merged ids listed? | 3 sessions of which 2 are kept, window 3, cooldown 5, thresholds 2, dedup 2, 2 throttle entries, 2 merged ids; 8 scenarios of 3 to 5 events, gaps 0..3, events late by 1 |
| `correlation` | does a chain tell what happened; is any missed; is what it quotes masked? | 3 sessions, 3 files of which 1 outside the workspace, windows 2..4, stores of 2 and 3; 9 scenarios of 4 to 6 calls, at most 2 events waiting |
| `ipc_server` | is anything missed in silence, at any interleaving? | 2 topics, one of each overflow policy, 3 frames, history of 2, channel of 1, pages of 1 and 3 |

Why bounds and scenarios of this size are enough: every property above relates
at most three steps of the system (an action, the one that overtakes it, the one
that reads the result), every store is smaller than the number of things that
want to be in it, and every window is shorter than the longest behaviour. The
scenarios of `descriptors`, `alerting` and `correlation` keep together the calls
that touch the same state; within one, all orders, delays and times are
explored. The windows of the code (minutes) are a few ticks; what matters is
that some pairs of events fall inside and some outside.

Deadlock is checked in `bounded_map` only, whose system never stops. In
`telemetry` the daemon ends; the others stop at their bound on events, calls or
frames, or when the client is gone.

Each property is broken by a plausible slip: the definitions whose comment
begins "A slip" (`Ready` by `ReadyWithAny`, ...) are the slips, and
`PROJECT.json` pairs them with the properties under `mutants`. They are used by
no specification.

### Exceptions named in properties

Most properties of the compositions have the form *nothing of this list has
happened, hence the daemon is right*. Each item of a list is a case in which
the code really is wrong or imprecise, so the lists are the known weaknesses,
collected in section 6.

### Fairness

Only `Telemetry` assumes any. The worker polls and the driver wakes, drains,
ticks and ends as its state tells it (weak fairness: both loop with a timeout).
That the health interval elapses again and again is strong fairness of `Judge`:
a tick judges when the clock says so, and the tick comes round every few
milliseconds. Nothing obliges a hook to run, anything to fail or anyone to send
SIGTERM. Events are finite (`MaxFired`), so what the liveness properties say,
`EndsWhenItMust` included, holds once events pause. Under an endless stream the
inner loop of the driver need never end, and then neither shutdown nor the
health tracker is looked at: that is a hazard of its own (section 6).
`EverySubmittedEventIngested` and `PressureSubsides` excuse a daemon that ends:
what is buffered then is lost, by `Abort` and `Stop`.

### What the violated runs show

1. **A thread's end ends its process** (`RootIsKeptWhileAlive`): the exit hook
   reports the process number for every thread, `on_exit` moves the process to
   draining, and after the drain time a live root is unattributed.
   `MembersStay` shows that for sessions of one-thread processes this does not
   happen. (The converse of the quoted line, that a session ends when its root
   has been dead for five minutes, does not hold either: section 6.)
2. **A fragment lost to a full ring leaves no mark** (`LossIsMarked`): the hooks
   reserve room before they take a sequence number and a stream offset, so the
   next fragment continues seamlessly; the reassembler joins what was before the
   loss to what came after it, and calls the prompt fully visible.
   `FullPromptsAreWhole` shows that this, and a write the kernel cut short, are
   the only ways to a full prompt nobody sent.

## 4. The proofs

Each proof module has an inductive invariant, stated at its head (`GraphInv`,
`HostInv`, `StreamInv` and `CountInv`, `Inv`, `CaptureInv`, `AlertInv`,
`IpcInv`, `EndpointInv` and `FullInv`, `IInv` and `FoundInv`), lemmas about the
operators the component is built from, one lemma or step per action, and at its
end the theorems. Unless a subsection says otherwise
the assumptions are the `ASSUME`s of the component: sets of natural numbers,
positive capacities. The bounds of the runs (`MaxEvents`, `MaxCalls`, ...) are
any numbers.

### The session graph

`TracedHostProofs` proves of `Graph`, for any set of pids, any windows, any
timestamps and any number of events:

- `GraphInvariant`: `GraphSpec => []GraphInv`;
- `GraphTypeCorrect`: `GraphSpec => []GraphTypeOK`;
- `ConfirmationEarned`: `GraphSpec => []ConfirmationIsEarned`;
- `IdentityStays`, `CandidatesDoExpire`, `ExitedDrainForTheirTime`: the three
  action properties `IdentityIsStable`, `CandidatesExpire`, `DrainsForItsTime`.

The only assumption is `GraphAssumption` (the windows are natural numbers, that
of promotion positive, the timestamps a set of them).

`GraphTypeOK` is not inductive on its own in the way one wants, and
`ConfirmationIsEarned` not without types: whether a merge of evidence keeps an
attribution earned depends on it being a record of the right shape with a
strength up to date. The inductive invariant `GraphInv` says that both maps hold
only `EarnedAttribution`s: well-typed and earned at once. The argument has three
layers.

1. *Maps*: `Put`, `Keep` and `Without` keep a map into a set a map into it.
2. *Attributions*: each way the code makes one yields an earned one
   (`CandidateEarned`, `ChildEarned`), each way it changes one keeps it earned
   (`WithEvidenceEarned`, `ApplyRoleEarned`, `UpgradedEarned`). The heart is
   `ConfirmEarns`, with two facts: evidence that suffices is never weak (so the
   deadline is always cleared on confirmation), and more evidence never takes a
   confirmation away (`ReadyGrows`).
3. *Handlers*: one lemma per handler (`ForkIsSound`, ..., `SnapshotIsSound`),
   which `NextEarned` combines by cases.

The action properties say what a step may do to one entry, so each handler is
followed from the collection it begins with to the entries it writes, for an
arbitrary pid: a binding that is still there is the old one with more evidence,
an upgraded role or a confirmation, or a new one, which has another agent
(that is where no pid may be bound twice at one instant). A candidate past its
deadline does not survive the collection of any event, and what drains was an
exit's, to the nanosecond. `BegunInvariant` takes care of the time before the
first event, when only the snapshot has been there.

### The traced host

`TracedHostProofs` proves of `TracedHost`

- `HostInvariant`: `NumbersAreFresh => (HostSpec => []HostInv)`;
- `AttributionDescends`: `NumbersAreFresh => (HostSpec => []AttributionIsInherited)`;
- `ConfirmedMembersStay`: `NumbersAreFresh => (HostSpec => []MembersStay)`.

`NumbersAreFresh` is `ReuseDelay >= DrainTime /\ ThreadsRecycled = FALSE`: the
kernel does not give a number out again while the graph still drains its last
owner, nor ever the number of a thread. The code relies on both (numbers are
given out in turn, 32768 or more of them; a thread's number keeps its binding
for ever, section 6), and without either the properties are false.

`HostInv` ties host and graph together: what the graph knows of a live task,
bound or draining, is a session of that task's `ancestry`; a number that no task
has is not bound, and drains no longer than its process is dead (so a number the
kernel may give out again is unknown to the graph: `FreeIsUnknown`); a member of
a confirmed session without a second thread is bound there (`Stays`), for as long
as it lives, which is more than `MembersStay` asks. Each is needed for the next:
a child is attributed as its parent is, which is in its ancestry only if nothing
else is known under the child's number.

### The telemetry path

`TelemetryProofs` proves of `Telemetry`, for any objects, sources, CPUs, ring
capacities and number of events

- `TelemetryTypeCorrect`: `Spec => []TypeOK`;
- `UnsharedStreamsStayWhole`: `Spec => []UnsharedStreamsAreContiguous`;
- `NoEventUnaccounted`: `Spec => []EventsConserved`.

`StreamInv` follows the stream of one object on one CPU through ring and
channel: its records are in order in both, those in the channel are before those
in the ring, and together they are exactly the numbers between the last the
collector has seen and the last the hook gave out. So whatever is ingested next
is the successor, although rings are polled in any order and streams are mixed
in the channel. `CountInv` adds that the events under way are a finite set, and
counts.

### The retention store

`BoundedMapProofs` proves of `BoundedMap`, for any keys, values, capacity and
width of the counter above the capacity

- `MapInvariant`: `Spec => []Inv`;
- `IndexesStayInStep`: `Spec => []TypeOK`, through every wrap;
- `RefinesAgeOrder`: `Spec => EvictsOldestUntilWrap`, the refinement of
  `AgeOrderedMap`.

`Inv` says that the indexes are inverse to each other and that every number in
use is below the counter, except the one given out at a wrap. `resequence` is
covered by `Ranks`: renumbering by rank keeps the order and fits below the
capacity. The refinement is by steps: each of `Insert`, `Update` and `Retain`,
before the wrap, is the abstract operation of the same name under the mapping
that lists the entries by number.

### The capture policy

`CaptureHostProofs` proves of `CaptureHost`, for any processes, descriptors
(finitely many of them standard), times, whitelist and number of calls

- `CaptureInvariant`: `CaptureHostSpec => []CaptureInv`;
- `CaptureTypeCorrect`: `CaptureHostSpec => []CaptureTypeOK`;
- `WhitelistFollowsMirror`: `CaptureHostSpec => []MirrorFollowed`;
- `OnlyTheWantedIsCaptured`: `CaptureHostSpec => []NothingOvercaptured`;
- `TheWantedIsCaptured`: `CaptureHostSpec => []CaptureKept`.

There are two arguments. Towards the kernel: of the commands under way the last
about a key has the mirror's policy, and a key without a command has it in the
whitelist already, unless it has expired, the whitelist was full, or a hook's
delete took it. What a hook is about to delete has expired and stays so
(`condemned`), so if the key still has that very policy the delete takes nothing
in force; if it has another, the key is `robbed` until the next command about it.
A delete only makes the whitelist smaller, so what is there is the mirror's in
any case. Towards the host: the events of proc's ring are a path (`Chained`).
There is a *view* of the host (for each descriptor the policies it may be
captured under, and those it must be) before each of them and one after the last;
the mirror lies between the bounds of the first, each event leads from one view
to the next, and the last view is the host as it is. A call appends an event and
a view; the pipeline takes the first of each, and its handler moves the mirror as
the event moves the view. When nothing is under way the path has one view, and
mirror and host are compared directly. An event of open's ring only takes
policies away, so it never breaks the upper bound; processed out of its turn it
may break the lower one, which is the exception `overtaken` of `CaptureKept`.

### Detector and throttler

`AlertingProofs` proves of `Alerting`, for any events within the lag, any
windows, thresholds, capacities, sessions and keys

- `AlertingInvariant`: `Spec => []AlertInv`;
- `AlertingTypeCorrect`: `Spec => []TypeOK`;
- `AlertsStayApart`: `Spec => []AlertsAreApart`;
- `HeldBackGetsListed`: `Spec => []HeldBackIsListed`;
- `LoopsRest`: `Spec => LoopAlertsRest`.

The assumptions are those of the components and `AlertingAssumption` (the shapes
of a scenario are records of the fields an event has, gaps and lags are natural
numbers, lags up to `Lag`).

*The throttler.* What was told of a key agrees with its entry if it has one. A
key without one was told of the dedup time ago, or the table was full of other
keys alerted since; either outlasts what happens next (`ExcusedStays`), the
second as a statement about the history, since the table's keys come and go. An
entry's merged ids are all of those owed as long as these are few enough. A call
of `Emit` is a fold over the findings; `EmitWorks` follows it one finding at a
time, with `ProjectWorks` for each.

*The detector.* The counters of a session are functions of the events it keeps
(`Counted`): `PushCounted`, `PopCounted` and `PruneCounted` show that pushing,
popping and pruning keep them so, whatever the order of timestamps. The list of
sessions is in the order of last activity, which `active` knows (`Tracks`): so
the sessions the list has lost are exactly those the history calls idle or
crowded out (`Rank`: the sessions younger than the i-th are those after it). A
loop found in a session active ever since has its cooldown, or the cooldown is
over (`Rests`). A session whose own idle entry was dropped by the event at hand
begins anew with one event, which is too few for a finding: here the file
threshold must be above one.

### The IPC server

`IpcProofs` proves of `IpcServer`, for any topics and overflow policies, any
capacities, any limits and any number of frames:

- `IpcInvariant`: `Spec => []IpcInv`;
- `IpcTypeCorrect`: `Spec => []TypeOK`;
- `ClientsMissNothingSilently`: `Spec => []NothingIsMissedSilently`;
- `NoGapBetweenHistoryAndChannel`: `Spec => []HistoryMeetsChannel`;
- `PagingIsComplete`: `Spec => []PagesSkipNothing`.

The only assumption is `IpcAssumption` (a policy for each topic; capacities and
limits are positive, the number of frames is a natural number).

None of the three properties is inductive: each says what a client may conclude,
not why. `IpcInv` has four parts, each proved to be kept under the ones before
it.

1. `Typed`: the shapes of the state, with queries among those a client can
   write.
2. `Recorded`, what the history knows of the channel: it is ordered by cursor,
   everything in it is older than the next cursor, and it has *reached* every
   frame sent: its last item is no older. This is where the order of `publish_*`
   matters, and `FinishPublishing` needs that the frame under way was reached
   when it was pushed. The heart is `PushBoundedOrdered`: pushing, with or
   without an eviction, keeps all of it.
3. `Accounted`, where the receivers are: what was received and what was reported
   add up to the receiver's way, and on a topic that drops lagging clients the
   received frames are exactly a part of the channel. (`SubSeqOfAppend` and
   `SubSeqByOne` say that such a part does not change when the channel grows, and
   grows by one frame when one is taken.)
4. `Covered`, what pages have covered: up to the last item paged, whatever the
   history holds has been paged; when a page came back short, everything sent
   before the client was accepted is no later than its last item; a query under
   way starts no later than what has been paged. The heart is `PageCovers`: a
   page is the beginning of what was found (`TakeIsInitial`) and if it is short
   all of it (`ShortPageIsWhole`), and what was not found is not after the cursor
   and hence paged before.

`HistoryMeetsChannel` is the point where parts 2 and 4 meet: a short page covers
the history, and the history has reached all that was sent.

### Descriptors and endpoints

`DescriptorHostProofs` proves of `DescriptorHost`, for any pids, descriptors,
paths, links and peers, any capacities and any number of calls:

- `EndpointInvariant`: `Spec => []EndpointInv`;
- `AttributionIsReal`: `Spec => []FullEndpointsAreReal`;
- `FullInvariant`: `Spec => []FullInv`;
- `ConnectedAreAttributed`: `Spec => []ConnectedStreamsAreAttributed`;
- `DescriptorTypeCorrect`: `Spec => []TypeOK`.

The assumptions are those of the components and `HostAssumption` (pids and
descriptors are natural numbers, 1 among the pids, since a process runs when
tracing starts; a link that is linked again was one; no endpoint is no peer).

`FullEndpointsAreReal` compares what the daemon says of a *past* write with the
kernel's table of that time, while events still wait in the rings. So the
invariant speaks of *views*: the view of a process is the peer of each of its
sockets and the descriptor of each of its SSL objects. For each process whose
history has none of the property's exceptions there is a chain of views
(`Chain`), one for each event that waits and one more: what StateNet knows is
true of the first, each event of the process `Leads` from its view to the next,
and the last is the process as the kernel has it. StateNet knowing less than a
view is no error (it forgets when a store is full, and an event may tell it
less): `TrueOf` compares only what is known. Between events a view only grows
(`Grew`: a socket gets a peer, an SSL object is freed), which makes nothing known
of it false; what shrinks it unreported is among the exceptions. Of a pid never
used nothing is known, which is what a fork starts from.

A step of the host appends to the chain or lets its last view grow
(`WaitingKeeps`, `QuietKeeps`, with one lemma per call for the view it makes); a
delivery takes the first view off, and `ApplyNetWorks` shows that every entry
StateNet has after an event was there before or comes from the event, so what it
knows is true of the next view. Deliveries out of order and losses put the
processes they touch among the exceptions (`overtaken`, `lost`).

`ConnectedStreamsAreAttributed` is the converse, that StateNet says so whenever it
should, and needs bounds from below on what the stores keep. `FullInv` speaks of the
processes with no exception at all in their history. StateNet knows the first view
of such a process *in full* (`FullOf`): every connected socket, and every SSL
object that has its descriptor, at the current version of that descriptor. Each
event of the process `Tells` all that the next view has and the last had not, and
bumps no version of a descriptor that an SSL object still has (`FullChain`).
`ApplyNetPreserves` says what an event leaves in the stores: all but what the event
itself is about and what the history marks as pushed out or expired (`Forgotten`).
That an event of one process does not take an entry of another is clear of the
keys; that the *kernel's* call does not is `Own`: the sockets of such a process
have one descriptor each and no live process shares them, for what is shared or
duplicated is marked when it becomes so, and its SSL objects have open
descriptors.

`TypeOK` needs no history: `NormalizeWorks` follows `apply` through collection,
handler and eviction, showing of each list that it names every process of its
table once (`Listing`).

### Correlation

`CorrelationProofs` proves of `Correlation`, for any processes, scenarios of calls,
delays, windows and capacities

- `CorrelationInvariant`: `Spec => []IInv`;
- `CorrelationTypeCorrect`: `Spec => []TypeOK`;
- `ChainsTellWhatHappened`: `Spec => []ChainsArePropagated`;
- `SecretsStayMasked`: `Spec => []ExcerptsAreMasked`;
- `AwarenessInvariant`: `Spec => [](IInv /\ FoundInv)`;
- `InjectionsGetFound`: `Spec => []InjectionsAreFound`.

The assumptions are those of the components and `CorrelationAssumption` (calls are
records of the fields a call has, gaps are natural numbers, and a text has the word
`body`, which stands for a line of a PEM block, only inside of one).

`IInv` is `HostOK /\ DaemonOK(Daemon)`. `DaemonOK` takes the daemon's variables as one
record, so that each handler is followed by a lemma of its own
(`TakePromptWorks`, ...) and the steps only combine them. There are four arguments.

*What a chain names* (`ChainTells`). Everything the correlator keeps, from the
lineage of a file through the read that waits and the matched prompt to the chain,
names events of the history of processed events, `seen`, with the process, the
session, the path and the time the chain will say. History only grows, so what is
kept stays true however the stores are pruned, evicted and written over. The order
of a chain's parts needs the host: the ring of file events hands over in the
order of the clock, so the opening for writing that a read finds in the lineage is
no later than the read (`OpensBy`); prompts come through another ring and are
compared by their times.

*The bookkeeping.* A read that waits has its token in the order in which reads are
given up, once, and the totals kept beside the map count the artifacts and
tokens. So the loops of `enforce_bounds`, which take one token at a time until the
total is within its bound, do get there: as long as the total is too large there
is a token, and each takes an artifact away or is spent.

*The texts.* `Related` says of two texts what any match of the correlator amounts
to: they are equal, share a word, or are both too short to tell. `Redacted` says of
an excerpt that it has no secret word and no line of a PEM block. Both are facts
about recursive functions over the words of a text, proved without induction.

*What is not forgotten* (`FoundInv`). The converse of the first argument: of what
was processed, what is recent is still in the stores. `InjectionsAreFound` speaks
only of histories for which the stores have room (`Room`) and of reads that no
processed event has made too old (`Young`), so `DaemonAware` says, under these
conditions, what each store knows: the lineage the last writer of each file
(`WritersKnown`), the reads that wait every read of another's text no older
prompt has come after (`ReadsKnown`), the candidates every prompt that said it
again, with a score above that of any other text (`MatchesKnown`, `MatchesTold`),
the prompt store every recent prompt (`PromptsKnown`). `Bounded` is why there is
room: each store holds at most as many entries as there were events of its
kind, so the loops of `enforce_bounds` find nothing to take (`RoomFacts`,
`EnforceIdles`). `FoundInv` adds that an event is processed once
(`FlightNumbered`), so that the chains already emitted are of other events
(`EmittedOK`) and none of this one is taken for a repetition. The last link is
`InjectionMatched`: the best candidate of the prompt quotes its very words, because
only those score 30 or more.

The attempt to prove `InjectionsAreFound` in an earlier form showed that it was
true only at the bounds of the run. What it now excepts (`SaidAgain`, `StillKnown`)
is what the code does: an event of another ring that is younger, processed
first, ages out what was read; a pair of a read and a prompt each may take a
place among the candidates; and a text written again after the prompt, and read,
makes the artifact younger than the prompt it was found in.

### What is only model-checked

- The liveness properties and fairness, out of the prover's reach.
- Everything of `ContentStreams`. What its operators on streams compute for every
  input (`Framing`) would need induction over data; and that MCP anomalies are
  exactly the collisions depends on the shape of the messages in the runs and on
  bounds larger than what they carry, so that it is not true for every value of
  the constants.
- Of `DescriptorHost`, `PathsLeadThere`: that the lexical resolution of a path
  and the walk the kernel makes lead to the same file (again induction over data,
  and it depends on the links of the runs, whose targets lead through no link).

Recursive *functions* are unfolded in the proofs where it matters (`Emit`, the
pruning of a window, `Tell`): the function is the `CHOOSE` of its equation,
exists because there is no least index at which it does not, and a fact about
its values holds because there is no least counterexample (`Least`).

## 5. Plan

What is left, in order of importance.

1. Theorems about the parts of `ContentStreams` that do not touch texts
   (`CollisionsAreNoticed` and `AnomaliesAreCollisions`, with the assumptions about
   messages under which they hold).
2. One composition of the whole pipeline, with attribution by the graph where
   `ContentCapture`, `Alerting` and `Correlation` now choose roles and sessions.
   The orders between the handlers of one event are in the parts already; what
   the composition would add is an attribution that changes between the events
   of one chain.
3. The metrics topic of the IPC server, a watch channel whose receivers skip
   frames by design.

## 6. Known weaknesses

What the code does wrong or imprecisely, as met while modelling. Each is an
exception in a property, a choice left out by a named bound, or the subject of a
violated run.

*Kernel and worker*

- The end of a thread is taken for the end of its process, by graph, normalizer
  and capture policy (`bpf/proc.bpf.c:170`), while a thread's own number keeps
  its binding and captures for ever (`bpf/proc.bpf.c:188`).
- An event refused by a full ring leaves no gap in the sequence
  (`bpf/content_io.bpf.c:136`), nor in the stream it belonged to.
- Two BPF objects with counters of their own feed one source, so the collector
  reports losses that did not happen (`collector/src/core.rs:118`).
- The stream offset is read and stored without atomicity
  (`bpf/tls_uprobe.bpf.c:127`).
- A hook that finds an expired policy deletes by key, and takes a policy the worker
  has written since it looked (`bpf/content_io.bpf.c:93`). The pipeline's mirror
  keeps that policy, so nothing repairs it until the next command about the key:
  the descriptor is not captured meanwhile.
- No hook follows `fcntl(F_DUPFD)`: a descriptor it makes is not captured.
- exec closes the close-on-exec descriptors and no event says so
  (`bpf/proc.bpf.c:144`): a descriptor opened later under the number is captured
  as the old one was.

*Driver*

- The inner drain loop has no await and no bound (`driver.rs:506`): as long as
  events keep coming neither shutdown nor the health tracker is looked at.
- An error while an event is processed leaves by return, past the shutdown of
  the IPC server and the last flush of the sink (`driver.rs:540`).

*Attribution*

- A child forked by a candidate keeps the candidate's state and deadline and is
  dropped at it, though the root was confirmed meanwhile
  (`graph/src/state.rs:434`).
- A session does not end with its root: `on_exit` (`graph/src/state.rs:442`) drains
  the binding of the exiting process and no other, so each descendant stays
  attributed for as long as it lives. `docs/设计方案文档.md:122` has the session
  evicted five minutes after `root_pid` exits. `MembersStay` claims only what both
  agree on; that the code goes on is in the inductive invariant (`Stays`).
- A child forked by an exited candidate that still drains, after the
  candidate's deadline, inherits a deadline that is over and is dropped at the
  next event: what drains is not checked for it (`graph/src/state.rs:499`).
- Environment evidence is kept by pid and never removed
  (`graph/src/state.rs:136`).

*Descriptors and paths*

- `dup2(fd, fd)` ends the capture of the descriptor (`pipeline.rs:419`).
- A chdir that failed moves the directory all the same; a dup2 that failed
  closes its target (`normalizer/src/state/apply.rs:173`).
- `..` and links are resolved lexically and by the daemon's own view, and the
  path cache is never invalidated (`normalizer/src/state/path.rs:33`).
- A link that is unlinked or renamed is named by where it leads, if it leads to
  a sensitive place or was found outside the workspaces, since its name is
  resolved as that of an opened file (`path.rs:33`, `path.rs:78`): the deletion
  of a link is told as the deletion of its target.
- A process whose directory, or an open one, is renamed is followed under the old
  name (`apply.rs:274`).
- A fork by a thread that is not the first is looked up under the thread's own
  number (`apply.rs:57`), where the directory and descriptors are those of the
  time the thread was started, or none.
- A TLS fragment that overtakes the close of its socket is attributed, with full
  visibility, to the peer before (`state-net/src/state.rs:249`). A connect that
  failed overrides the endpoint (`:309`). `StateNet` does not see exits, so a
  process with a used number inherits descriptors and associations.

*Content*

- The two directions of an MCP object share one buffer (`mcp.rs:62`): a message
  half sent in one while something comes in the other is glued to it, and
  neither is recognized.
- If the line break that ends the last chunk of a body comes in a later call than
  the chunk, it is left at the head of the stream (`http.rs:104`). An HTTP message
  behind it is then taken for neither HTTP nor JSON, and no prompt of the stream is
  found any more (the cause `"split before break"` of `ContentStreams`, an
  exception of `CleanStreamsDeliver`).

*Detection and alerts*

- The cooldown of a session goes with its idle entry (`deadloop.rs:111`).
- Two MCP-spoofed tools of one session within the throttle window make one
  alert: the key does not name the tool (`alert/src/record.rs`).
- Ids merged while an alert is held back are lost when another key's finding
  prunes the entry first (`record.rs:413`).

*Correlation*

- A prompt processed after a read but stamped before it deletes the pending read
  (`capi.rs:311`).
- The time a store is pruned at is that of the event being processed: a younger
  event of another ring ages out reads and prompts that an event still waiting
  would have met (`capi.rs:422`).
- The same text of the same file and writer is one artifact, as old as its last
  write: written and read again after a prompt that quotes it, it is younger than
  the prompt, and the chain is refused (`artifact.rs:90`, `chain.rs:166`).
- A match by substring scores too little ever to reach the threshold of
  `capi_cross_session_weak_match`, which is thus never raised
  (`correlator/src/chain.rs`, `detectors/src/capi.rs`).
- Two texts of less than five bytes have the same minhash, that of the empty
  set of shingles.
- A secret within a longer token is not masked (`redaction.rs:60`).

*IPC*

- A query that reaches the server in two pieces may be answered with a decode
  error: the read is not cancellation-safe in `select!` (`ipc.rs:631`).

## 7. Not modelled, and why

- **Wire formats** (records of the rings, IPC frames, NDJSON): encodings without
  state. An error of theirs is an outcome in `IpcServer` and `Telemetry`.
- **Enrichment, preflight, entry point**: start-up I/O and readings of `/proc`.
  What they yield is nondeterministic evidence in `Graph`; the snapshot of
  processes at start is an event of it.
- **Command line client**: I/O; the client of `IpcServer` stands for it.
- **Performance and replay harness**: test tooling, not part of the daemon.
- **Metrics log and metrics topic, IPC projections, peer checks and socket
  files**: formatting and operating-system calls without a decision that the
  properties above depend on.
- **The wording of findings and alerts, JSON schema, home-directory shortening**:
  layout.
