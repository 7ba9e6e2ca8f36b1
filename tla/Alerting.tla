------------------------------- MODULE Alerting -------------------------------
(***************************************************************************)
(* From the events of bound sessions to the alerts written: the detectors, *)
(* the throttler and the health of the runtime.  The clock is that of the  *)
(* host; events of different rings may reach the daemon late, by up to     *)
(* Lag.  Which events come is the matter of shapes: the fields the         *)
(* detectors look at, and the prompts, chains and MCP anomalies the other  *)
(* components have ready.  Bounds: a scenario names the shapes, how many   *)
(* events there are, the times between them, their lags and the pressures. *)
(***************************************************************************)
EXTENDS AlertThrottle

CONSTANTS
    Scenarios,   \* a set of [shapes, most, gaps, lags, pressures]
    Lag,         \* how late an event may come
    DryRun       \* --dry-run: execs are reported too

\* The fields of a shape: what the detectors look at and what is ready for them.
\* Events are numbered from 1, and prompts from 0 down.
Visibilities == {"full", "partial"}
Shapes ==
    [session : STRING, confirmed : BOOLEAN, kind : STRING, object : Nat, shell : BOOLEAN,
     allowed : BOOLEAN, failed : BOOLEAN, writes : BOOLEAN, inside : BOOLEAN,
     sensitive : BOOLEAN, resolved : BOOLEAN, exe : BOOLEAN, spoofed : Nat,
     prompts : Seq([id : {n \in Int : n <= 0}, visibility : Visibilities]), repeats : Nat,
     chains : Seq([id : Nat, score : Nat, weak : BOOLEAN, visibility : Visibilities])]

ASSUME AlertingAssumption ==
    /\ Lag \in Nat
    /\ \A s \in Scenarios :
          s.shapes \subseteq Shapes /\ s.gaps \subseteq Nat /\ s.lags \subseteq 0 .. Lag

VARIABLES
    scenario,  \* the scenario that runs
    clock,     \* the time of the youngest event
    count,     \* how many events came
    detector,  \* DetectorEngine.deadloop
    throttle,  \* AlertThrottler.entries
    outcomes,  \* what became of the findings of the last event
    told,      \* history: of each key the last alert's time and the ids held back since
    active,    \* history: the last activity of each session, [ts, count]
    loops      \* history: the last loop found in each session active ever since

vars == <<scenario, clock, count, detector, throttle, outcomes, told, active, loops>>

Init ==
    /\ scenario \in Scenarios
    /\ clock = 0
    /\ count = 0
    /\ detector = NewDetector
    /\ throttle = EmptyMap
    /\ outcomes = <<>>
    /\ told = EmptyMap
    /\ active = EmptyMap
    /\ loops = EmptyMap

\* What was told of a key before and after an outcome.
Untold == [ts |-> -1, owed |-> {}]
ToldOf(h, key) == IF key \in DOMAIN h THEN h[key] ELSE Untold
Remembered(h, outcome) ==
    Put(h, outcome.alert.key,
        IF outcome.passed THEN [ts |-> outcome.alert.ts, owed |-> {}]
        ELSE [ToldOf(h, outcome.alert.key) EXCEPT !.owed = @ \cup Range(outcome.alert.ids)])

\* The findings are emitted one after the other, and remembered.
Tell(findings, pressure) ==
    \E emitted \in Emit(throttle, findings, pressure) :
        LET h[i \in 0 .. Len(emitted.outcomes)] ==
                IF i = 0 THEN told ELSE Remembered(h[i - 1], emitted.outcomes[i])
        IN  /\ throttle' = emitted.t
            /\ outcomes' = [i \in DOMAIN emitted.outcomes |->
                               Put(emitted.outcomes[i], "before",
                                   ToldOf(h[i - 1], emitted.outcomes[i].alert.key))]
            /\ told' = h[Len(emitted.outcomes)]

\* The history of the sessions' activity at an event: a session idle for more
\* than LoopWindow, or not active since LoopCapacity others were, is forgotten.
Follow(ev, activities, loop) ==
    LET live == {s \in DOMAIN active : active[s].ts + LoopWindow >= ev.ts}
        all == IF activities = <<>> THEN Keep(active, live)
               ELSE Put(Keep(active, live), ev.session, [ts |-> ev.ts, count |-> ev.id])
        awake == {s \in DOMAIN all :
                     Cardinality({x \in DOMAIN all : all[x].count > all[s].count}) < LoopCapacity}
        ever == Keep(loops, live \cap awake)
    IN  /\ active' = Keep(all, awake)
        /\ loops' = IF loop THEN Put(ever, ev.session, ev.ts) ELSE ever

\* An event comes, its time up to Lag ago.
Happens(gap, lag) ==
    /\ count < scenario.most
    /\ lag <= clock + gap
    /\ clock' = clock + gap
    /\ count' = count + 1
    /\ UNCHANGED scenario

EventOf(shape, ts) == Put(Put(shape, "id", count + 1), "ts", ts)

\* process_owned_event: what the detectors find, the chains that end in it, and
\* the alerts.
Observe(shape, gap, lag, pressure) ==
    /\ Happens(gap, lag)
    /\ shape.kind # "content"
    /\ LET ev == EventOf(shape, clock + gap - lag)
           detected == IF ev.confirmed THEN Detected(detector, ev, DryRun)
                       ELSE [d |-> detector, findings |-> <<>>]
           findings == detected.findings
       IN  /\ detector' = detected.d
           /\ Tell(findings \o ChainFindings(ev, findings), pressure)
           /\ IF ev.confirmed
              THEN Follow(ev, Activities(ev),
                          \E i \in DOMAIN findings : findings[i].type = "SingleAgentDeadloop")
              ELSE UNCHANGED <<active, loops>>

\* process_content_fragment: the anomalies of a fragment of a bound process.
Content(shape, gap, lag, pressure) ==
    /\ Happens(gap, lag)
    /\ shape.kind = "content"
    /\ Tell(McpToolSpoofing(EventOf(shape, clock + gap - lag)), pressure)
    /\ UNCHANGED <<detector, active, loops>>

Next ==
    \E shape \in scenario.shapes, gap \in scenario.gaps, lag \in scenario.lags,
       pressure \in scenario.pressures :
        \/ Observe(shape, gap, lag, pressure)
        \/ Content(shape, gap, lag, pressure)

Spec == Init /\ [][Next]_vars
-----------------------------------------------------------------------------
\* The counts of a session are those of the events it keeps; only sessions kept
\* rest; the throttler keeps no more than it may.
TypeOK ==
    /\ clock \in Nat /\ count \in Nat
    /\ Len(detector.sessions) <= LoopCapacity
    /\ DOMAIN detector.cooldown \subseteq KeysIn(detector.sessions)
    /\ \A i \in DOMAIN detector.sessions :
          LET s == detector.sessions[i].value
              of(kind, object) == Cardinality({j \in DOMAIN s.events :
                                     s.events[j].kind = kind /\ s.events[j].object = object})
          IN  /\ \A object \in DOMAIN s.connects : s.connects[object] = of("net_connect", object)
              /\ \A object \in DOMAIN s.files : s.files[object] = of("file_access", object)
              /\ \A j \in DOMAIN s.events :
                    \/ s.events[j].kind = "unaddressed"
                    \/ s.events[j].object \in DOMAIN s.connects \cup DOMAIN s.files
              /\ s.progress = Cardinality({j \in DOMAIN s.events : s.events[j].progress})
    /\ Cardinality(DOMAIN throttle) <= MaxThrottleEntries
    /\ \A key \in DOMAIN throttle :
          /\ throttle[key].alert.key = key
          /\ IsInjective(throttle[key].merged) /\ Len(throttle[key].merged) <= MaxMerged

\* A session found looping that stays active is not found looping again before
\* DEADLOOP_ALERT_COOLDOWN_S have passed, give or take the lag of an event
\* (DeadloopDetector::apply; the sessions' own "10 minute cooldown").
LoopAlertsRest ==
    [][\A s \in DOMAIN loops \cap DOMAIN loops' :
          loops'[s] # loops[s] => loops'[s] + Lag >= loops[s] + LoopCooldown]_vars

\* Two alerts of one key are ALERT_DEDUP_SECS apart, give or take the lag of an
\* event, unless the throttler's capacity of other keys was alerted meanwhile
\* (AlertThrottler::project_with_health, prune_capacity).
AlertsAreApart ==
    \A i \in DOMAIN outcomes :
        LET said == outcomes[i].before
        IN  \/ ~outcomes[i].passed
            \/ said.ts < 0
            \/ outcomes[i].alert.ts + Lag >= said.ts + AlertDedup
            \/ Cardinality({key \in DOMAIN told \ {outcomes[i].alert.key} :
                               told[key].ts >= said.ts}) >= MaxThrottleEntries

\* When an alert's key still has its entry, the alert lists the events held back
\* since the last one: a suppressed finding is not lost (the merged event ids of
\* ThrottleEntry).
HeldBackIsListed ==
    \A i \in DOMAIN outcomes :
        (outcomes[i].passed /\ outcomes[i].held /\ Cardinality(outcomes[i].before.owed) <= MaxMerged)
            => outcomes[i].before.owed \subseteq Range(outcomes[i].alert.ids)
=============================================================================
