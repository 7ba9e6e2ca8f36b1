------------------------------ MODULE Telemetry ------------------------------
(***************************************************************************)
(* The telemetry path end to end: BPF programs, ring buffers, the worker   *)
(* thread, the collector in the driver's loop, and the health tracker that *)
(* decides how far alerts must be degraded, until SIGTERM or the death of  *)
(* the worker ends the daemon.  The questions are what the collector's     *)
(* reports are worth, what becomes of an event, and whether the daemon     *)
(* stops when it must.                                                     *)
(***************************************************************************)
EXTENDS EventRings, Collector, RuntimeHealth

VARIABLES
    phase,                 \* where the driver's loop is: "sleep", "drain",
                           \* "stopped" or "failed"
    asked,                 \* has SIGTERM been sent?
    worker,                \* the worker thread: "running", "failed" or "joined"
    detail_evictions_total \* what the pipeline's stores have given up

loop_vars == <<phase, asked, worker>>
vars == <<ring_vars, collector_vars, health_vars, loop_vars, detail_evictions_total>>

CONSTANT MaxEvictions      \* bound on detail_evictions_total

Init ==
    /\ RingInit
    /\ CollectorInit
    /\ HealthInit
    /\ phase = "sleep"
    /\ asked = FALSE
    /\ worker = "running"
    /\ detail_evictions_total = 0

\* A hook runs on some CPU, as long as the BPF objects are loaded.
Fire(obj, cpu) ==
    /\ worker = "running"
    /\ ReserveFails(obj, cpu) \/ Submit(obj, cpu)
    /\ UNCHANGED <<collector_vars, health_vars, loop_vars, detail_evictions_total>>

Poll(obj) ==
    /\ worker = "running"
    /\ Forward(obj)
    /\ UNCHANGED <<collector_vars, health_vars, loop_vars, detail_evictions_total>>

\* The worker's thread ends with an error: a poll failed, or the kernel refused
\* a capture command.  The objects go with it.
WorkerFails ==
    /\ worker = "running"
    /\ worker' = "failed"
    /\ UNCHANGED <<ring_vars, collector_vars, health_vars, phase, asked,
                   detail_evictions_total>>

Signal ==
    /\ ~asked
    /\ asked' = TRUE
    /\ UNCHANGED <<ring_vars, collector_vars, health_vars, phase, worker,
                   detail_evictions_total>>

\* select!, whose first branch has the precedence: the sleep ends and nobody
\* has asked to stop.
Wake ==
    /\ phase = "sleep"
    /\ ~asked
    /\ phase' = "drain"
    /\ UNCHANGED <<ring_vars, collector_vars, health_vars, asked, worker,
                   detail_evictions_total>>

\* The next buffered record is taken and processed.
Take ==
    /\ phase = "drain"
    /\ channel # <<>>
    /\ ProcessRecord(Head(channel))
    /\ channel' = Tail(channel)
    /\ \E evicted \in {0, 1} :
          /\ detail_evictions_total + evicted <= MaxEvictions
          /\ detail_evictions_total' = detail_evictions_total + evicted
    /\ UNCHANGED <<seqs, ring, fired, lost, health_vars, asked>>

\* The inner loop of the driver, one record at a time.
Receive == Take /\ UNCHANGED <<phase, worker>>

\* An error while a record is processed (an alert cannot be written, a capture
\* command cannot be sent as the worker has failed) leaves the loop by return,
\* and what is buffered behind the record with it; the worker is joined by drop.
Abort ==
    /\ Take
    /\ phase' = "failed"
    /\ worker' = "joined"

\* Nothing is buffered: health is judged if HEALTH_UPDATE_INTERVAL has elapsed.
Tick ==
    /\ phase = "drain"
    /\ channel = <<>>
    /\ worker = "running"
    /\ phase' = "sleep"
    /\ \/ UpdateHealth(raw_events_total, reorder_or_drop_total, detail_evictions_total)
       \/ UNCHANGED health_vars
    /\ UNCHANGED <<ring_vars, collector_vars, asked, worker, detail_evictions_total>>

Judge == Tick /\ UpdateHealth(raw_events_total, reorder_or_drop_total,
                              detail_evictions_total)

\* A slip: the end of the channel is taken for an empty channel.
IgnoreDisconnect ==
    /\ phase = "drain"
    /\ channel = <<>>
    /\ worker = "failed"
    /\ phase' = "sleep"
    /\ UNCHANGED <<ring_vars, collector_vars, health_vars, asked, worker,
                   detail_evictions_total>>

\* worker_exit_error: what the worker had sent is taken, then the loop returns.
Disconnected ==
    /\ phase = "drain"
    /\ channel = <<>>
    /\ worker = "failed"
    /\ phase' = "failed"
    /\ UNCHANGED <<ring_vars, collector_vars, health_vars, asked, worker,
                   detail_evictions_total>>

\* The loop is left and the worker joined, whose error ends the daemon before
\* the IPC server is shut down and the sink flushed.
Stop ==
    /\ phase = "sleep"
    /\ asked
    /\ phase' = IF worker = "failed" THEN "failed" ELSE "stopped"
    /\ worker' = "joined"
    /\ UNCHANGED <<ring_vars, collector_vars, health_vars, asked, detail_evictions_total>>

Next ==
    \/ \E obj \in Objects, cpu \in Cpus : Fire(obj, cpu)
    \/ \E obj \in Objects : Poll(obj)
    \/ Wake
    \/ Receive
    \/ Abort
    \/ Tick
    \/ Disconnected
    \/ Stop
    \/ WorkerFails
    \/ Signal

\* The worker polls, the driver sleeps, drains and ticks, as long as they run;
\* the interval elapses again and again (a tick that judges is enabled over and
\* over, not continuously).  Nothing obliges a hook to run, anything to fail or
\* anyone to ask for the end.
Fairness ==
    /\ \A obj \in Objects : WF_vars(Poll(obj))
    /\ WF_vars(Wake)
    /\ WF_vars(Receive)
    /\ WF_vars(Tick)
    /\ WF_vars(Disconnected)
    /\ WF_vars(Stop)
    /\ SF_vars(Judge)

Spec == Init /\ [][Next]_vars /\ Fairness
-----------------------------------------------------------------------------
\* The state is well-typed.
TypeOK ==
    /\ seqs \in [Objects -> [Cpus -> Nat]]
    /\ ring \in [Objects -> Seq(Record)]
    /\ channel \in Seq(Record)
    /\ fired \in Nat
    /\ lost \in Nat
    /\ CollectorTypeOK
    /\ HealthTypeOK
    /\ phase \in {"sleep", "drain", "stopped", "failed"}
    /\ asked \in BOOLEAN
    /\ worker \in {"running", "failed", "joined"}
    /\ detail_evictions_total \in Nat

\* The records that wait in a ring, by ring and place.
Waiting == UNION {{obj} \X (1 .. Len(ring[obj])) : obj \in Objects}

\* No event is counted twice or forgotten on its way: what the hooks saw is
\* what was refused by a full ring, is waiting, or was handed to the collector
\* exactly once (worker callback, channel, process_bytes).
EventsConserved ==
    fired = lost + Cardinality(Waiting) + Len(channel) + raw_events_total

\* The objects that emit content fragments.
Fragmenting == {"tls", "content"}

Ingested == out[Len(out)].rec
Reported == Len(out) = 2

\* But for the two objects that emit content fragments, a stream reaches the
\* collector in the order and with every number the kernel gave it, so the
\* collector has nothing to report, however the rings are polled and however
\* many reservations failed (next_seq, the rings, seq_source).
UnsharedStreamsAreContiguous ==
    out # <<>> /\ Reported => Ingested.obj \in Fragmenting

Ended == phase \in {"stopped", "failed"}

\* Everything that got into a ring is ingested in the end, unless the worker
\* fails or the daemon is stopped before.
EverySubmittedEventIngested ==
    <>[](worker # "running" \/ raw_events_total = fired - lost)

\* Once events stop, no degradation but the configured one outlives the
\* windows that caused it.
PressureSubsides ==
    <>[](worker # "running" \/ degradation_sources \subseteq {SmallRingbuf})

\* Asked to stop, the daemon stops, and it does not go on blind after its
\* worker has failed, however full the channel is (the select! of
\* run_with_source_and_sink, try_recv).  That the events pause for a moment is
\* assumed: the inner loop looks at nothing else (MaxFired bounds them).
EndsWhenItMust == (asked \/ worker = "failed") ~> Ended
=============================================================================
