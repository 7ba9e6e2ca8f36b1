---------------------------- MODULE RuntimeHealth ----------------------------
(***************************************************************************)
(* RuntimeHealthTracker: every HEALTH_UPDATE_INTERVAL it compares the      *)
(* collector's counters with their values at the previous update and       *)
(* judges the pressure the daemon was under in between.                    *)
(***************************************************************************)
EXTENDS Naturals

\* drop_rate >= n/d, in integers: DROP_RATE_DEGRADE_THRESHOLD is 1/100 and
\* DROP_RATE_CRITICAL_THRESHOLD 5/100; small instances use coarser ratios.
CONSTANTS DegradeRatio, CriticalRatio

ASSUME RatioAssumption ==
    /\ DegradeRatio \in (Nat \ {0}) \X (Nat \ {0})
    /\ CriticalRatio \in (Nat \ {0}) \X (Nat \ {0})
    \* the critical threshold is the higher one
    /\ DegradeRatio[1] * CriticalRatio[2] <= CriticalRatio[1] * DegradeRatio[2]

VARIABLES
    pressure,                \* "full", "degraded" or "critical"
    degradation_sources,
    last_raw_events,
    last_drops,
    last_detail_evictions

health_vars == <<pressure, degradation_sources, last_raw_events, last_drops,
                 last_detail_evictions>>

SmallRingbuf == "configured_small_ringbuf"
DropRate == "ringbuf_drop_rate"
Eviction == "retention_eviction"

\* drops / raw >= ratio, where a window without events has rate 0.
AtLeast(drops, raw, ratio) ==
    raw # 0 /\ drops * ratio[2] >= ratio[1] * raw

\* initial_runtime_health
HealthInit ==
    /\ \/ pressure = "full" /\ degradation_sources = {}
       \/ pressure = "degraded" /\ degradation_sources = {SmallRingbuf}
    /\ last_raw_events = 0
    /\ last_drops = 0
    /\ last_detail_evictions = 0

\* A slip: sources of the previous window are kept.
SourcesSticky(drops, raw, evictions) ==
    degradation_sources
    \cup (IF AtLeast(drops, raw, DegradeRatio) THEN {DropRate} ELSE {})
    \cup (IF evictions > 0 THEN {Eviction} ELSE {})

\* The sources a window with these counts leaves: only the configured one
\* survives from the window before.
Sources(drops, raw, evictions) ==
    (degradation_sources \cap {SmallRingbuf})
    \cup (IF AtLeast(drops, raw, DegradeRatio) THEN {DropRate} ELSE {})
    \cup (IF evictions > 0 THEN {Eviction} ELSE {})

\* maybe_update when the interval has elapsed.
UpdateHealth(raw_total, drops_total, evictions_total) ==
    LET raw       == raw_total - last_raw_events
        drops     == drops_total - last_drops
        evictions == evictions_total - last_detail_evictions
        sources   == Sources(drops, raw, evictions)
    IN  /\ degradation_sources' = sources
        /\ pressure' = IF sources = {} THEN "full"
                       ELSE IF AtLeast(drops, raw, CriticalRatio) THEN "critical"
                       ELSE "degraded"
        /\ last_raw_events' = raw_total
        /\ last_drops' = drops_total
        /\ last_detail_evictions' = evictions_total

HealthTypeOK ==
    /\ pressure \in {"full", "degraded", "critical"}
    /\ degradation_sources \subseteq {SmallRingbuf, DropRate, Eviction}
    /\ last_raw_events \in Nat
    /\ last_drops \in Nat
    /\ last_detail_evictions \in Nat
=============================================================================
