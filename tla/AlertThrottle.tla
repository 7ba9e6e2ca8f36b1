---------------------------- MODULE AlertThrottle ----------------------------
(***************************************************************************)
(* Alerts: what a finding becomes under the health of the runtime, and the *)
(* throttler that lets one alert of a key through in every ALERT_DEDUP     *)
(* seconds and keeps the ids of the events it held back for the next one.  *)
(* The table t maps a key to the alert last let through and those ids.     *)
(***************************************************************************)
EXTENDS Detectors

CONSTANTS
    AlertDedup,         \* ALERT_DEDUP_SECS
    MaxMerged,          \* how many ids of events held back an entry keeps
    MaxThrottleEntries  \* MAX_ALERT_THROTTLE_ENTRIES

ASSUME ThrottleAssumption == {AlertDedup, MaxMerged, MaxThrottleEntries} \subseteq Nat \ {0}

\* PressureLevel
Pressures == {"nominal", "degraded", "critical"}

\* policy_for, before pressure: severity, band and score (in hundredths).
BasePolicy(finding) ==
    LET policy(severity, band, score) == [severity |-> severity, band |-> band, score |-> score]
    IN  CASE finding.type = "UnexpectedShell" -> policy(3, "medium", 62)
          [] finding.type = "SensitiveFileAccess" -> policy(3, "medium", 68)
          [] finding.type = "OutOfWorkspaceDeletion" -> policy(3, "medium", 66)
          [] finding.type = "SingleAgentDeadloop" -> policy(2, "medium", 62)
          [] finding.type = "McpToolSpoofing" -> policy(3, "medium", 72)
          [] finding.type = "ExecObserved" -> policy(1, "strong", 100)
          [] finding.reason = "capi_cross_session_weak_match" ->
                policy(3, "medium", Min({finding.score, 79}))
          [] finding.score >= 70 -> policy(4, "strong", finding.score)
          [] OTHER -> policy(3, "medium", finding.score)

\* policy_for, downgrade_severity, cap_band
PolicyFor(finding, pressure) ==
    LET policy == BasePolicy(finding)
    IN  IF finding.visibility = "full" /\ pressure = "nominal" THEN policy
        ELSE [severity |-> Max({policy.severity - 1, 1}), band |-> "medium",
              score |-> Min({policy.score, IF pressure = "critical" THEN 55 ELSE 70})]

\* combined_visibility, fallback_mode
FallbackMode(finding, pressure) ==
    IF finding.visibility = "full" /\ pressure = "nominal" THEN "none" ELSE "degraded"

\* throttle_key, of the alert the finding becomes.
ThrottleKey(finding, pressure) ==
    <<finding.session, finding.type, finding.reason, FallbackMode(finding, pressure),
      finding.object>>

\* build_from_finding_with_health
AlertOf(finding, pressure) ==
    [key |-> ThrottleKey(finding, pressure), ts |-> finding.ts, ids |-> finding.ids,
     policy |-> PolicyFor(finding, pressure)]

\* A difference of unsigned numbers: nothing is less than no time ago.
Since(earlier, later) == IF later > earlier THEN later - earlier ELSE 0

\* A slip: the last event held back replaces the earlier ones.
MergedOverwriting(merged, ids, room) == SubSeq(ids, 1, Min({room, Len(ids)}))

\* The ids not yet known are added, as long as there is room.
Merged(merged, ids, room) ==
    LET grown[i \in 0 .. Len(ids)] ==
            IF i = 0 THEN merged
            ELSE IF Len(grown[i - 1]) >= room \/ ids[i] \in Range(grown[i - 1]) THEN grown[i - 1]
            ELSE Append(grown[i - 1], ids[i])
    IN  grown[Len(ids)]

\* A slip: the entry with the youngest alert goes.
PrunedYoungest(t) ==
    IF Cardinality(DOMAIN t) <= MaxThrottleEntries THEN {t}
    ELSE {Without(t, key) : key \in {k \in DOMAIN t : \A other \in DOMAIN t :
                                          t[k].alert.ts >= t[other].alert.ts}}

\* prune_capacity, when one entry was inserted: the one with the oldest alert
\* goes (of several any: their keys are strings in no order of ours).
PrunedCapacity(t) ==
    IF Cardinality(DOMAIN t) <= MaxThrottleEntries THEN {t}
    ELSE {Without(t, key) : key \in {k \in DOMAIN t : \A other \in DOMAIN t :
                                          t[k].alert.ts <= t[other].alert.ts}}

\* project_with_health: the possible [t, alert] of a finding; an alert held
\* back is <<>>.  "held": the key had an entry.
Project(t, finding, pressure) ==
    LET alert == AlertOf(finding, pressure)
        key == alert.key
        kept == Keep(t, {k \in DOMAIN t : k = key \/ Since(t[k].alert.ts, alert.ts) < AlertDedup})
        entry == kept[key]
        listed == [alert EXCEPT !.ids = Merged(@, entry.merged, Len(@) + MaxMerged)]
        outcome(passed, said) == [alert |-> said, passed |-> passed, held |-> key \in DOMAIN t]
    IN  IF key \notin DOMAIN kept
        THEN {[t |-> pruned, outcome |-> outcome(TRUE, alert)] :
                 pruned \in PrunedCapacity(Put(kept, key, [alert |-> alert, merged |-> <<>>]))}
        ELSE IF Since(entry.alert.ts, alert.ts) < AlertDedup
        THEN {[t |-> [kept EXCEPT ![key].merged = Merged(@, alert.ids, MaxMerged)],
               outcome |-> outcome(FALSE, alert)]}
        ELSE {[t |-> [kept EXCEPT ![key] = [alert |-> listed, merged |-> <<>>]],
               outcome |-> outcome(TRUE, listed)]}

\* emit_finding, for one finding after the other: [t, outcomes].
Emit(t, findings, pressure) ==
    LET emitted[i \in 0 .. Len(findings)] ==
            IF i = 0 THEN {[t |-> t, outcomes |-> <<>>]}
            ELSE UNION {{[t |-> next.t, outcomes |-> Append(sofar.outcomes, next.outcome)] :
                            next \in Project(sofar.t, findings[i], pressure)} :
                        sofar \in emitted[i - 1]}
    IN  emitted[Len(findings)]
=============================================================================
