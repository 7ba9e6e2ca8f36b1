--------------------------- MODULE DeadloopDetector ---------------------------
(***************************************************************************)
(* DeadloopDetector: for each session what it connected to and opened in a *)
(* sliding window, with the counts of each, and until when a session that  *)
(* has been reported is left alone.  Its state is a record d; Deadloop is  *)
(* one call of DeadloopDetector::apply.                                    *)
(***************************************************************************)
EXTENDS AgeList, Maps

CONSTANTS
    LoopWindow,        \* DEADLOOP_WINDOW_S
    LoopCooldown,      \* DEADLOOP_ALERT_COOLDOWN_S
    ConnectThreshold,  \* DEADLOOP_CONNECT_RATE_PMIN by the minutes of the window
    FileThreshold,     \* DEADLOOP_FILE_REPEAT, more than one
    PromptThreshold,   \* DEADLOOP_PROMPT_DUP
    LoopCapacity       \* MAX_DEADLOOP_SESSIONS

ASSUME LoopAssumption ==
    /\ {LoopWindow, LoopCooldown} \subseteq Nat
    /\ {ConnectThreshold, FileThreshold, PromptThreshold, LoopCapacity} \subseteq Nat \ {0}
    /\ FileThreshold # 1

NewDetector == [sessions |-> <<>>, cooldown |-> EmptyMap]
NewLoopSession == [events |-> <<>>, connects |-> EmptyMap, files |-> EmptyMap, progress |-> 0]

CountOf(counts, key) == IF key \in DOMAIN counts THEN counts[key] ELSE 0

\* decrement_count
Decremented(counts, key) ==
    IF CountOf(counts, key) <= 1 THEN Without(counts, key)
    ELSE [counts EXCEPT ![key] = @ - 1]

One(condition) == IF condition THEN 1 ELSE 0

\* DeadloopSession::push.  An activity is [kind, object, ts, id, progress].
Push(s, activity) ==
    [events |-> Append(s.events, activity),
     connects |-> IF activity.kind = "net_connect"
                  THEN Put(s.connects, activity.object, CountOf(s.connects, activity.object) + 1)
                  ELSE s.connects,
     files |-> IF activity.kind = "file_access"
               THEN Put(s.files, activity.object, CountOf(s.files, activity.object) + 1)
               ELSE s.files,
     progress |-> s.progress + One(activity.progress)]

\* A slip: progress made long ago still counts.
PopFrontKeepingProgress(s) ==
    LET oldest == Head(s.events)
    IN  [s EXCEPT !.events = Tail(@),
                  !.connects = IF oldest.kind = "net_connect"
                               THEN Decremented(@, oldest.object) ELSE @,
                  !.files = IF oldest.kind = "file_access"
                            THEN Decremented(@, oldest.object) ELSE @]

\* DeadloopSession::pop_front
PopFront(s) ==
    LET oldest == Head(s.events)
    IN  [events |-> Tail(s.events),
         connects |-> IF oldest.kind = "net_connect"
                      THEN Decremented(s.connects, oldest.object) ELSE s.connects,
         files |-> IF oldest.kind = "file_access"
                   THEN Decremented(s.files, oldest.object) ELSE s.files,
         progress |-> s.progress - One(oldest.progress)]

\* prune_before: from the front, up to the first event still in the window.
PruneBefore(s, now) ==
    LET old(i) == s.events[i].ts + LoopWindow < now
        leading == Cardinality({i \in DOMAIN s.events : \A j \in 1 .. i : old(j)})
        pruned[n \in 0 .. leading] == IF n = 0 THEN s ELSE PopFront(pruned[n - 1])
    IN  pruned[leading]

\* is_expired: by the event that came last.
IsExpired(s, now) == s.events = <<>> \/ Last(s.events).ts + LoopWindow < now

\* A slip: a session reported is left alone by the clock of its last event.
PruneAllCooldowns(d, now) ==
    LET expired == {x \in KeysIn(d.sessions) : IsExpired(ValueOf(d.sessions, x), now)}
    IN  [sessions |-> RemoveKeys(d.sessions, expired),
         cooldown |-> Keep(d.cooldown, {x \in DOMAIN d.cooldown \ expired :
                                           d.cooldown[x] > now + LoopWindow})]

\* prune_expired: the cooldown of an expired session goes with it.
PruneExpired(d, now) ==
    LET expired == {x \in KeysIn(d.sessions) : IsExpired(ValueOf(d.sessions, x), now)}
    IN  [sessions |-> RemoveKeys(d.sessions, expired),
         cooldown |-> Keep(d.cooldown, {x \in DOMAIN d.cooldown \ expired : d.cooldown[x] > now})]

\* insert_session: so does that of one pushed out.
InsertSession(d, x, s) ==
    LET sessions == InsertYoungest(d.sessions, x, s, LoopCapacity)
    IN  [sessions |-> sessions,
         cooldown |-> Keep(d.cooldown, DOMAIN d.cooldown
                              \ (KeysIn(d.sessions) \ KeysIn(sessions)))]

\* The most frequent object, the greatest of several.
Top(counts) ==
    CHOOSE key \in DOMAIN counts :
        \A other \in DOMAIN counts :
            counts[other] < counts[key] \/ (counts[other] = counts[key] /\ other <= key)

Reaches(counts, threshold) == \E key \in DOMAIN counts : counts[key] >= threshold

\* match_rules: two rules of three, while less than one event in twenty is
\* progress.
Matches(s, repeats) ==
    /\ Len(s.events) >= FileThreshold
    /\ 20 * s.progress < Len(s.events)
    /\ One(Reaches(s.connects, ConnectThreshold)) + One(Reaches(s.files, FileThreshold))
          + One(repeats >= PromptThreshold) >= 2

\* The id of the prompt the session keeps repeating.
RepeatedPrompt == 0

\* deadloop_finding: the first event of each rule that holds is its evidence.
LoopFinding(session, s, repeats, now) ==
    LET first(kind, counts, threshold) ==
            IF ~Reaches(counts, threshold) THEN <<>>
            ELSE <<s.events[CHOOSE i \in DOMAIN s.events :
                       /\ s.events[i].kind = kind /\ s.events[i].object = Top(counts)
                       /\ \A j \in 1 .. i - 1 : ~(s.events[j].kind = kind
                                                 /\ s.events[j].object = Top(counts))]>>
        file == first("file_access", s.files, FileThreshold)
        evidence == first("net_connect", s.connects, ConnectThreshold) \o file
        prompt == IF repeats >= PromptThreshold THEN <<RepeatedPrompt>> ELSE <<>>
    IN  [type |-> "SingleAgentDeadloop", session |-> session, ts |-> now,
         reason |-> "deadloop_core_no_progress",
         object |-> IF file = <<>> THEN 0 ELSE file[1].object,
         ids |-> [i \in DOMAIN evidence |-> evidence[i].id] \o prompt,
         visibility |-> "full", score |-> 0]

\* DeadloopDetector::apply, for the activities of an event (one or none).
Deadloop(d, session, activities, repeats, now) ==
    LET pruned == PruneExpired(d, now)
        prior == IF session \in KeysIn(pruned.sessions)
                 THEN ValueOf(pruned.sessions, session) ELSE NewLoopSession
        s == PruneBefore(Push(prior, activities[1]), now)
        noted == InsertSession(pruned, session, s)
        resting == session \in DOMAIN noted.cooldown /\ noted.cooldown[session] > now
    IN  IF activities = <<>> THEN [d |-> pruned, findings |-> <<>>]
        ELSE IF resting \/ ~Matches(s, repeats) THEN [d |-> noted, findings |-> <<>>]
        ELSE [d |-> [noted EXCEPT !.cooldown = Put(@, session, now + LoopCooldown)],
              findings |-> <<LoopFinding(session, s, repeats, now)>>]
=============================================================================
