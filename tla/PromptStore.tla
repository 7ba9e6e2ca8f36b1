----------------------------- MODULE PromptStore -----------------------------
(***************************************************************************)
(* PromptStore: the prompts of the sessions, the oldest given up first,    *)
(* and an index of them by session.  Its state is a record p; the          *)
(* operators are its methods.  A prompt's id tells its session, stream,    *)
(* start and normalized text.                                              *)
(***************************************************************************)
EXTENDS AgeList, Maps, TextMatching

CONSTANTS
    MaxPrompts,        \* MAX_PROMPTS
    CapiWindow,        \* CAPI_WINDOW_MS: how long prompts, reads and matches count
    RiskWindow,        \* risk_window_ns: kind of event -> how far back a prompt is linked
    PromptWindow,      \* PROMPT_WINDOW_MS
    PromptRepeats      \* DEADLOOP_PROMPT_DUP

ASSUME PromptAssumption ==
    /\ {CapiWindow, PromptWindow} \subseteq Nat /\ {MaxPrompts, PromptRepeats} \subseteq Nat \ {0}
    /\ \A kind \in DOMAIN RiskWindow : RiskWindow[kind] \in Nat

NewPromptStore == [prompts |-> <<>>, sessions |-> EmptyMap]

IdsOf(p, session) == IF session \in DOMAIN p.sessions THEN p.sessions[session] ELSE <<>>

PromptOf(p, id) == ValueOf(p.prompts, id)

\* filter_map: the ids the store still has a prompt of.
KnownIds(p, session) == InOrder(IdsOf(p, session), KeysIn(p.prompts))

\* remove_session_entries
RemoveSessionEntries(sessions, ids) ==
    LET left == [s \in DOMAIN sessions |-> InOrder(sessions[s], Range(sessions[s]) \ ids)]
    IN  Keep(left, {s \in DOMAIN left : left[s] # <<>>})

\* A slip: the prompts go, and the index still names them.
EvictSessionKeepingIndex(p, session, now) ==
    [p EXCEPT !.prompts = SelectSeq(@, LAMBDA entry :
        entry.value.session # session \/ entry.value.ts + CapiWindow >= now)]

\* evict_session: from the front, up to the first prompt still in the window
\* (max_prompt_retention_ns).  The session keeps its entry when it has no
\* prompt left.
EvictSession(p, session, now) ==
    LET ids == IdsOf(p, session)
        old(i) == ids[i] \in KeysIn(p.prompts) /\ PromptOf(p, ids[i]).ts + CapiWindow < now
        leading == Cardinality({i \in DOMAIN ids : \A j \in 1 .. i : old(j)})
    IN  IF leading = 0 THEN p
        ELSE [prompts |-> RemoveKeys(p.prompts, Range(SubSeq(ids, 1, leading))),
              sessions |-> Put(p.sessions, session, SubSeq(ids, leading + 1, Len(ids)))]

\* insert, of [session, stream, ts, text, visibility].
PromptId(input) == <<input.session, input.stream, input.ts, Norm(input.text)>>

InsertPrompt(p, input) ==
    LET id == PromptId(input)
        prompts == InsertYoungest(p.prompts, id, input, MaxPrompts)
        ids == IdsOf(p, input.session)
        named == Put(p.sessions, input.session, IF id \in Range(ids) THEN ids ELSE Append(ids, id))
    IN  EvictSession([prompts |-> prompts,
                      sessions |-> RemoveSessionEntries(named, KeysIn(p.prompts) \ KeysIn(prompts))],
                     input.session, input.ts)

\* link_risky_event: the youngest prompt before the event, within the window of
\* its kind; <<>> if there is none.
LinkRiskyEvent(p, session, ts, kind) ==
    LET ids == KnownIds(p, session)
        near == {i \in DOMAIN ids :
                    /\ PromptOf(p, ids[i]).ts <= ts
                    /\ ts - PromptOf(p, ids[i]).ts <= RiskWindow[kind]}
        last == CHOOSE i \in near : \A j \in near :
                    \/ PromptOf(p, ids[j]).ts < PromptOf(p, ids[i]).ts
                    \/ PromptOf(p, ids[j]).ts = PromptOf(p, ids[i]).ts /\ j <= i
    IN  IF kind \notin DOMAIN RiskWindow \/ near = {} THEN <<>> ELSE <<ids[last]>>

\* repeated_prompt_signals: the last prompt of each text, with its count.
RepeatedPrompts(p, session, now) ==
    LET ids == KnownIds(p, session)
        recent == {i \in DOMAIN ids : PromptOf(p, ids[i]).ts + PromptWindow >= now}
        alike(i) == {j \in recent : ids[j][4] = ids[i][4]}
    IN  {[prompt |-> ids[i], count |-> Cardinality(alike(i))] :
            i \in {j \in recent : (\A k \in alike(j) : k <= j)
                                  /\ Cardinality(alike(j)) >= PromptRepeats}}

\* evidence_for_event
EvidenceForEvent(p, session, ts, kind) ==
    LET kept == EvictSession(p, session, ts)
    IN  [p |-> kept, links |-> LinkRiskyEvent(kept, session, ts, kind),
         repeated |-> RepeatedPrompts(kept, session, ts)]
=============================================================================
