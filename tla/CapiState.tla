------------------------------ MODULE CapiState ------------------------------
(***************************************************************************)
(* CapiState: from files one session writes and another reads, and the     *)
(* prompts that follow, to chains that end in a risky event.  Its state is *)
(* a record c; the operators are its methods.  Scores are in hundredths.   *)
(***************************************************************************)
EXTENDS PromptStore

CONSTANTS
    MaxArtifacts,      \* MAX_ARTIFACTS
    MaxTemplates,      \* MAX_TEMPLATE_IGNORE
    MaxChains,         \* MAX_EVENT_INDEX
    TemplateTtl,       \* how long a template is remembered
    FreshWindow        \* within which a risky event counts as soon after the prompt

ASSUME CapiAssumption ==
    /\ {MaxArtifacts, MaxTemplates, MaxChains} \subseteq Nat \ {0}
    /\ {TemplateTtl, FreshWindow} \subseteq Nat

NewCapi ==
    [artifacts |-> <<>>,    \* ArtifactStore.artifacts
     lineage |-> <<>>,      \* path -> who opened it for writing last, and when
     pending |-> EmptyMap,  \* session -> reads of what another session wrote
     order |-> <<>>,        \* tokens of those reads, the oldest first
     total |-> 0,           \* their number
     candidates |-> <<>>,   \* [artifact, prompt] -> how they match
     emitted |-> <<>>,      \* chains emitted
     templates |-> <<>>]    \* [directory, text] -> who has been seen with it

ReadsOf(c, session) == IF session \in DOMAIN c.pending THEN c.pending[session] ELSE <<>>

\* insert_artifact, of a file: the same text of the same file and writer is the
\* same artifact, as old as the latest of them.
ArtifactOf(session, path, ts, text) ==
    [id |-> <<session, path, Norm(text)>>, session |-> session, path |-> path, ts |-> ts,
     text |-> text]

InsertArtifact(c, artifact) ==
    [c EXCEPT !.artifacts = InsertYoungest(@, artifact.id, artifact, MaxArtifacts)]

\* pending_read_tokens
TokenOf(session, read) == [session |-> session, artifact |-> read.artifact, ts |-> read.ts]
PendingReadTokens(c) ==
    UNION {{TokenOf(s, c.pending[s][i]) : i \in DOMAIN c.pending[s]} : s \in DOMAIN c.pending}

\* enforce_bounds: the oldest token goes, and its read if it is still there.
DropOldestRead(c) ==
    LET token == Head(c.order)
        reads == ReadsOf(c, token.session)
        at == {i \in DOMAIN reads : TokenOf(token.session, reads[i]) = token}
        left == IF at = {} THEN reads ELSE Picked(reads, DOMAIN reads \ {Min(at)})
    IN  [c EXCEPT !.order = Tail(@),
                  !.total = IF at = {} THEN @ ELSE @ - 1,
                  !.pending = IF left = <<>> THEN Without(@, token.session)
                              ELSE Put(@, token.session, left)]

EnforceBounds(c) ==
    LET dropped[n \in 0 .. Len(c.order)] == IF n = 0 THEN c ELSE DropOldestRead(dropped[n - 1])
        enough == {n \in 0 .. Len(c.order) : dropped[n].total <= MaxArtifacts}
    IN  IF enough = {} THEN dropped[Len(c.order)]
        ELSE dropped[CHOOSE n \in enough : \A m \in enough : n <= m]

\* retain on the pending reads, with their count: those at the places kept stay.
ReadAt(c, place) == c.pending[place[1]][place[2]]

KeepReads(c, kept) ==
    [c EXCEPT !.pending = [s \in DOMAIN @ |-> Picked(@[s], {i \in DOMAIN @[s] : <<s, i>> \in kept})],
              !.total = @ - Cardinality(Places(c.pending) \ kept)]

\* prune
Prune(c, now) ==
    LET recent == {place \in Places(c.pending) : ReadAt(c, place).ts + CapiWindow >= now}
        kept == KeepReads(c, recent)
        live == [kept EXCEPT !.pending = Keep(@, {s \in DOMAIN @ : @[s] # <<>>})]
    IN  EnforceBounds(
            [live EXCEPT
                !.order = InOrder(@, PendingReadTokens(live)),
                !.candidates = Picked(@, {i \in DOMAIN @ :
                                             @[i].value.prompt_ts + CapiWindow >= now})])

\* What read_artifact_excerpt returns of a file that is not there.
NoText == [words |-> <<>>, spelling |-> 0]

\* observe_file_event, of [session, path, ts, workspace, writes, reads]; content
\* is what the file holds by now.
ObserveFileEvent(c, file, content) ==
    LET noted == IF file.writes
                 THEN [c EXCEPT !.lineage = InsertYoungest(@, file.path,
                          [session |-> file.session, ts |-> file.ts], MaxArtifacts)]
                 ELSE c
        writer == ValueOf(noted.lineage, file.path)
        artifact == ArtifactOf(writer.session, file.path, writer.ts, content)
        read == [artifact |-> artifact.id, path |-> file.path, ts |-> file.ts]
    IN  IF ~file.workspace THEN c
        ELSE IF ~file.reads \/ file.path \notin KeysIn(noted.lineage) THEN noted
        ELSE IF writer.session = file.session \/ content = NoText THEN noted
        ELSE EnforceBounds(
                [InsertArtifact(noted, artifact) EXCEPT
                    !.pending = Put(@, file.session, Append(ReadsOf(noted, file.session), read)),
                    !.order = Append(@, TokenOf(file.session, read)),
                    !.total = @ + 1])

\* TemplateSuppressor: observe (with prune) and should_suppress.
\* A path is <<directory, name>>.
TemplateKey(artifact) == <<artifact.path[1], Norm(artifact.text)>>

ObserveTemplate(templates, artifact, prompt) ==
    LET key == TemplateKey(artifact)
        known == IF key \in KeysIn(templates) THEN ValueOf(templates, key).sessions ELSE {}
        entry == [sessions |-> known \cup {artifact.session, prompt.session}, ts |-> prompt.ts]
    IN  SelectSeq(InsertYoungest(templates, key, entry, MaxTemplates),
                  LAMBDA e : e.value.ts + TemplateTtl >= prompt.ts)

ShouldSuppress(templates, artifact) ==
    LET key == TemplateKey(artifact)
    IN  /\ key \in KeysIn(templates)
        /\ Cardinality(ValueOf(templates, key).sessions) >= 3
        /\ TemplateShape(Norm(artifact.text))
        /\ ~HitsKeyword(Norm(artifact.text))

\* gated_match_candidate
Candidate(artifact, prompt, read) ==
    LET match == MatchScore(artifact.text, prompt.text)
    IN  [key |-> [artifact |-> artifact.id, prompt |-> PromptId(prompt)],
         value |-> [session |-> prompt.session, upstream |-> artifact.session, tier |-> match.tier,
                    score |-> match.score, visibility |-> prompt.visibility,
                    path |-> read.path, prompt_ts |-> prompt.ts]]

\* A read meets a prompt: the step of observe_prompt's loop.
Meet(c, read, prompt) ==
    LET artifact == ValueOf(c.artifacts, read.artifact)
        templates == ObserveTemplate(c.templates, artifact, prompt)
        candidate == Candidate(artifact, prompt, read)
        seen == [c EXCEPT !.templates = templates]
    IN  IF read.artifact \notin KeysIn(c.artifacts) THEN c
        ELSE IF \/ ShouldSuppress(templates, artifact)
                \/ artifact.session = prompt.session
                \/ candidate.value.tier = "none" THEN seen
        ELSE [seen EXCEPT !.candidates =
                 InsertYoungest(@, candidate.key, candidate.value, MaxArtifacts)]

\* A slip: a prompt also meets the reads that came after it.
AnyRead(read, prompt) == prompt.ts <= read.ts + CapiWindow

\* observe_prompt's retain: a read younger than the prompt is dropped, too.
Before(read, prompt) == prompt.ts >= read.ts /\ prompt.ts - read.ts <= CapiWindow

MeetAll(c, reads, prompt) ==
    LET met[n \in 0 .. Len(reads)] == IF n = 0 THEN c ELSE Meet(met[n - 1], reads[n], prompt)
    IN  met[Len(reads)]

KeepReadsBefore(c, prompt) ==
    KeepReads(c, {place \in Places(c.pending) :
                     place[1] # prompt.session \/ Before(ReadAt(c, place), prompt)})

InTime(c, prompt) == KeepReadsBefore(Prune(c, prompt.ts), prompt)

\* A slip: a read meets one prompt, and no other after it.
ObservePromptOnce(c, prompt) ==
    LET met == MeetAll(InTime(c, prompt), ReadsOf(InTime(c, prompt), prompt.session), prompt)
    IN  KeepReads(met, {place \in Places(met.pending) : place[1] # prompt.session})

\* observe_prompt
ObservePrompt(c, prompt) ==
    MeetAll(InTime(c, prompt), ReadsOf(InTime(c, prompt), prompt.session), prompt)

\* ChainRiskKind::bonus
RiskBonus(kind) == IF kind \in {"UnexpectedShell", "SensitiveFileAccess"} THEN 10 ELSE 5

\* build_evidence_chain, of a candidate whose artifact and prompt are known.
Ordered(artifact, prompt, ts) ==
    artifact.ts <= prompt.ts /\ prompt.ts <= ts /\ ts - prompt.ts <= CapiWindow

CausalScore(match, artifact, prompt, ts, kind) ==
    LET penalty == IF match.tier = "substring" THEN 20 ELSE 0
        sum == match.score + 15 + RiskBonus(kind)
                  + (IF ts - prompt.ts <= FreshWindow THEN 15 ELSE 0)
                  + (IF HitsKeyword(Norm(artifact.text)) THEN 10 ELSE 0)
    IN  IF sum < penalty THEN 0 ELSE IF sum - penalty > 100 THEN 100 ELSE sum - penalty

ChainOf(entry, artifact, prompt, event, ts, kind) ==
    [id |-> <<artifact.session, prompt.session, artifact.id, event>>,
     root |-> artifact.session, downstream |-> prompt.session,
     artifact |-> artifact, prompt |-> entry.key.prompt, event |-> event, ts |-> ts,
     score |-> CausalScore(entry.value, artifact, prompt, ts, kind),
     weak |-> entry.value.tier = "substring", visibility |-> entry.value.visibility,
     excerpts |-> {Redacted(Redacted(artifact.text.words)), Redacted(prompt.text.words)}]

\* chains_for_risky_event: of each prompt the best match of the session, as long
\* as its artifact and prompt are known.  Of equals, one: their ids are hashes,
\* in no order of ours.
BestCandidates(c, session) ==
    LET mine == {i \in DOMAIN c.candidates : c.candidates[i].value.session = session}
        of(id) == {i \in mine : c.candidates[i].key.prompt = id}
    IN  {c.candidates[CHOOSE i \in of(id) :
             \A j \in of(id) : c.candidates[j].value.score <= c.candidates[i].value.score] :
         id \in {c.candidates[i].key.prompt : i \in mine}}

ChainsOf(c, p, entries, event, ts, kind) ==
    LET artifact(entry) == ValueOf(c.artifacts, entry.key.artifact)
        prompt(entry) == PromptOf(p, entry.key.prompt)
    IN  {ChainOf(entry, artifact(entry), prompt(entry), event, ts, kind) :
            entry \in {e \in entries : /\ e.key.artifact \in KeysIn(c.artifacts)
                                       /\ e.key.prompt \in KeysIn(p.prompts)
                                       /\ Ordered(artifact(e), prompt(e), ts)}}

\* Of each chain id one chain, and none that was emitted before.
NewChains(c, chains) ==
    SetToSeq({CHOOSE chain \in chains : chain.id = id :
                 id \in {chain.id : chain \in chains} \ KeysIn(c.emitted)})

EmitChains(c, chains) ==
    LET emitted[n \in 0 .. Len(chains)] ==
            IF n = 0 THEN c.emitted
            ELSE InsertYoungest(emitted[n - 1], chains[n].id, "emitted", MaxChains)
    IN  [c |-> [c EXCEPT !.emitted = emitted[Len(chains)]], chains |-> chains]

ChainsAfterPruning(c, p, session, event, ts, kind) ==
    EmitChains(c, NewChains(c, ChainsOf(c, p, BestCandidates(c, session), event, ts, kind)))

ChainsForRiskyEvent(c, p, session, event, ts, kind) ==
    ChainsAfterPruning(Prune(c, ts), p, session, event, ts, kind)
=============================================================================
