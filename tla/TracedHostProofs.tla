--------------------------- MODULE TracedHostProofs ---------------------------
(***************************************************************************)
(* Theorems about GraphState, for any pids, windows and event stream, and  *)
(* then about the graph of a host traced without loss, for any numbers,    *)
(* windows and delays, and with no bound on time or on events.             *)
(*                                                                         *)
(* Of GraphState the inductive invariant is that the two maps hold only    *)
(* attributions that are well-typed and earned; each handler is shown to   *)
(* put only such attributions into them.  Of the host it says which        *)
(* numbers the graph still knows and from where: a task is attributed as   *)
(* one of its ancestors was, a dead process only drains, and not beyond    *)
(* the reuse of its number.                                                *)
(***************************************************************************)
EXTENDS TracedHost, TLAPS

\* The attributions the graph may hold, and the inductive invariant.
EarnedAttribution == {att \in Attribution : Earned(att)}
EarnedDraining == [attribution : EarnedAttribution, expires : Nat]

GraphInv ==
    /\ IsMap(bindings, Pids, EarnedAttribution)
    /\ IsMap(draining, Pids, EarnedDraining)
    /\ env_evidence \subseteq Pids
    /\ applied \in Nat
    /\ clock \in Nat
-----------------------------------------------------------------------------
\* Inserting a value of V keeps a map a map into V.
LEMMA PutIsMap ==
    ASSUME NEW K, NEW V, NEW m, IsMap(m, K, V), NEW k \in K, NEW v \in V
    PROVE  IsMap(Put(m, k, v), K, V)
  BY DEF IsMap, Put

\* So does retaining some of the keys.
LEMMA KeepIsMap ==
    ASSUME NEW K, NEW V, NEW m, IsMap(m, K, V), NEW S
    PROVE  IsMap(Keep(m, S), K, V)
  BY DEF IsMap, Keep

\* And removing one.
LEMMA WithoutIsMap ==
    ASSUME NEW K, NEW V, NEW m, IsMap(m, K, V), NEW k
    PROVE  IsMap(Without(m, k), K, V)
  BY KeepIsMap DEF Without
-----------------------------------------------------------------------------
\* Evidence that suffices is never weak.
LEMMA ReadyIsNotWeak ==
    ASSUME NEW e
    PROVE  /\ StrengthFor(e) \in Strengths
           /\ Ready(e) => StrengthFor(e) # "Weak"
  BY DEF StrengthFor, Strengths, Ready

\* confirm_if_ready earns what it grants: applied to an attribution whose
\* strength has been brought up to its evidence.
LEMMA ConfirmEarns ==
    ASSUME NEW att \in Attribution,
           att.strength = StrengthFor(att.evidence),
           att.evidence # {},
           att.state = "ConfirmedRoot" => Ready(att.evidence),
           att.state = "RootCandidate" => att.revocable_until # {}
    PROVE  ConfirmIfReady(att) \in EarnedAttribution
  <1>1. CASE Ready(att.evidence)
    <2> DEFINE c == [att EXCEPT !.state = "ConfirmedRoot",
                                !.strength = StrengthFor(att.evidence),
                                !.revocable_until = {}]
    <2>1. ConfirmIfReady(att) = c
      BY <1>1, ReadyIsNotWeak DEF ConfirmIfReady, Attribution
    <2>2. c \in Attribution
      BY ReadyIsNotWeak DEF Attribution, States
    <2>3. Earned(c)
      BY <1>1 DEF Earned, Attribution
    <2> QED BY <2>1, <2>2, <2>3 DEF EarnedAttribution
  <1>2. CASE ~Ready(att.evidence)
    <2>1. ConfirmIfReady(att) = att
      BY <1>2 DEF ConfirmIfReady
    <2>2. Earned(att)
      BY <1>2 DEF Earned
    <2> QED BY <2>1, <2>2 DEF EarnedAttribution
  <1> QED BY <1>1, <1>2

\* More evidence never takes a confirmation away.
LEMMA ReadyGrows ==
    ASSUME NEW e, NEW kinds, Ready(e)
    PROVE  Ready(e \cup kinds)
  BY DEF Ready, HasBinarySeed, TwoWeakSignals

\* merge_root_evidence and the exec branch: merging keeps an attribution earned.
LEMMA WithEvidenceEarned ==
    ASSUME NEW att \in EarnedAttribution, NEW kinds \in SUBSET EvidenceKinds
    PROVE  WithEvidence(att, kinds) \in EarnedAttribution
  <1> DEFINE m == [att EXCEPT !.evidence = @ \cup kinds,
                              !.strength = StrengthFor(att.evidence \cup kinds)]
  <1>1. att \in Attribution /\ Earned(att)
    BY DEF EarnedAttribution
  <1>2. m \in Attribution
    BY <1>1, ReadyIsNotWeak DEF Attribution
  <1>3. /\ m.evidence = att.evidence \cup kinds
        /\ m.strength = StrengthFor(m.evidence)
        /\ m.state = att.state
        /\ m.revocable_until = att.revocable_until
    BY <1>1 DEF Attribution
  <1>4. m.evidence # {}
    BY <1>1, <1>3 DEF Earned
  <1>5. m.state = "ConfirmedRoot" => Ready(m.evidence)
    BY <1>1, <1>3, ReadyGrows DEF Earned
  <1>6. m.state = "RootCandidate" => m.revocable_until # {}
    BY <1>1, <1>3 DEF Earned
  <1>7. ConfirmIfReady(m) \in EarnedAttribution
    BY <1>2, <1>3, <1>4, <1>5, <1>6, ConfirmEarns
  <1> QED BY <1>7 DEF WithEvidence

\* seed_root_candidate and on_connect: what they seed is earned.
LEMMA CandidateEarned ==
    ASSUME NEW pid \in Pids, NEW ts \in Nat, NEW role \in Roles,
           NEW evidence \in SUBSET EvidenceKinds, evidence # {}
    PROVE  Candidate(pid, ts, role, evidence) \in EarnedAttribution
  <1> DEFINE c == [session |-> [pid |-> pid, ts |-> ts], agent |-> [pid |-> pid, ts |-> ts],
                   root_pid |-> pid, state |-> "RootCandidate", role |-> role,
                   role_version |-> 1, strength |-> StrengthFor(evidence),
                   evidence |-> evidence, revocable_until |-> {Deadline(ts)}]
  <1>1. Deadline(ts) \in Nat
    BY GraphAssumption DEF Deadline
  <1>2. c \in Attribution
    BY <1>1, ReadyIsNotWeak DEF Attribution, Identity, States
  <1>3. ConfirmIfReady(c) \in EarnedAttribution
    BY <1>2, ConfirmEarns
  <1> QED BY <1>3 DEF Candidate

\* child_binding: a child holds what its parent earned.
LEMMA ChildEarned ==
    ASSUME NEW att \in EarnedAttribution, NEW child \in Pids, NEW ts \in Nat
    PROVE  ChildBinding(att, child, ts) \in EarnedAttribution
  BY DEF EarnedAttribution, Earned, Attribution, ChildBinding, Identity, Roles

\* apply_role touches neither evidence nor state.
LEMMA ApplyRoleEarned ==
    ASSUME NEW att \in EarnedAttribution, NEW role \in Roles
    PROVE  ApplyRole(att, role) \in EarnedAttribution
  <1> DEFINE next == att.role_version + 1
             r == [att EXCEPT !.role = role, !.role_version = next]
  <1>1. att \in Attribution /\ Earned(att)
    BY DEF EarnedAttribution
  <1>2. next \in Nat
    BY <1>1 DEF Attribution
  <1>3. ApplyRole(att, role) = r \/ ApplyRole(att, role) = att
    BY DEF ApplyRole
  <1> HIDE DEF next
  <1>4. r \in Attribution
    BY <1>1, <1>2 DEF Attribution
  <1>5. /\ r.strength = att.strength /\ r.evidence = att.evidence
        /\ r.state = att.state /\ r.revocable_until = att.revocable_until
    BY <1>1 DEF Attribution
  <1> HIDE DEF r
  <1>6. Earned(r)
    BY <1>1, <1>5 DEF Earned
  <1> QED BY <1>1, <1>3, <1>4, <1>6 DEF EarnedAttribution

\* What classify_role returns is a role.
LEMMA ClassifyRoleType ==
    ASSUME NEW root, NEW b, NEW d, NEW pid, NEW ppid, NEW class
    PROVE  ClassifyRole(root, b, d, pid, ppid, class) \in Roles
  BY DEF ClassifyRole, Roles

\* What resolve finds in sound maps is earned.
LEMMA ResolveEarned ==
    ASSUME NEW b, IsMap(b, Pids, EarnedAttribution),
           NEW d, IsMap(d, Pids, EarnedDraining),
           NEW pid, Resolves(b, d, pid)
    PROVE  Resolve(b, d, pid) \in EarnedAttribution
  BY DEF Resolves, Resolve, IsMap, EarnedDraining
-----------------------------------------------------------------------------
\* A fresh GraphState holds nothing, so nothing unearned.
LEMMA InitEarned == GraphInit => GraphInv
  BY DEF GraphInit, GraphInv, IsMap, EmptyMap

\* Garbage collection leaves sound maps sound.
LEMMA LiveIsSound ==
    ASSUME NEW ts,
           NEW b, IsMap(b, Pids, EarnedAttribution),
           NEW d, IsMap(d, Pids, EarnedDraining)
    PROVE  /\ IsMap(LiveBindings(b, ts), Pids, EarnedAttribution)
           /\ IsMap(LiveDraining(d, ts), Pids, EarnedDraining)
  BY KeepIsMap DEF LiveBindings, LiveDraining

\* Merging environment evidence, in whichever map the pid is, too.
LEMMA EnvIsSound ==
    ASSUME GraphInv, NEW pid \in Pids, NEW env \in BOOLEAN
    PROVE  /\ IsMap(EnvBindings(pid, env), Pids, EarnedAttribution)
           /\ IsMap(EnvDraining(pid, env), Pids, EarnedDraining)
           /\ EnvCache(pid, env) \subseteq Pids
  <1> USE DEF GraphInv
  <1>0. {"EnvHint"} \in SUBSET EvidenceKinds
    BY DEF EvidenceKinds, WeakKinds
  <1>1. IsMap(EnvBindings(pid, env), Pids, EarnedAttribution)
    <2>1. CASE env /\ pid \in DOMAIN bindings
      <3>1. bindings[pid] \in EarnedAttribution
        BY <2>1 DEF IsMap
      <3>2. WithEvidence(bindings[pid], {"EnvHint"}) \in EarnedAttribution
        BY <1>0, <3>1, WithEvidenceEarned
      <3> QED BY <2>1, <3>2, PutIsMap DEF EnvBindings
    <2>2. CASE ~(env /\ pid \in DOMAIN bindings)
      BY <2>2 DEF EnvBindings
    <2> QED BY <2>1, <2>2
  <1>2. IsMap(EnvDraining(pid, env), Pids, EarnedDraining)
    <2> DEFINE merges == env /\ pid \notin DOMAIN bindings /\ pid \in DOMAIN draining
               e == [draining[pid] EXCEPT !.attribution = WithEvidence(@, {"EnvHint"})]
    <2>1. CASE merges
      <3>1. draining[pid] \in EarnedDraining
        BY <2>1 DEF IsMap
      <3>2. WithEvidence(draining[pid].attribution, {"EnvHint"}) \in EarnedAttribution
        BY <1>0, <3>1, WithEvidenceEarned DEF EarnedDraining
      <3>3. e \in EarnedDraining
        BY <3>1, <3>2 DEF EarnedDraining
      <3> QED BY <2>1, <3>3, PutIsMap DEF EnvDraining
    <2>2. CASE ~merges
      BY <2>2 DEF EnvDraining
    <2> QED BY <2>1, <2>2
  <1>3. EnvCache(pid, env) \subseteq Pids
    BY DEF EnvCache
  <1> QED BY <1>1, <1>2, <1>3

\* Seeding an exec leaves sound bindings sound.
LEMMA SeedIsSound ==
    ASSUME NEW b, IsMap(b, Pids, EarnedAttribution), NEW pid \in Pids, NEW ts \in Nat,
           NEW evidence \in SUBSET EvidenceKinds, NEW class, NEW placed
    PROVE  IsMap(SeedRootCandidate(b, pid, ts, evidence, class, placed),
                 Pids, EarnedAttribution)
  <1>1. SeedRole(class) \in Roles
    BY DEF SeedRole, Roles
  <1>2. CASE placed /\ evidence # {}
    <2>1. Candidate(pid, ts, SeedRole(class), evidence) \in EarnedAttribution
      BY <1>1, <1>2, CandidateEarned
    <2> QED BY <1>2, <2>1, PutIsMap DEF SeedRootCandidate
  <1>3. CASE ~(placed /\ evidence # {})
    BY <1>3 DEF SeedRootCandidate
  <1> QED BY <1>2, <1>3

\* The exec branch of a pid that is bound keeps its attribution earned.
LEMMA UpgradedEarned ==
    ASSUME NEW att \in EarnedAttribution, NEW b, NEW d, NEW pid, NEW ppid,
           NEW evidence \in SUBSET EvidenceKinds, NEW class
    PROVE  Upgraded(att, b, d, pid, ppid, evidence, class) \in EarnedAttribution
  <1> DEFINE confirmed == IF att.state = "RootCandidate" /\ pid = att.root_pid
                          THEN WithEvidence(att, evidence) ELSE att
             role == ClassifyRole(att.root_pid, b, d, pid, ppid, class)
  <1>1. confirmed \in EarnedAttribution
    BY WithEvidenceEarned
  <1>2. role \in Roles
    BY ClassifyRoleType
  <1>3. ApplyRole(confirmed, role) \in EarnedAttribution
    BY <1>1, <1>2, ApplyRoleEarned
  <1> QED BY <1>3 DEF Upgraded
-----------------------------------------------------------------------------
(* One lemma per handler: from sound maps it makes sound maps.             *)

\* The part of the invariant that is the same for every event.
LEMMA AppliedIsSound ==
    ASSUME GraphInv, NEW ts \in Instants, Applied(ts)
    PROVE  /\ ts \in Nat /\ applied' \in Nat /\ clock' \in Nat
  BY GraphAssumption DEF GraphInv, Instants, Applied

\* apply on a fork: the child inherits an earned attribution.
LEMMA ForkIsSound ==
    ASSUME GraphInv, NEW pid \in Pids, NEW child \in Pids, NEW ts \in Instants,
           OnFork(pid, child, ts)
    PROVE  GraphInv'
  <1> DEFINE b == LiveBindings(bindings, ts)
             d == LiveDraining(draining, ts)
  <1>1. IsMap(b, Pids, EarnedAttribution) /\ IsMap(d, Pids, EarnedDraining)
    BY LiveIsSound DEF GraphInv
  <1>2. ts \in Nat /\ applied' \in Nat /\ clock' \in Nat
    BY AppliedIsSound DEF OnFork
  <1>3. bindings' = IF Resolves(b, d, pid)
                    THEN Put(b, child, ChildBinding(Resolve(b, d, pid), child, ts))
                    ELSE b
    BY DEF OnFork
  <1>4. draining' = d /\ env_evidence' = env_evidence
    BY DEF OnFork
  <1> HIDE DEF b, d
  <1>5. IsMap(bindings', Pids, EarnedAttribution)
    <2>1. CASE Resolves(b, d, pid)
      <3>1. Resolve(b, d, pid) \in EarnedAttribution
        BY <1>1, <2>1, ResolveEarned
      <3>2. ChildBinding(Resolve(b, d, pid), child, ts) \in EarnedAttribution
        BY <1>2, <3>1, ChildEarned
      <3> QED BY <1>1, <1>3, <2>1, <3>2, PutIsMap
    <2>2. CASE ~Resolves(b, d, pid)
      BY <1>1, <1>3, <2>2
    <2> QED BY <2>1, <2>2
  <1> QED BY <1>1, <1>2, <1>4, <1>5 DEF GraphInv

\* apply_state and apply on an exec: environment evidence, promotion, seeding.
LEMMA ExecIsSound ==
    ASSUME GraphInv, NEW pid \in Pids, NEW ppid \in Pids, NEW ts \in Instants,
           NEW found \in FoundByExec, NEW env \in BOOLEAN, NEW class, NEW placed,
           OnExec(pid, ppid, ts, found, env, class, placed)
    PROVE  GraphInv'
  <1> DEFINE cache == EnvCache(pid, env)
             evidence == found \cup (IF pid \in cache THEN {"EnvHint"} ELSE {})
             b == LiveBindings(EnvBindings(pid, env), ts)
             d == LiveDraining(EnvDraining(pid, env), ts)
  <1>1. IsMap(b, Pids, EarnedAttribution) /\ IsMap(d, Pids, EarnedDraining)
    BY EnvIsSound, LiveIsSound
  <1>2. ts \in Nat /\ applied' \in Nat /\ clock' \in Nat
    BY AppliedIsSound DEF OnExec
  <1>3. evidence \in SUBSET EvidenceKinds
    BY GraphAssumption DEF EvidenceKinds, WeakKinds
  <1>4. bindings' = IF pid \in DOMAIN b
                    THEN Put(b, pid, Upgraded(b[pid], b, d, pid, ppid, evidence, class))
                    ELSE SeedRootCandidate(b, pid, ts, evidence, class, placed)
    BY DEF OnExec
  <1>5. draining' = Without(d, pid) /\ env_evidence' = cache
    BY DEF OnExec
  <1>6. cache \subseteq Pids
    BY EnvIsSound
  <1> HIDE DEF b, d, cache, evidence
  <1>7. IsMap(bindings', Pids, EarnedAttribution)
    <2>1. CASE pid \in DOMAIN b
      <3>1. b[pid] \in EarnedAttribution
        BY <1>1, <2>1 DEF IsMap
      <3>2. Upgraded(b[pid], b, d, pid, ppid, evidence, class) \in EarnedAttribution
        BY <1>3, <3>1, UpgradedEarned
      <3> QED BY <1>1, <1>4, <2>1, <3>2, PutIsMap
    <2>2. CASE pid \notin DOMAIN b
      BY <1>1, <1>2, <1>3, <1>4, <2>2, SeedIsSound
    <2> QED BY <2>1, <2>2
  <1>8. IsMap(draining', Pids, EarnedDraining)
    BY <1>1, <1>5, WithoutIsMap
  <1> QED BY <1>2, <1>5, <1>6, <1>7, <1>8 DEF GraphInv

\* on_connect: merging into a candidate, or a candidate of its own.
LEMMA ConnectIsSound ==
    ASSUME GraphInv, NEW pid \in Pids, NEW ts \in Instants, NEW placed,
           OnConnect(pid, ts, placed)
    PROVE  GraphInv'
  <1> DEFINE b == LiveBindings(bindings, ts)
             d == LiveDraining(draining, ts)
             known == Resolves(b, d, pid)
             merges == known /\ Resolve(b, d, pid).state = "RootCandidate"
             merged == WithEvidence(Resolve(b, d, pid), {"LlmConnect"})
             fresh == Candidate(pid, ts, "Unknown", {"LlmConnect"})
             entry == [d[pid] EXCEPT !.attribution = merged]
  <1>1. IsMap(b, Pids, EarnedAttribution) /\ IsMap(d, Pids, EarnedDraining)
    BY LiveIsSound DEF GraphInv
  <1>2. ts \in Nat /\ applied' \in Nat /\ clock' \in Nat
    BY AppliedIsSound DEF OnConnect
  <1>3. {"LlmConnect"} \in SUBSET EvidenceKinds /\ "Unknown" \in Roles
    BY DEF EvidenceKinds, WeakKinds, Roles
  <1>4. known => merged \in EarnedAttribution
    BY <1>1, <1>3, ResolveEarned, WithEvidenceEarned
  <1>5. fresh \in EarnedAttribution
    BY <1>2, <1>3, CandidateEarned
  <1>6. merges /\ pid \notin DOMAIN b => entry \in EarnedDraining
    <2> SUFFICES ASSUME merges, pid \notin DOMAIN b
                 PROVE  entry \in EarnedDraining
      OBVIOUS
    <2>1. d[pid] \in EarnedDraining
      BY <1>1 DEF Resolves, IsMap
    <2> HIDE DEF merged
    <2> QED BY <1>4, <2>1 DEF EarnedDraining
  <1>7. bindings' = IF merges /\ pid \in DOMAIN b THEN Put(b, pid, merged)
                    ELSE IF ~known /\ placed THEN Put(b, pid, fresh)
                    ELSE b
    BY DEF OnConnect
  <1>8. draining' = (IF merges /\ pid \notin DOMAIN b THEN Put(d, pid, entry) ELSE d)
    BY DEF OnConnect
  <1>9. env_evidence' = env_evidence
    BY DEF OnConnect
  <1> HIDE DEF b, d, merged, fresh, entry
  <1>10. IsMap(bindings', Pids, EarnedAttribution)
    BY <1>1, <1>4, <1>5, <1>7, PutIsMap
  <1>11. IsMap(draining', Pids, EarnedDraining)
    BY <1>1, <1>6, <1>8, PutIsMap
  <1> QED BY <1>2, <1>9, <1>10, <1>11 DEF GraphInv

\* on_exit: the attribution drains, still earned.
LEMMA ExitIsSound ==
    ASSUME GraphInv, NEW pid \in Pids, NEW ts \in Instants, OnExit(pid, ts)
    PROVE  GraphInv'
  <1> DEFINE b == LiveBindings(bindings, ts)
             d == LiveDraining(draining, ts)
             att == Resolve(b, d, pid)
             kept == IF pid = att.root_pid THEN [att EXCEPT !.state = "Draining"] ELSE att
             entry == [attribution |-> kept, expires |-> ts + DrainTime]
  <1>1. IsMap(b, Pids, EarnedAttribution) /\ IsMap(d, Pids, EarnedDraining)
    BY LiveIsSound DEF GraphInv
  <1>2. ts \in Nat /\ applied' \in Nat /\ clock' \in Nat
    BY AppliedIsSound DEF OnExit
  <1>3. Resolves(b, d, pid) => att \in EarnedAttribution
    BY <1>1, ResolveEarned
  <1>4. bindings' = Without(b, pid) /\ env_evidence' = env_evidence
    BY DEF OnExit, Unbound
  <1>5. draining' = IF Resolves(b, d, pid) THEN Put(d, pid, entry) ELSE d
    BY DEF OnExit
  <1> HIDE DEF b, d, att
  <1>6. att \in EarnedAttribution => kept \in EarnedAttribution
    BY DEF EarnedAttribution, Earned, Attribution, States
  <1>7. ts + DrainTime \in Nat
    BY <1>2, GraphAssumption
  <1> HIDE DEF kept
  <1>8. Resolves(b, d, pid) => entry \in EarnedDraining
    BY <1>3, <1>6, <1>7 DEF EarnedDraining
  <1> HIDE DEF entry
  <1>9. IsMap(bindings', Pids, EarnedAttribution)
    BY <1>1, <1>4, WithoutIsMap
  <1>10. IsMap(draining', Pids, EarnedDraining)
    BY <1>1, <1>5, <1>8, PutIsMap
  <1> QED BY <1>2, <1>4, <1>9, <1>10 DEF GraphInv

\* Any other event: only garbage is collected.
LEMMA OtherIsSound ==
    ASSUME GraphInv, NEW pid \in Pids, NEW ts \in Instants, OnOther(pid, ts)
    PROVE  GraphInv'
  <1>1. /\ IsMap(LiveBindings(bindings, ts), Pids, EarnedAttribution)
        /\ IsMap(LiveDraining(draining, ts), Pids, EarnedDraining)
    BY LiveIsSound DEF GraphInv
  <1>2. applied' \in Nat /\ clock' \in Nat
    BY AppliedIsSound DEF OnOther
  <1> QED BY <1>1, <1>2 DEF GraphInv, OnOther

\* seed_from_snapshot.
LEMMA SnapshotIsSound ==
    ASSUME GraphInv, NEW pid \in Pids, NEW found \in FoundByExec, NEW env \in BOOLEAN,
           NEW class, NEW placed, OnSnapshot(pid, found, env, class, placed)
    PROVE  GraphInv'
  <1> DEFINE cache == EnvCache(pid, env)
             evidence == found \cup (IF pid \in cache THEN {"EnvHint"} ELSE {})
  <1>1. evidence \in SUBSET EvidenceKinds
    BY GraphAssumption DEF EvidenceKinds, WeakKinds
  <1>2. bindings' = SeedRootCandidate(bindings, pid, 0, evidence, class, placed)
    BY DEF OnSnapshot
  <1>3. cache \subseteq Pids /\ env_evidence' = cache
    BY EnvIsSound DEF OnSnapshot
  <1>4. draining' = draining /\ applied' = applied /\ clock' = clock
    BY DEF OnSnapshot
  <1> HIDE DEF cache, evidence
  <1>5. IsMap(bindings', Pids, EarnedAttribution)
    BY <1>1, <1>2, SeedIsSound DEF GraphInv
  <1> QED BY <1>3, <1>4, <1>5 DEF GraphInv
-----------------------------------------------------------------------------
\* Every step of the graph keeps the invariant.
LEMMA NextEarned ==
    ASSUME GraphInv, [GraphNext]_graph_vars
    PROVE  GraphInv'
  <1>1. CASE Fork
    BY <1>1, ForkIsSound DEF Fork
  <1>2. CASE Exec
    BY <1>2, ExecIsSound DEF Exec
  <1>3. CASE Connect
    BY <1>3, ConnectIsSound DEF Connect
  <1>4. CASE Exit
    BY <1>4, ExitIsSound DEF Exit
  <1>5. CASE Other
    BY <1>5, OtherIsSound DEF Other
  <1>6. CASE Snapshot
    BY <1>6, SnapshotIsSound DEF Snapshot
  <1>7. CASE UNCHANGED graph_vars
    BY <1>7 DEF graph_vars, GraphInv
  <1> QED BY <1>1, <1>2, <1>3, <1>4, <1>5, <1>6, <1>7 DEF GraphNext

\* The invariant gives the type invariant.
LEMMA InvImpliesTypeOK == GraphInv => GraphTypeOK
  BY DEF GraphInv, GraphTypeOK, IsMap, EarnedAttribution, EarnedDraining, DrainingBinding

\* And the property: whatever the two maps hold is earned.
LEMMA InvImpliesEarned == GraphInv => ConfirmationIsEarned
  BY DEF GraphInv, ConfirmationIsEarned, Attributions, IsMap, EarnedAttribution,
         EarnedDraining

\* The inductive invariant: every attribution held is well-typed and earned.
THEOREM GraphInvariant == GraphSpec => []GraphInv
  BY InitEarned, NextEarned, PTL DEF GraphSpec

\* GraphState::apply and its handlers keep the state well-typed.
THEOREM GraphTypeCorrect == GraphSpec => []GraphTypeOK
  BY GraphInvariant, InvImpliesTypeOK, PTL

\* Whatever events arrive, in whatever order, however late: roots are confirmed
\* exactly on sufficient evidence, and their strength is that of the evidence.
THEOREM ConfirmationEarned == GraphSpec => []ConfirmationIsEarned
  BY GraphInvariant, InvImpliesEarned, PTL
-----------------------------------------------------------------------------
(* What a step makes of a binding: it is followed by one of the same agent *)
(* that is not expired, or replaced by one of an agent born at the step.   *)

\* What may become of an attribution while its agent lives on.
Follows(old, new) ==
    /\ new.agent = old.agent
    /\ IdentityIsKept(old, new)
    /\ new.state \in {old.state, "ConfirmedRoot"}
    /\ new.revocable_until \subseteq old.revocable_until

BindingStep(p) ==
    \/ Follows(bindings[p], bindings'[p]) /\ ~Expired(bindings'[p], clock')
    \/ bindings'[p].agent.ts = clock' /\ bindings[p].agent.ts # clock'

\* An attribution that is left alone follows itself.
LEMMA SelfFollows ==
    ASSUME NEW att \in Attribution
    PROVE  Follows(att, att)
  <1>1. \A r \in Roles : RoleRank(r) >= RoleRank(r)
    BY DEF RoleRank, Roles
  <1>2. att.role \in Roles /\ att.role_version \in Nat
    BY DEF Attribution
  <1> QED BY <1>1, <1>2 DEF Follows, IdentityIsKept

\* Merging evidence only ever confirms.
LEMMA WithEvidenceFollows ==
    ASSUME NEW att \in Attribution, NEW kinds \in SUBSET EvidenceKinds
    PROVE  /\ WithEvidence(att, kinds) \in Attribution
           /\ Follows(att, WithEvidence(att, kinds))
           /\ WithEvidence(att, kinds).role = att.role
           /\ WithEvidence(att, kinds).role_version = att.role_version
  <1> DEFINE m == [att EXCEPT !.evidence = @ \cup kinds,
                              !.strength = StrengthFor(att.evidence \cup kinds)]
             w == WithEvidence(att, kinds)
  <1>1. /\ m \in Attribution
        /\ m.agent = att.agent /\ m.session = att.session /\ m.root_pid = att.root_pid
        /\ m.role = att.role /\ m.role_version = att.role_version
        /\ m.state = att.state /\ m.revocable_until = att.revocable_until
    BY ReadyIsNotWeak DEF Attribution
  <1>2. w = ConfirmIfReady(m)
    BY DEF WithEvidence
  <1> HIDE DEF m, w
  <1> DEFINE st == StrengthFor(m.evidence)
             until == IF st = "Weak" THEN m.revocable_until ELSE {}
  <1>3. w = m \/ w = [m EXCEPT !.state = "ConfirmedRoot", !.strength = st,
                               !.revocable_until = until]
    BY <1>1, <1>2 DEF ConfirmIfReady, Attribution
  <1>a. st \in Strengths
    BY ReadyIsNotWeak
  <1>b. until \subseteq m.revocable_until /\ until \in SUBSET Nat
    BY <1>1 DEF Attribution
  <1> HIDE DEF st, until
  <1>4. /\ w \in Attribution
        /\ w.agent = m.agent /\ w.session = m.session /\ w.root_pid = m.root_pid
        /\ w.role = m.role /\ w.role_version = m.role_version
        /\ w.state \in {m.state, "ConfirmedRoot"}
        /\ w.revocable_until \subseteq m.revocable_until
    BY ZenonT(30), <1>1, <1>3, <1>a, <1>b DEF Attribution, States
  <1>5. att.role \in Roles /\ att.role_version \in Nat /\ \A r \in Roles : RoleRank(r) >= RoleRank(r)
    BY DEF Attribution, RoleRank, Roles
  <1>6. w.agent = att.agent /\ w.role = att.role /\ w.role_version = att.role_version
    BY <1>1, <1>4
  <1>7. IdentityIsKept(att, w)
    BY <1>1, <1>4, <1>5 DEF IdentityIsKept
  <1>8. w.state \in {att.state, "ConfirmedRoot"} /\ w.revocable_until \subseteq att.revocable_until
    BY <1>1, <1>4
  <1>9. Follows(att, w)
    BY <1>6, <1>7, <1>8 DEF Follows
  <1> QED BY <1>4, <1>6, <1>9 DEF w

\* apply_role raises the role, and counts it, or changes nothing.
LEMMA ApplyRoleFollows ==
    ASSUME NEW att \in Attribution, NEW new \in Attribution, Follows(att, new),
           new.role = att.role, new.role_version = att.role_version, NEW role \in Roles
    PROVE  Follows(att, ApplyRole(new, role))
  <1> DEFINE r == ApplyRole(new, role)
             next == new.role_version + 1
  <1>1. CASE RoleRank(role) > RoleRank(new.role)
    <2>1. r = [new EXCEPT !.role = role, !.role_version = next]
      BY <1>1 DEF ApplyRole
    <2> HIDE DEF r, next
    <2>2. /\ r.agent = new.agent /\ r.session = new.session /\ r.root_pid = new.root_pid
          /\ r.state = new.state /\ r.revocable_until = new.revocable_until
          /\ r.role = role /\ r.role_version = next
      BY <2>1 DEF Attribution
    <2>3. RoleRank(role) \in Nat /\ RoleRank(new.role) \in Nat
      BY DEF RoleRank, Roles, Attribution
    <2>4. role # new.role /\ RoleRank(r.role) >= RoleRank(att.role)
      BY <1>1, <2>2, <2>3
    <2>5. next = att.role_version + 1
      BY DEF next
    <2>6. IdentityIsKept(att, r)
      BY <2>2, <2>4, <2>5 DEF Follows, IdentityIsKept
    <2>7. Follows(att, r)
      BY <2>2, <2>6 DEF Follows
    <2> QED BY <2>7 DEF r
  <1>2. CASE ~(RoleRank(role) > RoleRank(new.role))
    BY <1>2 DEF ApplyRole
  <1> QED BY <1>1, <1>2

\* The exec branch of a pid that is bound.
LEMMA UpgradedFollows ==
    ASSUME NEW att \in Attribution, NEW b, NEW d, NEW pid, NEW ppid,
           NEW evidence \in SUBSET EvidenceKinds, NEW class
    PROVE  Follows(att, Upgraded(att, b, d, pid, ppid, evidence, class))
  <1> DEFINE confirmed == IF att.state = "RootCandidate" /\ pid = att.root_pid
                          THEN WithEvidence(att, evidence) ELSE att
             role == ClassifyRole(att.root_pid, b, d, pid, ppid, class)
  <1>1. /\ confirmed \in Attribution
        /\ Follows(att, confirmed)
        /\ confirmed.role = att.role
        /\ confirmed.role_version = att.role_version
    BY SelfFollows, WithEvidenceFollows
  <1>2. role \in Roles
    BY ClassifyRoleType
  <1> HIDE DEF confirmed, role
  <1>3. Follows(att, ApplyRole(confirmed, role))
    BY <1>1, <1>2, ApplyRoleFollows
  <1> QED BY <1>3 DEF Upgraded, confirmed, role

\* Following twice is following.
LEMMA FollowsTwice ==
    ASSUME NEW a \in Attribution, NEW b \in Attribution, NEW c, Follows(a, b), Follows(b, c),
           b.role = a.role, b.role_version = a.role_version
    PROVE  Follows(a, c)
  BY DEF Follows, IdentityIsKept

\* What follows an attribution expires no earlier.
LEMMA FollowerExpiresNoEarlier ==
    ASSUME NEW old, NEW new, Follows(old, new), NEW ts, Expired(new, ts)
    PROVE  Expired(old, ts)
  BY DEF Follows, Expired

\* What garbage collection leaves is as it was and not expired.
LEMMA LiveBound ==
    ASSUME NEW b, NEW ts
    PROVE  /\ DOMAIN LiveBindings(b, ts) = {p \in DOMAIN b : ~Expired(b[p], ts)}
           /\ \A p \in DOMAIN LiveBindings(b, ts) : LiveBindings(b, ts)[p] = b[p]
  BY DEF LiveBindings, Keep

LEMMA BoundFollows ==
    ASSUME GraphInv, NEW p \in DOMAIN bindings
    PROVE  bindings[p] \in Attribution /\ Follows(bindings[p], bindings[p])
  BY SelfFollows DEF GraphInv, IsMap, EarnedAttribution

\* A fork replaces at most the child's binding, which is not as young.
LEMMA ForkBindingStep ==
    ASSUME GraphInv, NEW pid \in Pids, NEW child \in Pids, NEW ts \in Instants,
           ~BoundAt(child, ts), OnFork(pid, child, ts),
           NEW p \in DOMAIN bindings, p \in DOMAIN bindings'
    PROVE  BindingStep(p)
  <1> DEFINE b == LiveBindings(bindings, ts)
             d == LiveDraining(draining, ts)
             new == ChildBinding(Resolve(b, d, pid), child, ts)
  <1>1. clock' = ts
    BY DEF OnFork, Applied
  <1>2. \/ bindings' = b
        \/ Resolves(b, d, pid) /\ bindings' = Put(b, child, new)
    BY DEF OnFork
  <1>3. CASE bindings'[p] = b[p] /\ p \in DOMAIN b
    <2>1. bindings'[p] = bindings[p] /\ ~Expired(bindings[p], ts)
      BY <1>3, LiveBound
    <2> QED BY <1>1, <2>1, BoundFollows DEF BindingStep
  <1>4. CASE p = child /\ Resolves(b, d, pid) /\ bindings'[p] = new
    <2>1. IsMap(b, Pids, EarnedAttribution) /\ IsMap(d, Pids, EarnedDraining)
      BY LiveIsSound DEF GraphInv
    <2> HIDE DEF b, d
    <2>2. Resolve(b, d, pid) \in Attribution
      BY <1>4, <2>1, ResolveEarned DEF EarnedAttribution
    <2>3. new.agent.ts = ts
      BY <2>2 DEF ChildBinding, Attribution
    <2> HIDE DEF new
    <2>4. bindings[p].agent.ts # ts
      BY <1>4 DEF BoundAt
    <2> QED BY <1>1, <1>4, <2>3, <2>4 DEF BindingStep
  <1> HIDE DEF b, d, new
  <1>5. CASE bindings' = b
    BY <1>3, <1>5
  <1>6. CASE Resolves(b, d, pid) /\ bindings' = Put(b, child, new)
    BY <1>3, <1>4, <1>6 DEF Put
  <1> QED BY <1>2, <1>5, <1>6

\* A candidate's agent is born at the event, and it is its own root.
LEMMA CandidateAgent ==
    ASSUME NEW pid, NEW ts, NEW role, NEW evidence
    PROVE  /\ Candidate(pid, ts, role, evidence).agent.ts = ts
           /\ Candidate(pid, ts, role, evidence).root_pid = pid
  BY DEF Candidate, ConfirmIfReady

\* Environment evidence is merged into the attribution of its pid, if any.
LEMMA EnvFollows ==
    ASSUME GraphInv, NEW pid, NEW env
    PROVE  /\ DOMAIN EnvBindings(pid, env) = DOMAIN bindings
           /\ \A q \in DOMAIN bindings : q # pid => EnvBindings(pid, env)[q] = bindings[q]
           /\ pid \in DOMAIN bindings =>
                 /\ EnvBindings(pid, env)[pid] \in Attribution
                 /\ Follows(bindings[pid], EnvBindings(pid, env)[pid])
                 /\ EnvBindings(pid, env)[pid].role = bindings[pid].role
                 /\ EnvBindings(pid, env)[pid].role_version = bindings[pid].role_version
  <1> DEFINE e == EnvBindings(pid, env)
  <1>1. /\ DOMAIN e = DOMAIN bindings
        /\ \A q \in DOMAIN bindings : q # pid => e[q] = bindings[q]
    BY DEF EnvBindings, Put
  <1>2. ASSUME pid \in DOMAIN bindings
        PROVE  /\ e[pid] \in Attribution
               /\ Follows(bindings[pid], e[pid])
               /\ e[pid].role = bindings[pid].role
               /\ e[pid].role_version = bindings[pid].role_version
    <2>1. e[pid] = bindings[pid] \/ e[pid] = WithEvidence(bindings[pid], {"EnvHint"})
      BY <1>2 DEF EnvBindings, Put
    <2>2. bindings[pid] \in Attribution /\ {"EnvHint"} \in SUBSET EvidenceKinds
      BY <1>2, BoundFollows DEF EvidenceKinds, WeakKinds
    <2> HIDE DEF e
    <2> QED BY <1>2, <2>1, <2>2, BoundFollows, WithEvidenceFollows
  <1> QED BY <1>1, <1>2

\* An exec upgrades the binding of its pid or, once that is expired, replaces it.
LEMMA ExecBindingStep ==
    ASSUME GraphInv, NEW pid \in Pids, NEW ppid \in Pids, NEW ts \in Instants,
           NEW found \in FoundByExec, NEW env \in BOOLEAN, NEW class, NEW placed,
           ~ExpiresAtOnce(pid, ts), OnExec(pid, ppid, ts, found, env, class, placed),
           NEW p \in DOMAIN bindings, p \in DOMAIN bindings'
    PROVE  BindingStep(p)
  <1> DEFINE cache == EnvCache(pid, env)
             evidence == found \cup (IF pid \in cache THEN {"EnvHint"} ELSE {})
             e == EnvBindings(pid, env)
             b == LiveBindings(e, ts)
             d == LiveDraining(EnvDraining(pid, env), ts)
             upgraded == Upgraded(b[pid], b, d, pid, ppid, evidence, class)
  <1>1. clock' = ts
    BY DEF OnExec, Applied
  <1>2. bindings' = IF pid \in DOMAIN b THEN Put(b, pid, upgraded)
                    ELSE SeedRootCandidate(b, pid, ts, evidence, class, placed)
    BY DEF OnExec
  <1>3. evidence \in SUBSET EvidenceKinds
    BY GraphAssumption DEF EvidenceKinds, WeakKinds
  <1>4. /\ DOMAIN e = DOMAIN bindings
        /\ \A q \in DOMAIN e : q # pid => e[q] = bindings[q]
    BY EnvFollows
  <1>5. pid \in DOMAIN bindings =>
            /\ e[pid] \in Attribution
            /\ Follows(bindings[pid], e[pid])
            /\ e[pid].role = bindings[pid].role
            /\ e[pid].role_version = bindings[pid].role_version
    BY EnvFollows
  <1>6. /\ DOMAIN b = {q \in DOMAIN e : ~Expired(e[q], ts)}
        /\ \A q \in DOMAIN b : b[q] = e[q]
    BY LiveBound
  <1> HIDE DEF cache, evidence, e, b, d
  <1>7. CASE p # pid
    <2>1. p \in DOMAIN b /\ bindings'[p] = b[p]
      BY <1>2, <1>7 DEF Put, SeedRootCandidate
    <2>2. bindings'[p] = bindings[p] /\ ~Expired(bindings[p], ts)
      BY <1>4, <1>6, <1>7, <2>1
    <2> QED BY <1>1, <2>2, BoundFollows DEF BindingStep
  <1>8. CASE p = pid /\ pid \in DOMAIN b
    <2>1. bindings'[p] = upgraded
      BY <1>2, <1>8 DEF Put
    <2>2. b[pid] = e[pid] /\ ~Expired(e[pid], ts)
      BY <1>6, <1>8
    <2>3. Follows(e[pid], upgraded)
      BY <1>3, <1>5, <1>8, <2>2, UpgradedFollows
    <2> HIDE DEF upgraded
    <2>4. Follows(bindings[pid], upgraded)
      BY <1>5, <1>8, <2>3, BoundFollows, FollowsTwice
    <2>5. ~Expired(upgraded, ts)
      BY <2>2, <2>3, FollowerExpiresNoEarlier
    <2> QED BY <1>1, <1>8, <2>1, <2>4, <2>5 DEF BindingStep
  <1>9. CASE p = pid /\ pid \notin DOMAIN b
    <2>1. bindings'[p] = Candidate(pid, ts, SeedRole(class), evidence)
      BY <1>2, <1>9 DEF SeedRootCandidate, Put
    <2>2. bindings'[p].agent.ts = ts
      BY <2>1, CandidateAgent
    <2>3. Expired(bindings[pid], ts)
      BY <1>4, <1>5, <1>6, <1>9, FollowerExpiresNoEarlier
    <2>4. bindings[p].agent.ts # ts
      BY <1>9, <2>3 DEF ExpiresAtOnce, BoundAt
    <2> QED BY <1>1, <2>2, <2>4 DEF BindingStep
  <1> QED BY <1>7, <1>8, <1>9

\* A connect merges evidence or, once the binding is expired, replaces it.
LEMMA ConnectBindingStep ==
    ASSUME GraphInv, NEW pid \in Pids, NEW ts \in Instants, NEW placed,
           ~ExpiresAtOnce(pid, ts), OnConnect(pid, ts, placed),
           NEW p \in DOMAIN bindings, p \in DOMAIN bindings'
    PROVE  BindingStep(p)
  <1> DEFINE b == LiveBindings(bindings, ts)
             d == LiveDraining(draining, ts)
             merged == WithEvidence(Resolve(b, d, pid), {"LlmConnect"})
             fresh == Candidate(pid, ts, "Unknown", {"LlmConnect"})
  <1>1. clock' = ts
    BY DEF OnConnect, Applied
  <1>2. \/ bindings' = b
        \/ pid \in DOMAIN b /\ bindings' = Put(b, pid, merged)
        \/ pid \notin DOMAIN b /\ bindings' = Put(b, pid, fresh)
    BY DEF OnConnect, Resolves
  <1>3. /\ DOMAIN b = {q \in DOMAIN bindings : ~Expired(bindings[q], ts)}
        /\ \A q \in DOMAIN b : b[q] = bindings[q]
    BY LiveBound
  <1> HIDE DEF b
  <1>4. CASE p \in DOMAIN b /\ bindings'[p] = b[p]
    BY <1>1, <1>3, <1>4, BoundFollows DEF BindingStep
  <1>5. CASE p = pid /\ pid \in DOMAIN b /\ bindings'[p] = merged
    <2>1. Resolve(b, d, pid) = bindings[pid] /\ {"LlmConnect"} \in SUBSET EvidenceKinds
      BY <1>3, <1>5 DEF Resolve, EvidenceKinds, WeakKinds
    <2>2. Follows(bindings[pid], merged)
      BY <1>5, <2>1, BoundFollows, WithEvidenceFollows
    <2> HIDE DEF merged
    <2>3. ~Expired(merged, ts)
      BY <1>3, <1>5, <2>2, FollowerExpiresNoEarlier
    <2> QED BY <1>1, <1>5, <2>2, <2>3 DEF BindingStep
  <1>6. CASE p = pid /\ pid \notin DOMAIN b /\ bindings'[p] = fresh
    <2>1. fresh.agent.ts = ts
      BY CandidateAgent
    <2>2. Expired(bindings[p], ts)
      BY <1>3, <1>6
    <2>3. bindings[p].agent.ts # ts
      BY <1>6, <2>2 DEF ExpiresAtOnce, BoundAt
    <2> QED BY <1>1, <1>6, <2>1, <2>3 DEF BindingStep
  <1> QED BY <1>2, <1>4, <1>5, <1>6 DEF Put

\* Before the first event only the snapshot has seeded candidates, whose
\* deadlines are still to come, and nothing drains.
Begun ==
    applied = 0 =>
        /\ clock = 0
        /\ \A p \in DOMAIN bindings : ~Expired(bindings[p], 0)
        /\ DOMAIN draining = {}

LEMMA BegunInit == GraphInit => Begun
  BY DEF GraphInit, Begun, EmptyMap

LEMMA AppliedBegun ==
    ASSUME GraphInv, NEW ts \in Instants, Applied(ts)
    PROVE  Begun'
  BY DEF GraphInv, Applied, Begun

LEMMA BegunNext ==
    ASSUME GraphInv, Begun, [GraphNext]_graph_vars
    PROVE  Begun'
  <1>1. CASE Fork
    BY <1>1, AppliedBegun DEF Fork, OnFork
  <1>2. CASE Exec
    BY <1>2, AppliedBegun DEF Exec, OnExec
  <1>3. CASE Connect
    BY <1>3, AppliedBegun DEF Connect, OnConnect
  <1>4. CASE Exit
    BY <1>4, AppliedBegun DEF Exit, OnExit
  <1>5. CASE Other
    BY <1>5, AppliedBegun DEF Other, OnOther
  <1>6. CASE Snapshot
    <2>1. PICK pid \in Pids, found \in FoundByExec, env \in BOOLEAN,
               class \in NameClasses, placed \in BOOLEAN :
            OnSnapshot(pid, found, env, class, placed)
      BY <1>6 DEF Snapshot
    <2> DEFINE evidence == found \cup (IF pid \in EnvCache(pid, env) THEN {"EnvHint"} ELSE {})
               c == Candidate(pid, 0, SeedRole(class), evidence)
    <2>2. /\ clock' = 0 /\ DOMAIN draining' = {}
          /\ \/ bindings' = bindings
             \/ bindings' = Put(bindings, pid, c)
      BY <2>1 DEF OnSnapshot, SeedRootCandidate, Begun
    <2>3. ~Expired(c, 0)
      BY GraphAssumption DEF Candidate, ConfirmIfReady, Expired, Deadline
    <2>4. \A p \in DOMAIN bindings : ~Expired(bindings[p], 0)
      BY <2>1 DEF OnSnapshot, Begun
    <2> HIDE DEF c
    <2>5. \A p \in DOMAIN bindings' : ~Expired(bindings'[p], 0)
      BY <2>2, <2>3, <2>4 DEF Put
    <2> QED BY <2>2, <2>5 DEF Begun
  <1>7. CASE UNCHANGED graph_vars
    BY <1>7 DEF graph_vars, Begun
  <1> QED BY <1>1, <1>2, <1>3, <1>4, <1>5, <1>6, <1>7 DEF GraphNext

\* Every step that is one of the graph's does to a binding what BindingStep says.
LEMMA NextBindingStep ==
    ASSUME GraphInv, Begun, GraphNext, NEW p \in DOMAIN bindings, p \in DOMAIN bindings'
    PROVE  BindingStep(p)
  <1>1. CASE Fork
    BY <1>1, ForkBindingStep DEF Fork
  <1>2. CASE Exec
    BY <1>2, ExecBindingStep DEF Exec
  <1>3. CASE Connect
    BY <1>3, ConnectBindingStep DEF Connect
  <1>4. CASE Exit
    <2>1. PICK pid \in Pids, ts \in Instants : OnExit(pid, ts)
      BY <1>4 DEF Exit
    <2>2. clock' = ts /\ bindings' = Without(LiveBindings(bindings, ts), pid)
      BY <2>1 DEF OnExit, Applied, Unbound
    <2>3. p \in DOMAIN LiveBindings(bindings, ts) /\ bindings'[p] = LiveBindings(bindings, ts)[p]
      BY <2>2 DEF Without, Keep
    <2>4. bindings'[p] = bindings[p] /\ ~Expired(bindings[p], ts)
      BY <2>3, LiveBound
    <2> QED BY <2>2, <2>4, BoundFollows DEF BindingStep
  <1>5. CASE Other
    <2>1. PICK ts \in Instants : clock' = ts /\ bindings' = LiveBindings(bindings, ts)
      BY <1>5 DEF Other, OnOther, Applied
    <2>2. bindings'[p] = bindings[p] /\ ~Expired(bindings[p], ts)
      BY <2>1, LiveBound
    <2> QED BY <2>1, <2>2, BoundFollows DEF BindingStep
  <1>6. CASE Snapshot
    <2>1. /\ applied = 0 /\ clock' = clock
          /\ bindings'[p] = bindings[p]
      BY <1>6 DEF Snapshot, OnSnapshot, SeedRootCandidate, Put, Resolves
    <2>2. ~Expired(bindings[p], clock')
      BY <2>1 DEF Begun
    <2> QED BY <2>1, <2>2, BoundFollows DEF BindingStep
  <1> QED BY <1>1, <1>2, <1>3, <1>4, <1>5, <1>6 DEF GraphNext

\* An event takes an exited process from the graph when its time is over, and
\* not before, but for an exec or another exit of its pid.
LEMMA NextDrainingStep ==
    ASSUME GraphInv, Begun, GraphNext, NEW p \in DOMAIN draining
    PROVE  IF draining[p].expires > clock'
           THEN StillDrains(p) \/ ExecOf(p) \/ ExitOf(p)
           ELSE p \notin DOMAIN draining' \/ ExitOf(p)
  <1>0. \A ts : /\ DOMAIN LiveDraining(draining, ts) = {q \in DOMAIN draining : draining[q].expires > ts}
                /\ \A q \in DOMAIN LiveDraining(draining, ts) :
                      LiveDraining(draining, ts)[q] = draining[q]
    BY DEF LiveDraining, Keep
  <1>1. CASE Fork \/ Other
    <2>1. PICK ts \in Instants : clock' = ts /\ draining' = LiveDraining(draining, ts)
      BY <1>1 DEF Fork, OnFork, Other, OnOther, Applied
    <2> QED BY <1>0, <2>1 DEF StillDrains
  <1>2. CASE Exec
    <2>1. PICK pid \in Pids, ppid \in Pids, ts \in Instants, found \in FoundByExec,
               env \in BOOLEAN, class \in NameClasses, placed \in BOOLEAN :
            OnExec(pid, ppid, ts, found, env, class, placed)
      BY <1>2 DEF Exec
    <2> DEFINE e == EnvDraining(pid, env)
    <2>2. clock' = ts /\ draining' = Without(LiveDraining(e, ts), pid)
      BY <2>1 DEF OnExec, Applied
    <2>3. DOMAIN e = DOMAIN draining /\ \A q \in DOMAIN e : q # pid => e[q] = draining[q]
      BY DEF EnvDraining, Put
    <2>4. CASE p = pid
      <3>1. ExecOf(p)
        BY <2>1, <2>4 DEF ExecOf
      <3>2. p \notin DOMAIN draining'
        BY <2>2, <2>4 DEF Without, Keep
      <3> QED BY <3>1, <3>2
    <2>5. CASE p # pid
      <3> HIDE DEF e
      <3>1. p \in DOMAIN draining' <=> draining[p].expires > ts
        BY <2>2, <2>3, <2>5 DEF Without, Keep, LiveDraining
      <3>2. p \in DOMAIN draining' => draining'[p] = draining[p]
        BY <2>2, <2>3, <2>5 DEF Without, Keep, LiveDraining
      <3> QED BY <2>2, <3>1, <3>2 DEF StillDrains
    <2> QED BY <2>4, <2>5
  <1>3. CASE Connect
    <2>1. PICK pid \in Pids, ts \in Instants, placed \in BOOLEAN : OnConnect(pid, ts, placed)
      BY <1>3 DEF Connect
    <2> DEFINE b == LiveBindings(bindings, ts)
               d == LiveDraining(draining, ts)
               merged == WithEvidence(Resolve(b, d, pid), {"LlmConnect"})
               entry == [d[pid] EXCEPT !.attribution = merged]
    <2>2. /\ clock' = ts
          /\ \/ draining' = d
             \/ /\ pid \notin DOMAIN b /\ pid \in DOMAIN d
                /\ draining' = Put(d, pid, entry)
      BY <2>1 DEF OnConnect, Applied, Resolves
    <2>3. DOMAIN draining' = DOMAIN d
      BY <2>2 DEF Put
    <2>4. CASE p \in DOMAIN d /\ draining'[p] # d[p]
      <3>1. p = pid /\ pid \notin DOMAIN b /\ draining'[p] = entry
        BY <2>2, <2>4 DEF Put
      <3>2. d[p] \in EarnedDraining
        BY <2>4, LiveIsSound DEF GraphInv, IsMap
      <3>3. Resolve(b, d, pid) = d[p].attribution
        BY <3>1 DEF Resolve
      <3>4. d[p].attribution \in Attribution /\ {"LlmConnect"} \in SUBSET EvidenceKinds
        BY <3>2 DEF EarnedDraining, EarnedAttribution, EvidenceKinds, WeakKinds
      <3>5. merged.session = d[p].attribution.session
        BY <3>3, <3>4, WithEvidenceFollows DEF Follows, IdentityIsKept
      <3> HIDE DEF merged
      <3>6. entry.expires = d[p].expires /\ entry.attribution = merged
        BY <3>1, <3>2 DEF EarnedDraining
      <3>7. draining[p].expires > ts /\ d[p] = draining[p]
        BY <1>0, <2>4
      <3>8. clock' = ts /\ p \in DOMAIN draining' /\ draining'[p] = entry
        BY <2>2, <2>3, <2>4, <3>1
      <3> HIDE DEF d, entry
      <3>9. StillDrains(p)
        BY <3>5, <3>6, <3>7, <3>8 DEF StillDrains
      <3> QED BY <3>7, <3>8, <3>9
    <2>5. CASE p \notin DOMAIN d \/ draining'[p] = d[p]
      <3>1. (p \in DOMAIN d <=> draining[p].expires > ts) /\ (p \in DOMAIN d => d[p] = draining[p])
        BY <1>0
      <3>2. clock' = ts
        BY <2>2
      <3> HIDE DEF merged, entry, d
      <3>3. p \in DOMAIN draining' <=> p \in DOMAIN d
        BY <2>3
      <3>4. p \in DOMAIN d => StillDrains(p)
        BY <2>5, <3>1, <3>3 DEF StillDrains
      <3>5. CASE draining[p].expires > clock'
        <4>1. StillDrains(p)
          BY <3>1, <3>2, <3>4, <3>5
        <4> QED BY <3>5, <4>1
      <3>6. CASE ~(draining[p].expires > clock')
        <4>1. p \notin DOMAIN draining'
          BY <3>1, <3>2, <3>3, <3>6
        <4> QED BY <3>6, <4>1
      <3> QED BY <3>5, <3>6
    <2> QED BY <2>4, <2>5
  <1>4. CASE Exit
    <2>1. PICK pid \in Pids, ts \in Instants : OnExit(pid, ts)
      BY <1>4 DEF Exit
    <2>2. CASE p = pid
      BY <2>1, <2>2 DEF ExitOf
    <2>3. CASE p # pid
      <3> DEFINE d == LiveDraining(draining, ts)
      <3>1. PICK entry : draining' = d \/ draining' = Put(d, pid, entry)
        BY <2>1 DEF OnExit
      <3>2. clock' = ts
        BY <2>1 DEF OnExit, Applied
      <3>3. p \in DOMAIN draining' <=> p \in DOMAIN d
        BY <2>3, <3>1 DEF Put
      <3>4. p \in DOMAIN d => draining'[p] = d[p]
        BY <2>3, <3>1 DEF Put
      <3> QED BY <1>0, <3>2, <3>3, <3>4 DEF StillDrains
    <2> QED BY <2>2, <2>3
  <1>5. CASE Snapshot
    BY <1>5 DEF Snapshot, OnSnapshot, Begun
  <1> QED BY <1>1, <1>2, <1>3, <1>4, <1>5 DEF GraphNext

\* Before its first event the graph holds only what seed_from_snapshot put there:
\* no candidate past its deadline, and nothing draining.
THEOREM BegunInvariant == GraphSpec => []Begun
  BY BegunInit, BegunNext, GraphInvariant, PTL DEF GraphSpec

\* GraphState::apply collects before it handles, on every path: no event leaves
\* a candidate whose window it has passed.
THEOREM CandidatesDoExpire == GraphSpec => CandidatesExpire
  <1>1. ASSUME GraphInv, Begun, GraphNext
        PROVE  \A p \in DOMAIN bindings \cap DOMAIN bindings' : CandidatesExpireIn(p)
    <2> SUFFICES ASSUME NEW p \in DOMAIN bindings, p \in DOMAIN bindings',
                        bindings'[p].agent = bindings[p].agent
                 PROVE  ~Expired(bindings'[p], clock')
      BY DEF CandidatesExpireIn
    <2>1. BindingStep(p)
      BY <1>1, NextBindingStep
    <2> QED BY <2>1 DEF BindingStep
  <1>2. GraphInv /\ Begun /\ [GraphNext]_graph_vars =>
            [\A p \in DOMAIN bindings \cap DOMAIN bindings' : CandidatesExpireIn(p)]_graph_vars
    BY <1>1
  <1> QED BY <1>2, GraphInvariant, BegunInvariant, PTL DEF GraphSpec, CandidatesExpire

\* No exec, connect, fork, exit or evidence changes the identity a process has
\* been given, nor lowers its role, nor revokes its confirmation.
THEOREM IdentityStays == GraphSpec => IdentityIsStable
  <1>1. ASSUME GraphInv, Begun, GraphNext
        PROVE  \A p \in DOMAIN bindings \cap DOMAIN bindings' :
                  bindings'[p].agent = bindings[p].agent =>
                      IdentityIsKept(bindings[p], bindings'[p])
    <2> SUFFICES ASSUME NEW p \in DOMAIN bindings, p \in DOMAIN bindings',
                        bindings'[p].agent = bindings[p].agent
                 PROVE  IdentityIsKept(bindings[p], bindings'[p])
      OBVIOUS
    <2>1. BindingStep(p)
      BY <1>1, NextBindingStep
    <2> QED BY <2>1 DEF BindingStep, Follows
  <1>2. GraphInv /\ Begun /\ [GraphNext]_graph_vars =>
            [\A p \in DOMAIN bindings \cap DOMAIN bindings' :
                bindings'[p].agent = bindings[p].agent =>
                    IdentityIsKept(bindings[p], bindings'[p])]_graph_vars
    BY <1>1
  <1> QED BY <1>2, GraphInvariant, BegunInvariant, PTL DEF GraphSpec, IdentityIsStable

\* An exited process stays attributed for the drain time and not an event longer.
THEOREM ExitedDrainForTheirTime == GraphSpec => DrainsForItsTime
  <1>1. GraphInv /\ Begun /\ [GraphNext]_graph_vars =>
            [\A p \in DOMAIN draining :
                IF draining[p].expires > clock'
                THEN StillDrains(p) \/ ExecOf(p) \/ ExitOf(p)
                ELSE p \notin DOMAIN draining' \/ ExitOf(p)]_graph_vars
    BY NextDrainingStep
  <1> QED BY <1>1, GraphInvariant, BegunInvariant, PTL DEF GraphSpec, DrainsForItsTime
-----------------------------------------------------------------------------
(* The host.                                                               *)

\* What the properties presuppose of the kernel and the load on its numbers.
NumbersAreFresh == ReuseDelay >= DrainTime /\ ThreadsRecycled = FALSE

\* The host's own bookkeeping: every task has a live process, every thread is
\* noted as one.
HostShape ==
    /\ Live \subseteq Pids
    /\ Init \in Live
    /\ \A t \in Live : Alive(leader[t])
    /\ \A t \in Live : leader[t] # t => t \in DOMAIN threads /\ threads[t] = leader[t]
    /\ DOMAIN parent = {p \in Live : leader[p] = p}
    /\ \A p \in DOMAIN parent : parent[p] \in Pids
    /\ \A t \in DOMAIN died : died[t] \in Nat
    /\ DOMAIN ancestry = Live
    /\ DOMAIN member \subseteq Live

\* What the graph knows of a live task is a session of its ancestry.
Inherited(t) ==
    /\ t \in DOMAIN bindings => bindings[t].session \in ancestry[t]
    /\ t \in DOMAIN draining => draining[t].attribution.session \in ancestry[t]

\* A number no task has, and no thread had, is not bound, and drains no longer
\* than its process is dead.
Departed(t) ==
    /\ t \notin DOMAIN bindings
    /\ t \in DOMAIN draining =>
            /\ t \in DOMAIN died
            /\ draining[t].expires <= died[t] + DrainTime

\* A member of a confirmed session that has had no thread beside its own is
\* bound, confirmed, in that session, for as long as it lives: the end of the
\* root changes nothing for it, contrary to docs/设计方案文档.md:122.
HadThreads(p) == \E t \in DOMAIN threads : threads[t] = p
Stays(p) ==
    /\ p \in DOMAIN bindings
    /\ bindings[p].state = "ConfirmedRoot"
    /\ bindings[p].session = member[p]

HostInv ==
    /\ NumbersAreFresh
    /\ GraphInv
    /\ HostShape
    /\ \A t \in Live : Inherited(t)
    /\ \A t \in Pids \ (Live \cup DOMAIN threads) : Departed(t)
    /\ \A p \in DOMAIN member : Alive(p) /\ ~HadThreads(p) => Stays(p)
-----------------------------------------------------------------------------
\* Collection takes attributions away, and changes none.
LEMMA LiveDrains ==
    ASSUME NEW d, NEW ts
    PROVE  /\ DOMAIN LiveDraining(d, ts) = {p \in DOMAIN d : d[p].expires > ts}
           /\ \A p \in DOMAIN LiveDraining(d, ts) : LiveDraining(d, ts)[p] = d[p]
  BY DEF LiveDraining, Keep

\* A confirmed root is never collected.
LEMMA ConfirmedLives ==
    ASSUME NEW b, NEW ts, NEW p \in DOMAIN b, b[p].state = "ConfirmedRoot"
    PROVE  p \in DOMAIN LiveBindings(b, ts) /\ LiveBindings(b, ts)[p] = b[p]
  BY DEF LiveBindings, Keep, Expired

\* A number the kernel may give a new task is no longer known to the graph.
LEMMA FreeIsUnknown ==
    ASSUME HostInv, NEW ts \in Instants, NEW new \in Free(ts)
    PROVE  /\ new \in Pids \ (Live \cup DOMAIN threads)
           /\ new \notin DOMAIN bindings
           /\ new \notin DOMAIN LiveDraining(draining, ts)
  <1>1. new \in Pids /\ new \notin Live /\ new \notin DOMAIN threads
    BY DEF Free, HostInv, NumbersAreFresh
  <1>2. Departed(new)
    BY <1>1 DEF HostInv
  <1>3. ASSUME new \in DOMAIN LiveDraining(draining, ts)
        PROVE  FALSE
    <2>1. new \in DOMAIN draining /\ draining[new].expires > ts
      BY ZenonT(30), <1>3, LiveDrains
    <2>2. new \in DOMAIN died /\ draining[new].expires <= died[new] + DrainTime
      BY <1>2, <2>1 DEF Departed
    <2>3. died[new] + ReuseDelay <= ts
      BY <2>2 DEF Free
    <2>4. draining[new].expires \in Nat
      BY <2>1 DEF HostInv, GraphInv, IsMap, EarnedDraining
    <2>5. died[new] \in Nat /\ ts \in Nat /\ ReuseDelay \in Nat /\ DrainTime \in Nat
      BY <2>2, GraphAssumption, HostAssumption DEF HostInv, HostShape, Instants
    <2>6. ReuseDelay >= DrainTime
      BY DEF HostInv, NumbersAreFresh
    <2> QED BY <2>1, <2>2, <2>3, <2>4, <2>5, <2>6
  <1> QED BY <1>1, <1>2, <1>3 DEF Departed

\* The graph's part of the host's steps.
LEMMA HostGraphStep ==
    ASSUME HostInv, [HostNext]_vars
    PROVE  GraphInv'
  <1> USE DEF HostInv
  <1>1. CASE Clone
    <2>1. PICK task \in Live, ts \in Instants : \E new \in Free(ts) : OnFork(task, new, ts)
      BY <1>1 DEF Clone
    <2>2. PICK new \in Free(ts) : OnFork(task, new, ts)
      BY <2>1
    <2>3. task \in Pids /\ new \in Pids
      BY DEF HostShape, Free
    <2> QED BY <2>2, <2>3, ForkIsSound
  <1>2. CASE Execve
    <2>1. PICK p \in DOMAIN parent \ {Init}, ts \in Instants, found \in FoundByExec,
               env \in BOOLEAN, class \in NameClasses, placed \in BOOLEAN :
            OnExec(p, parent[p], ts, found, env, class, placed)
      BY <1>2 DEF Execve
    <2>2. p \in Pids /\ parent[p] \in Pids
      BY DEF HostShape
    <2> QED BY <2>1, <2>2, ExecIsSound
  <1>3. CASE ConnectToLlm
    <2>1. PICK p \in DOMAIN parent, ts \in Instants, placed \in BOOLEAN :
            OnConnect(p, ts, placed)
      BY <1>3 DEF ConnectToLlm
    <2>2. p \in Pids
      BY DEF HostShape
    <2> QED BY <2>1, <2>2, ConnectIsSound
  <1>4. CASE TaskExit
    <2>1. PICK task \in Live, ts \in Instants : OnExit(leader[task], ts)
      BY <1>4 DEF TaskExit
    <2>2. leader[task] \in Pids
      BY DEF HostShape, Alive
    <2> QED BY <2>1, <2>2, ExitIsSound
  <1>5. CASE OtherEvent
    <2>1. PICK p \in DOMAIN parent, ts \in Instants : OnOther(p, ts)
      BY <1>5 DEF OtherEvent
    <2>2. p \in Pids
      BY DEF HostShape
    <2> QED BY <2>1, <2>2, OtherIsSound
  <1>6. CASE UNCHANGED vars
    BY <1>6 DEF vars, graph_vars, GraphInv
  <1> QED BY <1>1, <1>2, <1>3, <1>4, <1>5, <1>6 DEF HostNext
-----------------------------------------------------------------------------
(* What an event does to the numbers it is not of, and to its own.         *)

\* An event of others does not reach t, but for what it collects.
Untouched(t) ==
    /\ t \in DOMAIN bindings' => t \in DOMAIN bindings /\ bindings'[t] = bindings[t]
    /\ t \in DOMAIN draining' => t \in DOMAIN draining /\ draining'[t] = draining[t]
    /\ t \in DOMAIN bindings /\ bindings[t].state = "ConfirmedRoot" => t \in DOMAIN bindings'

\* An exec or connect of p leaves it in its session or makes it a root, and
\* leaves it alone in a confirmed one.
Moves(p) ==
    /\ p \in DOMAIN bindings' =>
            \/ p \in DOMAIN bindings /\ bindings'[p].session = bindings[p].session
            \/ bindings'[p].root_pid = p
    /\ p \in DOMAIN draining' =>
            /\ p \in DOMAIN draining
            /\ draining'[p].attribution.session = draining[p].attribution.session
    /\ p \in DOMAIN bindings /\ bindings[p].state = "ConfirmedRoot" =>
            /\ p \in DOMAIN bindings'
            /\ bindings'[p].state = "ConfirmedRoot"
            /\ bindings'[p].session = bindings[p].session

\* Collecting alone touches no number, nor does what an event did to others.
LEMMA CollectedOnly ==
    ASSUME NEW ts, NEW t, NEW b, NEW d,
           t \in DOMAIN b <=> t \in DOMAIN bindings,
           t \in DOMAIN b => b[t] = bindings[t],
           t \in DOMAIN d <=> t \in DOMAIN draining,
           t \in DOMAIN d => d[t] = draining[t],
           t \in DOMAIN bindings' <=> t \in DOMAIN LiveBindings(b, ts),
           t \in DOMAIN bindings' => bindings'[t] = LiveBindings(b, ts)[t],
           t \in DOMAIN draining' => /\ t \in DOMAIN LiveDraining(d, ts)
                                     /\ draining'[t] = LiveDraining(d, ts)[t]
    PROVE  Untouched(t)
  <1>1. t \in DOMAIN LiveBindings(b, ts) =>
            t \in DOMAIN b /\ LiveBindings(b, ts)[t] = b[t]
    BY LiveBound
  <1>2. t \in DOMAIN LiveDraining(d, ts) =>
            t \in DOMAIN d /\ LiveDraining(d, ts)[t] = d[t]
    BY LiveDrains
  <1>3. t \in DOMAIN b /\ b[t].state = "ConfirmedRoot" => t \in DOMAIN LiveBindings(b, ts)
    BY ConfirmedLives
  <1> QED BY <1>1, <1>2, <1>3 DEF Untouched

LEMMA ForkTouches ==
    ASSUME NEW pid, NEW child, NEW ts, OnFork(pid, child, ts), NEW t, t # child
    PROVE  Untouched(t)
  <1>1. /\ t \in DOMAIN bindings' <=> t \in DOMAIN LiveBindings(bindings, ts)
        /\ t \in DOMAIN bindings' => bindings'[t] = LiveBindings(bindings, ts)[t]
    BY DEF OnFork, Put
  <1>2. draining' = LiveDraining(draining, ts)
    BY DEF OnFork
  <1> QED BY <1>1, <1>2, CollectedOnly

LEMMA ExecTouches ==
    ASSUME GraphInv, NEW pid, NEW ppid, NEW ts, NEW found, NEW env, NEW class, NEW placed,
           OnExec(pid, ppid, ts, found, env, class, placed), NEW t, t # pid
    PROVE  Untouched(t)
  <1> DEFINE e == EnvBindings(pid, env)
             f == EnvDraining(pid, env)
  <1>1. /\ t \in DOMAIN bindings' <=> t \in DOMAIN LiveBindings(e, ts)
        /\ t \in DOMAIN bindings' => bindings'[t] = LiveBindings(e, ts)[t]
    BY DEF OnExec, Put, SeedRootCandidate
  <1>2. t \in DOMAIN draining' =>
            /\ t \in DOMAIN LiveDraining(f, ts)
            /\ draining'[t] = LiveDraining(f, ts)[t]
    BY DEF OnExec, Without, Keep
  <1>3. DOMAIN e = DOMAIN bindings /\ (t \in DOMAIN bindings => e[t] = bindings[t])
    BY EnvFollows
  <1>4. DOMAIN f = DOMAIN draining /\ (t \in DOMAIN draining => f[t] = draining[t])
    BY DEF EnvDraining, Put
  <1> HIDE DEF e, f
  <1> QED BY <1>1, <1>2, <1>3, <1>4, CollectedOnly

LEMMA ConnectTouches ==
    ASSUME NEW pid, NEW ts, NEW placed, OnConnect(pid, ts, placed), NEW t, t # pid
    PROVE  Untouched(t)
  <1>1. /\ t \in DOMAIN bindings' <=> t \in DOMAIN LiveBindings(bindings, ts)
        /\ t \in DOMAIN bindings' => bindings'[t] = LiveBindings(bindings, ts)[t]
    BY DEF OnConnect, Put
  <1>2. t \in DOMAIN draining' =>
            /\ t \in DOMAIN LiveDraining(draining, ts)
            /\ draining'[t] = LiveDraining(draining, ts)[t]
    BY DEF OnConnect, Put
  <1> QED BY <1>1, <1>2, CollectedOnly

LEMMA ExitTouches ==
    ASSUME NEW pid, NEW ts, OnExit(pid, ts), NEW t, t # pid
    PROVE  Untouched(t)
  <1>1. /\ t \in DOMAIN bindings' <=> t \in DOMAIN LiveBindings(bindings, ts)
        /\ t \in DOMAIN bindings' => bindings'[t] = LiveBindings(bindings, ts)[t]
    BY DEF OnExit, Unbound, Without, Keep
  <1>2. t \in DOMAIN draining' =>
            /\ t \in DOMAIN LiveDraining(draining, ts)
            /\ draining'[t] = LiveDraining(draining, ts)[t]
    BY DEF OnExit, Put
  <1> QED BY <1>1, <1>2, CollectedOnly

\* An exec of a bound process upgrades what it is; else it seeds a candidate.
LEMMA ExecMoves ==
    ASSUME GraphInv, NEW pid \in Pids, NEW ppid \in Pids, NEW ts \in Instants,
           NEW found \in FoundByExec, NEW env \in BOOLEAN, NEW class, NEW placed,
           OnExec(pid, ppid, ts, found, env, class, placed)
    PROVE  Moves(pid)
  <1> DEFINE cache == EnvCache(pid, env)
             evidence == found \cup (IF pid \in cache THEN {"EnvHint"} ELSE {})
             e == EnvBindings(pid, env)
             b == LiveBindings(e, ts)
             d == LiveDraining(EnvDraining(pid, env), ts)
             upgraded == Upgraded(b[pid], b, d, pid, ppid, evidence, class)
  <1>1. bindings' = IF pid \in DOMAIN b THEN Put(b, pid, upgraded)
                    ELSE SeedRootCandidate(b, pid, ts, evidence, class, placed)
    BY DEF OnExec
  <1>2. pid \notin DOMAIN draining'
    BY DEF OnExec, Without, Keep
  <1>3. evidence \in SUBSET EvidenceKinds
    BY GraphAssumption DEF EvidenceKinds, WeakKinds
  <1>4. pid \in DOMAIN b => pid \in DOMAIN bindings /\ b[pid] = e[pid]
    <2>1. DOMAIN e = DOMAIN bindings
      BY EnvFollows
    <2> HIDE DEF e
    <2>2. pid \in DOMAIN b => pid \in DOMAIN e /\ b[pid] = e[pid]
      BY DEF LiveBindings, Keep
    <2> QED BY <2>1, <2>2
  <1>5. pid \in DOMAIN bindings => e[pid] \in Attribution /\ Follows(bindings[pid], e[pid])
    BY EnvFollows
  <1>6. pid \in DOMAIN bindings /\ bindings[pid].state = "ConfirmedRoot" =>
            e[pid].state = "ConfirmedRoot" /\ pid \in DOMAIN b
    BY <1>5, EnvFollows, ConfirmedLives DEF Follows, IdentityIsKept
  <1> HIDE DEF cache, evidence, e, b, d
  <1>7. CASE pid \in DOMAIN b
    <2>1. pid \in DOMAIN bindings' /\ bindings'[pid] = upgraded
      BY <1>1, <1>7 DEF Put
    <2>2. Follows(e[pid], upgraded)
      BY <1>3, <1>4, <1>5, <1>7, UpgradedFollows
    <2> HIDE DEF upgraded
    <2>3. upgraded.session = bindings[pid].session
      BY <1>4, <1>5, <1>7, <2>2 DEF Follows, IdentityIsKept
    <2>4. bindings[pid].state = "ConfirmedRoot" => upgraded.state = "ConfirmedRoot"
      BY <1>6, <1>7, <1>4, <2>2 DEF Follows, IdentityIsKept
    <2> QED BY <1>2, <1>4, <1>7, <2>1, <2>3, <2>4 DEF Moves
  <1>8. CASE pid \notin DOMAIN b
    <2>1. pid \in DOMAIN bindings' => bindings'[pid].root_pid = pid
      BY <1>1, <1>8, CandidateAgent DEF SeedRootCandidate, Put
    <2> QED BY <1>2, <1>6, <1>8, <2>1 DEF Moves
  <1> QED BY <1>7, <1>8

\* A connect merges evidence into what its process is; else it seeds a candidate.
LEMMA ConnectMoves ==
    ASSUME GraphInv, NEW pid \in Pids, NEW ts \in Instants, NEW placed,
           OnConnect(pid, ts, placed)
    PROVE  Moves(pid)
  <1> DEFINE b == LiveBindings(bindings, ts)
             d == LiveDraining(draining, ts)
             att == Resolve(b, d, pid)
             merged == WithEvidence(att, {"LlmConnect"})
             fresh == Candidate(pid, ts, "Unknown", {"LlmConnect"})
             entry == [d[pid] EXCEPT !.attribution = merged]
  <1>1. IsMap(b, Pids, EarnedAttribution) /\ IsMap(d, Pids, EarnedDraining)
    BY LiveIsSound DEF GraphInv
  <1>2. \/ bindings' = b
        \/ pid \in DOMAIN b /\ att.state = "RootCandidate" /\ bindings' = Put(b, pid, merged)
        \/ pid \notin DOMAIN b /\ bindings' = Put(b, pid, fresh)
    BY DEF OnConnect, Resolves
  <1>3. \/ draining' = d
        \/ pid \in DOMAIN d /\ pid \notin DOMAIN b /\ draining' = Put(d, pid, entry)
    BY DEF OnConnect, Resolves
  <1>4. pid \in DOMAIN b => pid \in DOMAIN bindings /\ b[pid] = bindings[pid]
    BY LiveBound
  <1>5. pid \in DOMAIN d => pid \in DOMAIN draining /\ d[pid] = draining[pid]
    BY ZenonT(30), LiveDrains
  <1>6. pid \in DOMAIN bindings /\ bindings[pid].state = "ConfirmedRoot" => pid \in DOMAIN b
    BY ConfirmedLives
  <1>7. Resolves(b, d, pid) => merged.session = att.session
    <2>1. Resolves(b, d, pid) => att \in Attribution
      BY <1>1, ResolveEarned DEF EarnedAttribution
    <2>2. {"LlmConnect"} \in SUBSET EvidenceKinds
      BY DEF EvidenceKinds, WeakKinds
    <2> QED BY <2>1, <2>2, WithEvidenceFollows DEF Follows, IdentityIsKept
  <1>8. /\ pid \in DOMAIN b => att = b[pid]
        /\ pid \notin DOMAIN b => att = d[pid].attribution
    BY DEF Resolve
  <1>9. fresh.root_pid = pid
    BY CandidateAgent
  <1>10. pid \in DOMAIN d => entry.attribution = merged
    <2>1. pid \in DOMAIN d => d[pid] \in EarnedDraining
      BY <1>1 DEF IsMap
    <2> HIDE DEF merged
    <2> QED BY <2>1 DEF EarnedDraining
  <1> HIDE DEF b, d, att, merged, fresh, entry
  <1>11. pid \in DOMAIN bindings' =>
            \/ pid \in DOMAIN bindings /\ bindings'[pid].session = bindings[pid].session
            \/ bindings'[pid].root_pid = pid
    BY <1>2, <1>4, <1>7, <1>8, <1>9 DEF Put, Resolves
  <1>12. pid \in DOMAIN draining' =>
            /\ pid \in DOMAIN draining
            /\ draining'[pid].attribution.session = draining[pid].attribution.session
    BY <1>3, <1>5, <1>7, <1>8, <1>10 DEF Put, Resolves
  <1>13. pid \in DOMAIN bindings /\ bindings[pid].state = "ConfirmedRoot" => bindings' = b
    BY <1>2, <1>4, <1>6, <1>8
  <1> QED BY <1>4, <1>6, <1>11, <1>12, <1>13 DEF Moves

\* An exit unbinds its process, which drains in the session it was known in.
LEMMA ExitDrains ==
    ASSUME GraphInv, NEW pid \in Pids, NEW ts \in Instants, OnExit(pid, ts)
    PROVE  /\ pid \notin DOMAIN bindings'
           /\ pid \in DOMAIN draining' =>
                 /\ draining'[pid].expires = ts + DrainTime
                 /\ \/ /\ pid \in DOMAIN bindings
                       /\ draining'[pid].attribution.session = bindings[pid].session
                    \/ /\ pid \in DOMAIN draining
                       /\ draining'[pid].attribution.session = draining[pid].attribution.session
  <1> DEFINE b == LiveBindings(bindings, ts)
             d == LiveDraining(draining, ts)
             att == Resolve(b, d, pid)
             kept == IF pid = att.root_pid THEN [att EXCEPT !.state = "Draining"] ELSE att
             entry == [attribution |-> kept, expires |-> ts + DrainTime]
  <1>1. pid \notin DOMAIN bindings'
    BY DEF OnExit, Unbound, Without, Keep
  <1>2. draining' = IF Resolves(b, d, pid) THEN Put(d, pid, entry) ELSE d
    BY DEF OnExit
  <1>3. IsMap(b, Pids, EarnedAttribution) /\ IsMap(d, Pids, EarnedDraining)
    BY LiveIsSound DEF GraphInv
  <1>4. pid \in DOMAIN b => pid \in DOMAIN bindings /\ b[pid] = bindings[pid]
    BY LiveBound
  <1>5. pid \in DOMAIN d => pid \in DOMAIN draining /\ d[pid] = draining[pid]
    BY ZenonT(30), LiveDrains
  <1>6. /\ pid \in DOMAIN b => att = b[pid]
        /\ pid \notin DOMAIN b => att = d[pid].attribution
    BY DEF Resolve
  <1> HIDE DEF b, d
  <1>7. Resolves(b, d, pid) => att \in Attribution
    BY <1>3, ResolveEarned DEF EarnedAttribution
  <1> HIDE DEF att
  <1>8. Resolves(b, d, pid) => kept.session = att.session
    BY <1>7 DEF Attribution
  <1>9. entry.attribution = kept /\ entry.expires = ts + DrainTime
    OBVIOUS
  <1> HIDE DEF kept, entry
  <1>10. pid \in DOMAIN draining' => Resolves(b, d, pid) /\ draining'[pid] = entry
    BY <1>2 DEF Put, Resolves
  <1> QED BY <1>1, <1>4, <1>5, <1>6, <1>8, <1>9, <1>10 DEF Resolves
-----------------------------------------------------------------------------
(* The invariant.                                                          *)

LEMMA HostInvInit == NumbersAreFresh /\ HostInit => HostInv
  <1> SUFFICES ASSUME NumbersAreFresh, HostInit PROVE HostInv
    OBVIOUS
  <1>1. GraphInv
    BY InitEarned DEF HostInit
  <1>2. DOMAIN bindings = {} /\ DOMAIN draining = {} /\ DOMAIN member = {}
    BY DEF HostInit, GraphInit, EmptyMap
  <1>3. HostShape
    BY HostAssumption DEF HostInit, HostShape, Live, Alive, EmptyMap
  <1>4. (\A t \in Live : Inherited(t)) /\ (\A t \in Pids : Departed(t))
    BY <1>2 DEF Inherited, Departed
  <1> QED BY <1>1, <1>2, <1>3, <1>4 DEF HostInv

\* What an event leaves alone stays inherited, departed, a member.
LEMMA UntouchedInherited ==
    ASSUME NEW t, Untouched(t), Inherited(t), ancestry'[t] = ancestry[t]
    PROVE  Inherited(t)'
  BY DEF Untouched, Inherited

LEMMA UntouchedDeparted ==
    ASSUME NEW t, Untouched(t), Departed(t), t \in DOMAIN died => t \in DOMAIN died',
           t \in DOMAIN died => died'[t] = died[t]
    PROVE  Departed(t)'
  BY DEF Untouched, Departed

LEMMA UntouchedStays ==
    ASSUME NEW p, Untouched(p), Stays(p), member'[p] = member[p]
    PROVE  Stays(p)'
  BY DEF Untouched, Stays

\* An event of a process that neither ends nor makes a task.
LEMMA MovesKeepsInv ==
    ASSUME HostInv, GraphInv', NEW p \in DOMAIN parent, Moves(p),
           \A t : t # p => Untouched(t),
           MayHaveRooted(p), UNCHANGED <<leader, parent, died, threads>>
    PROVE  HostInv'
  <1>1. HostShape'
    BY DEF HostInv, HostShape, Live, Alive, MayHaveRooted, Put
  <1>2. ASSUME NEW t \in Live
        PROVE  Inherited(t)'
    <2>1. Inherited(t) /\ t \in DOMAIN ancestry
      BY DEF HostInv, HostShape
    <2>2. CASE t # p
      BY <2>1, <2>2, UntouchedInherited DEF MayHaveRooted
    <2>3. CASE t = p
      <3>1. ancestry[t] \subseteq ancestry'[t]
        BY <2>1, <2>3 DEF MayHaveRooted
      <3>2. p \in DOMAIN bindings' /\ bindings'[p].root_pid = p =>
                bindings'[p].session \in ancestry'[p]
        BY <2>1, <2>3 DEF MayHaveRooted
      <3> QED BY <2>1, <2>3, <3>1, <3>2 DEF Moves, Inherited
    <2> QED BY <2>2, <2>3
  <1>3. ASSUME NEW t \in Pids \ (Live \cup DOMAIN threads)
        PROVE  Departed(t)'
    <2>1. t # p /\ Departed(t)
      BY DEF HostInv, HostShape
    <2> QED BY <2>1, UntouchedDeparted
  <1>4. ASSUME NEW q \in DOMAIN member', Alive(q), ~HadThreads(q)
        PROVE  Stays(q)'
    <2>1. CASE q # p
      <3>1. q \in DOMAIN member /\ member'[q] = member[q]
        BY <2>1 DEF MayHaveRooted, Put
      <3> QED BY <1>4, <2>1, <3>1, UntouchedStays DEF HostInv
    <2>2. CASE q = p /\ p \in DOMAIN member
      <3>1. Stays(p) /\ member' = member
        BY <1>4, <2>2 DEF HostInv, MayHaveRooted
      <3> QED BY <2>2, <3>1 DEF Stays, Moves
    <2>3. CASE q = p /\ p \notin DOMAIN member
      BY <2>3 DEF MayHaveRooted, ConfirmedIn, Put, Stays
    <2> QED BY <2>1, <2>2, <2>3
  <1>5. Live' = Live /\ \A q : (Alive(q)' <=> Alive(q)) /\ (HadThreads(q)' <=> HadThreads(q))
    BY DEF Live, Alive, HadThreads
  <1> QED BY <1>1, <1>2, <1>3, <1>4, <1>5 DEF HostInv

LEMMA ExecveKeepsInv ==
    ASSUME HostInv, GraphInv', Execve
    PROVE  HostInv'
  <1>1. PICK p \in DOMAIN parent \ {Init}, ts \in Instants, found \in FoundByExec,
             env \in BOOLEAN, class \in NameClasses, placed \in BOOLEAN :
          /\ OnExec(p, parent[p], ts, found, env, class, placed)
          /\ MayHaveRooted(p)
          /\ UNCHANGED <<leader, parent, died, threads>>
    BY DEF Execve
  <1>2. GraphInv /\ p \in Pids /\ parent[p] \in Pids
    BY DEF HostInv, HostShape
  <1>3. Moves(p)
    BY <1>1, <1>2, ExecMoves
  <1>4. \A t : t # p => Untouched(t)
    BY <1>1, <1>2, ExecTouches
  <1> QED BY <1>1, <1>3, <1>4, MovesKeepsInv

LEMMA ConnectKeepsInv ==
    ASSUME HostInv, GraphInv', ConnectToLlm
    PROVE  HostInv'
  <1>1. PICK p \in DOMAIN parent \ {Init}, ts \in Instants, placed \in BOOLEAN :
          /\ OnConnect(p, ts, placed)
          /\ MayHaveRooted(p)
          /\ UNCHANGED <<leader, parent, died, threads>>
    BY DEF ConnectToLlm
  <1>2. GraphInv /\ p \in Pids
    BY DEF HostInv, HostShape
  <1>3. Moves(p)
    BY <1>1, <1>2, ConnectMoves
  <1>4. \A t : t # p => Untouched(t)
    BY <1>1, ConnectTouches
  <1> QED BY <1>1, <1>3, <1>4, MovesKeepsInv

\* An event of another kind only collects.
LEMMA OtherKeepsInv ==
    ASSUME HostInv, GraphInv', OtherEvent
    PROVE  HostInv'
  <1>1. PICK ts : /\ bindings' = LiveBindings(bindings, ts)
                  /\ draining' = LiveDraining(draining, ts)
    BY DEF OtherEvent, OnOther
  <1>2. \A t : Untouched(t)
    BY <1>1, CollectedOnly
  <1>3. UNCHANGED host_vars
    BY DEF OtherEvent
  <1>4. HostShape'
    BY <1>3 DEF HostInv, HostShape, Live, Alive, host_vars
  <1>5. \A t \in Live : Inherited(t)'
    BY <1>2, <1>3, UntouchedInherited DEF HostInv, host_vars
  <1>6. \A t \in Pids \ (Live \cup DOMAIN threads) : Departed(t)'
    BY <1>2, <1>3, UntouchedDeparted DEF HostInv, host_vars
  <1>7. \A p \in DOMAIN member : Alive(p) /\ ~HadThreads(p) => Stays(p)'
    BY <1>2, <1>3, UntouchedStays DEF HostInv, host_vars
  <1>8. Live' = Live /\ \A q : (Alive(q)' <=> Alive(q)) /\ (HadThreads(q)' <=> HadThreads(q))
    BY <1>3 DEF Live, Alive, HadThreads, host_vars
  <1> QED BY <1>3, <1>4, <1>5, <1>6, <1>7, <1>8 DEF HostInv, host_vars

\* clone(): a fresh number inherits what its parent's was known for.
LEMMA CloneKeepsInv ==
    ASSUME HostInv, GraphInv', Clone
    PROVE  HostInv'
  <1>1. PICK task \in Live, ts \in Instants, thread \in BOOLEAN : \E new \in Free(ts) :
          /\ OnFork(task, new, ts)
          /\ leader' = Put(leader, new, IF thread THEN leader[task] ELSE new)
          /\ parent' = IF thread THEN parent ELSE Put(parent, new, leader[task])
          /\ died' = Without(died, new)
          /\ threads' = IF thread THEN Put(threads, new, leader[task]) ELSE Without(threads, new)
          /\ ancestry' = Put(ancestry, new, ancestry[task])
          /\ member' = IF ConfirmedIn(LiveBindings(bindings, ts), task)
                       THEN Put(member, new, LiveBindings(bindings, ts)[task].session)
                       ELSE member
    BY DEF Clone
  <1>2. PICK new \in Free(ts) :
          /\ OnFork(task, new, ts)
          /\ leader' = Put(leader, new, IF thread THEN leader[task] ELSE new)
          /\ parent' = IF thread THEN parent ELSE Put(parent, new, leader[task])
          /\ died' = Without(died, new)
          /\ threads' = IF thread THEN Put(threads, new, leader[task]) ELSE Without(threads, new)
          /\ ancestry' = Put(ancestry, new, ancestry[task])
          /\ member' = IF ConfirmedIn(LiveBindings(bindings, ts), task)
                       THEN Put(member, new, LiveBindings(bindings, ts)[task].session)
                       ELSE member
    BY <1>1
  <1> DEFINE b == LiveBindings(bindings, ts)
             d == LiveDraining(draining, ts)
             child == ChildBinding(Resolve(b, d, task), new, ts)
  <1>3. /\ new \in Pids /\ new \notin Live /\ new \notin DOMAIN threads
        /\ new \notin DOMAIN bindings
        /\ new \notin DOMAIN d
    BY FreeIsUnknown
  <1>4. task # new
    BY <1>3
  <1>5. \A t : t # new => Untouched(t)
    BY <1>2, ForkTouches
  <1>6. /\ Live' = Live \cup {new}
        /\ \A t \in Live : leader'[t] = leader[t]
        /\ leader'[new] = IF thread THEN leader[task] ELSE new
    BY <1>2, <1>3 DEF Live, Put
  <1>7. /\ DOMAIN threads' = IF thread THEN DOMAIN threads \cup {new} ELSE DOMAIN threads
        /\ \A t \in DOMAIN threads : threads'[t] = threads[t]
        /\ thread => threads'[new] = leader[task]
    BY <1>2, <1>3 DEF Put, Without, Keep
  <1>8. HostShape'
    <2>1. HostShape
      BY DEF HostInv
    <2>2. Alive(leader[task])
      BY <2>1 DEF HostShape
    <2>3. Live' \subseteq Pids /\ Init \in Live'
      BY <1>3, <1>6, <2>1 DEF HostShape
    <2>4. \A t \in Live' : Alive(leader[t])'
      <3>1. \A t \in Live : Alive(leader[t]) /\ leader'[t] = leader[t]
        BY <1>6, <2>1 DEF HostShape
      <3>2. \A p : Alive(p) => Alive(p)'
        BY <1>6 DEF Alive
      <3>3. ~thread => Alive(new)'
        BY <1>6 DEF Alive
      <3>4. leader'[new] = leader[task] \/ (leader'[new] = new /\ ~thread)
        BY <1>6
      <3>5. ASSUME NEW t \in Live
            PROVE  leader'[t] \in Live' /\ leader'[leader'[t]] = leader'[t]
        BY <3>1, <3>2, <3>5 DEF Alive
      <3>6. leader'[new] \in Live' /\ leader'[leader'[new]] = leader'[new]
        BY <2>2, <3>2, <3>3, <3>4 DEF Alive
      <3> QED BY <1>6, <3>5, <3>6 DEF Alive
    <2>5. \A t \in Live' : leader'[t] # t => t \in DOMAIN threads' /\ threads'[t] = leader'[t]
      BY <1>3, <1>6, <1>7, <2>1 DEF HostShape
    <2>6. DOMAIN parent' = {p \in Live' : leader'[p] = p}
      <3>1. leader[task] # new
        BY <1>3, <2>2 DEF Alive
      <3>2. DOMAIN parent' = IF thread THEN DOMAIN parent ELSE DOMAIN parent \cup {new}
        BY <1>2 DEF Put
      <3>3. DOMAIN parent = {p \in Live : leader[p] = p}
        BY <2>1 DEF HostShape
      <3> QED BY <1>3, <1>6, <3>1, <3>2, <3>3
    <2>7. \A p \in DOMAIN parent' : parent'[p] \in Pids
      BY <1>2, <2>1, <2>2 DEF HostShape, Alive, Put
    <2>8. \A t \in DOMAIN died' : died'[t] \in Nat
      BY <1>2, <2>1 DEF HostShape, Without, Keep
    <2>9. DOMAIN ancestry' = Live' /\ DOMAIN member' \subseteq Live'
      BY <1>2, <1>6, <2>1 DEF HostShape, Put
    <2> QED BY <2>3, <2>4, <2>5, <2>6, <2>7, <2>8, <2>9 DEF HostShape
  <1>9. \A t \in Live' : Inherited(t)'
    <2>1. \A t \in Live : ancestry'[t] = ancestry[t]
      BY <1>2, <1>3 DEF HostInv, HostShape, Put
    <2>2. \A t \in Live : Inherited(t)'
      BY <1>3, <1>5, <2>1, UntouchedInherited DEF HostInv
    <2>3. ancestry'[new] = ancestry[task]
      BY <1>2 DEF Put
    <2>4. new \notin DOMAIN draining'
      BY <1>2, <1>3 DEF OnFork
    <2>5. new \in DOMAIN bindings' => bindings'[new].session \in ancestry[task]
      <3>1. new \notin DOMAIN b
        BY <1>3, LiveBound
      <3>2. new \in DOMAIN bindings' => Resolves(b, d, task) /\ bindings'[new] = child
        BY <1>2, <3>1 DEF OnFork, Put
      <3>3. Resolves(b, d, task) =>
                \/ task \in DOMAIN bindings /\ Resolve(b, d, task) = bindings[task]
                \/ task \in DOMAIN draining /\ Resolve(b, d, task) = draining[task].attribution
        <4>1. task \in DOMAIN b => task \in DOMAIN bindings /\ b[task] = bindings[task]
          BY LiveBound
        <4>2. task \in DOMAIN d => task \in DOMAIN draining /\ d[task] = draining[task]
          BY ZenonT(30), LiveDrains
        <4> QED BY <4>1, <4>2 DEF Resolves, Resolve
      <3>4. Inherited(task)
        BY DEF HostInv
      <3>5. IsMap(b, Pids, EarnedAttribution) /\ IsMap(d, Pids, EarnedDraining)
        BY LiveIsSound DEF HostInv, GraphInv
      <3> HIDE DEF b, d
      <3>6. Resolves(b, d, task) => child.session = Resolve(b, d, task).session
        BY <3>5, ResolveEarned DEF EarnedAttribution, Attribution, ChildBinding
      <3> HIDE DEF child
      <3> QED BY <3>2, <3>3, <3>4, <3>6 DEF Inherited
    <2> QED BY <1>6, <2>2, <2>3, <2>4, <2>5 DEF Inherited
  <1>10. ASSUME NEW t \in Pids \ (Live' \cup DOMAIN threads')
         PROVE  Departed(t)'
    <2>1. t # new /\ t \notin Live /\ t \notin DOMAIN threads
      BY <1>6, <1>7
    <2>2. Departed(t) /\ Untouched(t)
      BY <1>5, <2>1 DEF HostInv
    <2>3. t \in DOMAIN died => t \in DOMAIN died' /\ died'[t] = died[t]
      BY <1>2, <2>1 DEF Without, Keep
    <2> QED BY <2>2, <2>3, UntouchedDeparted
  <1>11. ASSUME NEW p \in DOMAIN member', Alive(p)', ~HadThreads(p)'
         PROVE  Stays(p)'
    <2>1. CASE p # new
      <3>1. p \in DOMAIN member /\ member'[p] = member[p]
        BY <1>2, <2>1 DEF Put
      <3>2. Alive(p) /\ ~HadThreads(p)
        BY <1>6, <1>7, <1>11, <2>1 DEF Alive, HadThreads
      <3> QED BY <1>5, <2>1, <3>1, <3>2, UntouchedStays DEF HostInv
    <2>2. CASE p = new
      <3>1. new \notin DOMAIN member
        BY <1>3 DEF HostInv, HostShape
      <3>2. ConfirmedIn(b, task) /\ member'[new] = b[task].session
        BY <1>2, <2>2, <3>1 DEF Put
      <3>3. Resolves(b, d, task) /\ Resolve(b, d, task) = b[task]
        BY <3>2 DEF Resolves, Resolve, ConfirmedIn
      <3>4. new \in DOMAIN bindings' /\ bindings'[new] = child
        BY <1>2, <3>3 DEF OnFork, Put
      <3>5. IsMap(b, Pids, EarnedAttribution)
        BY LiveIsSound DEF HostInv, GraphInv
      <3>6. b[task] \in Attribution
        BY <3>2, <3>5 DEF IsMap, EarnedAttribution, ConfirmedIn
      <3> HIDE DEF b, d
      <3>7. child.session = b[task].session /\ child.state = b[task].state
        BY <3>3, <3>6 DEF ChildBinding, Attribution
      <3> HIDE DEF child
      <3> QED BY <2>2, <3>2, <3>4, <3>7 DEF Stays, ConfirmedIn
    <2> QED BY <2>1, <2>2
  <1> QED BY <1>8, <1>9, <1>10, <1>11 DEF HostInv

\* A task ends: its process is attributed as it was, draining; when it was the
\* last, its number departs.
LEMMA TaskExitKeepsInv ==
    ASSUME HostInv, GraphInv', TaskExit
    PROVE  HostInv'
  <1>1. PICK task \in Live \ {Init}, ts \in Instants :
          /\ task = leader[task] => TasksOf(leader[task]) = {leader[task]}
          /\ OnExit(leader[task], ts)
          /\ leader' = Without(leader, task)
          /\ parent' = IF task = leader[task]
                       THEN Without([p \in DOMAIN parent |->
                                        IF parent[p] = task THEN Init ELSE parent[p]], task)
                       ELSE parent
          /\ died' = Put(died, task, ts)
          /\ ancestry' = Without(ancestry, task)
          /\ member' = Without(member, task)
          /\ UNCHANGED threads
    BY DEF TaskExit
  <1> DEFINE process == leader[task]
  <1>2. /\ HostShape /\ GraphInv
        /\ process \in Live /\ leader[process] = process
        /\ process \in Pids /\ ts \in Nat
    BY GraphAssumption DEF HostInv, HostShape, Alive, Instants
  <1>3. /\ Live' = Live \ {task}
        /\ \A t \in Live' : leader'[t] = leader[t]
    BY <1>1 DEF Live, Without, Keep
  <1>4. \A t : t # process => Untouched(t)
    BY <1>1, ExitTouches
  <1>5. \A t \in Live' : leader[t] # task
    BY <1>1, <1>2, <1>3 DEF TasksOf, HostShape, Alive
  <1>6. HostShape'
    <2>1. Live' \subseteq Pids /\ Init \in Live'
      BY <1>1, <1>2, <1>3 DEF HostShape
    <2>2. \A t \in Live' : Alive(leader[t])'
      BY <1>2, <1>3, <1>5 DEF HostShape, Alive
    <2>3. \A t \in Live' : leader'[t] # t => t \in DOMAIN threads' /\ threads'[t] = leader'[t]
      BY <1>1, <1>2, <1>3 DEF HostShape
    <2>4. DOMAIN parent' = {p \in Live' : leader'[p] = p}
      <3>1. DOMAIN parent' = IF task = process THEN DOMAIN parent \ {task} ELSE DOMAIN parent
        BY <1>1 DEF Without, Keep
      <3>2. DOMAIN parent = {p \in Live : leader[p] = p}
        BY <1>2 DEF HostShape
      <3> QED BY <1>3, <3>1, <3>2
    <2>5. \A p \in DOMAIN parent' : parent'[p] \in Pids
      BY <1>1, <1>2, HostAssumption DEF HostShape, Without, Keep
    <2>6. \A t \in DOMAIN died' : died'[t] \in Nat
      BY <1>1, <1>2 DEF HostShape, Put
    <2>7. DOMAIN ancestry' = Live' /\ DOMAIN member' \subseteq Live'
      BY <1>1, <1>2, <1>3 DEF HostShape, Without, Keep
    <2> QED BY <2>1, <2>2, <2>3, <2>4, <2>5, <2>6, <2>7 DEF HostShape
  <1>7. ASSUME NEW t \in Live'
        PROVE  Inherited(t)'
    <2>1. Inherited(t) /\ ancestry'[t] = ancestry[t]
      BY <1>1, <1>2, <1>3 DEF HostInv, HostShape, Without, Keep
    <2>2. CASE t # process
      BY <1>4, <2>1, <2>2, UntouchedInherited
    <2>3. CASE t = process
      <3>1. process \notin DOMAIN bindings'
        BY <1>1, <1>2, ExitDrains
      <3>2. process \in DOMAIN draining' =>
                \/ /\ process \in DOMAIN bindings
                   /\ draining'[process].attribution.session = bindings[process].session
                \/ /\ process \in DOMAIN draining
                   /\ draining'[process].attribution.session = draining[process].attribution.session
        BY <1>1, <1>2, ExitDrains
      <3> QED BY <2>1, <2>3, <3>1, <3>2 DEF Inherited
    <2> QED BY <2>2, <2>3
  <1>8. ASSUME NEW t \in Pids \ (Live' \cup DOMAIN threads')
        PROVE  Departed(t)'
    <2>1. CASE t = task
      <3>1. t = process
        BY <1>1, <1>2, <2>1 DEF HostShape
      <3>2. /\ t \notin DOMAIN bindings'
            /\ t \in DOMAIN draining' => draining'[t].expires = ts + DrainTime
        BY <1>1, <1>2, <3>1, ExitDrains
      <3>3. t \in DOMAIN died' /\ died'[t] = ts
        BY <1>1, <2>1 DEF Put
      <3>4. ts + DrainTime <= ts + DrainTime
        BY <1>2, GraphAssumption
      <3> QED BY <3>2, <3>3, <3>4 DEF Departed
    <2>2. CASE t # task
      <3>1. t \notin Live /\ t \notin DOMAIN threads
        BY <1>1, <1>3, <2>2
      <3>2. Departed(t) /\ Untouched(t)
        BY <1>2, <1>4, <3>1 DEF HostInv
      <3>3. t \in DOMAIN died => t \in DOMAIN died' /\ died'[t] = died[t]
        BY <1>1, <2>2 DEF Put
      <3> QED BY <3>2, <3>3, UntouchedDeparted
    <2> QED BY <2>1, <2>2
  <1>9. ASSUME NEW p \in DOMAIN member', Alive(p)', ~HadThreads(p)'
        PROVE  Stays(p)'
    <2>1. p # task /\ p \in DOMAIN member /\ member'[p] = member[p]
      BY <1>1 DEF Without, Keep
    <2>2. Alive(p) /\ ~HadThreads(p)
      BY <1>1, <1>3, <1>9 DEF Alive, HadThreads
    <2>3. p # process
      BY <1>2, <2>1, <2>2, <1>1 DEF HostShape, HadThreads
    <2> QED BY <1>4, <2>1, <2>2, <2>3, UntouchedStays DEF HostInv
  <1> QED BY <1>6, <1>7, <1>8, <1>9 DEF HostInv

LEMMA HostInvNext == HostInv /\ [HostNext]_vars => HostInv'
  <1> SUFFICES ASSUME HostInv, [HostNext]_vars PROVE HostInv'
    OBVIOUS
  <1>1. GraphInv'
    BY HostGraphStep
  <1>2. CASE UNCHANGED vars
    <2>1. UNCHANGED <<graph_vars, host_vars>>
      BY <1>2 DEF vars
    <2>2. HostShape'
      BY <2>1 DEF HostInv, HostShape, Live, Alive, host_vars
    <2>3. \A t : Inherited(t)' = Inherited(t) /\ Departed(t)' = Departed(t) /\ Stays(t)' = Stays(t)
      BY <2>1 DEF Inherited, Departed, Stays, graph_vars, host_vars
    <2>4. Live' = Live /\ \A q : (Alive(q)' <=> Alive(q)) /\ (HadThreads(q)' <=> HadThreads(q))
      BY <2>1 DEF Live, Alive, HadThreads, host_vars
    <2> QED BY <1>1, <2>1, <2>2, <2>3, <2>4 DEF HostInv, host_vars
  <1> QED BY <1>1, <1>2, CloneKeepsInv, ExecveKeepsInv, ConnectKeepsInv, TaskExitKeepsInv,
             OtherKeepsInv DEF HostNext

\* The inductive invariant of host and graph: a live task is known as one of its
\* ancestors was (inherit_binding), a dead process only drains (on_exit), and not
\* beyond the reuse of its number.
THEOREM HostInvariant == NumbersAreFresh => (HostSpec => []HostInv)
  BY HostInvInit, HostInvNext, PTL DEF HostSpec

\* However a host forks, executes, connects and exits, and however long: when
\* the numbers of the dead stay unused while they drain, and those of threads
\* always, no live process is attributed to a session it does not descend from.
THEOREM AttributionDescends == NumbersAreFresh => (HostSpec => []AttributionIsInherited)
  <1>1. HostInv => AttributionIsInherited
    BY DEF HostInv, Inherited, AttributionIsInherited, Resolves, Resolve
  <1> QED BY <1>1, HostInvariant, PTL

\* And whoever belongs to a confirmed session and has no second thread stays, as
\* long as the session's root lives and for the drain time after (on_exit).
THEOREM ConfirmedMembersStay == NumbersAreFresh => (HostSpec => []MembersStay)
  <1>1. HostInv => MembersStay
    BY DEF HostInv, Stays, HadThreads, OneThreaded, MembersStay
  <1> QED BY <1>1, HostInvariant, PTL
=============================================================================
