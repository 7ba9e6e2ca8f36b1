-------------------------------- MODULE Graph --------------------------------
(***************************************************************************)
(* GraphState: which agent session each pid belongs to.                    *)
(*                                                                         *)
(* Exec, connect and environment evidence make a pid the root candidate of *)
(* a session; enough evidence confirms it, a candidate that gathers too    *)
(* little is dropped after the promotion window.  A fork copies the        *)
(* parent's attribution, an exit keeps it for the drain time.              *)
(*                                                                         *)
(* This module takes any stream of events: the events of a pid may be      *)
(* missing, out of order or late, as they are when rings overflow and the  *)
(* rings of several CPUs are merged.  TracedHost restricts the stream to   *)
(* what a host really does.                                                *)
(***************************************************************************)
EXTENDS Naturals, FiniteSets, Maps

CONSTANTS
    Pids,
    PromotionWindow,     \* AGENT_PROMOTION_WINDOW_S
    DrainTime,           \* SESSION_DRAIN_SECS
    Times,               \* bound: the timestamps events may carry
    MaxEvents,           \* bound: how many events are applied
    Lateness,            \* bound: how far behind its predecessor an event may be
    NameClasses,         \* bound: which classes of file names are executed
    FoundByExec          \* bound: what the name and arguments of an exec show

ASSUME GraphAssumption ==
    /\ PromotionWindow \in Nat \ {0}
    /\ DrainTime \in Nat
    /\ Times \subseteq Nat
    /\ Lateness \in Nat
    /\ MaxEvents \in Nat
    /\ NameClasses \subseteq {"mcp", "shell", "tool", "other"}
    /\ FoundByExec \subseteq SUBSET {"BinarySeed", "ArgvHint"}

VARIABLES
    bindings,            \* pid -> attribution, of processes thought alive
    draining,            \* pid -> [attribution, expires], of exited ones
    env_evidence,        \* the pids whose environment was once found to hint
    applied,             \* how many events have been applied
    clock                \* the timestamp of the last event

graph_vars == <<bindings, draining, env_evidence, applied, clock>>

WeakKinds == {"EnvHint", "ArgvHint", "LlmConnect"}
EvidenceKinds == WeakKinds \cup {"BinarySeed"}
States == {"RootCandidate", "ConfirmedRoot", "Draining"}
Roles == {"Unknown", "SubAgent", "ToolWorker", "ShellTool", "RootAgent", "McpServer"}
Strengths == {"Weak", "Medium", "Strong"}

\* session_id and lineage_id hash the root pid and the instant (and more);
\* agent_id hashes the pid and the instant of the binding.
Identity == [pid : Pids, ts : Nat]

\* Evidence is kept as the set of its kinds, all that is ever asked of it;
\* revocable_until is a set of at most one deadline (Option<u64>).
Attribution ==
    [session : Identity, agent : Identity, root_pid : Pids, state : States,
     role : Roles, role_version : Nat, strength : Strengths,
     evidence : SUBSET EvidenceKinds, revocable_until : SUBSET Nat]

DrainingBinding == [attribution : Attribution, expires : Nat]

GraphInit ==
    /\ bindings = EmptyMap
    /\ draining = EmptyMap
    /\ env_evidence = {}
    /\ applied = 0
    /\ clock = 0
-----------------------------------------------------------------------------
(* Evidence                                                                *)

HasBinarySeed(evidence) == "BinarySeed" \in evidence
TwoWeakSignals(evidence) ==
    \E a, b \in evidence \cap WeakKinds : a # b

StrengthFor(evidence) ==
    IF HasBinarySeed(evidence) THEN "Strong"
    ELSE IF TwoWeakSignals(evidence) THEN "Medium" ELSE "Weak"

\* A slip: any evidence confirms.
ReadyWithAny(evidence) == evidence # {}

Ready(evidence) == HasBinarySeed(evidence) \/ TwoWeakSignals(evidence)

\* A slip: a confirmed root keeps its deadline.
ConfirmKeepingDeadline(att) ==
    IF Ready(att.evidence)
    THEN [att EXCEPT !.state = "ConfirmedRoot", !.strength = StrengthFor(att.evidence)]
    ELSE att

\* confirm_if_ready
ConfirmIfReady(att) ==
    IF Ready(att.evidence)
    THEN [att EXCEPT !.state = "ConfirmedRoot",
                     !.strength = StrengthFor(att.evidence),
                     !.revocable_until =
                         IF StrengthFor(att.evidence) = "Weak" THEN @ ELSE {}]
    ELSE att

\* What merging new evidence makes of an attribution.
WithEvidence(att, kinds) ==
    ConfirmIfReady([att EXCEPT !.evidence = @ \cup kinds,
                               !.strength = StrengthFor(att.evidence \cup kinds)])
-----------------------------------------------------------------------------
(* Lookup and garbage collection                                           *)

Resolves(b, d, pid) == pid \in DOMAIN b \/ pid \in DOMAIN d
Resolve(b, d, pid) ==
    IF pid \in DOMAIN b THEN b[pid] ELSE d[pid].attribution

Expired(att, ts) ==
    /\ att.state = "RootCandidate"
    /\ \E until \in att.revocable_until : until <= ts

\* A slip: only the candidates are collected.
LiveDrainingForever(d, ts) == d

LiveDraining(d, ts) == Keep(d, {p \in DOMAIN d : d[p].expires > ts})

\* A slip: an expired candidate is kept while it has evidence.
LiveBindingsLenient(b, ts) ==
    Keep(b, {p \in DOMAIN b : Expired(b[p], ts) => b[p].evidence # {}})

LiveBindings(b, ts) == Keep(b, {p \in DOMAIN b : ~Expired(b[p], ts)})
-----------------------------------------------------------------------------
(* Roles                                                                   *)

RoleRank(role) ==
    CASE role = "Unknown" -> 0
      [] role = "SubAgent" -> 1
      [] role = "ToolWorker" -> 2
      [] role = "ShellTool" -> 3
      [] role = "RootAgent" -> 4
      [] role = "McpServer" -> 5

ParentIsRootAgent(b, d, ppid) ==
    Resolves(b, d, ppid) /\ Resolve(b, d, ppid).role = "RootAgent"

ClassifyRole(root_pid, b, d, pid, ppid, class) ==
    IF class = "mcp" THEN "McpServer"
    ELSE IF pid = root_pid THEN "RootAgent"
    ELSE IF class = "tool" THEN "ToolWorker"
    ELSE IF ~ParentIsRootAgent(b, d, ppid) THEN "Unknown"
    ELSE IF class = "shell" THEN "ShellTool" ELSE "SubAgent"

\* A slip: the role follows the last exec, up or down.
ApplyRoleAlways(att, role) ==
    [att EXCEPT !.role = role, !.role_version = @ + 1]

ApplyRole(att, role) ==
    IF RoleRank(role) > RoleRank(att.role)
    THEN [att EXCEPT !.role = role, !.role_version = @ + 1]
    ELSE att
-----------------------------------------------------------------------------
(* The handlers.  b and d are bindings and draining after what the handler *)
(* has done so far.                                                        *)

\* A slip: the window is taken from the instant instead of added to it.
DeadlineBehind(ts) == ts - PromotionWindow

Deadline(ts) == ts + PromotionWindow

Candidate(pid, ts, role, evidence) ==
    ConfirmIfReady(
        [session |-> [pid |-> pid, ts |-> ts], agent |-> [pid |-> pid, ts |-> ts],
         root_pid |-> pid, state |-> "RootCandidate", role |-> role,
         role_version |-> 1, strength |-> StrengthFor(evidence),
         evidence |-> evidence, revocable_until |-> {Deadline(ts)}])

\* classify_role for the root pid itself.
SeedRole(class) == IF class = "mcp" THEN "McpServer" ELSE "RootAgent"

\* seed_root_candidate: nothing without a workspace or without evidence.
SeedRootCandidate(b, pid, ts, evidence, class, placed) ==
    IF placed /\ evidence # {}
    THEN Put(b, pid, Candidate(pid, ts, SeedRole(class), evidence))
    ELSE b

\* A slip: a child starts over as a candidate of its parent's session.
ChildAsCandidate(parent, child, ts) ==
    [parent EXCEPT !.agent = [pid |-> child, ts |-> ts],
                   !.role = "Unknown", !.role_version = 1,
                   !.state = "RootCandidate", !.revocable_until = {Deadline(ts)}]

\* child_binding
ChildBinding(parent, child, ts) ==
    [parent EXCEPT !.agent = [pid |-> child, ts |-> ts],
                   !.role = "Unknown", !.role_version = 1]

Applied(ts) == applied < MaxEvents /\ applied' = applied + 1 /\ clock' = ts

\* A sched_process_fork of pid (a thread of an attributed process or not).
OnFork(pid, child, ts) ==
    LET b == LiveBindings(bindings, ts)
        d == LiveDraining(draining, ts)
    IN  /\ bindings' = IF Resolves(b, d, pid)
                       THEN Put(b, child, ChildBinding(Resolve(b, d, pid), child, ts))
                       ELSE b
        /\ draining' = d
        /\ UNCHANGED env_evidence
        /\ Applied(ts)

\* apply_state on an exec: the environment evidence of the pid, when there is
\* any, is cached and merged into its attribution before the graph applies
\* the event, and so before garbage collection.
EnvCache(pid, env) == IF env THEN env_evidence \cup {pid} ELSE env_evidence
EnvBindings(pid, env) ==
    IF env /\ pid \in DOMAIN bindings
    THEN Put(bindings, pid, WithEvidence(bindings[pid], {"EnvHint"}))
    ELSE bindings
EnvDraining(pid, env) ==
    IF env /\ pid \notin DOMAIN bindings /\ pid \in DOMAIN draining
    THEN Put(draining, pid, [draining[pid] EXCEPT
                                !.attribution = WithEvidence(@, {"EnvHint"})])
    ELSE draining

\* The exec branch for a pid that resolves.
Upgraded(att, b, d, pid, ppid, evidence, class) ==
    LET confirmed == IF att.state = "RootCandidate" /\ pid = att.root_pid
                     THEN WithEvidence(att, evidence) ELSE att
    IN  ApplyRole(confirmed, ClassifyRole(att.root_pid, b, d, pid, ppid, class))

\* An exec: found \subseteq {"BinarySeed", "ArgvHint"} is what the file name
\* and the arguments show, env whether /proc/<pid>/environ shows a hint, class
\* what the file is, placed whether a workspace is found.
OnExec(pid, ppid, ts, found, env, class, placed) ==
    LET cache    == EnvCache(pid, env)
        evidence == found \cup (IF pid \in cache THEN {"EnvHint"} ELSE {})
        b == LiveBindings(EnvBindings(pid, env), ts)
        d == LiveDraining(EnvDraining(pid, env), ts)
    IN  /\ env_evidence' = cache
        /\ bindings' = IF pid \in DOMAIN b
                       THEN Put(b, pid, Upgraded(b[pid], b, d, pid, ppid, evidence, class))
                       ELSE SeedRootCandidate(b, pid, ts, evidence, class, placed)
        /\ draining' = Without(d, pid)
        /\ Applied(ts)

\* A connect to a resolved LLM endpoint (on_connect with hit).
OnConnect(pid, ts, placed) ==
    LET b == LiveBindings(bindings, ts)
        d == LiveDraining(draining, ts)
        known == Resolves(b, d, pid)
        merges == known /\ Resolve(b, d, pid).state = "RootCandidate"
        merged == WithEvidence(Resolve(b, d, pid), {"LlmConnect"})
    IN  /\ bindings' = IF merges /\ pid \in DOMAIN b THEN Put(b, pid, merged)
                       ELSE IF ~known /\ placed
                            THEN Put(b, pid, Candidate(pid, ts, "Unknown", {"LlmConnect"}))
                       ELSE b
        /\ draining' = IF merges /\ pid \notin DOMAIN b
                       THEN Put(d, pid, [d[pid] EXCEPT !.attribution = merged])
                       ELSE d
        /\ UNCHANGED env_evidence
        /\ Applied(ts)

\* A slip: an exited process keeps its binding beside the draining one.
StillBound(b, pid) == b

Unbound(b, pid) == Without(b, pid)

\* on_exit
OnExit(pid, ts) ==
    LET b == LiveBindings(bindings, ts)
        d == LiveDraining(draining, ts)
        att == Resolve(b, d, pid)
        kept == IF pid = att.root_pid THEN [att EXCEPT !.state = "Draining"] ELSE att
    IN  /\ bindings' = Unbound(b, pid)
        /\ draining' = IF Resolves(b, d, pid)
                       THEN Put(d, pid, [attribution |-> kept, expires |-> ts + DrainTime])
                       ELSE d
        /\ UNCHANGED env_evidence
        /\ Applied(ts)

\* Any other event: only the clock of the garbage collector moves.
OnOther(pid, ts) ==
    /\ bindings' = LiveBindings(bindings, ts)
    /\ draining' = LiveDraining(draining, ts)
    /\ UNCHANGED env_evidence
    /\ Applied(ts)

\* Start-up scan of /proc: seed_from_snapshot of a pid not known yet.
OnSnapshot(pid, found, env, class, placed) ==
    LET cache    == EnvCache(pid, env)
        evidence == found \cup (IF pid \in cache THEN {"EnvHint"} ELSE {})
    IN  /\ applied = 0
        /\ ~Resolves(bindings, draining, pid)
        /\ env_evidence' = cache
        /\ bindings' = SeedRootCandidate(bindings, pid, 0, evidence, class, placed)
        /\ UNCHANGED <<draining, applied, clock>>
-----------------------------------------------------------------------------
\* When the next event may have happened.
Instants == {ts \in Times : ts + Lateness >= clock}

\* A pid is not bound twice at one instant, which names its agent: not created
\* again, nor seeded again because what it was bound to expired at once.
BoundAt(pid, ts) == pid \in DOMAIN bindings /\ bindings[pid].agent.ts = ts
ExpiresAtOnce(pid, ts) == BoundAt(pid, ts) /\ Expired(bindings[pid], ts)

\* Fork and exec take their input from a process other than their subject.
Fork ==
    \E pid \in Pids, child \in Pids, ts \in Instants :
        /\ pid # child
        /\ ~BoundAt(child, ts)
        /\ OnFork(pid, child, ts)
Exec ==
    \E pid \in Pids, ppid \in Pids, ts \in Instants, found \in FoundByExec,
       env \in BOOLEAN, class \in NameClasses, placed \in BOOLEAN :
        /\ pid # ppid
        /\ ~ExpiresAtOnce(pid, ts)
        /\ OnExec(pid, ppid, ts, found, env, class, placed)
Connect ==
    \E pid \in Pids, ts \in Instants, placed \in BOOLEAN :
        /\ ~ExpiresAtOnce(pid, ts)
        /\ OnConnect(pid, ts, placed)
Exit == \E pid \in Pids, ts \in Instants : OnExit(pid, ts)
Other == \E pid \in Pids, ts \in Instants : OnOther(pid, ts)
Snapshot ==
    \E pid \in Pids, found \in FoundByExec, env \in BOOLEAN,
       class \in NameClasses, placed \in BOOLEAN :
        OnSnapshot(pid, found, env, class, placed)

GraphNext == Fork \/ Exec \/ Connect \/ Exit \/ Other \/ Snapshot

GraphSpec == GraphInit /\ [][GraphNext]_graph_vars
-----------------------------------------------------------------------------
\* The state is well-typed.
GraphTypeOK ==
    /\ IsMap(bindings, Pids, Attribution)
    /\ IsMap(draining, Pids, DrainingBinding)
    /\ env_evidence \subseteq Pids
    /\ applied \in Nat
    /\ clock \in Nat

\* Every attribution the graph holds.
Attributions ==
    {bindings[p] : p \in DOMAIN bindings}
    \cup {draining[p].attribution : p \in DOMAIN draining}

\* What an attribution may be, given its evidence.
Earned(att) ==
    /\ att.strength = StrengthFor(att.evidence)
    /\ att.evidence # {}
    /\ att.state = "ConfirmedRoot" => Ready(att.evidence) /\ att.revocable_until = {}
    /\ att.state = "RootCandidate" => ~Ready(att.evidence) /\ att.revocable_until # {}

\* Whatever arrives, in whatever order: a root is confirmed exactly when its
\* evidence suffices, a confirmed one can no longer be revoked, a candidate
\* can, and the strength an alert will quote is that of the evidence held.
\* (confirm_if_ready is called in five places, strength set in four.)
ConfirmationIsEarned == \A att \in Attributions : Earned(att)

CandidatesExpireIn(p) ==
    bindings'[p].agent = bindings[p].agent => ~Expired(bindings'[p], clock')

\* A candidate does not outlive its promotion window by even one event of the
\* host, whichever process the event is of: the same binding is still a
\* candidate after an event only if its deadline is later than that event.
CandidatesExpire ==
    [][\A p \in DOMAIN bindings \cap DOMAIN bindings' : CandidatesExpireIn(p)]_graph_vars

IdentityIsKept(old, new) ==
    /\ new.session = old.session
    /\ new.root_pid = old.root_pid
    /\ old.state = "ConfirmedRoot" => new.state = "ConfirmedRoot"
    /\ RoleRank(new.role) >= RoleRank(old.role)
    /\ new.role_version = old.role_version + (IF new.role # old.role THEN 1 ELSE 0)

\* While a process keeps its binding, it keeps its session, its root and its
\* agent; a confirmed root stays confirmed; its role only rises, and the role
\* version counts exactly the rises (the test role_upgrade_preserves_agent_identity).
IdentityIsStable ==
    [][\A p \in DOMAIN bindings \cap DOMAIN bindings' :
          bindings'[p].agent = bindings[p].agent =>
              IdentityIsKept(bindings[p], bindings'[p])]_graph_vars

ExecOf(p) ==
    \E ppid \in Pids, ts \in Instants, found \in FoundByExec, env \in BOOLEAN,
       class \in NameClasses, placed \in BOOLEAN :
        OnExec(p, ppid, ts, found, env, class, placed)
ExitOf(p) == \E ts \in Instants : OnExit(p, ts)

StillDrains(p) ==
    /\ p \in DOMAIN draining'
    /\ draining'[p].expires = draining[p].expires
    /\ draining'[p].attribution.session = draining[p].attribution.session

\* An exited process stays attributed to its session for the whole drain time,
\* for the events of it that come late, unless its pid is executed in or exits
\* again; and not one event longer.
DrainsForItsTime ==
    [][\A p \in DOMAIN draining :
          IF draining[p].expires > clock'
          THEN StillDrains(p) \/ ExecOf(p) \/ ExitOf(p)
          ELSE p \notin DOMAIN draining' \/ ExitOf(p)]_graph_vars
=============================================================================
