--------------------------- MODULE ContentCapture ---------------------------
(***************************************************************************)
(* Which descriptors have their content captured.  The pipeline keeps a    *)
(* mirror of the policies, follows processes and descriptors by events,    *)
(* and sends every change to the worker, which edits the kernel's          *)
(* whitelist; the hooks of read and write consult the whitelist and drop   *)
(* what has expired.                                                       *)
(***************************************************************************)
EXTENDS Maps, Integers, FiniteSets, SequencesExt

CONSTANTS
    Pids,                \* numbers of processes and threads
    Fds,                 \* descriptors
    StdFds,              \* 0..2
    Channels,            \* stdio, mcp
    NoChannel,           \* the role of the process allows no capture
    CaptureTime,         \* SESSION_DRAIN_SECS
    WhitelistCapacity,   \* max_entries of fd_capture_whitelist
    MaxTime              \* bound: the clock

ASSUME CaptureAssumption ==
    /\ Fds \subseteq Nat
    /\ StdFds \subseteq Fds
    /\ IsFiniteSet(StdFds)
    /\ NoChannel \notin Channels
    /\ {CaptureTime, WhitelistCapacity, MaxTime} \subseteq Nat

VARIABLES
    now,                 \* bpf_ktime_get_ns
    rings,               \* [{"proc", "fs"} -> Seq(Event)]: sent and not processed
    mirror,              \* active_content_capture: <<pid, fd>> -> policy
    commands,            \* the mpsc channel to the worker
    whitelist,           \* fd_capture_whitelist: <<tgid, fd>> -> policy
    worker,              \* "running" or "failed"
    condemned,           \* task in lookup_policy -> [key, found]: the expired policy
                         \* it has found and will delete
    robbed               \* history: keys that have lost a later policy to a delete

capture_vars == <<now, rings, mirror, commands, whitelist, worker, condemned, robbed>>

None == -1
Policy == [channel : Channels, expires : 0 .. MaxTime + CaptureTime]
Keys == Pids \X Fds
Found == [key : Keys, found : Policy]

CaptureInit ==
    /\ now = 0
    /\ rings = [r \in {"proc", "fs"} |-> <<>>]
    /\ mirror = EmptyMap
    /\ commands = <<>>
    /\ whitelist = EmptyMap
    /\ worker = "running"
    /\ condemned = EmptyMap
    /\ robbed = {}

-----------------------------------------------------------------------------
(* The pipeline.  A handler turns the mirror into the one it leaves and the *)
(* commands it pushes.                                                      *)

Upsert(key, policy) == [key |-> key, policy |-> {policy}]
Delete(key) == [key |-> key, policy |-> {}]

Unchanged(m) == [mirror |-> m, push |-> <<>>]

\* upsert_content_capture for each key of the map new
WithUpserts(m, new) ==
    [mirror |-> [k \in DOMAIN m \cup DOMAIN new |->
                    IF k \in DOMAIN new THEN new[k] ELSE m[k]],
     push   |-> SetToSeq({Upsert(k, new[k]) : k \in DOMAIN new})]

\* A slip: the mirror is edited and the worker not told.
WithDeletesUntold(m, keys) == [mirror |-> Keep(m, DOMAIN m \ keys), push |-> <<>>]

\* delete_content_capture for each of the keys
WithDeletes(m, keys) ==
    [mirror |-> Keep(m, DOMAIN m \ keys),
     push   |-> SetToSeq({Delete(k) : k \in keys})]

\* A slip in delete_all_content_capture: only the standard descriptors.
StdKeysOf(m, pid) == {k \in DOMAIN m : k[1] = pid /\ k[2] \in StdFds}

KeysOf(m, pid) == {k \in DOMAIN m : k[1] = pid}

\* maybe_enable_standard_fds
Enabled(m, e) ==
    IF e.channel = NoChannel THEN Unchanged(m)
    ELSE WithUpserts(m, [k \in {e.pid} \X StdFds |->
                            [channel |-> e.channel, expires |-> e.ts + CaptureTime]])

\* A slip: the child's time starts at the fork.
InheritedAfresh(m, parent, child) ==
    WithUpserts(m, [k \in {<<child, key[2]>> : key \in KeysOf(m, parent)} |->
                        [m[<<parent, k[2]>>] EXCEPT !.expires = @ + CaptureTime]])

\* inherit_content_capture
Inherited(m, parent, child) ==
    WithUpserts(m, [k \in {<<child, key[2]>> : key \in KeysOf(m, parent)} |->
                        m[<<parent, k[2]>>]])

Source(e) == <<e.pid, e.oldfd>>
Destination(e) == <<e.pid, IF e.newfd # None THEN e.newfd ELSE e.ret>>

\* A slip: without a policy of the source nothing is done.
DuppedIfCaptured(m, e) ==
    IF Source(e) \in DOMAIN m
    THEN WithUpserts(m, [k \in {Destination(e)} |-> m[Source(e)]])
    ELSE Unchanged(m)

\* A slip: the policy moves instead of being copied.
DuppedByMove(m, e) ==
    LET cleared == WithDeletes(m, {Source(e), Destination(e)})
        copied  == WithUpserts(cleared.mirror, [k \in {Destination(e)} |-> m[Source(e)]])
    IN  IF Source(e) \in DOMAIN m
        THEN [mirror |-> copied.mirror, push |-> cleared.push \o copied.push]
        ELSE cleared

\* dup_content_capture: what the destination was is forgotten before the
\* source is looked up.
Dupped(m, e) ==
    LET cleared == WithDeletes(m, {Destination(e)})
        copied  == WithUpserts(cleared.mirror,
                               [k \in {Destination(e)} |-> cleared.mirror[Source(e)]])
    IN  IF Source(e) \in DOMAIN cleared.mirror
        THEN [mirror |-> copied.mirror, push |-> cleared.push \o copied.push]
        ELSE cleared

\* observe_content_capture_policy
Observed(m, e) ==
    CASE e.kind = "fork" -> Inherited(m, e.pid, e.child)
      [] e.kind = "exec" -> Enabled(m, e)
      [] e.kind = "exit" -> WithDeletes(m, KeysOf(m, e.pid))
      [] e.kind = "dup" /\ e.oldfd = None /\ e.ret = 0 -> WithDeletes(m, {<<e.pid, e.newfd>>})
      [] e.kind = "dup" /\ e.oldfd # None /\ e.ret # None -> Dupped(m, e)
      [] e.kind = "open" /\ e.ret # None -> WithDeletes(m, {<<e.pid, e.ret>>})
      [] OTHER -> Unchanged(m)

\* process_raw_event_bytes and apply_content_capture_updates, for the next
\* record of one ring.  The rings are served in no particular order.
Process(ring) ==
    /\ worker = "running"
    /\ rings[ring] # <<>>
    /\ LET done == Observed(mirror, Head(rings[ring]))
       IN  /\ mirror' = done.mirror
           /\ commands' = commands \o done.push
    /\ rings' = [rings EXCEPT ![ring] = Tail(@)]
    /\ UNCHANGED <<now, whitelist, worker, condemned, robbed>>

-----------------------------------------------------------------------------
(* The worker and the kernel. *)

\* apply_content_io_command, of a command that succeeds
Applied(w, command) ==
    IF command.policy = {} THEN Without(w, command.key)
    ELSE Put(w, command.key, CHOOSE p \in command.policy : TRUE)

Refused(command) ==
    /\ command.policy # {}
    /\ command.key \notin DOMAIN whitelist
    /\ Cardinality(DOMAIN whitelist) >= WhitelistCapacity

\* An update refused for lack of room ends the worker, by `?`.
ApplyCommand ==
    /\ worker = "running"
    /\ commands # <<>>
    /\ commands' = Tail(commands)
    /\ IF Refused(Head(commands))
       THEN worker' = "failed" /\ UNCHANGED <<whitelist, robbed>>
       ELSE /\ whitelist' = Applied(whitelist, Head(commands))
            /\ robbed' = robbed \ {Head(commands).key}
            /\ UNCHANGED worker
    /\ UNCHANGED <<now, rings, mirror, condemned>>

Expired(policy) == policy.expires < now

PolicyOf(policies, key) == IF key \in DOMAIN policies THEN {policies[key]} ELSE {}

\* A slip in lookup_policy: a policy is dropped when it is looked up at all.
LookupDrops(task, key) ==
    /\ task \notin DOMAIN condemned
    /\ key \in DOMAIN whitelist
    /\ condemned' = Put(condemned, task, [key |-> key, found |-> whitelist[key]])
    /\ UNCHANGED <<now, rings, mirror, commands, whitelist, worker, robbed>>

\* lookup_policy, by a task in read or write on key: the policy is looked up
\* and compared with the clock,
Lookup(task, key) ==
    /\ task \notin DOMAIN condemned
    /\ key \in DOMAIN whitelist
    /\ Expired(whitelist[key])
    /\ condemned' = Put(condemned, task, [key |-> key, found |-> whitelist[key]])
    /\ UNCHANGED <<now, rings, mirror, commands, whitelist, worker, robbed>>

\* and what the key has by then is deleted.
DeleteFound(task) ==
    /\ task \in DOMAIN condemned
    /\ LET key == condemned[task].key
       IN  /\ whitelist' = Without(whitelist, key)
           /\ robbed' = IF PolicyOf(whitelist, key) \subseteq {condemned[task].found}
                        THEN robbed ELSE robbed \cup {key}
    /\ condemned' = Without(condemned, task)
    /\ UNCHANGED <<now, rings, mirror, commands, worker>>

PassTime ==
    /\ now < MaxTime
    /\ now' = now + 1
    /\ UNCHANGED <<rings, mirror, commands, whitelist, worker, condemned, robbed>>

-----------------------------------------------------------------------------
InForce(policies) == Keep(policies, {k \in DOMAIN policies : ~Expired(policies[k])})

\* The policy of key once the commands under way are applied: the last of them
\* about key decides.
About(sent, key) == {i \in DOMAIN sent : sent[i].key = key}
LastAbout(sent, key) == {i \in About(sent, key) : \A j \in About(sent, key) : j <= i}
Prospect(key) ==
    IF About(commands, key) = {} THEN PolicyOf(whitelist, key)
    ELSE UNION {commands[i].policy : i \in LastAbout(commands, key)}

\* The hook's delete has taken a policy written after its lookup, and no
\* command about the key is under way that would bring another.
Robbed(key) == key \in robbed /\ About(commands, key) = {}

\* The whitelist with the commands under way applied is the mirror, as far as
\* policies are in force.  It never has more; and it has less only where a hook
\* of read or write found an expired policy, the worker wrote another, and the
\* hook's delete, by key, took that one: until the next command about the key.
\* (pipeline.rs: every edit of active_content_capture pushes an update;
\* content_io.bpf.c: lookup_policy looks up, compares and deletes in steps.)
MirrorFollowed ==
    worker = "running" => \A key \in Keys :
        LET told  == {p \in Prospect(key) : ~Expired(p)}
            meant == {p \in PolicyOf(mirror, key) : ~Expired(p)}
        IN  told \subseteq meant /\ (told = meant \/ Robbed(key))
=============================================================================
