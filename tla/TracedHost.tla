----------------------------- MODULE TracedHost -----------------------------
(***************************************************************************)
(* A host traced without loss, and the graph that follows it.              *)
(*                                                                         *)
(* The kernel numbers threads and processes alike and reports              *)
(*   - a fork for every new task, thread or process, from the task that    *)
(*     made it (handle_sched_process_fork overwrites header.pid by the     *)
(*     task's own number);                                                 *)
(*   - an exit for every task that ends, under the number of its process   *)
(*     (handle_sched_process_exit leaves the tgid in header.pid);          *)
(*   - exec and connect under the number of the process.                   *)
(* The graph takes each number for a pid.  Here its steps are those a      *)
(* host can make, in their order, and ghosts remember what the host knows. *)
(***************************************************************************)
EXTENDS Graph

CONSTANTS
    Init,              \* a process nobody watches, ancestor of all
    ReuseDelay,        \* bound: how long the number of a dead task is not reused
    ThreadsRecycled    \* bound: whether the numbers of dead threads ever are

ASSUME HostAssumption ==
    /\ Init \in Pids
    /\ ReuseDelay \in Nat
    /\ ThreadsRecycled \in BOOLEAN

VARIABLES
    leader,            \* live task -> its process
    parent,            \* live process -> its parent process
    died,              \* number of a dead task -> when it ended
    threads,           \* number of a thread other than a leader -> its process
    ancestry,          \* live task -> the sessions it or an ancestor was the root of
    member             \* live task -> the confirmed session it was forked in or leads

host_vars == <<leader, parent, died, threads, ancestry, member>>
vars == <<graph_vars, host_vars>>

Live == DOMAIN leader
Alive(p) == p \in Live /\ leader[p] = p
TasksOf(p) == {t \in Live : leader[t] = p}

HostInit ==
    /\ GraphInit
    /\ leader = [t \in {Init} |-> Init]
    /\ parent = [t \in {Init} |-> Init]
    /\ died = EmptyMap
    /\ threads = EmptyMap
    /\ ancestry = [t \in {Init} |-> {}]
    /\ member = EmptyMap

\* The numbers the kernel may give a new task.
Free(ts) ==
    {t \in Pids \ Live :
        /\ t \in DOMAIN died => died[t] + ReuseDelay <= ts
        /\ t \in DOMAIN threads => ThreadsRecycled}

ConfirmedIn(b, p) == p \in DOMAIN b /\ b[p].state = "ConfirmedRoot"

\* The ghosts after an event of process p that may have made it a root.
MayHaveRooted(p) ==
    /\ ancestry' = IF p \in DOMAIN bindings' /\ bindings'[p].root_pid = p
                   THEN [ancestry EXCEPT ![p] = @ \cup {bindings'[p].session}]
                   ELSE ancestry
    /\ member' = IF p \notin DOMAIN member /\ ConfirmedIn(bindings', p)
                 THEN Put(member, p, bindings'[p].session)
                 ELSE member

\* clone(): task makes a thread of its process, or a process of its own.
Clone ==
    \E task \in Live, ts \in Instants, thread \in BOOLEAN : \E new \in Free(ts) :
        LET process == leader[task]
        IN  /\ process = Init => ~thread
            /\ OnFork(task, new, ts)
            /\ leader' = Put(leader, new, IF thread THEN process ELSE new)
            /\ parent' = IF thread THEN parent ELSE Put(parent, new, process)
            /\ died' = Without(died, new)
            /\ threads' = IF thread THEN Put(threads, new, process) ELSE Without(threads, new)
            /\ ancestry' = Put(ancestry, new, ancestry[task])
            /\ member' = IF ConfirmedIn(LiveBindings(bindings, ts), task)
                         THEN Put(member, new, LiveBindings(bindings, ts)[task].session)
                         ELSE member

\* execve().  (Bound: in a process that has come down to one task.)
Execve ==
    \E p \in DOMAIN parent \ {Init}, ts \in Instants, found \in FoundByExec,
       env \in BOOLEAN, class \in NameClasses, placed \in BOOLEAN :
        /\ TasksOf(p) = {p}
        /\ OnExec(p, parent[p], ts, found, env, class, placed)
        /\ MayHaveRooted(p)
        /\ UNCHANGED <<leader, parent, died, threads>>

ConnectToLlm ==
    \E p \in DOMAIN parent \ {Init}, ts \in Instants, placed \in BOOLEAN :
        /\ OnConnect(p, ts, placed)
        /\ MayHaveRooted(p)
        /\ UNCHANGED <<leader, parent, died, threads>>

\* A task ends; its process ends with its last task, and leaves its children
\* to Init.  (Bound: a leader ends last, as it does unless its main thread
\* ends by pthread_exit.)
TaskExit ==
    \E task \in Live \ {Init}, ts \in Instants :
        LET process == leader[task]
            orphaned == [p \in DOMAIN parent |->
                            IF parent[p] = task THEN Init ELSE parent[p]]
        IN  /\ task = process => TasksOf(process) = {process}
            /\ OnExit(process, ts)
            /\ leader' = Without(leader, task)
            /\ parent' = IF task = process THEN Without(orphaned, task) ELSE parent
            /\ died' = Put(died, task, ts)
            /\ ancestry' = Without(ancestry, task)
            /\ member' = Without(member, task)
            /\ UNCHANGED threads

OtherEvent ==
    /\ \E p \in DOMAIN parent, ts \in Instants : OnOther(p, ts)
    /\ UNCHANGED host_vars

HostNext == Clone \/ Execve \/ ConnectToLlm \/ TaskExit \/ OtherEvent

HostSpec == HostInit /\ [][HostNext]_vars
-----------------------------------------------------------------------------
\* As long as the number of a process is not used again while the exited one
\* drains, nor the number of a thread at all, a live process is attributed
\* only to a session whose root it descends from or is, bound or draining.
AttributionIsInherited ==
    \A t \in Live : Resolves(bindings, draining, t) =>
        Resolve(bindings, draining, t).session \in ancestry[t]

OneThreaded(p) == Alive(p) /\ ~\E t \in DOMAIN threads : threads[t] = p

\* The root of a session lives, or its number has been dead for less than the
\* drain time.
LivesOrDrains(session) ==
    LET root == session.pid
    IN  \/ root \in DOMAIN member /\ member[root] = session
        \/ root \in DOMAIN died /\ clock < died[root] + DrainTime

\* A process forked in a confirmed session, or confirmed as its root, stays in
\* that session whatever it executes or connects to and whoever else exits
\* around it, until the drain time after its root's end, as long as it has had
\* one thread only: the candidate states of others, the promotion window and
\* the drain time of others never reach it.  (state.rs: child_binding, on_exit)
\* After that docs/设计方案文档.md:122 has the session evicted, which the code
\* does not do: on_exit drains the binding of the root alone, and the others
\* stay as long as they live.
MembersStay ==
    \A p \in DOMAIN member :
        (OneThreaded(p) /\ LivesOrDrains(member[p])) =>
            p \in DOMAIN bindings /\ bindings[p].session = member[p]

\* "a confirmed root and the descendants that inherit from it; kept until five
\* minutes after root_pid exits" (docs/设计方案文档.md:122): while the root of a
\* confirmed session lives, it is in its session.
RootIsKeptWhileAlive ==
    \A p \in DOMAIN member :
        (Alive(p) /\ member[p].pid = p) =>
            Resolves(bindings, draining, p)
            /\ Resolve(bindings, draining, p).session = member[p]
=============================================================================
