------------------------------ MODULE Normalizer ------------------------------
(***************************************************************************)
(* The normalizer: what it knows of each process (its directory and the    *)
(* paths of its descriptors), of processes that have ended lately, and the *)
(* cache of resolutions.  Its state is a record n; Normalize is one call   *)
(* of Normalizer::apply and returns the new state and the paths resolved.  *)
(***************************************************************************)
EXTENDS PathResolution, Maps

CONSTANTS
    ProcessCapacity,   \* MAX_PROCESS_STATES
    HoldTime           \* EXPIRING_PROC_HOLD_MS

ASSUME NormalizerAssumption == ProcessCapacity \in Nat \ {0} /\ HoldTime \in Nat

AtCwd == -100          \* AT_FDCWD

\* fd_dup_effect.  A close is reported as a dup of descriptor -1.
FdDupEffect(oldfd, newfd, ret) ==
    CASE oldfd = -1 /\ ret = 0 -> [effect |-> "Close", fd |-> newfd]
      [] oldfd # -1 /\ ret < 0 /\ newfd >= 0 -> [effect |-> "Close", fd |-> newfd]
      [] oldfd # -1 /\ ret >= 0 -> [effect |-> "Duplicate", oldfd |-> oldfd,
                                    newfd |-> IF newfd >= 0 THEN newfd ELSE ret]
      [] OTHER -> [effect |-> "Noop"]

\* bootstrap_procfs: the processes found at the start, each [cwd, fds].
Bootstrapped(found) ==
    [processes |-> found, order |-> SetToSeq(DOMAIN found),
     expiring |-> EmptyMap, expiring_order |-> <<>>, cache |-> <<>>]

\* A slip: a process noted before is noted twice.
NotedAgain(order, pid) == Append(order, pid)

\* note_process, note_expiring_process
Noted(order, pid) == Append(InOrder(order, Range(order) \ {pid}), pid)

\* collect_expired
CollectExpired(n, ts) ==
    LET kept == {p \in DOMAIN n.expiring : n.expiring[p].until > ts}
    IN  [n EXCEPT !.expiring = Keep(@, kept),
                  !.expiring_order = InOrder(@, kept)]

\* enforce_process_bounds_to: those that have ended go first.
EnforceProcessBounds(n) ==
    IF Cardinality(DOMAIN n.processes) + Cardinality(DOMAIN n.expiring) <= ProcessCapacity
    THEN n
    ELSE IF n.expiring_order # <<>>
    THEN [n EXCEPT !.expiring = Without(@, Head(n.expiring_order)),
                   !.expiring_order = Tail(@)]
    ELSE [n EXCEPT !.processes = Without(@, Head(n.order)), !.order = Tail(@)]

\* lookup_base_path: only of processes that have not ended.
BasePath(n, pid, dirfd) ==
    IF dirfd = AtCwd
    THEN IF pid \in DOMAIN n.processes THEN n.processes[pid].cwd ELSE Root
    ELSE IF pid \in DOMAIN n.processes /\ dirfd \in DOMAIN n.processes[pid].fds
    THEN n.processes[pid].fds[dirfd]
    ELSE StaleDirfd

\* resolve_path
ResolvePath(n, files, pid, dirfd, raw) ==
    ResolveFrom(files, n.cache, BasePath(n, pid, dirfd), raw)

Quietly(n) == [n |-> n, resolved |-> <<>>]

\* on_proc_fork: the child has what the forking task has, if that is known.
OnProcFork(n, ev) ==
    LET child == IF ev.task \in DOMAIN n.processes THEN n.processes[ev.task]
                 ELSE [cwd |-> Root, fds |-> EmptyMap]
    IN  Quietly([n EXCEPT !.processes = Put(@, ev.child, child),
                          !.order = Noted(@, ev.child)])

\* A slip: the new image starts from nothing.
OnProcExecAnew(n, ev) ==
    Quietly([n EXCEPT !.processes = Put(@, ev.pid, [cwd |-> Workspace, fds |-> EmptyMap]),
                      !.order = Noted(@, ev.pid)])

\* on_proc_exec: directory and descriptors stay.
OnProcExec(n, ev) ==
    LET image == IF ev.pid \in DOMAIN n.processes THEN n.processes[ev.pid]
                 ELSE [cwd |-> Workspace, fds |-> EmptyMap]
    IN  Quietly([n EXCEPT !.processes = Put(@, ev.pid, image),
                          !.order = Noted(@, ev.pid)])

\* on_proc_exit
OnProcExit(n, ev) ==
    IF ev.pid \notin DOMAIN n.processes THEN Quietly(n)
    ELSE Quietly(
        [n EXCEPT !.processes = Without(@, ev.pid),
                  !.order = InOrder(@, Range(@) \ {ev.pid}),
                  !.expiring = Put(@, ev.pid, [until |-> ev.ts + HoldTime]),
                  !.expiring_order = Noted(@, ev.pid)])

\* on_proc_chdir: whatever the call returned.
OnProcChdir(n, files, ev) ==
    LET done == ResolvePath(n, files, ev.pid, ev.dirfd, ev.raw)
        moved == IF ev.pid \in DOMAIN n.processes
                 THEN [n.processes EXCEPT ![ev.pid].cwd = done.resolution.preferred]
                 ELSE n.processes
    IN  [n |-> [n EXCEPT !.processes = moved, !.cache = done.cache],
         resolved |-> <<done.resolution>>]

\* on_fd_dup: a duplicate of a descriptor with no path leaves the target's.
FdsAfter(fds, effect) ==
    CASE effect.effect = "Close" -> Without(fds, effect.fd)
      [] effect.effect = "Duplicate" /\ effect.oldfd \in DOMAIN fds ->
            Put(fds, effect.newfd, fds[effect.oldfd])
      [] OTHER -> fds

OnFdDup(n, ev) ==
    Quietly(IF ev.pid \notin DOMAIN n.processes THEN n
            ELSE [n EXCEPT !.processes[ev.pid].fds =
                              FdsAfter(@, FdDupEffect(ev.oldfd, ev.newfd, ev.ret))])

\* on_file_open
OnFileOpen(n, files, ev) ==
    LET done == ResolvePath(n, files, ev.pid, ev.dirfd, ev.raw)
        opened == IF ev.ret >= 0 /\ ev.pid \in DOMAIN n.processes
                  THEN [n.processes EXCEPT ![ev.pid].fds =
                           Put(@, ev.ret, done.resolution.preferred)]
                  ELSE n.processes
    IN  [n |-> [n EXCEPT !.processes = opened, !.cache = done.cache],
         resolved |-> <<done.resolution>>]

\* on_file_unlink
OnFileUnlink(n, files, ev) ==
    LET done == ResolvePath(n, files, ev.pid, ev.dirfd, ev.raw)
    IN  [n |-> [n EXCEPT !.cache = done.cache], resolved |-> <<done.resolution>>]

\* on_file_rename
OnFileRename(n, files, ev) ==
    LET old == ResolvePath(n, files, ev.pid, ev.dirfd, ev.raw)
        new == ResolvePath([n EXCEPT !.cache = old.cache], files, ev.pid, ev.dirfd, ev.to)
    IN  [n |-> [n EXCEPT !.cache = new.cache],
         resolved |-> <<old.resolution, new.resolution>>]

Handled(n, files, ev) ==
    CASE ev.kind = "fork" -> OnProcFork(n, ev)
      [] ev.kind = "exec" -> OnProcExec(n, ev)
      [] ev.kind = "exit" -> OnProcExit(n, ev)
      [] ev.kind = "chdir" -> OnProcChdir(n, files, ev)
      [] ev.kind = "dup" -> OnFdDup(n, ev)
      [] ev.kind = "open" -> OnFileOpen(n, files, ev)
      [] ev.kind = "unlink" -> OnFileUnlink(n, files, ev)
      [] ev.kind = "rename" -> OnFileRename(n, files, ev)
      [] OTHER -> Quietly(n)           \* on_net_connect, on_tls_assoc

\* Normalizer::apply
Normalize(n, files, ev) ==
    LET done == Handled(CollectExpired(n, ev.ts), files, ev)
    IN  [n |-> EnforceProcessBounds(done.n), resolved |-> done.resolved]
=============================================================================
