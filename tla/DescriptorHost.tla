---------------------------- MODULE DescriptorHost ----------------------------
(***************************************************************************)
(* Processes of a host, what they do with their directories, descriptors   *)
(* and SSL objects, and the normalizer and StateNet that follow them from  *)
(* events.  What a process has open is the file or directory, wherever     *)
(* that is moved to.  Each program object of the kernel side has a ring:   *)
(* the daemon gets the events of a ring in order, but those of one ring    *)
(* before or after those of another.  The clock counts the calls.          *)
(***************************************************************************)
EXTENDS StateNet

CONSTANTS
    Pids,
    Fds,
    Peers,
    Ssls,
    Links,             \* the links of the file system: path -> path
    Relinked,          \* and where they lead after a change
    Missing,           \* paths of files and directories not there at the start
    CallsTogether,     \* bound: the calls made in one behaviour, the paths they are
                       \* made with ([absolute, names]), how many calls, and how many
                       \* events wait at most: [names, paths, most, waiting]
    MaxTrouble         \* bound: lost events, threads ended, unseen calls

Directions == {"read", "write"}

ASSUME HostAssumption ==
    /\ Pids \subseteq Nat /\ 1 \in Pids /\ Fds \subseteq Nat
    /\ DOMAIN Links = DOMAIN Relinked
    /\ NoEndpoint \notin Peers

VARIABLES
    usable,            \* the calls made in this behaviour
    table,             \* live process -> [cwd, fds]: what the kernel knows
    threads,           \* number of a thread that is not the first -> its process
    peers,             \* socket -> its peer: sockets are numbered as they are made
    places,            \* file or directory in use -> its path: numbered likewise
    links,             \* live process -> [SSL object, direction] -> descriptor
    files,             \* [links, gone, changes]: the file system, and (history) how
                       \* often its links have changed
    born,              \* pids that have been used
    calls,             \* calls made: the time
    flight,            \* events not yet processed
    trouble,
    norm,              \* the normalizer
    net,               \* StateNet
    taint,             \* history: pid -> what happened to the process
    last               \* what the daemon made of the last event

host_vars ==
    <<usable, table, threads, peers, places, links, files, born, calls, flight, trouble>>
vars == <<host_vars, norm, net, taint, last>>

Nothing == [kind |-> "nothing"]

Init ==
    /\ usable \in CallsTogether
    /\ table = [p \in {1} |-> [cwd |-> 1, fds |-> EmptyMap]]
    /\ threads = EmptyMap
    /\ peers = <<>>
    /\ places = <<Workspace>>
    /\ links = [p \in {1} |-> EmptyMap]
    /\ files = [links |-> Links, gone |-> Missing, changes |-> 0]
    /\ born = {1}
    /\ calls = 0
    /\ flight = <<>>
    /\ trouble = 0
    /\ norm = Bootstrapped([p \in {1} |-> [cwd |-> Workspace, fds |-> EmptyMap]])
    /\ net = EmptyNet
    /\ taint = [p \in Pids |-> {}]
    /\ last = Nothing

-----------------------------------------------------------------------------
(* The host. *)

Live == DOMAIN table
Open(p) == DOMAIN table[p].fds
ThreadsOf(p) == {t \in DOMAIN threads : threads[t] = p}
Unused == Pids \ (Live \cup DOMAIN threads)
FirstFree(p) == CHOOSE fd \in Fds \ Open(p) : \A other \in Fds \ Open(p) : fd <= other
Taints(pids, what) == [p \in Pids |-> IF p \in pids THEN taint[p] \cup {what} ELSE taint[p]]

\* A call named name, of one of the usable ones.
Called(name) ==
    /\ name \in usable.names
    /\ calls < usable.most
    /\ calls' = calls + 1
    /\ UNCHANGED <<usable, norm, net, last>>

\* The event with its time.
Stamped(ev) == [x \in DOMAIN ev \cup {"ts"} |-> IF x = "ts" THEN calls ELSE ev[x]]

\* The call's event reaches its ring, or the ring is full.  more is what else
\* happens to the history.
Emitted(ev, more) ==
    \/ /\ Len(flight) < usable.waiting
       /\ flight' = Append(flight, Stamped(ev))
       /\ taint' = more
       /\ UNCHANGED trouble
    \/ /\ "lose" \in usable.names
       /\ trouble < MaxTrouble
       /\ trouble' = trouble + 1
       /\ taint' = [p \in Pids |->
                       IF p = ev.pid \/ (ev.kind = "fork" /\ p = ev.child)
                       THEN more[p] \cup {"lost"} ELSE more[p]]
       /\ UNCHANGED flight

\* The call is not hooked.
Unseen(p, what) ==
    /\ trouble < MaxTrouble
    /\ trouble' = trouble + 1
    /\ taint' = Taints({p}, what)
    /\ UNCHANGED flight

\* sched_process_fork.  The number reported for the parent is that of the task
\* which forks: a thread that is not the first has one of its own.
Fork(p) ==
    /\ Called("fork")
    /\ \E task \in {p} \cup ThreadsOf(p), child \in Unused :
          /\ table' = Put(table, child, table[p])
          /\ links' = Put(links, child, links[p])
          /\ born' = born \cup {child}
          /\ Emitted([kind |-> "fork", ring |-> "proc", pid |-> p, task |-> task,
                      child |-> child],
                     [taint EXCEPT ![p] = @ \cup {"shares descriptors"},
                                   ![child] = @ \cup taint[p] \cup {"shares descriptors"}
                                       \cup (IF child \in born THEN {"pid reused"} ELSE {})
                                       \cup (IF task # p THEN {"forked by a thread"} ELSE {})])
    /\ UNCHANGED <<threads, peers, places, files>>

\* sched_process_fork of a thread: reported as a child of the task that starts it.
StartThread(p) ==
    /\ Called("start thread")
    /\ \E task \in {p} \cup ThreadsOf(p), thread \in Unused :
          /\ threads' = Put(threads, thread, p)
          /\ Emitted([kind |-> "fork", ring |-> "proc", pid |-> p, task |-> task,
                      child |-> thread], taint)
    /\ UNCHANGED <<table, peers, places, links, files, born>>

\* sched_process_exec: the other threads have ended.  SSL objects are gone, and
\* descriptors marked so are closed without an event.
Exec(p) ==
    /\ Called("exec")
    /\ ThreadsOf(p) = {}
    /\ \E closed \in {{}} \cup IF "close on exec" \in usable.names THEN {Open(p)} ELSE {} :
          /\ table' = [table EXCEPT ![p].fds = Keep(@, Open(p) \ closed)]
          /\ Emitted([kind |-> "exec", ring |-> "proc", pid |-> p],
                     IF closed = {} THEN taint ELSE Taints({p}, "closed unseen"))
    /\ links' = [links EXCEPT ![p] = EmptyMap]
    /\ UNCHANGED <<threads, peers, places, files, born>>

\* sched_process_exit of the last task
Exit(p) ==
    /\ Called("exit")
    /\ ThreadsOf(p) = {}
    /\ table' = Without(table, p)
    /\ links' = Without(links, p)
    /\ Emitted([kind |-> "exit", ring |-> "proc", pid |-> p], taint)
    /\ UNCHANGED <<threads, peers, places, files, born>>

\* sched_process_exit of a thread: reported under the number of its process.
EndThread(p) ==
    /\ Called("end thread")
    /\ \E thread \in ThreadsOf(p) : threads' = Without(threads, thread)
    /\ Emitted([kind |-> "exit", ring |-> "proc", pid |-> p], Taints({p}, "thread ended"))
    /\ UNCHANGED <<table, peers, places, links, files, born>>

\* The directory a call starts from.
Base(p, dirfd) ==
    places[IF dirfd = AtCwd THEN table[p].cwd ELSE table[p].fds[dirfd].place]
Start(p, dirfd, raw) == IF raw.absolute THEN Root ELSE Base(p, dirfd)

\* A call made from a directory, which is still there: from one that has been
\* removed every call fails.
Based(p, dirfd, raw) ==
    /\ dirfd = AtCwd \/ (dirfd \in Open(p) /\ table[p].fds[dirfd].kind = "file")
    /\ Exists(files, Start(p, dirfd, raw))

Reached(p, dirfd, raw) == Walk(files.links, Start(p, dirfd, raw), raw.names)
Named(p, raw) == Entry(files.links, Start(p, AtCwd, raw), raw.names)

\* A call led to real by a link, and one that goes up from where a link led.
Led(p, dirfd, raw, real) ==
    LET led == real # LexicalClean(Start(p, dirfd, raw) \o raw.names)
    IN  IF led \/ "led by a link" \in taint[p]
        THEN {"led by a link"} \cup IF Up \in Range(raw.names) THEN {"up from a link"} ELSE {}
        ELSE {}

\* chdir, fchdir, with what they return.
Chdir(p) ==
    /\ Called("chdir")
    /\ \E dirfd \in {AtCwd} \cup Open(p) :
       \E raw \in IF dirfd = AtCwd THEN usable.paths ELSE {[absolute |-> FALSE, names |-> <<>>]} :
          LET real == Reached(p, dirfd, raw)
              ret == IF Exists(files, real) THEN 0 ELSE -1
          IN  /\ Based(p, dirfd, raw)
              /\ places' = IF ret = 0 THEN Append(places, real) ELSE places
              /\ table' = IF ret = 0 THEN [table EXCEPT ![p].cwd = Len(places) + 1] ELSE table
              /\ Emitted([kind |-> "chdir", ring |-> "proc", pid |-> p, dirfd |-> dirfd,
                          raw |-> raw, ret |-> ret, real |-> <<{real}>>, before |-> files.changes,
                          after |-> files.changes],
                         [taint EXCEPT ![p] = @ \cup IF ret = 0 THEN Led(p, dirfd, raw, real)
                                                    ELSE {"chdir failed"}])
    /\ UNCHANGED <<threads, peers, links, files, born>>

\* openat, openat2
OpenFile(p) ==
    /\ Called("open")
    /\ Open(p) # Fds
    /\ \E dirfd \in {AtCwd} \cup Open(p), raw \in usable.paths :
          LET real == Reached(p, dirfd, raw)
              ret == IF Exists(files, real) THEN FirstFree(p) ELSE -1
          IN  /\ Based(p, dirfd, raw)
              /\ places' = IF ret = -1 THEN places ELSE Append(places, real)
              /\ table' = IF ret = -1 THEN table
                          ELSE [table EXCEPT ![p].fds =
                                   Put(@, ret, [kind |-> "file", place |-> Len(places) + 1])]
              /\ Emitted([kind |-> "open", ring |-> "fs", pid |-> p, dirfd |-> dirfd,
                          raw |-> raw, ret |-> ret, real |-> <<{real}>>, before |-> files.changes,
                          after |-> files.changes],
                         [taint EXCEPT ![p] = @ \cup Led(p, dirfd, raw, real)])
    /\ UNCHANGED <<threads, peers, links, files, born>>

\* Where a name leads, if it is a link's.
LeadsTo(name) == IF name \in DOMAIN files.links THEN files.links[name] ELSE name

\* The file system with other links.
Linked(ls) == [files EXCEPT !.links = ls, !.changes = IF ls = files.links THEN @ ELSE @ + 1]

\* The file system without what is named.
Removed(name) ==
    [Linked(Without(files.links, name)) EXCEPT !.gone = @ \cup {name}]

\* unlinkat: of the name itself, also when it is a link's.  A directory with a
\* link in it is not empty.
Unlink(p) ==
    /\ Called("unlink")
    /\ \E raw \in usable.paths :
          LET name == Named(p, raw)
              done == Exists(files, name)
                      /\ \A link \in DOMAIN files.links \ {name} : ~IsPrefix(name, link)
          IN  /\ Based(p, AtCwd, raw)
              /\ files' = IF done THEN Removed(name) ELSE files
              /\ Emitted([kind |-> "unlink", ring |-> "fs", pid |-> p, dirfd |-> AtCwd, raw |-> raw,
                          real |-> <<{name, LeadsTo(name)}>>, before |-> files.changes,
                          after |-> files'.changes],
                         [taint EXCEPT ![p] = @ \cup Led(p, AtCwd, raw, name)])
    /\ UNCHANGED <<table, threads, peers, places, links, born>>

\* A path below one renamed.
Moved(path, from, to) ==
    IF IsPrefix(from, path) THEN to \o SubSeq(path, Len(from) + 1, Len(path)) ELSE path

\* The file system with what is named from renamed.
Renamed(from, to) ==
    LET free == {gone \in files.gone : ~IsPrefix(to, gone)}
        ls == [path \in {Moved(link, from, to) : link \in DOMAIN files.links} |->
                  files.links[Moved(path, to, from)]]
    IN  [Linked(ls) EXCEPT !.gone = {from} \cup {Moved(gone, from, to) : gone \in free}]

\* The files and directories a process has in use.
InUse(p) ==
    {table[p].cwd} \cup {table[p].fds[fd].place :
                           fd \in {fd \in Open(p) : table[p].fds[fd].kind = "file"}}

\* No link leads to where another one is.  (bound: there are no chains of links)
Straight(ls) == \A link \in DOMAIN ls : Walk(ls, Root, ls[link]) = ls[link]

\* renameat2 that replaces nothing: what is moved is moved for those who have
\* it in use as well.  (bound: no name is taken that a removed file in use had)
Rename(p) ==
    /\ Called("rename")
    /\ \E raw, to \in usable.paths :
          LET old == Named(p, raw)
              new == Named(p, to)
              done == /\ Exists(files, old) /\ ~Exists(files, new)
                      /\ Exists(files, Front(new)) /\ ~IsPrefix(old, new)
              ups == Led(p, AtCwd, raw, old) \cup Led(p, AtCwd, to, new)
          IN  /\ Based(p, AtCwd, raw) /\ Based(p, AtCwd, to)
              /\ done => /\ Straight(Renamed(old, new).links)
                         /\ \A q \in Live, n \in DOMAIN places :
                               n \in InUse(q) => ~IsPrefix(new, places[n])
              /\ files' = IF done THEN Renamed(old, new) ELSE files
              /\ places' = IF done THEN [n \in DOMAIN places |-> Moved(places[n], old, new)]
                           ELSE places
              /\ Emitted([kind |-> "rename", ring |-> "fs", pid |-> p, dirfd |-> AtCwd,
                          raw |-> raw, to |-> to, before |-> files.changes, after |-> files'.changes,
                          real |-> <<{old, LeadsTo(old)},
                                     {new} \cup IF done THEN {LeadsTo(old)} ELSE {LeadsTo(new)}>>],
                         [q \in Pids |-> taint[q]
                             \cup (IF q = p THEN ups ELSE {})
                             \cup (IF q \in Live /\ \E n \in InUse(q) : places'[n] # places[n]
                                   THEN {"directory moved"} ELSE {})])
    /\ UNCHANGED <<table, threads, peers, links, born>>

\* The links of the file system change.
Relink ==
    /\ Called("relink")
    /\ files.links = Links
    /\ files' = Linked(Relinked)
    /\ UNCHANGED <<table, threads, peers, places, links, born, flight, trouble, taint>>

NewSocket(p, peer) ==
    /\ Open(p) # Fds
    /\ peers' = Append(peers, peer)
    /\ table' = [table EXCEPT ![p].fds =
                    Put(@, FirstFree(p), [kind |-> "socket", id |-> Len(peers) + 1])]
    /\ UNCHANGED <<threads, places, links, files, born, flight, trouble>>

\* socket(2) and accept(2), neither hooked.
Socket(p) == Called("socket") /\ NewSocket(p, NoEndpoint) /\ UNCHANGED taint
Accept(p) ==
    /\ Called("accept")
    /\ \E peer \in Peers : NewSocket(p, peer)
    /\ taint' = Taints({p}, "accepted")

\* open(2) and the like, which are not hooked.
OpenUnseen(p) ==
    /\ Called("open unseen")
    /\ Open(p) # Fds
    /\ \E raw \in usable.paths :
          /\ Based(p, AtCwd, raw) /\ Exists(files, Reached(p, AtCwd, raw))
          /\ places' = Append(places, Reached(p, AtCwd, raw))
    /\ table' = [table EXCEPT ![p].fds =
                    Put(@, FirstFree(p), [kind |-> "file", place |-> Len(places) + 1])]
    /\ Unseen(p, "opened unseen")
    /\ UNCHANGED <<threads, peers, links, files, born>>

\* dup, dup2 and dup3, of an open descriptor or not.  A failed dup2 names its
\* target all the same.
Dup(p) ==
    /\ Called("dup")
    /\ \E oldfd \in Fds, newfd \in Fds :
          LET ok == oldfd \in Open(p)
          IN  /\ ok \/ newfd \in Open(p)
              /\ table' = IF ok THEN [table EXCEPT ![p].fds = Put(@, newfd, @[oldfd])]
                          ELSE table
              /\ Emitted([kind |-> "dup", ring |-> "proc", pid |-> p, oldfd |-> oldfd,
                          newfd |-> newfd, ret |-> IF ok THEN newfd ELSE -1],
                         Taints({p}, IF ok THEN "dupped" ELSE "dup failed"))
    /\ UNCHANGED <<threads, peers, places, links, files, born>>

\* close
Close(p) ==
    /\ Called("close")
    /\ \E fd \in Open(p) :
          /\ table' = [table EXCEPT ![p].fds = Without(@, fd)]
          /\ Emitted([kind |-> "dup", ring |-> "proc", pid |-> p, oldfd |-> -1,
                      newfd |-> fd, ret |-> 0],
                     IF \E link \in DOMAIN links[p] : links[p][link] = fd
                     THEN Taints({p}, "closed while linked") ELSE taint)
    /\ UNCHANGED <<threads, peers, places, links, files, born>>

\* connect: it fails on a socket that has a peer, and may fail anyway.
Connect(p) ==
    /\ Called("connect")
    /\ \E fd \in Open(p), peer \in Peers, ret \in {0, -1} :
          LET socket == table[p].fds[fd]
          IN  /\ socket.kind = "socket"
              /\ peers[socket.id] # NoEndpoint => ret = -1
              /\ peers' = IF ret = 0 THEN [peers EXCEPT ![socket.id] = peer] ELSE peers
              /\ Emitted([kind |-> "connect", ring |-> "net", pid |-> p, fd |-> fd,
                          peer |-> peer, ret |-> ret],
                         IF ret = 0 THEN taint ELSE Taints({p}, "connect failed"))
    /\ UNCHANGED <<table, threads, places, links, files, born>>

\* SSL_set_rfd, SSL_set_wfd; SSL_set_fd is one after the other.
SetFd(p) ==
    /\ Called("set fd")
    /\ \E ssl \in Ssls, fd \in Open(p), direction \in Directions :
          /\ table[p].fds[fd].kind = "socket"
          /\ links' = [links EXCEPT ![p] = Put(@, <<ssl, direction>>, fd)]
          /\ Emitted([kind |-> "assoc", ring |-> "tls", pid |-> p, ssl |-> ssl, fd |-> fd,
                      direction |-> direction], taint)
    /\ UNCHANGED <<table, threads, peers, places, files, born>>

\* SSL_set_bio and SSL_free followed by an object of the same address: not hooked.
SetBio(p) ==
    /\ Called("set bio")
    /\ \E ssl \in Ssls, fd \in Open(p), direction \in Directions :
          /\ table[p].fds[fd].kind = "socket"
          /\ links' = [links EXCEPT ![p] = Put(@, <<ssl, direction>>, fd)]
    /\ Unseen(p, "linked unseen")
    /\ UNCHANGED <<table, threads, peers, places, files, born>>

\* SSL_read and SSL_write, while their descriptor has a peer.
Transfer(p) ==
    /\ Called("transfer")
    /\ \E link \in DOMAIN links[p] :
          LET fd == links[p][link]
          IN  /\ fd \in Open(p)
              /\ table[p].fds[fd].kind = "socket"
              /\ peers[table[p].fds[fd].id] # NoEndpoint
              /\ Emitted([kind |-> "fragment", ring |-> "tls", pid |-> p, ssl |-> link[1],
                          direction |-> link[2], real |-> peers[table[p].fds[fd].id]], taint)
    /\ UNCHANGED <<table, threads, peers, places, links, files, born>>

Host ==
    \/ \E p \in Live :
          \/ Fork(p) \/ StartThread(p) \/ Exec(p) \/ Exit(p) \/ EndThread(p)
          \/ Chdir(p) \/ OpenFile(p) \/ OpenUnseen(p) \/ Unlink(p) \/ Rename(p)
          \/ Socket(p) \/ Accept(p) \/ Dup(p) \/ Close(p) \/ Connect(p)
          \/ SetFd(p) \/ SetBio(p) \/ Transfer(p)
    \/ Relink

-----------------------------------------------------------------------------
(* The daemon. *)

Concerned(ev) == {ev.pid} \cup IF ev.kind = "fork" THEN {ev.child} ELSE {}

\* What the history keeps of the event at i being processed: events of other
\* rings it overtakes, what is pushed out, and what a child takes over.
Followed(i, norm2, net2) ==
    LET ev == flight[i]
        late == UNION {Concerned(ev) : j \in {j \in 1 .. i - 1 :
                          Concerned(flight[j]) \cap Concerned(ev) # {}}}
        dropped == (DOMAIN norm.processes \cup DOMAIN norm.expiring)
                      \ (DOMAIN norm2.processes \cup DOMAIN norm2.expiring)
        own == IF ev.kind = "dup" THEN {<<ev.pid, ev.newfd>>} ELSE {}
        forgotten == {key[1] : key \in
            (DOMAIN net.versions \ DOMAIN net2.versions)
            \cup ((KeysIn(net.fds) \ KeysIn(net2.fds)) \ own)
            \cup IF ev.kind = "assoc" THEN KeysIn(net.assocs) \ KeysIn(net2.assocs) ELSE {}}
    IN  [p \in Pids |->
            taint[p] \cup (IF p \in late THEN {"overtaken"} ELSE {})
                     \cup (IF p \in dropped \cup forgotten THEN {"pushed out"} ELSE {})
                     \cup (IF ev.kind = "fork" /\ p = ev.child THEN taint[ev.pid] ELSE {})]

\* process_content_fragment, as far as the attribution goes: the normalizer
\* gets no fragments.
Attribute(ev) ==
    [kind |-> "fragment", pid |-> ev.pid, real |-> ev.real, told |->
        RecordTlsFragment(net, ev.pid, ev.ssl, ev.direction)]

\* process_owned_event and apply_state, as far as the normalizer and StateNet
\* go.
Deliver(i) ==
    LET ev == flight[i]
        done == Normalize(norm, files, ev)
    IN  /\ i \in DOMAIN flight
        /\ \A j \in 1 .. i - 1 : flight[j].ring # ev.ring
        /\ flight' = SubSeq(flight, 1, i - 1) \o SubSeq(flight, i + 1, Len(flight))
        /\ IF ev.kind = "fragment"
           THEN /\ last' = Attribute(ev)
                /\ UNCHANGED <<norm, net>>
           ELSE /\ norm' = done.n
                /\ net' = ApplyNet(net, ev)
                /\ last' = IF done.resolved = <<>> THEN Nothing
                           ELSE [kind |-> "paths", pid |-> ev.pid, real |-> ev.real,
                                 before |-> ev.before, after |-> ev.after,
                                 claimed |-> [k \in DOMAIN done.resolved |->
                                                 done.resolved[k].preferred]]
        /\ taint' = Followed(i, norm', net')
        /\ UNCHANGED <<usable, table, threads, peers, places, links, files, born, calls,
                       trouble>>

Next == Host \/ \E i \in DOMAIN flight : Deliver(i)

Spec == Init /\ [][Next]_vars

-----------------------------------------------------------------------------
Lists(order, keys) == Range(order) = keys /\ Len(order) = Cardinality(keys)

\* The type invariant, with the bookkeeping of the two components: each order
\* lists its processes once, and each descriptor has its current version.
TypeOK ==
    /\ Live \subseteq Pids /\ DOMAIN links = Live
    /\ Lists(norm.order, DOMAIN norm.processes)
    /\ Lists(norm.expiring_order, DOMAIN norm.expiring)
    /\ Cardinality(DOMAIN norm.processes) + Cardinality(DOMAIN norm.expiring) <= ProcessCapacity
    /\ \A key \in KeysIn(net.fds) :
          key \in DOMAIN net.versions /\ net.versions[key] = ValueOf(net.fds, key).version
    /\ Len(net.fds) <= FdCapacity
    /\ Len(net.endpoints) <= EndpointCapacity
    /\ Len(net.assocs) <= AssocCapacity

\* A path the detectors see leads to the file the call was about, in the file
\* system there was at the call: relative paths, directories taken over from the
\* parent or kept over exec, and descriptors closed and opened again are
\* followed.  Of a link that is removed or renamed it may be the link or where
\* the link leads.  The exceptions are a lost or overtaken event, what no hook
\* reports, a chdir or dup2 that failed, the end of a thread, a fork by one that
\* is not the first, a process pushed out, a directory in use that is renamed,
\* links changed before the call or while its event waits, and ".." from a
\* directory that a link led to.
\* (apply.rs; path.rs: resolve_path; owned.rs: fd_dup_effect)
PathsLeadThere ==
    (last.kind = "paths" /\ taint[last.pid] \cap
        {"lost", "overtaken", "opened unseen", "chdir failed", "dup failed", "thread ended",
         "forked by a thread", "directory moved", "up from a link", "pushed out"} = {}
     /\ last.before = 0 /\ last.after = files.changes)
    => \A k \in DOMAIN last.real :
          {Walk(Links, Root, last.claimed[k]), Entry(Links, Root, last.claimed[k])}
              \cap last.real[k] # {}

\* An endpoint a TLS fragment is attributed to is the peer its bytes came from
\* or went to, whatever has been closed, duplicated, forgotten or linked again.
\* The exceptions: a lost or overtaken event, SSL objects linked and descriptors
\* closed where no hook is, a pid used again, a connect that failed.
\* (state.rs: record_tls_fragment)
FullEndpointsAreReal ==
    (last.kind = "fragment" /\ last.told.endpoint # NoEndpoint /\ taint[last.pid] \cap
        {"lost", "overtaken", "linked unseen", "closed unseen", "pid reused",
         "connect failed"} = {})
    => last.told.endpoint = last.real

\* A fragment of an SSL object that was given its descriptor, before or after
\* a reported connect, is attributed, in a process to which nothing else has
\* happened.  (state.rs: apply_connect, apply_tls_assoc, record_tls_fragment)
ConnectedStreamsAreAttributed ==
    (last.kind = "fragment" /\ taint[last.pid] = {})
    => last.told.endpoint = last.real
=============================================================================
