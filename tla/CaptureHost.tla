---------------------------- MODULE CaptureHost -----------------------------
(***************************************************************************)
(* Processes that fork, exec and juggle descriptors, and ContentCapture    *)
(* that follows them.  Events of descriptors and processes reach the       *)
(* daemon through the ring of proc, those of open through the ring of fs.  *)
(*                                                                         *)
(* Bounds on the host: no event is lost; exec finds the standard           *)
(* descriptors open, closes none that is captured (by close-on-exec) and   *)
(* comes when the process has one thread; threads do not fork; calls on    *)
(* descriptors of one process do not overlap, but for read and write,      *)
(* which a hook may be in while other threads go on; the number of a       *)
(* thread is not used again.                                               *)
(***************************************************************************)
EXTENDS ContentCapture

CONSTANTS
    First,               \* the process alive at the start
    MaxCalls             \* bound: system calls explored

ASSUME CaptureHostAssumption ==
    /\ First \in Pids
    /\ MaxCalls \in Nat

VARIABLES
    table,               \* live process -> (open descriptor -> its policies, at most one)
    threads,             \* number of a thread, past ones included -> running?
    process_of,          \* number of a thread -> its process
    strayed,             \* history: <<process, descriptor>> the code is known to lose
    overtaken,           \* history: has an open been processed out of order?
    calls                \* system calls made

host_vars == <<table, threads, process_of, strayed, overtaken, calls>>
vars == <<capture_vars, host_vars>>

CaptureHostInit ==
    /\ CaptureInit
    /\ table = [p \in {First} |-> [fd \in StdFds |-> {}]]
    /\ threads = EmptyMap
    /\ process_of = EmptyMap
    /\ strayed = {}
    /\ overtaken = FALSE
    /\ calls = 0

Alive == DOMAIN table
Open(p) == DOMAIN table[p]
RunningThreads(p) == {t \in DOMAIN threads : threads[t] /\ process_of[t] = p}
TasksOf(p) == {p} \cup RunningThreads(p)
Unused == Pids \ (Alive \cup DOMAIN threads)

\* A system call of a process whose hook submits event e to ring r.
Call(r, e) ==
    /\ calls < MaxCalls
    /\ calls' = calls + 1
    /\ rings' = [rings EXCEPT ![r] = Append(@, e)]
    /\ UNCHANGED <<now, mirror, commands, whitelist, worker, condemned, robbed, overtaken>>

StrayedOf(p) == {s \in strayed : s[1] = p}

Fork(p) ==
    \E child \in Unused :
        /\ Call("proc", [kind |-> "fork", pid |-> p, child |-> child])
        /\ table' = Put(table, child, table[p])
        /\ strayed' = strayed \cup {<<child, s[2]>> : s \in StrayedOf(p)}
        /\ UNCHANGED <<threads, process_of>>

\* execve: the role the graph gives the process decides on the channel.
Exec(p) ==
    \E channel \in Channels \cup {NoChannel} :
        /\ StdFds \subseteq Open(p)
        /\ RunningThreads(p) = {}
        /\ Call("proc", [kind |-> "exec", pid |-> p, channel |-> channel, ts |-> now])
        /\ table' = IF channel = NoChannel THEN table
                    ELSE [table EXCEPT ![p] = [fd \in Open(p) |->
                            IF fd \in StdFds
                            THEN {[channel |-> channel, expires |-> now + CaptureTime]}
                            ELSE @[fd]]]
        /\ UNCHANGED <<threads, process_of, strayed>>

\* dup (which takes a free descriptor), dup2 and dup3 (which take any).
Dup(p) ==
    \E oldfd \in Open(p), newfd \in Fds :
        /\ Call("proc", [kind |-> "dup", pid |-> p, oldfd |-> oldfd,
                         newfd |-> newfd, ret |-> newfd])
        /\ table' = [table EXCEPT ![p] = Put(@, newfd, @[oldfd])]
        /\ strayed' = IF newfd = oldfd \/ <<p, oldfd>> \in strayed
                      THEN strayed \cup {<<p, newfd>>} ELSE strayed
        /\ UNCHANGED <<threads, process_of>>

DupFails(p) ==
    \E oldfd \in Fds \ Open(p), newfd \in Fds :
        /\ Call("proc", [kind |-> "dup", pid |-> p, oldfd |-> oldfd,
                         newfd |-> newfd, ret |-> None])
        /\ UNCHANGED <<table, threads, process_of, strayed>>

Close(p) ==
    \E fd \in Open(p) :
        /\ Call("proc", [kind |-> "dup", pid |-> p, oldfd |-> None,
                         newfd |-> fd, ret |-> 0])
        /\ table' = [table EXCEPT ![p] = Without(@, fd)]
        /\ UNCHANGED <<threads, process_of, strayed>>

\* openat
OpenFile(p) ==
    \E fd \in Fds \ Open(p) :
        /\ Call("fs", [kind |-> "open", pid |-> p, ret |-> fd])
        /\ table' = [table EXCEPT ![p] = Put(@, fd, {})]
        /\ UNCHANGED <<threads, process_of, strayed>>

\* pipe, socket, accept: no hook follows the descriptors they make.
OpenOther(p) ==
    \E fd \in Fds \ Open(p) :
        /\ calls < MaxCalls
        /\ calls' = calls + 1
        /\ table' = [table EXCEPT ![p] = Put(@, fd, {})]
        /\ UNCHANGED <<capture_vars, threads, process_of, strayed, overtaken>>

\* fcntl(F_DUPFD): no hook follows it.
DupUnseen(p) ==
    \E oldfd \in Open(p), newfd \in Fds \ Open(p) :
        /\ calls < MaxCalls
        /\ calls' = calls + 1
        /\ table' = [table EXCEPT ![p] = Put(@, newfd, @[oldfd])]
        /\ strayed' = strayed \cup {<<p, newfd>>}
        /\ UNCHANGED <<capture_vars, threads, process_of, overtaken>>

\* clone of a thread: reported like a fork.
StartThread(p) ==
    \E t \in Unused :
        /\ Call("proc", [kind |-> "fork", pid |-> p, child |-> t])
        /\ threads' = Put(threads, t, TRUE)
        /\ process_of' = Put(process_of, t, p)
        /\ UNCHANGED <<table, strayed>>

\* The end of a thread: reported under the number of its process.
EndThread(p) ==
    \E t \in RunningThreads(p) \ DOMAIN condemned :
        /\ Call("proc", [kind |-> "exit", pid |-> p])
        /\ threads' = [threads EXCEPT ![t] = FALSE]
        /\ strayed' = strayed \cup {p} \X Fds
        /\ UNCHANGED <<table, process_of>>

Exit(p) ==
    /\ RunningThreads(p) = {}
    /\ Call("proc", [kind |-> "exit", pid |-> p])
    /\ table' = Without(table, p)
    /\ UNCHANGED <<threads, process_of, strayed>>

\* A call of p is made by a task of it that no hook holds up.
HostCall(p) ==
    /\ TasksOf(p) \ DOMAIN condemned # {}
    /\ \/ Fork(p) \/ Exec(p) \/ Exit(p)
       \/ Dup(p) \/ DupUnseen(p) \/ DupFails(p) \/ Close(p) \/ OpenFile(p) \/ OpenOther(p)
       \/ StartThread(p) \/ EndThread(p)

\* open takes a free descriptor, whose policy the events of the other ring have
\* removed: an open that finds one is processed before or after its turn.
OutOfTurn(ring) ==
    ring = "fs" /\ <<Head(rings[ring]).pid, Head(rings[ring]).ret>> \in DOMAIN mirror

Daemon ==
    /\ \/ \E ring \in DOMAIN rings :
             Process(ring) /\ overtaken' = (overtaken \/ OutOfTurn(ring))
       \/ /\ \/ ApplyCommand
             \/ PassTime
             \/ \E p \in Alive, fd \in Fds : \E task \in TasksOf(p) : Lookup(task, <<p, fd>>)
             \/ \E task \in DOMAIN condemned : DeleteFound(task)
          /\ UNCHANGED overtaken
    /\ UNCHANGED <<table, threads, process_of, strayed, calls>>

CaptureHostNext == (\E p \in Alive : HostCall(p)) \/ Daemon

CaptureHostSpec == CaptureHostInit /\ [][CaptureHostNext]_vars

-----------------------------------------------------------------------------
Event ==
    [kind : {"fork"}, pid : Pids, child : Pids]
    \cup [kind : {"exec"}, pid : Pids, channel : Channels \cup {NoChannel}, ts : 0 .. MaxTime]
    \cup [kind : {"exit"}, pid : Pids]
    \cup [kind : {"dup"}, pid : Pids, oldfd : Fds \cup {None}, newfd : Fds, ret : Fds \cup {0, None}]
    \cup [kind : {"open"}, pid : Pids, ret : Fds]

\* The type invariant: in particular no policy outlasts the time of the last
\* exec by more than CaptureTime.
CaptureTypeOK ==
    /\ now \in 0 .. MaxTime
    /\ DOMAIN rings = {"proc", "fs"}
    /\ \A r \in DOMAIN rings : \A i \in DOMAIN rings[r] : rings[r][i] \in Event
    /\ IsMap(mirror, Keys, Policy)
    /\ IsMap(whitelist, Keys, Policy)
    /\ Cardinality(DOMAIN whitelist) <= WhitelistCapacity
    /\ \A i \in DOMAIN commands :
          /\ commands[i].key \in Keys
          /\ commands[i].policy \in {{}} \cup {{p} : p \in Policy}
    /\ worker \in {"running", "failed"}
    /\ IsMap(condemned, Pids, Found)
    /\ robbed \subseteq Keys
    /\ Alive \subseteq Pids
    /\ \A p \in Alive : IsMap(table[p], Fds, {{}} \cup {{x} : x \in Policy})
    /\ strayed \subseteq Keys
    /\ overtaken \in BOOLEAN

\* Every event is processed and every command applied.
Settled ==
    /\ worker = "running"
    /\ commands = <<>>
    /\ \A r \in DOMAIN rings : rings[r] = <<>>

Wanted(p, fd) == p \in Alive /\ fd \in Open(p) /\ table[p][fd] # {}

\* Once the daemon has caught up, only descriptors that came from a captured
\* one, in a live process, under the policy they came with, are captured: no
\* reused descriptor and no reused number is.  (The entries of threads, which
\* nothing removes, are the exception: no hook looks them up.)
\* (pipeline.rs: observe_content_capture_policy)
NothingOvercaptured ==
    Settled => \A k \in DOMAIN InForce(whitelist) :
        k[1] \in DOMAIN threads \/ (Wanted(k[1], k[2]) /\ table[k[1]][k[2]] = {whitelist[k]})

CaptureReaches(p, fd) ==
    (Wanted(p, fd) /\ \A policy \in table[p][fd] : ~Expired(policy))
        => /\ <<p, fd>> \in DOMAIN whitelist
           /\ table[p][fd] = {whitelist[<<p, fd>>]}

\* Once the daemon has caught up, every descriptor that came from a captured
\* one is captured, except where a dup onto itself, a dup by fcntl or a thread's
\* end went before, or a hook has deleted a policy newer than the one it had
\* looked at, and unless an open has been processed out of its turn.
\* (pipeline.rs: inherit_content_capture, dup_content_capture)
CaptureKept ==
    (Settled /\ ~overtaken) => \A p \in Alive : \A fd \in Open(p) :
        <<p, fd>> \in strayed \cup robbed \/ CaptureReaches(p, fd)
=============================================================================
