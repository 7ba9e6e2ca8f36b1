----------------------------- MODULE EventRings -----------------------------
(***************************************************************************)
(* The kernel half of the telemetry path.  Every BPF object has its own    *)
(* ring buffer (shared by all CPUs) and its own per-CPU sequence counter;  *)
(* a program first reserves room in the ring and only then takes a         *)
(* sequence number.  The worker thread of the runtime copies the records   *)
(* of the rings into one channel to the daemon.                            *)
(***************************************************************************)
EXTENDS EventRecords, Sequences

CONSTANTS
    RingCapacity,   \* records a ring buffer holds (bytes in the code)
    MaxFired        \* bound: hook executions explored

ASSUME RingAssumption ==
    /\ RingCapacity \in Nat
    /\ MaxFired \in Nat

VARIABLES
    seqs,           \* [Objects -> [Cpus -> Nat]]: next_seq's counters
    ring,           \* [Objects -> Seq(Record)]
    channel,        \* the mpsc channel from the worker to the driver
    fired,          \* history: hook executions that had an event to report
    lost            \* history: reservations that failed

ring_vars == <<seqs, ring, channel, fired, lost>>

RingInit ==
    /\ seqs = [obj \in Objects |-> [cpu \in Cpus |-> 0]]
    /\ ring = [obj \in Objects |-> <<>>]
    /\ channel = <<>>
    /\ fired = 0
    /\ lost = 0

\* bpf_ringbuf_reserve fails: the program returns before fill_header, so the
\* counter does not move and nothing remembers the event.
ReserveFails(obj, cpu) ==
    /\ Len(ring[obj]) >= RingCapacity
    /\ fired < MaxFired
    /\ fired' = fired + 1
    /\ lost' = lost + 1
    /\ UNCHANGED <<seqs, ring, channel>>

\* A slip in next_seq: the value before the increment.
SeqBeforeIncrement(obj, cpu) == seqs[obj][cpu]

\* next_seq
SeqOf(obj, cpu) == seqs[obj][cpu] + 1

\* Reserve, fill_header (which takes the next sequence number of this object
\* on this CPU) and submit.
Submit(obj, cpu) ==
    LET rec == [obj |-> obj, cpu |-> cpu, seq |-> SeqOf(obj, cpu)]
    IN  /\ Len(ring[obj]) < RingCapacity
        /\ fired < MaxFired
        /\ fired' = fired + 1
        /\ seqs' = [seqs EXCEPT ![obj][cpu] = rec.seq]
        /\ ring' = [ring EXCEPT ![obj] = Append(@, rec)]
        /\ UNCHANGED <<channel, lost>>

\* A slip in the worker's callback: the record is sent but stays in the ring.
ForwardTwice(obj) ==
    /\ ring[obj] # <<>>
    /\ Len(channel) < MaxFired
    /\ channel' = Append(channel, Head(ring[obj]))
    /\ UNCHANGED <<seqs, ring, fired, lost>>

\* A slip in the worker's callback: the record leaves the ring but is not sent.
ForwardNothing(obj) ==
    /\ ring[obj] # <<>>
    /\ ring' = [ring EXCEPT ![obj] = Tail(@)]
    /\ UNCHANGED <<seqs, channel, fired, lost>>

\* ringbuf.poll: the callback of one record copies it into the channel.  The
\* rings are served in no particular order.
Forward(obj) ==
    /\ ring[obj] # <<>>
    /\ channel' = Append(channel, Head(ring[obj]))
    /\ ring' = [ring EXCEPT ![obj] = Tail(@)]
    /\ UNCHANGED <<seqs, fired, lost>>
=============================================================================
