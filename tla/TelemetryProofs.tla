--------------------------- MODULE TelemetryProofs ---------------------------
(***************************************************************************)
(* Theorems about the telemetry path, for any CPUs, ring capacity and      *)
(* number of events: what the collector gets of a stream that has a source *)
(* of its own is exactly what the kernel numbered, and every event a hook  *)
(* saw is accounted for.  The inductive invariant follows a stream through *)
(* ring and channel: the numbers under way are those between the last one  *)
(* the collector has seen and the last one given, in order.                *)
(***************************************************************************)
EXTENDS Telemetry, FiniteSetTheorems, SequenceTheorems, TLAPS

\* A record of the stream of an object on a CPU.
Of(rec, obj, cpu) == rec.obj = obj /\ rec.cpu = cpu

\* The numbers of a stream in a queue, and that they are in order.
Numbers(s, obj, cpu) == {s[i].seq : i \in {k \in 1 .. Len(s) : Of(s[k], obj, cpu)}}
Ordered(s, obj, cpu) ==
    \A i, j \in 1 .. Len(s) :
        i < j /\ Of(s[i], obj, cpu) /\ Of(s[j], obj, cpu) => s[i].seq < s[j].seq

\* The last number of a stream with a source of its own the collector has seen.
KeyOf(obj, cpu) == [cpu |-> cpu, source |-> SeqSource(obj)]
Seen(obj, cpu) ==
    IF KeyOf(obj, cpu) \in DOMAIN per_cpu_last_seq THEN per_cpu_last_seq[KeyOf(obj, cpu)] ELSE 0

StreamIsWhole(obj, cpu) ==
    /\ Ordered(channel, obj, cpu)
    /\ Ordered(ring[obj], obj, cpu)
    /\ \A m \in Numbers(channel, obj, cpu), n \in Numbers(ring[obj], obj, cpu) : m < n
    /\ Seen(obj, cpu) <= seqs[obj][cpu]
    /\ Numbers(channel, obj, cpu) \cup Numbers(ring[obj], obj, cpu)
          = (Seen(obj, cpu) + 1) .. seqs[obj][cpu]

\* A ring holds the records of its own object.
OwnRecords == \A obj \in Objects : \A i \in 1 .. Len(ring[obj]) : ring[obj][i].obj = obj

StreamInv ==
    /\ TypeOK
    /\ OwnRecords
    /\ \A obj \in Objects \ Fragmenting, cpu \in Cpus : StreamIsWhole(obj, cpu)
    /\ UnsharedStreamsAreContiguous

CountInv == TypeOK /\ IsFiniteSet(Waiting) /\ EventsConserved
-----------------------------------------------------------------------------
\* Appending a record and taking the first one, as seen by one stream.
LEMMA AppendToQueue ==
    ASSUME NEW s \in Seq(Record), NEW rec \in Record, NEW obj, NEW cpu,
           Ordered(s, obj, cpu),
           Of(rec, obj, cpu) => \A n \in Numbers(s, obj, cpu) : n < rec.seq
    PROVE  /\ Ordered(Append(s, rec), obj, cpu)
           /\ Numbers(Append(s, rec), obj, cpu) =
                 Numbers(s, obj, cpu) \cup (IF Of(rec, obj, cpu) THEN {rec.seq} ELSE {})
  <1> DEFINE t == Append(s, rec)
             n == Len(s)
  <1>1. /\ n \in Nat /\ Len(t) = n + 1
        /\ \A i \in 1 .. n : t[i] = s[i]
        /\ t[n + 1] = rec
    BY AppendProperties, LenProperties
  <1> HIDE DEF t, n
  <1>2. 1 .. Len(t) = (1 .. n) \cup {n + 1}
    BY <1>1
  <1>3. Numbers(t, obj, cpu) = Numbers(s, obj, cpu) \cup (IF Of(rec, obj, cpu) THEN {rec.seq} ELSE {})
    <2>1. ASSUME NEW x \in Numbers(t, obj, cpu)
          PROVE  x \in Numbers(s, obj, cpu) \/ (Of(rec, obj, cpu) /\ x = rec.seq)
      <3>1. PICK i \in 1 .. Len(t) : Of(t[i], obj, cpu) /\ x = t[i].seq
        BY <2>1 DEF Numbers
      <3>2. CASE i \in 1 .. n
        BY <1>1, <3>1, <3>2 DEF Numbers, n
      <3>3. CASE i = n + 1
        BY <1>1, <3>1, <3>3
      <3> QED BY <1>2, <3>2, <3>3
    <2>2. Numbers(s, obj, cpu) \subseteq Numbers(t, obj, cpu)
      BY <1>1, <1>2 DEF Numbers, n
    <2>3. Of(rec, obj, cpu) => rec.seq \in Numbers(t, obj, cpu)
      BY <1>1, <1>2 DEF Numbers
    <2> QED BY <2>1, <2>2, <2>3
  <1>4. Ordered(t, obj, cpu)
    <2> SUFFICES ASSUME NEW i \in 1 .. Len(t), NEW j \in 1 .. Len(t), i < j,
                        Of(t[i], obj, cpu), Of(t[j], obj, cpu)
                 PROVE  t[i].seq < t[j].seq
      BY DEF Ordered
    <2>1. i \in 1 .. n
      BY <1>1
    <2>2. CASE j \in 1 .. n
      BY <1>1, <2>1, <2>2 DEF Ordered, n
    <2>3. CASE j = n + 1
      <3>1. t[i].seq \in Numbers(s, obj, cpu)
        BY <1>1, <2>1 DEF Numbers, n
      <3> QED BY <1>1, <2>3, <3>1
    <2> QED BY <1>2, <2>2, <2>3
  <1> QED BY <1>3, <1>4 DEF t

LEMMA TakeFromQueue ==
    ASSUME NEW s \in Seq(Record), s # <<>>, NEW obj, NEW cpu, Ordered(s, obj, cpu)
    PROVE  /\ Ordered(Tail(s), obj, cpu)
           /\ Numbers(s, obj, cpu) =
                 Numbers(Tail(s), obj, cpu)
                 \cup (IF Of(Head(s), obj, cpu) THEN {Head(s).seq} ELSE {})
           /\ Of(Head(s), obj, cpu) => \A n \in Numbers(Tail(s), obj, cpu) : Head(s).seq < n
  <1> DEFINE t == Tail(s)
             rec == Head(s)
  <1>1. /\ Len(s) \in Nat /\ Len(s) > 0 /\ Len(t) = Len(s) - 1
        /\ \A i \in 1 .. Len(t) : t[i] = s[i + 1]
        /\ rec = s[1]
    BY HeadTailProperties, EmptySeq, LenProperties
  <1> HIDE DEF t, rec
  <1>2. \A i \in 1 .. Len(t) : i + 1 \in 1 .. Len(s)
    BY <1>1
  <1>3. \A i \in 1 .. Len(s) : i = 1 \/ i - 1 \in 1 .. Len(t)
    BY <1>1
  <1>4. Ordered(t, obj, cpu)
    BY <1>1, <1>2 DEF Ordered
  <1>5. Numbers(t, obj, cpu) \subseteq Numbers(s, obj, cpu)
    BY <1>1, <1>2 DEF Numbers
  <1>6. Of(rec, obj, cpu) => rec.seq \in Numbers(s, obj, cpu)
    BY <1>1 DEF Numbers
  <1>7. ASSUME NEW x \in Numbers(s, obj, cpu)
        PROVE  x \in Numbers(t, obj, cpu) \/ (Of(rec, obj, cpu) /\ x = rec.seq)
    <2>1. PICK i \in 1 .. Len(s) : Of(s[i], obj, cpu) /\ x = s[i].seq
      BY <1>7 DEF Numbers
    <2>2. CASE i = 1
      BY <1>1, <2>1, <2>2
    <2>3. CASE i - 1 \in 1 .. Len(t)
      <3>1. t[i - 1] = s[i]
        BY <1>1, <2>3
      <3> QED BY <2>1, <2>3, <3>1 DEF Numbers
    <2> QED BY <1>3, <2>2, <2>3
  <1>8. Of(rec, obj, cpu) => \A n \in Numbers(t, obj, cpu) : rec.seq < n
    <2> SUFFICES ASSUME Of(rec, obj, cpu), NEW n \in Numbers(t, obj, cpu)
                 PROVE  rec.seq < n
      OBVIOUS
    <2>1. PICK i \in 1 .. Len(t) : Of(t[i], obj, cpu) /\ n = t[i].seq
      BY DEF Numbers
    <2>2. t[i] = s[i + 1] /\ i + 1 \in 1 .. Len(s) /\ 1 \in 1 .. Len(s) /\ 1 < i + 1
      BY <1>1, <1>2
    <2> QED BY <1>1, <2>1, <2>2 DEF Ordered
  <1> QED BY <1>4, <1>5, <1>6, <1>7, <1>8 DEF t, rec
-----------------------------------------------------------------------------
(* What a step does to the records under way.                              *)

FireStep(obj, cpu) == Submit(obj, cpu) /\ UNCHANGED collector_vars
PollStep(obj) == Forward(obj) /\ UNCHANGED collector_vars
TakeStep ==
    /\ channel # <<>>
    /\ ProcessRecord(Head(channel))
    /\ channel' = Tail(channel)
    /\ UNCHANGED <<seqs, ring, fired, lost>>
IdleStep == UNCHANGED <<seqs, ring, channel, fired, lost>> /\ UNCHANGED collector_vars
LossStep ==
    /\ fired' = fired + 1 /\ lost' = lost + 1
    /\ UNCHANGED <<seqs, ring, channel>> /\ UNCHANGED collector_vars

LEMMA StepKinds ==
    ASSUME [Next]_vars
    PROVE  \/ \E obj \in Objects, cpu \in Cpus : FireStep(obj, cpu)
           \/ \E obj \in Objects : PollStep(obj)
           \/ TakeStep
           \/ LossStep
           \/ IdleStep
  <1>1. CASE \E obj \in Objects, cpu \in Cpus : Fire(obj, cpu)
    BY <1>1 DEF Fire, ReserveFails, FireStep, LossStep
  <1>2. CASE \E obj \in Objects : Poll(obj)
    BY <1>2 DEF Poll, PollStep
  <1>3. CASE Receive \/ Abort
    BY <1>3 DEF Receive, Abort, Take, TakeStep
  <1>4. CASE Wake \/ Tick \/ Disconnected \/ Stop \/ WorkerFails \/ Signal
    BY <1>4 DEF Wake, Tick, Disconnected, Stop, WorkerFails, Signal, ring_vars, IdleStep
  <1>5. CASE UNCHANGED vars
    BY <1>5 DEF vars, ring_vars, IdleStep
  <1> QED BY <1>1, <1>2, <1>3, <1>4, <1>5 DEF Next

\* A stream is known by a key of its own.
LEMMA KeyType ==
    ASSUME NEW obj, NEW cpu \in Cpus
    PROVE  KeyOf(obj, cpu) \in StreamKey
  BY DEF KeyOf, StreamKey, SeqSource, SeqSources

LEMMA KeyIsOwn ==
    ASSUME NEW obj \in Objects \ Fragmenting, NEW cpu \in Cpus,
           NEW other \in Objects, NEW at \in Cpus, KeyOf(obj, cpu) = KeyOf(other, at)
    PROVE  other = obj /\ at = cpu
  <1>1. cpu = at /\ SeqSource(obj) = SeqSource(other)
    BY DEF KeyOf
  <1> QED BY <1>1, ObjectsAssumption DEF SeqSource, Fragmenting

\* The collector reports at most one gap or reordering per record.
LEMMA VerdictType ==
    ASSUME NEW last \in Nat, NEW seq \in Nat
    PROVE  Len(Verdict(last, seq)) \in Nat
  BY DEF Verdict

LEMMA TypeInit == Init => TypeOK
  <1> SUFFICES ASSUME Init PROVE TypeOK
    OBVIOUS
  <1>1. /\ seqs \in [Objects -> [Cpus -> Nat]]
        /\ fired \in Nat /\ lost \in Nat
    BY DEF Init, RingInit
  <1>2. ring \in [Objects -> Seq(Record)] /\ channel \in Seq(Record)
    BY EmptySeq DEF Init, RingInit
  <1>3. CollectorTypeOK
    BY DEF Init, CollectorInit, CollectorTypeOK, IsMap, EmptyMap
  <1>4. HealthTypeOK
    BY DEF Init, HealthInit, HealthTypeOK
  <1> QED BY <1>1, <1>2, <1>3, <1>4 DEF Init, TypeOK

LEMMA LoopType ==
    ASSUME TypeOK, [Next]_vars
    PROVE  /\ HealthTypeOK'
           /\ phase' \in {"sleep", "drain", "stopped", "failed"}
           /\ asked' \in BOOLEAN
           /\ worker' \in {"running", "failed", "joined"}
           /\ detail_evictions_total' \in Nat
  <1> USE DEF TypeOK
  <1>1. CASE Tick
    <2>1. CASE UpdateHealth(raw_events_total, reorder_or_drop_total, detail_evictions_total)
      BY <1>1, <2>1 DEF Tick, UpdateHealth, Sources, HealthTypeOK, CollectorTypeOK
    <2>2. CASE UNCHANGED health_vars
      BY <1>1, <2>2 DEF Tick, health_vars, HealthTypeOK
    <2> QED BY <1>1, <2>1, <2>2 DEF Tick
  <1>2. CASE \E obj \in Objects, cpu \in Cpus : Fire(obj, cpu)
    BY <1>2 DEF Fire, health_vars, loop_vars, HealthTypeOK
  <1>3. CASE \E obj \in Objects : Poll(obj)
    BY <1>3 DEF Poll, health_vars, loop_vars, HealthTypeOK
  <1>4. CASE Receive \/ Abort
    <2>1. Take
      BY <1>4 DEF Receive, Abort
    <2>2. detail_evictions_total' \in Nat
      BY <2>1 DEF Take
    <2>3. HealthTypeOK' /\ asked' \in BOOLEAN
      BY <2>1 DEF Take, health_vars, HealthTypeOK
    <2> QED BY <1>4, <2>2, <2>3 DEF Receive, Abort
  <1>5. CASE Wake \/ Disconnected \/ Stop \/ WorkerFails \/ Signal
    BY <1>5 DEF Wake, Disconnected, Stop, WorkerFails, Signal, health_vars, HealthTypeOK
  <1>6. CASE UNCHANGED vars
    BY <1>6 DEF vars, health_vars, loop_vars, HealthTypeOK
  <1> QED BY <1>1, <1>2, <1>3, <1>4, <1>5, <1>6 DEF Next

\* A record taken is numbered, counted, and remembered as the last of its key.
LEMMA ProcessType ==
    ASSUME CollectorTypeOK, NEW rec \in Record, ProcessRecord(rec)
    PROVE  CollectorTypeOK'
  <1> DEFINE key == [cpu |-> rec.cpu, source |-> SeqSource(rec.obj)]
             reports == IF key \in DOMAIN per_cpu_last_seq
                        THEN Verdict(per_cpu_last_seq[key], rec.seq) ELSE <<>>
  <1>1. key \in StreamKey /\ rec.seq \in Nat
    BY DEF Record, StreamKey, SeqSource, SeqSources
  <1>2. Len(reports) \in Nat
    BY <1>1, VerdictType DEF CollectorTypeOK, IsMap
  <1>3. /\ raw_events_total' = raw_events_total + 1
        /\ reorder_or_drop_total' = reorder_or_drop_total + Len(reports)
        /\ per_cpu_last_seq' = Put(per_cpu_last_seq, key, rec.seq)
        /\ next_ingest_seq' = next_ingest_seq + Len(reports) + 1
        /\ emitted_events_total' = emitted_events_total + Len(reports) + 1
    BY DEF ProcessRecord
  <1> HIDE DEF key, reports
  <1>4. IsMap(per_cpu_last_seq', StreamKey, Nat)
    BY <1>1, <1>3 DEF CollectorTypeOK, IsMap, Put
  <1> QED BY <1>2, <1>3, <1>4 DEF CollectorTypeOK

LEMMA TypeNext ==
    ASSUME TypeOK, [Next]_vars
    PROVE  TypeOK'
  <1> USE DEF TypeOK
  <1>1. CASE \E obj \in Objects, cpu \in Cpus : FireStep(obj, cpu)
    <2>1. PICK obj \in Objects, cpu \in Cpus : FireStep(obj, cpu)
      BY <1>1
    <2> DEFINE rec == [obj |-> obj, cpu |-> cpu, seq |-> SeqOf(obj, cpu)]
    <2>2. /\ fired' = fired + 1 /\ lost' = lost /\ channel' = channel
          /\ seqs' = [seqs EXCEPT ![obj][cpu] = rec.seq]
          /\ ring' = [ring EXCEPT ![obj] = Append(@, rec)]
          /\ UNCHANGED collector_vars
      BY <2>1 DEF FireStep, Submit
    <2>3. rec \in Record /\ rec.seq \in Nat
      BY DEF SeqOf, Record
    <2> HIDE DEF rec
    <2>4. ring' \in [Objects -> Seq(Record)]
      BY <2>2, <2>3, AppendProperties
    <2>5. seqs' \in [Objects -> [Cpus -> Nat]]
      BY <2>2, <2>3
    <2>6. CollectorTypeOK'
      BY <2>2 DEF CollectorTypeOK, collector_vars
    <2> QED BY <2>2, <2>4, <2>5, <2>6, LoopType
  <1>2. CASE \E obj \in Objects : PollStep(obj)
    <2>1. PICK obj \in Objects : PollStep(obj)
      BY <1>2
    <2>2. ring[obj] \in Seq(Record) /\ ring[obj] # <<>>
      BY <2>1 DEF PollStep, Forward
    <2>3. Head(ring[obj]) \in Record /\ Tail(ring[obj]) \in Seq(Record)
      BY <2>2, HeadTailProperties
    <2>4. channel' \in Seq(Record) /\ ring' \in [Objects -> Seq(Record)]
      BY <2>1, <2>3, AppendProperties DEF PollStep, Forward
    <2>5. CollectorTypeOK' /\ UNCHANGED <<seqs, fired, lost>>
      BY <2>1 DEF PollStep, Forward, CollectorTypeOK, collector_vars
    <2> QED BY <2>4, <2>5, LoopType
  <1>3. CASE TakeStep
    <2>1. Head(channel) \in Record /\ Tail(channel) \in Seq(Record)
      BY <1>3, HeadTailProperties DEF TakeStep
    <2>2. CollectorTypeOK'
      BY <1>3, <2>1, ProcessType DEF TakeStep
    <2> QED BY <1>3, <2>1, <2>2, LoopType DEF TakeStep
  <1>4. CASE LossStep \/ IdleStep
    BY <1>4, LoopType DEF LossStep, IdleStep, CollectorTypeOK, collector_vars
  <1> QED BY <1>1, <1>2, <1>3, <1>4, StepKinds

\* The state of the telemetry path is well-typed.
THEOREM TelemetryTypeCorrect == Spec => []TypeOK
  BY TypeInit, TypeNext, PTL DEF Spec
-----------------------------------------------------------------------------
(* What a stream with a source of its own looks like on its way.           *)

LEMMA StreamsInit == Init => StreamInv
  <1> SUFFICES ASSUME Init PROVE StreamInv
    OBVIOUS
  <1>1. TypeOK
    BY TypeInit
  <1>2. channel = <<>> /\ out = <<>> /\ \A obj \in Objects : ring[obj] = <<>>
    BY DEF Init, RingInit, CollectorInit
  <1>3. \A obj, cpu : Numbers(<<>>, obj, cpu) = {} /\ Ordered(<<>>, obj, cpu)
    BY DEF Numbers, Ordered
  <1>4. \A obj \in Objects, cpu \in Cpus : Seen(obj, cpu) = 0 /\ seqs[obj][cpu] = 0
    BY DEF Init, RingInit, CollectorInit, EmptyMap, Seen
  <1>5. (0 + 1) .. 0 = {}
    OBVIOUS
  <1>6. \A obj \in Objects, cpu \in Cpus : StreamIsWhole(obj, cpu)
    BY <1>2, <1>3, <1>4, <1>5 DEF StreamIsWhole
  <1> QED BY <1>1, <1>2, <1>6 DEF StreamInv, OwnRecords, UnsharedStreamsAreContiguous

\* The numbers a stream is about are natural numbers.
LEMMA StreamTypes ==
    ASSUME TypeOK, NEW obj \in Objects, NEW cpu \in Cpus
    PROVE  /\ Seen(obj, cpu) \in Nat
           /\ seqs[obj][cpu] \in Nat
           /\ ring[obj] \in Seq(Record)
           /\ channel \in Seq(Record)
  BY KeyType DEF TypeOK, CollectorTypeOK, IsMap, Seen

\* Reserve, next_seq, submit: the stream grows by its next number, at its end.
LEMMA FireStreams ==
    ASSUME StreamInv, NEW obj \in Objects, NEW cpu \in Cpus, FireStep(obj, cpu),
           NEW o \in Objects \ Fragmenting, NEW c \in Cpus
    PROVE  StreamIsWhole(o, c)'
  <1> DEFINE rec == [obj |-> obj, cpu |-> cpu, seq |-> SeqOf(obj, cpu)]
  <1>1. /\ channel' = channel
        /\ seqs' = [seqs EXCEPT ![obj][cpu] = rec.seq]
        /\ ring' = [ring EXCEPT ![obj] = Append(@, rec)]
        /\ UNCHANGED collector_vars
    BY DEF FireStep, Submit
  <1>2. TypeOK /\ StreamIsWhole(o, c)
    BY DEF StreamInv
  <1>3. /\ Seen(o, c) \in Nat /\ seqs[o][c] \in Nat
        /\ ring[o] \in Seq(Record) /\ channel \in Seq(Record)
    BY <1>2, StreamTypes
  <1>4. Seen(o, c)' = Seen(o, c)
    BY <1>1 DEF Seen, collector_vars
  <1>5. rec \in Record /\ rec.obj = obj /\ rec.cpu = cpu /\ rec.seq = seqs[obj][cpu] + 1
    BY <1>2 DEF TypeOK, Record, SeqOf
  <1> HIDE DEF rec
  <1>6. CASE o # obj
    <2>1. ring'[o] = ring[o] /\ seqs'[o][c] = seqs[o][c]
      BY <1>1, <1>2, <1>6 DEF TypeOK
    <2> QED BY <1>1, <1>2, <1>4, <2>1 DEF StreamIsWhole
  <1>7. CASE o = obj
    <2> DEFINE waiting == Numbers(ring[o], o, c)
               sent == Numbers(channel, o, c)
    <2>1. ring'[o] = Append(ring[o], rec)
      BY <1>1, <1>2, <1>7 DEF TypeOK
    <2>2. sent \cup waiting = (Seen(o, c) + 1) .. seqs[o][c]
      BY <1>2 DEF StreamIsWhole
    <2>3. Of(rec, o, c) <=> c = cpu
      BY <1>5, <1>7 DEF Of
    <2>4. c = cpu => rec.seq = seqs[o][c] + 1
      BY <1>5, <1>7
    <2>5. Of(rec, o, c) => \A n \in sent \cup waiting : n < rec.seq
      BY <1>3, <2>2, <2>3, <2>4
    <2>6. /\ Ordered(ring'[o], o, c)
          /\ Numbers(ring'[o], o, c) = waiting \cup (IF c = cpu THEN {seqs[o][c] + 1} ELSE {})
      BY <1>2, <1>3, <1>5, <2>1, <2>3, <2>4, <2>5, AppendToQueue DEF StreamIsWhole
    <2>7. seqs'[o][c] = IF c = cpu THEN seqs[o][c] + 1 ELSE seqs[o][c]
      BY <1>1, <1>2, <1>5, <1>7 DEF TypeOK
    <2>8. \A m \in sent, n \in waiting : m < n
      BY <1>2 DEF StreamIsWhole
    <2>9. Ordered(channel', o, c) /\ Numbers(channel', o, c) = sent
      BY <1>1, <1>2 DEF StreamIsWhole
    <2>10. Seen(o, c) <= seqs[o][c]
      BY <1>2 DEF StreamIsWhole
    <2> HIDE DEF sent, waiting
    <2>11. \A m \in sent, n \in Numbers(ring'[o], o, c) : m < n
      BY <2>3, <2>4, <2>5, <2>6, <2>8
    <2>12. sent \cup Numbers(ring'[o], o, c) = (Seen(o, c) + 1) .. seqs'[o][c]
      <3>1. \A a, b \in Nat : a <= b => (a + 1) .. (b + 1) = ((a + 1) .. b) \cup {b + 1}
        OBVIOUS
      <3>2. (Seen(o, c) + 1) .. (seqs[o][c] + 1)
               = ((Seen(o, c) + 1) .. seqs[o][c]) \cup {seqs[o][c] + 1}
        BY <1>3, <2>10, <3>1
      <3>3. CASE c = cpu
        BY <2>2, <2>6, <2>7, <3>2, <3>3
      <3>4. CASE c # cpu
        BY <2>2, <2>6, <2>7, <3>4
      <3> QED BY <3>3, <3>4
    <2>13. Seen(o, c) <= seqs'[o][c]
      BY <1>3, <2>7, <2>10
    <2> QED BY <1>4, <2>6, <2>9, <2>11, <2>12, <2>13 DEF StreamIsWhole
  <1> QED BY <1>6, <1>7

\* The worker's callback: the first record of a ring becomes the last of the channel.
LEMMA PollStreams ==
    ASSUME StreamInv, NEW obj \in Objects, PollStep(obj),
           NEW o \in Objects \ Fragmenting, NEW c \in Cpus
    PROVE  StreamIsWhole(o, c)'
  <1> DEFINE rec == Head(ring[obj])
             rest == Tail(ring[obj])
             waiting == Numbers(ring[o], o, c)
             sent == Numbers(channel, o, c)
  <1>1. /\ ring[obj] # <<>>
        /\ channel' = Append(channel, rec)
        /\ ring' = [ring EXCEPT ![obj] = rest]
        /\ seqs' = seqs
        /\ UNCHANGED collector_vars
    BY DEF PollStep, Forward
  <1>2. TypeOK /\ StreamIsWhole(o, c)
    BY DEF StreamInv
  <1>3. /\ Seen(o, c) \in Nat /\ seqs[o][c] \in Nat
        /\ ring[o] \in Seq(Record) /\ channel \in Seq(Record)
    BY <1>2, StreamTypes
  <1>4. Seen(o, c)' = Seen(o, c)
    BY <1>1 DEF Seen, collector_vars
  <1>5. rec \in Record /\ rec.obj = obj
    <2>1. ring[obj] \in Seq(Record)
      BY <1>2 DEF TypeOK
    <2>2. 1 \in 1 .. Len(ring[obj]) /\ rec = ring[obj][1]
      BY <1>1, <2>1, EmptySeq, LenProperties
    <2> QED BY <2>1, <2>2, <1>1, HeadTailProperties DEF StreamInv, OwnRecords
  <1>6. CASE o # obj
    <2>1. ring'[o] = ring[o]
      BY <1>1, <1>2, <1>6 DEF TypeOK
    <2>2. ~Of(rec, o, c)
      BY <1>5, <1>6 DEF Of
    <2>3. Ordered(channel', o, c) /\ Numbers(channel', o, c) = sent
      <3>1. Ordered(channel, o, c)
        BY <1>2 DEF StreamIsWhole
      <3> HIDE DEF rec
      <3>2. /\ Ordered(Append(channel, rec), o, c)
            /\ Numbers(Append(channel, rec), o, c)
                  = sent \cup (IF Of(rec, o, c) THEN {rec.seq} ELSE {})
        BY <1>3, <1>5, <2>2, <3>1, AppendToQueue
      <3> QED BY <1>1, <2>2, <3>2
    <2> HIDE DEF rec, rest
    <2> QED BY <1>1, <1>2, <1>4, <2>1, <2>3 DEF StreamIsWhole
  <1>7. CASE o = obj
    <2>1. ring'[o] = rest
      BY <1>1, <1>2, <1>7 DEF TypeOK
    <2>2. /\ Ordered(rest, o, c)
          /\ waiting = Numbers(rest, o, c) \cup (IF Of(rec, o, c) THEN {rec.seq} ELSE {})
          /\ Of(rec, o, c) => \A n \in Numbers(rest, o, c) : rec.seq < n
      BY <1>1, <1>2, <1>3, <1>7, TakeFromQueue DEF StreamIsWhole
    <2>3. /\ sent \cup waiting = (Seen(o, c) + 1) .. seqs[o][c]
          /\ \A m \in sent, n \in waiting : m < n
          /\ Ordered(channel, o, c)
      BY <1>2 DEF StreamIsWhole
    <2>4. Of(rec, o, c) => \A n \in sent : n < rec.seq
      BY <2>2, <2>3
    <2>5. /\ Ordered(channel', o, c)
          /\ Numbers(channel', o, c) = sent \cup (IF Of(rec, o, c) THEN {rec.seq} ELSE {})
      BY <1>1, <1>3, <1>5, <2>3, <2>4, AppendToQueue
    <2> HIDE DEF rec, rest, waiting, sent
    <2>6. \A m \in Numbers(channel', o, c), n \in Numbers(rest, o, c) : m < n
      BY <2>2, <2>3, <2>5
    <2>7. Numbers(channel', o, c) \cup Numbers(rest, o, c) = (Seen(o, c) + 1) .. seqs[o][c]
      BY <2>2, <2>3, <2>5
    <2>8. Seen(o, c) <= seqs[o][c]
      BY <1>2 DEF StreamIsWhole
    <2> QED BY <1>1, <1>4, <2>1, <2>2, <2>5, <2>6, <2>7, <2>8 DEF StreamIsWhole
  <1> QED BY <1>6, <1>7

\* The record at the head of the channel has the number after the last one seen.
LEMMA HeadIsNext ==
    ASSUME StreamInv, channel # <<>>, NEW o \in Objects \ Fragmenting, NEW c \in Cpus,
           Of(Head(channel), o, c)
    PROVE  /\ Head(channel).seq = Seen(o, c) + 1
           /\ Numbers(Tail(channel), o, c) \cup Numbers(ring[o], o, c)
                 = (Seen(o, c) + 2) .. seqs[o][c]
           /\ Seen(o, c) + 1 <= seqs[o][c]
  <1> DEFINE rec == Head(channel)
             waiting == Numbers(ring[o], o, c)
             sent == Numbers(channel, o, c)
             rest == Numbers(Tail(channel), o, c)
             last == Seen(o, c)
             given == seqs[o][c]
  <1>1. TypeOK /\ StreamIsWhole(o, c)
    BY DEF StreamInv
  <1>2. /\ last \in Nat /\ given \in Nat
        /\ ring[o] \in Seq(Record) /\ channel \in Seq(Record)
    BY <1>1, StreamTypes
  <1>3. /\ sent = rest \cup {rec.seq}
        /\ \A n \in rest : rec.seq < n
    BY <1>1, <1>2, TakeFromQueue DEF StreamIsWhole
  <1>4. /\ sent \cup waiting = (last + 1) .. given
        /\ \A m \in sent, n \in waiting : m < n
    BY <1>1 DEF StreamIsWhole
  <1>5. rec.seq \in Nat
    <2>1. rec \in Record
      BY <1>2, HeadTailProperties
    <2> HIDE DEF rec
    <2> QED BY <2>1 DEF Record
  <1> HIDE DEF rec, waiting, sent, rest, last, given
  <1>6. rec.seq \in (last + 1) .. given
    BY <1>3, <1>4
  <1>7. \A n \in (rest \cup waiting) : rec.seq < n
    BY <1>3, <1>4
  <1>8. last + 1 \in sent \cup waiting
    BY <1>2, <1>4, <1>6
  <1>9. rec.seq = last + 1
    BY <1>2, <1>3, <1>5, <1>6, <1>7, <1>8
  <1>10. last + 1 <= given
    BY <1>2, <1>6, <1>9
  <1>11. rest \cup waiting = (last + 2) .. given
    <2>1. \A n : n \in rest \cup waiting => n \in (last + 1) .. given /\ last + 1 < n
      BY <1>3, <1>4, <1>7, <1>9
    <2>2. \A n \in (last + 1) .. given : n = last + 1 \/ n \in rest \cup waiting
      BY <1>3, <1>4, <1>9
    <2>3. \A n : n \in (last + 2) .. given <=> n \in (last + 1) .. given /\ last + 1 < n
      BY <1>2
    <2>4. \A n \in (last + 2) .. given : n # last + 1
      BY <1>2
    <2> QED BY <2>1, <2>2, <2>3, <2>4
  <1> QED BY <1>9, <1>10, <1>11 DEF rec, waiting, rest, last, given

\* What process_bytes remembers of the record, as seen by a stream.
LEMMA SeenNext ==
    ASSUME NEW rec \in Record, ProcessRecord(rec), NEW o \in Objects \ Fragmenting, NEW c \in Cpus
    PROVE  Seen(o, c)' = IF Of(rec, o, c) THEN rec.seq ELSE Seen(o, c)
  <1>1. per_cpu_last_seq' = Put(per_cpu_last_seq, KeyOf(rec.obj, rec.cpu), rec.seq)
    BY DEF ProcessRecord, KeyOf
  <1>2. rec.obj \in Objects /\ rec.cpu \in Cpus
    BY DEF Record
  <1>3. KeyOf(rec.obj, rec.cpu) = KeyOf(o, c) <=> Of(rec, o, c)
    BY <1>2, KeyIsOwn DEF Of
  <1> HIDE DEF KeyOf
  <1> QED BY <1>1, <1>3 DEF Seen, Put

\* The collector takes the next number, or a record of another stream.
LEMMA TakeStreams ==
    ASSUME StreamInv, TakeStep, NEW o \in Objects \ Fragmenting, NEW c \in Cpus
    PROVE  StreamIsWhole(o, c)'
  <1> DEFINE rec == Head(channel)
             waiting == Numbers(ring[o], o, c)
             sent == Numbers(channel, o, c)
             rest == Numbers(Tail(channel), o, c)
  <1>1. /\ channel # <<>> /\ channel' = Tail(channel)
        /\ ring' = ring /\ seqs' = seqs
        /\ ProcessRecord(rec)
    BY DEF TakeStep
  <1>2. TypeOK /\ StreamIsWhole(o, c)
    BY DEF StreamInv
  <1>3. /\ Seen(o, c) \in Nat /\ seqs[o][c] \in Nat /\ channel \in Seq(Record)
    BY <1>2, StreamTypes
  <1>4. rec \in Record
    BY <1>1, <1>3, HeadTailProperties
  <1>5. Seen(o, c)' = IF Of(rec, o, c) THEN rec.seq ELSE Seen(o, c)
    BY <1>1, <1>4, SeenNext
  <1>6. /\ Ordered(channel', o, c)
        /\ sent = rest \cup (IF Of(rec, o, c) THEN {rec.seq} ELSE {})
    BY <1>1, <1>2, <1>3, TakeFromQueue DEF StreamIsWhole
  <1>7. \A m \in rest, n \in waiting : m < n
    BY <1>2, <1>6 DEF StreamIsWhole
  <1>8. CASE Of(rec, o, c)
    <2>1. /\ rec.seq = Seen(o, c) + 1
          /\ rest \cup waiting = (Seen(o, c) + 2) .. seqs[o][c]
          /\ Seen(o, c) + 1 <= seqs[o][c]
      BY <1>1, <1>8, HeadIsNext
    <2>2. Seen(o, c)' = Seen(o, c) + 1
      BY <1>5, <1>8, <2>1
    <2>3. Seen(o, c)' + 1 = Seen(o, c) + 2
      BY <1>3, <2>2
    <2> HIDE DEF rec
    <2> QED BY <1>1, <1>2, <1>6, <1>7, <2>1, <2>2, <2>3 DEF StreamIsWhole
  <1>9. CASE ~Of(rec, o, c)
    <2>1. Seen(o, c)' = Seen(o, c) /\ rest = sent
      BY <1>5, <1>6, <1>9
    <2> HIDE DEF rec
    <2> QED BY <1>1, <1>2, <1>6, <1>7, <2>1 DEF StreamIsWhole
  <1> QED BY <1>8, <1>9

\* So it reports nothing but on the streams that share a source.
LEMMA TakeReports ==
    ASSUME StreamInv, TakeStep
    PROVE  UnsharedStreamsAreContiguous'
  <1> DEFINE rec == Head(channel)
             key == KeyOf(rec.obj, rec.cpu)
             reports == IF key \in DOMAIN per_cpu_last_seq
                        THEN Verdict(per_cpu_last_seq[key], rec.seq) ELSE <<>>
             event == [kind |-> "Event", rec |-> rec]
  <1>1. channel # <<>> /\ out' = Append(reports, event)
    BY DEF TakeStep, ProcessRecord, KeyOf
  <1>2. TypeOK
    BY DEF StreamInv
  <1>3. channel \in Seq(Record) /\ rec \in Record
    BY <1>1, <1>2, HeadTailProperties DEF TypeOK
  <1>4. rec.obj \in Objects /\ rec.cpu \in Cpus
    BY <1>3 DEF Record
  <1>5. event.rec = rec
    OBVIOUS
  <1>6. CASE rec.obj \notin Fragmenting
    <2>1. Of(rec, rec.obj, rec.cpu)
      BY DEF Of
    <2>2. rec.seq = Seen(rec.obj, rec.cpu) + 1
      BY <1>1, <1>4, <1>6, <2>1, HeadIsNext
    <2>3. Seen(rec.obj, rec.cpu) \in Nat
      BY <1>2, <1>4, StreamTypes
    <2>4. reports = <<>>
      <3>1. key \in DOMAIN per_cpu_last_seq => per_cpu_last_seq[key] = Seen(rec.obj, rec.cpu)
        BY DEF Seen
      <3> HIDE DEF key, rec
      <3>2. CASE key \in DOMAIN per_cpu_last_seq
        <4>1. /\ ~(rec.seq > per_cpu_last_seq[key] + 1)
              /\ ~(rec.seq <= per_cpu_last_seq[key])
          BY <2>2, <2>3, <3>1, <3>2
        <4> QED BY <3>2, <4>1 DEF Verdict
      <3> QED BY <3>2
    <2> HIDE DEF event, reports
    <2>5. Len(out') = 1
      BY <1>1, <2>4
    <2> QED BY <2>5 DEF UnsharedStreamsAreContiguous, Reported
  <1>7. CASE rec.obj \in Fragmenting
    <2>1. reports = <<>> \/ \E d : reports = <<d>>
      BY DEF Verdict
    <2> HIDE DEF event, reports, rec
    <2>2. out'[Len(out')] = event
      BY <1>1, <2>1
    <2> QED BY <1>5, <1>7, <2>2 DEF UnsharedStreamsAreContiguous, Ingested
  <1> QED BY <1>6, <1>7

LEMMA OwnNext ==
    ASSUME TypeOK, OwnRecords, [Next]_vars
    PROVE  OwnRecords'
  <1>1. CASE \E obj \in Objects, cpu \in Cpus : FireStep(obj, cpu)
    <2>1. PICK obj \in Objects, cpu \in Cpus : FireStep(obj, cpu)
      BY <1>1
    <2> DEFINE rec == [obj |-> obj, cpu |-> cpu, seq |-> SeqOf(obj, cpu)]
    <2>2. ring' = [ring EXCEPT ![obj] = Append(@, rec)] /\ rec.obj = obj
      BY <2>1 DEF FireStep, Submit
    <2>3. rec \in Record
      BY DEF TypeOK, Record, SeqOf
    <2> HIDE DEF rec
    <2>4. ring[obj] \in Seq(Record)
      BY DEF TypeOK
    <2>5. /\ Len(Append(ring[obj], rec)) = Len(ring[obj]) + 1
          /\ \A i \in 1 .. Len(ring[obj]) : Append(ring[obj], rec)[i] = ring[obj][i]
          /\ Append(ring[obj], rec)[Len(ring[obj]) + 1] = rec
          /\ Len(ring[obj]) \in Nat
      BY <2>3, <2>4, AppendProperties, LenProperties
    <2>6. \A i \in 1 .. Len(Append(ring[obj], rec)) : Append(ring[obj], rec)[i].obj = obj
      BY <2>2, <2>5 DEF OwnRecords
    <2> QED BY <2>2, <2>6 DEF OwnRecords, TypeOK
  <1>2. CASE \E obj \in Objects : PollStep(obj)
    <2>1. PICK obj \in Objects : PollStep(obj)
      BY <1>2
    <2>2. /\ ring[obj] # <<>> /\ ring[obj] \in Seq(Record)
          /\ ring' = [ring EXCEPT ![obj] = Tail(@)]
      BY <2>1 DEF PollStep, Forward, TypeOK
    <2>3. /\ Len(Tail(ring[obj])) = Len(ring[obj]) - 1
          /\ \A i \in 1 .. Len(Tail(ring[obj])) : Tail(ring[obj])[i] = ring[obj][i + 1]
          /\ Len(ring[obj]) \in Nat
      BY <2>2, HeadTailProperties, LenProperties
    <2>4. \A i \in 1 .. Len(Tail(ring[obj])) : Tail(ring[obj])[i].obj = obj
      BY <2>3 DEF OwnRecords
    <2> QED BY <2>2, <2>4 DEF OwnRecords, TypeOK
  <1>3. CASE TakeStep \/ LossStep \/ IdleStep
    BY <1>3 DEF TakeStep, LossStep, IdleStep, OwnRecords
  <1> QED BY <1>1, <1>2, <1>3, StepKinds

LEMMA StreamsNext ==
    ASSUME StreamInv, [Next]_vars
    PROVE  StreamInv'
  <1>1. TypeOK' /\ OwnRecords'
    BY TypeNext, OwnNext DEF StreamInv
  <1>2. CASE \E obj \in Objects, cpu \in Cpus : FireStep(obj, cpu)
    <2>1. UnsharedStreamsAreContiguous'
      BY <1>2 DEF StreamInv, FireStep, collector_vars, UnsharedStreamsAreContiguous, Reported,
                  Ingested
    <2> QED BY <1>1, <1>2, <2>1, FireStreams DEF StreamInv
  <1>3. CASE \E obj \in Objects : PollStep(obj)
    <2>1. UnsharedStreamsAreContiguous'
      BY <1>3 DEF StreamInv, PollStep, collector_vars, UnsharedStreamsAreContiguous, Reported,
                  Ingested
    <2> QED BY <1>1, <1>3, <2>1, PollStreams DEF StreamInv
  <1>4. CASE TakeStep
    BY <1>1, <1>4, TakeStreams, TakeReports DEF StreamInv
  <1>5. CASE LossStep \/ IdleStep
    <2>1. UNCHANGED <<seqs, ring, channel>> /\ UNCHANGED collector_vars
      BY <1>5 DEF LossStep, IdleStep
    <2>2. UnsharedStreamsAreContiguous'
      BY <2>1 DEF StreamInv, collector_vars, UnsharedStreamsAreContiguous, Reported, Ingested
    <2>3. \A obj \in Objects \ Fragmenting, cpu \in Cpus : StreamIsWhole(obj, cpu)'
      BY <2>1 DEF StreamInv, StreamIsWhole, Seen, collector_vars
    <2> QED BY <1>1, <2>2, <2>3 DEF StreamInv
  <1> QED BY <1>2, <1>3, <1>4, <1>5, StepKinds

\* Rings may overflow and are polled in any order: a stream that does not share
\* its source is whole from next_seq to the collector, which reports nothing.
THEOREM UnsharedStreamsStayWhole == Spec => []UnsharedStreamsAreContiguous
  <1>1. StreamInv => UnsharedStreamsAreContiguous
    BY DEF StreamInv
  <1> QED BY <1>1, StreamsInit, StreamsNext, PTL DEF Spec
-----------------------------------------------------------------------------
(* Every event is somewhere.                                               *)

LEMMA CountInit == Init => CountInv
  <1> SUFFICES ASSUME Init PROVE CountInv
    OBVIOUS
  <1>1. TypeOK
    BY TypeInit
  <1>2. Waiting = {}
    BY DEF Waiting, Init, RingInit
  <1>3. IsFiniteSet(Waiting) /\ Cardinality(Waiting) = 0
    BY <1>2, FS_EmptySet
  <1>4. fired = 0 /\ lost = 0 /\ Len(channel) = 0 /\ raw_events_total = 0
    BY DEF Init, RingInit, CollectorInit
  <1> QED BY <1>1, <1>3, <1>4 DEF CountInv, EventsConserved

LEMMA CountNext ==
    ASSUME CountInv, [Next]_vars
    PROVE  CountInv'
  <1>1. TypeOK /\ TypeOK'
    BY TypeNext DEF CountInv
  <1>2. /\ IsFiniteSet(Waiting) /\ Cardinality(Waiting) \in Nat
        /\ fired = lost + Cardinality(Waiting) + Len(channel) + raw_events_total
    BY FS_CardinalityType DEF CountInv, EventsConserved
  <1>3. /\ fired \in Nat /\ lost \in Nat /\ raw_events_total \in Nat
        /\ channel \in Seq(Record) /\ Len(channel) \in Nat
    BY <1>1, LenProperties DEF TypeOK, CollectorTypeOK
  <1>4. CASE \E obj \in Objects, cpu \in Cpus : FireStep(obj, cpu)
    <2>1. PICK obj \in Objects, cpu \in Cpus : FireStep(obj, cpu)
      BY <1>4
    <2> DEFINE rec == [obj |-> obj, cpu |-> cpu, seq |-> SeqOf(obj, cpu)]
               place == <<obj, Len(ring[obj]) + 1>>
    <2>2. /\ ring' = [ring EXCEPT ![obj] = Append(@, rec)]
          /\ fired' = fired + 1 /\ UNCHANGED <<channel, lost, raw_events_total>>
      BY <2>1 DEF FireStep, Submit, collector_vars
    <2>3. rec \in Record /\ ring[obj] \in Seq(Record)
      <3>1. seqs[obj][cpu] \in Nat /\ ring[obj] \in Seq(Record)
        BY <1>1, StreamTypes
      <3>2. rec \in Record
        BY <3>1 DEF Record, SeqOf
      <3> QED BY <3>1, <3>2
    <2> HIDE DEF rec
    <2>4. Len(ring'[obj]) = Len(ring[obj]) + 1 /\ Len(ring[obj]) \in Nat
      BY <1>1, <2>2, <2>3, AppendProperties, LenProperties DEF TypeOK
    <2>5. \A o \in Objects : o # obj => ring'[o] = ring[o]
      BY <1>1, <2>2 DEF TypeOK
    <2>6. Waiting' = Waiting \cup {place}
      <3>1. \A i : i \in 1 .. Len(ring'[obj]) <=>
                     i \in 1 .. Len(ring[obj]) \/ i = Len(ring[obj]) + 1
        BY <2>4
      <3> QED BY <2>5, <3>1 DEF Waiting
    <2>7. place \notin Waiting
      BY <2>4 DEF Waiting
    <2> HIDE DEF place
    <2>8. IsFiniteSet(Waiting') /\ Cardinality(Waiting') = Cardinality(Waiting) + 1
      BY <1>2, <2>6, <2>7, FS_AddElement
    <2> QED BY <1>1, <1>2, <1>3, <2>2, <2>8 DEF CountInv, EventsConserved
  <1>5. CASE \E obj \in Objects : PollStep(obj)
    <2>1. PICK obj \in Objects : PollStep(obj)
      BY <1>5
    <2> DEFINE rec == Head(ring[obj])
               place == <<obj, Len(ring[obj])>>
    <2>2. /\ ring[obj] # <<>> /\ ring[obj] \in Seq(Record)
          /\ channel' = Append(channel, rec)
          /\ ring' = [ring EXCEPT ![obj] = Tail(@)]
          /\ UNCHANGED <<fired, lost, raw_events_total>>
      BY <1>1, <2>1 DEF PollStep, Forward, collector_vars, TypeOK
    <2>3. rec \in Record
      BY <2>2, HeadTailProperties
    <2>4. Len(channel') = Len(channel) + 1
      BY <1>3, <2>2, <2>3, AppendProperties
    <2>5. /\ Len(ring'[obj]) = Len(ring[obj]) - 1
          /\ Len(ring[obj]) \in Nat /\ Len(ring[obj]) > 0
      BY <1>1, <2>2, HeadTailProperties, EmptySeq DEF TypeOK
    <2>6. \A o \in Objects : o # obj => ring'[o] = ring[o]
      BY <1>1, <2>2 DEF TypeOK
    <2>7. Waiting' = Waiting \ {place}
      <3>1. \A i : i \in 1 .. Len(ring'[obj]) <=>
                     i \in 1 .. Len(ring[obj]) /\ i # Len(ring[obj])
        BY <2>5
      <3> QED BY <2>6, <3>1 DEF Waiting
    <2>8. place \in Waiting
      BY <2>5 DEF Waiting
    <2> HIDE DEF place
    <2>9. IsFiniteSet(Waiting') /\ Cardinality(Waiting') = Cardinality(Waiting) - 1
      BY <1>2, <2>7, <2>8, FS_RemoveElement
    <2> QED BY <1>1, <1>2, <1>3, <2>2, <2>4, <2>9 DEF CountInv, EventsConserved
  <1>6. CASE TakeStep
    <2>1. /\ Len(channel') = Len(channel) - 1
          /\ raw_events_total' = raw_events_total + 1
          /\ UNCHANGED <<ring, fired, lost>>
      BY <1>3, <1>6, HeadTailProperties DEF TakeStep, ProcessRecord
    <2>2. Waiting' = Waiting
      BY <2>1 DEF Waiting
    <2> QED BY <1>1, <1>2, <1>3, <2>1, <2>2 DEF CountInv, EventsConserved
  <1>7. CASE LossStep
    <2>1. /\ fired' = fired + 1 /\ lost' = lost + 1
          /\ UNCHANGED <<ring, channel, raw_events_total>>
      BY <1>7 DEF LossStep, collector_vars
    <2>2. Waiting' = Waiting
      BY <2>1 DEF Waiting
    <2> QED BY <1>1, <1>2, <1>3, <2>1, <2>2 DEF CountInv, EventsConserved
  <1>8. CASE IdleStep
    <2>1. UNCHANGED <<ring, fired, lost, channel, raw_events_total>>
      BY <1>8 DEF IdleStep, collector_vars
    <2>2. Waiting' = Waiting
      BY <2>1 DEF Waiting
    <2> QED BY <1>1, <1>2, <2>1, <2>2 DEF CountInv, EventsConserved
  <1> QED BY <1>4, <1>5, <1>6, <1>7, <1>8, StepKinds

\* What the hooks saw was refused by a full ring, is under way, or has been
\* handed to the collector once.
THEOREM NoEventUnaccounted == Spec => []EventsConserved
  <1>1. CountInv => EventsConserved
    BY DEF CountInv
  <1> QED BY <1>1, CountInit, CountNext, PTL DEF Spec
=============================================================================
