------------------------------ MODULE Collector ------------------------------
(***************************************************************************)
(* CollectorCore: checks the sequence number of every record against the   *)
(* last one of its stream, emits a MetaDrop event when it is not the next  *)
(* one, and numbers everything it emits with a daemon-wide ingest_seq.     *)
(***************************************************************************)
EXTENDS EventRecords, Sequences, FiniteSets, Maps

VARIABLES
    per_cpu_last_seq,       \* [cpu, source] -> last sequence number seen
    next_ingest_seq,
    raw_events_total,
    emitted_events_total,
    reorder_or_drop_total,
    out                     \* what the last call emitted

collector_vars == <<per_cpu_last_seq, next_ingest_seq, raw_events_total,
                    emitted_events_total, reorder_or_drop_total, out>>

SeqSources == {"Proc", "Fs", "Net", "Tls"}
StreamKey == [cpu : Cpus, source : SeqSources]

\* A slip in seq_source: one stream per CPU, whatever the program.
SeqSourceOfCpu(obj) == "Proc"

\* seq_source, by the object whose programs emit the kind of event: TlsAssoc
\* (tls) and ContentFrag (tls and content) share one source.
SeqSource(obj) ==
    CASE obj = "fs" -> "Fs"
      [] obj = "net" -> "Net"
      [] obj \in {"tls", "content"} -> "Tls"
      [] OTHER -> "Proc"

Drop(reason, missing) == [kind |-> "MetaDrop", reason |-> reason, missing |-> missing]

\* The drop event, if any, that precedes a record with number seq in a
\* stream whose last number was last.
Verdict(last, seq) ==
    IF seq > last + 1 THEN <<Drop("SeqGap", seq - (last + 1))>>
    ELSE IF seq <= last THEN <<Drop("Reordered", 0)>>
    ELSE <<>>

CollectorInit ==
    /\ per_cpu_last_seq = EmptyMap
    /\ next_ingest_seq = 0
    /\ raw_events_total = 0
    /\ emitted_events_total = 0
    /\ reorder_or_drop_total = 0
    /\ out = <<>>

\* process_bytes on a record that parses.
ProcessRecord(rec) ==
    LET key     == [cpu |-> rec.cpu, source |-> SeqSource(rec.obj)]
        reports == IF key \in DOMAIN per_cpu_last_seq
                   THEN Verdict(per_cpu_last_seq[key], rec.seq) ELSE <<>>
    IN  /\ raw_events_total' = raw_events_total + 1
        /\ reorder_or_drop_total' = reorder_or_drop_total + Len(reports)
        /\ per_cpu_last_seq' = Put(per_cpu_last_seq, key, rec.seq)
        /\ out' = Append(reports, [kind |-> "Event", rec |-> rec])
        /\ next_ingest_seq' = next_ingest_seq + Len(reports) + 1
        /\ emitted_events_total' = emitted_events_total + Len(reports) + 1

CollectorTypeOK ==
    /\ IsMap(per_cpu_last_seq, StreamKey, Nat)
    /\ next_ingest_seq \in Nat
    /\ raw_events_total \in Nat
    /\ emitted_events_total \in Nat
    /\ reorder_or_drop_total \in Nat
=============================================================================
