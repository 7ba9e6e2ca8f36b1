---------------------------- MODULE EventRecords ----------------------------
(* The records that travel from the BPF programs to the collector.         *)
EXTENDS Naturals

CONSTANTS
    Objects,        \* the BPF objects: "proc", "fs", "net", "tls", "content"
    Cpus

ASSUME ObjectsAssumption == Objects \subseteq {"proc", "fs", "net", "tls", "content"}

\* struct event_header, as far as ordering and loss are concerned.
Record == [obj : Objects, cpu : Cpus, seq : Nat \ {0}]
=============================================================================
