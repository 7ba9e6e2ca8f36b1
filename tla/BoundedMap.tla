----------------------------- MODULE BoundedMap -----------------------------
(***************************************************************************)
(* veriskein_retention::BoundedMap: two indexes kept in step, key -> entry *)
(* (value and sequence number) and sequence number -> key.  The sequence   *)
(* number is a wrapping counter of the machine's width; when it wraps, the *)
(* entries are renumbered (resequence).                                    *)
(***************************************************************************)
EXTENDS Naturals, FiniteSets, Maps

CONSTANTS
    Keys,
    Values,
    Capacity,
    SeqLimit      \* 2^64 in the code: sequence numbers are 0 .. SeqLimit-1

ASSUME CapacityAssumption ==
    /\ Capacity \in Nat \ {0}
    /\ SeqLimit \in Nat
    /\ Capacity < SeqLimit

VARIABLES
    entries,      \* key -> [value, seq]
    order,        \* seq -> key
    next_seq,
    wrapped       \* history: has the counter ever wrapped?

vars == <<entries, order, next_seq, wrapped>>

Seqs == 0 .. SeqLimit - 1
Entry == [value : Values, seq : Seqs]

Init ==
    /\ entries = EmptyMap
    /\ order = EmptyMap
    /\ next_seq = 0
    /\ wrapped = FALSE
-----------------------------------------------------------------------------
\* The order index without the entry of key (entries.remove, order.remove).
OrderWithout(es, os, key) ==
    IF key \in DOMAIN es THEN Without(os, es[key].seq) ELSE os

\* resequence: the entries renumbered 0, 1, ... in their order.  (It skips the
\* sequence numbers of keys without an entry; by IndexesAgree there are none.)
Rank(os, s) == Cardinality({t \in DOMAIN os : t < s})
RankedEntries(es, os) ==
    [key \in DOMAIN es |-> [es[key] EXCEPT !.seq = Rank(os, @)]]
RankedOrder(os) ==
    [r \in {Rank(os, s) : s \in DOMAIN os} |->
        os[CHOOSE s \in DOMAIN os : Rank(os, s) = r]]

\* A slip: the entry given up is the last of the order index.
VictimsYoungest(es, os) ==
    IF Cardinality(DOMAIN es) > Capacity
    THEN {s \in DOMAIN os : \A t \in DOMAIN os : t <= s} ELSE {}

\* evict_over_capacity: an insertion exceeds the capacity by at most one, so
\* the loop gives up at most one entry, the first of the order index.
Victims(es, os) ==
    IF Cardinality(DOMAIN es) > Capacity
    THEN {s \in DOMAIN os : \A t \in DOMAIN os : s <= t} ELSE {}

\* A slip a rewrite could make: the renumbering without the counter's restart.
NextSeqUnchecked(os) == next_seq + 1

\* reserve_seq: the counter wraps to just after the renumbered entries.
NextSeq(os) ==
    IF (next_seq + 1) % SeqLimit = 0 THEN Cardinality(DOMAIN os) ELSE next_seq + 1

Insert(key, value) ==
    LET seq    == next_seq
        wraps  == (next_seq + 1) % SeqLimit = 0
        es0    == Without(entries, key)
        os0    == OrderWithout(entries, order, key)
        es1    == IF wraps THEN RankedEntries(es0, os0) ELSE es0
        os1    == IF wraps THEN RankedOrder(os0) ELSE os0
        es     == Put(es1, key, [value |-> value, seq |-> seq])
        os     == Put(os1, seq, key)
        gone   == Victims(es, os)
    IN  /\ entries' = Keep(es, DOMAIN es \ {os[s] : s \in gone})
        /\ order' = Keep(os, DOMAIN os \ gone)
        /\ next_seq' = NextSeq(os0)
        /\ wrapped' = (wrapped \/ wraps)

\* retain, which drops from the order index the numbers of the entries it
\* removed; remove(key) is the case that keeps every other key.
Retain(keep) ==
    /\ entries' = Keep(entries, keep)
    /\ order' = Keep(order, DOMAIN order
                             \ {entries[key].seq : key \in DOMAIN entries \ keep})
    /\ UNCHANGED <<next_seq, wrapped>>

\* get_mut: the value changes in place, its age does not.
Update(key, value) ==
    /\ key \in DOMAIN entries
    /\ entries' = [entries EXCEPT ![key].value = value]
    /\ UNCHANGED <<order, next_seq, wrapped>>

Next ==
    \/ \E key \in Keys, value \in Values : Insert(key, value) \/ Update(key, value)
    \/ \E keep \in SUBSET Keys : Retain(keep)

Spec == Init /\ [][Next]_vars
-----------------------------------------------------------------------------
\* The two indexes describe the same entries, each entry once: an entry that
\* is in one index only would never be evicted (BoundedMap::insert, remove,
\* retain and resequence all edit both).
IndexesAgree ==
    /\ \A key \in DOMAIN entries :
          /\ entries[key].seq \in DOMAIN order
          /\ order[entries[key].seq] = key
    /\ \A s \in DOMAIN order :
          /\ order[s] \in DOMAIN entries
          /\ entries[order[s]].seq = s

\* The state is well-typed, its two indexes agree, and the map never holds more
\* than its capacity: this is the bound on the daemon's memory, which rests on
\* evict_over_capacity finding an order entry for every entry.
TypeOK ==
    /\ IsMap(entries, Keys, Entry)
    /\ IsMap(order, Seqs, Keys)
    /\ next_seq \in Seqs
    /\ wrapped \in BOOLEAN
    /\ IndexesAgree
    /\ Cardinality(DOMAIN entries) <= Capacity

\* Read with the sequence numbers forgotten, the state is an age-ordered map's.
Abstract == INSTANCE AgeOrderedMap WITH
    vals  <- [key \in DOMAIN entries |-> entries[key].value],
    older <- {pair \in (DOMAIN entries) \X (DOMAIN entries) :
                 entries[pair[1]].seq < entries[pair[2]].seq}

\* Until the counter wraps, every operation is one of the age-ordered map, an
\* insertion an insertion: the new key is in, what is evicted is what was
\* inserted longest ago, and a key inserted again is young again (the test
\* replacing_entry_refreshes_order).
EvictsOldestUntilWrap ==
    /\ Abstract!Init
    /\ [][wrapped' \/ /\ [Abstract!Next]_(Abstract!vars)
                      /\ \A key \in Keys, value \in Values :
                            Insert(key, value) => Abstract!Insert(key, value)]_vars
=============================================================================
