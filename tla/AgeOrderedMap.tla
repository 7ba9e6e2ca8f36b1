--------------------------- MODULE AgeOrderedMap ---------------------------
(***************************************************************************)
(* What the retention stores of the daemon promise: a map that holds at    *)
(* most Capacity entries and, when an insertion exceeds that, gives up the *)
(* entry that was inserted (or re-inserted) longest ago.  There are no     *)
(* sequence numbers here: age is a strict order on the keys present.       *)
(***************************************************************************)
EXTENDS Naturals, FiniteSets, Maps

CONSTANTS Keys, Values, Capacity

VARIABLES
    vals,     \* the value of each key present
    older     \* <<a, b>>: a was inserted before b

vars == <<vals, older>>

Init ==
    /\ vals = EmptyMap
    /\ older = {}

Among(S) == {pair \in older : pair[1] \in S /\ pair[2] \in S}

Oldest(S, order) == {x \in S : \A y \in S \ {x} : <<x, y>> \in order}

Insert(key, value) ==
    LET others  == DOMAIN vals \ {key}
        present == others \cup {key}
        order   == Among(others) \cup {<<x, key>> : x \in others}
        victims == IF Cardinality(present) > Capacity
                   THEN Oldest(present, order) ELSE {}
        kept    == present \ victims
    IN  /\ vals' = Keep(Put(vals, key, value), kept)
        /\ older' = {pair \in order : pair[1] \in kept /\ pair[2] \in kept}

Retain(keep) ==
    /\ vals' = Keep(vals, keep)
    /\ older' = Among(DOMAIN vals \cap keep)

Update(key, value) ==
    /\ key \in DOMAIN vals
    /\ vals' = [vals EXCEPT ![key] = value]
    /\ UNCHANGED older

Next ==
    \/ \E key \in Keys, value \in Values : Insert(key, value) \/ Update(key, value)
    \/ \E keep \in SUBSET Keys : Retain(keep)

Spec == Init /\ [][Next]_vars
=============================================================================
