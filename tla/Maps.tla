-------------------------------- MODULE Maps --------------------------------
(***************************************************************************)
(* Finite maps as functions whose domain is the set of keys present: the   *)
(* shape of every BTreeMap/HashMap of the daemon.                          *)
(***************************************************************************)
EXTENDS FiniteSets

EmptyMap == [x \in {} |-> x]

\* insert(key, value): overwrites an entry of the same key.
Put(m, key, value) ==
    [x \in DOMAIN m \cup {key} |-> IF x = key THEN value ELSE m[x]]

\* retain(|k, _| k in keep): also models remove(key).
Keep(m, keep) == [x \in DOMAIN m \cap keep |-> m[x]]

Without(m, key) == Keep(m, DOMAIN m \ {key})

\* A record with the fields of another.
Joined(record, other) ==
    [x \in DOMAIN record \cup DOMAIN other |->
        IF x \in DOMAIN record THEN record[x] ELSE other[x]]

\* A map to queues: the places in them, and how many there are.
Places(queues) == UNION {{key} \X DOMAIN queues[key] : key \in DOMAIN queues}
TotalOf(queues) == Cardinality(Places(queues))

\* m maps some of the keys K to values of V.
IsMap(m, K, V) == DOMAIN m \subseteq K /\ m \in [DOMAIN m -> V]
=============================================================================
