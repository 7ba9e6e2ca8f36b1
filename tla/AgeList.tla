------------------------------- MODULE AgeList -------------------------------
(***************************************************************************)
(* What BoundedMap promises its users: entries from the oldest to the      *)
(* youngest, at most one of a key; inserting a key makes it the youngest;  *)
(* one insertion over the capacity gives up the oldest entry.              *)
(***************************************************************************)
EXTENDS Naturals, Sequences, FiniteSets, SequencesExt

\* The elements of a list at the places kept, in order.
Picked(list, kept) ==
    LET place(i) == Cardinality({j \in kept : j <= i})
    IN  [n \in 1 .. Cardinality(kept) |-> list[CHOOSE i \in kept : place(i) = n]]

\* retain(|p| keep(p)) on an order
InOrder(order, keep) == Picked(order, {i \in DOMAIN order : order[i] \in keep})

KeysIn(list) == {list[i].key : i \in DOMAIN list}

IndexOf(list, key) == CHOOSE i \in DOMAIN list : list[i].key = key

\* get
ValueOf(list, key) == list[IndexOf(list, key)].value

\* remove, and retain(|k, v| keep(k, v))
RemoveKeys(list, keys) == Picked(list, {i \in DOMAIN list : list[i].key \notin keys})

\* get_mut: the age stays.
Replace(list, key, value) == [list EXCEPT ![IndexOf(list, key)].value = value]

\* insert
InsertYoungest(list, key, value, capacity) ==
    LET grown == Append(RemoveKeys(list, {key}), [key |-> key, value |-> value])
    IN  IF Len(grown) > capacity THEN Tail(grown) ELSE grown
=============================================================================
