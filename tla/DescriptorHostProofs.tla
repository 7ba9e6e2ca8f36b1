------------------------ MODULE DescriptorHostProofs ------------------------
(***************************************************************************)
(* Theorems about what the daemon knows of descriptors, for any processes, *)
(* descriptors, peers and bounds: its bookkeeping adds up, and the peer a  *)
(* TLS fragment is attributed to is the one it came from or went to.       *)
(*                                                                         *)
(* Between StateNet and a process of the host stands a chain of views, one *)
(* before each event not yet processed and one after the last: what        *)
(* StateNet knows is true of the first view, each event of the process     *)
(* leads from one view to the next, between its events the views only gain *)
(* peers, and the last is the process as it is.                            *)
(*                                                                         *)
(* Of a process to which nothing has happened that excuses anything, the   *)
(* first view is known in full, and each of its events tells all that the  *)
(* next one has more: so nothing of it is forgotten.                       *)
(***************************************************************************)
EXTENDS DescriptorHost, FiniteSetTheorems, WellFoundedInduction, TLAPS

IsSeq(s) == s \in Seq(Range(s))

-----------------------------------------------------------------------------
(* Sequences.                                                              *)

LEMMA Least ==
    ASSUME NEW S \in SUBSET Nat, S # {}
    PROVE  \E s \in S : \A t \in S : s <= t
  <1> DEFINE R == OpToRel(<, Nat)
  <1>1. IsWellFoundedOn(R, Nat)
    BY NatLessThanWellFounded
  <1>2. \A x, y \in Nat : <<x, y>> \in R <=> x < y
    BY DEF OpToRel
  <1> HIDE DEF R
  <1>3. PICK s \in S : \A t \in S : <<t, s>> \notin R
    BY <1>1, WFMin
  <1>4. \A t \in S : ~(t < s)
    BY <1>2, <1>3
  <1> QED BY <1>4

LEMMA SeqByIndex ==
    ASSUME NEW s, NEW n \in Nat, s = [i \in 1 .. n |-> s[i]]
    PROVE  IsSeq(s) /\ Len(s) = n /\ DOMAIN s = 1 .. n
  <1>1. s \in [1 .. n -> Range(s)]
    BY DEF Range
  <1>2. s \in Seq(Range(s))
    BY <1>1
  <1> QED BY <1>1, <1>2 DEF IsSeq

LEMMA SeqFacts ==
    ASSUME NEW s, IsSeq(s)
    PROVE  Len(s) \in Nat /\ DOMAIN s = 1 .. Len(s) /\ s = [i \in 1 .. Len(s) |-> s[i]]
  <1>1. s \in Seq(Range(s))
    BY DEF IsSeq
  <1> QED BY <1>1

LEMMA AppendFacts ==
    ASSUME NEW s, IsSeq(s), NEW x
    PROVE  /\ IsSeq(Append(s, x))
           /\ Len(Append(s, x)) = Len(s) + 1
           /\ DOMAIN Append(s, x) = 1 .. Len(s) + 1
           /\ \A i \in DOMAIN s : Append(s, x)[i] = s[i]
           /\ Append(s, x)[Len(s) + 1] = x
           /\ Range(Append(s, x)) = Range(s) \cup {x}
           /\ IsInjective(s) /\ x \notin Range(s) => IsInjective(Append(s, x))
  <1> DEFINE S == Range(s) \cup {x}
             a == Append(s, x)
  <1>1. s \in Seq(S) /\ x \in S
    BY DEF IsSeq
  <1>2. /\ a \in Seq(S)
        /\ Len(a) = Len(s) + 1
        /\ DOMAIN a = 1 .. Len(s) + 1
        /\ \A i \in DOMAIN s : a[i] = s[i]
        /\ a[Len(s) + 1] = x
        /\ DOMAIN s = 1 .. Len(s)
        /\ Len(s) \in Nat
    BY <1>1
  <1> HIDE DEF a
  <1>3. Range(a) = S
    BY <1>2 DEF Range
  <1>4. ASSUME IsInjective(s), x \notin Range(s)
        PROVE  IsInjective(a)
    <2>1. \A i, j \in DOMAIN s : s[i] = s[j] => i = j
      BY <1>4 DEF IsInjective
    <2>2. \A i \in DOMAIN s : s[i] # x
      BY <1>4 DEF Range
    <2> QED BY <2>1, <2>2, <1>2 DEF IsInjective
  <1> QED BY <1>2, <1>3, <1>4 DEF IsSeq, a

LEMMA TailFacts ==
    ASSUME NEW s, IsSeq(s), Len(s) # 0
    PROVE  /\ IsSeq(Tail(s))
           /\ Len(Tail(s)) = Len(s) - 1
           /\ DOMAIN Tail(s) = 1 .. Len(s) - 1
           /\ \A i \in 1 .. Len(s) - 1 : i + 1 \in DOMAIN s /\ Tail(s)[i] = s[i + 1]
           /\ Head(s) = s[1]
           /\ 1 \in DOMAIN s
  <1> DEFINE S == Range(s)
             t == Tail(s)
  <1>0. s \in Seq(S)
    BY DEF IsSeq
  <1>1. Len(s) \in Nat \ {0} /\ DOMAIN s = 1 .. Len(s)
    BY <1>0
  <1>3. s # <<>>
    BY <1>0
  <1>2. /\ t \in Seq(S)
        /\ Len(t) = Len(s) - 1
        /\ DOMAIN t = 1 .. Len(s) - 1
        /\ \A i \in 1 .. Len(s) - 1 : t[i] = s[i + 1]
        /\ Head(s) = s[1]
    BY <1>0, <1>1, <1>3
  <1> HIDE DEF t
  <1>4. t = [i \in 1 .. Len(s) - 1 |-> t[i]] /\ Len(s) - 1 \in Nat
    BY <1>1, <1>2
  <1>5. IsSeq(t)
    BY <1>4, SeqByIndex
  <1>6. \A i \in 1 .. Len(s) - 1 : i + 1 \in DOMAIN s
    BY <1>1
  <1> QED BY <1>1, <1>2, <1>5, <1>6 DEF t

\* What is picked of a list are its elements at those places, each once.
LEMMA PickedFacts ==
    ASSUME NEW list, IsSeq(list), NEW kept \in SUBSET DOMAIN list
    PROVE  /\ IsSeq(Picked(list, kept))
           /\ Len(Picked(list, kept)) <= Len(list)
           /\ \A m \in DOMAIN Picked(list, kept) :
                 \E i \in kept : Picked(list, kept)[m] = list[i]
           /\ Range(Picked(list, kept)) = {list[i] : i \in kept}
           /\ IsInjective(list) => IsInjective(Picked(list, kept))
  <1> DEFINE L == Len(list)
             upto(i) == {j \in kept : j <= i}
             place(i) == Cardinality(upto(i))
             n == Cardinality(kept)
             p == [m \in 1 .. n |-> CHOOSE i \in kept : place(i) = m]
             rest == [m \in 1 .. n |-> list[CHOOSE i \in kept : place(i) = m]]
  <1>1. L \in Nat /\ DOMAIN list = 1 .. L
    BY SeqFacts
  <1>2. \A i \in kept : i \in 1 .. L /\ i \in Int
    BY <1>1
  <1>3. IsFiniteSet(kept) /\ n \in Nat /\ n <= L
    <2>1. IsFiniteSet(1 .. L) /\ Cardinality(1 .. L) = L
      <3> HIDE DEF L
      <3> QED BY <1>1, FS_Interval
    <2>2. kept \in SUBSET (1 .. L)
      BY <1>2
    <2> QED BY <2>1, <2>2, FS_Subset, FS_CardinalityType
  <1> HIDE DEF L, n
  <1>4. ASSUME NEW i \in kept
        PROVE  IsFiniteSet(upto(i)) /\ place(i) \in 1 .. n
    <2>1. upto(i) \in SUBSET kept /\ i \in upto(i)
      BY <1>2
    <2> HIDE DEF upto
    <2>2. IsFiniteSet(upto(i)) /\ place(i) <= n /\ place(i) \in Nat
      BY <1>3, <2>1, FS_Subset, FS_CardinalityType DEF n
    <2>3. place(i) # 0
      BY <2>1, <2>2, FS_EmptySet
    <2> QED BY <1>3, <2>2, <2>3
  <1>5. ASSUME NEW i \in kept, NEW j \in kept, i < j
        PROVE  place(i) # place(j)
    <2>1. upto(i) \in SUBSET upto(j) /\ j \in upto(j) /\ j \notin upto(i)
      BY <1>2, <1>5
    <2> HIDE DEF upto
    <2>2. place(j) = place(i) => upto(i) = upto(j)
      BY <1>4, <2>1, FS_Subset
    <2> QED BY <2>1, <2>2
  <1> HIDE DEF place
  <1> DEFINE f == [i \in kept |-> place(i)]
  <1>6. f \in Injection(kept, 1 .. n)
    <2>1. f \in [kept -> 1 .. n]
      BY <1>4
    <2>2. \A i, j \in kept : f[i] = f[j] => i = j
      <3> TAKE i, j \in kept
      <3>1. ~(i < j) \/ f[i] # f[j]
        BY <1>5
      <3>2. ~(j < i) \/ f[i] # f[j]
        BY <1>5
      <3> QED BY <1>2, <3>1, <3>2
    <2> HIDE DEF f
    <2> QED BY <2>1, <2>2 DEF Injection, IsInjective
  <1>7. \A m \in 1 .. n : \E i \in kept : place(i) = m
    <2>1. IsFiniteSet(1 .. n) /\ Cardinality(1 .. n) = n
      BY <1>3, FS_Interval
    <2> HIDE DEF f
    <2>2. f \in Surjection(kept, 1 .. n)
      BY <1>3, <1>6, <2>1, FS_Injection DEF n
    <2>3. \A m \in 1 .. n : \E i \in kept : f[i] = m
      BY <2>2 DEF Surjection
    <2> QED BY <2>3 DEF f
  <1>8. \A m \in 1 .. n : p[m] \in kept /\ place(p[m]) = m
    <2> TAKE m \in 1 .. n
    <2>1. p[m] = CHOOSE i \in kept : place(i) = m
      OBVIOUS
    <2>2. \E i \in kept : place(i) = m
      BY <1>7
    <2> QED BY <2>1, <2>2
  <1>9. \A m \in 1 .. n : rest[m] = list[p[m]]
    OBVIOUS
  <1>10. Picked(list, kept) = rest
    BY DEF Picked, place, upto, n
  <1>11. rest = [m \in 1 .. n |-> rest[m]]
    OBVIOUS
  <1> HIDE DEF rest, p
  <1>12. IsSeq(rest) /\ Len(rest) = n /\ DOMAIN rest = 1 .. n
    BY <1>3, <1>11, SeqByIndex
  <1>13. \A i \in kept : \E m \in 1 .. n : p[m] = i
    <2> TAKE i \in kept
    <2>1. place(i) \in 1 .. n
      BY <1>4
    <2>2. p[place(i)] \in kept /\ place(p[place(i)]) = place(i)
      BY <1>8, <2>1
    <2>3. p[place(i)] = i
      BY <1>6, <2>2 DEF Injection, IsInjective
    <2> QED BY <2>1, <2>3
  <1>14. Range(rest) = {list[i] : i \in kept}
    <2>1. \A x \in Range(rest) : \E i \in kept : x = list[i]
      BY <1>8, <1>9, <1>12 DEF Range
    <2>2. \A i \in kept : list[i] \in Range(rest)
      BY <1>9, <1>12, <1>13 DEF Range
    <2> QED BY <2>1, <2>2
  <1>15. ASSUME IsInjective(list)
         PROVE  IsInjective(rest)
    <2>1. \A a, b \in 1 .. n : rest[a] = rest[b] => a = b
      <3> TAKE a, b \in 1 .. n
      <3>1. p[a] \in DOMAIN list /\ p[b] \in DOMAIN list
        BY <1>8
      <3>2. rest[a] = rest[b] => p[a] = p[b]
        BY <1>9, <1>15, <3>1 DEF IsInjective
      <3>3. p[a] = p[b] => a = b
        BY <1>8
      <3> QED BY <3>2, <3>3
    <2> QED BY <1>12, <2>1 DEF IsInjective
  <1>16. \A m \in DOMAIN rest : \E i \in kept : rest[m] = list[i]
    BY <1>8, <1>9, <1>12
  <1> QED BY <1>3, <1>10, <1>12, <1>14, <1>15, <1>16 DEF L

\* A list without some keys, or with an entry made its youngest.
LEMMA RemoveKeysFacts ==
    ASSUME NEW list, IsSeq(list), NEW keys
    PROVE  /\ IsSeq(RemoveKeys(list, keys))
           /\ Len(RemoveKeys(list, keys)) <= Len(list)
           /\ \A m \in DOMAIN RemoveKeys(list, keys) : \E i \in DOMAIN list :
                 RemoveKeys(list, keys)[m] = list[i] /\ list[i].key \notin keys
  <1> DEFINE kept == {i \in DOMAIN list : list[i].key \notin keys}
  <1>1. kept \in SUBSET DOMAIN list
    OBVIOUS
  <1>2. \A i \in kept : i \in DOMAIN list /\ list[i].key \notin keys
    OBVIOUS
  <1>3. RemoveKeys(list, keys) = Picked(list, kept)
    BY DEF RemoveKeys
  <1> HIDE DEF kept
  <1> QED BY <1>1, <1>2, <1>3, PickedFacts

LEMMA InsertFacts ==
    ASSUME NEW list, IsSeq(list), NEW key, NEW value, NEW capacity \in Nat \ {0},
           Len(list) <= capacity
    PROVE  /\ IsSeq(InsertYoungest(list, key, value, capacity))
           /\ Len(InsertYoungest(list, key, value, capacity)) <= capacity
           /\ \A m \in DOMAIN InsertYoungest(list, key, value, capacity) :
                 \/ InsertYoungest(list, key, value, capacity)[m]
                       = [key |-> key, value |-> value]
                 \/ \E i \in DOMAIN list :
                       /\ InsertYoungest(list, key, value, capacity)[m] = list[i]
                       /\ list[i].key # key
  <1> DEFINE rest == RemoveKeys(list, {key})
             new == [key |-> key, value |-> value]
             grown == Append(rest, new)
             r == IF Len(grown) > capacity THEN Tail(grown) ELSE grown
  <1>1. /\ IsSeq(rest)
        /\ Len(rest) <= Len(list)
        /\ \A m \in DOMAIN rest : \E i \in DOMAIN list : rest[m] = list[i] /\ list[i].key # key
    <2> DEFINE keys == {key}
    <2>1. \A x : x \notin keys <=> x # key
      OBVIOUS
    <2> HIDE DEF keys
    <2>2. rest = RemoveKeys(list, keys)
      BY DEF keys
    <2> HIDE DEF rest
    <2> QED BY <2>1, <2>2, RemoveKeysFacts
  <1>2. InsertYoungest(list, key, value, capacity) = r
    BY DEF InsertYoungest
  <1> HIDE DEF new, rest
  <1>3. Len(list) \in Nat /\ Len(rest) \in Nat /\ DOMAIN rest = 1 .. Len(rest)
    BY <1>1, SeqFacts
  <1>4. /\ IsSeq(grown)
        /\ Len(grown) = Len(rest) + 1
        /\ DOMAIN grown = 1 .. Len(rest) + 1
        /\ \A i \in DOMAIN rest : grown[i] = rest[i]
        /\ grown[Len(rest) + 1] = new
    BY <1>1, AppendFacts
  <1> HIDE DEF grown
  <1>5. \A m \in DOMAIN grown :
           grown[m] = new \/ \E i \in DOMAIN list : grown[m] = list[i] /\ list[i].key # key
    <2> TAKE m \in DOMAIN grown
    <2>1. CASE m \in DOMAIN rest
      BY <1>1, <1>4, <2>1
    <2>2. CASE m = Len(rest) + 1
      BY <1>4, <2>2
    <2> QED BY <1>3, <1>4, <2>1, <2>2
  <1>6. IsSeq(r) /\ Len(r) <= capacity /\ \A m \in DOMAIN r : \E k \in DOMAIN grown : r[m] = grown[k]
    <2>1. CASE Len(grown) > capacity
      <3>1. Len(grown) # 0
        BY <1>3, <1>4
      <3>2. /\ IsSeq(Tail(grown))
            /\ Len(Tail(grown)) = Len(grown) - 1
            /\ DOMAIN Tail(grown) = 1 .. Len(grown) - 1
            /\ \A i \in 1 .. Len(grown) - 1 :
                  i + 1 \in DOMAIN grown /\ Tail(grown)[i] = grown[i + 1]
        BY <1>4, <3>1, TailFacts
      <3> QED BY <1>1, <1>3, <1>4, <2>1, <3>2
    <2>2. CASE ~(Len(grown) > capacity)
      BY <1>3, <1>4, <2>2
    <2> QED BY <2>1, <2>2
  <1> HIDE DEF r
  <1> QED BY <1>2, <1>5, <1>6 DEF new
-----------------------------------------------------------------------------
(* StateNet: where its entries come from.                                  *)

\* The bookkeeping of StateNet, with most endpoints at most.
Tidy(n, most) ==
    /\ n = [versions |-> n.versions, fds |-> n.fds, endpoints |-> n.endpoints,
            assocs |-> n.assocs]
    /\ IsSeq(n.fds) /\ Len(n.fds) <= FdCapacity
    /\ IsSeq(n.assocs) /\ Len(n.assocs) <= AssocCapacity
    /\ IsSeq(n.endpoints) /\ Len(n.endpoints) <= most
    /\ \A i \in DOMAIN n.fds :
          /\ n.fds[i].key \in DOMAIN n.versions
          /\ n.versions[n.fds[i].key] = n.fds[i].value.version

\* What calls report of descriptors and SSL objects.
IsEvent(ev) ==
    /\ ev.pid \in Pids
    /\ ev.kind = "open" => ev.ret \in Fds \cup {-1}
    /\ ev.kind = "dup" =>
          /\ ev.newfd \in Fds
          /\ \/ ev.oldfd = -1 /\ ev.ret = 0
             \/ ev.oldfd \in Fds /\ ev.ret \in {-1, ev.newfd}
    /\ ev.kind = "connect" => ev.fd \in Fds /\ ev.peer \in Peers
    /\ ev.kind = "assoc" => ev.ssl \in Ssls /\ ev.direction \in Directions /\ ev.fd \in Fds
    /\ ev.kind = "fragment" => ev.ssl \in Ssls /\ ev.direction \in Directions

\* An event that says what a descriptor is from now on.
Touches(ev, key) ==
    \/ ev.kind = "open" /\ ev.ret \in Fds /\ key = <<ev.pid, ev.ret>>
    \/ ev.kind = "dup" /\ key = <<ev.pid, ev.newfd>>
    \/ ev.kind = "connect" /\ key = <<ev.pid, ev.fd>>

Duplicates(ev) == ev.kind = "dup" /\ ev.oldfd \in Fds /\ ev.ret \in Fds

Learned(n, ev, e) ==
    /\ Touches(ev, e.key)
    /\ \/ e.value.endpoint = NoEndpoint
       \/ ev.kind = "connect" /\ e.value.endpoint = ev.peer
       \/ /\ Duplicates(ev)
          /\ \E i \in DOMAIN n.fds : /\ n.fds[i].key = <<ev.pid, ev.oldfd>>
                                     /\ n.fds[i].value.endpoint = e.value.endpoint

\* A descriptor StateNet knows after an event, and an association.
FdFrom(n, ev, e) ==
    \/ \E i \in DOMAIN n.fds : e = n.fds[i] /\ ~Touches(ev, e.key)
    \/ Learned(n, ev, e)

Relates(ev, key) == ev.kind = "assoc" /\ key = <<ev.pid, ev.ssl, ev.direction>>

AssocFrom(n, ev, e) ==
    \/ \E i \in DOMAIN n.assocs : e = n.assocs[i] /\ ~Relates(ev, e.key)
    \/ Relates(ev, e.key) /\ e.value.fd = ev.fd

Follows(n, ev, m) ==
    /\ \A i \in DOMAIN m.fds : FdFrom(n, ev, m.fds[i])
    /\ \A i \in DOMAIN m.assocs : AssocFrom(n, ev, m.assocs[i])

\* What remember_fd and close_fd do, the entries of one descriptor aside.
Renewed(n, m, key, endpoint) ==
    /\ m.endpoints = n.endpoints
    /\ \A i \in DOMAIN m.fds :
          \/ m.fds[i].key = key /\ m.fds[i].value.endpoint = endpoint
          \/ \E j \in DOMAIN n.fds : m.fds[i] = n.fds[j] /\ n.fds[j].key # key
    /\ \A i \in DOMAIN m.assocs : \E j \in DOMAIN n.assocs : m.assocs[i] = n.assocs[j]

LEMMA WithoutAssocsFacts ==
    ASSUME NEW assocs, IsSeq(assocs), NEW keys
    PROVE  /\ IsSeq(WithoutAssocsOf(assocs, keys))
           /\ Len(WithoutAssocsOf(assocs, keys)) <= Len(assocs)
           /\ \A m \in DOMAIN WithoutAssocsOf(assocs, keys) : \E i \in DOMAIN assocs :
                 WithoutAssocsOf(assocs, keys)[m] = assocs[i]
  <1> DEFINE kept == {i \in DOMAIN assocs :
                         <<assocs[i].key[1], assocs[i].value.fd>> \notin keys}
  <1>1. kept \in SUBSET DOMAIN assocs /\ WithoutAssocsOf(assocs, keys) = Picked(assocs, kept)
    BY DEF WithoutAssocsOf
  <1> HIDE DEF kept
  <1> QED BY <1>1, PickedFacts

\* A record of StateNet with other versions, descriptors and associations, or
\* other versions and endpoints.
LEMMA NetFields ==
    ASSUME NEW n, NEW most, Tidy(n, most)
    PROVE  /\ DOMAIN n = {"versions", "fds", "endpoints", "assocs"}
           /\ n = [x \in {"versions", "fds", "endpoints", "assocs"} |-> n[x]]
  <1> DEFINE r == [versions |-> n.versions, fds |-> n.fds, endpoints |-> n.endpoints,
                   assocs |-> n.assocs]
  <1>1. DOMAIN r = {"versions", "fds", "endpoints", "assocs"}
    OBVIOUS
  <1>2. r = [x \in DOMAIN r |-> r[x]]
    OBVIOUS
  <1>3. n = r
    BY DEF Tidy
  <1> HIDE DEF r
  <1> QED BY <1>1, <1>2, <1>3

LEMMA Remade ==
    ASSUME NEW n, NEW most, Tidy(n, most), NEW v, NEW f, NEW a
    PROVE  [n EXCEPT !.versions = v, !.fds = f, !.assocs = a]
              = [versions |-> v, fds |-> f, endpoints |-> n.endpoints, assocs |-> a]
  <1> DEFINE F == {"versions", "fds", "endpoints", "assocs"}
             n1 == [n EXCEPT !.versions = v]
             n2 == [n1 EXCEPT !.fds = f]
             n3 == [n2 EXCEPT !.assocs = a]
             r == [versions |-> v, fds |-> f, endpoints |-> n.endpoints, assocs |-> a]
  <1>1. [n EXCEPT !.versions = v, !.fds = f, !.assocs = a] = n3
    OBVIOUS
  <1>2. n1 = [x \in F |-> IF x = "versions" THEN v ELSE n[x]]
    BY NetFields
  <1>3. n2 = [x \in F |-> IF x = "fds" THEN f ELSE n1[x]]
    BY <1>2
  <1>4. n3 = [x \in F |-> IF x = "assocs" THEN a ELSE n2[x]]
    BY <1>3
  <1>5. DOMAIN r = F /\ r = [x \in DOMAIN r |-> r[x]]
    OBVIOUS
  <1>6. /\ r["versions"] = v /\ r["fds"] = f /\ r["assocs"] = a
        /\ r["endpoints"] = n["endpoints"]
    OBVIOUS
  <1> HIDE DEF n1, n2, n3, r
  <1>7. \A x \in F : n3[x] = r[x]
    BY <1>2, <1>3, <1>4, <1>6
  <1>8. n3 = [x \in F |-> n3[x]]
    BY <1>4
  <1>9. r = [x \in F |-> r[x]]
    BY <1>5
  <1>10. n3 = r
    BY <1>7, <1>8, <1>9
  <1> QED BY <1>1, <1>10 DEF r

LEMMA Repruned ==
    ASSUME NEW n, NEW most, Tidy(n, most), NEW v, NEW e
    PROVE  [n EXCEPT !.versions = v, !.endpoints = e]
              = [versions |-> v, fds |-> n.fds, endpoints |-> e, assocs |-> n.assocs]
  <1> DEFINE F == {"versions", "fds", "endpoints", "assocs"}
             n1 == [n EXCEPT !.versions = v]
             n2 == [n1 EXCEPT !.endpoints = e]
             r == [versions |-> v, fds |-> n.fds, endpoints |-> e, assocs |-> n.assocs]
  <1>1. [n EXCEPT !.versions = v, !.endpoints = e] = n2
    OBVIOUS
  <1>2. n1 = [x \in F |-> IF x = "versions" THEN v ELSE n[x]]
    BY NetFields
  <1>3. n2 = [x \in F |-> IF x = "endpoints" THEN e ELSE n1[x]]
    BY <1>2
  <1>5. DOMAIN r = F /\ r = [x \in DOMAIN r |-> r[x]]
    OBVIOUS
  <1>6. /\ r["versions"] = v /\ r["fds"] = n["fds"] /\ r["assocs"] = n["assocs"]
        /\ r["endpoints"] = e
    OBVIOUS
  <1> HIDE DEF n1, n2, r
  <1>7. \A x \in F : n2[x] = r[x]
    BY <1>2, <1>3, <1>6
  <1>8. n2 = [x \in F |-> n2[x]]
    BY <1>3
  <1>9. r = [x \in F |-> r[x]]
    BY <1>5
  <1>10. n2 = r
    BY <1>7, <1>8, <1>9
  <1> QED BY <1>1, <1>10 DEF r

LEMMA Connected ==
    ASSUME NEW n, NEW most, Tidy(n, most), NEW e
    PROVE  [n EXCEPT !.endpoints = e]
              = [versions |-> n.versions, fds |-> n.fds, endpoints |-> e, assocs |-> n.assocs]
  <1>1. [n EXCEPT !.versions = n.versions, !.endpoints = e]
              = [versions |-> n.versions, fds |-> n.fds, endpoints |-> e, assocs |-> n.assocs]
    BY Repruned
  <1>2. [n EXCEPT !.versions = n.versions] = n
    BY NetFields
  <1> QED BY <1>1, <1>2

LEMMA RememberWorks ==
    ASSUME NEW n, NEW most \in Nat, Tidy(n, most), NEW key, NEW version, NEW endpoint
    PROVE  /\ Tidy(RememberFd(n, key, version, endpoint), most)
           /\ Renewed(n, RememberFd(n, key, version, endpoint), key, endpoint)
  <1> DEFINE value == [version |-> version, endpoint |-> endpoint]
             fds == InsertYoungest(n.fds, key, value, FdCapacity)
             assocs == WithoutAssocsOf(n.assocs, KeysIn(n.fds) \ KeysIn(fds))
             versions == Put(n.versions, key, version)
             m == RememberFd(n, key, version, endpoint)
  <1>0. FdCapacity \in Nat \ {0} /\ AssocCapacity \in Nat
    BY StateNetAssumption
  <1>1. m = [versions |-> versions, fds |-> fds, endpoints |-> n.endpoints, assocs |-> assocs]
    <2>1. m = [n EXCEPT !.versions = versions, !.fds = fds, !.assocs = assocs]
      BY DEF RememberFd
    <2> HIDE DEF versions, fds, assocs
    <2> QED BY <2>1, Remade
  <1>2. /\ IsSeq(fds) /\ Len(fds) <= FdCapacity
        /\ \A i \in DOMAIN fds :
              \/ fds[i] = [key |-> key, value |-> value]
              \/ \E j \in DOMAIN n.fds : fds[i] = n.fds[j] /\ n.fds[j].key # key
    BY <1>0, InsertFacts DEF Tidy
  <1> HIDE DEF fds
  <1>3. /\ IsSeq(assocs) /\ Len(assocs) <= Len(n.assocs)
        /\ \A i \in DOMAIN assocs : \E j \in DOMAIN n.assocs : assocs[i] = n.assocs[j]
    <2> DEFINE gone == KeysIn(n.fds) \ KeysIn(fds)
    <2>1. assocs = WithoutAssocsOf(n.assocs, gone) /\ IsSeq(n.assocs)
      BY DEF Tidy
    <2> HIDE DEF gone, assocs
    <2> QED BY <2>1, WithoutAssocsFacts
  <1> HIDE DEF assocs
  <1>4. Len(assocs) <= AssocCapacity
    <2>1. Len(assocs) \in Nat /\ Len(n.assocs) \in Nat /\ Len(n.assocs) <= AssocCapacity
      BY <1>3, SeqFacts DEF Tidy
    <2> QED BY <1>0, <1>3, <2>1
  <1>5. /\ \A x \in DOMAIN n.versions : x \in DOMAIN versions
        /\ \A x \in DOMAIN n.versions : x # key => versions[x] = n.versions[x]
        /\ key \in DOMAIN versions /\ versions[key] = version
    BY DEF Put
  <1>6. value.version = version /\ value.endpoint = endpoint
    OBVIOUS
  <1> HIDE DEF versions, value
  <1>7. \A i \in DOMAIN fds : fds[i].key \in DOMAIN versions
                              /\ versions[fds[i].key] = fds[i].value.version
    <2> TAKE i \in DOMAIN fds
    <2>1. CASE fds[i] = [key |-> key, value |-> value]
      BY <1>5, <1>6, <2>1
    <2>2. ASSUME NEW j \in DOMAIN n.fds, fds[i] = n.fds[j], n.fds[j].key # key
          PROVE  fds[i].key \in DOMAIN versions /\ versions[fds[i].key] = fds[i].value.version
      BY <1>5, <2>2 DEF Tidy
    <2> QED BY <1>2, <2>1, <2>2
  <1> HIDE DEF m
  <1>8. Tidy(m, most)
    BY <1>1, <1>2, <1>3, <1>4, <1>7 DEF Tidy
  <1>9. Renewed(n, m, key, endpoint)
    BY <1>1, <1>2, <1>3, <1>6 DEF Renewed
  <1> QED BY <1>8, <1>9 DEF m

LEMMA CloseWorks ==
    ASSUME NEW n, NEW most \in Nat, Tidy(n, most), NEW key
    PROVE  Tidy(CloseFd(n, key), most) /\ Renewed(n, CloseFd(n, key), key, NoEndpoint)
  <1> DEFINE fds == RemoveKeys(n.fds, {key})
             assocs == WithoutAssocsOf(n.assocs, {key})
             versions == Put(n.versions, key, BumpVersion(n, key))
             m == CloseFd(n, key)
  <1>0. FdCapacity \in Nat /\ AssocCapacity \in Nat
    BY StateNetAssumption
  <1>1. m = [versions |-> versions, fds |-> fds, endpoints |-> n.endpoints, assocs |-> assocs]
    <2>1. m = [n EXCEPT !.versions = versions, !.fds = fds, !.assocs = assocs]
      BY DEF CloseFd
    <2> HIDE DEF versions, fds, assocs
    <2> QED BY <2>1, Remade
  <1>2. /\ IsSeq(fds) /\ Len(fds) <= Len(n.fds)
        /\ \A i \in DOMAIN fds :
              \E j \in DOMAIN n.fds : fds[i] = n.fds[j] /\ n.fds[j].key # key
    <2> DEFINE keys == {key}
    <2>1. \A x : x \notin keys <=> x # key
      OBVIOUS
    <2> HIDE DEF keys
    <2>2. fds = RemoveKeys(n.fds, keys) /\ IsSeq(n.fds)
      BY DEF keys, Tidy
    <2> HIDE DEF fds
    <2> QED BY <2>1, <2>2, RemoveKeysFacts
  <1> HIDE DEF fds
  <1>3. /\ IsSeq(assocs) /\ Len(assocs) <= Len(n.assocs)
        /\ \A i \in DOMAIN assocs : \E j \in DOMAIN n.assocs : assocs[i] = n.assocs[j]
    <2> DEFINE gone == {key}
    <2>1. assocs = WithoutAssocsOf(n.assocs, gone) /\ IsSeq(n.assocs)
      BY DEF Tidy
    <2> HIDE DEF gone, assocs
    <2> QED BY <2>1, WithoutAssocsFacts
  <1> HIDE DEF assocs
  <1>4. Len(assocs) <= AssocCapacity /\ Len(fds) <= FdCapacity
    <2>1. /\ Len(assocs) \in Nat /\ Len(n.assocs) \in Nat /\ Len(n.assocs) <= AssocCapacity
          /\ Len(fds) \in Nat /\ Len(n.fds) \in Nat /\ Len(n.fds) <= FdCapacity
      BY <1>2, <1>3, SeqFacts DEF Tidy
    <2> QED BY <1>0, <1>2, <1>3, <2>1
  <1>5. /\ \A x \in DOMAIN n.versions : x \in DOMAIN versions
        /\ \A x \in DOMAIN n.versions : x # key => versions[x] = n.versions[x]
    BY DEF Put
  <1> HIDE DEF versions
  <1>7. \A i \in DOMAIN fds : fds[i].key \in DOMAIN versions
                              /\ versions[fds[i].key] = fds[i].value.version
    BY <1>2, <1>5 DEF Tidy
  <1> HIDE DEF m
  <1>8. Tidy(m, most)
    BY <1>1, <1>2, <1>3, <1>4, <1>7 DEF Tidy
  <1>9. Renewed(n, m, key, NoEndpoint)
    BY <1>1, <1>2, <1>3 DEF Renewed
  <1> QED BY <1>8, <1>9 DEF m

\* A duplicate, a close and a duplicate that failed.
IsEffect(ev, effect) ==
    /\ Duplicates(ev) => /\ effect.effect = "Duplicate"
                         /\ effect.oldfd = ev.oldfd /\ effect.newfd = ev.newfd
    /\ ~Duplicates(ev) => effect.effect = "Close" /\ effect.fd = ev.newfd

LEMMA DupEffectIs ==
    ASSUME NEW ev, IsEvent(ev), ev.kind = "dup"
    PROVE  IsEffect(ev, FdDupEffect(ev.oldfd, ev.newfd, ev.ret))
  <1>1. /\ ev.newfd \in Nat
        /\ \/ ev.oldfd = -1 /\ ev.ret = 0
           \/ ev.oldfd \in Nat /\ ev.oldfd \in Fds /\ ev.ret = -1
           \/ ev.oldfd \in Nat /\ ev.oldfd \in Fds /\ ev.ret = ev.newfd
        /\ ev.newfd \in Fds /\ -1 \notin Fds
    BY HostAssumption DEF IsEvent
  <1>2. CASE ev.oldfd = -1 /\ ev.ret = 0
    <2>1. ~Duplicates(ev)
      BY <1>1, <1>2 DEF Duplicates
    <2> QED BY <1>2, <2>1 DEF FdDupEffect, IsEffect
  <1>3. CASE ev.oldfd \in Nat /\ ev.oldfd \in Fds /\ ev.ret = -1
    <2>1. ~Duplicates(ev)
      BY <1>1, <1>3 DEF Duplicates
    <2>2. ev.oldfd # -1 /\ ev.ret < 0 /\ ev.newfd >= 0
      BY <1>1, <1>3
    <2> QED BY <1>3, <2>1, <2>2 DEF FdDupEffect, IsEffect
  <1>4. CASE ev.oldfd \in Nat /\ ev.oldfd \in Fds /\ ev.ret = ev.newfd
    <2>1. Duplicates(ev)
      BY <1>1, <1>4 DEF Duplicates
    <2>2. ev.oldfd # -1 /\ ~(ev.ret < 0) /\ ev.ret >= 0 /\ ev.newfd >= 0
      BY <1>1, <1>4
    <2> QED BY <2>1, <2>2 DEF FdDupEffect, IsEffect
  <1> QED BY <1>1, <1>2, <1>3, <1>4

LEMMA PruneWorks ==
    ASSUME NEW n, Tidy(n, EndpointCapacity + 1)
    PROVE  /\ Tidy(Prune(n), EndpointCapacity)
           /\ Prune(n).fds = n.fds /\ Prune(n).assocs = n.assocs
  <1> DEFINE v == PrunedVersions(n)
             e == IF Len(n.endpoints) > EndpointCapacity THEN Tail(n.endpoints)
                  ELSE n.endpoints
             m == Prune(n)
  <1>0. EndpointCapacity \in Nat
    BY StateNetAssumption
  <1>1. m = [versions |-> v, fds |-> n.fds, endpoints |-> e, assocs |-> n.assocs]
    <2>1. m = [n EXCEPT !.versions = v, !.endpoints = e]
      BY DEF Prune
    <2> HIDE DEF v, e
    <2> QED BY <2>1, Repruned
  <1>2. IsSeq(e) /\ Len(e) <= EndpointCapacity
    <2>1. IsSeq(n.endpoints) /\ Len(n.endpoints) <= EndpointCapacity + 1
      BY DEF Tidy
    <2>2. Len(n.endpoints) \in Nat
      BY <2>1, SeqFacts
    <2>3. CASE Len(n.endpoints) > EndpointCapacity
      <3>1. Len(n.endpoints) # 0
        BY <1>0, <2>3
      <3>2. IsSeq(Tail(n.endpoints)) /\ Len(Tail(n.endpoints)) = Len(n.endpoints) - 1
        BY <2>1, <3>1, TailFacts
      <3> QED BY <1>0, <2>1, <2>2, <2>3, <3>2
    <2>4. CASE ~(Len(n.endpoints) > EndpointCapacity)
      BY <1>0, <2>1, <2>2, <2>4
    <2> QED BY <2>3, <2>4
  <1> HIDE DEF e
  <1>3. \A x \in KeysIn(n.fds) : x \in DOMAIN n.versions => x \in DOMAIN v /\ v[x] = n.versions[x]
    <2> DEFINE closed == DOMAIN n.versions \ KeysIn(n.fds)
               rank(x) == Cardinality({y \in closed : Below(y, x)})
               over == Cardinality(DOMAIN n.versions) - FdCapacity
               kept == {x \in DOMAIN n.versions : x \in closed => rank(x) >= over}
    <2>1. v = Keep(n.versions, kept)
      BY DEF PrunedVersions
    <2>2. \A x \in KeysIn(n.fds) : x \in DOMAIN n.versions => x \in kept
      OBVIOUS
    <2> HIDE DEF kept, v
    <2> QED BY <2>1, <2>2 DEF Keep
  <1> HIDE DEF v
  <1>4. \A i \in DOMAIN n.fds : n.fds[i].key \in DOMAIN v /\ v[n.fds[i].key] = n.fds[i].value.version
    <2> TAKE i \in DOMAIN n.fds
    <2>1. n.fds[i].key \in KeysIn(n.fds)
      BY DEF KeysIn
    <2> QED BY <1>3, <2>1 DEF Tidy
  <1> HIDE DEF m
  <1>5. Tidy(m, EndpointCapacity) /\ m.fds = n.fds /\ m.assocs = n.assocs
    BY <1>1, <1>2, <1>4 DEF Tidy
  <1> QED BY <1>5 DEF m

LEMMA RenewedFollows ==
    ASSUME NEW n, NEW ev, NEW m, NEW key, NEW endpoint,
           Renewed(n, m, key, endpoint),
           ev.kind # "assoc",
           \A x : Touches(ev, x) <=> x = key,
           \/ endpoint = NoEndpoint
           \/ ev.kind = "connect" /\ endpoint = ev.peer
           \/ /\ Duplicates(ev)
              /\ \E i \in DOMAIN n.fds : /\ n.fds[i].key = <<ev.pid, ev.oldfd>>
                                         /\ n.fds[i].value.endpoint = endpoint
    PROVE  Follows(n, ev, m)
  <1>1. \A i \in DOMAIN m.fds : FdFrom(n, ev, m.fds[i])
    <2> TAKE i \in DOMAIN m.fds
    <2>1. CASE m.fds[i].key = key /\ m.fds[i].value.endpoint = endpoint
      <3>1. Learned(n, ev, m.fds[i])
        BY <2>1 DEF Learned
      <3> QED BY <3>1 DEF FdFrom
    <2>2. CASE \E j \in DOMAIN n.fds : m.fds[i] = n.fds[j] /\ n.fds[j].key # key
      BY <2>2 DEF FdFrom
    <2> QED BY <2>1, <2>2 DEF Renewed
  <1>2. \A i \in DOMAIN m.assocs : AssocFrom(n, ev, m.assocs[i])
    BY DEF Renewed, AssocFrom, Relates
  <1> QED BY <1>1, <1>2 DEF Follows

LEMMA SameFollows ==
    ASSUME NEW n, NEW ev, ev.kind # "assoc", \A x : ~Touches(ev, x)
    PROVE  Follows(n, ev, n)
  BY DEF Follows, FdFrom, AssocFrom, Relates

LEMMA DupWorks ==
    ASSUME NEW n, Tidy(n, EndpointCapacity), NEW ev, IsEvent(ev), ev.kind = "dup"
    PROVE  Tidy(ApplyFdDup(n, ev), EndpointCapacity) /\ Follows(n, ev, ApplyFdDup(n, ev))
  <1> DEFINE key == <<ev.pid, ev.newfd>>
             effect == FdDupEffect(ev.oldfd, ev.newfd, ev.ret)
  <1>0. EndpointCapacity \in Nat
    BY StateNetAssumption
  <1>1. \A x : Touches(ev, x) <=> x = key
    BY DEF Touches
  <1>2. CASE Duplicates(ev)
    <2> DEFINE old == <<ev.pid, ev.oldfd>>
               endpoint == IF old \in KeysIn(n.fds) THEN ValueOf(n.fds, old).endpoint
                           ELSE NoEndpoint
               m == RememberFd(n, key, BumpVersion(n, key), endpoint)
    <2>1. effect.effect = "Duplicate" /\ effect.newfd = ev.newfd /\ effect.oldfd = ev.oldfd
      BY <1>2, DupEffectIs DEF IsEffect
    <2>2. ApplyFdDup(n, ev) = m
      <3> HIDE DEF effect
      <3>1. ApplyFdDup(n, ev) = RememberFd(n, <<ev.pid, effect.newfd>>,
                BumpVersion(n, <<ev.pid, effect.newfd>>),
                IF <<ev.pid, effect.oldfd>> \in KeysIn(n.fds)
                THEN ValueOf(n.fds, <<ev.pid, effect.oldfd>>).endpoint ELSE NoEndpoint)
        BY <2>1 DEF ApplyFdDup, effect
      <3> QED BY <2>1, <3>1
    <2>3. \/ endpoint = NoEndpoint
          \/ \E i \in DOMAIN n.fds : n.fds[i].key = old /\ n.fds[i].value.endpoint = endpoint
      <3>1. CASE old \in KeysIn(n.fds)
        <4>1. \E i \in DOMAIN n.fds : n.fds[i].key = old
          BY <3>1 DEF KeysIn
        <4>2. IndexOf(n.fds, old) \in DOMAIN n.fds /\ n.fds[IndexOf(n.fds, old)].key = old
          BY <4>1 DEF IndexOf
        <4> QED BY <3>1, <4>2 DEF ValueOf
      <3>2. CASE old \notin KeysIn(n.fds)
        BY <3>2
      <3> QED BY <3>1, <3>2
    <2> HIDE DEF endpoint, effect, key
    <2>4. Tidy(m, EndpointCapacity) /\ Renewed(n, m, key, endpoint)
      BY <1>0, RememberWorks
    <2> HIDE DEF m
    <2>5. ev.kind # "assoc"
      OBVIOUS
    <2>6. Follows(n, ev, m)
      BY <1>1, <1>2, <2>3, <2>4, <2>5, RenewedFollows
    <2> QED BY <2>2, <2>4, <2>6
  <1>3. CASE ~Duplicates(ev)
    <2> DEFINE m == CloseFd(n, key)
    <2>1. effect.effect = "Close" /\ effect.fd = ev.newfd
      BY <1>3, DupEffectIs DEF IsEffect
    <2>2. ApplyFdDup(n, ev) = m
      <3> HIDE DEF effect
      <3>1. ApplyFdDup(n, ev) = CloseFd(n, <<ev.pid, effect.fd>>)
        BY <2>1 DEF ApplyFdDup, effect
      <3> QED BY <2>1, <3>1
    <2> HIDE DEF effect, key
    <2>4. Tidy(m, EndpointCapacity) /\ Renewed(n, m, key, NoEndpoint)
      BY <1>0, CloseWorks
    <2> HIDE DEF m
    <2>5. ev.kind # "assoc"
      OBVIOUS
    <2>6. Follows(n, ev, m)
      BY <1>1, <2>4, <2>5, RenewedFollows
    <2> QED BY <2>2, <2>4, <2>6
  <1> QED BY <1>2, <1>3

LEMMA Widened ==
    ASSUME NEW n, Tidy(n, EndpointCapacity)
    PROVE  Tidy(n, EndpointCapacity + 1)
  <1>1. EndpointCapacity \in Nat
    BY StateNetAssumption
  <1>2. Len(n.endpoints) \in Nat
    BY SeqFacts DEF Tidy
  <1> QED BY <1>1, <1>2 DEF Tidy

LEMMA ConnectWorks ==
    ASSUME NEW n, Tidy(n, EndpointCapacity), NEW ev, IsEvent(ev), ev.kind = "connect"
    PROVE  Tidy(ApplyConnect(n, ev), EndpointCapacity + 1) /\ Follows(n, ev, ApplyConnect(n, ev))
  <1> DEFINE key == <<ev.pid, ev.fd>>
             version == VersionOr(n, key, 1)
             r == RememberFd(n, key, version, ev.peer)
             point == [key |-> key, version |-> version, dst |-> ev.peer]
             e == Append(r.endpoints, point)
             m == ApplyConnect(n, ev)
  <1>0. EndpointCapacity \in Nat
    BY StateNetAssumption
  <1>1. \A x : Touches(ev, x) <=> x = key
    BY DEF Touches
  <1>2. m = [r EXCEPT !.endpoints = e]
    BY DEF ApplyConnect
  <1> HIDE DEF version, key
  <1>3. Tidy(r, EndpointCapacity) /\ Renewed(n, r, key, ev.peer)
    BY <1>0, RememberWorks
  <1> HIDE DEF r, point
  <1>4. IsSeq(e) /\ Len(e) <= EndpointCapacity + 1
    <2>1. IsSeq(r.endpoints) /\ Len(r.endpoints) <= EndpointCapacity
      BY <1>3 DEF Tidy
    <2>2. IsSeq(e) /\ Len(e) = Len(r.endpoints) + 1 /\ Len(r.endpoints) \in Nat
      BY <2>1, AppendFacts, SeqFacts
    <2> QED BY <1>0, <2>1, <2>2
  <1> HIDE DEF e
  <1>5. m = [versions |-> r.versions, fds |-> r.fds, endpoints |-> e, assocs |-> r.assocs]
    BY <1>2, <1>3, Connected
  <1>6. Tidy(m, EndpointCapacity + 1)
    BY <1>3, <1>4, <1>5 DEF Tidy
  <1>7. Follows(n, ev, r)
    BY <1>1, <1>3, RenewedFollows
  <1>8. Follows(n, ev, m)
    BY <1>5, <1>7 DEF Follows
  <1> QED BY <1>6, <1>8

LEMMA AssocWorks ==
    ASSUME NEW n, Tidy(n, EndpointCapacity), NEW ev, IsEvent(ev), ev.kind = "assoc"
    PROVE  Tidy(ApplyTlsAssoc(n, ev), EndpointCapacity) /\ Follows(n, ev, ApplyTlsAssoc(n, ev))
  <1> DEFINE key == <<ev.pid, ev.fd>>
             link == <<ev.pid, ev.ssl, ev.direction>>
             version == VersionOr(n, key, 1)
             versions == Put(n.versions, key, version)
             value == [fd |-> ev.fd, version |-> version]
             assocs == InsertYoungest(n.assocs, link, value, AssocCapacity)
             m == ApplyTlsAssoc(n, ev)
  <1>0. AssocCapacity \in Nat \ {0}
    BY StateNetAssumption
  <1>1. m = [versions |-> versions, fds |-> n.fds, endpoints |-> n.endpoints, assocs |-> assocs]
    <2>1. m = [n EXCEPT !.versions = versions, !.assocs = assocs]
      BY DEF ApplyTlsAssoc
    <2> HIDE DEF versions, assocs, m
    <2>2. [n EXCEPT !.fds = n.fds] = n
      BY NetFields
    <2>3. [n EXCEPT !.versions = versions, !.fds = n.fds, !.assocs = assocs] = m
      <3>1. [n EXCEPT !.versions = versions].fds = n.fds
            /\ "fds" \in DOMAIN [n EXCEPT !.versions = versions]
        BY NetFields
      <3> QED BY <2>1, <3>1
    <2> QED BY <2>3, Remade
  <1>2. \A x \in DOMAIN n.versions : x \in DOMAIN versions /\ versions[x] = n.versions[x]
    BY DEF Put, VersionOr
  <1>3. value.fd = ev.fd
    OBVIOUS
  <1> HIDE DEF versions, value, version
  <1>4. /\ IsSeq(assocs) /\ Len(assocs) <= AssocCapacity
        /\ \A i \in DOMAIN assocs :
              \/ assocs[i] = [key |-> link, value |-> value]
              \/ \E j \in DOMAIN n.assocs : assocs[i] = n.assocs[j] /\ n.assocs[j].key # link
    <2> HIDE DEF link
    <2> QED BY <1>0, InsertFacts DEF Tidy
  <1> HIDE DEF assocs, m
  <1>5. Tidy(m, EndpointCapacity)
    BY <1>1, <1>2, <1>4 DEF Tidy
  <1>6. \A x : Relates(ev, x) <=> x = link
    BY DEF Relates
  <1>7. \A i \in DOMAIN assocs : AssocFrom(n, ev, assocs[i])
    <2> TAKE i \in DOMAIN assocs
    <2>1. CASE assocs[i] = [key |-> link, value |-> value]
      <3>1. assocs[i].key = link /\ assocs[i].value.fd = ev.fd
        BY <1>3, <2>1
      <3> QED BY <1>6, <3>1 DEF AssocFrom
    <2>2. CASE \E j \in DOMAIN n.assocs : assocs[i] = n.assocs[j] /\ n.assocs[j].key # link
      BY <1>6, <2>2 DEF AssocFrom
    <2> QED BY <1>4, <2>1, <2>2
  <1>8. \A i \in DOMAIN n.fds : FdFrom(n, ev, n.fds[i])
    BY DEF FdFrom, Touches
  <1>9. Follows(n, ev, m)
    BY <1>1, <1>7, <1>8 DEF Follows
  <1> QED BY <1>5, <1>9 DEF m

\* One event: the bookkeeping stays tidy, and every entry comes from the event
\* or was there.
LEMMA ApplyNetWorks ==
    ASSUME NEW n, Tidy(n, EndpointCapacity), NEW ev, IsEvent(ev)
    PROVE  Tidy(ApplyNet(n, ev), EndpointCapacity) /\ Follows(n, ev, ApplyNet(n, ev))
  <1>0. EndpointCapacity \in Nat
    BY StateNetAssumption
  <1>1. ASSUME NEW m, Tidy(m, EndpointCapacity + 1), Follows(n, ev, m), ApplyNet(n, ev) = Prune(m)
        PROVE  Tidy(ApplyNet(n, ev), EndpointCapacity) /\ Follows(n, ev, ApplyNet(n, ev))
    <2>1. Tidy(Prune(m), EndpointCapacity) /\ Prune(m).fds = m.fds /\ Prune(m).assocs = m.assocs
      BY <1>1, PruneWorks
    <2> QED BY <1>1, <2>1 DEF Follows
  <1>2. CASE ev.kind = "open" /\ ev.ret >= 0
    <2> DEFINE key == <<ev.pid, ev.ret>>
               m == RememberFd(n, key, BumpVersion(n, key), NoEndpoint)
    <2>1. ApplyNet(n, ev) = Prune(m)
      BY <1>2 DEF ApplyNet
    <2>2. ev.ret \in Fds /\ ev.kind # "assoc"
      BY <1>2 DEF IsEvent
    <2>3. \A x : Touches(ev, x) <=> x = key
      BY <1>2, <2>2 DEF Touches
    <2> HIDE DEF key
    <2>4. Tidy(m, EndpointCapacity) /\ Renewed(n, m, key, NoEndpoint)
      BY <1>0, RememberWorks
    <2> HIDE DEF m
    <2>5. Follows(n, ev, m)
      BY <2>2, <2>3, <2>4, RenewedFollows
    <2> QED BY <1>1, <2>1, <2>4, <2>5, Widened
  <1>3. CASE ev.kind = "dup"
    <2>1. ApplyNet(n, ev) = Prune(ApplyFdDup(n, ev))
      BY <1>3 DEF ApplyNet
    <2> QED BY <1>1, <1>3, <2>1, DupWorks, Widened
  <1>4. CASE ev.kind = "connect"
    <2>1. ApplyNet(n, ev) = Prune(ApplyConnect(n, ev))
      BY <1>4 DEF ApplyNet
    <2> QED BY <1>1, <1>4, <2>1, ConnectWorks
  <1>5. CASE ev.kind = "assoc"
    <2>1. ApplyNet(n, ev) = Prune(ApplyTlsAssoc(n, ev))
      BY <1>5 DEF ApplyNet
    <2> QED BY <1>1, <1>5, <2>1, AssocWorks, Widened
  <1>6. CASE /\ ~(ev.kind = "open" /\ ev.ret >= 0)
             /\ ev.kind \notin {"dup", "connect", "assoc"}
    <2>1. ApplyNet(n, ev) = Prune(n)
      BY <1>6 DEF ApplyNet
    <2>2. \A x : ~Touches(ev, x)
      <3>1. \A fd \in Fds : fd >= 0
        BY HostAssumption
      <3> QED BY <1>6, <3>1 DEF Touches
    <2>3. Follows(n, ev, n)
      BY <1>6, <2>2, SameFollows
    <2> QED BY <1>1, <2>1, <2>3, Widened
  <1> QED BY <1>2, <1>3, <1>4, <1>5, <1>6
-----------------------------------------------------------------------------
(* Views of a process.                                                     *)

NoFd == -1
Link == Ssls \X Directions

\* The peer of each descriptor that is a connected socket, and the descriptor
\* of each SSL object and direction.
View == [sock : [Fds -> Peers \cup {NoEndpoint}], link : [Link -> Fds \cup {NoFd}]]

ViewIn(fds, remote, linked) ==
    [sock |-> [fd \in Fds |-> IF fd \in DOMAIN fds /\ fds[fd].kind = "socket"
                              THEN remote[fds[fd].id] ELSE NoEndpoint],
     link |-> [l \in Link |-> IF l \in DOMAIN linked THEN linked[l] ELSE NoFd]]

\* What StateNet knows of process p is true of view v.
TrueOf(n, p, v) ==
    /\ \A i \in DOMAIN n.fds, fd \in Fds :
          (n.fds[i].key = <<p, fd>> /\ n.fds[i].value.endpoint # NoEndpoint)
          => v.sock[fd] = n.fds[i].value.endpoint
    /\ \A i \in DOMAIN n.assocs, ssl \in Ssls, direction \in Directions :
          (n.assocs[i].key = <<p, ssl, direction>> /\ v.link[<<ssl, direction>>] # NoFd)
          => v.link[<<ssl, direction>>] = n.assocs[i].value.fd

\* Between the events of a process: sockets get peers, SSL objects are freed.
Grew(v, w) ==
    /\ \A fd \in Fds : v.sock[fd] # NoEndpoint => w.sock[fd] = v.sock[fd]
    /\ \A l \in Link : w.link[l] # NoFd => w.link[l] = v.link[l]

\* An event of the process.
Leads(ev, v, w) ==
    /\ \A fd \in Fds : v.sock[fd] # NoEndpoint /\ ~Touches(ev, <<ev.pid, fd>>)
                       => w.sock[fd] = v.sock[fd]
    /\ Duplicates(ev) /\ v.sock[ev.oldfd] # NoEndpoint
          => w.sock[ev.newfd] = v.sock[ev.oldfd]
    /\ ev.kind = "connect" => w.sock[ev.fd] = ev.peer
    /\ \A l \in Link : w.link[l] # NoFd =>
          IF ev.kind = "assoc" /\ l = <<ev.ssl, ev.direction>>
          THEN w.link[l] = ev.fd ELSE w.link[l] = v.link[l]
    /\ ev.kind = "fragment" =>
          /\ v.link[<<ev.ssl, ev.direction>>] \in Fds
          /\ v.sock[v.link[<<ev.ssl, ev.direction>>]] = ev.real

LEMMA GrewItself == \A v : Grew(v, v)
  BY DEF Grew

LEMMA GrewOn ==
    ASSUME NEW u, NEW v, NEW w, Grew(u, v), Grew(v, w)
    PROVE  Grew(u, w)
  BY DEF Grew

LEMMA LeadsOn ==
    ASSUME NEW ev, IsEvent(ev), NEW u, NEW v, NEW w, Leads(ev, u, v), Grew(v, w)
    PROVE  Leads(ev, u, w)
  <1>1. \A fd \in Fds : u.sock[fd] # NoEndpoint /\ ~Touches(ev, <<ev.pid, fd>>)
                        => w.sock[fd] = u.sock[fd]
    BY DEF Leads, Grew
  <1>2. Duplicates(ev) /\ u.sock[ev.oldfd] # NoEndpoint
          => w.sock[ev.newfd] = u.sock[ev.oldfd]
    <2>1. Duplicates(ev) => ev.newfd \in Fds
      BY DEF Duplicates, IsEvent
    <2> QED BY <2>1 DEF Leads, Grew
  <1>3. ev.kind = "connect" => w.sock[ev.fd] = ev.peer
    <2>1. ev.kind = "connect" => ev.fd \in Fds /\ ev.peer # NoEndpoint
      BY HostAssumption DEF IsEvent
    <2> QED BY <2>1 DEF Leads, Grew
  <1>4. \A l \in Link : w.link[l] # NoFd =>
          IF ev.kind = "assoc" /\ l = <<ev.ssl, ev.direction>>
          THEN w.link[l] = ev.fd ELSE w.link[l] = u.link[l]
    <2> TAKE l \in Link
    <2>1. w.link[l] # NoFd => w.link[l] = v.link[l]
      BY DEF Grew
    <2>2. v.link[l] # NoFd =>
            IF ev.kind = "assoc" /\ l = <<ev.ssl, ev.direction>>
            THEN v.link[l] = ev.fd ELSE v.link[l] = u.link[l]
      BY DEF Leads
    <2> QED BY <2>1, <2>2
  <1> QED BY <1>1, <1>2, <1>3, <1>4 DEF Leads

LEMMA TrueGrows ==
    ASSUME NEW n, NEW p, NEW v, NEW w, TrueOf(n, p, v), Grew(v, w)
    PROVE  TrueOf(n, p, w)
  <1>1. \A i \in DOMAIN n.fds, fd \in Fds :
          (n.fds[i].key = <<p, fd>> /\ n.fds[i].value.endpoint # NoEndpoint)
          => w.sock[fd] = n.fds[i].value.endpoint
    BY DEF TrueOf, Grew
  <1>2. \A i \in DOMAIN n.assocs, ssl \in Ssls, direction \in Directions :
          (n.assocs[i].key = <<p, ssl, direction>> /\ w.link[<<ssl, direction>>] # NoFd)
          => w.link[<<ssl, direction>>] = n.assocs[i].value.fd
    <2> TAKE i \in DOMAIN n.assocs, ssl \in Ssls, direction \in Directions
    <2>1. <<ssl, direction>> \in Link
      BY DEF Link
    <2> QED BY <2>1 DEF TrueOf, Grew
  <1> QED BY <1>1, <1>2 DEF TrueOf

\* An event of another process leaves what is known true, and one of the process
\* makes it true of the view it leads to.
LEMMA TrueForOthers ==
    ASSUME NEW n, NEW m, NEW ev, Follows(n, ev, m), NEW p, ev.pid # p, NEW v, TrueOf(n, p, v)
    PROVE  TrueOf(m, p, v)
  <1>1. \A i \in DOMAIN m.fds, fd \in Fds :
          (m.fds[i].key = <<p, fd>> /\ m.fds[i].value.endpoint # NoEndpoint)
          => v.sock[fd] = m.fds[i].value.endpoint
    <2> TAKE i \in DOMAIN m.fds, fd \in Fds
    <2>1. CASE m.fds[i].key = <<p, fd>>
      <3>1. ~Touches(ev, m.fds[i].key)
        BY <2>1 DEF Touches
      <3>2. \E j \in DOMAIN n.fds : m.fds[i] = n.fds[j]
        BY <3>1 DEF Follows, FdFrom, Learned
      <3> QED BY <3>2 DEF TrueOf
    <2> QED BY <2>1
  <1>2. \A i \in DOMAIN m.assocs, ssl \in Ssls, direction \in Directions :
          (m.assocs[i].key = <<p, ssl, direction>> /\ v.link[<<ssl, direction>>] # NoFd)
          => v.link[<<ssl, direction>>] = m.assocs[i].value.fd
    <2> TAKE i \in DOMAIN m.assocs, ssl \in Ssls, direction \in Directions
    <2>1. CASE m.assocs[i].key = <<p, ssl, direction>>
      <3>1. ~Relates(ev, m.assocs[i].key)
        BY <2>1 DEF Relates
      <3>2. \E j \in DOMAIN n.assocs : m.assocs[i] = n.assocs[j]
        BY <3>1 DEF Follows, AssocFrom
      <3> QED BY <3>2 DEF TrueOf
    <2> QED BY <2>1
  <1> QED BY <1>1, <1>2 DEF TrueOf

LEMMA TrueOfTheNext ==
    ASSUME NEW n, NEW m, NEW ev, IsEvent(ev), Follows(n, ev, m), NEW p, ev.pid = p,
           NEW v, NEW w, TrueOf(n, p, v), Leads(ev, v, w)
    PROVE  TrueOf(m, p, w)
  <1>1. \A i \in DOMAIN m.fds, fd \in Fds :
          (m.fds[i].key = <<p, fd>> /\ m.fds[i].value.endpoint # NoEndpoint)
          => w.sock[fd] = m.fds[i].value.endpoint
    <2> SUFFICES ASSUME NEW i \in DOMAIN m.fds, NEW fd \in Fds, m.fds[i].key = <<p, fd>>,
                        m.fds[i].value.endpoint # NoEndpoint
                 PROVE  w.sock[fd] = m.fds[i].value.endpoint
      OBVIOUS
    <2>1. ASSUME NEW j \in DOMAIN n.fds, m.fds[i] = n.fds[j], ~Touches(ev, m.fds[i].key)
          PROVE  w.sock[fd] = m.fds[i].value.endpoint
      <3>1. v.sock[fd] = m.fds[i].value.endpoint
        BY <2>1 DEF TrueOf
      <3> QED BY <2>1, <3>1 DEF Leads
    <2>2. ASSUME Touches(ev, <<p, fd>>), ev.kind = "connect",
                 m.fds[i].value.endpoint = ev.peer
          PROVE  w.sock[fd] = m.fds[i].value.endpoint
      <3>1. fd = ev.fd
        BY <2>2 DEF Touches
      <3> QED BY <2>2, <3>1 DEF Leads
    <2>3. ASSUME Touches(ev, <<p, fd>>), Duplicates(ev), NEW j \in DOMAIN n.fds,
                 n.fds[j].key = <<p, ev.oldfd>>,
                 n.fds[j].value.endpoint = m.fds[i].value.endpoint
          PROVE  w.sock[fd] = m.fds[i].value.endpoint
      <3>1. fd = ev.newfd /\ ev.oldfd \in Fds
        BY <2>3 DEF Touches, Duplicates
      <3>2. v.sock[ev.oldfd] = m.fds[i].value.endpoint
        BY <2>3, <3>1 DEF TrueOf
      <3> QED BY <2>3, <3>1, <3>2 DEF Leads
    <2>4. FdFrom(n, ev, m.fds[i])
      BY DEF Follows
    <2> QED BY <2>1, <2>2, <2>3, <2>4 DEF FdFrom, Learned
  <1>2. \A i \in DOMAIN m.assocs, ssl \in Ssls, direction \in Directions :
          (m.assocs[i].key = <<p, ssl, direction>> /\ w.link[<<ssl, direction>>] # NoFd)
          => w.link[<<ssl, direction>>] = m.assocs[i].value.fd
    <2> SUFFICES ASSUME NEW i \in DOMAIN m.assocs, NEW ssl \in Ssls, NEW direction \in Directions,
                        m.assocs[i].key = <<p, ssl, direction>>,
                        w.link[<<ssl, direction>>] # NoFd
                 PROVE  w.link[<<ssl, direction>>] = m.assocs[i].value.fd
      OBVIOUS
    <2> DEFINE l == <<ssl, direction>>
    <2>0. l \in Link
      BY DEF Link
    <2>1. Relates(ev, m.assocs[i].key) <=> ev.kind = "assoc" /\ l = <<ev.ssl, ev.direction>>
      BY DEF Relates
    <2>2. IF ev.kind = "assoc" /\ l = <<ev.ssl, ev.direction>>
          THEN w.link[l] = ev.fd ELSE w.link[l] = v.link[l]
      BY <2>0 DEF Leads
    <2>3. CASE Relates(ev, m.assocs[i].key)
      <3>1. m.assocs[i].value.fd = ev.fd
        BY <2>3 DEF Follows, AssocFrom
      <3> QED BY <2>1, <2>2, <2>3, <3>1
    <2>4. CASE ~Relates(ev, m.assocs[i].key)
      <3>1. PICK j \in DOMAIN n.assocs : m.assocs[i] = n.assocs[j]
        BY <2>4 DEF Follows, AssocFrom
      <3>2. w.link[l] = v.link[l] /\ v.link[l] # NoFd
        BY <2>1, <2>2, <2>4
      <3> QED BY <3>1, <3>2 DEF TrueOf
    <2> QED BY <2>3, <2>4
  <1> QED BY <1>1, <1>2 DEF TrueOf
-----------------------------------------------------------------------------
(* Chains of views.                                                        *)

Events(flt) == IsSeq(flt) /\ \A k \in DOMAIN flt : IsEvent(flt[k])

\* c[k] is a view of process p after the first k events that wait.
Chain(p, n, flt, c) ==
    /\ c \in [0 .. Len(flt) -> View]
    /\ TrueOf(n, p, c[0])
    /\ \A j, k \in 0 .. Len(flt) :
          j <= k /\ (\A i \in j + 1 .. k : flt[i].pid # p) => Grew(c[j], c[k])
    /\ \A k \in 1 .. Len(flt) : flt[k].pid = p => Leads(flt[k], c[k - 1], c[k])

\* The flight without the event at i.
Rest(flt, i, rest) ==
    /\ IsSeq(rest) /\ Len(rest) = Len(flt) - 1
    /\ \A k \in 1 .. Len(rest) : rest[k] = IF k < i THEN flt[k] ELSE flt[k + 1]

LEMMA RestOf ==
    ASSUME NEW flt, IsSeq(flt), NEW i \in DOMAIN flt
    PROVE  Rest(flt, i, SubSeq(flt, 1, i - 1) \o SubSeq(flt, i + 1, Len(flt)))
  <1> DEFINE S == Range(flt)
             L == Len(flt)
             a == SubSeq(flt, 1, i - 1)
             b == SubSeq(flt, i + 1, L)
             r == a \o b
  <1>1. flt \in Seq(S) /\ L \in Nat /\ i \in 1 .. L /\ DOMAIN flt = 1 .. L
    BY SeqFacts DEF IsSeq
  <1>2. /\ a \in Seq(S) /\ Len(a) = i - 1
        /\ \A k \in 1 .. i - 1 : a[k] = flt[k]
    BY <1>1
  <1>3. /\ b \in Seq(S) /\ Len(b) = L - i
        /\ \A k \in 1 .. L - i : b[k] = flt[i + k]
    BY <1>1
  <1> HIDE DEF a, b, L, S
  <1>4. r \in Seq(S) /\ Len(r) = L - 1
    <2>1. r \in Seq(S) /\ Len(r) = Len(a) + Len(b)
      BY <1>2, <1>3
    <2> HIDE DEF r
    <2> QED BY <1>1, <1>2, <1>3, <2>1
  <1>5. \A k \in 1 .. L - 1 : r[k] = IF k < i THEN a[k] ELSE b[k - (i - 1)]
    BY <1>1, <1>2, <1>3
  <1>6. \A k \in 1 .. L - 1 : r[k] = IF k < i THEN flt[k] ELSE flt[k + 1]
    <2> TAKE k \in 1 .. L - 1
    <2>1. CASE k < i
      BY <1>1, <1>2, <1>5, <2>1
    <2>2. CASE ~(k < i)
      <3>1. k - (i - 1) \in 1 .. L - i /\ i + (k - (i - 1)) = k + 1
        BY <1>1, <2>2
      <3> QED BY <1>3, <1>5, <2>2, <3>1
    <2> QED BY <2>1, <2>2
  <1> HIDE DEF r
  <1>7. IsSeq(r)
    <2>1. r = [k \in 1 .. L - 1 |-> r[k]] /\ L - 1 \in Nat
      BY <1>1, <1>4
    <2> QED BY <2>1, SeqByIndex
  <1> QED BY <1>4, <1>6, <1>7 DEF Rest, a, b, r, L

\* The process as it is may have grown since.
LEMMA ChainGrows ==
    ASSUME NEW p, NEW n, NEW flt, Events(flt), NEW c, Chain(p, n, flt, c),
           NEW w \in View, Grew(c[Len(flt)], w)
    PROVE  \E d : Chain(p, n, flt, d) /\ d[Len(flt)] = w
  <1> DEFINE L == Len(flt)
             d == [k \in 0 .. L |-> IF k = L THEN w ELSE c[k]]
  <1>1. L \in Nat /\ DOMAIN flt = 1 .. L
    BY SeqFacts DEF Events
  <1>2. d \in [0 .. L -> View]
    BY DEF Chain
  <1>3. \A k \in 0 .. L : (k = L => d[k] = w) /\ (k # L => d[k] = c[k])
    OBVIOUS
  <1> HIDE DEF d
  <1>4. \A k \in 0 .. L : Grew(c[k], d[k])
    BY <1>3, GrewItself
  <1>5. TrueOf(n, p, d[0])
    BY <1>1, <1>4, TrueGrows DEF Chain
  <1>6. \A j, k \in 0 .. L :
           j <= k /\ (\A i \in j + 1 .. k : flt[i].pid # p) => Grew(d[j], d[k])
    <2> SUFFICES ASSUME NEW j \in 0 .. L, NEW k \in 0 .. L, j <= k,
                        \A i \in j + 1 .. k : flt[i].pid # p
                 PROVE  Grew(d[j], d[k])
      OBVIOUS
    <2>1. Grew(c[j], c[k])
      BY DEF Chain
    <2>2. CASE j = L
      <3>1. k = L
        <4> HIDE DEF L
        <4> QED BY <1>1, <2>2
      <3> QED BY <2>2, <3>1, GrewItself
    <2>3. CASE j # L
      <3>1. d[j] = c[j] /\ Grew(c[k], d[k])
        BY <1>3, <1>4, <2>3
      <3> QED BY <2>1, <3>1, GrewOn
    <2> QED BY <2>2, <2>3
  <1>7. \A k \in 1 .. L : flt[k].pid = p => Leads(flt[k], d[k - 1], d[k])
    <2> SUFFICES ASSUME NEW k \in 1 .. L, flt[k].pid = p
                 PROVE  Leads(flt[k], d[k - 1], d[k])
      OBVIOUS
    <2>1. k - 1 \in 0 .. L /\ k \in 0 .. L /\ k - 1 # L
      BY <1>1
    <2>2. Leads(flt[k], c[k - 1], c[k]) /\ IsEvent(flt[k])
      BY <1>1 DEF Chain, Events
    <2>3. d[k - 1] = c[k - 1] /\ Grew(c[k], d[k])
      BY <1>3, <1>4, <2>1
    <2> QED BY <2>2, <2>3, LeadsOn
  <1>8. d[L] = w
    <2> HIDE DEF L
    <2> QED BY <1>1, <1>3
  <1>9. Chain(p, n, flt, d)
    BY <1>2, <1>5, <1>6, <1>7 DEF Chain
  <1> QED BY <1>8, <1>9

\* One more event waits.
LEMMA ChainAppends ==
    ASSUME NEW p, NEW n, NEW flt, Events(flt), NEW c, Chain(p, n, flt, c), NEW ev,
           NEW w \in View,
           IF ev.pid = p THEN Leads(ev, c[Len(flt)], w) ELSE Grew(c[Len(flt)], w)
    PROVE  \E d : Chain(p, n, Append(flt, ev), d) /\ d[Len(flt) + 1] = w
  <1> DEFINE L == Len(flt)
             all == Append(flt, ev)
             d == [k \in 0 .. L + 1 |-> IF k = L + 1 THEN w ELSE c[k]]
  <1>1. L \in Nat /\ DOMAIN flt = 1 .. L
    BY SeqFacts DEF Events
  <1>2. Len(all) = L + 1 /\ (\A k \in 1 .. L : all[k] = flt[k]) /\ all[L + 1] = ev
    BY <1>1, AppendFacts DEF Events
  <1> HIDE DEF all
  <1>3. d \in [0 .. L + 1 -> View]
    <2>1. \A k \in 0 .. L + 1 : k # L + 1 => c[k] \in View
      BY <1>1 DEF Chain
    <2> QED BY <2>1
  <1>4. (\A k \in 0 .. L : d[k] = c[k]) /\ d[L + 1] = w
    BY <1>1
  <1> HIDE DEF d
  <1>5. TrueOf(n, p, d[0])
    BY <1>1, <1>4 DEF Chain
  <1>6. \A j, k \in 0 .. L + 1 :
           j <= k /\ (\A i \in j + 1 .. k : all[i].pid # p) => Grew(d[j], d[k])
    <2> SUFFICES ASSUME NEW j \in 0 .. L + 1, NEW k \in 0 .. L + 1, j <= k,
                        \A i \in j + 1 .. k : all[i].pid # p
                 PROVE  Grew(d[j], d[k])
      OBVIOUS
    <2>1. CASE j = k
      BY <2>1, GrewItself
    <2>2. CASE j # k /\ k # L + 1
      <3>1. j \in 0 .. L /\ k \in 0 .. L
        BY <1>1, <2>2
      <3>2. \A i \in j + 1 .. k : flt[i].pid # p
        BY <1>1, <1>2, <3>1
      <3> QED BY <1>4, <3>1, <3>2 DEF Chain
    <2>3. CASE j # k /\ k = L + 1
      <3>1. j \in 0 .. L /\ L \in 0 .. L /\ j <= L
        BY <1>1, <2>3
      <3>2. \A i \in j + 1 .. L : flt[i].pid # p
        <4> TAKE i \in j + 1 .. L
        <4>1. i \in j + 1 .. k /\ i \in 1 .. L
          BY <1>1, <2>3
        <4> QED BY <1>2, <4>1
      <3>3. Grew(c[j], c[L])
        BY <3>1, <3>2 DEF Chain
      <3>4. ev.pid # p
        <4>1. L + 1 \in j + 1 .. k
          BY <1>1, <2>3
        <4> QED BY <1>2, <4>1
      <3>5. Grew(c[L], w)
        BY <3>4
      <3> QED BY <1>4, <2>3, <3>1, <3>3, <3>5, GrewOn
    <2> QED BY <2>1, <2>2, <2>3
  <1>7. \A k \in 1 .. L + 1 : all[k].pid = p => Leads(all[k], d[k - 1], d[k])
    <2> SUFFICES ASSUME NEW k \in 1 .. L + 1, all[k].pid = p
                 PROVE  Leads(all[k], d[k - 1], d[k])
      OBVIOUS
    <2>1. CASE k # L + 1
      <3>1. k \in 1 .. L /\ k - 1 \in 0 .. L /\ k \in 0 .. L
        BY <1>1, <2>1
      <3>2. all[k] = flt[k] /\ d[k - 1] = c[k - 1] /\ d[k] = c[k]
        BY <1>2, <1>4, <3>1
      <3> QED BY <3>1, <3>2 DEF Chain
    <2>2. CASE k = L + 1
      <3>1. k - 1 = L /\ L \in 0 .. L
        BY <1>1, <2>2
      <3>2. all[k] = ev /\ d[k - 1] = c[L] /\ d[k] = w
        BY <1>2, <1>4, <2>2, <3>1
      <3> QED BY <3>2
    <2> QED BY <2>1, <2>2
  <1>8. Chain(p, n, all, d)
    BY <1>2, <1>3, <1>5, <1>6, <1>7 DEF Chain
  <1> QED BY <1>4, <1>8 DEF all

\* An event of another process is processed.
LEMMA ChainDrops ==
    ASSUME NEW p, NEW n, NEW flt, Events(flt), NEW c, Chain(p, n, flt, c),
           NEW i \in DOMAIN flt, flt[i].pid # p, NEW rest, Rest(flt, i, rest),
           NEW m, Follows(n, flt[i], m)
    PROVE  \E d : Chain(p, m, rest, d) /\ d[Len(rest)] = c[Len(flt)]
  <1> DEFINE L == Len(flt)
             R == Len(rest)
             at(k) == IF k < i - 1 THEN k ELSE k + 1
             d == [k \in 0 .. R |-> c[at(k)]]
  <1>1. L \in Nat /\ DOMAIN flt = 1 .. L /\ i \in 1 .. L /\ R = L - 1
    BY SeqFacts DEF Events, Rest
  <1> HIDE DEF L, R
  <1>2. \A k \in 0 .. R : at(k) \in 0 .. L
    BY <1>1
  <1>3. d \in [0 .. R -> View]
    BY <1>2 DEF Chain, L
  <1>4. \A k \in 0 .. R : d[k] = c[at(k)]
    OBVIOUS
  <1> HIDE DEF d
  <1>5. \A k \in 1 .. R : rest[k] = IF k < i THEN flt[k] ELSE flt[k + 1]
    BY DEF Rest, R
  <1>6. \A j, k \in 0 .. L :
           j <= k /\ (\A x \in j + 1 .. k : flt[x].pid # p) => Grew(c[j], c[k])
    BY DEF Chain, L
  <1>7. \A j, k \in 0 .. R :
           j <= k /\ (\A x \in j + 1 .. k : rest[x].pid # p) => Grew(d[j], d[k])
    <2> SUFFICES ASSUME NEW j \in 0 .. R, NEW k \in 0 .. R, j <= k,
                        \A x \in j + 1 .. k : rest[x].pid # p
                 PROVE  Grew(d[j], d[k])
      OBVIOUS
    <2>1. at(j) \in 0 .. L /\ at(k) \in 0 .. L /\ at(j) <= at(k)
      BY <1>1
    <2>2. \A x \in at(j) + 1 .. at(k) : flt[x].pid # p
      <3> TAKE x \in at(j) + 1 .. at(k)
      <3>1. CASE x < i
        <4>1. x \in j + 1 .. k /\ x \in 1 .. R
          BY <1>1, <3>1
        <4> QED BY <1>5, <3>1, <4>1
      <3>2. CASE x = i
        BY <3>2
      <3>3. CASE x > i
        <4>1. x - 1 \in j + 1 .. k /\ x - 1 \in 1 .. R /\ ~(x - 1 < i) /\ (x - 1) + 1 = x
          BY <1>1, <3>3
        <4>2. rest[x - 1] = flt[x]
          BY <1>5, <4>1
        <4> QED BY <4>1, <4>2
      <3> QED BY <1>1, <3>1, <3>2, <3>3
    <2> HIDE DEF at
    <2> QED BY <1>4, <1>6, <2>1, <2>2
  <1>8. Grew(c[i - 1], c[i])
    <2>1. i - 1 \in 0 .. L /\ i \in 0 .. L /\ i - 1 <= i
      BY <1>1
    <2>2. \A x \in (i - 1) + 1 .. i : flt[x].pid # p
      BY <1>1
    <2> QED BY <1>6, <2>1, <2>2
  <1>9. \A k \in 1 .. R : rest[k].pid = p => Leads(rest[k], d[k - 1], d[k])
    <2> SUFFICES ASSUME NEW k \in 1 .. R, rest[k].pid = p
                 PROVE  Leads(rest[k], d[k - 1], d[k])
      OBVIOUS
    <2>0. k \in 0 .. R /\ k - 1 \in 0 .. R /\ k \in 1 .. L /\ k + 1 \in 1 .. L
      BY <1>1
    <2>1. \A x \in 1 .. L : flt[x].pid = p => Leads(flt[x], c[x - 1], c[x]) /\ IsEvent(flt[x])
      BY <1>1 DEF Chain, Events, L
    <2>2. CASE k < i - 1
      <3>1. at(k) = k /\ at(k - 1) = k - 1 /\ k < i
        BY <1>1, <2>0, <2>2
      <3> HIDE DEF at
      <3> QED BY <1>4, <1>5, <2>0, <2>1, <3>1
    <2>3. CASE k = i - 1
      <3>1. at(k) = i /\ at(k - 1) = k - 1 /\ k < i
        BY <1>1, <2>0, <2>3
      <3> HIDE DEF at
      <3>2. rest[k] = flt[k] /\ d[k - 1] = c[k - 1] /\ d[k] = c[i]
        BY <1>4, <1>5, <2>0, <3>1
      <3>3. Leads(flt[k], c[k - 1], c[k]) /\ IsEvent(flt[k]) /\ Grew(c[k], c[i])
        BY <1>8, <2>0, <2>1, <2>3, <3>2
      <3> QED BY <3>2, <3>3, LeadsOn
    <2>4. CASE k >= i
      <3>1. at(k) = k + 1 /\ at(k - 1) = k /\ ~(k < i) /\ (k + 1) - 1 = k
        BY <1>1, <2>0, <2>4
      <3> HIDE DEF at
      <3>2. rest[k] = flt[k + 1] /\ d[k - 1] = c[k] /\ d[k] = c[k + 1]
        BY <1>4, <1>5, <2>0, <3>1
      <3>3. Leads(flt[k + 1], c[(k + 1) - 1], c[k + 1])
        BY <2>0, <2>1, <3>2
      <3> QED BY <3>1, <3>2, <3>3
    <2> QED BY <1>1, <2>2, <2>3, <2>4
  <1>10. TrueOf(m, p, d[0])
    <2>1. TrueOf(n, p, c[0])
      BY DEF Chain
    <2>2. 0 \in 0 .. R
      BY <1>1
    <2>3. CASE i = 1
      <3>1. at(0) = 1
        BY <2>3
      <3> HIDE DEF at
      <3>2. d[0] = c[1] /\ Grew(c[0], c[1])
        BY <1>4, <1>8, <2>2, <2>3, <3>1
      <3> QED BY <2>1, <3>2, TrueGrows, TrueForOthers
    <2>4. CASE i # 1
      <3>1. at(0) = 0
        BY <1>1, <2>4
      <3> HIDE DEF at
      <3>2. d[0] = c[0]
        BY <1>4, <2>2, <3>1
      <3> QED BY <2>1, <3>2, TrueForOthers
    <2> QED BY <2>3, <2>4
  <1>11. d[R] = c[L]
    <2>1. at(R) = L /\ R \in 0 .. R
      BY <1>1
    <2> HIDE DEF at
    <2> QED BY <1>4, <2>1
  <1>12. Chain(p, m, rest, d)
    BY <1>3, <1>7, <1>9, <1>10 DEF Chain, R
  <1> QED BY <1>11, <1>12 DEF L, R

\* The first event of the process is processed.
LEMMA ChainAdvances ==
    ASSUME NEW p, NEW n, NEW flt, Events(flt), NEW c, Chain(p, n, flt, c),
           NEW i \in DOMAIN flt, flt[i].pid = p, \A x \in 1 .. i - 1 : flt[x].pid # p,
           NEW rest, Rest(flt, i, rest), NEW m, Follows(n, flt[i], m)
    PROVE  \E d : Chain(p, m, rest, d) /\ d[Len(rest)] = c[Len(flt)]
  <1> DEFINE L == Len(flt)
             R == Len(rest)
             at(k) == IF k < i THEN i ELSE k + 1
             d == [k \in 0 .. R |-> c[at(k)]]
  <1>1. L \in Nat /\ DOMAIN flt = 1 .. L /\ i \in 1 .. L /\ R = L - 1
    BY SeqFacts DEF Events, Rest
  <1> HIDE DEF L, R
  <1>2. \A k \in 0 .. R : at(k) \in 0 .. L
    BY <1>1
  <1>3. d \in [0 .. R -> View]
    BY <1>2 DEF Chain, L
  <1>4. \A k \in 0 .. R : d[k] = c[at(k)]
    OBVIOUS
  <1> HIDE DEF d
  <1>5. \A k \in 1 .. R : rest[k] = IF k < i THEN flt[k] ELSE flt[k + 1]
    BY DEF Rest, R
  <1>6. \A j, k \in 0 .. L :
           j <= k /\ (\A x \in j + 1 .. k : flt[x].pid # p) => Grew(c[j], c[k])
    BY DEF Chain, L
  <1>7. \A j, k \in 0 .. R :
           j <= k /\ (\A x \in j + 1 .. k : rest[x].pid # p) => Grew(d[j], d[k])
    <2> SUFFICES ASSUME NEW j \in 0 .. R, NEW k \in 0 .. R, j <= k,
                        \A x \in j + 1 .. k : rest[x].pid # p
                 PROVE  Grew(d[j], d[k])
      OBVIOUS
    <2>1. at(j) \in 0 .. L /\ at(k) \in 0 .. L /\ at(j) <= at(k)
      BY <1>1
    <2>2. \A x \in at(j) + 1 .. at(k) : flt[x].pid # p
      <3> TAKE x \in at(j) + 1 .. at(k)
      <3>1. x - 1 \in j + 1 .. k /\ x - 1 \in 1 .. R /\ ~(x - 1 < i) /\ (x - 1) + 1 = x
        BY <1>1
      <3>2. rest[x - 1] = flt[x]
        BY <1>5, <3>1
      <3> QED BY <3>1, <3>2
    <2> HIDE DEF at
    <2> QED BY <1>4, <1>6, <2>1, <2>2
  <1>8. Leads(flt[i], c[i - 1], c[i]) /\ IsEvent(flt[i])
    BY <1>1 DEF Chain, Events, L
  <1>9. \A k \in 1 .. R : rest[k].pid = p => Leads(rest[k], d[k - 1], d[k])
    <2> SUFFICES ASSUME NEW k \in 1 .. R, rest[k].pid = p
                 PROVE  Leads(rest[k], d[k - 1], d[k])
      OBVIOUS
    <2>0. k \in 0 .. R /\ k - 1 \in 0 .. R /\ k \in 1 .. L /\ k + 1 \in 1 .. L
      BY <1>1
    <2>2. ~(k < i)
      <3> SUFFICES ASSUME k < i PROVE FALSE
        OBVIOUS
      <3>1. k \in 1 .. i - 1
        BY <1>1
      <3> QED BY <1>5, <3>1
    <2>3. at(k) = k + 1 /\ at(k - 1) = k /\ (k + 1) - 1 = k
      BY <1>1, <2>0, <2>2
    <2> HIDE DEF at
    <2>4. rest[k] = flt[k + 1] /\ d[k - 1] = c[k] /\ d[k] = c[k + 1]
      BY <1>4, <1>5, <2>0, <2>2, <2>3
    <2>5. Leads(flt[k + 1], c[(k + 1) - 1], c[k + 1])
      BY <2>0, <2>4 DEF Chain, L
    <2> QED BY <2>3, <2>4, <2>5
  <1>10. TrueOf(m, p, d[0])
    <2>1. Grew(c[0], c[i - 1])
      <3>1. 0 \in 0 .. L /\ i - 1 \in 0 .. L /\ 0 <= i - 1 /\ 0 + 1 = 1
        BY <1>1
      <3> QED BY <1>6, <3>1
    <2>2. TrueOf(n, p, c[i - 1])
      BY <2>1, TrueGrows DEF Chain
    <2>3. TrueOf(m, p, c[i])
      BY <1>8, <2>2, TrueOfTheNext
    <2>4. at(0) = i /\ 0 \in 0 .. R
      BY <1>1
    <2> HIDE DEF at
    <2> QED BY <1>4, <2>3, <2>4
  <1>11. d[R] = c[L]
    <2>1. at(R) = L /\ R \in 0 .. R
      BY <1>1
    <2> HIDE DEF at
    <2> QED BY <1>4, <2>1
  <1>12. Chain(p, m, rest, d)
    BY <1>3, <1>7, <1>9, <1>10 DEF Chain, R
  <1> QED BY <1>11, <1>12 DEF L, R

\* What is true of the process just before its first event that waits.
LEMMA ChainTells ==
    ASSUME NEW p, NEW n, NEW flt, Events(flt), NEW c, Chain(p, n, flt, c),
           NEW i \in DOMAIN flt, flt[i].pid = p, \A x \in 1 .. i - 1 : flt[x].pid # p
    PROVE  TrueOf(n, p, c[i - 1]) /\ Leads(flt[i], c[i - 1], c[i]) /\ c[i - 1] \in View
  <1> DEFINE L == Len(flt)
  <1>1. L \in Nat /\ DOMAIN flt = 1 .. L /\ i \in 1 .. L
    BY SeqFacts DEF Events
  <1> HIDE DEF L
  <1>2. 0 \in 0 .. L /\ i - 1 \in 0 .. L /\ 0 <= i - 1 /\ 0 + 1 = 1
    BY <1>1
  <1>3. Grew(c[0], c[i - 1])
    BY <1>2 DEF Chain, L
  <1>4. TrueOf(n, p, c[i - 1])
    BY <1>3, TrueGrows DEF Chain
  <1> QED BY <1>1, <1>2, <1>4 DEF Chain, L
-----------------------------------------------------------------------------
(* The invariant.                                                          *)

\* What FullEndpointsAreReal excuses.
Excuses == {"lost", "overtaken", "linked unseen", "closed unseen", "pid reused",
            "connect failed"}
Clean(p) == taint[p] \cap Excuses = {}

\* A process: its sockets are among the n there are.
IsProcess(x, n) ==
    /\ x = [cwd |-> x.cwd, fds |-> x.fds]
    /\ DOMAIN x.fds \subseteq Fds
    /\ \A fd \in DOMAIN x.fds : x.fds[fd].kind = "socket" => x.fds[fd].id \in 1 .. n

Remote == Peers \cup {NoEndpoint}

HostShape ==
    /\ Live \subseteq born /\ born \subseteq Pids
    /\ table = [p \in Live |-> table[p]]
    /\ links = [p \in Live |-> links[p]]
    /\ \A p \in Live : IsProcess(table[p], Len(peers)) /\ IsMap(links[p], Link, Fds)
    /\ peers \in Seq(Remote)

TaintOK == taint = [p \in Pids |-> taint[p]]

FlightOK == Events(flight) /\ \A k \in DOMAIN flight : flight[k].pid \in born

ViewOf(p) == ViewIn(table[p].fds, peers, links[p])

\* A chain leads from what is known of process p to w, if the process lives.
Tracked(p, n, flt, live, w) ==
    \E c : Chain(p, n, flt, c) /\ (live => c[Len(flt)] = w)

\* Of a process that has begun there is a chain, unless its history excuses what
\* is known; of others nothing is known.
ChainsOK ==
    \A p \in Pids :
        IF p \in born
        THEN Clean(p) => Tracked(p, net, flight, p \in Live, ViewOf(p))
        ELSE \A v \in View : TrueOf(net, p, v)

LastOK == last.kind = "fragment" => last.pid \in Pids

EndpointInv ==
    /\ HostShape
    /\ TaintOK
    /\ FlightOK
    /\ Tidy(net, EndpointCapacity)
    /\ ChainsOK
    /\ LastOK
    /\ FullEndpointsAreReal

LEMMA TrackedGrows ==
    ASSUME NEW p, NEW n, NEW flt, Events(flt), NEW live \in BOOLEAN, NEW w,
           Tracked(p, n, flt, live, w), NEW live2 \in BOOLEAN, live2 => live,
           NEW w2, live2 => w2 \in View /\ Grew(w, w2)
    PROVE  Tracked(p, n, flt, live2, w2)
  <1>1. PICK c : Chain(p, n, flt, c) /\ (live => c[Len(flt)] = w)
    BY DEF Tracked
  <1>2. CASE live2
    <2>1. \E d : Chain(p, n, flt, d) /\ d[Len(flt)] = w2
      BY <1>1, <1>2, ChainGrows
    <2> QED BY <2>1 DEF Tracked
  <1>3. CASE ~live2
    BY <1>1, <1>3 DEF Tracked
  <1> QED BY <1>2, <1>3

LEMMA TrackedEmits ==
    ASSUME NEW p, NEW n, NEW flt, Events(flt), NEW live \in BOOLEAN, NEW w,
           Tracked(p, n, flt, live, w), NEW live2 \in BOOLEAN, live2 => live,
           NEW ev, NEW w2,
           ev.pid = p => live /\ w2 \in View /\ Leads(ev, w, w2),
           ev.pid # p /\ live2 => w2 \in View /\ Grew(w, w2)
    PROVE  Tracked(p, n, Append(flt, ev), live2, w2)
  <1>1. PICK c : Chain(p, n, flt, c) /\ (live => c[Len(flt)] = w)
    BY DEF Tracked
  <1>2. Len(Append(flt, ev)) = Len(flt) + 1
    BY AppendFacts DEF Events
  <1>3. CASE ev.pid = p \/ live2
    <2>1. w2 \in View /\ IF ev.pid = p THEN Leads(ev, c[Len(flt)], w2)
                         ELSE Grew(c[Len(flt)], w2)
      BY <1>1, <1>3
    <2>2. \E d : Chain(p, n, Append(flt, ev), d) /\ d[Len(flt) + 1] = w2
      BY <1>1, <2>1, ChainAppends
    <2> QED BY <1>2, <2>2 DEF Tracked
  <1>4. CASE ev.pid # p /\ ~live2
    <2>1. PICK u \in View : u = c[Len(flt)]
      <3>1. Len(flt) \in 0 .. Len(flt)
        BY SeqFacts DEF Events
      <3> QED BY <1>1, <3>1 DEF Chain
    <2>2. IF ev.pid = p THEN Leads(ev, c[Len(flt)], u) ELSE Grew(c[Len(flt)], u)
      BY <1>4, <2>1, GrewItself
    <2>3. \E d : Chain(p, n, Append(flt, ev), d) /\ d[Len(flt) + 1] = u
      BY <1>1, <2>2, ChainAppends
    <2> QED BY <1>4, <2>3 DEF Tracked
  <1> QED BY <1>3, <1>4

\* A process nothing is known of, and no event of which waits.
LEMMA TrackedBegins ==
    ASSUME NEW p, NEW n, \A v \in View : TrueOf(n, p, v),
           NEW flt, IsSeq(flt), \A k \in DOMAIN flt : flt[k].pid # p,
           NEW live \in BOOLEAN, NEW w \in View
    PROVE  Tracked(p, n, flt, live, w)
  <1> DEFINE L == Len(flt)
             c == [k \in 0 .. L |-> w]
  <1>1. L \in Nat /\ DOMAIN flt = 1 .. L
    BY SeqFacts
  <1>2. c \in [0 .. L -> View] /\ \A k \in 0 .. L : c[k] = w
    OBVIOUS
  <1> HIDE DEF c
  <1>3. c[0] = w /\ c[L] = w
    <2> HIDE DEF L
    <2> QED BY <1>1, <1>2
  <1>4. Chain(p, n, flt, c)
    BY <1>1, <1>2, <1>3, GrewItself DEF Chain
  <1> QED BY <1>3, <1>4 DEF Tracked

LEMMA ViewType ==
    ASSUME NEW x, NEW remote \in Seq(Remote), NEW linked,
           IsProcess(x, Len(remote)), IsMap(linked, Link, Fds)
    PROVE  ViewIn(x.fds, remote, linked) \in View
  <1> DEFINE fds == x.fds
             sock == [fd \in Fds |-> IF fd \in DOMAIN fds /\ fds[fd].kind = "socket"
                                     THEN remote[fds[fd].id] ELSE NoEndpoint]
             link == [l \in Link |-> IF l \in DOMAIN linked THEN linked[l] ELSE NoFd]
  <1>1. \A fd \in DOMAIN fds : fds[fd].kind = "socket" => fds[fd].id \in DOMAIN remote
    BY DEF IsProcess
  <1>2. \A y \in DOMAIN remote : remote[y] \in Remote
    OBVIOUS
  <1>3. sock \in [Fds -> Remote]
    BY <1>1, <1>2 DEF Remote
  <1>4. \A l \in DOMAIN linked : linked[l] \in Fds
    BY DEF IsMap
  <1>5. link \in [Link -> Fds \cup {NoFd}]
    BY <1>4
  <1>6. ViewIn(x.fds, remote, linked) = [sock |-> sock, link |-> link]
    BY DEF ViewIn
  <1> HIDE DEF sock, link
  <1> QED BY <1>3, <1>5, <1>6 DEF View, Remote

LEMMA ViewNow ==
    ASSUME HostShape, NEW p \in Live
    PROVE  ViewOf(p) \in View
  BY ViewType DEF HostShape, ViewOf

LEMMA ViewLater ==
    ASSUME HostShape', NEW p \in Live'
    PROVE  ViewOf(p)' \in View
  BY ViewType DEF HostShape, ViewOf

\* A view, descriptor by descriptor.
LEMMA ViewFields ==
    ASSUME NEW fds, NEW remote, NEW linked
    PROVE  /\ \A fd \in Fds : ViewIn(fds, remote, linked).sock[fd]
                  = IF fd \in DOMAIN fds /\ fds[fd].kind = "socket"
                    THEN remote[fds[fd].id] ELSE NoEndpoint
           /\ \A l \in Link : ViewIn(fds, remote, linked).link[l]
                  = IF l \in DOMAIN linked THEN linked[l] ELSE NoFd
  BY DEF ViewIn
-----------------------------------------------------------------------------
(* Steps of the host.                                                      *)

\* What a step makes of the view of a process the daemon is not told of.
Unnoticed(p) == p \in Live /\ Grew(ViewOf(p), ViewOf(p)')

LEMMA CleanBefore ==
    ASSUME \A p \in Pids : taint[p] \subseteq taint'[p]
    PROVE  \A p \in Pids : Clean(p)' => Clean(p)
  BY DEF Clean

LEMMA StillReal ==
    ASSUME FullEndpointsAreReal, LastOK, last' = last,
           \A p \in Pids : taint[p] \subseteq taint'[p]
    PROVE  FullEndpointsAreReal' /\ LastOK'
  <1>1. LastOK'
    BY DEF LastOK
  <1>2. ASSUME last.kind = "fragment", last.told.endpoint # NoEndpoint,
               taint'[last.pid] \cap Excuses = {}
        PROVE  last.told.endpoint = last.real
    <2>1. taint[last.pid] \cap Excuses = {}
      BY <1>2 DEF LastOK
    <2> QED BY <1>2, <2>1 DEF FullEndpointsAreReal, Excuses
  <1> QED BY <1>1, <1>2 DEF FullEndpointsAreReal, Excuses

LEMMA QuietKeeps ==
    ASSUME EndpointInv, HostShape', TaintOK',
           flight' = flight, net' = net, last' = last,
           \A p \in Pids : taint[p] \subseteq taint'[p],
           born \subseteq born', born' \ born \subseteq Live',
           \A p \in Live' : Clean(p)' => p \notin born \/ Unnoticed(p)
    PROVE  EndpointInv'
  <1>1. FlightOK'
    BY DEF EndpointInv, FlightOK
  <1>2. Tidy(net, EndpointCapacity)'
    BY DEF EndpointInv, Tidy
  <1>3. FullEndpointsAreReal' /\ LastOK'
    BY StillReal DEF EndpointInv
  <1>4. ASSUME NEW p \in Pids, p \in born, Clean(p)'
        PROVE  Tracked(p, net, flight, p \in Live', ViewOf(p)')
    <2>1. Tracked(p, net, flight, p \in Live, ViewOf(p))
      BY <1>4, CleanBefore DEF EndpointInv, ChainsOK
    <2>2. p \in Live' => p \in Live /\ ViewOf(p)' \in View /\ Grew(ViewOf(p), ViewOf(p)')
      <3>1. p \in Live' => ViewOf(p)' \in View
        BY ViewLater
      <3> QED BY <1>4, <3>1 DEF Unnoticed
    <2>3. Events(flight)
      BY DEF EndpointInv, FlightOK
    <2> DEFINE live == p \in Live
               live2 == p \in Live'
               w == ViewOf(p)
               w2 == ViewOf(p)'
    <2>4. live \in BOOLEAN /\ live2 \in BOOLEAN /\ (live2 => live)
          /\ Tracked(p, net, flight, live, w)
          /\ (live2 => w2 \in View /\ Grew(w, w2))
      BY <2>1, <2>2
    <2> HIDE DEF live, live2, w, w2
    <2>5. Tracked(p, net, flight, live2, w2)
      BY <2>3, <2>4, TrackedGrows
    <2> QED BY <2>5 DEF live2, w2
  <1>5. ASSUME NEW p \in Pids, p \notin born, p \in born'
        PROVE  Tracked(p, net, flight, p \in Live', ViewOf(p)')
    <2>1. p \in Live' /\ ViewOf(p)' \in View
      <3>1. p \in Live' => ViewOf(p)' \in View
        BY ViewLater
      <3> QED BY <1>5, <3>1
    <2>2. \A v \in View : TrueOf(net, p, v)
      BY <1>5 DEF EndpointInv, ChainsOK
    <2>3. IsSeq(flight) /\ \A k \in DOMAIN flight : flight[k].pid # p
      BY <1>5 DEF EndpointInv, FlightOK, Events
    <2> DEFINE live2 == p \in Live'
               w2 == ViewOf(p)'
    <2>4. live2 \in BOOLEAN /\ w2 \in View
      BY <2>1
    <2> HIDE DEF live2, w2
    <2>5. Tracked(p, net, flight, live2, w2)
      BY <2>2, <2>3, <2>4, TrackedBegins
    <2> QED BY <2>5 DEF live2, w2
  <1>6. \A p \in Pids : p \notin born' => \A v \in View : TrueOf(net, p, v)
    BY DEF EndpointInv, ChainsOK
  <1>7. ChainsOK'
    BY <1>4, <1>5, <1>6 DEF ChainsOK
  <1> QED BY <1>1, <1>2, <1>3, <1>7 DEF EndpointInv

\* What an event tells of a process it is about, and of others.
Noticed(ev, p) ==
    IF p = ev.pid THEN p \in Live /\ Leads(ev, ViewOf(p), ViewOf(p)') ELSE Unnoticed(p)

LEMMA WaitingKeeps ==
    ASSUME EndpointInv, HostShape', TaintOK', NEW ev,
           flight' = Append(flight, ev), net' = net, last' = last,
           \A p \in Pids : taint[p] \subseteq taint'[p],
           born \subseteq born', born' \ born \subseteq Live',
           IsEvent(ev), ev.pid \in Live,
           ev.pid \notin Live' => Leads(ev, ViewOf(ev.pid), ViewOf(ev.pid)),
           \A p \in Live' : Clean(p)' => p \notin born \/ Noticed(ev, p)
    PROVE  EndpointInv'
  <1>0. Events(flight) /\ IsSeq(flight) /\ ev.pid \in born
    BY DEF EndpointInv, FlightOK, Events, HostShape
  <1>1. FlightOK'
    <2> DEFINE all == Append(flight, ev)
    <2>1. /\ IsSeq(all) /\ DOMAIN all = 1 .. Len(flight) + 1
          /\ \A k \in DOMAIN flight : all[k] = flight[k]
          /\ all[Len(flight) + 1] = ev
          /\ Len(flight) \in Nat /\ DOMAIN flight = 1 .. Len(flight)
      BY <1>0, AppendFacts, SeqFacts
    <2> HIDE DEF all
    <2>2. \A k \in DOMAIN all : IsEvent(all[k]) /\ all[k].pid \in born'
      <3> TAKE k \in DOMAIN all
      <3>1. CASE k \in DOMAIN flight
        BY <2>1, <3>1 DEF EndpointInv, FlightOK, Events
      <3>2. CASE k = Len(flight) + 1
        BY <1>0, <2>1, <3>2
      <3> QED BY <2>1, <3>1, <3>2
    <2>3. flight' = all
      BY DEF all
    <2> QED BY <2>1, <2>2, <2>3 DEF FlightOK, Events
  <1>2. Tidy(net, EndpointCapacity)'
    BY DEF EndpointInv, Tidy
  <1>3. FullEndpointsAreReal' /\ LastOK'
    BY StillReal DEF EndpointInv
  <1>4. ASSUME NEW p \in Pids, p \in born, Clean(p)'
        PROVE  Tracked(p, net, Append(flight, ev), p \in Live', ViewOf(p)')
    <2>1. Tracked(p, net, flight, p \in Live, ViewOf(p))
      BY <1>4, CleanBefore DEF EndpointInv, ChainsOK
    <2> DEFINE live == p \in Live
               live2 == p \in Live'
               w == ViewOf(p)
               w2 == IF live2 THEN ViewOf(p)' ELSE ViewOf(p)
    <2>2. live2 => live /\ w2 \in View
      BY <1>4, ViewLater DEF Noticed, Unnoticed
    <2>3. ev.pid = p => live /\ w2 \in View /\ Leads(ev, w, w2)
      <3>1. ev.pid = p => live /\ w \in View
        BY ViewNow DEF EndpointInv
      <3>2. ev.pid = p /\ live2 => Leads(ev, w, w2)
        BY <1>4 DEF Noticed
      <3>3. ev.pid = p /\ ~live2 => Leads(ev, w, w2) /\ w2 = w
        OBVIOUS
      <3> QED BY <2>2, <3>1, <3>2, <3>3
    <2>4. ev.pid # p /\ live2 => w2 \in View /\ Grew(w, w2)
      BY <1>4, <2>2 DEF Noticed, Unnoticed
    <2>5. live \in BOOLEAN /\ live2 \in BOOLEAN /\ Tracked(p, net, flight, live, w)
      BY <2>1
    <2>6. live2 => w2 = ViewOf(p)'
      OBVIOUS
    <2> HIDE DEF live, live2, w, w2
    <2>7. Tracked(p, net, Append(flight, ev), live2, w2)
      BY <1>0, <2>2, <2>3, <2>4, <2>5, TrackedEmits
    <2>8. Tracked(p, net, Append(flight, ev), live2, ViewOf(p)')
      BY <2>6, <2>7 DEF Tracked
    <2> QED BY <2>8 DEF live2
  <1>5. ASSUME NEW p \in Pids, p \notin born, p \in born'
        PROVE  Tracked(p, net, Append(flight, ev), p \in Live', ViewOf(p)')
    <2>1. p \in Live' /\ ViewOf(p)' \in View
      BY <1>5, ViewLater
    <2>2. \A v \in View : TrueOf(net, p, v)
      BY <1>5 DEF EndpointInv, ChainsOK
    <2>3. IsSeq(flight') /\ \A k \in DOMAIN flight' : flight'[k].pid # p
      <3>1. IsSeq(flight')
        BY <1>1 DEF FlightOK, Events
      <3>2. DOMAIN flight' = 1 .. Len(flight) + 1 /\ flight'[Len(flight) + 1] = ev
            /\ (\A k \in DOMAIN flight : flight'[k] = flight[k])
            /\ Len(flight) \in Nat /\ DOMAIN flight = 1 .. Len(flight)
        BY <1>0, AppendFacts, SeqFacts
      <3>3. \A k \in DOMAIN flight : flight[k].pid # p
        BY <1>5 DEF EndpointInv, FlightOK
      <3> QED BY <1>0, <1>5, <3>1, <3>2, <3>3
    <2> DEFINE live2 == p \in Live'
               w2 == ViewOf(p)'
               all == flight'
    <2>4. live2 \in BOOLEAN /\ w2 \in View
      BY <2>1
    <2>5. IsSeq(all) /\ (\A k \in DOMAIN all : all[k].pid # p) /\ all = Append(flight, ev)
      BY <2>3
    <2> HIDE DEF live2, w2, all
    <2>6. Tracked(p, net, all, live2, w2)
      BY <2>2, <2>4, <2>5, TrackedBegins
    <2> QED BY <2>5, <2>6 DEF live2, w2
  <1>6. \A p \in Pids : p \notin born' => \A v \in View : TrueOf(net, p, v)
    BY DEF EndpointInv, ChainsOK
  <1>7. ChainsOK'
    BY <1>4, <1>5, <1>6 DEF ChainsOK
  <1> QED BY <1>1, <1>2, <1>3, <1>7 DEF EndpointInv

\* A call is reported, or its event is lost.
LEMMA EmittedKeeps ==
    ASSUME EndpointInv, HostShape', NEW ev, NEW more, more = [p \in Pids |-> more[p]],
           Emitted(ev, more), net' = net, last' = last,
           \A p \in Pids : taint[p] \subseteq more[p],
           born \subseteq born', born' \ born \subseteq Live',
           Stamped(ev).pid = ev.pid, IsEvent(Stamped(ev)), ev.pid \in Live,
           ev.pid \notin Live' => Leads(Stamped(ev), ViewOf(ev.pid), ViewOf(ev.pid)),
           \A p \in Live' : more[p] \cap Excuses = {} => p \notin born \/ Noticed(Stamped(ev), p)
    PROVE  EndpointInv' /\ TaintOK'
  <1>1. CASE flight' = Append(flight, Stamped(ev)) /\ taint' = more
    <2>1. TaintOK'
      BY <1>1 DEF TaintOK
    <2>2. \A p \in Pids : taint[p] \subseteq taint'[p]
      BY <1>1
    <2>3. \A p \in Live' : Clean(p)' => p \notin born \/ Noticed(Stamped(ev), p)
      BY <1>1 DEF Clean
    <2> DEFINE e == Stamped(ev)
    <2>4. /\ IsEvent(e) /\ e.pid \in Live /\ flight' = Append(flight, e)
          /\ (e.pid \notin Live' => Leads(e, ViewOf(e.pid), ViewOf(e.pid)))
          /\ \A p \in Live' : Clean(p)' => p \notin born \/ Noticed(e, p)
      BY <1>1, <2>3
    <2> HIDE DEF e
    <2> QED BY <2>1, <2>2, <2>4, WaitingKeeps
  <1>2. CASE /\ flight' = flight
             /\ taint' = [p \in Pids |->
                             IF p = ev.pid \/ (ev.kind = "fork" /\ p = ev.child)
                             THEN more[p] \cup {"lost"} ELSE more[p]]
    <2>1. TaintOK'
      <3> DEFINE f == [p \in Pids |->
                          IF p = ev.pid \/ (ev.kind = "fork" /\ p = ev.child)
                          THEN more[p] \cup {"lost"} ELSE more[p]]
      <3>1. f = [p \in Pids |-> f[p]]
        OBVIOUS
      <3> HIDE DEF f
      <3>2. taint' = f
        BY <1>2 DEF f
      <3> QED BY <3>1, <3>2 DEF TaintOK
    <2>2. \A p \in Pids : taint[p] \subseteq taint'[p] /\ more[p] \subseteq taint'[p]
      BY <1>2
    <2>3. Live' \subseteq Pids /\ ev.pid \in Pids
      BY DEF HostShape, EndpointInv
    <2>4. \A p \in Live' : Clean(p)' => p # ev.pid /\ more[p] \cap Excuses = {}
      <3> SUFFICES ASSUME NEW p \in Live', Clean(p)'
                   PROVE  p # ev.pid /\ more[p] \cap Excuses = {}
        OBVIOUS
      <3>1. p \in Pids /\ more[p] \subseteq taint'[p]
        BY <2>2, <2>3
      <3>2. more[p] \cap Excuses = {}
        BY <3>1 DEF Clean
      <3>3. p = ev.pid => "lost" \in taint'[p]
        BY <1>2, <3>1
      <3>4. p # ev.pid
        BY <3>3 DEF Clean, Excuses
      <3> QED BY <3>2, <3>4
    <2>5. \A p \in Live' : Clean(p)' => p \notin born \/ Unnoticed(p)
      BY <2>4 DEF Noticed
    <2> QED BY <1>2, <2>1, <2>2, <2>5, QuietKeeps
  <1> QED BY <1>1, <1>2 DEF Emitted

\* A history that has got longer.
Longer(more) == more = [p \in Pids |-> more[p]] /\ \A p \in Pids : taint[p] \subseteq more[p]

LEMMA TaintsLonger ==
    ASSUME NEW pids, NEW what
    PROVE  /\ Longer(Taints(pids, what))
           /\ \A p \in Pids : p \in pids => what \in Taints(pids, what)[p]
  BY DEF Longer, Taints

LEMMA SameLonger ==
    ASSUME TaintOK
    PROVE  Longer(taint)
  BY DEF Longer, TaintOK

LEMMA MoreLonger ==
    ASSUME TaintOK, NEW p, NEW set
    PROVE  Longer([taint EXCEPT ![p] = @ \cup set])
  <1> DEFINE more == [taint EXCEPT ![p] = @ \cup set]
  <1>1. \A q \in Pids : more[q] = IF q = p THEN taint[p] \cup set ELSE taint[q]
    BY DEF TaintOK
  <1>2. more = [q \in Pids |-> more[q]]
    BY DEF TaintOK
  <1> QED BY <1>1, <1>2 DEF Longer

LEMMA StampedFields ==
    ASSUME NEW ev, NEW x \in DOMAIN ev, x # "ts"
    PROVE  Stamped(ev)[x] = ev[x]
  BY DEF Stamped

\* Events that say nothing of descriptors and SSL objects.
Plain(ev) == ev.kind \in {"fork", "exec", "exit", "chdir", "unlink", "rename"}

LEMMA PlainLeads ==
    ASSUME NEW ev, Plain(ev) \/ ev.kind = "open", NEW v, NEW w, Grew(v, w)
    PROVE  Leads(ev, v, w)
  BY DEF Plain, Leads, Grew, Duplicates

LEMMA PlainIsEvent ==
    ASSUME NEW ev, Plain(ev), ev.pid \in Pids
    PROVE  IsEvent(ev)
  BY DEF Plain, IsEvent

LEMMA SameViews ==
    ASSUME table' = table, peers' = peers, links' = links
    PROVE  \A p : ViewOf(p)' = ViewOf(p)
  BY DEF ViewOf

\* One process's descriptors change, and there may be one socket more.
LEMMA DescriptorsSet ==
    ASSUME HostShape, NEW p \in Live, NEW F, table' = [table EXCEPT ![p].fds = F],
           DOMAIN F \subseteq Fds,
           \A fd \in DOMAIN F : F[fd].kind = "socket" => F[fd].id \in 1 .. Len(peers'),
           peers' \in Seq(Remote), Len(peers) <= Len(peers'),
           links' = links, born' = born
    PROVE  /\ HostShape' /\ Live' = Live
           /\ table'[p].fds = F
           /\ \A q \in Live : q # p => table'[q] = table[q]
  <1> DEFINE x == table[p]
             y == [x EXCEPT !.fds = F]
  <1>1. x = [cwd |-> x.cwd, fds |-> x.fds]
    BY DEF HostShape, IsProcess
  <1>2. y = [cwd |-> x.cwd, fds |-> F]
    BY <1>1
  <1>3. y = [cwd |-> y.cwd, fds |-> y.fds] /\ y.fds = F
    BY <1>2
  <1>4. table' = [table EXCEPT ![p] = y]
    OBVIOUS
  <1> HIDE DEF x, y
  <1>5. Live' = Live /\ table'[p] = y /\ \A q \in Live : q # p => table'[q] = table[q]
    <2>1. Live' = Live
      BY <1>4 DEF Live
    <2>2. table'[p] = y /\ \A q \in Live : q # p => table'[q] = table[q]
      BY <1>4 DEF Live
    <2> QED BY <2>1, <2>2
  <1>6. table' = [q \in Live |-> table'[q]]
    BY <1>4 DEF HostShape
  <1>7. \A q \in Live : IsProcess(table'[q], Len(peers'))
    <2> TAKE q \in Live
    <2>1. CASE q = p
      BY <1>3, <1>5, <2>1 DEF IsProcess
    <2>2. CASE q # p
      <3>1. IsProcess(table[q], Len(peers)) /\ table'[q] = table[q]
        BY <1>5, <2>2 DEF HostShape
      <3>2. Len(peers) \in Nat /\ Len(peers') \in Nat
        BY DEF HostShape
      <3>3. \A z : z \in 1 .. Len(peers) => z \in 1 .. Len(peers')
        BY <3>2
      <3> QED BY <3>1, <3>3 DEF IsProcess
    <2> QED BY <2>1, <2>2
  <1>8. HostShape'
    BY <1>5, <1>6, <1>7 DEF HostShape
  <1> QED BY <1>3, <1>5, <1>8

LEMMA ViewsStayKeeps ==
    ASSUME EndpointInv, HostShape', Live' = Live, born' = born, net' = net, last' = last,
           \A q \in Live : ViewOf(q)' = ViewOf(q),
           NEW ev, NEW more, Longer(more), Emitted(ev, more),
           Stamped(ev).pid = ev.pid, ev.pid \in Live, IsEvent(Stamped(ev)),
           Leads(Stamped(ev), ViewOf(ev.pid), ViewOf(ev.pid))
    PROVE  EndpointInv'
  <1> DEFINE e == Stamped(ev)
  <1>1. \A q \in Live' : Noticed(e, q)
    BY GrewItself DEF Noticed, Unnoticed
  <1>2. ev.pid \in Live'
    OBVIOUS
  <1>3. born \subseteq born' /\ born' \ born \subseteq Live'
    OBVIOUS
  <1>4. more = [p \in Pids |-> more[p]] /\ \A p \in Pids : taint[p] \subseteq more[p]
    BY DEF Longer
  <1> QED BY <1>1, <1>2, <1>3, <1>4, EmittedKeeps

LEMMA HostUnchanged ==
    ASSUME HostShape, table' = table, peers' = peers, links' = links, born' = born
    PROVE  HostShape' /\ Live' = Live /\ \A q \in Live : ViewOf(q)' = ViewOf(q)
  BY DEF HostShape, Live, ViewOf

LEMMA EndThreadKeeps ==
    ASSUME EndpointInv, NEW p \in Live, EndThread(p)
    PROVE  EndpointInv'
  <1> DEFINE ev == [kind |-> "exit", ring |-> "proc", pid |-> p]
             more == Taints({p}, "thread ended")
  <1>1. Emitted(ev, more) /\ UNCHANGED <<table, peers, links, born>>
    BY DEF EndThread
  <1>2. net' = net /\ last' = last
    BY DEF EndThread, Called
  <1>3. HostShape' /\ Live' = Live /\ \A q \in Live : ViewOf(q)' = ViewOf(q)
    BY <1>1, HostUnchanged DEF EndpointInv
  <1>4. Stamped(ev).pid = p /\ Stamped(ev).kind = "exit" /\ ev.pid = p
    BY StampedFields
  <1> HIDE DEF ev
  <1>5. Plain(Stamped(ev))
    BY <1>4 DEF Plain
  <1>6. p \in Pids
    BY DEF EndpointInv, HostShape
  <1>7. IsEvent(Stamped(ev))
    BY <1>4, <1>5, <1>6, PlainIsEvent
  <1>8. Leads(Stamped(ev), ViewOf(p), ViewOf(p))
    BY <1>5, PlainLeads, GrewItself
  <1>9. Longer(more)
    BY TaintsLonger
  <1> HIDE DEF more
  <1> QED BY <1>1, <1>2, <1>3, <1>4, <1>7, <1>8, <1>9, ViewsStayKeeps

LEMMA StartThreadKeeps ==
    ASSUME EndpointInv, NEW p \in Live, StartThread(p)
    PROVE  EndpointInv'
  <1>0. PICK task, thread : Emitted([kind |-> "fork", ring |-> "proc", pid |-> p,
                                     task |-> task, child |-> thread], taint)
    BY DEF StartThread
  <1> DEFINE ev == [kind |-> "fork", ring |-> "proc", pid |-> p, task |-> task,
                    child |-> thread]
  <1>1. Emitted(ev, taint) /\ UNCHANGED <<table, peers, links, born>>
    BY <1>0 DEF StartThread
  <1>2. net' = net /\ last' = last
    BY DEF StartThread, Called
  <1>3. HostShape' /\ Live' = Live /\ \A q \in Live : ViewOf(q)' = ViewOf(q)
    BY <1>1, HostUnchanged DEF EndpointInv
  <1>4. Stamped(ev).pid = p /\ Stamped(ev).kind = "fork" /\ ev.pid = p
    BY StampedFields
  <1> HIDE DEF ev
  <1>5. Plain(Stamped(ev))
    BY <1>4 DEF Plain
  <1>6. p \in Pids
    BY DEF EndpointInv, HostShape
  <1>7. IsEvent(Stamped(ev))
    BY <1>4, <1>5, <1>6, PlainIsEvent
  <1>8. Leads(Stamped(ev), ViewOf(p), ViewOf(p))
    BY <1>5, PlainLeads, GrewItself
  <1>9. Longer(taint)
    BY SameLonger DEF EndpointInv
  <1> QED BY <1>1, <1>2, <1>3, <1>4, <1>7, <1>8, <1>9, ViewsStayKeeps

LEMMA UnlinkKeeps ==
    ASSUME EndpointInv, NEW p \in Live, Unlink(p)
    PROVE  EndpointInv'
  <1>0. PICK raw \in usable.paths : Emitted(
           [kind |-> "unlink", ring |-> "fs", pid |-> p, dirfd |-> AtCwd, raw |-> raw,
            real |-> <<{Named(p, raw), LeadsTo(Named(p, raw))}>>, before |-> files.changes,
            after |-> files'.changes],
           [taint EXCEPT ![p] = @ \cup Led(p, AtCwd, raw, Named(p, raw))])
    BY DEF Unlink
  <1> DEFINE ev == [kind |-> "unlink", ring |-> "fs", pid |-> p, dirfd |-> AtCwd, raw |-> raw,
                    real |-> <<{Named(p, raw), LeadsTo(Named(p, raw))}>>,
                    before |-> files.changes, after |-> files'.changes]
             more == [taint EXCEPT ![p] = @ \cup Led(p, AtCwd, raw, Named(p, raw))]
  <1>1. Emitted(ev, more) /\ UNCHANGED <<table, peers, links, born>>
    BY <1>0 DEF Unlink
  <1>2. net' = net /\ last' = last
    BY DEF Unlink, Called
  <1>3. HostShape' /\ Live' = Live /\ \A q \in Live : ViewOf(q)' = ViewOf(q)
    BY <1>1, HostUnchanged DEF EndpointInv
  <1>4. Stamped(ev).pid = p /\ Stamped(ev).kind = "unlink" /\ ev.pid = p
    BY StampedFields
  <1> HIDE DEF ev
  <1>5. Plain(Stamped(ev))
    BY <1>4 DEF Plain
  <1>6. p \in Pids
    BY DEF EndpointInv, HostShape
  <1>7. IsEvent(Stamped(ev))
    BY <1>4, <1>5, <1>6, PlainIsEvent
  <1>8. Leads(Stamped(ev), ViewOf(p), ViewOf(p))
    BY <1>5, PlainLeads, GrewItself
  <1>9. Longer(more)
    BY MoreLonger DEF EndpointInv
  <1> HIDE DEF more
  <1> QED BY <1>1, <1>2, <1>3, <1>4, <1>7, <1>8, <1>9, ViewsStayKeeps

LEMMA RenameEmits ==
    ASSUME NEW p, Rename(p)
    PROVE  \E raw, to, real, more :
              /\ Emitted([kind |-> "rename", ring |-> "fs", pid |-> p, dirfd |-> AtCwd,
                          raw |-> raw, to |-> to, before |-> files.changes,
                          after |-> files'.changes, real |-> real], more)
              /\ Longer(more)
  <1>1. PICK raw \in usable.paths, to \in usable.paths :
          LET old == Named(p, raw)
              new == Named(p, to)
              done == /\ Exists(files, old) /\ ~Exists(files, new)
                      /\ Exists(files, Front(new)) /\ ~IsPrefix(old, new)
              ups == Led(p, AtCwd, raw, old) \cup Led(p, AtCwd, to, new)
          IN  Emitted([kind |-> "rename", ring |-> "fs", pid |-> p, dirfd |-> AtCwd,
                       raw |-> raw, to |-> to, before |-> files.changes,
                       after |-> files'.changes,
                       real |-> <<{old, LeadsTo(old)},
                                  {new} \cup IF done THEN {LeadsTo(old)} ELSE {LeadsTo(new)}>>],
                      [q \in Pids |-> taint[q]
                          \cup (IF q = p THEN ups ELSE {})
                          \cup (IF q \in Live /\ \E n \in InUse(q) : places'[n] # places[n]
                                THEN {"directory moved"} ELSE {})])
    BY Zenon DEF Rename
  <1> DEFINE old == Named(p, raw)
             new == Named(p, to)
             done == /\ Exists(files, old) /\ ~Exists(files, new)
                     /\ Exists(files, Front(new)) /\ ~IsPrefix(old, new)
             ups == Led(p, AtCwd, raw, old) \cup Led(p, AtCwd, to, new)
             moved(q) == q \in Live /\ \E n \in InUse(q) : places'[n] # places[n]
             real == <<{old, LeadsTo(old)},
                       {new} \cup IF done THEN {LeadsTo(old)} ELSE {LeadsTo(new)}>>
             more == [q \in Pids |-> taint[q] \cup (IF q = p THEN ups ELSE {})
                         \cup (IF moved(q) THEN {"directory moved"} ELSE {})]
  <1>2. Emitted([kind |-> "rename", ring |-> "fs", pid |-> p, dirfd |-> AtCwd,
                 raw |-> raw, to |-> to, before |-> files.changes,
                 after |-> files'.changes, real |-> real], more)
    BY <1>1
  <1> HIDE DEF ups, moved, real
  <1>3. Longer(more)
    BY DEF Longer
  <1> QED BY <1>2, <1>3

LEMMA RenameKeeps ==
    ASSUME EndpointInv, NEW p \in Live, Rename(p)
    PROVE  EndpointInv'
  <1>0. PICK raw, to, real, more :
           /\ Emitted([kind |-> "rename", ring |-> "fs", pid |-> p, dirfd |-> AtCwd,
                       raw |-> raw, to |-> to, before |-> files.changes,
                       after |-> files'.changes, real |-> real], more)
           /\ Longer(more)
    BY RenameEmits
  <1> DEFINE ev == [kind |-> "rename", ring |-> "fs", pid |-> p, dirfd |-> AtCwd,
                    raw |-> raw, to |-> to, before |-> files.changes,
                    after |-> files'.changes, real |-> real]
  <1>1. Emitted(ev, more) /\ UNCHANGED <<table, peers, links, born>>
    BY <1>0 DEF Rename
  <1>2. net' = net /\ last' = last
    BY DEF Rename, Called
  <1>3. HostShape' /\ Live' = Live /\ \A q \in Live : ViewOf(q)' = ViewOf(q)
    BY <1>1, HostUnchanged DEF EndpointInv
  <1>4. Stamped(ev).pid = p /\ Stamped(ev).kind = "rename" /\ ev.pid = p
    BY StampedFields
  <1> HIDE DEF ev
  <1>5. Plain(Stamped(ev))
    BY <1>4 DEF Plain
  <1>6. p \in Pids
    BY DEF EndpointInv, HostShape
  <1>7. IsEvent(Stamped(ev))
    BY <1>4, <1>5, <1>6, PlainIsEvent
  <1>8. Leads(Stamped(ev), ViewOf(p), ViewOf(p))
    BY <1>5, PlainLeads, GrewItself
  <1>9. Longer(more)
    BY <1>0
  <1> QED BY <1>1, <1>2, <1>3, <1>4, <1>7, <1>8, <1>9, ViewsStayKeeps

LEMMA ChdirKeeps ==
    ASSUME EndpointInv, NEW p \in Live, Chdir(p)
    PROVE  EndpointInv'
  <1>0. PICK dirfd, raw :
           LET real == Reached(p, dirfd, raw)
               ret == IF Exists(files, real) THEN 0 ELSE -1
           IN  /\ table' = IF ret = 0 THEN [table EXCEPT ![p].cwd = Len(places) + 1] ELSE table
               /\ Emitted([kind |-> "chdir", ring |-> "proc", pid |-> p, dirfd |-> dirfd,
                           raw |-> raw, ret |-> ret, real |-> <<{real}>>,
                           before |-> files.changes, after |-> files.changes],
                          [taint EXCEPT ![p] = @ \cup IF ret = 0 THEN Led(p, dirfd, raw, real)
                                                     ELSE {"chdir failed"}])
    BY DEF Chdir
  <1> DEFINE real == Reached(p, dirfd, raw)
             ret == IF Exists(files, real) THEN 0 ELSE -1
             place == Len(places) + 1
             ev == [kind |-> "chdir", ring |-> "proc", pid |-> p, dirfd |-> dirfd,
                    raw |-> raw, ret |-> ret, real |-> <<{real}>>,
                    before |-> files.changes, after |-> files.changes]
             more == [taint EXCEPT ![p] = @ \cup IF ret = 0 THEN Led(p, dirfd, raw, real)
                                                ELSE {"chdir failed"}]
  <1>1. /\ Emitted(ev, more) /\ UNCHANGED <<peers, links, born>>
        /\ table' = IF ret = 0 THEN [table EXCEPT ![p].cwd = place] ELSE table
    BY <1>0 DEF Chdir
  <1>2. net' = net /\ last' = last
    BY DEF Chdir, Called
  <1>4. Stamped(ev).pid = p /\ Stamped(ev).kind = "chdir" /\ ev.pid = p
    BY StampedFields
  <1>9. Longer(more)
    BY MoreLonger DEF EndpointInv
  <1> HIDE DEF ev, ret, real, more, place
  <1>3. HostShape' /\ Live' = Live /\ \A q \in Live : ViewOf(q)' = ViewOf(q)
    <2>1. CASE table' = table
      BY <1>1, <2>1, HostUnchanged DEF EndpointInv
    <2>2. CASE table' = [table EXCEPT ![p].cwd = place]
      <3> DEFINE x == table[p]
                 y == [x EXCEPT !.cwd = place]
      <3>1. HostShape
        BY DEF EndpointInv
      <3>2. x = [cwd |-> x.cwd, fds |-> x.fds]
        BY <3>1 DEF HostShape, IsProcess
      <3>3. y = [cwd |-> place, fds |-> x.fds]
        BY <3>2
      <3>4. y = [cwd |-> y.cwd, fds |-> y.fds] /\ y.fds = x.fds
        BY <3>3
      <3>5. table' = [table EXCEPT ![p] = y]
        BY <2>2
      <3>6. IsProcess(y, Len(peers))
        <4>1. IsProcess(x, Len(peers))
          BY <3>1 DEF HostShape
        <4> HIDE DEF x, y
        <4> QED BY <3>4, <4>1 DEF IsProcess
      <3>7. y.fds = table[p].fds
        BY <3>4
      <3> HIDE DEF x, y
      <3>8. Live' = Live /\ table'[p] = y /\ \A q \in Live : q # p => table'[q] = table[q]
        BY <3>5 DEF Live
      <3>9. table' = [q \in Live |-> table'[q]]
        BY <3>1, <3>5 DEF HostShape
      <3>10. \A q \in Live : IsProcess(table'[q], Len(peers)) /\ table'[q].fds = table[q].fds
        BY <3>1, <3>6, <3>7, <3>8 DEF HostShape
      <3>11. HostShape'
        BY <1>1, <3>1, <3>8, <3>9, <3>10 DEF HostShape
      <3>12. \A q \in Live : ViewOf(q)' = ViewOf(q)
        BY <1>1, <3>10 DEF ViewOf
      <3> QED BY <3>8, <3>11, <3>12
    <2> QED BY <1>1, <2>1, <2>2
  <1>5. Plain(Stamped(ev))
    BY <1>4 DEF Plain
  <1>6. p \in Pids
    BY DEF EndpointInv, HostShape
  <1>7. IsEvent(Stamped(ev))
    BY <1>4, <1>5, <1>6, PlainIsEvent
  <1>8. Leads(Stamped(ev), ViewOf(p), ViewOf(p))
    BY <1>5, PlainLeads, GrewItself
  <1> QED BY <1>1, <1>2, <1>3, <1>4, <1>7, <1>8, <1>9, ViewsStayKeeps

LEMMA RelinkKeeps ==
    ASSUME EndpointInv, Relink
    PROVE  EndpointInv'
  <1>1. UNCHANGED <<table, peers, links, born, flight, taint>>
    BY DEF Relink
  <1>2. net' = net /\ last' = last
    BY DEF Relink, Called
  <1>3. HostShape' /\ Live' = Live /\ \A q \in Live : ViewOf(q)' = ViewOf(q)
    BY <1>1, HostUnchanged DEF EndpointInv
  <1>4. Longer(taint')
    BY <1>1, SameLonger DEF EndpointInv
  <1>5. TaintOK' /\ \A p \in Pids : taint[p] \subseteq taint'[p]
    BY <1>4 DEF Longer, TaintOK
  <1>6. \A p \in Live' : Unnoticed(p)
    BY <1>3, GrewItself DEF Unnoticed
  <1> QED BY <1>1, <1>2, <1>3, <1>5, <1>6, QuietKeeps

LEMMA FirstFreeWorks ==
    ASSUME HostShape, NEW p \in Live, Open(p) # Fds
    PROVE  FirstFree(p) \in Fds /\ FirstFree(p) \notin Open(p)
  <1> DEFINE free == Fds \ Open(p)
  <1>1. Open(p) \subseteq Fds /\ Fds \subseteq Nat
    BY HostAssumption DEF HostShape, IsProcess, Open
  <1>2. free \in SUBSET Nat /\ free # {}
    BY <1>1
  <1>3. \E fd \in free : \A other \in free : fd <= other
    BY <1>2, Least
  <1>4. FirstFree(p) \in free
    BY <1>3 DEF FirstFree
  <1> QED BY <1>4

LEMMA PutFacts ==
    ASSUME NEW m, NEW key, NEW value
    PROVE  /\ DOMAIN Put(m, key, value) = DOMAIN m \cup {key}
           /\ Put(m, key, value)[key] = value
           /\ \A x \in DOMAIN m : x # key => Put(m, key, value)[x] = m[x]
  BY DEF Put

LEMMA KeepFacts ==
    ASSUME NEW m, NEW keep
    PROVE  /\ DOMAIN Keep(m, keep) = DOMAIN m \cap keep
           /\ \A x \in DOMAIN m \cap keep : Keep(m, keep)[x] = m[x]
  BY DEF Keep

\* A process nothing happens to, while sockets it shares may get peers.
LEMMA PeersGrew ==
    ASSUME HostShape, NEW q \in Live, table'[q].fds = table[q].fds, links'[q] = links[q],
           \A id \in 1 .. Len(peers) : peers[id] # NoEndpoint => peers'[id] = peers[id]
    PROVE  Grew(ViewOf(q), ViewOf(q)')
  <1> DEFINE fds == table[q].fds
             v == ViewOf(q)
             w == ViewOf(q)'
  <1>1. \A fd \in DOMAIN fds : fds[fd].kind = "socket" => fds[fd].id \in 1 .. Len(peers)
    BY DEF HostShape, IsProcess
  <1>2. \A fd \in Fds : v.sock[fd] = IF fd \in DOMAIN fds /\ fds[fd].kind = "socket"
                                     THEN peers[fds[fd].id] ELSE NoEndpoint
    BY ViewFields DEF ViewOf
  <1>3. \A fd \in Fds : w.sock[fd] = IF fd \in DOMAIN fds /\ fds[fd].kind = "socket"
                                     THEN peers'[fds[fd].id] ELSE NoEndpoint
    BY ViewFields DEF ViewOf
  <1>4. \A l \in Link : w.link[l] = v.link[l]
    BY ViewFields DEF ViewOf
  <1> HIDE DEF v, w, fds
  <1>5. Grew(v, w)
    BY <1>1, <1>2, <1>3, <1>4 DEF Grew
  <1> QED BY <1>5 DEF v, w

LEMMA TransferKeeps ==
    ASSUME EndpointInv, NEW p \in Live, Transfer(p)
    PROVE  EndpointInv'
  <1>0. PICK l \in DOMAIN links[p] :
           /\ links[p][l] \in Open(p)
           /\ table[p].fds[links[p][l]].kind = "socket"
           /\ Emitted([kind |-> "fragment", ring |-> "tls", pid |-> p, ssl |-> l[1],
                       direction |-> l[2],
                       real |-> peers[table[p].fds[links[p][l]].id]], taint)
    BY ZenonT(40) DEF Transfer
  <1> DEFINE fd == links[p][l]
             peer == peers[table[p].fds[fd].id]
             ev == [kind |-> "fragment", ring |-> "tls", pid |-> p, ssl |-> l[1],
                    direction |-> l[2], real |-> peer]
             e == Stamped(ev)
             v == ViewOf(p)
  <1>1. Emitted(ev, taint) /\ UNCHANGED <<table, peers, links, born>>
    BY <1>0 DEF Transfer
  <1>2. net' = net /\ last' = last
    BY DEF Transfer, Called
  <1>3. HostShape' /\ Live' = Live /\ \A q \in Live : ViewOf(q)' = ViewOf(q)
    BY SMTT(30), <1>1, HostUnchanged DEF EndpointInv
  <1>4. e.pid = p /\ e.kind = "fragment" /\ ev.pid = p
        /\ e.ssl = l[1] /\ e.direction = l[2] /\ e.real = peer
    BY StampedFields
  <1>5. l \in Link /\ fd \in Fds /\ p \in Pids
    BY <1>0 DEF EndpointInv, HostShape, IsMap
  <1>6. l[1] \in Ssls /\ l[2] \in Directions /\ l = <<l[1], l[2]>>
    BY <1>5 DEF Link
  <1>7. v.link[l] = fd /\ v.sock[fd] = peer
    BY <1>0, <1>5, ViewFields DEF ViewOf, Open
  <1> HIDE DEF ev, e, fd, peer, v
  <1>8. IsEvent(e)
    BY <1>4, <1>5, <1>6 DEF IsEvent
  <1>9. Leads(e, v, v)
    <2>1. <<e.ssl, e.direction>> = l
      BY <1>4, <1>6
    <2>2. e.kind = "fragment" =>
             /\ v.link[<<e.ssl, e.direction>>] \in Fds
             /\ v.sock[v.link[<<e.ssl, e.direction>>]] = e.real
      BY <1>4, <1>5, <1>7, <2>1
    <2> QED BY <1>4, <2>2 DEF Leads, Duplicates
  <1>10. Longer(taint)
    BY SameLonger DEF EndpointInv
  <1>11. IsEvent(Stamped(ev)) /\ Stamped(ev).pid = ev.pid /\ ev.pid \in Live
         /\ Leads(Stamped(ev), ViewOf(ev.pid), ViewOf(ev.pid))
    BY <1>4, <1>8, <1>9 DEF e, v
  <1> QED BY SMTT(30), <1>1, <1>2, <1>3, <1>10, <1>11, ViewsStayKeeps

LEMMA ExecKeeps ==
    ASSUME EndpointInv, NEW p \in Live, Exec(p)
    PROVE  EndpointInv'
  <1>0. PICK closed :
           /\ table' = [table EXCEPT ![p].fds = Keep(@, Open(p) \ closed)]
           /\ Emitted([kind |-> "exec", ring |-> "proc", pid |-> p],
                      IF closed = {} THEN taint ELSE Taints({p}, "closed unseen"))
    BY DEF Exec
  <1> DEFINE F == Keep(table[p].fds, Open(p) \ closed)
             more == IF closed = {} THEN taint ELSE Taints({p}, "closed unseen")
             ev == [kind |-> "exec", ring |-> "proc", pid |-> p]
             e == Stamped(ev)
             lks == links'
  <1>1. /\ table' = [table EXCEPT ![p].fds = F]
        /\ links' = [links EXCEPT ![p] = EmptyMap]
        /\ UNCHANGED <<peers, born>> /\ Emitted(ev, more)
    BY <1>0 DEF Exec
  <1>2. net' = net /\ last' = last
    BY DEF Exec, Called
  <1>3. HostShape /\ TaintOK /\ p \in Pids
    BY DEF EndpointInv, HostShape
  <1>4. DOMAIN F = DOMAIN table[p].fds \cap (Open(p) \ closed)
        /\ \A x \in DOMAIN F : F[x] = table[p].fds[x]
    <2> DEFINE m == table[p].fds
               keep == Open(p) \ closed
    <2>1. F = Keep(m, keep)
      OBVIOUS
    <2> HIDE DEF F, m, keep
    <2>2. DOMAIN F = DOMAIN m \cap keep /\ \A x \in DOMAIN F : F[x] = m[x]
      BY <2>1, KeepFacts
    <2> QED BY <2>2 DEF m, keep
  <1>5. Longer(more) /\ (closed # {} => "closed unseen" \in more[p])
    BY <1>3, TaintsLonger, SameLonger
  <1>6. e.pid = p /\ e.kind = "exec" /\ ev.pid = p
    BY StampedFields
  <1> HIDE DEF F, more, ev, e
  <1>7. \A x \in DOMAIN F : x \in Fds /\ (F[x].kind = "socket" => F[x].id \in 1 .. Len(peers))
    BY <1>3, <1>4 DEF HostShape, IsProcess
  <1>8. /\ Live' = Live /\ table'[p].fds = F
        /\ \A q \in Live : q # p => table'[q] = table[q]
        /\ table' = [q \in Live |-> table'[q]]
        /\ \A q \in Live : IsProcess(table'[q], Len(peers))
    <2> DEFINE x == table[p]
               y == [x EXCEPT !.fds = F]
    <2>1. x = [cwd |-> x.cwd, fds |-> x.fds]
      BY <1>3 DEF HostShape, IsProcess
    <2>2. y = [cwd |-> x.cwd, fds |-> F]
      BY <2>1
    <2>3. y = [cwd |-> y.cwd, fds |-> y.fds] /\ y.fds = F
      BY <2>2
    <2>4. table' = [table EXCEPT ![p] = y]
      BY <1>1
    <2> HIDE DEF x, y
    <2>5. Live' = Live /\ table'[p] = y /\ \A q \in Live : q # p => table'[q] = table[q]
      BY <2>4 DEF Live
    <2>6. table' = [q \in Live |-> table'[q]]
      BY <1>3, <2>4 DEF HostShape
    <2>7. \A q \in Live : IsProcess(table'[q], Len(peers))
      BY <1>3, <1>7, <2>3, <2>5 DEF HostShape, IsProcess
    <2> QED BY <2>3, <2>5, <2>6, <2>7
  <1>9. /\ DOMAIN lks = Live /\ lks[p] = EmptyMap /\ lks = [q \in Live |-> lks[q]]
        /\ \A q \in Live : q # p => lks[q] = links[q]
    <2>1. links = [q \in Live |-> links[q]] /\ lks = [links EXCEPT ![p] = EmptyMap]
      BY <1>1, <1>3 DEF HostShape
    <2> HIDE DEF lks
    <2> QED BY <2>1
  <1>10. HostShape'
    <2>1. \A q \in Live : IsMap(lks[q], Link, Fds)
      <3> TAKE q \in Live
      <3>1. IsMap(EmptyMap, Link, Fds)
        BY DEF IsMap, EmptyMap
      <3> QED BY <1>3, <1>9, <3>1 DEF HostShape
    <2> QED BY <1>1, <1>3, <1>8, <1>9, <2>1 DEF HostShape
  <1>11. \A q \in Live : q # p => Grew(ViewOf(q), ViewOf(q)')
    BY <1>1, <1>3, <1>8, <1>9, PeersGrew
  <1>12. closed = {} => Grew(ViewOf(p), ViewOf(p)')
    <2> SUFFICES ASSUME closed = {} PROVE Grew(ViewOf(p), ViewOf(p)')
      OBVIOUS
    <2> DEFINE v == ViewOf(p)
               w == ViewOf(p)'
               fds == table[p].fds
    <2>1. \A fd \in Fds : v.sock[fd] = IF fd \in DOMAIN fds /\ fds[fd].kind = "socket"
                                       THEN peers[fds[fd].id] ELSE NoEndpoint
      BY ViewFields DEF ViewOf
    <2>2. \A fd \in Fds : w.sock[fd] = IF fd \in DOMAIN F /\ F[fd].kind = "socket"
                                       THEN peers[F[fd].id] ELSE NoEndpoint
      BY <1>1, <1>8, ViewFields DEF ViewOf
    <2>3. DOMAIN F = DOMAIN fds /\ \A fd \in DOMAIN F : F[fd] = fds[fd]
      BY <1>4 DEF Open
    <2>4. \A l \in Link : w.link[l] = NoFd
      <3>1. DOMAIN EmptyMap = {}
        BY DEF EmptyMap
      <3> QED BY <1>9, <3>1, ViewFields DEF ViewOf
    <2> HIDE DEF v, w, fds
    <2>5. Grew(v, w)
      BY <2>1, <2>2, <2>3, <2>4 DEF Grew
    <2> QED BY <2>5 DEF v, w
  <1>13. Plain(e) /\ IsEvent(e)
    BY <1>3, <1>6, PlainIsEvent DEF Plain
  <1>14. \A q \in Live' : more[q] \cap Excuses = {} => Noticed(e, q)
    <2> SUFFICES ASSUME NEW q \in Live, more[q] \cap Excuses = {}
                 PROVE  Noticed(e, q)
      BY <1>8
    <2>1. CASE q = p
      <3>1. closed = {}
        BY <1>5, <2>1 DEF Excuses
      <3> QED BY <1>6, <1>12, <1>13, <2>1, <3>1, PlainLeads DEF Noticed
    <2>2. CASE q # p
      BY <1>6, <1>11, <2>2 DEF Noticed, Unnoticed
    <2> QED BY <2>1, <2>2
  <1>15. born \subseteq born' /\ born' \ born \subseteq Live' /\ ev.pid \in Live /\ ev.pid \in Live'
    BY <1>1, <1>6, <1>8
  <1> QED BY <1>1, <1>2, <1>5, <1>6, <1>10, <1>13, <1>14, <1>15, EmittedKeeps DEF Longer, e

LEMMA WithoutFacts ==
    ASSUME NEW m, NEW key
    PROVE  /\ DOMAIN Without(m, key) = DOMAIN m \ {key}
           /\ \A x \in DOMAIN m : x # key => Without(m, key)[x] = m[x]
  BY DEF Without, Keep

LEMMA ExitKeeps ==
    ASSUME EndpointInv, NEW p \in Live, Exit(p)
    PROVE  EndpointInv'
  <1> DEFINE ev == [kind |-> "exit", ring |-> "proc", pid |-> p]
             e == Stamped(ev)
  <1>1. /\ Emitted(ev, taint) /\ UNCHANGED <<peers, born>>
        /\ table' = Without(table, p) /\ links' = Without(links, p)
    BY DEF Exit
  <1>2. net' = net /\ last' = last
    BY DEF Exit, Called
  <1>3. HostShape /\ TaintOK /\ p \in Pids
    BY DEF EndpointInv, HostShape
  <1>4. e.pid = p /\ e.kind = "exit" /\ ev.pid = p
    BY StampedFields
  <1> HIDE DEF ev, e
  <1>5. DOMAIN links = Live
    BY <1>3 DEF HostShape
  <1>6. /\ table' = [q \in Live \ {p} |-> table[q]]
        /\ links' = [q \in Live \ {p} |-> links[q]]
    <2>1. table' = [q \in Live \cap (Live \ {p}) |-> table[q]]
      BY <1>1 DEF Without, Keep, Live
    <2>2. links' = [q \in Live \cap (Live \ {p}) |-> links[q]]
      BY <1>1, <1>5 DEF Without, Keep
    <2>3. Live \cap (Live \ {p}) = Live \ {p}
      OBVIOUS
    <2> QED BY <2>1, <2>2, <2>3
  <1>7. Live' = Live \ {p}
    BY <1>6 DEF Live
  <1>7a. \A q \in Live' : table'[q] = table[q] /\ links'[q] = links[q] /\ q \in Live /\ q # p
    BY <1>6, <1>7
  <1>8. HostShape'
    <2>1. table' = [q \in Live' |-> table'[q]] /\ links' = [q \in Live' |-> links'[q]]
      BY <1>6, <1>7
    <2> QED BY <1>1, <1>3, <1>7, <1>7a, <2>1 DEF HostShape
  <1>9. \A q \in Live' : Unnoticed(q) /\ q # p
    BY <1>1, <1>7a, GrewItself DEF Unnoticed, ViewOf
  <1>10. Plain(e) /\ IsEvent(e)
    BY <1>3, <1>4, PlainIsEvent DEF Plain
  <1>11. Leads(e, ViewOf(p), ViewOf(p))
    BY <1>10, PlainLeads, GrewItself
  <1>12. \A q \in Live' : Noticed(e, q)
    BY <1>4, <1>9 DEF Noticed
  <1>13. Longer(taint)
    BY <1>3, SameLonger
  <1>14. born \subseteq born' /\ born' \ born \subseteq Live'
    BY <1>1
  <1> QED
    BY <1>1, <1>2, <1>4, <1>8, <1>10, <1>11, <1>12, <1>13, <1>14, EmittedKeeps DEF Longer, e

LEMMA ForkKeeps ==
    ASSUME EndpointInv, NEW p \in Live, Fork(p)
    PROVE  EndpointInv'
  <1>0. PICK task \in {p} \cup ThreadsOf(p), child \in Pids \ Live :
          /\ table' = Put(table, child, table[p])
          /\ links' = Put(links, child, links[p])
          /\ born' = born \cup {child}
          /\ Emitted([kind |-> "fork", ring |-> "proc", pid |-> p, task |-> task,
                      child |-> child],
                     [taint EXCEPT ![p] = @ \cup {"shares descriptors"},
                                   ![child] = @ \cup taint[p] \cup {"shares descriptors"}
                                       \cup (IF child \in born THEN {"pid reused"} ELSE {})
                                       \cup (IF task # p THEN {"forked by a thread"} ELSE {})])
    BY DEF Fork, Unused
  <1> DEFINE ev == [kind |-> "fork", ring |-> "proc", pid |-> p, task |-> task, child |-> child]
             e == Stamped(ev)
             more == [taint EXCEPT ![p] = @ \cup {"shares descriptors"},
                                   ![child] = @ \cup taint[p] \cup {"shares descriptors"}
                                       \cup (IF child \in born THEN {"pid reused"} ELSE {})
                                       \cup (IF task # p THEN {"forked by a thread"} ELSE {})]
  <1>1. Emitted(ev, more) /\ peers' = peers
    BY <1>0 DEF Fork
  <1>2. net' = net /\ last' = last
    BY DEF Fork, Called
  <1>3. HostShape /\ TaintOK /\ p \in Pids /\ child # p
    BY <1>0 DEF EndpointInv, HostShape
  <1>4. e.pid = p /\ e.kind = "fork" /\ ev.pid = p
    BY StampedFields
  <1>5. Longer(more) /\ (child \in born => "pid reused" \in more[child])
    <2> DEFINE a == taint[p] \cup {"shares descriptors"}
               b == taint[child] \cup taint[p] \cup {"shares descriptors"}
                       \cup (IF child \in born THEN {"pid reused"} ELSE {})
                       \cup (IF task # p THEN {"forked by a thread"} ELSE {})
    <2>1. more = [[taint EXCEPT ![p] = a] EXCEPT ![child] = b]
      BY <1>3 DEF TaintOK
    <2>2. taint[p] \subseteq a /\ taint[child] \subseteq b
          /\ (child \in born => "pid reused" \in b)
      OBVIOUS
    <2> HIDE DEF a, b, more
    <2>3. /\ more = [q \in Pids |-> more[q]]
          /\ \A q \in Pids : more[q] = IF q = child THEN b ELSE IF q = p THEN a ELSE taint[q]
      BY <1>3, <2>1 DEF TaintOK
    <2> QED BY <2>2, <2>3 DEF Longer
  <1> HIDE DEF ev, e, more
  <1>6. Live' = Live \cup {child}
    BY <1>0, PutFacts DEF Live
  <1>7. DOMAIN links = Live
    BY <1>3 DEF HostShape
  <1>8. /\ table'[child] = table[p] /\ links'[child] = links[p]
        /\ \A q \in Live : table'[q] = table[q] /\ links'[q] = links[q] /\ q # child
    <2>1. /\ table' = [q \in Live \cup {child} |-> IF q = child THEN table[p] ELSE table[q]]
          /\ links' = [q \in Live \cup {child} |-> IF q = child THEN links[p] ELSE links[q]]
      BY <1>0, <1>7 DEF Put, Live
    <2> QED BY <2>1
  <1>9. HostShape'
    <2>1. table' = [q \in Live' |-> table'[q]]
      BY <1>0, <1>6 DEF Put, Live
    <2>2. links' = [q \in Live' |-> links'[q]]
      BY <1>0, <1>6, <1>7 DEF Put
    <2>3. \A q \in Live' : IsProcess(table'[q], Len(peers)) /\ IsMap(links'[q], Link, Fds)
      BY <1>3, <1>6, <1>8 DEF HostShape
    <2> QED BY <1>0, <1>1, <1>3, <1>6, <2>1, <2>2, <2>3 DEF HostShape
  <1>10. \A q \in Live : Unnoticed(q) /\ ViewOf(q)' = ViewOf(q)
    BY <1>1, <1>8, GrewItself DEF Unnoticed, ViewOf
  <1>11. Plain(e) /\ IsEvent(e)
    BY <1>3, <1>4, PlainIsEvent DEF Plain
  <1>12. Leads(e, ViewOf(p), ViewOf(p))
    BY <1>11, PlainLeads, GrewItself
  <1>13. \A q \in Live' : more[q] \cap Excuses = {} => q \notin born \/ Noticed(e, q)
    <2> SUFFICES ASSUME NEW q \in Live', more[q] \cap Excuses = {}
                 PROVE  q \notin born \/ Noticed(e, q)
      OBVIOUS
    <2>1. CASE q = child
      BY <1>5, <2>1 DEF Excuses
    <2>2. CASE q \in Live
      BY <1>4, <1>10, <1>12, <2>2 DEF Noticed
    <2> QED BY <1>6, <2>1, <2>2
  <1>14. born \subseteq born' /\ born' \ born \subseteq Live' /\ p \in Live'
    BY <1>0, <1>6
  <1> QED
    BY <1>1, <1>2, <1>4, <1>5, <1>9, <1>11, <1>12, <1>13, <1>14, EmittedKeeps DEF Longer, e

\* A process gets a descriptor that was free, and there may be one socket more.
LEMMA NewDescriptor ==
    ASSUME HostShape, NEW p \in Live, NEW fd \in Fds, fd \notin Open(p), NEW file,
           table' = [table EXCEPT ![p].fds = Put(@, fd, file)],
           file.kind = "socket" => file.id \in 1 .. Len(peers'),
           peers' \in Seq(Remote), Len(peers) <= Len(peers'),
           \A id \in 1 .. Len(peers) : peers'[id] = peers[id],
           links' = links, born' = born
    PROVE  /\ HostShape' /\ Live' = Live
           /\ \A q \in Live : Grew(ViewOf(q), ViewOf(q)')
  <1> DEFINE fds == table[p].fds
             F == Put(fds, fd, file)
             v == ViewOf(p)
             w == ViewOf(p)'
  <1>1. table' = [table EXCEPT ![p].fds = F]
    OBVIOUS
  <1>2. /\ DOMAIN F = DOMAIN fds \cup {fd} /\ F[fd] = file
        /\ \A x \in DOMAIN fds : F[x] = fds[x] /\ x # fd
    <2>1. fd \notin DOMAIN fds
      BY DEF Open
    <2> HIDE DEF fds
    <2> QED BY <2>1 DEF Put
  <1>3. /\ DOMAIN fds \subseteq Fds
        /\ \A x \in DOMAIN fds : fds[x].kind = "socket" => fds[x].id \in 1 .. Len(peers)
    BY DEF HostShape, IsProcess
  <1>4. \A id : id \in 1 .. Len(peers) => id \in 1 .. Len(peers')
    BY DEF HostShape
  <1> HIDE DEF F, fds
  <1>5. DOMAIN F \subseteq Fds /\ \A x \in DOMAIN F : F[x].kind = "socket" => F[x].id \in 1 .. Len(peers')
    BY <1>2, <1>3, <1>4
  <1>6. HostShape' /\ Live' = Live /\ table'[p].fds = F
        /\ \A q \in Live : q # p => table'[q] = table[q]
    BY <1>1, <1>5, DescriptorsSet
  <1>7. \A q \in Live : q # p => Grew(ViewOf(q), ViewOf(q)')
    BY <1>6, PeersGrew
  <1>8. Grew(v, w)
    <2>1. \A x \in Fds : v.sock[x] = IF x \in DOMAIN fds /\ fds[x].kind = "socket"
                                     THEN peers[fds[x].id] ELSE NoEndpoint
      BY ViewFields DEF ViewOf, fds
    <2>2. \A x \in Fds : w.sock[x] = IF x \in DOMAIN F /\ F[x].kind = "socket"
                                     THEN peers'[F[x].id] ELSE NoEndpoint
      BY <1>6, ViewFields DEF ViewOf
    <2>3. \A l \in Link : w.link[l] = v.link[l]
      BY ViewFields DEF ViewOf
    <2> HIDE DEF v, w
    <2>4. \A x \in Fds : v.sock[x] # NoEndpoint => w.sock[x] = v.sock[x]
      <3> SUFFICES ASSUME NEW x \in Fds, v.sock[x] # NoEndpoint PROVE w.sock[x] = v.sock[x]
        OBVIOUS
      <3>1. x \in DOMAIN fds /\ fds[x].kind = "socket" /\ v.sock[x] = peers[fds[x].id]
        BY <2>1
      <3>2. F[x] = fds[x] /\ x \in DOMAIN F
        BY <1>2, <3>1
      <3> QED BY <1>3, <2>2, <3>1, <3>2
    <2> QED BY <2>3, <2>4 DEF Grew
  <1> QED BY <1>6, <1>7, <1>8 DEF v, w

\* Nothing but views that grow.
LEMMA QuietGrew ==
    ASSUME EndpointInv, HostShape', Live' = Live, Longer(taint'), flight' = flight,
           net' = net, last' = last, born' = born,
           \A q \in Live : Clean(q)' => Grew(ViewOf(q), ViewOf(q)')
    PROVE  EndpointInv'
  <1>1. TaintOK' /\ \A p \in Pids : taint[p] \subseteq taint'[p]
    BY DEF Longer, TaintOK
  <1>2. \A p \in Live' : Clean(p)' => Unnoticed(p)
    BY DEF Unnoticed
  <1> QED BY <1>1, <1>2, QuietKeeps

LEMMA NewSocketKeeps ==
    ASSUME EndpointInv, NEW p \in Live, NEW peer \in Remote, NewSocket(p, peer),
           Longer(taint'), net' = net, last' = last
    PROVE  EndpointInv'
  <1> DEFINE fd == FirstFree(p)
             file == [kind |-> "socket", id |-> Len(peers) + 1]
  <1>1. HostShape /\ peers \in Seq(Remote)
    BY DEF EndpointInv, HostShape
  <1>2. fd \in Fds /\ fd \notin Open(p)
    BY <1>1, FirstFreeWorks DEF NewSocket
  <1>3. table' = [table EXCEPT ![p].fds = Put(@, fd, file)]
        /\ peers' = Append(peers, peer) /\ UNCHANGED <<links, born, flight>>
    BY DEF NewSocket
  <1>4. /\ peers' \in Seq(Remote) /\ Len(peers') = Len(peers) + 1 /\ Len(peers) \in Nat
        /\ \A id \in 1 .. Len(peers) : peers'[id] = peers[id]
    BY <1>1, <1>3
  <1>5. Len(peers) <= Len(peers') /\ file.id \in 1 .. Len(peers')
    BY <1>4
  <1> HIDE DEF fd, file
  <1>6. HostShape' /\ Live' = Live /\ \A q \in Live : Grew(ViewOf(q), ViewOf(q)')
    BY <1>1, <1>2, <1>3, <1>4, <1>5, NewDescriptor
  <1> QED BY <1>3, <1>6, QuietGrew

LEMMA SocketKeeps ==
    ASSUME EndpointInv, NEW p \in Live, Socket(p)
    PROVE  EndpointInv'
  <1>1. Longer(taint') /\ net' = net /\ last' = last
    BY SameLonger DEF EndpointInv, Socket, Called
  <1>2. NoEndpoint \in Remote
    BY DEF Remote
  <1> QED BY <1>1, <1>2, NewSocketKeeps DEF Socket

LEMMA AcceptKeeps ==
    ASSUME EndpointInv, NEW p \in Live, Accept(p)
    PROVE  EndpointInv'
  <1>1. Longer(taint') /\ net' = net /\ last' = last
    BY TaintsLonger DEF Accept, Called
  <1>2. PICK peer \in Peers : NewSocket(p, peer)
    BY DEF Accept
  <1>3. peer \in Remote
    BY DEF Remote
  <1> QED BY <1>1, <1>2, <1>3, NewSocketKeeps

LEMMA OpenUnseenKeeps ==
    ASSUME EndpointInv, NEW p \in Live, OpenUnseen(p)
    PROVE  EndpointInv'
  <1> DEFINE fd == FirstFree(p)
  <1> DEFINE file == [kind |-> "file", place |-> Len(places) + 1]
  <1>1. HostShape /\ peers \in Seq(Remote) /\ Len(peers) <= Len(peers)
    BY DEF EndpointInv, HostShape
  <1>2. fd \in Fds /\ fd \notin Open(p)
    BY <1>1, FirstFreeWorks DEF OpenUnseen
  <1>3. table' = [table EXCEPT ![p].fds = Put(@, fd, file)] /\ file.kind # "socket"
    BY DEF OpenUnseen
  <1>4. UNCHANGED <<links, born, flight, net, last, peers>> /\ Longer(taint')
    BY TaintsLonger DEF OpenUnseen, Unseen, Called
  <1> HIDE DEF fd, file
  <1>5. HostShape' /\ Live' = Live /\ \A q \in Live : Grew(ViewOf(q), ViewOf(q)')
    BY <1>1, <1>2, <1>3, <1>4, NewDescriptor
  <1> QED BY <1>4, <1>5, QuietGrew

LEMMA OpenFileKeeps ==
    ASSUME EndpointInv, NEW p \in Live, OpenFile(p)
    PROVE  EndpointInv'
  <1>0. PICK dirfd, raw :
          LET real == Reached(p, dirfd, raw)
              ret == IF Exists(files, real) THEN FirstFree(p) ELSE -1
          IN  /\ table' = IF ret = -1 THEN table
                          ELSE [table EXCEPT ![p].fds =
                                   Put(@, ret, [kind |-> "file", place |-> Len(places) + 1])]
              /\ Emitted([kind |-> "open", ring |-> "fs", pid |-> p, dirfd |-> dirfd,
                          raw |-> raw, ret |-> ret, real |-> <<{real}>>,
                          before |-> files.changes, after |-> files.changes],
                         [taint EXCEPT ![p] = @ \cup Led(p, dirfd, raw, real)])
    BY DEF OpenFile
  <1> DEFINE real == Reached(p, dirfd, raw)
             ret == IF Exists(files, real) THEN FirstFree(p) ELSE -1
             file == [kind |-> "file", place |-> Len(places) + 1]
             ev == [kind |-> "open", ring |-> "fs", pid |-> p, dirfd |-> dirfd,
                    raw |-> raw, ret |-> ret, real |-> <<{real}>>,
                    before |-> files.changes, after |-> files.changes]
             e == Stamped(ev)
             more == [taint EXCEPT ![p] = @ \cup Led(p, dirfd, raw, real)]
  <1>1. /\ Emitted(ev, more) /\ UNCHANGED <<peers, links, born>>
        /\ table' = IF ret = -1 THEN table ELSE [table EXCEPT ![p].fds = Put(@, ret, file)]
    BY <1>0 DEF OpenFile
  <1>2. net' = net /\ last' = last
    BY DEF OpenFile, Called
  <1>3. HostShape /\ TaintOK /\ p \in Pids /\ peers \in Seq(Remote)
        /\ Len(peers) <= Len(peers)
    BY DEF EndpointInv, HostShape
  <1>4. FirstFree(p) \in Fds /\ FirstFree(p) \notin Open(p)
    BY <1>3, FirstFreeWorks DEF OpenFile
  <1>5. ret = -1 \/ (ret \in Fds /\ ret \notin Open(p))
    BY <1>4
  <1>6. e.pid = p /\ e.kind = "open" /\ ev.pid = p /\ e.ret = ret
    BY StampedFields
  <1>7. Longer(more)
    BY <1>3, MoreLonger
  <1>8. file.kind # "socket"
    OBVIOUS
  <1> HIDE DEF ev, e, more, ret, real, file
  <1>9. IsEvent(e)
    BY <1>3, <1>5, <1>6 DEF IsEvent
  <1>10. HostShape' /\ Live' = Live /\ \A q \in Live : Grew(ViewOf(q), ViewOf(q)')
    <2>1. CASE ret = -1
      BY <1>1, <1>3, <2>1, HostUnchanged, GrewItself
    <2>2. CASE ret # -1
      <3>1. table' = [table EXCEPT ![p].fds = Put(@, ret, file)]
        BY <1>1, <2>2
      <3>2. \A id \in 1 .. Len(peers) : peers'[id] = peers[id]
        BY <1>1
      <3> QED BY <1>1, <1>3, <1>5, <1>8, <2>2, <3>1, <3>2, NewDescriptor
    <2> QED BY <2>1, <2>2
  <1>11. \A q \in Live' : Noticed(e, q)
    BY <1>6, <1>10, PlainLeads DEF Noticed, Unnoticed
  <1>12. born \subseteq born' /\ born' \ born \subseteq Live' /\ p \in Live'
    BY <1>1, <1>10
  <1> QED
    BY <1>1, <1>2, <1>6, <1>7, <1>9, <1>10, <1>11, <1>12, EmittedKeeps DEF Longer, e

\* One descriptor of a process becomes what another is, or is closed.
Reset(p, fd, F) ==
    /\ \A x : x # fd => (x \in DOMAIN F <=> x \in Open(p))
    /\ \A x \in DOMAIN F : x # fd => F[x] = table[p].fds[x]
    /\ fd \in DOMAIN F => \E x \in Open(p) : F[fd] = table[p].fds[x]

LEMMA OneDescriptor ==
    ASSUME HostShape, NEW p \in Live, NEW fd \in Fds, NEW F,
           table' = [table EXCEPT ![p].fds = F], Reset(p, fd, F),
           UNCHANGED <<peers, links, born>>
    PROVE  /\ HostShape' /\ Live' = Live
           /\ \A q \in Live : q # p => Grew(ViewOf(q), ViewOf(q)')
           /\ \A x \in Fds : x # fd => ViewOf(p)'.sock[x] = ViewOf(p).sock[x]
           /\ \A x \in Open(p) : fd \in DOMAIN F /\ F[fd] = table[p].fds[x]
                                 => ViewOf(p)'.sock[fd] = ViewOf(p).sock[x]
           /\ \A l \in Link : ViewOf(p)'.link[l] = ViewOf(p).link[l]
  <1> DEFINE fds == table[p].fds
             v == ViewOf(p)
             w == ViewOf(p)'
  <1>1. /\ DOMAIN fds \subseteq Fds /\ Open(p) = DOMAIN fds
        /\ \A x \in DOMAIN fds : fds[x].kind = "socket" => fds[x].id \in 1 .. Len(peers)
    BY DEF HostShape, IsProcess, Open
  <1>0. /\ \A x : x # fd => (x \in DOMAIN F <=> x \in Open(p))
        /\ \A x \in DOMAIN F : x # fd => F[x] = table[p].fds[x]
        /\ fd \in DOMAIN F => \E x \in Open(p) : F[fd] = table[p].fds[x]
    BY DEF Reset
  <1>2. DOMAIN F \subseteq Fds
        /\ \A x \in DOMAIN F : F[x].kind = "socket" => F[x].id \in 1 .. Len(peers')
    <2> HIDE DEF fds
    <2>1. \A x \in DOMAIN F : x \in Fds /\ \E y \in DOMAIN fds : F[x] = fds[y]
      <3> TAKE x \in DOMAIN F
      <3>1. CASE x = fd
        BY <1>0, <1>1, <3>1 DEF fds
      <3>2. CASE x # fd
        BY <1>0, <1>1, <3>2 DEF fds
      <3> QED BY <3>1, <3>2
    <2> QED BY <1>1, <2>1
  <1>3. peers' \in Seq(Remote) /\ Len(peers) <= Len(peers')
    BY DEF HostShape
  <1>4. HostShape' /\ Live' = Live /\ table'[p].fds = F
        /\ \A q \in Live : q # p => table'[q] = table[q]
    BY <1>2, <1>3, DescriptorsSet
  <1>5. \A q \in Live : q # p => Grew(ViewOf(q), ViewOf(q)')
    BY <1>4, PeersGrew
  <1>6. \A x \in Fds : v.sock[x] = IF x \in DOMAIN fds /\ fds[x].kind = "socket"
                                   THEN peers[fds[x].id] ELSE NoEndpoint
    BY ViewFields DEF ViewOf
  <1>7. \A x \in Fds : w.sock[x] = IF x \in DOMAIN F /\ F[x].kind = "socket"
                                   THEN peers[F[x].id] ELSE NoEndpoint
    BY <1>4, ViewFields DEF ViewOf
  <1>8. \A l \in Link : w.link[l] = v.link[l]
    BY ViewFields DEF ViewOf
  <1> HIDE DEF v, w
  <1>9. \A x \in Fds : x # fd => w.sock[x] = v.sock[x]
    BY <1>0, <1>1, <1>6, <1>7
  <1>10. \A x \in Open(p) : fd \in DOMAIN F /\ F[fd] = table[p].fds[x] => w.sock[fd] = v.sock[x]
    BY <1>1, <1>6, <1>7
  <1> QED BY <1>4, <1>5, <1>8, <1>9, <1>10 DEF v, w

LEMMA DupKeeps ==
    ASSUME EndpointInv, NEW p \in Live, Dup(p)
    PROVE  EndpointInv'
  <1>0. PICK oldfd \in Fds, newfd \in Fds :
          LET ok == oldfd \in Open(p)
          IN  /\ table' = IF ok THEN [table EXCEPT ![p].fds = Put(@, newfd, @[oldfd])]
                          ELSE table
              /\ Emitted([kind |-> "dup", ring |-> "proc", pid |-> p, oldfd |-> oldfd,
                          newfd |-> newfd, ret |-> IF ok THEN newfd ELSE -1],
                         Taints({p}, IF ok THEN "dupped" ELSE "dup failed"))
    BY DEF Dup
  <1> DEFINE ok == oldfd \in Open(p)
             F == Put(table[p].fds, newfd, table[p].fds[oldfd])
             ret == IF ok THEN newfd ELSE -1
             ev == [kind |-> "dup", ring |-> "proc", pid |-> p, oldfd |-> oldfd,
                    newfd |-> newfd, ret |-> ret]
             e == Stamped(ev)
             more == Taints({p}, IF ok THEN "dupped" ELSE "dup failed")
             v == ViewOf(p)
             w == ViewOf(p)'
  <1>1. /\ Emitted(ev, more) /\ UNCHANGED <<peers, links, born>>
        /\ table' = IF ok THEN [table EXCEPT ![p].fds = F] ELSE table
    BY <1>0 DEF Dup
  <1>2. net' = net /\ last' = last
    BY DEF Dup, Called
  <1>3. HostShape /\ p \in Pids /\ -1 \notin Fds
    BY HostAssumption DEF EndpointInv, HostShape
  <1>4. e.pid = p /\ e.kind = "dup" /\ ev.pid = p /\ e.oldfd = oldfd /\ e.newfd = newfd
        /\ e.ret = ret
    BY StampedFields
  <1>5. Longer(more)
    BY TaintsLonger
  <1>6. ok => /\ \A x : x # newfd => (x \in DOMAIN F <=> x \in Open(p))
              /\ \A x \in DOMAIN F : x # newfd => F[x] = table[p].fds[x]
              /\ newfd \in DOMAIN F /\ F[newfd] = table[p].fds[oldfd]
    BY DEF Put, Open
  <1> HIDE DEF ev, e, more, F, v, w
  <1>7. IsEvent(e)
    BY <1>3, <1>4 DEF IsEvent
  <1>8. /\ HostShape' /\ Live' = Live
        /\ \A q \in Live : q # p => Grew(ViewOf(q), ViewOf(q)')
        /\ \A x \in Fds : x # newfd => w.sock[x] = v.sock[x]
        /\ ok => w.sock[newfd] = v.sock[oldfd]
        /\ \A l \in Link : w.link[l] = v.link[l]
    <2>1. CASE ok
      <3>1. table' = [table EXCEPT ![p].fds = F] /\ Reset(p, newfd, F)
        BY <1>1, <1>6, <2>1 DEF Reset
      <3> HIDE DEF ok
      <3>2. /\ HostShape' /\ Live' = Live
            /\ \A q \in Live : q # p => Grew(ViewOf(q), ViewOf(q)')
            /\ \A x \in Fds : x # newfd => ViewOf(p)'.sock[x] = ViewOf(p).sock[x]
            /\ \A x \in Open(p) : newfd \in DOMAIN F /\ F[newfd] = table[p].fds[x]
                                  => ViewOf(p)'.sock[newfd] = ViewOf(p).sock[x]
            /\ \A l \in Link : ViewOf(p)'.link[l] = ViewOf(p).link[l]
        BY <1>1, <1>3, <3>1, OneDescriptor
      <3>3. ViewOf(p)'.sock[newfd] = ViewOf(p).sock[oldfd]
        BY <1>6, <2>1, <3>2 DEF ok
      <3> QED BY <3>2, <3>3 DEF v, w
    <2>2. CASE ~ok
      BY <1>1, <1>3, <2>2, HostUnchanged, GrewItself DEF v, w
    <2> QED BY <2>1, <2>2
  <1>9. Leads(e, v, w)
    <2>1. \A x \in Fds : ~Touches(e, <<e.pid, x>>) => x # newfd
      BY <1>4 DEF Touches
    <2>2. Duplicates(e) => ok
      BY <1>3, <1>4 DEF Duplicates
    <2> QED BY <1>4, <1>8, <2>1, <2>2 DEF Leads
  <1>10. \A q \in Live' : Noticed(e, q)
    BY <1>4, <1>8, <1>9 DEF Noticed, Unnoticed, v, w
  <1>11. born \subseteq born' /\ born' \ born \subseteq Live' /\ p \in Live'
    BY <1>1, <1>8
  <1> QED
    BY <1>1, <1>2, <1>4, <1>5, <1>7, <1>8, <1>10, <1>11, EmittedKeeps DEF Longer, e

LEMMA CloseKeeps ==
    ASSUME EndpointInv, NEW p \in Live, Close(p)
    PROVE  EndpointInv'
  <1>0. PICK fd \in Open(p) :
          /\ table' = [table EXCEPT ![p].fds = Without(@, fd)]
          /\ Emitted([kind |-> "dup", ring |-> "proc", pid |-> p, oldfd |-> -1,
                      newfd |-> fd, ret |-> 0],
                     IF \E link \in DOMAIN links[p] : links[p][link] = fd
                     THEN Taints({p}, "closed while linked") ELSE taint)
    BY DEF Close
  <1> DEFINE F == Without(table[p].fds, fd)
             ev == [kind |-> "dup", ring |-> "proc", pid |-> p, oldfd |-> -1,
                    newfd |-> fd, ret |-> 0]
             e == Stamped(ev)
             more == IF \E link \in DOMAIN links[p] : links[p][link] = fd
                     THEN Taints({p}, "closed while linked") ELSE taint
             v == ViewOf(p)
             w == ViewOf(p)'
  <1>1. /\ Emitted(ev, more) /\ UNCHANGED <<peers, links, born>>
        /\ table' = [table EXCEPT ![p].fds = F]
    BY <1>0 DEF Close
  <1>2. net' = net /\ last' = last
    BY DEF Close, Called
  <1>3. HostShape /\ TaintOK /\ p \in Pids /\ -1 \notin Fds /\ fd \in Fds
    <2>1. HostShape /\ TaintOK /\ p \in Pids /\ IsProcess(table[p], Len(peers))
      BY DEF EndpointInv, HostShape
    <2>2. -1 \notin Fds
      BY HostAssumption
    <2>3. fd \in Fds
      BY <1>0, <2>1 DEF IsProcess, Open
    <2> QED BY <2>1, <2>2, <2>3
  <1>4. e.pid = p /\ e.kind = "dup" /\ ev.pid = p /\ e.oldfd = -1 /\ e.newfd = fd /\ e.ret = 0
    BY StampedFields
  <1>5. Longer(more)
    BY <1>3, TaintsLonger, SameLonger
  <1>6. /\ \A x : x # fd => (x \in DOMAIN F <=> x \in Open(p))
        /\ \A x \in DOMAIN F : x # fd => F[x] = table[p].fds[x]
        /\ fd \notin DOMAIN F
    BY DEF Without, Keep, Open
  <1> HIDE DEF ev, e, more, F, v, w
  <1>7. IsEvent(e)
    BY <1>3, <1>4 DEF IsEvent
  <1>8. /\ HostShape' /\ Live' = Live
        /\ \A q \in Live : q # p => Grew(ViewOf(q), ViewOf(q)')
        /\ \A x \in Fds : x # fd => w.sock[x] = v.sock[x]
        /\ \A l \in Link : w.link[l] = v.link[l]
    <2>1. Reset(p, fd, F)
      BY <1>6 DEF Reset
    <2> QED BY <1>1, <1>3, <2>1, OneDescriptor DEF v, w
  <1>9. Leads(e, v, w)
    <2>1. \A x \in Fds : ~Touches(e, <<e.pid, x>>) => x # fd
      BY <1>4 DEF Touches
    <2>2. ~Duplicates(e)
      BY <1>3, <1>4 DEF Duplicates
    <2> QED BY <1>4, <1>8, <2>1, <2>2 DEF Leads
  <1>10. \A q \in Live' : Noticed(e, q)
    BY <1>4, <1>8, <1>9 DEF Noticed, Unnoticed, v, w
  <1>11. born \subseteq born' /\ born' \ born \subseteq Live' /\ p \in Live'
    BY <1>1, <1>8
  <1> QED
    BY <1>1, <1>2, <1>4, <1>5, <1>7, <1>8, <1>10, <1>11, EmittedKeeps DEF Longer, e

LEMMA ConnectKeeps ==
    ASSUME EndpointInv, NEW p \in Live, Connect(p)
    PROVE  EndpointInv'
  <1>0. PICK fd \in Open(p), peer \in Peers, ret \in {0, -1} :
          LET socket == table[p].fds[fd]
          IN  /\ socket.kind = "socket"
              /\ peers[socket.id] # NoEndpoint => ret = -1
              /\ peers' = IF ret = 0 THEN [peers EXCEPT ![socket.id] = peer] ELSE peers
              /\ Emitted([kind |-> "connect", ring |-> "net", pid |-> p, fd |-> fd,
                          peer |-> peer, ret |-> ret],
                         IF ret = 0 THEN taint ELSE Taints({p}, "connect failed"))
    BY DEF Connect
  <1> DEFINE id == table[p].fds[fd].id
             ev == [kind |-> "connect", ring |-> "net", pid |-> p, fd |-> fd,
                    peer |-> peer, ret |-> ret]
             e == Stamped(ev)
             more == IF ret = 0 THEN taint ELSE Taints({p}, "connect failed")
             v == ViewOf(p)
             w == ViewOf(p)'
  <1>1. /\ Emitted(ev, more) /\ UNCHANGED <<table, links, born>>
        /\ table[p].fds[fd].kind = "socket"
        /\ peers[id] # NoEndpoint => ret = -1
        /\ peers' = IF ret = 0 THEN [peers EXCEPT ![id] = peer] ELSE peers
    BY <1>0 DEF Connect
  <1>2. net' = net /\ last' = last
    BY DEF Connect, Called
  <1>3. HostShape /\ TaintOK /\ p \in Pids /\ fd \in DOMAIN table[p].fds /\ peer \in Peers
    BY <1>0 DEF EndpointInv, HostShape, Open
  <1>4. fd \in Fds /\ id \in 1 .. Len(peers)
    <2>1. IsProcess(table[p], Len(peers))
      BY <1>3 DEF HostShape
    <2> QED BY <1>1, <1>3, <2>1 DEF IsProcess
  <1>5. e.pid = p /\ e.kind = "connect" /\ ev.pid = p /\ e.fd = fd /\ e.peer = peer
    BY StampedFields
  <1>6. Longer(more) /\ (ret # 0 => "connect failed" \in more[p])
    BY <1>3, TaintsLonger, SameLonger
  <1> HIDE DEF ev, e, more, v, w, id
  <1>7. IsEvent(e)
    BY <1>3, <1>4, <1>5 DEF IsEvent
  <1>8. /\ peers' \in Seq(Remote) /\ Len(peers') = Len(peers)
        /\ \A x \in 1 .. Len(peers) : peers[x] # NoEndpoint => peers'[x] = peers[x]
        /\ ret = 0 => peers'[id] = peer
    <2>1. peers \in Seq(Remote) /\ peer \in Remote
      BY <1>3 DEF HostShape, Remote
    <2>2. CASE ret = 0
      <3>1. peers' = [peers EXCEPT ![id] = peer] /\ peers[id] = NoEndpoint
        BY <1>1, <2>2
      <3> QED BY <1>4, <2>1, <3>1
    <2>3. CASE ret # 0
      BY <1>1, <2>1, <2>3
    <2> QED BY <2>2, <2>3
  <1>9. HostShape' /\ Live' = Live
    BY <1>1, <1>3, <1>8 DEF HostShape, Live
  <1>10. \A q \in Live : Grew(ViewOf(q), ViewOf(q)')
    BY <1>1, <1>3, <1>8, PeersGrew
  <1>11. ret = 0 => Leads(e, v, w)
    <2> SUFFICES ASSUME ret = 0 PROVE Leads(e, v, w)
      OBVIOUS
    <2>1. w.sock[fd] = peer
      <3> DEFINE fds == table[p].fds
      <3>0. table' = table /\ links' = links
        BY <1>1
      <3>1. \A x \in Fds : w.sock[x] = IF x \in DOMAIN fds /\ fds[x].kind = "socket"
                                       THEN peers'[fds[x].id] ELSE NoEndpoint
        BY <3>0, ViewFields DEF ViewOf, w
      <3>2. fd \in DOMAIN fds /\ fds[fd].kind = "socket" /\ peers'[fds[fd].id] = peer
        BY <1>1, <1>3, <1>8 DEF id
      <3> HIDE DEF fds
      <3> QED BY <1>4, <3>1, <3>2
    <2>2. Grew(v, w)
      BY <1>10 DEF v, w
    <2> QED BY <1>5, <2>1, <2>2 DEF Leads, Grew, Duplicates
  <1>12. \A q \in Live' : more[q] \cap Excuses = {} => Noticed(e, q)
    <2> SUFFICES ASSUME NEW q \in Live', more[q] \cap Excuses = {}
                 PROVE  Noticed(e, q)
      OBVIOUS
    <2>1. CASE q = p
      <3>1. ret = 0
        BY <1>6, <2>1 DEF Excuses
      <3> QED BY <1>5, <1>11, <2>1, <3>1 DEF Noticed, v, w
    <2>2. CASE q # p
      BY <1>5, <1>9, <1>10, <2>2 DEF Noticed, Unnoticed
    <2> QED BY <2>1, <2>2
  <1>13. born \subseteq born' /\ born' \ born \subseteq Live' /\ p \in Live'
    BY <1>1, <1>9
  <1> QED
    BY <1>1, <1>2, <1>5, <1>6, <1>7, <1>9, <1>12, <1>13, EmittedKeeps DEF Longer, e

\* An SSL object gets a descriptor.
LEMMA LinkSet ==
    ASSUME HostShape, NEW p \in Live, NEW ssl \in Ssls, NEW direction \in Directions,
           NEW fd \in Open(p), links' = [links EXCEPT ![p] = Put(@, <<ssl, direction>>, fd)],
           UNCHANGED <<table, peers, born>>
    PROVE  /\ HostShape' /\ Live' = Live /\ fd \in Fds
           /\ \A q \in Live : q # p => Grew(ViewOf(q), ViewOf(q)')
           /\ \A x \in Fds : ViewOf(p)'.sock[x] = ViewOf(p).sock[x]
           /\ \A l \in Link : ViewOf(p)'.link[l] = IF l = <<ssl, direction>> THEN fd
                                                   ELSE ViewOf(p).link[l]
  <1> DEFINE new == <<ssl, direction>>
             old == links[p]
             set == Put(old, new, fd)
  <1>1. new \in Link /\ fd \in Fds /\ IsMap(old, Link, Fds)
    <2>1. IsProcess(table[p], Len(peers)) /\ IsMap(old, Link, Fds)
      BY DEF HostShape
    <2>2. fd \in Fds
      BY <2>1 DEF IsProcess, Open
    <2> QED BY <2>1, <2>2 DEF Link
  <1>2. links = [q \in Live |-> links[q]] /\ links' = [links EXCEPT ![p] = set]
    BY DEF HostShape
  <1>3. DOMAIN set = DOMAIN old \cup {new}
        /\ \A l \in DOMAIN set : set[l] = IF l = new THEN fd ELSE old[l]
    BY DEF Put
  <1> HIDE DEF new, set
  <1>4. IsMap(set, Link, Fds)
    <2>1. \A l \in DOMAIN set : set[l] \in Fds /\ l \in Link
      BY <1>1, <1>3 DEF IsMap
    <2>2. set = [l \in DOMAIN set |-> set[l]]
      BY DEF set, Put
    <2> QED BY <2>1, <2>2 DEF IsMap
  <1>5. /\ links' = [q \in Live |-> links'[q]] /\ links'[p] = set
        /\ \A q \in Live : q # p => links'[q] = links[q]
    BY <1>2
  <1>6. Live' = Live
    BY DEF Live
  <1>7. \A q \in Live : IsMap(links'[q], Link, Fds)
    BY <1>4, <1>5 DEF HostShape
  <1>8. HostShape'
    BY <1>5, <1>6, <1>7 DEF HostShape
  <1>9. \A q \in Live : q # p => Grew(ViewOf(q), ViewOf(q)')
    BY <1>5, PeersGrew
  <1>10. \A x \in Fds : ViewOf(p)'.sock[x] = ViewOf(p).sock[x]
    BY ViewFields DEF ViewOf
  <1>11. \A l \in Link : ViewOf(p)'.link[l] = IF l = new THEN fd ELSE ViewOf(p).link[l]
    <2>1. \A l \in Link : ViewOf(p)'.link[l] = IF l \in DOMAIN set THEN set[l] ELSE NoFd
      BY <1>5, ViewFields DEF ViewOf
    <2>2. \A l \in Link : ViewOf(p).link[l] = IF l \in DOMAIN old THEN old[l] ELSE NoFd
      BY ViewFields DEF ViewOf
    <2> HIDE DEF old
    <2> QED BY <1>3, <2>1, <2>2
  <1> QED BY <1>1, <1>6, <1>8, <1>9, <1>10, <1>11 DEF new

LEMMA SetFdKeeps ==
    ASSUME EndpointInv, NEW p \in Live, SetFd(p)
    PROVE  EndpointInv'
  <1>0. PICK ssl \in Ssls, fd \in Open(p), direction \in Directions :
          /\ links' = [links EXCEPT ![p] = Put(@, <<ssl, direction>>, fd)]
          /\ Emitted([kind |-> "assoc", ring |-> "tls", pid |-> p, ssl |-> ssl, fd |-> fd,
                      direction |-> direction], taint)
    BY DEF SetFd
  <1> DEFINE ev == [kind |-> "assoc", ring |-> "tls", pid |-> p, ssl |-> ssl, fd |-> fd,
                    direction |-> direction]
             e == Stamped(ev)
             v == ViewOf(p)
             w == ViewOf(p)'
  <1>1. Emitted(ev, taint) /\ UNCHANGED <<table, peers, born>>
        /\ links' = [links EXCEPT ![p] = Put(@, <<ssl, direction>>, fd)]
    BY <1>0 DEF SetFd
  <1>2. net' = net /\ last' = last
    BY DEF SetFd, Called
  <1>3. HostShape /\ TaintOK /\ p \in Pids
    BY DEF EndpointInv, HostShape
  <1>4. e.pid = p /\ e.kind = "assoc" /\ ev.pid = p /\ e.fd = fd
        /\ e.ssl = ssl /\ e.direction = direction
    BY StampedFields
  <1>5. Longer(taint)
    BY <1>3, SameLonger
  <1>6. /\ HostShape' /\ Live' = Live /\ fd \in Fds
        /\ \A q \in Live : q # p => Grew(ViewOf(q), ViewOf(q)')
        /\ \A x \in Fds : ViewOf(p)'.sock[x] = ViewOf(p).sock[x]
        /\ \A l \in Link : ViewOf(p)'.link[l] = IF l = <<ssl, direction>> THEN fd
                                                ELSE ViewOf(p).link[l]
    BY <1>1, <1>3, LinkSet
  <1>7. /\ \A x \in Fds : w.sock[x] = v.sock[x]
        /\ \A l \in Link : w.link[l] = IF l = <<ssl, direction>> THEN fd ELSE v.link[l]
    BY <1>6
  <1> HIDE DEF ev, e, v, w
  <1>8. IsEvent(e)
    BY <1>3, <1>4, <1>6 DEF IsEvent
  <1>9. Leads(e, v, w)
    BY <1>4, <1>7 DEF Leads, Duplicates
  <1>10. \A q \in Live' : Noticed(e, q)
    BY <1>4, <1>6, <1>9 DEF Noticed, Unnoticed, v, w
  <1>11. born \subseteq born' /\ born' \ born \subseteq Live' /\ p \in Live'
    BY <1>1, <1>6
  <1> QED
    BY <1>1, <1>2, <1>4, <1>5, <1>6, <1>8, <1>10, <1>11, EmittedKeeps DEF Longer, e

LEMMA SetBioKeeps ==
    ASSUME EndpointInv, NEW p \in Live, SetBio(p)
    PROVE  EndpointInv'
  <1>0. PICK ssl \in Ssls, fd \in Open(p), direction \in Directions :
          links' = [links EXCEPT ![p] = Put(@, <<ssl, direction>>, fd)]
    BY DEF SetBio
  <1>1. UNCHANGED <<table, peers, born, flight, net, last>>
    BY DEF SetBio, Unseen, Called
  <1>2. HostShape /\ p \in Pids
    BY DEF EndpointInv, HostShape
  <1>3. Longer(taint') /\ "linked unseen" \in taint'[p]
    BY <1>2, TaintsLonger DEF SetBio, Unseen
  <1>4. HostShape' /\ Live' = Live /\ \A q \in Live : q # p => Grew(ViewOf(q), ViewOf(q)')
    BY <1>0, <1>1, <1>2, LinkSet
  <1>5. ~Clean(p)'
    BY <1>3 DEF Clean, Excuses
  <1>6. \A q \in Live : Clean(q)' => Grew(ViewOf(q), ViewOf(q)')
    <2> TAKE q \in Live
    <2>1. CASE q = p
      BY <1>5, <2>1
    <2>2. CASE q # p
      BY <1>4, <2>2
    <2> QED BY <2>1, <2>2
  <1> QED BY <1>1, <1>3, <1>4, <1>6, QuietGrew

\* The calls of the host together.
LEMMA HostKeeps ==
    ASSUME EndpointInv, Host
    PROVE  EndpointInv'
  <1>1. ASSUME NEW p \in Live,
               \/ Fork(p) \/ StartThread(p) \/ Exec(p) \/ Exit(p) \/ EndThread(p)
               \/ Chdir(p) \/ OpenFile(p) \/ OpenUnseen(p) \/ Unlink(p) \/ Rename(p)
               \/ Socket(p) \/ Accept(p) \/ Dup(p) \/ Close(p) \/ Connect(p)
               \/ SetFd(p) \/ SetBio(p) \/ Transfer(p)
        PROVE  EndpointInv'
    <2>1. CASE Fork(p) \/ StartThread(p) \/ Exec(p) \/ Exit(p) \/ EndThread(p)
      BY <2>1, ForkKeeps, StartThreadKeeps, ExecKeeps, ExitKeeps, EndThreadKeeps
    <2>2. CASE Chdir(p) \/ OpenFile(p) \/ OpenUnseen(p) \/ Unlink(p) \/ Rename(p)
      BY <2>2, ChdirKeeps, OpenFileKeeps, OpenUnseenKeeps, UnlinkKeeps, RenameKeeps
    <2>3. CASE Socket(p) \/ Accept(p) \/ Dup(p) \/ Close(p) \/ Connect(p)
      BY <2>3, SocketKeeps, AcceptKeeps, DupKeeps, CloseKeeps, ConnectKeeps
    <2>4. CASE SetFd(p) \/ SetBio(p) \/ Transfer(p)
      BY <2>4, SetFdKeeps, SetBioKeeps, TransferKeeps
    <2> QED BY <1>1, <2>1, <2>2, <2>3, <2>4
  <1> QED BY <1>1, RelinkKeeps DEF Host
-----------------------------------------------------------------------------
(* Steps of the daemon.                                                    *)

\* An event processed before another of its process leaves a mark.
LEMMA FollowedMarks ==
    ASSUME NEW i \in DOMAIN flight, NEW norm2, NEW net2
    PROVE  /\ Longer(Followed(i, norm2, net2))
           /\ \A j \in 1 .. i - 1 :
                 flight[j].pid = flight[i].pid /\ flight[i].pid \in Pids
                 => "overtaken" \in Followed(i, norm2, net2)[flight[i].pid]
  <1> DEFINE ev == flight[i]
             late == UNION {Concerned(ev) : j \in {j \in 1 .. i - 1 :
                               Concerned(flight[j]) \cap Concerned(ev) # {}}}
             dropped == (DOMAIN norm.processes \cup DOMAIN norm.expiring)
                           \ (DOMAIN norm2.processes \cup DOMAIN norm2.expiring)
             own == IF ev.kind = "dup" THEN {<<ev.pid, ev.newfd>>} ELSE {}
             forgotten == {key[1] : key \in
                 (DOMAIN net.versions \ DOMAIN net2.versions)
                 \cup ((KeysIn(net.fds) \ KeysIn(net2.fds)) \ own)
                 \cup IF ev.kind = "assoc" THEN KeysIn(net.assocs) \ KeysIn(net2.assocs) ELSE {}}
             more == Followed(i, norm2, net2)
             pushed(p) == IF p \in dropped \cup forgotten THEN {"pushed out"} ELSE {}
             taken(p) == IF ev.kind = "fork" /\ p = ev.child THEN taint[ev.pid] ELSE {}
  <1>1. more = [p \in Pids |-> taint[p] \cup (IF p \in late THEN {"overtaken"} ELSE {})
                                  \cup pushed(p) \cup taken(p)]
    BY DEF Followed
  <1>2. \A j \in 1 .. i - 1 : flight[j].pid = ev.pid => ev.pid \in late
    <2> SUFFICES ASSUME NEW j \in 1 .. i - 1, flight[j].pid = ev.pid
                 PROVE  ev.pid \in late
      OBVIOUS
    <2>1. ev.pid \in Concerned(ev) /\ ev.pid \in Concerned(flight[j])
      BY DEF Concerned
    <2> QED BY <2>1
  <1> HIDE DEF more, late, pushed, taken
  <1>3. Longer(more)
    BY <1>1 DEF Longer
  <1>4. \A p \in Pids : p \in late => "overtaken" \in more[p]
    BY <1>1
  <1> QED BY <1>2, <1>3, <1>4 DEF more

LEMMA ValueOfFacts ==
    ASSUME NEW list, NEW key, key \in KeysIn(list)
    PROVE  \E i \in DOMAIN list : list[i].key = key /\ ValueOf(list, key) = list[i].value
  BY DEF KeysIn, ValueOf, IndexOf

\* What StateNet says of a fragment, in a process it knows the truth about.
LEMMA FragmentTold ==
    ASSUME NEW n, NEW p, NEW v \in View, TrueOf(n, p, v),
           NEW ssl \in Ssls, NEW direction \in Directions,
           v.link[<<ssl, direction>>] \in Fds,
           RecordTlsFragment(n, p, ssl, direction).endpoint # NoEndpoint
    PROVE  RecordTlsFragment(n, p, ssl, direction).endpoint
               = v.sock[v.link[<<ssl, direction>>]]
  <1> DEFINE told == RecordTlsFragment(n, p, ssl, direction)
             link == <<p, ssl, direction>>
             assoc == ValueOf(n.assocs, link)
             key == <<p, assoc.fd>>
             fd == v.link[<<ssl, direction>>]
  <1>1. \A reason : Partial(reason).endpoint = NoEndpoint
    BY DEF Partial
  <1>2. /\ link \in KeysIn(n.assocs) /\ key \in KeysIn(n.fds)
        /\ told.endpoint = ValueOf(n.fds, key).endpoint
    BY <1>1 DEF RecordTlsFragment
  <1> HIDE DEF told
  <1>3. PICK i \in DOMAIN n.assocs : n.assocs[i].key = link /\ assoc = n.assocs[i].value
    BY <1>2, ValueOfFacts
  <1>4. PICK j \in DOMAIN n.fds : n.fds[j].key = key
                                  /\ ValueOf(n.fds, key) = n.fds[j].value
    BY <1>2, ValueOfFacts
  <1>5. fd # NoFd
    BY HostAssumption DEF NoFd
  <1>6. assoc.fd = fd
    <2> HIDE DEF assoc
    <2> QED BY <1>3, <1>5 DEF TrueOf
  <1>7. v.sock[fd] = n.fds[j].value.endpoint
    <2>1. n.fds[j].key = <<p, fd>> /\ n.fds[j].value.endpoint # NoEndpoint
      BY <1>2, <1>4, <1>6 DEF told
    <2> HIDE DEF fd
    <2>2. fd \in Fds
      BY DEF fd
    <2> QED BY <2>1, <2>2 DEF TrueOf
  <1> QED BY <1>2, <1>4, <1>7 DEF told

\* What is kept of the chains when an event is processed.
LEMMA DeliveredChains ==
    ASSUME HostShape, FlightOK, ChainsOK, NEW i \in DOMAIN flight,
           Follows(net, flight[i], net'), NEW rest, Rest(flight, i, rest), flight' = rest,
           \A p \in Pids : taint[p] \subseteq taint'[p],
           \A j \in 1 .. i - 1 : flight[j].pid = flight[i].pid /\ flight[i].pid \in Pids
                                 => "overtaken" \in taint'[flight[i].pid],
           UNCHANGED <<table, peers, links, born>>
    PROVE  ChainsOK'
  <1> DEFINE ev == flight[i]
  <1>0. Live' = Live /\ \A p : ViewOf(p)' = ViewOf(p)
    BY DEF Live, ViewOf
  <1>1. Events(flight) /\ ev.pid \in born /\ ev.pid \in Pids
    BY DEF FlightOK, HostShape
  <1>2. ASSUME NEW p \in Pids, p \in born, Clean(p)'
        PROVE  Tracked(p, net', rest, p \in Live, ViewOf(p))
    <2>1. Tracked(p, net, flight, p \in Live, ViewOf(p))
      BY <1>2, CleanBefore DEF ChainsOK
    <2>2. PICK c : Chain(p, net, flight, c) /\ (p \in Live => c[Len(flight)] = ViewOf(p))
      BY <2>1 DEF Tracked
    <2> DEFINE m == net'
    <2>3. Follows(net, flight[i], m)
      OBVIOUS
    <2> HIDE DEF m
    <2>4. \E d : Chain(p, m, rest, d) /\ d[Len(rest)] = c[Len(flight)]
      <3>1. CASE ev.pid # p
        BY <1>1, <2>2, <2>3, <3>1, ChainDrops
      <3>2. CASE ev.pid = p
        <4>1. \A x \in 1 .. i - 1 : flight[x].pid # p
          <5> SUFFICES ASSUME NEW x \in 1 .. i - 1, flight[x].pid = p PROVE FALSE
            OBVIOUS
          <5>1. "overtaken" \in taint'[p]
            BY <1>1, <3>2
          <5> QED BY <1>2, <5>1 DEF Clean, Excuses
        <4> QED BY <1>1, <2>2, <2>3, <3>2, <4>1, ChainAdvances
      <3> QED BY <3>1, <3>2
    <2>5. Tracked(p, m, rest, p \in Live, ViewOf(p))
      BY <2>2, <2>4 DEF Tracked
    <2> QED BY <2>5 DEF m
  <1>3. ASSUME NEW p \in Pids, p \notin born
        PROVE  \A v \in View : TrueOf(net', p, v)
    <2>1. \A v \in View : TrueOf(net, p, v)
      BY <1>3 DEF ChainsOK
    <2>2. ev.pid # p
      BY <1>1, <1>3
    <2> DEFINE m == net'
    <2>3. Follows(net, ev, m)
      OBVIOUS
    <2> HIDE DEF m, ev
    <2>4. \A v \in View : TrueOf(m, p, v)
      BY <2>1, <2>2, <2>3, TrueForOthers
    <2> QED BY <2>4 DEF m
  <1> QED BY <1>0, <1>2, <1>3 DEF ChainsOK

LEMMA DeliverKeeps ==
    ASSUME EndpointInv, NEW i \in DOMAIN flight, Deliver(i)
    PROVE  EndpointInv'
  <1> DEFINE ev == flight[i]
             rest == SubSeq(flight, 1, i - 1) \o SubSeq(flight, i + 1, Len(flight))
             p == ev.pid
  <1>1. UNCHANGED <<table, peers, links, born>> /\ flight' = rest
        /\ taint' = Followed(i, norm', net')
    BY DEF Deliver
  <1>2. HostShape /\ TaintOK /\ FlightOK /\ ChainsOK /\ Tidy(net, EndpointCapacity)
    BY DEF EndpointInv
  <1>3. IsSeq(flight) /\ IsEvent(ev) /\ p \in born /\ p \in Pids
        /\ Events(flight)
    BY <1>2 DEF FlightOK, Events, HostShape
  <1>4. Rest(flight, i, rest)
    BY <1>3, RestOf
  <1>5. HostShape' /\ Live' = Live /\ \A q \in Live : ViewOf(q)' = ViewOf(q)
    BY <1>1, <1>2, HostUnchanged
  <1>6. Longer(taint') /\ \A j \in 1 .. i - 1 :
           flight[j].pid = flight[i].pid /\ flight[i].pid \in Pids
           => "overtaken" \in taint'[flight[i].pid]
    <2> DEFINE norm2 == norm'
               net2 == net'
    <2>1. taint' = Followed(i, norm2, net2)
      BY <1>1
    <2> HIDE DEF norm2, net2
    <2> QED BY <2>1, FollowedMarks
  <1>7. TaintOK' /\ \A q \in Pids : taint[q] \subseteq taint'[q]
    BY <1>6 DEF Longer, TaintOK
  <1> HIDE DEF rest
  <1>8. FlightOK'
    <2>1. \A k \in DOMAIN rest : IsEvent(rest[k]) /\ rest[k].pid \in born
      <3> TAKE k \in DOMAIN rest
      <3> DEFINE L == Len(flight)
      <3>1. L \in Nat /\ DOMAIN flight = 1 .. L /\ DOMAIN rest = 1 .. L - 1
        BY <1>3, <1>4, SeqFacts DEF Rest
      <3> HIDE DEF L
      <3>2. \E x \in 1 .. L : rest[k] = flight[x]
        <4>1. rest[k] = IF k < i THEN flight[k] ELSE flight[k + 1]
          BY <1>4, <3>1 DEF Rest, L
        <4>2. k \in 1 .. L /\ k + 1 \in 1 .. L
          BY <3>1
        <4> QED BY <4>1, <4>2
      <3> QED BY <1>2, <3>1, <3>2 DEF FlightOK, Events
    <2> QED BY <1>1, <1>4, <2>1 DEF FlightOK, Events, Rest
  <1>9. Tidy(net', EndpointCapacity) /\ Follows(net, ev, net')
    <2>1. CASE ev.kind = "fragment"
      <3>1. net' = net
        BY <2>1 DEF Deliver
      <3>2. \A x : ~Touches(ev, x)
        BY <2>1 DEF Touches
      <3> HIDE DEF ev
      <3>3. Follows(net, ev, net)
        BY <2>1, <3>2, SameFollows
      <3> QED BY <1>2, <3>1, <3>3
    <2>2. CASE ev.kind # "fragment"
      <3>1. net' = ApplyNet(net, ev)
        BY <2>2 DEF Deliver
      <3> HIDE DEF ev
      <3> QED BY <1>2, <1>3, <3>1, ApplyNetWorks
    <2> QED BY <2>1, <2>2
  <1>10. Tidy(net, EndpointCapacity)'
    BY <1>9 DEF Tidy
  <1>11. ChainsOK'
    <2> HIDE DEF p
    <2> QED BY <1>1, <1>2, <1>4, <1>6, <1>7, <1>9, DeliveredChains
  <1>12. LastOK' /\ FullEndpointsAreReal'
    <2>1. CASE ev.kind = "fragment"
      <3> DEFINE told == RecordTlsFragment(net, ev.pid, ev.ssl, ev.direction)
      <3>1. last' = [kind |-> "fragment", pid |-> p, real |-> ev.real, told |-> told]
        BY <2>1 DEF Deliver, Attribute
      <3> HIDE DEF told
      <3>2. last'.pid = p /\ last'.real = ev.real /\ last'.told = told
        BY <3>1
      <3>3. ASSUME told.endpoint # NoEndpoint, taint'[p] \cap Excuses = {}
            PROVE  told.endpoint = ev.real
        <4>1. Clean(p)
          BY <1>3, <1>7, <3>3 DEF Clean
        <4>2. PICK c : Chain(p, net, flight, c)
          BY <1>2, <1>3, <4>1 DEF ChainsOK, Tracked
        <4>3. \A x \in 1 .. i - 1 : flight[x].pid # p
          <5> SUFFICES ASSUME NEW x \in 1 .. i - 1, flight[x].pid = p PROVE FALSE
            OBVIOUS
          <5>1. "overtaken" \in taint'[p]
            BY <1>3, <1>6
          <5> QED BY <3>3, <5>1 DEF Excuses
        <4> DEFINE v == c[i - 1]
        <4>4. TrueOf(net, p, v) /\ Leads(ev, v, c[i]) /\ v \in View
          BY <1>3, <4>2, <4>3, ChainTells
        <4> HIDE DEF v
        <4>5. /\ v.link[<<ev.ssl, ev.direction>>] \in Fds
              /\ v.sock[v.link[<<ev.ssl, ev.direction>>]] = ev.real
          BY <2>1, <4>4 DEF Leads
        <4>6. ev.ssl \in Ssls /\ ev.direction \in Directions
          BY <1>3, <2>1 DEF IsEvent
        <4> HIDE DEF ev
        <4>7. told.endpoint = v.sock[v.link[<<ev.ssl, ev.direction>>]]
          BY <3>3, <4>4, <4>5, <4>6, FragmentTold DEF told, p
        <4> QED BY <4>5, <4>7
      <3>4. FullEndpointsAreReal'
        BY <3>2, <3>3 DEF FullEndpointsAreReal, Excuses
      <3> QED BY <1>3, <3>2, <3>4 DEF LastOK
    <2>2. CASE ev.kind # "fragment"
      <3>1. last'.kind # "fragment"
        <4> DEFINE done == Normalize(norm, files, ev)
        <4>1. last' = IF done.resolved = <<>> THEN Nothing
                      ELSE [kind |-> "paths", pid |-> ev.pid, real |-> ev.real,
                            before |-> ev.before, after |-> ev.after,
                            claimed |-> [k \in DOMAIN done.resolved |->
                                            done.resolved[k].preferred]]
          BY <2>2 DEF Deliver
        <4> HIDE DEF done
        <4> QED BY <4>1 DEF Nothing
      <3> QED BY <3>1 DEF LastOK, FullEndpointsAreReal
    <2> QED BY <2>1, <2>2
  <1> QED BY <1>5, <1>7, <1>8, <1>10, <1>11, <1>12 DEF EndpointInv
-----------------------------------------------------------------------------
(* The theorems.                                                           *)

LEMMA EndpointsAtFirst == Init => EndpointInv
  <1> SUFFICES ASSUME Init PROVE EndpointInv
    OBVIOUS
  <1> DEFINE first == [cwd |-> 1, fds |-> EmptyMap]
  <1>1. /\ table = [p \in {1} |-> first] /\ links = [p \in {1} |-> EmptyMap]
        /\ born = {1} /\ peers = <<>> /\ flight = <<>> /\ net = EmptyNet
        /\ taint = [p \in Pids |-> {}] /\ last = Nothing
    BY DEF Init
  <1>2. 1 \in Pids
    BY HostAssumption
  <1>3. DOMAIN EmptyMap = {} /\ IsMap(EmptyMap, Link, Fds)
    BY DEF EmptyMap, IsMap
  <1>4. IsProcess(first, 0)
    <2>1. first = [cwd |-> first.cwd, fds |-> first.fds] /\ first.fds = EmptyMap
      OBVIOUS
    <2> HIDE DEF first
    <2> QED BY <1>3, <2>1 DEF IsProcess
  <1> HIDE DEF first
  <1>5. Live = {1} /\ table[1] = first /\ links[1] = EmptyMap
    BY <1>1 DEF Live
  <1>6. Len(peers) = 0 /\ peers \in Seq(Remote)
    BY <1>1
  <1>7. HostShape
    <2>1. table = [p \in Live |-> table[p]] /\ links = [p \in Live |-> links[p]]
      BY <1>1, <1>5
    <2> QED BY <1>1, <1>2, <1>3, <1>4, <1>5, <1>6, <2>1 DEF HostShape
  <1>8. TaintOK
    BY <1>1 DEF TaintOK
  <1>9. IsSeq(<<>>) /\ Len(<<>>) = 0 /\ DOMAIN <<>> = {}
    <2>1. IsSeq(<<>>) /\ Len(<<>>) = 0
      BY DEF IsSeq
    <2> QED BY <2>1, SeqFacts
  <1>10. FlightOK
    BY <1>1, <1>9 DEF FlightOK, Events
  <1>11. /\ net.fds = <<>> /\ net.assocs = <<>> /\ net.endpoints = <<>>
         /\ net = [versions |-> net.versions, fds |-> net.fds, endpoints |-> net.endpoints,
                   assocs |-> net.assocs]
    BY <1>1 DEF EmptyNet
  <1>12. Tidy(net, EndpointCapacity)
    BY <1>9, <1>11, StateNetAssumption DEF Tidy
  <1>13. \A p : \A v \in View : TrueOf(net, p, v)
    BY <1>9, <1>11 DEF TrueOf
  <1>14. ChainsOK
    <2>1. ViewOf(1) \in View
      BY <1>5, <1>7, ViewNow
    <2>2. Tracked(1, net, flight, TRUE, ViewOf(1))
      <3>1. IsSeq(flight) /\ \A k \in DOMAIN flight : flight[k].pid # 1
        BY <1>1, <1>9
      <3> QED BY <1>13, <2>1, <3>1, TrackedBegins
    <2>3. Tracked(1, net, flight, 1 \in Live, ViewOf(1))
      BY <1>5, <2>2
    <2> QED BY <1>1, <1>13, <2>3 DEF ChainsOK
  <1>15. LastOK /\ FullEndpointsAreReal
    <2>1. last.kind # "fragment"
      BY <1>1 DEF Nothing
    <2> QED BY <2>1 DEF LastOK, FullEndpointsAreReal
  <1> QED BY <1>7, <1>8, <1>10, <1>12, <1>14, <1>15 DEF EndpointInv

LEMMA EndpointsStay == EndpointInv /\ [Next]_vars => EndpointInv'
  <1>1. ASSUME EndpointInv, UNCHANGED vars
        PROVE  EndpointInv'
    <2>1. UNCHANGED <<table, peers, links, born, flight, net, taint, last>>
      BY <1>1 DEF vars, host_vars
    <2>2. HostShape' /\ Live' = Live /\ \A q \in Live : ViewOf(q)' = ViewOf(q)
      BY <1>1, <2>1, HostUnchanged DEF EndpointInv
    <2>3. Longer(taint')
      BY <1>1, <2>1, SameLonger DEF EndpointInv
    <2>4. \A q \in Live : Grew(ViewOf(q), ViewOf(q)')
      BY <2>2, GrewItself
    <2> QED BY <1>1, <2>1, <2>2, <2>3, <2>4, QuietGrew
  <1> QED BY <1>1, HostKeeps, DeliverKeeps DEF Next

\* Of every process whose history excuses nothing, what StateNet knows becomes,
\* event by event of those that wait, what the kernel holds.
THEOREM EndpointInvariant == Spec => []EndpointInv
  <1>1. Init => EndpointInv
    BY EndpointsAtFirst
  <1>2. EndpointInv /\ [Next]_vars => EndpointInv'
    BY EndpointsStay
  <1> QED BY <1>1, <1>2, PTL DEF Spec

\* A TLS fragment attributed to an endpoint has its bytes from there or sends
\* them there, however the events of the rings interleave and whatever has been
\* closed, duplicated, inherited, evicted or linked again, unless an event was
\* lost or overtaken or the process did what no hook reports.
\* (state.rs: record_tls_fragment)
THEOREM AttributionIsReal == Spec => []FullEndpointsAreReal
  <1>1. EndpointInv => FullEndpointsAreReal
    BY DEF EndpointInv
  <1> QED BY <1>1, EndpointInvariant, PTL
-----------------------------------------------------------------------------
(* StateNet: what it keeps.                                                *)

\* An event after which a descriptor is another one.
Bumps(ev, key) ==
    \/ ev.kind = "open" /\ ev.ret \in Fds /\ key = <<ev.pid, ev.ret>>
    \/ ev.kind = "dup" /\ key = <<ev.pid, ev.newfd>>

DescriptorOf(assoc) == <<assoc.key[1], assoc.value.fd>>

\* The descriptors whose associations an event may cost.
GivenUp(n, ev, m) ==
    (KeysIn(n.fds) \ KeysIn(m.fds)) \cup IF ev.kind = "dup" THEN {<<ev.pid, ev.newfd>>} ELSE {}

Preserves(n, ev, m) ==
    /\ \A key \in DOMAIN m.versions : Bumps(ev, key) \/ m.versions[key] = VersionOr(n, key, 1)
    /\ ev.kind # "assoc" =>
          \A i \in DOMAIN n.assocs :
             DescriptorOf(n.assocs[i]) \notin GivenUp(n, ev, m) => n.assocs[i].key \in KeysIn(m.assocs)
    /\ ev.kind = "connect" =>
          /\ <<ev.pid, ev.fd>> \in KeysIn(m.fds)
          /\ \A i \in DOMAIN m.fds :
                m.fds[i].key = <<ev.pid, ev.fd>> => m.fds[i].value.endpoint = ev.peer
    /\ ev.kind = "assoc" =>
          /\ <<ev.pid, ev.ssl, ev.direction>> \in KeysIn(m.assocs)
          /\ \A i \in DOMAIN m.assocs : Relates(ev, m.assocs[i].key) =>
                m.assocs[i].value.version = VersionOr(n, <<ev.pid, ev.fd>>, 1)
    /\ \A i \in DOMAIN m.assocs : \/ Relates(ev, m.assocs[i].key)
                                  \/ \E j \in DOMAIN n.assocs : m.assocs[i] = n.assocs[j]

LEMMA InsertedIsThere ==
    ASSUME NEW list, IsSeq(list), NEW key, NEW value, NEW capacity \in Nat \ {0}
    PROVE  key \in KeysIn(InsertYoungest(list, key, value, capacity))
  <1> DEFINE rest == RemoveKeys(list, {key})
             new == [key |-> key, value |-> value]
             grown == Append(rest, new)
             r == InsertYoungest(list, key, value, capacity)
  <1>1. IsSeq(rest)
    BY RemoveKeysFacts
  <1>2. r = IF Len(grown) > capacity THEN Tail(grown) ELSE grown
    BY DEF InsertYoungest
  <1>3. new.key = key
    OBVIOUS
  <1> HIDE DEF rest, new, r
  <1>4. /\ IsSeq(grown) /\ Len(grown) = Len(rest) + 1 /\ DOMAIN grown = 1 .. Len(rest) + 1
        /\ grown[Len(rest) + 1] = new /\ Len(rest) \in Nat
    BY <1>1, AppendFacts, SeqFacts
  <1> HIDE DEF grown
  <1>5. \E k \in DOMAIN r : r[k] = new
    <2>1. CASE Len(grown) > capacity
      <3>1. Len(grown) # 0 /\ Len(rest) \in 1 .. Len(grown) - 1
        BY <1>4, <2>1
      <3>2. DOMAIN Tail(grown) = 1 .. Len(grown) - 1
            /\ \A i \in 1 .. Len(grown) - 1 : Tail(grown)[i] = grown[i + 1]
        BY <1>4, <3>1, TailFacts
      <3>3. Len(rest) \in DOMAIN Tail(grown) /\ Tail(grown)[Len(rest)] = new
        BY <1>4, <3>1, <3>2
      <3> QED BY <1>2, <2>1, <3>3
    <2>2. CASE ~(Len(grown) > capacity)
      <3>1. Len(rest) + 1 \in DOMAIN grown
        BY <1>4
      <3> QED BY <1>2, <1>4, <2>2, <3>1
    <2> QED BY <2>1, <2>2
  <1> QED BY <1>3, <1>5 DEF KeysIn, r

LEMMA WithoutAssocsKeeps ==
    ASSUME NEW assocs, IsSeq(assocs), NEW keys
    PROVE  \A i \in DOMAIN assocs : DescriptorOf(assocs[i]) \notin keys =>
              assocs[i].key \in KeysIn(WithoutAssocsOf(assocs, keys))
  <1> DEFINE kept == {i \in DOMAIN assocs :
                         <<assocs[i].key[1], assocs[i].value.fd>> \notin keys}
             r == WithoutAssocsOf(assocs, keys)
  <1>1. kept \in SUBSET DOMAIN assocs /\ r = Picked(assocs, kept)
    BY DEF WithoutAssocsOf
  <1>2. \A i \in DOMAIN assocs : DescriptorOf(assocs[i]) \notin keys => i \in kept
    BY DEF DescriptorOf
  <1> HIDE DEF kept, r
  <1>3. Range(r) = {assocs[i] : i \in kept}
    BY <1>1, PickedFacts
  <1>4. \A i \in kept : \E k \in DOMAIN r : r[k] = assocs[i]
    <2> TAKE i \in kept
    <2>1. assocs[i] \in Range(r)
      BY <1>3
    <2> QED BY <2>1 DEF Range
  <1>5. \A i \in kept : assocs[i].key \in KeysIn(r)
    BY <1>4 DEF KeysIn
  <1> QED BY <1>2, <1>5 DEF r

LEMMA RememberKeeps ==
    ASSUME NEW n, NEW most \in Nat, Tidy(n, most), NEW key, NEW version, NEW endpoint,
           NEW m, m = RememberFd(n, key, version, endpoint)
    PROVE  /\ m.versions = Put(n.versions, key, version)
           /\ key \in KeysIn(m.fds)
           /\ \A i \in DOMAIN m.fds : m.fds[i].key = key => m.fds[i].value.endpoint = endpoint
           /\ \A i \in DOMAIN n.assocs :
                 DescriptorOf(n.assocs[i]) \notin KeysIn(n.fds) \ KeysIn(m.fds)
                 => n.assocs[i].key \in KeysIn(m.assocs)
  <1> DEFINE value == [version |-> version, endpoint |-> endpoint]
             fds == InsertYoungest(n.fds, key, value, FdCapacity)
             gone == KeysIn(n.fds) \ KeysIn(fds)
             assocs == WithoutAssocsOf(n.assocs, gone)
             versions == Put(n.versions, key, version)
  <1>1. m = [versions |-> versions, fds |-> fds, endpoints |-> n.endpoints, assocs |-> assocs]
    <2>1. m = [n EXCEPT !.versions = versions, !.fds = fds, !.assocs = assocs]
      BY DEF RememberFd
    <2> HIDE DEF versions, fds, assocs
    <2> QED BY <2>1, Remade
  <1>2. IsSeq(n.fds) /\ IsSeq(n.assocs) /\ FdCapacity \in Nat \ {0}
    BY StateNetAssumption DEF Tidy
  <1>3. key \in KeysIn(fds)
    <2> HIDE DEF value
    <2> QED BY <1>2, InsertedIsThere
  <1>4. \A i \in DOMAIN m.fds : m.fds[i].key = key => m.fds[i].value.endpoint = endpoint
    BY RememberWorks DEF Renewed
  <1> HIDE DEF value, fds
  <1>5. \A i \in DOMAIN n.assocs : DescriptorOf(n.assocs[i]) \notin gone => n.assocs[i].key \in KeysIn(assocs)
    <2> HIDE DEF gone
    <2> QED BY <1>2, WithoutAssocsKeeps
  <1> HIDE DEF assocs, versions
  <1>6. m.versions = versions /\ m.fds = fds /\ m.assocs = assocs
    BY <1>1
  <1> QED BY <1>3, <1>4, <1>5, <1>6 DEF gone, versions

LEMMA CloseKeepsAssocs ==
    ASSUME NEW n, NEW most \in Nat, Tidy(n, most), NEW key, NEW m, m = CloseFd(n, key)
    PROVE  /\ m.versions = Put(n.versions, key, BumpVersion(n, key))
           /\ \A i \in DOMAIN n.assocs : DescriptorOf(n.assocs[i]) # key
                 => n.assocs[i].key \in KeysIn(m.assocs)
  <1> DEFINE fds == RemoveKeys(n.fds, {key})
             gone == {key}
             assocs == WithoutAssocsOf(n.assocs, gone)
             versions == Put(n.versions, key, BumpVersion(n, key))
  <1>1. m = [versions |-> versions, fds |-> fds, endpoints |-> n.endpoints, assocs |-> assocs]
    <2>1. m = [n EXCEPT !.versions = versions, !.fds = fds, !.assocs = assocs]
      BY DEF CloseFd
    <2> HIDE DEF versions, fds, assocs
    <2> QED BY <2>1, Remade
  <1>2. IsSeq(n.assocs)
    BY DEF Tidy
  <1>3. \A x : x \notin gone <=> x # key
    OBVIOUS
  <1> HIDE DEF gone, fds
  <1>5. \A i \in DOMAIN n.assocs : DescriptorOf(n.assocs[i]) \notin gone => n.assocs[i].key \in KeysIn(assocs)
    BY <1>2, WithoutAssocsKeeps
  <1> HIDE DEF assocs, versions
  <1>6. m.versions = versions /\ m.assocs = assocs
    BY <1>1
  <1> QED BY <1>3, <1>5, <1>6 DEF versions

\* prune takes versions and endpoints away, and nothing else.
LEMMA PruneKeeps ==
    ASSUME NEW n, NEW most, Tidy(n, most)
    PROVE  /\ DOMAIN Prune(n).versions \subseteq DOMAIN n.versions
           /\ \A x \in DOMAIN Prune(n).versions : Prune(n).versions[x] = n.versions[x]
           /\ Prune(n).fds = n.fds /\ Prune(n).assocs = n.assocs
  <1> DEFINE v == PrunedVersions(n)
             e == IF Len(n.endpoints) > EndpointCapacity THEN Tail(n.endpoints)
                  ELSE n.endpoints
             m == Prune(n)
  <1>1. m = [versions |-> v, fds |-> n.fds, endpoints |-> e, assocs |-> n.assocs]
    <2>1. m = [n EXCEPT !.versions = v, !.endpoints = e]
      BY DEF Prune
    <2> HIDE DEF v, e
    <2> QED BY <2>1, Repruned
  <1>2. DOMAIN v \subseteq DOMAIN n.versions /\ \A x \in DOMAIN v : v[x] = n.versions[x]
    BY DEF PrunedVersions, Keep
  <1> HIDE DEF v, e, m
  <1>3. m.versions = v /\ m.fds = n.fds /\ m.assocs = n.assocs
    BY <1>1
  <1> QED BY <1>2, <1>3 DEF m

LEMMA PrunePreserves ==
    ASSUME NEW n, NEW ev, NEW m, NEW most, Tidy(m, most), Preserves(n, ev, m)
    PROVE  Preserves(n, ev, Prune(m))
  <1> DEFINE r == Prune(m)
  <1>1. /\ DOMAIN r.versions \subseteq DOMAIN m.versions
        /\ \A x \in DOMAIN r.versions : r.versions[x] = m.versions[x]
        /\ r.fds = m.fds /\ r.assocs = m.assocs
    BY PruneKeeps
  <1> HIDE DEF r
  <1>2. Preserves(n, ev, r)
    BY <1>1 DEF Preserves, GivenUp
  <1> QED BY <1>2 DEF r

\* remember_fd and close_fd.
LEMMA RememberPreserves ==
    ASSUME NEW n, Tidy(n, EndpointCapacity), NEW ev, ev.kind \in {"open", "dup", "connect"},
           NEW key, NEW version, NEW endpoint, Bumps(ev, key) \/ version = VersionOr(n, key, 1),
           ev.kind = "connect" => key = <<ev.pid, ev.fd>> /\ endpoint = ev.peer,
           NEW m, m = RememberFd(n, key, version, endpoint)
    PROVE  Preserves(n, ev, m)
  <1>0. EndpointCapacity \in Nat
    BY StateNetAssumption
  <1>1. /\ m.versions = Put(n.versions, key, version)
        /\ key \in KeysIn(m.fds)
        /\ \A i \in DOMAIN m.fds : m.fds[i].key = key => m.fds[i].value.endpoint = endpoint
        /\ \A i \in DOMAIN n.assocs :
              DescriptorOf(n.assocs[i]) \notin KeysIn(n.fds) \ KeysIn(m.fds)
              => n.assocs[i].key \in KeysIn(m.assocs)
    BY <1>0, RememberKeeps
  <1>2. \A i \in DOMAIN m.assocs : \E j \in DOMAIN n.assocs : m.assocs[i] = n.assocs[j]
    BY <1>0, RememberWorks DEF Renewed
  <1>3. \A x \in DOMAIN m.versions : Bumps(ev, x) \/ m.versions[x] = VersionOr(n, x, 1)
    BY <1>1 DEF Put, VersionOr
  <1>4. ev.kind # "assoc"
    OBVIOUS
  <1>5. \A i \in DOMAIN n.assocs :
             DescriptorOf(n.assocs[i]) \notin GivenUp(n, ev, m) => n.assocs[i].key \in KeysIn(m.assocs)
    BY <1>1 DEF GivenUp
  <1> QED BY <1>1, <1>2, <1>3, <1>4, <1>5 DEF Preserves

LEMMA ClosePreserves ==
    ASSUME NEW n, Tidy(n, EndpointCapacity), NEW ev, ev.kind = "dup",
           NEW m, m = CloseFd(n, <<ev.pid, ev.newfd>>)
    PROVE  Preserves(n, ev, m)
  <1> DEFINE key == <<ev.pid, ev.newfd>>
  <1>0. EndpointCapacity \in Nat
    BY StateNetAssumption
  <1>1. Bumps(ev, key) /\ key \in GivenUp(n, ev, m)
    BY DEF Bumps, GivenUp
  <1>2. m = CloseFd(n, key)
    OBVIOUS
  <1> HIDE DEF key
  <1>3. /\ m.versions = Put(n.versions, key, BumpVersion(n, key))
        /\ \A i \in DOMAIN n.assocs : DescriptorOf(n.assocs[i]) # key
              => n.assocs[i].key \in KeysIn(m.assocs)
    BY <1>0, <1>2, CloseKeepsAssocs
  <1>4. \A i \in DOMAIN m.assocs : \E j \in DOMAIN n.assocs : m.assocs[i] = n.assocs[j]
    BY <1>0, <1>2, CloseWorks DEF Renewed
  <1>5. \A x \in DOMAIN m.versions : Bumps(ev, x) \/ m.versions[x] = VersionOr(n, x, 1)
    BY <1>1, <1>3 DEF Put, VersionOr, BumpVersion
  <1> QED BY <1>1, <1>3, <1>4, <1>5 DEF Preserves

LEMMA AssocPreserves ==
    ASSUME NEW n, Tidy(n, EndpointCapacity), NEW ev, ev.kind = "assoc",
           NEW m, m = ApplyTlsAssoc(n, ev)
    PROVE  Preserves(n, ev, m)
  <1> DEFINE key == <<ev.pid, ev.fd>>
             link == <<ev.pid, ev.ssl, ev.direction>>
             version == VersionOr(n, key, 1)
             versions == Put(n.versions, key, version)
             value == [fd |-> ev.fd, version |-> version]
             assocs == InsertYoungest(n.assocs, link, value, AssocCapacity)
  <1>0. AssocCapacity \in Nat \ {0}
    BY StateNetAssumption
  <1>1. m.versions = versions /\ m.assocs = assocs
    <2>1. m = [n EXCEPT !.versions = versions, !.assocs = assocs]
      BY DEF ApplyTlsAssoc
    <2> HIDE DEF versions, assocs
    <2>2. "versions" \in DOMAIN n /\ "assocs" \in DOMAIN n
      BY NetFields
    <2> QED BY <2>1, <2>2
  <1>2. value.version = version
    OBVIOUS
  <1>3. \A x : Relates(ev, x) <=> x = link
    BY DEF Relates
  <1> HIDE DEF value, link
  <1>4. link \in KeysIn(assocs)
    BY <1>0, InsertedIsThere DEF Tidy
  <1>5. \A i \in DOMAIN assocs :
              \/ assocs[i] = [key |-> link, value |-> value]
              \/ \E j \in DOMAIN n.assocs : assocs[i] = n.assocs[j] /\ n.assocs[j].key # link
    BY <1>0, InsertFacts DEF Tidy
  <1>6. \A x \in DOMAIN versions : Bumps(ev, x) \/ versions[x] = VersionOr(n, x, 1)
    BY DEF Put, VersionOr
  <1> HIDE DEF assocs, versions
  <1>7. \A i \in DOMAIN assocs : \/ assocs[i].key = link /\ assocs[i].value.version = version
                                 \/ \E j \in DOMAIN n.assocs : assocs[i] = n.assocs[j] /\ assocs[i].key # link
    <2> TAKE i \in DOMAIN assocs
    <2>1. CASE assocs[i] = [key |-> link, value |-> value]
      BY <1>2, <2>1
    <2> QED BY <1>5, <2>1
  <1>8. \A i \in DOMAIN m.assocs : Relates(ev, m.assocs[i].key) => m.assocs[i].value.version = version
    BY <1>1, <1>3, <1>7
  <1>9. \A i \in DOMAIN m.assocs : \/ Relates(ev, m.assocs[i].key)
                                   \/ \E j \in DOMAIN n.assocs : m.assocs[i] = n.assocs[j]
    BY <1>1, <1>3, <1>7
  <1> QED BY <1>1, <1>4, <1>6, <1>8, <1>9 DEF Preserves, link, version, key

LEMMA SamePreserves ==
    ASSUME NEW n, NEW most, Tidy(n, most), NEW ev, ev.kind \notin {"connect", "assoc"},
           \A x \in DOMAIN n.versions : ~Bumps(ev, x) => n.versions[x] = VersionOr(n, x, 1)
    PROVE  Preserves(n, ev, n)
  BY DEF Preserves, KeysIn

\* One event: versions and associations stay, unless it bumps or gives them up.
LEMMA ApplyNetPreserves ==
    ASSUME NEW n, Tidy(n, EndpointCapacity), NEW ev, IsEvent(ev)
    PROVE  Preserves(n, ev, ApplyNet(n, ev))
  <1>0. EndpointCapacity \in Nat
    BY StateNetAssumption
  <1>2. CASE ev.kind = "open" /\ ev.ret >= 0
    <2> DEFINE key == <<ev.pid, ev.ret>>
               version == BumpVersion(n, key)
               m == RememberFd(n, key, version, NoEndpoint)
    <2>1. ApplyNet(n, ev) = Prune(m)
      BY <1>2 DEF ApplyNet
    <2>2. Bumps(ev, key)
      BY <1>2 DEF IsEvent, Bumps
    <2> HIDE DEF key, version
    <2>3. Tidy(m, EndpointCapacity)
      BY <1>0, RememberWorks
    <2>5. ev.kind \in {"open", "dup", "connect"} /\ ev.kind # "connect"
      BY <1>2
    <2>4. Preserves(n, ev, m)
      BY <2>2, <2>5, RememberPreserves
    <2> HIDE DEF m
    <2> QED BY <2>1, <2>3, <2>4, PrunePreserves
  <1>3. CASE ev.kind = "dup"
    <2> DEFINE effect == FdDupEffect(ev.oldfd, ev.newfd, ev.ret)
               m == ApplyFdDup(n, ev)
    <2>1. ApplyNet(n, ev) = Prune(m)
      BY <1>3 DEF ApplyNet
    <2>2. Tidy(m, EndpointCapacity)
      BY <1>3, DupWorks
    <2>3. Preserves(n, ev, m)
      <3>1. CASE Duplicates(ev)
        <4> DEFINE key == <<ev.pid, ev.newfd>>
                   version == BumpVersion(n, key)
        <4>1. effect.effect = "Duplicate" /\ effect.newfd = ev.newfd
          BY <1>3, <3>1, DupEffectIs DEF IsEffect
        <4> HIDE DEF effect
        <4>2. \E endpoint : m = RememberFd(n, <<ev.pid, effect.newfd>>,
                  BumpVersion(n, <<ev.pid, effect.newfd>>), endpoint)
          BY <4>1 DEF ApplyFdDup, effect
        <4>3. PICK endpoint : m = RememberFd(n, key, version, endpoint)
          BY <4>1, <4>2
        <4>4. Bumps(ev, key)
          BY <1>3 DEF Bumps
        <4>5. ev.kind \in {"open", "dup", "connect"} /\ ev.kind # "connect"
          BY <1>3
        <4> HIDE DEF key, version, m
        <4> QED BY <4>3, <4>4, <4>5, RememberPreserves
      <3>2. CASE ~Duplicates(ev)
        <4>1. effect.effect = "Close" /\ effect.fd = ev.newfd
          BY <1>3, <3>2, DupEffectIs DEF IsEffect
        <4> HIDE DEF effect
        <4>2. m = CloseFd(n, <<ev.pid, effect.fd>>)
          BY <4>1 DEF ApplyFdDup, effect
        <4>3. m = CloseFd(n, <<ev.pid, ev.newfd>>)
          BY <4>1, <4>2
        <4> HIDE DEF m
        <4> QED BY <1>3, <4>3, ClosePreserves
      <3> QED BY <3>1, <3>2
    <2> HIDE DEF m
    <2> QED BY <2>1, <2>2, <2>3, PrunePreserves
  <1>4. CASE ev.kind = "connect"
    <2> DEFINE key == <<ev.pid, ev.fd>>
               version == VersionOr(n, key, 1)
               r == RememberFd(n, key, version, ev.peer)
               point == [key |-> key, version |-> version, dst |-> ev.peer]
               e == Append(r.endpoints, point)
               m == ApplyConnect(n, ev)
    <2>1. ApplyNet(n, ev) = Prune(m)
      BY <1>4 DEF ApplyNet
    <2>2. Tidy(m, EndpointCapacity + 1)
      BY <1>4, ConnectWorks
    <2>3. m = [r EXCEPT !.endpoints = e]
      BY DEF ApplyConnect
    <2>4. ev.kind \in {"open", "dup", "connect"} /\ version = VersionOr(n, key, 1)
          /\ key = <<ev.pid, ev.fd>>
      BY <1>4
    <2> HIDE DEF key, version
    <2>5. Tidy(r, EndpointCapacity)
      BY <1>0, RememberWorks
    <2>6. Preserves(n, ev, r)
      BY <2>4, RememberPreserves
    <2> HIDE DEF r, point, e, m
    <2>7. m = [versions |-> r.versions, fds |-> r.fds, endpoints |-> e, assocs |-> r.assocs]
      BY <2>3, <2>5, Connected
    <2>8. m.versions = r.versions /\ m.fds = r.fds /\ m.assocs = r.assocs
      BY <2>7
    <2>9. Preserves(n, ev, m)
      BY <2>6, <2>8 DEF Preserves, GivenUp
    <2> QED BY <2>1, <2>2, <2>9, PrunePreserves
  <1>5. CASE ev.kind = "assoc"
    <2> DEFINE m == ApplyTlsAssoc(n, ev)
    <2>1. ApplyNet(n, ev) = Prune(m)
      BY <1>5 DEF ApplyNet
    <2>2. Tidy(m, EndpointCapacity)
      BY <1>5, AssocWorks
    <2>3. Preserves(n, ev, m)
      BY <1>5, AssocPreserves
    <2> HIDE DEF m
    <2> QED BY <2>1, <2>2, <2>3, PrunePreserves
  <1>6. CASE /\ ~(ev.kind = "open" /\ ev.ret >= 0)
             /\ ev.kind \notin {"dup", "connect", "assoc"}
    <2>1. ApplyNet(n, ev) = Prune(n)
      BY <1>6 DEF ApplyNet
    <2>2. Preserves(n, ev, n)
      BY <1>6, SamePreserves DEF VersionOr
    <2> QED BY <2>1, <2>2, PrunePreserves
  <1> QED BY <1>2, <1>3, <1>4, <1>5, <1>6
-----------------------------------------------------------------------------
(* Views of which StateNet knows everything.                               *)

\* Every connected socket and every SSL object of view v is known.
FullOf(n, p, v) ==
    /\ \A fd \in Fds : v.sock[fd] # NoEndpoint =>
          /\ <<p, fd>> \in KeysIn(n.fds)
          /\ \A i \in DOMAIN n.fds :
                n.fds[i].key = <<p, fd>> => n.fds[i].value.endpoint = v.sock[fd]
    /\ \A ssl \in Ssls, direction \in Directions : v.link[<<ssl, direction>>] # NoFd =>
          /\ <<p, ssl, direction>> \in KeysIn(n.assocs)
          /\ \A i \in DOMAIN n.assocs : n.assocs[i].key = <<p, ssl, direction>> =>
                /\ n.assocs[i].value.fd = v.link[<<ssl, direction>>]
                /\ n.assocs[i].value.version = VersionOr(n, <<p, v.link[<<ssl, direction>>]>>, 1)

\* An event tells all of what makes view v of process p view w.
Tells(p, ev, v, w) ==
    /\ \A fd \in Fds : w.sock[fd] # NoEndpoint =>
          \/ ev.kind = "connect" /\ <<p, fd>> = <<ev.pid, ev.fd>> /\ w.sock[fd] = ev.peer
          \/ ~Touches(ev, <<p, fd>>) /\ w.sock[fd] = v.sock[fd]
    /\ \A ssl \in Ssls, direction \in Directions : w.link[<<ssl, direction>>] # NoFd =>
          \/ Relates(ev, <<p, ssl, direction>>) /\ w.link[<<ssl, direction>>] = ev.fd
          \/ /\ ~Relates(ev, <<p, ssl, direction>>)
             /\ w.link[<<ssl, direction>>] = v.link[<<ssl, direction>>]
             /\ ~Bumps(ev, <<p, w.link[<<ssl, direction>>]>>)
    /\ ev.kind = "fragment" /\ ev.pid = p =>
          /\ v.link[<<ev.ssl, ev.direction>>] \in Fds
          /\ v.sock[v.link[<<ev.ssl, ev.direction>>]] = ev.real
          /\ ev.real # NoEndpoint

\* The processes of which something is forgotten, as the history has it.
Forgotten(n, ev, m) ==
    {key[1] : key \in
        (DOMAIN n.versions \ DOMAIN m.versions)
        \cup ((KeysIn(n.fds) \ KeysIn(m.fds))
                 \ IF ev.kind = "dup" THEN {<<ev.pid, ev.newfd>>} ELSE {})
        \cup IF ev.kind = "assoc" THEN KeysIn(n.assocs) \ KeysIn(m.assocs) ELSE {}}

LEMMA OthersTell ==
    ASSUME NEW p, NEW ev, ev.pid # p, NEW v
    PROVE  Tells(p, ev, v, v)
  BY DEF Tells, Touches, Relates, Bumps

LEMMA NotForgotten ==
    ASSUME NEW n, NEW ev, NEW m, NEW p, p \notin Forgotten(n, ev, m)
    PROVE  /\ \A fd : <<p, fd>> \in DOMAIN n.versions => <<p, fd>> \in DOMAIN m.versions
           /\ \A fd : <<p, fd>> \in KeysIn(n.fds) =>
                 \/ <<p, fd>> \in KeysIn(m.fds)
                 \/ ev.kind = "dup" /\ <<p, fd>> = <<ev.pid, ev.newfd>>
           /\ \A ssl, direction :
                 ev.kind = "assoc" /\ <<p, ssl, direction>> \in KeysIn(n.assocs)
                 => <<p, ssl, direction>> \in KeysIn(m.assocs)
  <1> DEFINE versions == DOMAIN n.versions \ DOMAIN m.versions
             fds == (KeysIn(n.fds) \ KeysIn(m.fds))
                       \ IF ev.kind = "dup" THEN {<<ev.pid, ev.newfd>>} ELSE {}
             assocs == IF ev.kind = "assoc" THEN KeysIn(n.assocs) \ KeysIn(m.assocs) ELSE {}
  <1>1. Forgotten(n, ev, m) = {key[1] : key \in versions \cup fds \cup assocs}
    BY DEF Forgotten
  <1>2. \A key \in versions \cup fds \cup assocs : key[1] # p
    BY <1>1
  <1>3. \A fd : <<p, fd>> \notin versions /\ <<p, fd>> \notin fds
    <2> TAKE fd
    <2>1. <<p, fd>>[1] = p
      OBVIOUS
    <2> HIDE DEF versions, fds
    <2> QED BY <1>2, <2>1
  <1>4. \A ssl, direction : <<p, ssl, direction>> \notin assocs
    <2> TAKE ssl, direction
    <2>1. <<p, ssl, direction>>[1] = p
      OBVIOUS
    <2> HIDE DEF assocs
    <2> QED BY <1>2, <2>1
  <1> QED BY <1>3, <1>4

LEMMA FullAdvances ==
    ASSUME NEW n, NEW ev, NEW m, Follows(n, ev, m), Preserves(n, ev, m),
           NEW p, p \notin Forgotten(n, ev, m), NEW v, NEW w, FullOf(n, p, v), Tells(p, ev, v, w)
    PROVE  FullOf(m, p, w)
  <1>1. /\ \A fd : <<p, fd>> \in DOMAIN n.versions => <<p, fd>> \in DOMAIN m.versions
        /\ \A fd : <<p, fd>> \in KeysIn(n.fds) =>
              \/ <<p, fd>> \in KeysIn(m.fds)
              \/ ev.kind = "dup" /\ <<p, fd>> = <<ev.pid, ev.newfd>>
        /\ \A ssl, direction :
              ev.kind = "assoc" /\ <<p, ssl, direction>> \in KeysIn(n.assocs)
              => <<p, ssl, direction>> \in KeysIn(m.assocs)
    BY NotForgotten
  <1>2. ASSUME NEW fd \in Fds, w.sock[fd] # NoEndpoint
        PROVE  /\ <<p, fd>> \in KeysIn(m.fds)
               /\ \A i \in DOMAIN m.fds :
                     m.fds[i].key = <<p, fd>> => m.fds[i].value.endpoint = w.sock[fd]
    <2>1. CASE ev.kind = "connect" /\ <<p, fd>> = <<ev.pid, ev.fd>> /\ w.sock[fd] = ev.peer
      BY <2>1 DEF Preserves
    <2>2. CASE ~Touches(ev, <<p, fd>>) /\ w.sock[fd] = v.sock[fd]
      <3>1. /\ <<p, fd>> \in KeysIn(n.fds)
            /\ \A i \in DOMAIN n.fds :
                  n.fds[i].key = <<p, fd>> => n.fds[i].value.endpoint = v.sock[fd]
        BY <1>2, <2>2 DEF FullOf
      <3>2. <<p, fd>> \in KeysIn(m.fds)
        BY <1>1, <2>2, <3>1 DEF Touches
      <3>3. \A i \in DOMAIN m.fds : m.fds[i].key = <<p, fd>> =>
               \E j \in DOMAIN n.fds : m.fds[i] = n.fds[j]
        BY <2>2 DEF Follows, FdFrom, Learned
      <3> QED BY <2>2, <3>1, <3>2, <3>3
    <2> QED BY <1>2, <2>1, <2>2 DEF Tells
  <1>3. ASSUME NEW ssl \in Ssls, NEW direction \in Directions, w.link[<<ssl, direction>>] # NoFd
        PROVE  /\ <<p, ssl, direction>> \in KeysIn(m.assocs)
               /\ \A i \in DOMAIN m.assocs : m.assocs[i].key = <<p, ssl, direction>> =>
                     /\ m.assocs[i].value.fd = w.link[<<ssl, direction>>]
                     /\ m.assocs[i].value.version
                           = VersionOr(m, <<p, w.link[<<ssl, direction>>]>>, 1)
    <2> DEFINE link == <<p, ssl, direction>>
               fd == w.link[<<ssl, direction>>]
               key == <<p, fd>>
    <2>1. ASSUME ~Bumps(ev, key)
          PROVE  VersionOr(m, key, 1) = VersionOr(n, key, 1)
      <3>1. key \in DOMAIN n.versions => key \in DOMAIN m.versions
        BY <1>1
      <3>2. key \in DOMAIN m.versions => m.versions[key] = VersionOr(n, key, 1)
        BY <2>1 DEF Preserves
      <3> HIDE DEF key
      <3> QED BY <3>1, <3>2 DEF VersionOr
    <2>2. CASE Relates(ev, link) /\ fd = ev.fd
      <3>1. ev.kind = "assoc" /\ ev.pid = p /\ link = <<ev.pid, ev.ssl, ev.direction>>
            /\ key = <<ev.pid, ev.fd>>
        BY <2>2 DEF Relates
      <3>2. ~Bumps(ev, key)
        BY <3>1 DEF Bumps
      <3>3. link \in KeysIn(m.assocs)
        BY <3>1 DEF Preserves
      <3> HIDE DEF link, key, fd
      <3>4. \A i \in DOMAIN m.assocs : m.assocs[i].key = link =>
               m.assocs[i].value.version = VersionOr(n, key, 1)
        BY <2>2, <3>1 DEF Preserves
      <3>5. \A i \in DOMAIN m.assocs : m.assocs[i].key = link => m.assocs[i].value.fd = ev.fd
        <4> TAKE i \in DOMAIN m.assocs
        <4> QED BY <2>2 DEF Follows, AssocFrom
      <3>6. VersionOr(m, key, 1) = VersionOr(n, key, 1)
        BY <2>1, <3>2
      <3> QED BY <2>2, <3>3, <3>4, <3>5, <3>6 DEF link, key, fd
    <2>3. CASE ~Relates(ev, link) /\ fd = v.link[<<ssl, direction>>] /\ ~Bumps(ev, key)
      <3>1. /\ link \in KeysIn(n.assocs)
            /\ \A i \in DOMAIN n.assocs : n.assocs[i].key = link =>
                  n.assocs[i].value.fd = fd /\ n.assocs[i].value.version = VersionOr(n, key, 1)
        BY <1>3, <2>3 DEF FullOf
      <3>2. VersionOr(m, key, 1) = VersionOr(n, key, 1)
        BY <2>1, <2>3
      <3>3. \A i \in DOMAIN m.assocs : m.assocs[i].key = link =>
               \E j \in DOMAIN n.assocs : m.assocs[i] = n.assocs[j]
        BY <2>3 DEF Preserves
      <3>4. link \in KeysIn(m.assocs)
        <4>1. CASE ev.kind = "assoc"
          BY <1>1, <3>1, <4>1
        <4>2. CASE ev.kind # "assoc"
          <5>1. PICK i \in DOMAIN n.assocs : n.assocs[i].key = link
            BY <3>1 DEF KeysIn
          <5>2. link[1] = p /\ n.assocs[i].value.fd = fd
            BY <3>1, <5>1
          <5>3. DescriptorOf(n.assocs[i]) = key
            BY <5>1, <5>2 DEF DescriptorOf
          <5>4. ev.kind = "dup" => key # <<ev.pid, ev.newfd>>
            BY <2>3 DEF Bumps
          <5>5. key \in KeysIn(n.fds) => key \in KeysIn(m.fds)
            BY <1>1, <5>4
          <5> HIDE DEF key, link, fd
          <5>6. key \notin GivenUp(n, ev, m)
            BY <5>4, <5>5 DEF GivenUp
          <5> QED BY <4>2, <5>1, <5>3, <5>6 DEF Preserves
        <4> QED BY <4>1, <4>2
      <3> HIDE DEF link, key, fd
      <3> QED BY <3>1, <3>2, <3>3, <3>4 DEF link, key, fd
    <2>4. \/ Relates(ev, link) /\ fd = ev.fd
          \/ ~Relates(ev, link) /\ fd = v.link[<<ssl, direction>>] /\ ~Bumps(ev, key)
      BY <1>3 DEF Tells
    <2> QED BY <2>2, <2>3, <2>4
  <1> QED BY <1>2, <1>3 DEF FullOf

\* What is said of a fragment of a view that is known in full.
LEMMA FragmentAttributed ==
    ASSUME NEW n, NEW most, Tidy(n, most), NEW p, NEW v, FullOf(n, p, v),
           NEW ssl \in Ssls, NEW direction \in Directions,
           v.link[<<ssl, direction>>] \in Fds,
           v.sock[v.link[<<ssl, direction>>]] # NoEndpoint
    PROVE  RecordTlsFragment(n, p, ssl, direction).endpoint
               = v.sock[v.link[<<ssl, direction>>]]
  <1> DEFINE link == <<p, ssl, direction>>
             assoc == ValueOf(n.assocs, link)
             fd == v.link[<<ssl, direction>>]
             key == <<p, fd>>
             known == ValueOf(n.fds, key)
  <1>1. fd # NoFd
    BY HostAssumption DEF NoFd
  <1>2. /\ link \in KeysIn(n.assocs)
        /\ \A i \in DOMAIN n.assocs : n.assocs[i].key = link =>
              n.assocs[i].value.fd = fd /\ n.assocs[i].value.version = VersionOr(n, key, 1)
    BY <1>1 DEF FullOf
  <1>3. /\ key \in KeysIn(n.fds)
        /\ \A i \in DOMAIN n.fds : n.fds[i].key = key => n.fds[i].value.endpoint = v.sock[fd]
    BY DEF FullOf
  <1> HIDE DEF link, fd, key
  <1>4. assoc.fd = fd /\ assoc.version = VersionOr(n, key, 1)
    <2>1. PICK i \in DOMAIN n.assocs : n.assocs[i].key = link /\ assoc = n.assocs[i].value
      BY <1>2, ValueOfFacts
    <2> HIDE DEF assoc
    <2> QED BY <1>2, <2>1
  <1>5. known.endpoint = v.sock[fd] /\ known.version = VersionOr(n, key, 1)
    <2>1. PICK i \in DOMAIN n.fds : n.fds[i].key = key /\ known = n.fds[i].value
      BY <1>3, ValueOfFacts
    <2> HIDE DEF known
    <2>2. key \in DOMAIN n.versions /\ n.versions[key] = known.version
      BY <2>1 DEF Tidy
    <2> QED BY <1>3, <2>1, <2>2 DEF VersionOr
  <1>6. v.sock[fd] # NoEndpoint
    BY DEF fd
  <1>7. key = <<p, assoc.fd>>
    BY <1>4 DEF key
  <1> DEFINE told == [endpoint |-> known.endpoint, reason |-> "none"]
  <1>8. RecordTlsFragment(n, p, ssl, direction) = told
    <2> HIDE DEF assoc, known
    <2> QED BY <1>2, <1>3, <1>4, <1>5, <1>6, <1>7 DEF RecordTlsFragment, link, assoc, known
  <1>9. told.endpoint = known.endpoint
    OBVIOUS
  <1> HIDE DEF told, known, assoc
  <1>10. RecordTlsFragment(n, p, ssl, direction).endpoint = v.sock[fd]
    BY <1>5, <1>8, <1>9
  <1> QED BY <1>10 DEF fd
-----------------------------------------------------------------------------
(* Chains of views of which StateNet knows everything.                      *)

\* c[k] is a view of process p after the first k events that wait.
FullChain(p, n, flt, c) ==
    /\ FullOf(n, p, c[0])
    /\ \A j, k \in 0 .. Len(flt) :
          j <= k /\ (\A i \in j + 1 .. k : flt[i].pid # p) => c[j] = c[k]
    /\ \A k \in 1 .. Len(flt) : flt[k].pid = p => Tells(p, flt[k], c[k - 1], c[k])

\* The chain with one more view.
Extended(c, L, w) == [k \in 0 .. L + 1 |-> IF k = L + 1 THEN w ELSE c[k]]

\* One more event waits.
LEMMA FullChainAppends ==
    ASSUME NEW p, NEW n, NEW flt, Events(flt), NEW c, FullChain(p, n, flt, c), NEW ev,
           NEW w,
           ev.pid = p => Tells(p, ev, c[Len(flt)], w),
           ev.pid = p \/ c[Len(flt)] = w
    PROVE  /\ FullChain(p, n, Append(flt, ev), Extended(c, Len(flt), w))
           /\ Extended(c, Len(flt), w)[Len(flt) + 1] = w
  <1> DEFINE L == Len(flt)
             all == Append(flt, ev)
             d == Extended(c, L, w)
  <1>1. L \in Nat /\ DOMAIN flt = 1 .. L
    BY SeqFacts DEF Events
  <1>2. Len(all) = L + 1 /\ (\A k \in 1 .. L : all[k] = flt[k]) /\ all[L + 1] = ev
    BY <1>1, AppendFacts DEF Events
  <1> HIDE DEF all
  <1>4. (\A k \in 0 .. L : d[k] = c[k]) /\ d[L + 1] = w
    BY <1>1 DEF Extended
  <1> HIDE DEF d
  <1>5. FullOf(n, p, d[0])
    BY <1>1, <1>4 DEF FullChain
  <1>6. \A j, k \in 0 .. L + 1 :
           j <= k /\ (\A i \in j + 1 .. k : all[i].pid # p) => d[j] = d[k]
    <2> SUFFICES ASSUME NEW j \in 0 .. L + 1, NEW k \in 0 .. L + 1, j <= k,
                        \A i \in j + 1 .. k : all[i].pid # p
                 PROVE  d[j] = d[k]
      OBVIOUS
    <2>1. CASE j = k
      BY <2>1
    <2>2. CASE j # k /\ k # L + 1
      <3>1. j \in 0 .. L /\ k \in 0 .. L
        BY <1>1, <2>2
      <3>2. \A i \in j + 1 .. k : flt[i].pid # p
        BY <1>1, <1>2, <3>1
      <3> QED BY <1>4, <3>1, <3>2 DEF FullChain
    <2>3. CASE j # k /\ k = L + 1
      <3>1. j \in 0 .. L /\ L \in 0 .. L /\ j <= L
        BY <1>1, <2>3
      <3>2. \A i \in j + 1 .. L : flt[i].pid # p
        <4> TAKE i \in j + 1 .. L
        <4>1. i \in j + 1 .. k /\ i \in 1 .. L
          BY <1>1, <2>3
        <4> QED BY <1>2, <4>1
      <3>3. c[j] = c[L]
        BY <3>1, <3>2 DEF FullChain
      <3>4. ev.pid # p
        <4>1. L + 1 \in j + 1 .. k
          BY <1>1, <2>3
        <4> QED BY <1>2, <4>1
      <3>5. c[L] = w
        BY <3>4
      <3> QED BY <1>4, <2>3, <3>1, <3>3, <3>5
    <2> QED BY <2>1, <2>2, <2>3
  <1>7. \A k \in 1 .. L + 1 : all[k].pid = p => Tells(p, all[k], d[k - 1], d[k])
    <2> SUFFICES ASSUME NEW k \in 1 .. L + 1, all[k].pid = p
                 PROVE  Tells(p, all[k], d[k - 1], d[k])
      OBVIOUS
    <2>1. CASE k # L + 1
      <3>1. k \in 1 .. L /\ k - 1 \in 0 .. L /\ k \in 0 .. L
        BY <1>1, <2>1
      <3>2. all[k] = flt[k] /\ d[k - 1] = c[k - 1] /\ d[k] = c[k]
        BY <1>2, <1>4, <3>1
      <3> QED BY <3>1, <3>2 DEF FullChain
    <2>2. CASE k = L + 1
      <3>1. k - 1 = L /\ L \in 0 .. L
        BY <1>1, <2>2
      <3>2. all[k] = ev /\ d[k - 1] = c[L] /\ d[k] = w
        BY <1>2, <1>4, <2>2, <3>1
      <3> QED BY <3>2
    <2> QED BY <2>1, <2>2
  <1>8. FullChain(p, n, all, d)
    BY <1>2, <1>5, <1>6, <1>7 DEF FullChain
  <1> QED BY <1>4, <1>8 DEF all, d, L

\* An event of another process is processed.
LEMMA FullChainDrops ==
    ASSUME NEW p, NEW n, NEW flt, Events(flt), NEW c, FullChain(p, n, flt, c),
           NEW i \in DOMAIN flt, flt[i].pid # p, NEW rest, Rest(flt, i, rest),
           NEW m, Follows(n, flt[i], m),
           Preserves(n, flt[i], m), p \notin Forgotten(n, flt[i], m)
    PROVE  \E d : FullChain(p, m, rest, d) /\ d[Len(rest)] = c[Len(flt)]
  <1> DEFINE L == Len(flt)
             R == Len(rest)
             at(k) == IF k < i - 1 THEN k ELSE k + 1
             d == [k \in 0 .. R |-> c[at(k)]]
  <1>1. L \in Nat /\ DOMAIN flt = 1 .. L /\ i \in 1 .. L /\ R = L - 1
    BY SeqFacts DEF Events, Rest
  <1> HIDE DEF L, R
  <1>2. \A k \in 0 .. R : at(k) \in 0 .. L
    BY <1>1
  <1>4. \A k \in 0 .. R : d[k] = c[at(k)]
    OBVIOUS
  <1> HIDE DEF d
  <1>5. \A k \in 1 .. R : rest[k] = IF k < i THEN flt[k] ELSE flt[k + 1]
    BY DEF Rest, R
  <1>6. \A j, k \in 0 .. L :
           j <= k /\ (\A x \in j + 1 .. k : flt[x].pid # p) => c[j] = c[k]
    BY DEF FullChain, L
  <1>7. \A j, k \in 0 .. R :
           j <= k /\ (\A x \in j + 1 .. k : rest[x].pid # p) => d[j] = d[k]
    <2> SUFFICES ASSUME NEW j \in 0 .. R, NEW k \in 0 .. R, j <= k,
                        \A x \in j + 1 .. k : rest[x].pid # p
                 PROVE  d[j] = d[k]
      OBVIOUS
    <2>1. at(j) \in 0 .. L /\ at(k) \in 0 .. L /\ at(j) <= at(k)
      BY <1>1
    <2>2. \A x \in at(j) + 1 .. at(k) : flt[x].pid # p
      <3> TAKE x \in at(j) + 1 .. at(k)
      <3>1. CASE x < i
        <4>1. x \in j + 1 .. k /\ x \in 1 .. R
          BY <1>1, <3>1
        <4> QED BY <1>5, <3>1, <4>1
      <3>2. CASE x = i
        BY <3>2
      <3>3. CASE x > i
        <4>1. x - 1 \in j + 1 .. k /\ x - 1 \in 1 .. R /\ ~(x - 1 < i) /\ (x - 1) + 1 = x
          BY <1>1, <3>3
        <4>2. rest[x - 1] = flt[x]
          BY <1>5, <4>1
        <4> QED BY <4>1, <4>2
      <3> QED BY <1>1, <3>1, <3>2, <3>3
    <2> HIDE DEF at
    <2> QED BY <1>4, <1>6, <2>1, <2>2
  <1>8. c[i - 1] = c[i]
    <2>1. i - 1 \in 0 .. L /\ i \in 0 .. L /\ i - 1 <= i
      BY <1>1
    <2>2. \A x \in (i - 1) + 1 .. i : flt[x].pid # p
      BY <1>1
    <2> QED BY <1>6, <2>1, <2>2
  <1>9. \A k \in 1 .. R : rest[k].pid = p => Tells(p, rest[k], d[k - 1], d[k])
    <2> SUFFICES ASSUME NEW k \in 1 .. R, rest[k].pid = p
                 PROVE  Tells(p, rest[k], d[k - 1], d[k])
      OBVIOUS
    <2>0. k \in 0 .. R /\ k - 1 \in 0 .. R /\ k \in 1 .. L /\ k + 1 \in 1 .. L
      BY <1>1
    <2>1. \A x \in 1 .. L : flt[x].pid = p => Tells(p, flt[x], c[x - 1], c[x]) /\ IsEvent(flt[x])
      BY <1>1 DEF FullChain, Events, L
    <2>2. CASE k < i - 1
      <3>1. at(k) = k /\ at(k - 1) = k - 1 /\ k < i
        BY <1>1, <2>0, <2>2
      <3> HIDE DEF at
      <3> QED BY <1>4, <1>5, <2>0, <2>1, <3>1
    <2>3. CASE k = i - 1
      <3>1. at(k) = i /\ at(k - 1) = k - 1 /\ k < i
        BY <1>1, <2>0, <2>3
      <3> HIDE DEF at
      <3>2. rest[k] = flt[k] /\ d[k - 1] = c[k - 1] /\ d[k] = c[i]
        BY <1>4, <1>5, <2>0, <3>1
      <3>3. Tells(p, flt[k], c[k - 1], c[k]) /\ IsEvent(flt[k]) /\ c[k] = c[i]
        BY <1>8, <2>0, <2>1, <2>3, <3>2
      <3> QED BY <3>2, <3>3
    <2>4. CASE k >= i
      <3>1. at(k) = k + 1 /\ at(k - 1) = k /\ ~(k < i) /\ (k + 1) - 1 = k
        BY <1>1, <2>0, <2>4
      <3> HIDE DEF at
      <3>2. rest[k] = flt[k + 1] /\ d[k - 1] = c[k] /\ d[k] = c[k + 1]
        BY <1>4, <1>5, <2>0, <3>1
      <3>3. Tells(p, flt[k + 1], c[(k + 1) - 1], c[k + 1])
        BY <2>0, <2>1, <3>2
      <3> QED BY <3>1, <3>2, <3>3
    <2> QED BY <1>1, <2>2, <2>3, <2>4
  <1>10. FullOf(m, p, d[0])
    <2>1. FullOf(n, p, c[0])
      BY DEF FullChain
    <2>2. 0 \in 0 .. R
      BY <1>1
    <2>3. CASE i = 1
      <3>1. at(0) = 1
        BY <2>3
      <3> HIDE DEF at
      <3>2. d[0] = c[1] /\ c[0] = c[1]
        BY <1>4, <1>8, <2>2, <2>3, <3>1
      <3> QED BY <2>1, <3>2, OthersTell, FullAdvances
    <2>4. CASE i # 1
      <3>1. at(0) = 0
        BY <1>1, <2>4
      <3> HIDE DEF at
      <3>2. d[0] = c[0]
        BY <1>4, <2>2, <3>1
      <3> QED BY <2>1, <3>2, OthersTell, FullAdvances
    <2> QED BY <2>3, <2>4
  <1>11. d[R] = c[L]
    <2>1. at(R) = L /\ R \in 0 .. R
      BY <1>1
    <2> HIDE DEF at
    <2> QED BY <1>4, <2>1
  <1>12. FullChain(p, m, rest, d)
    BY <1>7, <1>9, <1>10 DEF FullChain, R
  <1> QED BY <1>11, <1>12 DEF L, R

\* The first event of the process is processed.
LEMMA FullChainAdvances ==
    ASSUME NEW p, NEW n, NEW flt, Events(flt), NEW c, FullChain(p, n, flt, c),
           NEW i \in DOMAIN flt, flt[i].pid = p, \A x \in 1 .. i - 1 : flt[x].pid # p,
           NEW rest, Rest(flt, i, rest), NEW m, Follows(n, flt[i], m),
           Preserves(n, flt[i], m), p \notin Forgotten(n, flt[i], m)
    PROVE  \E d : FullChain(p, m, rest, d) /\ d[Len(rest)] = c[Len(flt)]
  <1> DEFINE L == Len(flt)
             R == Len(rest)
             at(k) == IF k < i THEN i ELSE k + 1
             d == [k \in 0 .. R |-> c[at(k)]]
  <1>1. L \in Nat /\ DOMAIN flt = 1 .. L /\ i \in 1 .. L /\ R = L - 1
    BY SeqFacts DEF Events, Rest
  <1> HIDE DEF L, R
  <1>2. \A k \in 0 .. R : at(k) \in 0 .. L
    BY <1>1
  <1>4. \A k \in 0 .. R : d[k] = c[at(k)]
    OBVIOUS
  <1> HIDE DEF d
  <1>5. \A k \in 1 .. R : rest[k] = IF k < i THEN flt[k] ELSE flt[k + 1]
    BY DEF Rest, R
  <1>6. \A j, k \in 0 .. L :
           j <= k /\ (\A x \in j + 1 .. k : flt[x].pid # p) => c[j] = c[k]
    BY DEF FullChain, L
  <1>7. \A j, k \in 0 .. R :
           j <= k /\ (\A x \in j + 1 .. k : rest[x].pid # p) => d[j] = d[k]
    <2> SUFFICES ASSUME NEW j \in 0 .. R, NEW k \in 0 .. R, j <= k,
                        \A x \in j + 1 .. k : rest[x].pid # p
                 PROVE  d[j] = d[k]
      OBVIOUS
    <2>1. at(j) \in 0 .. L /\ at(k) \in 0 .. L /\ at(j) <= at(k)
      BY <1>1
    <2>2. \A x \in at(j) + 1 .. at(k) : flt[x].pid # p
      <3> TAKE x \in at(j) + 1 .. at(k)
      <3>1. x - 1 \in j + 1 .. k /\ x - 1 \in 1 .. R /\ ~(x - 1 < i) /\ (x - 1) + 1 = x
        BY <1>1
      <3>2. rest[x - 1] = flt[x]
        BY <1>5, <3>1
      <3> QED BY <3>1, <3>2
    <2> HIDE DEF at
    <2> QED BY <1>4, <1>6, <2>1, <2>2
  <1>8. Tells(p, flt[i], c[i - 1], c[i]) /\ IsEvent(flt[i])
    BY <1>1 DEF FullChain, Events, L
  <1>9. \A k \in 1 .. R : rest[k].pid = p => Tells(p, rest[k], d[k - 1], d[k])
    <2> SUFFICES ASSUME NEW k \in 1 .. R, rest[k].pid = p
                 PROVE  Tells(p, rest[k], d[k - 1], d[k])
      OBVIOUS
    <2>0. k \in 0 .. R /\ k - 1 \in 0 .. R /\ k \in 1 .. L /\ k + 1 \in 1 .. L
      BY <1>1
    <2>2. ~(k < i)
      <3> SUFFICES ASSUME k < i PROVE FALSE
        OBVIOUS
      <3>1. k \in 1 .. i - 1
        BY <1>1
      <3> QED BY <1>5, <3>1
    <2>3. at(k) = k + 1 /\ at(k - 1) = k /\ (k + 1) - 1 = k
      BY <1>1, <2>0, <2>2
    <2> HIDE DEF at
    <2>4. rest[k] = flt[k + 1] /\ d[k - 1] = c[k] /\ d[k] = c[k + 1]
      BY <1>4, <1>5, <2>0, <2>2, <2>3
    <2>5. Tells(p, flt[k + 1], c[(k + 1) - 1], c[k + 1])
      BY <2>0, <2>4 DEF FullChain, L
    <2> QED BY <2>3, <2>4, <2>5
  <1>10. FullOf(m, p, d[0])
    <2>1. c[0] = c[i - 1]
      <3>1. 0 \in 0 .. L /\ i - 1 \in 0 .. L /\ 0 <= i - 1 /\ 0 + 1 = 1
        BY <1>1
      <3> QED BY <1>6, <3>1
    <2>2. FullOf(n, p, c[i - 1])
      BY <2>1 DEF FullChain
    <2>3. FullOf(m, p, c[i])
      BY <1>8, <2>2, FullAdvances
    <2>4. at(0) = i /\ 0 \in 0 .. R
      BY <1>1
    <2> HIDE DEF at
    <2> QED BY <1>4, <2>3, <2>4
  <1>11. d[R] = c[L]
    <2>1. at(R) = L /\ R \in 0 .. R
      BY <1>1
    <2> HIDE DEF at
    <2> QED BY <1>4, <2>1
  <1>12. FullChain(p, m, rest, d)
    BY <1>7, <1>9, <1>10 DEF FullChain, R
  <1> QED BY <1>11, <1>12 DEF L, R

\* What is true of the process just before its first event that waits.
LEMMA FullChainTells ==
    ASSUME NEW p, NEW n, NEW flt, Events(flt), NEW c, FullChain(p, n, flt, c),
           NEW i \in DOMAIN flt, flt[i].pid = p, \A x \in 1 .. i - 1 : flt[x].pid # p
    PROVE  FullOf(n, p, c[i - 1]) /\ Tells(p, flt[i], c[i - 1], c[i])
  <1> DEFINE L == Len(flt)
  <1>1. L \in Nat /\ DOMAIN flt = 1 .. L /\ i \in 1 .. L
    BY SeqFacts DEF Events
  <1> HIDE DEF L
  <1>2. 0 \in 0 .. L /\ i - 1 \in 0 .. L /\ 0 <= i - 1 /\ 0 + 1 = 1
    BY <1>1
  <1>3. c[0] = c[i - 1]
    BY <1>2 DEF FullChain, L
  <1>4. FullOf(n, p, c[i - 1])
    BY <1>3 DEF FullChain
  <1> QED BY <1>1, <1>2, <1>4 DEF FullChain, L
-----------------------------------------------------------------------------
(* The invariant of processes to which nothing has happened.               *)

Sock(q, x, id) == x \in Open(q) /\ table[q].fds[x].kind = "socket" /\ table[q].fds[x].id = id

\* The SSL objects of the process have open descriptors, and its sockets one
\* descriptor each, and no other process has them.
Own(q) ==
    /\ \A l \in DOMAIN links[q] : links[q][l] \in Open(q)
    /\ \A x, y, id : \A r \in Live : Sock(q, x, id) /\ Sock(r, y, id) => r = q /\ y = x

\* Known in full, from before the first event that waits to what the kernel
\* holds.
TrackedFull(p, n, flt, live, w) == \E c : FullChain(p, n, flt, c) /\ (live => c[Len(flt)] = w)

FullInv ==
    /\ \A p \in Pids : p \in born /\ taint[p] = {} =>
          /\ TrackedFull(p, net, flight, p \in Live, ViewOf(p))
          /\ p \in Live => Own(p)
    /\ ConnectedStreamsAreAttributed

LEMMA StillAttributed ==
    ASSUME ConnectedStreamsAreAttributed, LastOK, last' = last,
           \A p \in Pids : taint[p] \subseteq taint'[p]
    PROVE  ConnectedStreamsAreAttributed'
  BY DEF ConnectedStreamsAreAttributed, LastOK

LEMMA TrackedFullEmits ==
    ASSUME NEW p, NEW n, NEW flt, Events(flt), NEW live \in BOOLEAN, NEW w,
           TrackedFull(p, n, flt, live, w), NEW live2 \in BOOLEAN, live2 => live,
           NEW ev, NEW w2,
           ev.pid = p => live /\ Tells(p, ev, w, w2),
           ev.pid # p /\ live2 => w2 = w
    PROVE  TrackedFull(p, n, Append(flt, ev), live2, w2)
  <1>1. PICK c : FullChain(p, n, flt, c) /\ (live => c[Len(flt)] = w)
    BY DEF TrackedFull
  <1>2. Len(Append(flt, ev)) = Len(flt) + 1
    BY AppendFacts DEF Events
  <1> DEFINE u == IF ev.pid = p THEN w2 ELSE c[Len(flt)]
             d == Extended(c, Len(flt), u)
  <1>3. ev.pid = p => Tells(p, ev, c[Len(flt)], u)
    BY <1>1
  <1>4. ev.pid = p \/ c[Len(flt)] = u
    OBVIOUS
  <1>5. live2 => u = w2
    BY <1>1
  <1> HIDE DEF u
  <1>6. FullChain(p, n, Append(flt, ev), d) /\ d[Len(flt) + 1] = u
    BY <1>1, <1>3, <1>4, FullChainAppends
  <1> HIDE DEF d
  <1> QED BY <1>2, <1>5, <1>6 DEF TrackedFull

\* A call that is not reported.
LEMMA QuietFull ==
    ASSUME EndpointInv, FullInv, Longer(taint'), flight' = flight, net' = net, last' = last,
           \A q \in born' \ born : taint'[q] # {},
           \A q \in Live' : taint'[q] = {} => q \in Live /\ Own(q)' /\ ViewOf(q)' = ViewOf(q)
    PROVE  FullInv'
  <1>1. \A p \in Pids : taint[p] \subseteq taint'[p]
    BY DEF Longer
  <1>2. ConnectedStreamsAreAttributed'
    BY <1>1, StillAttributed DEF EndpointInv, FullInv
  <1>3. ASSUME NEW p \in Pids, p \in born', taint'[p] = {}
        PROVE  TrackedFull(p, net, flight, p \in Live', ViewOf(p)') /\ (p \in Live' => Own(p)')
    <2>1. p \in born /\ taint[p] = {}
      BY <1>1, <1>3
    <2>2. TrackedFull(p, net, flight, p \in Live, ViewOf(p))
      BY <2>1 DEF FullInv
    <2>3. p \in Live' => p \in Live /\ Own(p)' /\ ViewOf(p)' = ViewOf(p)
      BY <1>3
    <2> QED BY <2>2, <2>3 DEF TrackedFull
  <1> QED BY <1>2, <1>3 DEF FullInv

\* A call that is reported, or whose event is lost.
LEMMA EmittedFull ==
    ASSUME EndpointInv, FullInv, NEW ev, NEW more, Longer(more), Emitted(ev, more),
           net' = net, last' = last, Stamped(ev).pid = ev.pid, ev.pid \in Live,
           \A q \in born' \ born : more[q] # {},
           ev.pid \notin Live' => Tells(ev.pid, Stamped(ev), ViewOf(ev.pid), ViewOf(ev.pid)),
           \A q \in Live' : more[q] = {} =>
               /\ q \in Live /\ Own(q)'
               /\ IF q = ev.pid THEN Tells(q, Stamped(ev), ViewOf(q), ViewOf(q)')
                  ELSE ViewOf(q)' = ViewOf(q)
    PROVE  FullInv'
  <1>0. Events(flight)
    BY DEF EndpointInv, FlightOK
  <1>1. CASE flight' = Append(flight, Stamped(ev)) /\ taint' = more
    <2> DEFINE e == Stamped(ev)
    <2>1. \A p \in Pids : taint[p] \subseteq taint'[p]
      BY <1>1 DEF Longer
    <2>2. ConnectedStreamsAreAttributed'
      BY <2>1, StillAttributed DEF EndpointInv, FullInv
    <2>3. ASSUME NEW p \in Pids, p \in born', taint'[p] = {}
          PROVE  /\ TrackedFull(p, net, Append(flight, e), p \in Live', ViewOf(p)')
                 /\ p \in Live' => Own(p)'
      <3>1. p \in born /\ taint[p] = {} /\ more[p] = {}
        BY <1>1, <2>1, <2>3
      <3>2. TrackedFull(p, net, flight, p \in Live, ViewOf(p))
        BY <3>1 DEF FullInv
      <3> DEFINE live == p \in Live
                 live2 == p \in Live'
                 w == ViewOf(p)
                 w2 == IF live2 THEN ViewOf(p)' ELSE ViewOf(p)
      <3>3. live2 => /\ live /\ Own(p)'
                     /\ IF p = ev.pid THEN Tells(p, e, w, w2) ELSE w2 = w
        BY <3>1
      <3>4. ~live2 /\ p = ev.pid => live /\ Tells(p, e, w, w2)
        OBVIOUS
      <3>5. live \in BOOLEAN /\ live2 \in BOOLEAN /\ e.pid = ev.pid
            /\ TrackedFull(p, net, flight, live, w) /\ (live2 => w2 = ViewOf(p)')
        BY <3>2
      <3> HIDE DEF live, live2, w, w2, e
      <3>6. TrackedFull(p, net, Append(flight, e), live2, w2)
        BY <1>0, <3>3, <3>4, <3>5, TrackedFullEmits
      <3>7. TrackedFull(p, net, Append(flight, e), live2, ViewOf(p)')
        BY <3>5, <3>6 DEF TrackedFull
      <3> QED BY <3>3, <3>7 DEF live2
    <2> QED BY <1>1, <2>2, <2>3 DEF FullInv
  <1>2. CASE /\ flight' = flight
             /\ taint' = [p \in Pids |->
                             IF p = ev.pid \/ (ev.kind = "fork" /\ p = ev.child)
                             THEN more[p] \cup {"lost"} ELSE more[p]]
    <2> DEFINE f == [p \in Pids |->
                        IF p = ev.pid \/ (ev.kind = "fork" /\ p = ev.child)
                        THEN more[p] \cup {"lost"} ELSE more[p]]
    <2>1. f = [p \in Pids |-> f[p]]
          /\ \A p \in Pids : more[p] \subseteq f[p] /\ (p = ev.pid => "lost" \in f[p])
      OBVIOUS
    <2>2. taint' = f
      BY <1>2
    <2> HIDE DEF f
    <2>3. Longer(taint')
      BY <2>1, <2>2 DEF Longer
    <2>5. \A p \in Pids : taint[p] \subseteq taint'[p]
      BY <2>3 DEF Longer
    <2>6. ConnectedStreamsAreAttributed'
      BY <2>5, StillAttributed DEF EndpointInv, FullInv
    <2>7. ASSUME NEW p \in Pids, p \in born', taint'[p] = {}
          PROVE  TrackedFull(p, net, flight, p \in Live', ViewOf(p)') /\ (p \in Live' => Own(p)')
      <3>1. more[p] = {} /\ p # ev.pid
        BY <2>1, <2>2, <2>7
      <3>2. p \in born /\ taint[p] = {}
        BY <2>5, <2>7, <3>1
      <3>3. TrackedFull(p, net, flight, p \in Live, ViewOf(p))
        BY <3>2 DEF FullInv
      <3>4. p \in Live' => p \in Live /\ Own(p)' /\ ViewOf(p)' = ViewOf(p)
        BY <3>1
      <3> QED BY <3>3, <3>4 DEF TrackedFull
    <2> QED BY <1>2, <2>6, <2>7 DEF FullInv
  <1> QED BY <1>1, <1>2 DEF Emitted
-----------------------------------------------------------------------------
(* A call of one process, and the others.                                  *)

\* Only process p has other descriptors or SSL objects after the step.
Apart(p) ==
    \A r \in Live' : r # p =>
        /\ r \in Live
        /\ table'[r].fds = table[r].fds
        /\ links'[r] = links[r]

\* Its sockets are some it had, or a new one.
Mine(p) == \A y, id : Sock(p, y, id)' => id = Len(peers) + 1 \/ \E x : Sock(p, x, id)

\* Only sockets of its own get peers.
PeersOf(p) == \A id \in 1 .. Len(peers) : peers'[id] = peers[id] \/ \E x : Sock(p, x, id)

\* It has its sockets where it had them, but for a new one at fd.
Fresh(p, fd) ==
    \A y, id : Sock(p, y, id)' => Sock(p, y, id) \/ (y = fd /\ id = Len(peers) + 1)

LEMMA SockNumbers ==
    ASSUME HostShape, NEW q \in Live, NEW x, NEW id, Sock(q, x, id)
    PROVE  id \in 1 .. Len(peers) /\ id # Len(peers) + 1
  <1>1. id \in 1 .. Len(peers) /\ Len(peers) \in Nat
    BY DEF HostShape, IsProcess, Sock, Open
  <1> QED BY <1>1

LEMMA FreshIsMine ==
    ASSUME NEW p, NEW fd, Fresh(p, fd)
    PROVE  Mine(p)
  BY DEF Fresh, Mine

LEMMA SameSocks ==
    ASSUME NEW q, table'[q].fds = table[q].fds
    PROVE  /\ \A x, id : Sock(q, x, id)' = Sock(q, x, id)
           /\ Open(q)' = Open(q)
  BY DEF Sock, Open

\* The views of a process two steps see.
LEMMA SameView ==
    ASSUME NEW q, table'[q].fds = table[q].fds, links'[q] = links[q],
           \A x, id : Sock(q, x, id) => peers'[id] = peers[id]
    PROVE  ViewOf(q)' = ViewOf(q)
  <1> DEFINE fds == table[q].fds
             a == [fd \in Fds |-> IF fd \in DOMAIN fds /\ fds[fd].kind = "socket"
                                  THEN peers[fds[fd].id] ELSE NoEndpoint]
             b == [fd \in Fds |-> IF fd \in DOMAIN fds /\ fds[fd].kind = "socket"
                                  THEN peers'[fds[fd].id] ELSE NoEndpoint]
             l == [x \in Link |-> IF x \in DOMAIN links[q] THEN links[q][x] ELSE NoFd]
  <1>1. \A fd \in DOMAIN fds : fds[fd].kind = "socket" => peers'[fds[fd].id] = peers[fds[fd].id]
    BY DEF Sock, Open
  <1>2. a = b
    <2> HIDE DEF fds
    <2> QED BY <1>1
  <1>3. ViewOf(q) = [sock |-> a, link |-> l]
    BY DEF ViewOf, ViewIn
  <1>4. ViewOf(q)' = [sock |-> b, link |-> l]
    BY DEF ViewOf, ViewIn
  <1> HIDE DEF a, b, l
  <1> QED BY <1>2, <1>3, <1>4

LEMMA OthersOwn ==
    ASSUME HostShape, NEW p \in Live, Apart(p), p \in Live' => Mine(p), PeersOf(p),
           NEW q \in Live', q # p, Own(q)
    PROVE  q \in Live /\ Own(q)' /\ ViewOf(q)' = ViewOf(q)
  <1>1. q \in Live /\ table'[q].fds = table[q].fds /\ links'[q] = links[q]
    BY DEF Apart
  <1>2. (\A x, id : Sock(q, x, id)' = Sock(q, x, id)) /\ Open(q)' = Open(q)
    BY <1>1, SameSocks
  <1>3. \A x, y, id : \A r \in Live : Sock(q, x, id) /\ Sock(r, y, id) => r = q /\ y = x
    BY DEF Own
  <1>4. ASSUME NEW x, NEW y, NEW id, NEW r \in Live', Sock(q, x, id)', Sock(r, y, id)'
        PROVE  r = q /\ y = x
    <2>1. Sock(q, x, id)
      BY <1>2, <1>4
    <2>2. CASE r = q
      BY <1>1, <1>2, <1>3, <1>4, <2>1, <2>2
    <2>3. CASE r # q /\ r # p
      <3>1. r \in Live /\ table'[r].fds = table[r].fds
        BY <2>3 DEF Apart
      <3>2. Sock(r, y, id)
        BY <1>4, <3>1, SameSocks
      <3> QED BY <1>3, <2>1, <3>1, <3>2
    <2>4. CASE r = p
      <3>1. Sock(p, y, id)' /\ Mine(p)
        BY <1>4, <2>4
      <3>2. id = Len(peers) + 1 \/ \E z : Sock(p, z, id)
        BY <3>1 DEF Mine
      <3>3. id # Len(peers) + 1
        BY <1>1, <2>1, SockNumbers
      <3> QED BY <1>3, <2>1, <3>2, <3>3
    <2> QED BY <2>2, <2>3, <2>4
  <1>5. Own(q)'
    <2>1. \A l \in DOMAIN links'[q] : links'[q][l] \in Open(q)'
      BY <1>1, <1>2 DEF Own
    <2> QED BY <1>4, <2>1 DEF Own
  <1>6. \A x, id : Sock(q, x, id) => peers'[id] = peers[id]
    <2> SUFFICES ASSUME NEW x, NEW id, Sock(q, x, id) PROVE peers'[id] = peers[id]
      OBVIOUS
    <2>1. id \in 1 .. Len(peers)
      BY <1>1, SockNumbers
    <2>2. \A z : ~Sock(p, z, id)
      BY <1>3
    <2> QED BY <2>1, <2>2 DEF PeersOf
  <1> QED BY <1>1, <1>5, <1>6, SameView

LEMMA OwnStays ==
    ASSUME HostShape, NEW p \in Live, Apart(p), Own(p), NEW fd, Fresh(p, fd),
           \A l \in DOMAIN links'[p] : links'[p][l] \in Open(p)'
    PROVE  Own(p)'
  <1>1. \A x, y, id : \A r \in Live : Sock(p, x, id) /\ Sock(r, y, id) => r = p /\ y = x
    BY DEF Own
  <1>2. ASSUME NEW x, NEW y, NEW id, NEW r \in Live', Sock(p, x, id)', Sock(r, y, id)'
        PROVE  r = p /\ y = x
    <2>1. Sock(p, x, id) \/ (x = fd /\ id = Len(peers) + 1)
      BY <1>2 DEF Fresh
    <2>2. CASE r = p
      <3>1. Sock(p, y, id)'
        BY <1>2, <2>2
      <3>2. Sock(p, y, id) \/ (y = fd /\ id = Len(peers) + 1)
        BY <3>1 DEF Fresh
      <3>3. Sock(p, x, id) \/ Sock(p, y, id) => id # Len(peers) + 1
        BY SockNumbers
      <3> QED BY <1>1, <2>1, <2>2, <3>2, <3>3
    <2>3. CASE r # p
      <3>1. r \in Live /\ table'[r].fds = table[r].fds
        BY <2>3 DEF Apart
      <3>2. Sock(r, y, id)
        BY <1>2, <3>1, SameSocks
      <3>3. id # Len(peers) + 1
        BY <3>1, <3>2, SockNumbers
      <3> QED BY <1>1, <2>1, <3>1, <3>2, <3>3
    <2> QED BY <2>2, <2>3
  <1> QED BY <1>2 DEF Own

LEMMA OwnNow ==
    ASSUME EndpointInv, FullInv, NEW more, Longer(more), NEW q \in Live, more[q] = {}
    PROVE  Own(q)
  <1>1. q \in Pids /\ q \in born
    BY DEF EndpointInv, HostShape
  <1>2. taint[q] = {}
    BY <1>1 DEF Longer
  <1> QED BY <1>1, <1>2 DEF FullInv

\* A call of process p that is reported.
LEMMA CallFull ==
    ASSUME EndpointInv, FullInv, NEW p \in Live, p \in Live', Apart(p), Mine(p), PeersOf(p),
           NEW ev, NEW more, Longer(more), Emitted(ev, more),
           net' = net, last' = last, born' = born, ev.pid = p, Stamped(ev).pid = p,
           more[p] = {} => Own(p)' /\ Tells(p, Stamped(ev), ViewOf(p), ViewOf(p)')
    PROVE  FullInv'
  <1>1. HostShape
    BY DEF EndpointInv
  <1>2. ASSUME NEW q \in Live', more[q] = {}
        PROVE  /\ q \in Live /\ Own(q)'
               /\ IF q = ev.pid THEN Tells(q, Stamped(ev), ViewOf(q), ViewOf(q)')
                  ELSE ViewOf(q)' = ViewOf(q)
    <2>1. CASE q = p
      BY <1>2, <2>1
    <2>2. CASE q # p
      <3>1. q \in Live
        BY <2>2 DEF Apart
      <3>2. Own(q)
        BY <1>2, <3>1, OwnNow
      <3> QED BY <1>1, <2>2, <3>2, OthersOwn
    <2> QED BY <2>1, <2>2
  <1>3. \A q \in born' \ born : more[q] # {}
    OBVIOUS
  <1>4. Stamped(ev).pid = ev.pid /\ ev.pid \in Live /\ ev.pid \in Live'
    OBVIOUS
  <1> QED BY <1>2, <1>3, <1>4, EmittedFull

\* And one that is not.
LEMMA UnseenFull ==
    ASSUME EndpointInv, FullInv, NEW p \in Live, Apart(p), Mine(p), PeersOf(p),
           Longer(taint'), flight' = flight, net' = net, last' = last, born' = born,
           taint'[p] = {} => Own(p)' /\ ViewOf(p)' = ViewOf(p)
    PROVE  FullInv'
  <1>1. HostShape
    BY DEF EndpointInv
  <1>2. ASSUME NEW q \in Live', taint'[q] = {}
        PROVE  q \in Live /\ Own(q)' /\ ViewOf(q)' = ViewOf(q)
    <2>1. CASE q = p
      BY <1>2, <2>1
    <2>2. CASE q # p
      <3>1. q \in Live
        BY <2>2 DEF Apart
      <3>2. Own(q)
        BY <1>2, <3>1, OwnNow
      <3> QED BY <1>1, <2>2, <3>2, OthersOwn
    <2> QED BY <2>1, <2>2
  <1>3. \A q \in born' \ born : taint'[q] # {}
    OBVIOUS
  <1> QED BY <1>2, <1>3, QuietFull

\* What the calls leave of the others' descriptors.
LEMMA ApartFacts ==
    ASSUME HostShape, NEW p \in Live, Live' = Live,
           \A r \in Live : r # p => table'[r] = table[r] /\ links'[r] = links[r]
    PROVE  Apart(p) /\ p \in Live'
  BY DEF Apart

LEMMA SameApart ==
    ASSUME NEW p \in Live, Live' = Live, peers' = peers,
           \A r \in Live : table'[r].fds = table[r].fds /\ links'[r] = links[r]
    PROVE  /\ Apart(p) /\ p \in Live' /\ Fresh(p, 0) /\ Mine(p) /\ PeersOf(p)
           /\ HostShape /\ Own(p) => Own(p)'
           /\ ViewOf(p)' = ViewOf(p)
  <1>1. Apart(p) /\ p \in Live' /\ PeersOf(p)
    BY DEF Apart, PeersOf
  <1>2. table'[p].fds = table[p].fds /\ links'[p] = links[p]
    OBVIOUS
  <1>3. (\A x, id : Sock(p, x, id)' = Sock(p, x, id)) /\ Open(p)' = Open(p)
    BY <1>2, SameSocks
  <1>4. Fresh(p, 0)
    BY <1>3 DEF Fresh
  <1>5. ASSUME HostShape, Own(p) PROVE Own(p)'
    <2>1. \A l \in DOMAIN links'[p] : links'[p][l] \in Open(p)'
      BY <1>2, <1>3, <1>5 DEF Own
    <2> QED BY <1>1, <1>4, <1>5, <2>1, OwnStays
  <1>6. ViewOf(p)' = ViewOf(p)
    BY <1>2, SameView
  <1> QED BY <1>1, <1>4, <1>5, <1>6, FreshIsMine
-----------------------------------------------------------------------------
(* The calls.                                                              *)

\* An event that says nothing of descriptors, while sockets stay and SSL
\* objects may be freed.
LEMMA PlainTells ==
    ASSUME NEW p, NEW ev, Plain(ev), NEW v, NEW w,
           \A fd \in Fds : w.sock[fd] = v.sock[fd],
           \A l \in Link : w.link[l] # NoFd => w.link[l] = v.link[l]
    PROVE  Tells(p, ev, v, w)
  <1>1. \A key : ~Touches(ev, key) /\ ~Relates(ev, key) /\ ~Bumps(ev, key)
    BY DEF Plain, Touches, Relates, Bumps
  <1>2. \A ssl \in Ssls, direction \in Directions : <<ssl, direction>> \in Link
    BY DEF Link
  <1>3. ev.kind # "fragment"
    BY DEF Plain
  <1> QED BY <1>1, <1>2, <1>3 DEF Tells

LEMMA PlainTellsSame ==
    ASSUME NEW p, NEW ev, Plain(ev), NEW v
    PROVE  Tells(p, ev, v, v)
  BY PlainTells

\* A plain event of a call that changes no descriptor.
LEMMA PlainFull ==
    ASSUME EndpointInv, FullInv, NEW p \in Live, Live' = Live, peers' = peers,
           \A r \in Live : table'[r].fds = table[r].fds /\ links'[r] = links[r],
           NEW ev, NEW more, Longer(more), Emitted(ev, more),
           net' = net, last' = last, born' = born, ev.pid = p, Stamped(ev).pid = p,
           Plain(Stamped(ev))
    PROVE  FullInv'
  <1>1. /\ Apart(p) /\ p \in Live' /\ Mine(p) /\ PeersOf(p)
        /\ HostShape /\ Own(p) => Own(p)'
        /\ ViewOf(p)' = ViewOf(p)
    BY SameApart
  <1>2. ASSUME more[p] = {}
        PROVE  Own(p)' /\ Tells(p, Stamped(ev), ViewOf(p), ViewOf(p)')
    <2>1. Own(p)
      BY <1>2, OwnNow
    <2>2. Tells(p, Stamped(ev), ViewOf(p), ViewOf(p))
      BY PlainTellsSame
    <2> QED BY <1>1, <2>1, <2>2 DEF EndpointInv
  <1> QED BY <1>1, <1>2, CallFull

LEMMA SameHost ==
    ASSUME UNCHANGED <<table, peers, links>>
    PROVE  /\ Live' = Live /\ peers' = peers
           /\ \A r \in Live : table'[r].fds = table[r].fds /\ links'[r] = links[r]
  BY DEF Live

LEMMA EndThreadFull ==
    ASSUME EndpointInv, FullInv, NEW p \in Live, EndThread(p)
    PROVE  FullInv'
  <1> DEFINE ev == [kind |-> "exit", ring |-> "proc", pid |-> p]
             more == Taints({p}, "thread ended")
  <1>1. Emitted(ev, more) /\ UNCHANGED <<table, peers, links, born>>
    BY DEF EndThread
  <1>2. net' = net /\ last' = last
    BY DEF EndThread, Called
  <1>3. Stamped(ev).pid = p /\ Stamped(ev).kind = "exit" /\ ev.pid = p
    BY StampedFields
  <1> HIDE DEF ev
  <1>4. Plain(Stamped(ev))
    BY <1>3 DEF Plain
  <1>5. Longer(more)
    BY TaintsLonger
  <1> HIDE DEF more
  <1> QED BY <1>1, <1>2, <1>3, <1>4, <1>5, SameHost, PlainFull

LEMMA StartThreadFull ==
    ASSUME EndpointInv, FullInv, NEW p \in Live, StartThread(p)
    PROVE  FullInv'
  <1>0. PICK task, thread : Emitted([kind |-> "fork", ring |-> "proc", pid |-> p,
                                     task |-> task, child |-> thread], taint)
    BY DEF StartThread
  <1> DEFINE ev == [kind |-> "fork", ring |-> "proc", pid |-> p, task |-> task,
                    child |-> thread]
  <1>1. Emitted(ev, taint) /\ UNCHANGED <<table, peers, links, born>>
    BY <1>0 DEF StartThread
  <1>2. net' = net /\ last' = last
    BY DEF StartThread, Called
  <1>3. Stamped(ev).pid = p /\ Stamped(ev).kind = "fork" /\ ev.pid = p
    BY StampedFields
  <1> HIDE DEF ev
  <1>4. Plain(Stamped(ev))
    BY <1>3 DEF Plain
  <1>5. Longer(taint)
    BY SameLonger DEF EndpointInv
  <1> QED BY <1>1, <1>2, <1>3, <1>4, <1>5, SameHost, PlainFull

LEMMA UnlinkFull ==
    ASSUME EndpointInv, FullInv, NEW p \in Live, Unlink(p)
    PROVE  FullInv'
  <1>0. PICK raw \in usable.paths : Emitted(
           [kind |-> "unlink", ring |-> "fs", pid |-> p, dirfd |-> AtCwd, raw |-> raw,
            real |-> <<{Named(p, raw), LeadsTo(Named(p, raw))}>>, before |-> files.changes,
            after |-> files'.changes],
           [taint EXCEPT ![p] = @ \cup Led(p, AtCwd, raw, Named(p, raw))])
    BY DEF Unlink
  <1> DEFINE ev == [kind |-> "unlink", ring |-> "fs", pid |-> p, dirfd |-> AtCwd, raw |-> raw,
                    real |-> <<{Named(p, raw), LeadsTo(Named(p, raw))}>>,
                    before |-> files.changes, after |-> files'.changes]
             more == [taint EXCEPT ![p] = @ \cup Led(p, AtCwd, raw, Named(p, raw))]
  <1>1. Emitted(ev, more) /\ UNCHANGED <<table, peers, links, born>>
    BY <1>0 DEF Unlink
  <1>2. net' = net /\ last' = last
    BY DEF Unlink, Called
  <1>3. Stamped(ev).pid = p /\ Stamped(ev).kind = "unlink" /\ ev.pid = p
    BY StampedFields
  <1> HIDE DEF ev
  <1>4. Plain(Stamped(ev))
    BY <1>3 DEF Plain
  <1>5. Longer(more)
    BY MoreLonger DEF EndpointInv
  <1> HIDE DEF more
  <1> QED BY <1>1, <1>2, <1>3, <1>4, <1>5, SameHost, PlainFull

LEMMA RenameFull ==
    ASSUME EndpointInv, FullInv, NEW p \in Live, Rename(p)
    PROVE  FullInv'
  <1>0. PICK raw, to, real, more :
           /\ Emitted([kind |-> "rename", ring |-> "fs", pid |-> p, dirfd |-> AtCwd,
                       raw |-> raw, to |-> to, before |-> files.changes,
                       after |-> files'.changes, real |-> real], more)
           /\ Longer(more)
    BY RenameEmits
  <1> DEFINE ev == [kind |-> "rename", ring |-> "fs", pid |-> p, dirfd |-> AtCwd,
                    raw |-> raw, to |-> to, before |-> files.changes,
                    after |-> files'.changes, real |-> real]
  <1>1. Emitted(ev, more) /\ UNCHANGED <<table, peers, links, born>>
    BY <1>0 DEF Rename
  <1>2. net' = net /\ last' = last
    BY DEF Rename, Called
  <1>3. Stamped(ev).pid = p /\ Stamped(ev).kind = "rename" /\ ev.pid = p
    BY StampedFields
  <1> HIDE DEF ev
  <1>4. Plain(Stamped(ev))
    BY <1>3 DEF Plain
  <1>5. Longer(more)
    BY <1>0
  <1> QED BY <1>1, <1>2, <1>3, <1>4, <1>5, SameHost, PlainFull

LEMMA ChdirFull ==
    ASSUME EndpointInv, FullInv, NEW p \in Live, Chdir(p)
    PROVE  FullInv'
  <1>0. PICK dirfd, raw :
           LET real == Reached(p, dirfd, raw)
               ret == IF Exists(files, real) THEN 0 ELSE -1
           IN  /\ table' = IF ret = 0 THEN [table EXCEPT ![p].cwd = Len(places) + 1] ELSE table
               /\ Emitted([kind |-> "chdir", ring |-> "proc", pid |-> p, dirfd |-> dirfd,
                           raw |-> raw, ret |-> ret, real |-> <<{real}>>,
                           before |-> files.changes, after |-> files.changes],
                          [taint EXCEPT ![p] = @ \cup IF ret = 0 THEN Led(p, dirfd, raw, real)
                                                     ELSE {"chdir failed"}])
    BY DEF Chdir
  <1> DEFINE real == Reached(p, dirfd, raw)
             ret == IF Exists(files, real) THEN 0 ELSE -1
             place == Len(places) + 1
             ev == [kind |-> "chdir", ring |-> "proc", pid |-> p, dirfd |-> dirfd,
                    raw |-> raw, ret |-> ret, real |-> <<{real}>>,
                    before |-> files.changes, after |-> files.changes]
             more == [taint EXCEPT ![p] = @ \cup IF ret = 0 THEN Led(p, dirfd, raw, real)
                                                ELSE {"chdir failed"}]
  <1>1. /\ Emitted(ev, more) /\ UNCHANGED <<peers, links, born>>
        /\ table' = IF ret = 0 THEN [table EXCEPT ![p].cwd = place] ELSE table
    BY <1>0 DEF Chdir
  <1>2. net' = net /\ last' = last
    BY DEF Chdir, Called
  <1>3. Stamped(ev).pid = p /\ Stamped(ev).kind = "chdir" /\ ev.pid = p
    BY StampedFields
  <1>4. Longer(more)
    BY MoreLonger DEF EndpointInv
  <1> HIDE DEF ev, ret, real, more, place
  <1>5. Plain(Stamped(ev))
    BY <1>3 DEF Plain
  <1>6. Live' = Live /\ \A r \in Live : table'[r].fds = table[r].fds
    <2>1. CASE table' = table
      BY <2>1 DEF Live
    <2>2. CASE table' = [table EXCEPT ![p].cwd = place]
      <3> DEFINE x == table[p]
                 y == [x EXCEPT !.cwd = place]
      <3>1. x = [cwd |-> x.cwd, fds |-> x.fds]
        BY DEF EndpointInv, HostShape, IsProcess
      <3>2. y.fds = table[p].fds
        BY <3>1
      <3>3. table' = [table EXCEPT ![p] = y]
        BY <2>2
      <3> HIDE DEF x, y
      <3>4. Live' = Live /\ table'[p] = y /\ \A q \in Live : q # p => table'[q] = table[q]
        BY <3>3 DEF Live
      <3> QED BY <3>2, <3>4
    <2> QED BY <1>1, <2>1, <2>2
  <1>7. \A r \in Live : table'[r].fds = table[r].fds /\ links'[r] = links[r]
    BY <1>1, <1>6
  <1> QED BY <1>1, <1>2, <1>3, <1>4, <1>5, <1>6, <1>7, PlainFull

LEMMA TransferFull ==
    ASSUME EndpointInv, FullInv, NEW p \in Live, Transfer(p)
    PROVE  FullInv'
  <1>0. PICK l \in DOMAIN links[p] :
           /\ links[p][l] \in Open(p)
           /\ table[p].fds[links[p][l]].kind = "socket"
           /\ peers[table[p].fds[links[p][l]].id] # NoEndpoint
           /\ Emitted([kind |-> "fragment", ring |-> "tls", pid |-> p, ssl |-> l[1],
                       direction |-> l[2],
                       real |-> peers[table[p].fds[links[p][l]].id]], taint)
    BY ZenonT(40) DEF Transfer
  <1> DEFINE fd == links[p][l]
             peer == peers[table[p].fds[fd].id]
             ev == [kind |-> "fragment", ring |-> "tls", pid |-> p, ssl |-> l[1],
                    direction |-> l[2], real |-> peer]
             e == Stamped(ev)
             v == ViewOf(p)
  <1>1. Emitted(ev, taint) /\ UNCHANGED <<table, peers, links, born>>
    BY <1>0 DEF Transfer
  <1>2. net' = net /\ last' = last
    BY SMTT(30) DEF Transfer, Called
  <1>4. e.pid = p /\ e.kind = "fragment" /\ ev.pid = p
        /\ e.ssl = l[1] /\ e.direction = l[2] /\ e.real = peer
    BY StampedFields
  <1>5. l \in Link /\ fd \in Fds /\ p \in Pids
    BY <1>0 DEF EndpointInv, HostShape, IsMap
  <1>6. l[1] \in Ssls /\ l[2] \in Directions /\ l = <<l[1], l[2]>>
    BY SMTT(30), <1>5 DEF Link
  <1>7. v.link[l] = fd /\ v.sock[fd] = peer /\ peer # NoEndpoint
    BY <1>0, <1>5, ViewFields DEF ViewOf, Open
  <1> HIDE DEF ev, e, fd, peer, v
  <1>9. Tells(p, e, v, v)
    <2>1. <<e.ssl, e.direction>> = l
      BY <1>4, <1>6
    <2>2. /\ v.link[<<e.ssl, e.direction>>] \in Fds
          /\ v.sock[v.link[<<e.ssl, e.direction>>]] = e.real
          /\ e.real # NoEndpoint
      BY <1>4, <1>5, <1>7, <2>1
    <2>3. \A key : ~Touches(e, key) /\ ~Relates(e, key) /\ ~Bumps(e, key)
      BY <1>4 DEF Touches, Relates, Bumps
    <2> QED BY <2>2, <2>3 DEF Tells
  <1>10. Longer(taint)
    BY SameLonger DEF EndpointInv
  <1>11. /\ Apart(p) /\ p \in Live' /\ Mine(p) /\ PeersOf(p)
         /\ HostShape /\ Own(p) => Own(p)'
         /\ ViewOf(p)' = ViewOf(p)
    BY <1>1, SameHost, SameApart
  <1>12. ASSUME taint[p] = {}
         PROVE  Own(p)' /\ Tells(p, Stamped(ev), ViewOf(p), ViewOf(p)')
    <2>1. Own(p)
      BY <1>10, <1>12, OwnNow
    <2> QED BY <1>9, <1>11, <2>1 DEF EndpointInv, e, v
  <1>13. Stamped(ev).pid = p
    BY <1>4 DEF e
  <1> QED BY SMTT(30), <1>1, <1>2, <1>4, <1>10, <1>11, <1>12, <1>13, CallFull
-----------------------------------------------------------------------------
\* A step in which nothing happens to descriptors and every event stays.
LEMMA StillFull ==
    ASSUME EndpointInv, FullInv, UNCHANGED <<table, peers, links, born, flight, net, last>>,
           Longer(taint')
    PROVE  FullInv'
  <1>1. ASSUME NEW q \in Live', taint'[q] = {}
        PROVE  q \in Live /\ Own(q)' /\ ViewOf(q)' = ViewOf(q)
    <2>1. /\ Live' = Live /\ peers' = peers
          /\ \A r \in Live : table'[r].fds = table[r].fds /\ links'[r] = links[r]
      BY SameHost
    <2>2. q \in Live
      BY <2>1
    <2>3. Own(q)
      BY <1>1, <2>2, OwnNow
    <2>4. (HostShape /\ Own(q) => Own(q)') /\ ViewOf(q)' = ViewOf(q)
      BY <2>1, <2>2, SameApart
    <2> QED BY <2>2, <2>3, <2>4 DEF EndpointInv
  <1>2. \A q \in born' \ born : taint'[q] # {}
    OBVIOUS
  <1> QED BY <1>1, <1>2, QuietFull

LEMMA RelinkFull ==
    ASSUME EndpointInv, FullInv, Relink
    PROVE  FullInv'
  <1>1. UNCHANGED <<table, peers, links, born, flight, net, last, taint>>
    BY DEF Relink, Called
  <1>2. Longer(taint')
    BY <1>1, SameLonger DEF EndpointInv
  <1> QED BY <1>1, <1>2, StillFull

\* The descriptors of one process become F.
LEMMA FdsSet ==
    ASSUME HostShape, NEW p \in Live, NEW F, table' = [table EXCEPT ![p].fds = F],
           \A r \in Live : r # p => links'[r] = links[r]
    PROVE  /\ Live' = Live /\ p \in Live' /\ Apart(p) /\ table'[p].fds = F
           /\ Open(p)' = DOMAIN F
           /\ \A y, id : Sock(p, y, id)'
                 = (y \in DOMAIN F /\ F[y].kind = "socket" /\ F[y].id = id)
  <1> DEFINE x == table[p]
             y == [x EXCEPT !.fds = F]
  <1>1. x = [cwd |-> x.cwd, fds |-> x.fds]
    BY DEF HostShape, IsProcess
  <1>2. y = [cwd |-> x.cwd, fds |-> F]
    BY <1>1
  <1>3. y.fds = F
    BY <1>2
  <1>4. table' = [table EXCEPT ![p] = y]
    OBVIOUS
  <1> HIDE DEF x, y
  <1>5. Live' = Live /\ table'[p] = y /\ \A q \in Live : q # p => table'[q] = table[q]
    BY <1>4 DEF Live
  <1>6. table'[p].fds = F
    BY <1>3, <1>5
  <1>7. Apart(p)
    BY <1>5 DEF Apart
  <1>8. Open(p)' = DOMAIN F
    BY <1>6 DEF Open
  <1> QED BY <1>5, <1>6, <1>7, <1>8 DEF Sock

\* The SSL objects of one process become L.
LEMMA LinksSet ==
    ASSUME HostShape, NEW p \in Live, NEW L, links' = [links EXCEPT ![p] = L],
           table' = table, peers' = peers
    PROVE  /\ Live' = Live /\ p \in Live' /\ Apart(p) /\ Fresh(p, 0) /\ Mine(p) /\ PeersOf(p)
           /\ links'[p] = L /\ Open(p)' = Open(p)
  <1>1. Live' = Live
    BY DEF Live
  <1>2. DOMAIN links = Live
    BY DEF HostShape
  <1>3. links'[p] = L /\ \A r \in Live : r # p => links'[r] = links[r]
    BY <1>2
  <1>4. Apart(p) /\ PeersOf(p)
    BY <1>1, <1>3 DEF Apart, PeersOf
  <1>5. (\A x, id : Sock(p, x, id)' = Sock(p, x, id)) /\ Open(p)' = Open(p)
    BY SameSocks
  <1>6. Fresh(p, 0)
    BY <1>5 DEF Fresh
  <1> QED BY <1>1, <1>3, <1>4, <1>5, <1>6, FreshIsMine

LEMMA SetBioFull ==
    ASSUME EndpointInv, FullInv, NEW p \in Live, SetBio(p)
    PROVE  FullInv'
  <1>0. PICK ssl \in Ssls, fd \in Open(p), direction \in Directions :
          links' = [links EXCEPT ![p] = Put(@, <<ssl, direction>>, fd)]
    BY DEF SetBio
  <1>1. UNCHANGED <<table, peers, born, flight, net, last>>
    BY DEF SetBio, Unseen, Called
  <1>2. HostShape /\ p \in Pids
    BY DEF EndpointInv, HostShape
  <1>3. Longer(taint') /\ "linked unseen" \in taint'[p]
    BY <1>2, TaintsLonger DEF SetBio, Unseen
  <1>4. Apart(p) /\ Mine(p) /\ PeersOf(p)
    BY <1>0, <1>1, <1>2, LinksSet
  <1>5. taint'[p] # {}
    BY <1>3
  <1> QED BY <1>1, <1>3, <1>4, <1>5, UnseenFull

LEMMA SetFdFull ==
    ASSUME EndpointInv, FullInv, NEW p \in Live, SetFd(p)
    PROVE  FullInv'
  <1>0. PICK ssl \in Ssls, fd \in Open(p), direction \in Directions :
          /\ links' = [links EXCEPT ![p] = Put(@, <<ssl, direction>>, fd)]
          /\ Emitted([kind |-> "assoc", ring |-> "tls", pid |-> p, ssl |-> ssl, fd |-> fd,
                      direction |-> direction], taint)
    BY DEF SetFd
  <1> DEFINE ev == [kind |-> "assoc", ring |-> "tls", pid |-> p, ssl |-> ssl, fd |-> fd,
                    direction |-> direction]
             e == Stamped(ev)
             v == ViewOf(p)
             w == ViewOf(p)'
             set == Put(links[p], <<ssl, direction>>, fd)
  <1>1. Emitted(ev, taint) /\ UNCHANGED <<table, peers, born>>
        /\ links' = [links EXCEPT ![p] = set]
        /\ links' = [links EXCEPT ![p] = Put(@, <<ssl, direction>>, fd)]
    BY <1>0 DEF SetFd
  <1>2. net' = net /\ last' = last
    BY DEF SetFd, Called
  <1>3. HostShape /\ TaintOK /\ p \in Pids
    BY DEF EndpointInv, HostShape
  <1>4. e.pid = p /\ e.kind = "assoc" /\ ev.pid = p /\ e.fd = fd
        /\ e.ssl = ssl /\ e.direction = direction
    BY StampedFields
  <1>5. Longer(taint)
    BY <1>3, SameLonger
  <1>6. /\ \A x \in Fds : w.sock[x] = v.sock[x]
        /\ \A l \in Link : w.link[l] = IF l = <<ssl, direction>> THEN fd ELSE v.link[l]
    BY <1>1, <1>3, LinkSet
  <1>7. \A l \in DOMAIN set : set[l] = fd \/ (l \in DOMAIN links[p] /\ set[l] = links[p][l])
    BY DEF Put
  <1> HIDE DEF ev, e, v, w, set
  <1>8. /\ p \in Live' /\ Apart(p) /\ Fresh(p, 0) /\ Mine(p) /\ PeersOf(p)
        /\ links'[p] = set /\ Open(p)' = Open(p)
    BY <1>1, <1>3, LinksSet
  <1>9. Tells(p, e, v, w)
    <2>1. \A s \in Ssls, d \in Directions : <<s, d>> \in Link
      BY DEF Link
    <2>2. \A key : ~Touches(e, key) /\ ~Bumps(e, key)
      BY <1>4 DEF Touches, Bumps
    <2>3. \A s \in Ssls, d \in Directions :
             Relates(e, <<p, s, d>>) <=> (<<s, d>> = <<ssl, direction>>)
      BY <1>4 DEF Relates
    <2> QED BY <1>4, <1>6, <2>1, <2>2, <2>3 DEF Tells
  <1>10. ASSUME taint[p] = {}
         PROVE  Own(p)' /\ Tells(p, Stamped(ev), ViewOf(p), ViewOf(p)')
    <2>1. Own(p)
      BY <1>5, <1>10, OwnNow
    <2>2. \A l \in DOMAIN links'[p] : links'[p][l] \in Open(p)'
      BY <1>7, <1>8, <2>1 DEF Own
    <2>3. Own(p)'
      BY <1>3, <1>8, <2>1, <2>2, OwnStays
    <2> QED BY <1>9, <2>3 DEF e, v, w
  <1>11. Stamped(ev).pid = p
    BY <1>4 DEF e
  <1> QED BY <1>1, <1>2, <1>4, <1>5, <1>8, <1>10, <1>11, CallFull

\* A new descriptor of a process.
LEMMA OneMore ==
    ASSUME HostShape, NEW p \in Live, NEW fd \in Fds, fd \notin Open(p), NEW file,
           table' = [table EXCEPT ![p].fds = Put(@, fd, file)],
           file.kind # "socket" \/ file.id = Len(peers) + 1, links' = links
    PROVE  /\ Live' = Live /\ p \in Live' /\ Apart(p) /\ Fresh(p, fd) /\ Mine(p)
           /\ Open(p)' = Open(p) \cup {fd}
           /\ table'[p].fds[fd] = file
           /\ \A x \in Open(p) : table'[p].fds[x] = table[p].fds[x]
           /\ Own(p) => Own(p)'
  <1> DEFINE fds == table[p].fds
             F == Put(fds, fd, file)
  <1>1. table' = [table EXCEPT ![p].fds = F]
    OBVIOUS
  <1>2. /\ DOMAIN F = DOMAIN fds \cup {fd} /\ F[fd] = file
        /\ \A x \in DOMAIN fds : F[x] = fds[x] /\ x # fd
    <2>1. fd \notin DOMAIN fds
      BY DEF Open
    <2> HIDE DEF fds
    <2> QED BY <2>1 DEF Put
  <1> HIDE DEF F
  <1>3. \A r \in Live : r # p => links'[r] = links[r]
    OBVIOUS
  <1>4. /\ Live' = Live /\ p \in Live' /\ Apart(p) /\ table'[p].fds = F
        /\ Open(p)' = DOMAIN F
        /\ \A y, id : Sock(p, y, id)'
              = (y \in DOMAIN F /\ F[y].kind = "socket" /\ F[y].id = id)
    BY ZenonT(40), <1>1, <1>3, FdsSet
  <1>5. Fresh(p, fd)
    <2> SUFFICES ASSUME NEW y, NEW id, Sock(p, y, id)'
                 PROVE  Sock(p, y, id) \/ (y = fd /\ id = Len(peers) + 1)
      BY DEF Fresh
    <2>1. y \in DOMAIN F /\ F[y].kind = "socket" /\ F[y].id = id
      BY <1>4
    <2>2. CASE y = fd
      BY <1>2, <2>1, <2>2
    <2>3. CASE y # fd
      BY <1>2, <2>1, <2>3 DEF Sock, Open
    <2> QED BY <2>2, <2>3
  <1>6. ASSUME Own(p) PROVE Own(p)'
    <2>1. \A l \in DOMAIN links'[p] : links'[p][l] \in Open(p)'
      BY <1>2, <1>4, <1>6 DEF Own, Open
    <2> QED BY <1>4, <1>5, <1>6, <2>1, OwnStays
  <1> QED BY <1>2, <1>4, <1>5, <1>6, FreshIsMine DEF Open

\* Its view, when nothing has a peer in it.
LEMMA OneMoreView ==
    ASSUME HostShape, NEW p \in Live, NEW fd \in Fds, fd \notin Open(p),
           Open(p)' = Open(p) \cup {fd},
           \A x \in Open(p) : table'[p].fds[x] = table[p].fds[x],
           table'[p].fds[fd].kind # "socket" \/ peers'[table'[p].fds[fd].id] = NoEndpoint,
           links' = links, \A id \in 1 .. Len(peers) : peers'[id] = peers[id]
    PROVE  ViewOf(p)' = ViewOf(p)
  <1> DEFINE fds == table[p].fds
             F == table'[p].fds
             a == [x \in Fds |-> IF x \in DOMAIN fds /\ fds[x].kind = "socket"
                                 THEN peers[fds[x].id] ELSE NoEndpoint]
             b == [x \in Fds |-> IF x \in DOMAIN F /\ F[x].kind = "socket"
                                 THEN peers'[F[x].id] ELSE NoEndpoint]
             l == [x \in Link |-> IF x \in DOMAIN links[p] THEN links[p][x] ELSE NoFd]
  <1>1. \A x \in DOMAIN fds : fds[x].kind = "socket" => fds[x].id \in 1 .. Len(peers)
    BY DEF HostShape, IsProcess
  <1>2. DOMAIN F = DOMAIN fds \cup {fd} /\ fd \notin DOMAIN fds
        /\ \A x \in DOMAIN fds : F[x] = fds[x]
    BY DEF Open
  <1>3. F[fd].kind # "socket" \/ peers'[F[fd].id] = NoEndpoint
    OBVIOUS
  <1>4. a = b
    <2> HIDE DEF fds, F
    <2>1. \A x \in Fds : (IF x \in DOMAIN fds /\ fds[x].kind = "socket"
                          THEN peers[fds[x].id] ELSE NoEndpoint)
                         = (IF x \in DOMAIN F /\ F[x].kind = "socket"
                            THEN peers'[F[x].id] ELSE NoEndpoint)
      <3> TAKE x \in Fds
      <3>1. CASE x = fd
        BY <1>2, <1>3, <3>1
      <3>2. CASE x # fd
        BY <1>1, <1>2, <3>2
      <3> QED BY <3>1, <3>2
    <2> QED BY <2>1
  <1>5. ViewOf(p) = [sock |-> a, link |-> l]
    BY DEF ViewOf, ViewIn
  <1>6. ViewOf(p)' = [sock |-> b, link |-> l]
    BY DEF ViewOf, ViewIn
  <1> HIDE DEF a, b, l
  <1> QED BY <1>4, <1>5, <1>6
-----------------------------------------------------------------------------
LEMMA NewSocketFull ==
    ASSUME EndpointInv, FullInv, NEW p \in Live, NEW peer \in Remote, NewSocket(p, peer),
           Longer(taint'), net' = net, last' = last, peer = NoEndpoint \/ taint'[p] # {}
    PROVE  FullInv'
  <1> DEFINE fd == FirstFree(p)
             file == [kind |-> "socket", id |-> Len(peers) + 1]
  <1>1. HostShape /\ peers \in Seq(Remote)
    BY DEF EndpointInv, HostShape
  <1>2. fd \in Fds /\ fd \notin Open(p)
    BY <1>1, FirstFreeWorks DEF NewSocket
  <1>3. table' = [table EXCEPT ![p].fds = Put(@, fd, file)]
        /\ peers' = Append(peers, peer) /\ UNCHANGED <<links, born, flight>>
    BY DEF NewSocket
  <1>4. /\ Len(peers) \in Nat /\ peers'[Len(peers) + 1] = peer
        /\ \A id \in 1 .. Len(peers) : peers'[id] = peers[id]
    BY <1>1, <1>3
  <1>5. file.kind = "socket" /\ file.id = Len(peers) + 1
    OBVIOUS
  <1> HIDE DEF fd, file
  <1>6. /\ Live' = Live /\ p \in Live' /\ Apart(p) /\ Fresh(p, fd) /\ Mine(p)
        /\ Open(p)' = Open(p) \cup {fd}
        /\ table'[p].fds[fd] = file
        /\ \A x \in Open(p) : table'[p].fds[x] = table[p].fds[x]
        /\ Own(p) => Own(p)'
    BY <1>1, <1>2, <1>3, <1>5, OneMore
  <1>7. PeersOf(p)
    BY <1>4 DEF PeersOf
  <1>8. ASSUME taint'[p] = {} PROVE Own(p)' /\ ViewOf(p)' = ViewOf(p)
    <2>1. Own(p)
      BY <1>8, OwnNow
    <2>2. peers'[table'[p].fds[fd].id] = NoEndpoint
      BY <1>4, <1>5, <1>6, <1>8
    <2>3. ViewOf(p)' = ViewOf(p)
      BY <1>1, <1>2, <1>3, <1>4, <1>6, <2>2, OneMoreView
    <2> QED BY <1>6, <2>1, <2>3
  <1> QED BY <1>3, <1>6, <1>7, <1>8, UnseenFull

LEMMA SocketFull ==
    ASSUME EndpointInv, FullInv, NEW p \in Live, Socket(p)
    PROVE  FullInv'
  <1>1. Longer(taint') /\ net' = net /\ last' = last
    BY SameLonger DEF EndpointInv, Socket, Called
  <1>2. NoEndpoint \in Remote
    BY DEF Remote
  <1>3. NewSocket(p, NoEndpoint)
    BY DEF Socket
  <1> QED BY <1>1, <1>2, <1>3, NewSocketFull

LEMMA AcceptFull ==
    ASSUME EndpointInv, FullInv, NEW p \in Live, Accept(p)
    PROVE  FullInv'
  <1>1. p \in Pids
    BY DEF EndpointInv, HostShape
  <1>2. Longer(taint') /\ net' = net /\ last' = last /\ "accepted" \in taint'[p]
    BY <1>1, TaintsLonger DEF Accept, Called
  <1>3. PICK peer \in Peers : NewSocket(p, peer)
    BY DEF Accept
  <1>4. peer \in Remote
    BY DEF Remote
  <1>5. taint'[p] # {}
    BY <1>2
  <1> QED BY <1>2, <1>3, <1>4, <1>5, NewSocketFull

LEMMA OpenUnseenFull ==
    ASSUME EndpointInv, FullInv, NEW p \in Live, OpenUnseen(p)
    PROVE  FullInv'
  <1> DEFINE fd == FirstFree(p)
  <1> DEFINE file == [kind |-> "file", place |-> Len(places) + 1]
  <1>1. HostShape /\ p \in Pids
    BY DEF EndpointInv, HostShape
  <1>2. fd \in Fds /\ fd \notin Open(p)
    BY <1>1, FirstFreeWorks DEF OpenUnseen
  <1>3. table' = [table EXCEPT ![p].fds = Put(@, fd, file)] /\ file.kind # "socket"
    BY DEF OpenUnseen
  <1>4. UNCHANGED <<links, born, flight, net, last, peers>> /\ Longer(taint')
        /\ "opened unseen" \in taint'[p]
    BY <1>1, TaintsLonger DEF OpenUnseen, Unseen, Called
  <1> HIDE DEF fd, file
  <1>5. Apart(p) /\ Mine(p)
    BY <1>1, <1>2, <1>3, <1>4, OneMore
  <1>6. PeersOf(p) /\ taint'[p] # {}
    BY <1>4 DEF PeersOf
  <1> QED BY <1>4, <1>5, <1>6, UnseenFull

LEMMA OpenFileFull ==
    ASSUME EndpointInv, FullInv, NEW p \in Live, OpenFile(p)
    PROVE  FullInv'
  <1>0. PICK dirfd, raw :
          LET real == Reached(p, dirfd, raw)
              ret == IF Exists(files, real) THEN FirstFree(p) ELSE -1
          IN  /\ table' = IF ret = -1 THEN table
                          ELSE [table EXCEPT ![p].fds =
                                   Put(@, ret, [kind |-> "file", place |-> Len(places) + 1])]
              /\ Emitted([kind |-> "open", ring |-> "fs", pid |-> p, dirfd |-> dirfd,
                          raw |-> raw, ret |-> ret, real |-> <<{real}>>,
                          before |-> files.changes, after |-> files.changes],
                         [taint EXCEPT ![p] = @ \cup Led(p, dirfd, raw, real)])
    BY DEF OpenFile
  <1> DEFINE real == Reached(p, dirfd, raw)
             ret == IF Exists(files, real) THEN FirstFree(p) ELSE -1
             file == [kind |-> "file", place |-> Len(places) + 1]
             ev == [kind |-> "open", ring |-> "fs", pid |-> p, dirfd |-> dirfd,
                    raw |-> raw, ret |-> ret, real |-> <<{real}>>,
                    before |-> files.changes, after |-> files.changes]
             e == Stamped(ev)
             more == [taint EXCEPT ![p] = @ \cup Led(p, dirfd, raw, real)]
             v == ViewOf(p)
             w == ViewOf(p)'
  <1>1. /\ Emitted(ev, more) /\ UNCHANGED <<peers, links, born>>
        /\ table' = IF ret = -1 THEN table ELSE [table EXCEPT ![p].fds = Put(@, ret, file)]
    BY <1>0 DEF OpenFile
  <1>2. net' = net /\ last' = last
    BY DEF OpenFile, Called
  <1>3. HostShape /\ TaintOK /\ p \in Pids
    BY DEF EndpointInv, HostShape
  <1>4. FirstFree(p) \in Fds /\ FirstFree(p) \notin Open(p) /\ -1 \notin Fds
    BY <1>3, FirstFreeWorks, HostAssumption DEF OpenFile
  <1>5. (ret = -1 /\ ret \notin Fds) \/ (ret # -1 /\ ret \in Fds /\ ret \notin Open(p))
    BY <1>4
  <1>6. e.pid = p /\ e.kind = "open" /\ ev.pid = p /\ e.ret = ret
    BY StampedFields
  <1>7. Longer(more)
    BY <1>3, MoreLonger
  <1>8. file.kind # "socket"
    OBVIOUS
  <1> HIDE DEF ev, e, more, ret, real, file, v, w
  <1>9. /\ Live' = Live /\ p \in Live' /\ Apart(p) /\ Mine(p)
        /\ Own(p) => Own(p)'
        /\ w = v
        /\ ret \in Fds => w.sock[ret] = NoEndpoint
    <2>1. CASE ret = -1
      <3>1. UNCHANGED <<table, peers, links>>
        BY <1>1, <2>1
      <3>2. /\ Live' = Live /\ peers' = peers
            /\ \A r \in Live : table'[r].fds = table[r].fds /\ links'[r] = links[r]
        BY <3>1, SameHost
      <3>3. ViewOf(p)' = ViewOf(p) /\ Apart(p) /\ Mine(p) /\ (Own(p) => Own(p)')
        BY <1>3, <3>2, SameApart
      <3> QED BY <1>5, <2>1, <3>2, <3>3 DEF v, w
    <2>2. CASE ret # -1
      <3>1. table' = [table EXCEPT ![p].fds = Put(@, ret, file)] /\ links' = links
        BY <1>1, <2>2
      <3>2. /\ Live' = Live /\ p \in Live' /\ Apart(p) /\ Mine(p)
            /\ Open(p)' = Open(p) \cup {ret}
            /\ table'[p].fds[ret] = file
            /\ \A x \in Open(p) : table'[p].fds[x] = table[p].fds[x]
            /\ Own(p) => Own(p)'
        <4>1. HostShape /\ ret \in Fds /\ ret \notin Open(p)
          BY <1>3, <1>5, <2>2
        <4>2. file.kind # "socket" \/ file.id = Len(peers) + 1
          BY <1>8
        <4>3. table' = [table EXCEPT ![p].fds = Put(@, ret, file)]
          BY <3>1
        <4>4. links' = links
          BY <3>1
        <4> HIDE DEF Live
        <4>5. Apart(p) /\ Mine(p)
          BY <4>1, <4>2, <4>3, <4>4, OneMore
        <4>6. Live' = Live /\ p \in Live'
          BY <4>1, <4>2, <4>3, <4>4, OneMore
        <4>7. Open(p)' = Open(p) \cup {ret}
          BY <4>1, <4>2, <4>3, <4>4, OneMore
        <4> DEFINE F == Put(table[p].fds, ret, file)
        <4>8. table'[p].fds = F
          BY <4>1, <4>3, <4>4, FdsSet
        <4>9. F[ret] = file /\ \A x \in Open(p) : F[x] = table[p].fds[x]
          <5> DEFINE m == table[p].fds
          <5>1. F = Put(m, ret, file) /\ ret \notin DOMAIN m /\ Open(p) = DOMAIN m
            BY <4>1 DEF Open
          <5> HIDE DEF F, m
          <5>2. F[ret] = file /\ \A x \in DOMAIN m : F[x] = m[x]
            BY <5>1 DEF Put
          <5> QED BY <5>1, <5>2 DEF m
        <4> HIDE DEF F
        <4>10. Own(p) => Own(p)'
          BY <4>1, <4>2, <4>3, <4>4, OneMore
        <4> QED BY <4>5, <4>6, <4>7, <4>8, <4>9, <4>10
      <3>3. table'[p].fds[ret].kind # "socket" /\ \A id \in 1 .. Len(peers) : peers'[id] = peers[id]
        BY <1>1, <1>8, <3>2
      <3>4. ViewOf(p)' = ViewOf(p)
        BY <1>3, <1>5, <2>2, <3>1, <3>2, <3>3, OneMoreView
      <3>5. ViewOf(p).sock[ret] = NoEndpoint
        BY <1>5, <2>2, ViewFields DEF ViewOf, Open
      <3> QED BY <3>2, <3>4, <3>5 DEF v, w
    <2> QED BY <2>1, <2>2
  <1>10. PeersOf(p)
    BY <1>1 DEF PeersOf
  <1>11. ASSUME more[p] = {}
         PROVE  Own(p)' /\ Tells(p, Stamped(ev), ViewOf(p), ViewOf(p)')
    <2>1. Own(p)
      BY <1>7, <1>11, OwnNow
    <2>2. \A l \in Link : w.link[l] # NoFd => w.link[l] \in Open(p)
      BY <1>9, <2>1, ViewFields DEF ViewOf, Own, v
    <2>3. \A key : /\ ~Relates(e, key)
                   /\ (Touches(e, key) \/ Bumps(e, key)) => ret \in Fds /\ key = <<p, ret>>
      BY <1>6 DEF Touches, Relates, Bumps
    <2>4. \A fd \in Fds : w.sock[fd] # NoEndpoint => ~Touches(e, <<p, fd>>)
      <3> SUFFICES ASSUME NEW fd \in Fds, Touches(e, <<p, fd>>) PROVE w.sock[fd] = NoEndpoint
        OBVIOUS
      <3>1. ret \in Fds /\ <<p, fd>> = <<p, ret>>
        BY <2>3
      <3> QED BY <1>9, <3>1
    <2>5. \A l \in Link : w.link[l] # NoFd => ~Bumps(e, <<p, w.link[l]>>)
      <3> SUFFICES ASSUME NEW l \in Link, w.link[l] # NoFd, Bumps(e, <<p, w.link[l]>>)
                   PROVE  FALSE
        OBVIOUS
      <3>1. ret \in Fds /\ <<p, w.link[l]>> = <<p, ret>>
        BY <2>3
      <3> QED BY <1>5, <2>2, <3>1
    <2>6. \A s \in Ssls, d \in Directions : <<s, d>> \in Link
      BY DEF Link
    <2>7. Tells(p, e, v, w)
      BY <1>6, <1>9, <2>3, <2>4, <2>5, <2>6 DEF Tells
    <2> QED BY <1>9, <2>1, <2>7 DEF e, v, w
  <1>12. Stamped(ev).pid = p
    BY <1>6 DEF e
  <1> QED BY <1>1, <1>2, <1>6, <1>7, <1>9, <1>10, <1>11, <1>12, CallFull
-----------------------------------------------------------------------------
LEMMA DupFull ==
    ASSUME EndpointInv, FullInv, NEW p \in Live, Dup(p)
    PROVE  FullInv'
  <1>0. PICK oldfd \in Fds, newfd \in Fds :
          LET ok == oldfd \in Open(p)
          IN  /\ table' = IF ok THEN [table EXCEPT ![p].fds = Put(@, newfd, @[oldfd])]
                          ELSE table
              /\ Emitted([kind |-> "dup", ring |-> "proc", pid |-> p, oldfd |-> oldfd,
                          newfd |-> newfd, ret |-> IF ok THEN newfd ELSE -1],
                         Taints({p}, IF ok THEN "dupped" ELSE "dup failed"))
    BY DEF Dup
  <1> DEFINE ok == oldfd \in Open(p)
             F == Put(table[p].fds, newfd, table[p].fds[oldfd])
             ret == IF ok THEN newfd ELSE -1
             ev == [kind |-> "dup", ring |-> "proc", pid |-> p, oldfd |-> oldfd,
                    newfd |-> newfd, ret |-> ret]
             what == IF ok THEN "dupped" ELSE "dup failed"
             more == Taints({p}, what)
  <1>1. /\ Emitted(ev, more) /\ UNCHANGED <<peers, links, born>>
        /\ table' = IF ok THEN [table EXCEPT ![p].fds = F] ELSE table
    BY <1>0 DEF Dup
  <1>2. net' = net /\ last' = last
    BY DEF Dup, Called
  <1>3. HostShape /\ p \in Pids
    BY DEF EndpointInv, HostShape
  <1>4. Stamped(ev).pid = p /\ ev.pid = p
    BY StampedFields
  <1>5. Longer(more) /\ more[p] # {}
    BY <1>3, TaintsLonger
  <1>6. ok => /\ \A x \in DOMAIN F : x # newfd => x \in Open(p) /\ F[x] = table[p].fds[x]
              /\ F[newfd] = table[p].fds[oldfd]
    BY DEF Put, Open
  <1> HIDE DEF ev, more, F
  <1>7. p \in Live' /\ Apart(p) /\ Mine(p) /\ PeersOf(p)
    <2>1. CASE ok
      <3>1. table' = [table EXCEPT ![p].fds = F]
        BY <1>1, <2>1
      <3>2. \A r \in Live : r # p => links'[r] = links[r]
        BY <1>1
      <3>3. /\ p \in Live' /\ Apart(p)
            /\ \A y, id : Sock(p, y, id)'
                  = (y \in DOMAIN F /\ F[y].kind = "socket" /\ F[y].id = id)
        BY <1>3, <3>1, <3>2, FdsSet
      <3>4. Mine(p)
        <4> SUFFICES ASSUME NEW y, NEW id, Sock(p, y, id)'
                     PROVE  \E x : Sock(p, x, id)
          BY DEF Mine
        <4>1. y \in DOMAIN F /\ F[y].kind = "socket" /\ F[y].id = id
          BY <3>3
        <4>2. CASE y = newfd
          <5>1. Sock(p, oldfd, id)
            BY <1>6, <2>1, <4>1, <4>2 DEF Sock
          <5> QED BY <5>1
        <4>3. CASE y # newfd
          <5>1. Sock(p, y, id)
            BY <1>6, <2>1, <4>1, <4>3 DEF Sock
          <5> QED BY <5>1
        <4> QED BY <4>2, <4>3
      <3>5. PeersOf(p)
        BY <1>1 DEF PeersOf
      <3> QED BY <3>3, <3>4, <3>5
    <2>2. CASE ~ok
      <3>1. UNCHANGED <<table, peers, links>>
        BY <1>1, <2>2
      <3> QED BY <3>1, SameHost, SameApart
    <2> QED BY <2>1, <2>2
  <1> QED BY <1>1, <1>2, <1>4, <1>5, <1>7, CallFull

LEMMA CloseFull ==
    ASSUME EndpointInv, FullInv, NEW p \in Live, Close(p)
    PROVE  FullInv'
  <1>0. PICK fd \in Open(p) :
          /\ table' = [table EXCEPT ![p].fds = Without(@, fd)]
          /\ Emitted([kind |-> "dup", ring |-> "proc", pid |-> p, oldfd |-> -1,
                      newfd |-> fd, ret |-> 0],
                     IF \E link \in DOMAIN links[p] : links[p][link] = fd
                     THEN Taints({p}, "closed while linked") ELSE taint)
    BY DEF Close
  <1> DEFINE F == Without(table[p].fds, fd)
             linked == \E link \in DOMAIN links[p] : links[p][link] = fd
             ev == [kind |-> "dup", ring |-> "proc", pid |-> p, oldfd |-> -1,
                    newfd |-> fd, ret |-> 0]
             e == Stamped(ev)
             more == IF linked THEN Taints({p}, "closed while linked") ELSE taint
             v == ViewOf(p)
             w == ViewOf(p)'
  <1>1. /\ Emitted(ev, more) /\ UNCHANGED <<peers, links, born>>
        /\ table' = [table EXCEPT ![p].fds = F]
    BY <1>0 DEF Close
  <1>2. net' = net /\ last' = last
    BY DEF Close, Called
  <1>3. HostShape /\ TaintOK /\ p \in Pids /\ fd \in Fds
    <2>1. HostShape /\ TaintOK /\ p \in Pids /\ IsProcess(table[p], Len(peers))
      BY DEF EndpointInv, HostShape
    <2> QED BY <1>0, <2>1 DEF IsProcess, Open
  <1>4. e.pid = p /\ e.kind = "dup" /\ ev.pid = p /\ e.newfd = fd
    BY StampedFields
  <1>5. Longer(more) /\ (linked => more[p] # {})
    BY <1>3, TaintsLonger, SameLonger
  <1>6. /\ \A x : x # fd => (x \in DOMAIN F <=> x \in Open(p))
        /\ \A x \in DOMAIN F : x # fd => F[x] = table[p].fds[x]
        /\ fd \notin DOMAIN F
    BY DEF Without, Keep, Open
  <1> HIDE DEF ev, e, more, F, v, w
  <1>7. /\ \A x \in Fds : x # fd => w.sock[x] = v.sock[x]
        /\ \A l \in Link : w.link[l] = v.link[l]
    <2>1. Reset(p, fd, F)
      BY <1>6 DEF Reset
    <2> QED BY <1>1, <1>3, <2>1, OneDescriptor DEF v, w
  <1>8. /\ p \in Live' /\ Apart(p) /\ table'[p].fds = F /\ Open(p)' = DOMAIN F
        /\ \A y, id : Sock(p, y, id)'
              = (y \in DOMAIN F /\ F[y].kind = "socket" /\ F[y].id = id)
    BY ZenonT(40), <1>1, <1>3, FdsSet
  <1>9. Fresh(p, 0) /\ Mine(p) /\ PeersOf(p)
    <2>1. \A y, id : Sock(p, y, id)' => Sock(p, y, id)
      BY <1>6, <1>8 DEF Sock
    <2>2. Fresh(p, 0)
      BY <2>1 DEF Fresh
    <2> QED BY <1>1, <2>2, FreshIsMine DEF PeersOf
  <1>10. w.sock[fd] = NoEndpoint
    <2>1. w.sock[fd] = IF fd \in DOMAIN table'[p].fds /\ table'[p].fds[fd].kind = "socket"
                       THEN peers'[table'[p].fds[fd].id] ELSE NoEndpoint
      BY <1>3, ViewFields DEF ViewOf, w
    <2>2. fd \notin DOMAIN table'[p].fds
      BY <1>6, <1>8
    <2> QED BY <2>1, <2>2
  <1>11. ASSUME more[p] = {}
         PROVE  Own(p)' /\ Tells(p, Stamped(ev), ViewOf(p), ViewOf(p)')
    <2>1. Own(p) /\ ~linked
      BY <1>5, <1>11, OwnNow
    <2>2. \A l \in DOMAIN links'[p] : links'[p][l] \in Open(p)'
      <3> SUFFICES ASSUME NEW l \in DOMAIN links[p] PROVE links[p][l] \in Open(p)'
        BY <1>1
      <3>1. links[p][l] \in Open(p) /\ links[p][l] # fd
        BY <2>1 DEF Own
      <3> QED BY <1>6, <1>8, <3>1
    <2>3. Own(p)'
      BY <1>3, <1>8, <1>9, <2>1, <2>2, OwnStays
    <2>4. \A l \in Link : w.link[l] # NoFd => w.link[l] # fd
      <3> SUFFICES ASSUME NEW l \in Link, w.link[l] # NoFd PROVE w.link[l] # fd
        OBVIOUS
      <3>1. w.link[l] = IF l \in DOMAIN links[p] THEN links[p][l] ELSE NoFd
        BY <1>7, ViewFields DEF ViewOf, v
      <3> QED BY <2>1, <3>1
    <2>5. \A key : /\ ~Relates(e, key)
                   /\ (Touches(e, key) \/ Bumps(e, key)) => key = <<p, fd>>
      BY <1>4 DEF Touches, Relates, Bumps
    <2>6. \A x \in Fds : w.sock[x] # NoEndpoint =>
             ~Touches(e, <<p, x>>) /\ w.sock[x] = v.sock[x]
      <3> SUFFICES ASSUME NEW x \in Fds, w.sock[x] # NoEndpoint
                   PROVE  ~Touches(e, <<p, x>>) /\ w.sock[x] = v.sock[x]
        OBVIOUS
      <3>1. x # fd
        BY <1>10
      <3>2. <<p, x>> # <<p, fd>>
        BY <3>1
      <3> QED BY <1>7, <2>5, <3>1, <3>2
    <2>7. \A l \in Link : w.link[l] # NoFd => ~Bumps(e, <<p, w.link[l]>>)
      <3> SUFFICES ASSUME NEW l \in Link, w.link[l] # NoFd
                   PROVE  ~Bumps(e, <<p, w.link[l]>>)
        OBVIOUS
      <3>1. <<p, w.link[l]>> # <<p, fd>>
        BY <2>4
      <3> QED BY <2>5, <3>1
    <2>8. \A s \in Ssls, d \in Directions : <<s, d>> \in Link
      BY DEF Link
    <2>9. Tells(p, e, v, w)
      BY <1>4, <1>7, <2>5, <2>6, <2>7, <2>8 DEF Tells
    <2> QED BY <2>3, <2>9 DEF e, v, w
  <1>12. Stamped(ev).pid = p
    BY <1>4 DEF e
  <1> QED BY <1>1, <1>2, <1>4, <1>5, <1>8, <1>9, <1>11, <1>12, CallFull

LEMMA ConnectFull ==
    ASSUME EndpointInv, FullInv, NEW p \in Live, Connect(p)
    PROVE  FullInv'
  <1>0. PICK fd \in Open(p), peer \in Peers, ret \in {0, -1} :
          LET socket == table[p].fds[fd]
          IN  /\ socket.kind = "socket"
              /\ peers[socket.id] # NoEndpoint => ret = -1
              /\ peers' = IF ret = 0 THEN [peers EXCEPT ![socket.id] = peer] ELSE peers
              /\ Emitted([kind |-> "connect", ring |-> "net", pid |-> p, fd |-> fd,
                          peer |-> peer, ret |-> ret],
                         IF ret = 0 THEN taint ELSE Taints({p}, "connect failed"))
    BY DEF Connect
  <1> DEFINE id == table[p].fds[fd].id
             ev == [kind |-> "connect", ring |-> "net", pid |-> p, fd |-> fd,
                    peer |-> peer, ret |-> ret]
             e == Stamped(ev)
             more == IF ret = 0 THEN taint ELSE Taints({p}, "connect failed")
             v == ViewOf(p)
             w == ViewOf(p)'
  <1>1. /\ Emitted(ev, more) /\ UNCHANGED <<table, links, born>>
        /\ table[p].fds[fd].kind = "socket"
        /\ peers' = IF ret = 0 THEN [peers EXCEPT ![id] = peer] ELSE peers
    BY <1>0 DEF Connect
  <1>2. net' = net /\ last' = last
    BY DEF Connect, Called
  <1>3. HostShape /\ TaintOK /\ p \in Pids /\ fd \in DOMAIN table[p].fds
    BY <1>0 DEF EndpointInv, HostShape, Open
  <1>4. fd \in Fds /\ id \in 1 .. Len(peers) /\ peers \in Seq(Remote)
    <2>1. IsProcess(table[p], Len(peers)) /\ peers \in Seq(Remote)
      BY <1>3 DEF HostShape
    <2> QED BY <1>1, <1>3, <2>1 DEF IsProcess
  <1>5. e.pid = p /\ e.kind = "connect" /\ ev.pid = p /\ e.fd = fd /\ e.peer = peer
    BY StampedFields
  <1>6. Longer(more) /\ (ret # 0 => more[p] # {})
    BY <1>3, TaintsLonger, SameLonger
  <1>7. Sock(p, fd, id)
    BY <1>1, <1>3 DEF Sock, Open
  <1> HIDE DEF ev, e, more, v, w, id
  <1>8. /\ \A x \in 1 .. Len(peers) : x # id => peers'[x] = peers[x]
        /\ ret = 0 => peers'[id] = peer
    <2>1. CASE ret = 0
      BY <1>1, <1>4, <2>1
    <2>2. CASE ret # 0
      BY <1>1, <2>2
    <2> QED BY <2>1, <2>2
  <1>9. PeersOf(p)
    BY <1>7, <1>8 DEF PeersOf
  <1>10. /\ Live' = Live /\ table'[p].fds = table[p].fds /\ links'[p] = links[p]
         /\ Apart(p) /\ p \in Live'
    BY <1>1 DEF Live, Apart
  <1>11. (\A x, i : Sock(p, x, i)' = Sock(p, x, i)) /\ Open(p)' = Open(p)
    BY <1>10, SameSocks
  <1>12. Fresh(p, 0)
    BY <1>11 DEF Fresh
  <1>13. Mine(p)
    BY <1>12, FreshIsMine
  <1>14. ASSUME more[p] = {}
         PROVE  Own(p)' /\ Tells(p, Stamped(ev), ViewOf(p), ViewOf(p)')
    <2>1. Own(p) /\ ret = 0
      BY <1>6, <1>14, OwnNow
    <2>2. \A l \in DOMAIN links'[p] : links'[p][l] \in Open(p)'
      BY <1>10, <1>11, <2>1 DEF Own
    <2>3. Own(p)'
      BY <1>3, <1>10, <1>12, <2>1, <2>2, OwnStays
    <2> DEFINE fds == table[p].fds
    <2>4. \A x \in Fds : w.sock[x] = IF x \in DOMAIN fds /\ fds[x].kind = "socket"
                                     THEN peers'[fds[x].id] ELSE NoEndpoint
      <3>1. table' = table /\ links' = links
        BY <1>1
      <3> QED BY <3>1, ViewFields DEF ViewOf, w
    <2>5. \A x \in Fds : v.sock[x] = IF x \in DOMAIN fds /\ fds[x].kind = "socket"
                                     THEN peers[fds[x].id] ELSE NoEndpoint
      BY ViewFields DEF ViewOf, v
    <2>6. \A l \in Link : w.link[l] = v.link[l]
      BY <1>1, ViewFields DEF ViewOf, v, w
    <2>7. \A x \in DOMAIN fds : fds[x].kind = "socket" =>
             fds[x].id \in 1 .. Len(peers) /\ (x # fd => fds[x].id # id)
      <3> SUFFICES ASSUME NEW x \in DOMAIN fds, fds[x].kind = "socket"
                   PROVE  fds[x].id \in 1 .. Len(peers) /\ (x # fd => fds[x].id # id)
        OBVIOUS
      <3>1. Sock(p, x, fds[x].id)
        BY DEF Sock, Open
      <3> DEFINE i == fds[x].id
      <3> HIDE DEF fds, i
      <3>2. Sock(p, x, i)
        BY <3>1 DEF i
      <3>3. i \in 1 .. Len(peers)
        BY <1>3, <3>2, SockNumbers
      <3>4. i = id => x = fd
        BY <1>7, <2>1, <3>2 DEF Own
      <3> QED BY <3>3, <3>4 DEF i
    <2>8. fd \in DOMAIN fds /\ fds[fd].kind = "socket" /\ fds[fd].id = id
      BY <1>1, <1>3 DEF id
    <2> HIDE DEF fds
    <2>9. w.sock[fd] = peer /\ \A x \in Fds : x # fd => w.sock[x] = v.sock[x]
      BY <1>4, <1>8, <2>1, <2>4, <2>5, <2>7, <2>8
    <2>10. \A key : /\ ~Relates(e, key) /\ ~Bumps(e, key)
                    /\ Touches(e, key) => key = <<p, fd>>
      BY <1>5 DEF Touches, Relates, Bumps
    <2>11. \A x \in Fds : w.sock[x] # NoEndpoint =>
              \/ e.kind = "connect" /\ <<p, x>> = <<e.pid, e.fd>> /\ w.sock[x] = e.peer
              \/ ~Touches(e, <<p, x>>) /\ w.sock[x] = v.sock[x]
      <3> TAKE x \in Fds
      <3>1. CASE x = fd
        BY <1>5, <2>9, <3>1
      <3>2. CASE x # fd
        <4>1. <<p, x>> # <<p, fd>>
          BY <3>2
        <4> QED BY <2>9, <2>10, <3>2, <4>1
      <3> QED BY <3>1, <3>2
    <2>12. \A s \in Ssls, d \in Directions : <<s, d>> \in Link
      BY DEF Link
    <2>13. Tells(p, e, v, w)
      BY <1>5, <2>6, <2>10, <2>11, <2>12 DEF Tells
    <2> QED BY <2>3, <2>13 DEF e, v, w
  <1>15. Stamped(ev).pid = p
    BY <1>5 DEF e
  <1> QED BY <1>1, <1>2, <1>5, <1>6, <1>9, <1>10, <1>13, <1>14, <1>15, CallFull

LEMMA ExecFull ==
    ASSUME EndpointInv, FullInv, NEW p \in Live, Exec(p)
    PROVE  FullInv'
  <1>0. PICK closed :
           /\ table' = [table EXCEPT ![p].fds = Keep(@, Open(p) \ closed)]
           /\ Emitted([kind |-> "exec", ring |-> "proc", pid |-> p],
                      IF closed = {} THEN taint ELSE Taints({p}, "closed unseen"))
    BY DEF Exec
  <1> DEFINE F == Keep(table[p].fds, Open(p) \ closed)
             more == IF closed = {} THEN taint ELSE Taints({p}, "closed unseen")
             ev == [kind |-> "exec", ring |-> "proc", pid |-> p]
             v == ViewOf(p)
             w == ViewOf(p)'
             fds == table[p].fds
  <1>1. /\ table' = [table EXCEPT ![p].fds = F]
        /\ links' = [links EXCEPT ![p] = EmptyMap]
        /\ UNCHANGED <<peers, born>> /\ Emitted(ev, more)
    BY <1>0 DEF Exec
  <1>2. net' = net /\ last' = last
    BY DEF Exec, Called
  <1>3. HostShape /\ TaintOK /\ p \in Pids /\ DOMAIN links = Live
    BY DEF EndpointInv, HostShape
  <1>4. DOMAIN F = DOMAIN fds \cap (Open(p) \ closed)
        /\ \A x \in DOMAIN F : F[x] = fds[x]
    <2> DEFINE keep == Open(p) \ closed
    <2>1. F = Keep(fds, keep)
      OBVIOUS
    <2> HIDE DEF F, fds, keep
    <2>2. DOMAIN F = DOMAIN fds \cap keep /\ \A x \in DOMAIN F : F[x] = fds[x]
      BY <2>1, KeepFacts
    <2> QED BY <2>2 DEF keep
  <1>5. Longer(more) /\ (closed # {} => more[p] # {})
    BY <1>3, TaintsLonger, SameLonger
  <1>6. Stamped(ev).pid = p /\ Stamped(ev).kind = "exec" /\ ev.pid = p
    BY StampedFields
  <1>7. \A fd \in Fds : v.sock[fd] = IF fd \in DOMAIN fds /\ fds[fd].kind = "socket"
                                     THEN peers[fds[fd].id] ELSE NoEndpoint
    BY ViewFields DEF ViewOf
  <1> HIDE DEF F, more, ev
  <1>8. links'[p] = EmptyMap /\ DOMAIN links'[p] = {}
        /\ \A r \in Live : r # p => links'[r] = links[r]
    <2>1. DOMAIN EmptyMap = {}
      BY DEF EmptyMap
    <2> QED BY <1>1, <1>3, <2>1
  <1>9. /\ p \in Live' /\ Apart(p) /\ table'[p].fds = F
        /\ \A y, id : Sock(p, y, id)'
              = (y \in DOMAIN F /\ F[y].kind = "socket" /\ F[y].id = id)
    <2>1. table' = [table EXCEPT ![p].fds = F]
      BY <1>1
    <2>2. \A r \in Live : r # p => links'[r] = links[r]
      BY <1>8
    <2>3. HostShape
      BY <1>3
    <2> HIDE DEF v, w, fds
    <2> QED BY <2>1, <2>2, <2>3, FdsSet
  <1>10. Fresh(p, 0)
    <2>1. \A y, id : Sock(p, y, id)' => Sock(p, y, id)
      BY <1>4, <1>9 DEF Sock, Open
    <2> QED BY <2>1 DEF Fresh
  <1>11. Mine(p) /\ PeersOf(p)
    BY <1>1, <1>10, FreshIsMine DEF PeersOf
  <1>12. ASSUME more[p] = {}
         PROVE  Own(p)' /\ Tells(p, Stamped(ev), ViewOf(p), ViewOf(p)')
    <2>1. Own(p) /\ closed = {}
      BY <1>5, <1>12, OwnNow
    <2>2. Own(p)'
      BY <1>3, <1>8, <1>9, <1>10, <2>1, OwnStays
    <2>3. \A fd \in Fds : w.sock[fd] = IF fd \in DOMAIN F /\ F[fd].kind = "socket"
                                       THEN peers[F[fd].id] ELSE NoEndpoint
      BY <1>1, <1>9, ViewFields DEF ViewOf
    <2>4. DOMAIN F = DOMAIN fds
      BY <1>4, <2>1 DEF Open
    <2>5. \A l \in Link : w.link[l] = NoFd
      BY <1>8, ViewFields DEF ViewOf
    <2> HIDE DEF v, w, fds
    <2>6. \A fd \in Fds : w.sock[fd] = v.sock[fd]
      BY <1>4, <1>7, <2>3, <2>4
    <2>7. Plain(Stamped(ev))
      BY <1>6 DEF Plain
    <2>8. Tells(p, Stamped(ev), v, w)
      BY <2>5, <2>6, <2>7, PlainTells
    <2> QED BY <2>2, <2>8 DEF v, w
  <1> QED BY <1>1, <1>2, <1>5, <1>6, <1>9, <1>11, <1>12, CallFull

LEMMA ExitFull ==
    ASSUME EndpointInv, FullInv, NEW p \in Live, Exit(p)
    PROVE  FullInv'
  <1> DEFINE ev == [kind |-> "exit", ring |-> "proc", pid |-> p]
             more == taint
  <1>1. /\ Emitted(ev, more) /\ UNCHANGED <<peers, born>>
        /\ table' = Without(table, p) /\ links' = Without(links, p)
    BY DEF Exit
  <1>2. net' = net /\ last' = last
    BY DEF Exit, Called
  <1>3. HostShape /\ TaintOK /\ p \in Pids /\ DOMAIN links = Live
    BY DEF EndpointInv, HostShape
  <1>4. Stamped(ev).pid = p /\ Stamped(ev).kind = "exit" /\ ev.pid = p
    BY StampedFields
  <1>5. Longer(more)
    BY <1>3, SameLonger
  <1> HIDE DEF ev, more
  <1>6. \A q \in Live' : q \in Live /\ q # p /\ table'[q] = table[q] /\ links'[q] = links[q]
    <2>1. /\ DOMAIN table' = Live \ {p}
          /\ \A q \in Live : q # p => table'[q] = table[q] /\ links'[q] = links[q]
      BY <1>1, <1>3, WithoutFacts DEF Live
    <2> QED BY <2>1 DEF Live
  <1>7. Apart(p) /\ PeersOf(p) /\ p \notin Live'
    BY <1>1, <1>6 DEF Apart, PeersOf
  <1>8. Plain(Stamped(ev))
    BY <1>4 DEF Plain
  <1>9. ASSUME NEW q \in Live', more[q] = {}
        PROVE  /\ q \in Live /\ Own(q)'
               /\ IF q = ev.pid THEN Tells(q, Stamped(ev), ViewOf(q), ViewOf(q)')
                  ELSE ViewOf(q)' = ViewOf(q)
    <2>1. q \in Live /\ q # p
      BY <1>6
    <2>2. Own(q)
      BY <1>5, <1>9, <2>1, OwnNow
    <2>3. Own(q)' /\ ViewOf(q)' = ViewOf(q)
      BY <1>3, <1>7, <2>1, <2>2, OthersOwn
    <2> QED BY <1>4, <2>1, <2>3
  <1>10. Tells(ev.pid, Stamped(ev), ViewOf(ev.pid), ViewOf(ev.pid))
    BY <1>8, PlainTellsSame
  <1>11. \A q \in born' \ born : more[q] # {}
    BY <1>1
  <1>12. Stamped(ev).pid = ev.pid /\ ev.pid \in Live
    BY <1>4
  <1> QED BY <1>1, <1>2, <1>5, <1>9, <1>10, <1>11, <1>12, EmittedFull

LEMMA ForkFull ==
    ASSUME EndpointInv, FullInv, NEW p \in Live, Fork(p)
    PROVE  FullInv'
  <1>0. PICK task \in {p} \cup ThreadsOf(p), child \in Pids \ Live :
          /\ table' = Put(table, child, table[p])
          /\ links' = Put(links, child, links[p])
          /\ born' = born \cup {child}
          /\ Emitted([kind |-> "fork", ring |-> "proc", pid |-> p, task |-> task,
                      child |-> child],
                     [taint EXCEPT ![p] = @ \cup {"shares descriptors"},
                                   ![child] = @ \cup taint[p] \cup {"shares descriptors"}
                                       \cup (IF child \in born THEN {"pid reused"} ELSE {})
                                       \cup (IF task # p THEN {"forked by a thread"} ELSE {})])
    BY DEF Fork, Unused
  <1> DEFINE ev == [kind |-> "fork", ring |-> "proc", pid |-> p, task |-> task, child |-> child]
             more == [taint EXCEPT ![p] = @ \cup {"shares descriptors"},
                                   ![child] = @ \cup taint[p] \cup {"shares descriptors"}
                                       \cup (IF child \in born THEN {"pid reused"} ELSE {})
                                       \cup (IF task # p THEN {"forked by a thread"} ELSE {})]
  <1>1. Emitted(ev, more) /\ peers' = peers
    BY <1>0 DEF Fork
  <1>2. net' = net /\ last' = last
    BY DEF Fork, Called
  <1>3. HostShape /\ TaintOK /\ p \in Pids /\ child # p /\ DOMAIN links = Live
    BY <1>0 DEF EndpointInv, HostShape
  <1>4. Stamped(ev).pid = p /\ ev.pid = p
    BY StampedFields
  <1>5. Longer(more) /\ more[child] # {} /\ more[p] # {}
    <2> DEFINE a == taint[p] \cup {"shares descriptors"}
               b == taint[child] \cup taint[p] \cup {"shares descriptors"}
                       \cup (IF child \in born THEN {"pid reused"} ELSE {})
                       \cup (IF task # p THEN {"forked by a thread"} ELSE {})
    <2>1. more = [[taint EXCEPT ![p] = a] EXCEPT ![child] = b]
      BY <1>3 DEF TaintOK
    <2>2. taint[p] \subseteq a /\ taint[child] \subseteq b /\ a # {} /\ b # {}
      OBVIOUS
    <2> HIDE DEF a, b, more
    <2>3. /\ more = [q \in Pids |-> more[q]]
          /\ \A q \in Pids : more[q] = IF q = child THEN b ELSE IF q = p THEN a ELSE taint[q]
      BY <1>3, <2>1 DEF TaintOK
    <2> QED BY <1>0, <1>3, <2>2, <2>3 DEF Longer
  <1> HIDE DEF ev, more
  <1>6. Live' = Live \cup {child}
    BY <1>0, PutFacts DEF Live
  <1>7. /\ table'[child] = table[p] /\ p \in Live'
        /\ \A q \in Live : table'[q] = table[q] /\ links'[q] = links[q]
    <2>1. /\ table' = [q \in Live \cup {child} |-> IF q = child THEN table[p] ELSE table[q]]
          /\ links' = [q \in Live \cup {child} |-> IF q = child THEN links[p] ELSE links[q]]
      BY <1>0, <1>3 DEF Put, Live
    <2> QED BY <1>0, <1>6, <2>1
  <1>8. ASSUME NEW q \in Live', more[q] = {}
        PROVE  q \in Live /\ q # p /\ Own(q)' /\ ViewOf(q)' = ViewOf(q)
    <2>1. q \in Live /\ q # p /\ table'[q].fds = table[q].fds /\ links'[q] = links[q]
      BY <1>5, <1>6, <1>7, <1>8
    <2>2. Own(q)
      BY <1>5, <1>8, <2>1, OwnNow
    <2>3. ViewOf(q)' = ViewOf(q)
      BY <1>1, <2>1, SameView
    <2>4. (\A x, id : Sock(q, x, id)' = Sock(q, x, id)) /\ Open(q)' = Open(q)
      BY <2>1, SameSocks
    <2>5. \A x, y, id : \A r \in Live : Sock(q, x, id) /\ Sock(r, y, id) => r = q /\ y = x
      BY <2>2 DEF Own
    <2>6. ASSUME NEW x, NEW y, NEW id, NEW r \in Live', Sock(q, x, id)', Sock(r, y, id)'
          PROVE  r = q /\ y = x
      <3>1. Sock(q, x, id)
        BY <2>4, <2>6
      <3>2. CASE r = child
        <4>1. Sock(p, y, id)
          BY <1>7, <2>6, <3>2 DEF Sock, Open
        <4> QED BY <2>1, <2>5, <3>1, <4>1
      <3>3. CASE r \in Live
        <4>1. Sock(r, y, id)
          BY <1>7, <2>6, <3>3, SameSocks
        <4> QED BY <2>5, <3>1, <3>3, <4>1
      <3> QED BY <1>6, <3>2, <3>3
    <2>7. \A l \in DOMAIN links'[q] : links'[q][l] \in Open(q)'
      BY <2>1, <2>2, <2>4 DEF Own
    <2>8. Own(q)'
      BY <2>6, <2>7 DEF Own
    <2> QED BY <2>1, <2>3, <2>8
  <1>9. ASSUME NEW q \in Live', more[q] = {}
        PROVE  /\ q \in Live /\ Own(q)'
               /\ IF q = ev.pid THEN Tells(q, Stamped(ev), ViewOf(q), ViewOf(q)')
                  ELSE ViewOf(q)' = ViewOf(q)
    BY <1>4, <1>8, <1>9
  <1>10. \A q \in born' \ born : more[q] # {}
    BY <1>0, <1>5
  <1>11. Stamped(ev).pid = ev.pid /\ ev.pid \in Live /\ ev.pid \in Live'
    BY <1>4, <1>7
  <1> QED BY <1>1, <1>2, <1>5, <1>9, <1>10, <1>11, EmittedFull

LEMMA HostFull ==
    ASSUME EndpointInv, FullInv, Host
    PROVE  FullInv'
  <1>1. ASSUME NEW p \in Live,
               \/ Fork(p) \/ StartThread(p) \/ Exec(p) \/ Exit(p) \/ EndThread(p)
               \/ Chdir(p) \/ OpenFile(p) \/ OpenUnseen(p) \/ Unlink(p) \/ Rename(p)
               \/ Socket(p) \/ Accept(p) \/ Dup(p) \/ Close(p) \/ Connect(p)
               \/ SetFd(p) \/ SetBio(p) \/ Transfer(p)
        PROVE  FullInv'
    <2>1. CASE Fork(p) \/ StartThread(p) \/ Exec(p) \/ Exit(p) \/ EndThread(p)
      BY <2>1, ForkFull, StartThreadFull, ExecFull, ExitFull, EndThreadFull
    <2>2. CASE Chdir(p) \/ OpenFile(p) \/ OpenUnseen(p) \/ Unlink(p) \/ Rename(p)
      BY <2>2, ChdirFull, OpenFileFull, OpenUnseenFull, UnlinkFull, RenameFull
    <2>3. CASE Socket(p) \/ Accept(p) \/ Dup(p) \/ Close(p) \/ Connect(p)
      BY <2>3, SocketFull, AcceptFull, DupFull, CloseFull, ConnectFull
    <2>4. CASE SetFd(p) \/ SetBio(p) \/ Transfer(p)
      BY <2>4, SetFdFull, SetBioFull, TransferFull
    <2> QED BY <1>1, <2>1, <2>2, <2>3, <2>4
  <1> QED BY <1>1, RelinkFull DEF Host
-----------------------------------------------------------------------------
(* The daemon, and processes to which nothing has happened.                *)

\* What the history keeps of those of which something is forgotten.
LEMMA FollowedForgets ==
    ASSUME NEW i \in DOMAIN flight, NEW norm2, NEW net2, NEW p \in Pids,
           Followed(i, norm2, net2)[p] = {}
    PROVE  /\ taint[p] = {}
           /\ p \notin Forgotten(net, flight[i], net2)
           /\ flight[i].pid = p => \A x \in 1 .. i - 1 : flight[x].pid # p
  <1> DEFINE ev == flight[i]
             late == UNION {Concerned(ev) : j \in {j \in 1 .. i - 1 :
                               Concerned(flight[j]) \cap Concerned(ev) # {}}}
             dropped == (DOMAIN norm.processes \cup DOMAIN norm.expiring)
                           \ (DOMAIN norm2.processes \cup DOMAIN norm2.expiring)
             own == IF ev.kind = "dup" THEN {<<ev.pid, ev.newfd>>} ELSE {}
             forgotten == {key[1] : key \in
                 (DOMAIN net.versions \ DOMAIN net2.versions)
                 \cup ((KeysIn(net.fds) \ KeysIn(net2.fds)) \ own)
                 \cup IF ev.kind = "assoc" THEN KeysIn(net.assocs) \ KeysIn(net2.assocs) ELSE {}}
             overtaken(q) == IF q \in late THEN {"overtaken"} ELSE {}
             pushed(q) == IF q \in dropped \cup forgotten THEN {"pushed out"} ELSE {}
             taken(q) == IF ev.kind = "fork" /\ q = ev.child THEN taint[ev.pid] ELSE {}
             more == Followed(i, norm2, net2)
  <1>1. more = [q \in Pids |-> taint[q] \cup overtaken(q) \cup pushed(q) \cup taken(q)]
    BY DEF Followed
  <1>2. forgotten = Forgotten(net, ev, net2)
    BY DEF Forgotten
  <1>3. \A j \in 1 .. i - 1 : flight[j].pid = ev.pid => ev.pid \in late
    <2> SUFFICES ASSUME NEW j \in 1 .. i - 1, flight[j].pid = ev.pid
                 PROVE  ev.pid \in late
      OBVIOUS
    <2>1. ev.pid \in Concerned(ev) /\ ev.pid \in Concerned(flight[j])
      BY DEF Concerned
    <2> QED BY <2>1
  <1>4. /\ p \in late => overtaken(p) # {}
        /\ p \in forgotten => pushed(p) # {}
    OBVIOUS
  <1> HIDE DEF late, forgotten, overtaken, pushed, taken, more
  <1>5. more[p] = taint[p] \cup overtaken(p) \cup pushed(p) \cup taken(p)
    BY <1>1
  <1>6. more[p] = {}
    BY DEF more
  <1>7. taint[p] = {} /\ overtaken(p) = {} /\ pushed(p) = {}
    BY <1>5, <1>6
  <1> QED BY <1>2, <1>3, <1>4, <1>7

LEMMA DeliverFull ==
    ASSUME EndpointInv, FullInv, NEW i \in DOMAIN flight, Deliver(i)
    PROVE  FullInv'
  <1> DEFINE ev == flight[i]
             rest == SubSeq(flight, 1, i - 1) \o SubSeq(flight, i + 1, Len(flight))
             m == net'
  <1>1. UNCHANGED <<table, peers, links, born>> /\ flight' = rest
        /\ taint' = Followed(i, norm', net')
    BY DEF Deliver
  <1>2. Tidy(net, EndpointCapacity) /\ Events(flight) /\ IsSeq(flight) /\ IsEvent(ev)
        /\ ev.pid \in Pids
    BY DEF EndpointInv, FlightOK, Events, HostShape
  <1>3. Rest(flight, i, rest)
    BY <1>2, RestOf
  <1>4. /\ Live' = Live /\ peers' = peers
        /\ \A r \in Live : table'[r].fds = table[r].fds /\ links'[r] = links[r]
    BY <1>1, SameHost
  <1>5. ASSUME NEW p \in Pids, taint'[p] = {}
        PROVE  /\ taint[p] = {}
               /\ p \notin Forgotten(net, ev, m)
               /\ ev.pid = p => \A x \in 1 .. i - 1 : flight[x].pid # p
    <2> DEFINE norm2 == norm'
    <2>1. Followed(i, norm2, m)[p] = {}
      BY <1>1, <1>5
    <2> HIDE DEF norm2, m
    <2> QED BY <2>1, FollowedForgets
  <1>6. Follows(net, ev, m) /\ Preserves(net, ev, m)
    <2>1. CASE ev.kind = "fragment"
      <3>1. m = net
        BY <2>1 DEF Deliver
      <3>2. \A x : ~Touches(ev, x)
        BY <2>1 DEF Touches
      <3>3. \A x \in DOMAIN net.versions : net.versions[x] = VersionOr(net, x, 1)
        BY DEF VersionOr
      <3>4. ev.kind # "assoc" /\ ev.kind \notin {"connect", "assoc"}
        BY <2>1
      <3> HIDE DEF ev, m
      <3>5. Follows(net, ev, net)
        BY <3>2, <3>4, SameFollows
      <3>6. Preserves(net, ev, net)
        BY <1>2, <3>3, <3>4, SamePreserves
      <3> QED BY <3>1, <3>5, <3>6
    <2>2. CASE ev.kind # "fragment"
      <3>1. m = ApplyNet(net, ev)
        BY <2>2 DEF Deliver
      <3> HIDE DEF ev, m
      <3> QED BY <1>2, <3>1, ApplyNetWorks, ApplyNetPreserves
    <2> QED BY <2>1, <2>2
  <1> HIDE DEF rest, m
  <1>7. ASSUME NEW p \in Pids, p \in born, taint'[p] = {}
        PROVE  TrackedFull(p, m, rest, p \in Live, ViewOf(p)) /\ (p \in Live => Own(p))
    <2>1. TrackedFull(p, net, flight, p \in Live, ViewOf(p)) /\ (p \in Live => Own(p))
      BY <1>5, <1>7 DEF FullInv
    <2>2. PICK c : FullChain(p, net, flight, c) /\ (p \in Live => c[Len(flight)] = ViewOf(p))
      BY <2>1 DEF TrackedFull
    <2>3. p \notin Forgotten(net, ev, m)
      BY <1>5, <1>7
    <2>4. \E d : FullChain(p, m, rest, d) /\ d[Len(rest)] = c[Len(flight)]
      <3>1. CASE ev.pid # p
        BY <1>2, <1>3, <1>6, <2>2, <2>3, <3>1, FullChainDrops
      <3>2. CASE ev.pid = p
        <4>1. \A x \in 1 .. i - 1 : flight[x].pid # p
          BY <1>5, <1>7, <3>2
        <4> QED BY <1>2, <1>3, <1>6, <2>2, <2>3, <3>2, <4>1, FullChainAdvances
      <3> QED BY <3>1, <3>2
    <2>5. TrackedFull(p, m, rest, p \in Live, ViewOf(p))
      BY <2>2, <2>4 DEF TrackedFull
    <2> QED BY <2>1, <2>5
  <1>8. ASSUME NEW p \in Pids, p \in born', taint'[p] = {}
        PROVE  TrackedFull(p, net', flight', p \in Live', ViewOf(p)') /\ (p \in Live' => Own(p)')
    <2>1. TrackedFull(p, m, rest, p \in Live, ViewOf(p)) /\ (p \in Live => Own(p))
      BY <1>1, <1>7, <1>8
    <2>2. ASSUME p \in Live PROVE ViewOf(p)' = ViewOf(p) /\ (Own(p) => Own(p)')
      BY <1>4, <2>2, SameApart DEF EndpointInv
    <2>3. p \in Live' <=> p \in Live
      BY <1>4
    <2>4. net' = m
      BY DEF m
    <2> QED BY <1>1, <2>1, <2>2, <2>3, <2>4 DEF TrackedFull
  <1>9. ConnectedStreamsAreAttributed'
    <2>1. CASE ev.kind = "fragment"
      <3> DEFINE told == RecordTlsFragment(net, ev.pid, ev.ssl, ev.direction)
                 p == ev.pid
      <3>1. last' = [kind |-> "fragment", pid |-> p, real |-> ev.real, told |-> told]
        BY <2>1 DEF Deliver, Attribute
      <3> HIDE DEF told
      <3>2. last'.pid = p /\ last'.real = ev.real /\ last'.told = told
        BY <3>1
      <3>3. ASSUME taint'[p] = {} PROVE told.endpoint = ev.real
        <4>1. p \in Pids /\ p \in born
          BY <1>2 DEF EndpointInv, FlightOK
        <4>2. taint[p] = {} /\ \A x \in 1 .. i - 1 : flight[x].pid # p
          BY <1>5, <3>3, <4>1
        <4>3. PICK c : FullChain(p, net, flight, c)
          BY <4>1, <4>2 DEF FullInv, TrackedFull
        <4> DEFINE v == c[i - 1]
        <4>4. FullOf(net, p, v) /\ Tells(p, ev, v, c[i])
          BY <1>2, <4>2, <4>3, FullChainTells
        <4> HIDE DEF v
        <4>5. /\ v.link[<<ev.ssl, ev.direction>>] \in Fds
              /\ v.sock[v.link[<<ev.ssl, ev.direction>>]] = ev.real
              /\ v.sock[v.link[<<ev.ssl, ev.direction>>]] # NoEndpoint
          BY <2>1, <4>4 DEF Tells
        <4>6. ev.ssl \in Ssls /\ ev.direction \in Directions
          BY <1>2, <2>1 DEF IsEvent
        <4> HIDE DEF ev
        <4>7. told.endpoint = v.sock[v.link[<<ev.ssl, ev.direction>>]]
          BY <1>2, <4>4, <4>5, <4>6, FragmentAttributed DEF told, p
        <4> QED BY <4>5, <4>7
      <3> QED BY <3>2, <3>3 DEF ConnectedStreamsAreAttributed
    <2>2. CASE ev.kind # "fragment"
      <3>1. last'.kind # "fragment"
        <4> DEFINE done == Normalize(norm, files, ev)
        <4>1. last' = IF done.resolved = <<>> THEN Nothing
                      ELSE [kind |-> "paths", pid |-> ev.pid, real |-> ev.real,
                            before |-> ev.before, after |-> ev.after,
                            claimed |-> [k \in DOMAIN done.resolved |->
                                            done.resolved[k].preferred]]
          BY <2>2 DEF Deliver
        <4> HIDE DEF done
        <4> QED BY <4>1 DEF Nothing
      <3> QED BY <3>1 DEF ConnectedStreamsAreAttributed
    <2> QED BY <2>1, <2>2
  <1> QED BY <1>8, <1>9 DEF FullInv

LEMMA FullAtFirst == Init => FullInv
  <1> SUFFICES ASSUME Init PROVE FullInv
    OBVIOUS
  <1> DEFINE first == [cwd |-> 1, fds |-> EmptyMap]
             v == ViewOf(1)
  <1>1. /\ table = [p \in {1} |-> first] /\ links = [p \in {1} |-> EmptyMap]
        /\ born = {1} /\ peers = <<>> /\ flight = <<>> /\ last = Nothing
    BY DEF Init
  <1>2. DOMAIN EmptyMap = {} /\ first.fds = EmptyMap
    BY DEF EmptyMap
  <1> HIDE DEF first
  <1>3. Live = {1} /\ table[1].fds = EmptyMap /\ links[1] = EmptyMap
    BY <1>1, <1>2 DEF Live
  <1>4. Open(1) = {} /\ \A x, id : ~Sock(1, x, id)
    BY <1>2, <1>3 DEF Open, Sock
  <1>5. Own(1)
    BY <1>2, <1>3, <1>4 DEF Own
  <1>6. /\ \A fd \in Fds : v.sock[fd] = NoEndpoint
        /\ \A l \in Link : v.link[l] = NoFd
    BY <1>2, <1>3, ViewFields DEF ViewOf
  <1> HIDE DEF v
  <1>7. FullOf(net, 1, v)
    <2>1. \A s \in Ssls, d \in Directions : <<s, d>> \in Link
      BY DEF Link
    <2> QED BY <1>6, <2>1 DEF FullOf
  <1>8. FullChain(1, net, flight, [k \in {0} |-> v])
    <2> DEFINE c == [k \in {0} |-> v]
    <2>1. c[0] = v /\ Len(flight) = 0
      BY <1>1
    <2> HIDE DEF c
    <2>2. FullChain(1, net, flight, c)
      BY <1>7, <2>1 DEF FullChain
    <2> QED BY <2>2 DEF c
  <1>9. TrackedFull(1, net, flight, TRUE, v)
    <2>1. [k \in {0} |-> v][Len(flight)] = v
      BY <1>1
    <2> QED BY <1>8, <2>1 DEF TrackedFull
  <1>10. ConnectedStreamsAreAttributed
    BY <1>1 DEF ConnectedStreamsAreAttributed, Nothing
  <1>11. 1 \in Live
    BY <1>3
  <1> QED BY <1>1, <1>5, <1>9, <1>10, <1>11 DEF FullInv, v

LEMMA FullStays == EndpointInv /\ FullInv /\ [Next]_vars => FullInv'
  <1>1. ASSUME EndpointInv, FullInv, UNCHANGED vars
        PROVE  FullInv'
    <2>1. UNCHANGED <<table, peers, links, born, flight, net, last>> /\ taint' = taint
      BY <1>1 DEF vars, host_vars
    <2>2. Longer(taint')
      BY <1>1, <2>1, SameLonger DEF EndpointInv
    <2> QED BY <1>1, <2>1, <2>2, StillFull
  <1> QED BY <1>1, HostFull, DeliverFull DEF Next

\* Of every process to which nothing has happened, StateNet knows each
\* connected socket and each SSL object, at the current version of its
\* descriptor, once the events that wait are processed.
THEOREM FullInvariant == Spec => []FullInv
  <1>1. Init => FullInv
    BY FullAtFirst
  <1>2. EndpointInv /\ FullInv /\ [Next]_vars => FullInv'
    BY FullStays
  <1> QED BY <1>1, <1>2, EndpointInvariant, PTL DEF Spec

\* A TLS fragment of a process to which nothing has happened is attributed to
\* the peer of its descriptor: as long as no event is lost or overtaken, and
\* nothing is evicted or shared, no stream is left without its endpoint.
\* (state.rs: record_tls_fragment)
THEOREM ConnectedAreAttributed == Spec => []ConnectedStreamsAreAttributed
  <1>1. FullInv => ConnectedStreamsAreAttributed
    BY DEF FullInv
  <1> QED BY <1>1, FullInvariant, PTL
-----------------------------------------------------------------------------
(* The bookkeeping of the normalizer.                                      *)

\* An order of the keys, each once.
Listing(order, keys) == IsSeq(order) /\ IsInjective(order) /\ Range(order) = keys

Parts == {"processes", "order", "expiring", "expiring_order", "cache"}

Known(n) == Cardinality(DOMAIN n.processes) + Cardinality(DOMAIN n.expiring)

\* The orders list the processes, with most processes at most.
NormOK(n, most) ==
    /\ DOMAIN n = Parts
    /\ Listing(n.order, DOMAIN n.processes)
    /\ Listing(n.expiring_order, DOMAIN n.expiring)
    /\ Known(n) <= most

LEMMA ListingCounts ==
    ASSUME NEW order, NEW keys, Listing(order, keys)
    PROVE  /\ IsFiniteSet(keys) /\ Cardinality(keys) \in Nat
           /\ Len(order) = Cardinality(keys)
           /\ Lists(order, keys)
  <1> DEFINE L == Len(order)
             S == 1 .. L
  <1>1. L \in Nat /\ DOMAIN order = S /\ order = [i \in S |-> order[i]]
    BY SeqFacts DEF Listing
  <1>2. IsFiniteSet(S) /\ Cardinality(S) = L
    <2> HIDE DEF L
    <2> QED BY <1>1, FS_Interval
  <1> HIDE DEF L, S
  <1>3. order \in [S -> keys]
    BY <1>1 DEF Listing, Range
  <1>4. order \in Surjection(S, keys)
    BY <1>1, <1>3 DEF Listing, Range, Surjection
  <1>5. order \in Injection(S, keys)
    BY <1>1, <1>3 DEF Listing, Injection, IsInjective
  <1>6. IsFiniteSet(keys) /\ Cardinality(keys) = L
    BY <1>2, <1>4, <1>5, FS_Surjection
  <1> QED BY <1>1, <1>6 DEF Lists, Listing, L

LEMMA InOrderLists ==
    ASSUME NEW order, NEW keys, Listing(order, keys), NEW keep
    PROVE  Listing(InOrder(order, keep), keys \cap keep)
  <1> DEFINE kept == {i \in DOMAIN order : order[i] \in keep}
  <1>1. kept \in SUBSET DOMAIN order
    OBVIOUS
  <1>2. {order[i] : i \in kept} = keys \cap keep
    BY DEF Listing, Range
  <1>3. InOrder(order, keep) = Picked(order, kept)
    BY DEF InOrder
  <1> HIDE DEF kept
  <1> QED BY <1>1, <1>2, <1>3, PickedFacts DEF Listing

LEMMA NotedLists ==
    ASSUME NEW order, NEW keys, Listing(order, keys), NEW pid
    PROVE  Listing(Noted(order, pid), keys \cup {pid})
  <1> DEFINE others == keys \ {pid}
             rest == InOrder(order, others)
  <1>1. Range(order) \ {pid} = others
    BY DEF Listing
  <1>2. Noted(order, pid) = Append(rest, pid)
    BY <1>1 DEF Noted
  <1>3. Listing(rest, keys \cap others)
    BY InOrderLists
  <1>4. keys \cap others = others /\ pid \notin others /\ others \cup {pid} = keys \cup {pid}
    OBVIOUS
  <1> HIDE DEF others, rest
  <1>5. Listing(Append(rest, pid), others \cup {pid})
    BY <1>3, <1>4, AppendFacts DEF Listing
  <1> QED BY <1>2, <1>4, <1>5

LEMMA TailLists ==
    ASSUME NEW order, NEW keys, Listing(order, keys), order # <<>>
    PROVE  Listing(Tail(order), keys \ {Head(order)}) /\ Head(order) \in keys
  <1> DEFINE L == Len(order)
             t == Tail(order)
  <1>1. L \in Nat /\ DOMAIN order = 1 .. L
    BY SeqFacts DEF Listing
  <1>2. L # 0
    <2> SUFFICES ASSUME L = 0 PROVE FALSE
      OBVIOUS
    <2>1. order \in Seq(Range(order))
      BY DEF Listing, IsSeq
    <2> QED BY <2>1
  <1>3. /\ IsSeq(t) /\ DOMAIN t = 1 .. L - 1
        /\ \A i \in 1 .. L - 1 : i + 1 \in DOMAIN order /\ t[i] = order[i + 1]
        /\ Head(order) = order[1] /\ 1 \in DOMAIN order
    BY <1>2, TailFacts DEF Listing
  <1> HIDE DEF L, t
  <1>4. \A i, j \in DOMAIN order : order[i] = order[j] => i = j
    BY DEF Listing, IsInjective
  <1>5. IsInjective(t)
    <2>1. \A i, j \in 1 .. L - 1 : t[i] = t[j] => i + 1 = j + 1
      BY <1>3, <1>4
    <2> QED BY <1>1, <1>3, <2>1 DEF IsInjective
  <1>6. Range(t) = keys \ {Head(order)}
    <2>1. \A i \in 1 .. L - 1 : t[i] \in keys /\ t[i] # order[1]
      <3> TAKE i \in 1 .. L - 1
      <3>1. i + 1 \in DOMAIN order /\ t[i] = order[i + 1] /\ i + 1 # 1
        BY <1>1, <1>3
      <3> QED BY <1>3, <1>4, <3>1 DEF Listing, Range
    <2>2. \A x \in keys : x # order[1] => \E i \in 1 .. L - 1 : t[i] = x
      <3> SUFFICES ASSUME NEW x \in keys, x # order[1] PROVE \E i \in 1 .. L - 1 : t[i] = x
        OBVIOUS
      <3>1. PICK k \in DOMAIN order : order[k] = x
        BY DEF Listing, Range
      <3>2. k - 1 \in 1 .. L - 1 /\ (k - 1) + 1 = k
        BY <1>1, <3>1
      <3> QED BY <1>3, <3>1, <3>2
    <2> QED BY <1>3, <2>1, <2>2 DEF Range
  <1>7. Head(order) \in keys
    BY <1>3 DEF Listing, Range
  <1> QED BY <1>3, <1>5, <1>6, <1>7 DEF Listing, t

LEMMA CollectWorks ==
    ASSUME NEW n, NEW most \in Nat, NormOK(n, most), NEW ts
    PROVE  NormOK(CollectExpired(n, ts), most)
  <1> DEFINE kept == {p \in DOMAIN n.expiring : n.expiring[p].until > ts}
             es == Keep(n.expiring, kept)
             eo == InOrder(n.expiring_order, kept)
             m == [n EXCEPT !.expiring = es, !.expiring_order = eo]
  <1>1. CollectExpired(n, ts) = m
    BY DEF CollectExpired
  <1>2. kept \subseteq DOMAIN n.expiring
    OBVIOUS
  <1> HIDE DEF kept
  <1>3. DOMAIN es = kept
    BY <1>2 DEF Keep
  <1>4. Listing(eo, DOMAIN n.expiring \cap kept)
    BY InOrderLists DEF NormOK
  <1>5. DOMAIN n.expiring \cap kept = kept
    BY <1>2
  <1> HIDE DEF es, eo
  <1>6. /\ DOMAIN m = Parts /\ m.processes = n.processes /\ m.order = n.order
        /\ m.expiring = es /\ m.expiring_order = eo
    BY DEF NormOK, Parts
  <1> HIDE DEF m
  <1>7. /\ IsFiniteSet(DOMAIN n.expiring) /\ Cardinality(DOMAIN n.expiring) \in Nat
        /\ Cardinality(DOMAIN n.processes) \in Nat
    BY ListingCounts DEF NormOK
  <1>8. Cardinality(kept) <= Cardinality(DOMAIN n.expiring) /\ Cardinality(kept) \in Nat
    BY <1>2, <1>7, FS_Subset, FS_CardinalityType
  <1>9. Known(m) <= most
    BY <1>3, <1>6, <1>7, <1>8 DEF Known, NormOK
  <1> QED BY <1>1, <1>3, <1>4, <1>5, <1>6, <1>9 DEF NormOK

LEMMA BoundsWork ==
    ASSUME NEW n, NormOK(n, ProcessCapacity + 1)
    PROVE  NormOK(EnforceProcessBounds(n), ProcessCapacity)
  <1> DEFINE P == DOMAIN n.processes
             E == DOMAIN n.expiring
             r == EnforceProcessBounds(n)
  <1>1. /\ Listing(n.order, P) /\ Listing(n.expiring_order, E)
        /\ IsFiniteSet(P) /\ IsFiniteSet(E)
        /\ Cardinality(P) \in Nat /\ Cardinality(E) \in Nat
        /\ Len(n.order) = Cardinality(P) /\ Len(n.expiring_order) = Cardinality(E)
    BY ListingCounts DEF NormOK
  <1>2. ProcessCapacity \in Nat \ {0} /\ Cardinality(P) + Cardinality(E) <= ProcessCapacity + 1
    BY NormalizerAssumption DEF NormOK, Known
  <1>3. DOMAIN n = Parts
    BY DEF NormOK
  <1>4. CASE Cardinality(P) + Cardinality(E) <= ProcessCapacity
    <2>1. r = n
      BY <1>4 DEF EnforceProcessBounds
    <2> QED BY <1>1, <1>3, <1>4, <2>1 DEF NormOK, Known
  <1>5. CASE /\ ~(Cardinality(P) + Cardinality(E) <= ProcessCapacity)
             /\ n.expiring_order # <<>>
    <2> DEFINE head == Head(n.expiring_order)
               es == Without(n.expiring, head)
               eo == Tail(n.expiring_order)
               m == [n EXCEPT !.expiring = es, !.expiring_order = eo]
    <2>1. r = m
      BY <1>5 DEF EnforceProcessBounds
    <2>2. Listing(eo, E \ {head}) /\ head \in E
      BY <1>1, <1>5, TailLists
    <2>3. DOMAIN es = E \ {head}
      BY WithoutFacts
    <2>4. Cardinality(E \ {head}) = Cardinality(E) - 1
      <3> HIDE DEF head
      <3> QED BY <1>1, <2>2, FS_RemoveElement
    <2> HIDE DEF es, eo, head
    <2>5. /\ DOMAIN m = Parts /\ m.processes = n.processes /\ m.order = n.order
          /\ m.expiring = es /\ m.expiring_order = eo
      BY <1>3 DEF Parts
    <2> HIDE DEF m, r
    <2>6. Known(m) <= ProcessCapacity
      BY <1>1, <1>2, <2>3, <2>4, <2>5 DEF Known
    <2> QED BY <1>1, <2>1, <2>2, <2>3, <2>5, <2>6 DEF NormOK, r
  <1>6. CASE /\ ~(Cardinality(P) + Cardinality(E) <= ProcessCapacity)
             /\ n.expiring_order = <<>>
    <2> DEFINE head == Head(n.order)
               ps == Without(n.processes, head)
               o == Tail(n.order)
               m == [n EXCEPT !.processes = ps, !.order = o]
    <2>1. r = m
      BY <1>6 DEF EnforceProcessBounds
    <2>2. n.order # <<>>
      <3>1. Len(<<>>) = 0
        OBVIOUS
      <3>2. Cardinality(E) = 0
        BY <1>1, <1>6, <3>1
      <3>3. Cardinality(P) # 0
        BY <1>1, <1>2, <1>6, <3>2
      <3> QED BY <1>1, <3>1, <3>3
    <2>3. Listing(o, P \ {head}) /\ head \in P
      BY <1>1, <2>2, TailLists
    <2>4. DOMAIN ps = P \ {head}
      BY WithoutFacts
    <2>5. Cardinality(P \ {head}) = Cardinality(P) - 1
      <3> HIDE DEF head
      <3> QED BY <1>1, <2>3, FS_RemoveElement
    <2> HIDE DEF ps, o, head
    <2>6. /\ DOMAIN m = Parts /\ m.processes = ps /\ m.order = o
          /\ m.expiring = n.expiring /\ m.expiring_order = n.expiring_order
      BY <1>3 DEF Parts
    <2> HIDE DEF m, r
    <2>7. Known(m) <= ProcessCapacity
      BY <1>1, <1>2, <2>4, <2>5, <2>6 DEF Known
    <2> QED BY <1>1, <2>1, <2>3, <2>4, <2>6, <2>7 DEF NormOK, r
  <1> QED BY <1>4, <1>5, <1>6

\* A process becomes the one noted last.
LEMMA NoteWorks ==
    ASSUME NEW n, NEW most \in Nat, NormOK(n, most), NEW pid, NEW process
    PROVE  NormOK([n EXCEPT !.processes = Put(@, pid, process), !.order = Noted(@, pid)],
                  most + 1)
  <1> DEFINE ps == Put(n.processes, pid, process)
             o == Noted(n.order, pid)
             m == [n EXCEPT !.processes = ps, !.order = o]
             P == DOMAIN n.processes
             E == DOMAIN n.expiring
  <1>1. DOMAIN ps = P \cup {pid}
    BY PutFacts
  <1>2. Listing(o, P \cup {pid})
    BY NotedLists DEF NormOK
  <1> HIDE DEF ps, o
  <1>3. /\ DOMAIN m = Parts /\ m.processes = ps /\ m.order = o
        /\ m.expiring = n.expiring /\ m.expiring_order = n.expiring_order
    BY DEF NormOK, Parts
  <1>4. /\ IsFiniteSet(P) /\ Cardinality(P) \in Nat /\ Cardinality(E) \in Nat
    BY ListingCounts DEF NormOK
  <1>5. Cardinality(P \cup {pid}) <= Cardinality(P) + 1 /\ Cardinality(P \cup {pid}) \in Nat
    <2> HIDE DEF P
    <2>1. Cardinality(P \cup {pid}) = IF pid \in P THEN Cardinality(P) ELSE Cardinality(P) + 1
      BY <1>4, FS_AddElement
    <2> QED BY <1>4, <2>1
  <1> HIDE DEF m
  <1>6. Known(m) <= most + 1
    BY <1>1, <1>3, <1>4, <1>5 DEF Known, NormOK
  <1>7. NormOK(m, most + 1)
    BY <1>1, <1>2, <1>3, <1>6 DEF NormOK
  <1> QED BY <1>7 DEF m, ps, o

\* A process ends: it is no longer among the processes but among those that
\* have ended lately.
LEMMA EndWorks ==
    ASSUME NEW n, NEW most \in Nat, NormOK(n, most), NEW pid \in DOMAIN n.processes, NEW value
    PROVE  NormOK([n EXCEPT !.processes = Without(@, pid),
                            !.order = InOrder(@, Range(@) \ {pid}),
                            !.expiring = Put(@, pid, value),
                            !.expiring_order = Noted(@, pid)], most + 1)
  <1> DEFINE ps == Without(n.processes, pid)
             o == InOrder(n.order, Range(n.order) \ {pid})
             es == Put(n.expiring, pid, value)
             eo == Noted(n.expiring_order, pid)
             m == [n EXCEPT !.processes = ps, !.order = o, !.expiring = es,
                            !.expiring_order = eo]
             P == DOMAIN n.processes
             E == DOMAIN n.expiring
  <1>1. DOMAIN ps = P \ {pid} /\ DOMAIN es = E \cup {pid}
    BY PutFacts, WithoutFacts
  <1>2. Listing(eo, E \cup {pid})
    BY NotedLists DEF NormOK
  <1>3. Listing(o, P \ {pid})
    <2>1. Range(n.order) = P
      BY DEF NormOK, Listing
    <2>2. Listing(o, P \cap (P \ {pid}))
      <3>1. Listing(n.order, P)
        BY DEF NormOK
      <3> DEFINE keep == P \ {pid}
      <3>2. o = InOrder(n.order, keep)
        BY <2>1
      <3> HIDE DEF o, keep, P
      <3>3. Listing(o, P \cap keep)
        BY <3>1, <3>2, InOrderLists
      <3> QED BY <3>3 DEF keep
    <2>3. P \cap (P \ {pid}) = P \ {pid}
      OBVIOUS
    <2> QED BY <2>2, <2>3
  <1> HIDE DEF ps, o, es, eo
  <1>4. /\ DOMAIN m = Parts /\ m.processes = ps /\ m.order = o
        /\ m.expiring = es /\ m.expiring_order = eo
    BY DEF NormOK, Parts
  <1>5. /\ IsFiniteSet(P) /\ Cardinality(P) \in Nat
        /\ IsFiniteSet(E) /\ Cardinality(E) \in Nat
    BY ListingCounts DEF NormOK
  <1>6. /\ Cardinality(P \ {pid}) = Cardinality(P) - 1
        /\ Cardinality(E \cup {pid}) <= Cardinality(E) + 1 /\ Cardinality(E \cup {pid}) \in Nat
    <2> HIDE DEF P, E
    <2>1. Cardinality(E \cup {pid}) = IF pid \in E THEN Cardinality(E) ELSE Cardinality(E) + 1
      BY <1>5, FS_AddElement
    <2>2. Cardinality(P \ {pid}) = Cardinality(P) - 1
      BY <1>5, FS_RemoveElement DEF P
    <2> QED BY <1>5, <2>1, <2>2
  <1> HIDE DEF m
  <1>7. Known(m) <= most + 1
    BY <1>1, <1>4, <1>5, <1>6 DEF Known, NormOK
  <1>8. NormOK(m, most + 1)
    BY <1>1, <1>2, <1>3, <1>4, <1>7 DEF NormOK
  <1> QED BY <1>8 DEF m, ps, o, es, eo

\* What is known of the processes changes, not which there are.
LEMMA SameProcesses ==
    ASSUME NEW n, NEW most \in Nat, NormOK(n, most), NEW m, DOMAIN m = Parts,
           DOMAIN m.processes = DOMAIN n.processes, m.order = n.order,
           m.expiring = n.expiring, m.expiring_order = n.expiring_order
    PROVE  NormOK(m, most + 1)
  <1>1. /\ Cardinality(DOMAIN n.processes) \in Nat /\ Cardinality(DOMAIN n.expiring) \in Nat
        /\ Cardinality(DOMAIN n.processes) + Cardinality(DOMAIN n.expiring) <= most
    BY ListingCounts DEF NormOK, Known
  <1>2. Known(m) <= most + 1
    BY <1>1 DEF Known
  <1> QED BY <1>2 DEF NormOK

LEMMA HandledWorks ==
    ASSUME NEW n, NEW most \in Nat, NormOK(n, most), NEW files0, NEW ev
    PROVE  NormOK(Handled(n, files0, ev).n, most + 1)
  <1>0. DOMAIN n = Parts
    BY DEF NormOK
  <1>1. \A m : Quietly(m).n = m
    BY DEF Quietly
  <1>2. CASE ev.kind = "fork"
    <2> DEFINE process == IF ev.task \in DOMAIN n.processes THEN n.processes[ev.task]
                          ELSE [cwd |-> Root, fds |-> EmptyMap]
               m == [n EXCEPT !.processes = Put(@, ev.child, process),
                              !.order = Noted(@, ev.child)]
    <2>1. Handled(n, files0, ev) = Quietly(m)
      BY <1>2 DEF Handled, OnProcFork
    <2>2. NormOK(m, most + 1)
      <3> HIDE DEF process
      <3> QED BY NoteWorks
    <2> HIDE DEF m
    <2> QED BY <1>1, <2>1, <2>2
  <1>3. CASE ev.kind = "exec"
    <2> DEFINE process == IF ev.pid \in DOMAIN n.processes THEN n.processes[ev.pid]
                          ELSE [cwd |-> Workspace, fds |-> EmptyMap]
               m == [n EXCEPT !.processes = Put(@, ev.pid, process),
                              !.order = Noted(@, ev.pid)]
    <2>1. Handled(n, files0, ev) = Quietly(m)
      BY <1>3 DEF Handled, OnProcExec
    <2>2. NormOK(m, most + 1)
      <3> HIDE DEF process
      <3> QED BY NoteWorks
    <2> HIDE DEF m
    <2> QED BY <1>1, <2>1, <2>2
  <1>4. NormOK(n, most + 1)
    BY <1>0, SameProcesses
  <1>5. CASE ev.kind = "exit"
    <2>1. CASE ev.pid \notin DOMAIN n.processes
      <3>1. Handled(n, files0, ev) = Quietly(n)
        BY <1>5, <2>1 DEF Handled, OnProcExit
      <3> QED BY <1>1, <1>4, <3>1
    <2>2. CASE ev.pid \in DOMAIN n.processes
      <3> DEFINE pid == ev.pid
                 value == [until |-> ev.ts + HoldTime]
                 m == [n EXCEPT !.processes = Without(@, pid),
                                !.order = InOrder(@, Range(@) \ {pid}),
                                !.expiring = Put(@, pid, value),
                                !.expiring_order = Noted(@, pid)]
      <3>1. Handled(n, files0, ev) = Quietly(m)
        BY <1>5, <2>2 DEF Handled, OnProcExit
      <3>2. NormOK(m, most + 1)
        <4> HIDE DEF value
        <4> QED BY <2>2, EndWorks
      <3> HIDE DEF m
      <3> QED BY <1>1, <3>1, <3>2
    <2> QED BY <2>1, <2>2
  <1>6. ASSUME NEW ps, NEW c, DOMAIN ps = DOMAIN n.processes
        PROVE  NormOK([n EXCEPT !.processes = ps, !.cache = c], most + 1)
    <2> DEFINE m == [n EXCEPT !.processes = ps, !.cache = c]
    <2>1. /\ DOMAIN m = Parts /\ m.processes = ps /\ m.order = n.order
          /\ m.expiring = n.expiring /\ m.expiring_order = n.expiring_order
      BY <1>0 DEF Parts
    <2> HIDE DEF m
    <2>2. NormOK(m, most + 1)
      BY <1>6, <2>1, SameProcesses
    <2> QED BY <2>2 DEF m
  <1>7. ASSUME NEW c
        PROVE  NormOK([n EXCEPT !.cache = c], most + 1)
    <2> DEFINE m == [n EXCEPT !.cache = c]
    <2>1. /\ DOMAIN m = Parts /\ m.processes = n.processes /\ m.order = n.order
          /\ m.expiring = n.expiring /\ m.expiring_order = n.expiring_order
      BY <1>0 DEF Parts
    <2> HIDE DEF m
    <2>2. NormOK(m, most + 1)
      BY <2>1, SameProcesses
    <2> QED BY <2>2 DEF m
  <1>8. CASE ev.kind = "chdir"
    <2> DEFINE done == ResolvePath(n, files0, ev.pid, ev.dirfd, ev.raw)
               moved == IF ev.pid \in DOMAIN n.processes
                        THEN [n.processes EXCEPT ![ev.pid].cwd = done.resolution.preferred]
                        ELSE n.processes
               m == [n EXCEPT !.processes = moved, !.cache = done.cache]
    <2>1. Handled(n, files0, ev).n = m
      BY <1>8 DEF Handled, OnProcChdir
    <2>2. DOMAIN moved = DOMAIN n.processes
      <3> HIDE DEF done
      <3> QED OBVIOUS
    <2> DEFINE c == done.cache
    <2> HIDE DEF moved, c
    <2>3. NormOK([n EXCEPT !.processes = moved, !.cache = c], most + 1)
      BY <1>6, <2>2
    <2> QED BY <2>1, <2>3 DEF c
  <1>9. CASE ev.kind = "dup"
    <2>1. CASE ev.pid \notin DOMAIN n.processes
      <3>1. Handled(n, files0, ev) = Quietly(n)
        BY <1>9, <2>1 DEF Handled, OnFdDup
      <3> QED BY <1>1, <1>4, <3>1
    <2>2. CASE ev.pid \in DOMAIN n.processes
      <3> DEFINE effect == FdDupEffect(ev.oldfd, ev.newfd, ev.ret)
                 m == [n EXCEPT !.processes[ev.pid].fds = FdsAfter(@, effect)]
                 ps == [n.processes EXCEPT ![ev.pid].fds = FdsAfter(@, effect)]
      <3>1. Handled(n, files0, ev) = Quietly(m)
        BY <1>9, <2>2 DEF Handled, OnFdDup
      <3> HIDE DEF effect
      <3>2. m = [n EXCEPT !.processes = ps]
        OBVIOUS
      <3>3. DOMAIN ps = DOMAIN n.processes
        OBVIOUS
      <3> HIDE DEF ps
      <3> DEFINE m2 == [n EXCEPT !.processes = ps]
      <3>4. /\ DOMAIN m2 = Parts /\ m2.processes = ps /\ m2.order = n.order
            /\ m2.expiring = n.expiring /\ m2.expiring_order = n.expiring_order
        BY <1>0 DEF Parts
      <3> HIDE DEF m, m2
      <3>5. NormOK(m2, most + 1)
        BY <3>3, <3>4, SameProcesses
      <3> QED BY <1>1, <3>1, <3>2, <3>5 DEF m2
    <2> QED BY <2>1, <2>2
  <1>10. CASE ev.kind = "open"
    <2> DEFINE done == ResolvePath(n, files0, ev.pid, ev.dirfd, ev.raw)
               opened == IF ev.ret >= 0 /\ ev.pid \in DOMAIN n.processes
                         THEN [n.processes EXCEPT ![ev.pid].fds =
                                  Put(@, ev.ret, done.resolution.preferred)]
                         ELSE n.processes
               m == [n EXCEPT !.processes = opened, !.cache = done.cache]
    <2>1. Handled(n, files0, ev).n = m
      BY <1>10 DEF Handled, OnFileOpen
    <2>2. DOMAIN opened = DOMAIN n.processes
      <3> HIDE DEF done
      <3> QED OBVIOUS
    <2> DEFINE c == done.cache
    <2> HIDE DEF opened, c
    <2>3. NormOK([n EXCEPT !.processes = opened, !.cache = c], most + 1)
      BY <1>6, <2>2
    <2> QED BY <2>1, <2>3 DEF c
  <1>11. CASE ev.kind = "unlink"
    <2> DEFINE done == ResolvePath(n, files0, ev.pid, ev.dirfd, ev.raw)
    <2>1. Handled(n, files0, ev).n = [n EXCEPT !.cache = done.cache]
      BY <1>11 DEF Handled, OnFileUnlink
    <2> HIDE DEF done
    <2> QED BY <1>7, <2>1
  <1>12. CASE ev.kind = "rename"
    <2> DEFINE old == ResolvePath(n, files0, ev.pid, ev.dirfd, ev.raw)
               new == ResolvePath([n EXCEPT !.cache = old.cache], files0, ev.pid, ev.dirfd, ev.to)
    <2>1. Handled(n, files0, ev).n = [n EXCEPT !.cache = new.cache]
      BY <1>12 DEF Handled, OnFileRename
    <2> HIDE DEF old, new
    <2> QED BY <1>7, <2>1
  <1>13. CASE ev.kind \notin {"fork", "exec", "exit", "chdir", "dup", "open", "unlink", "rename"}
    <2>1. Handled(n, files0, ev) = Quietly(n)
      BY <1>13 DEF Handled
    <2> QED BY <1>1, <1>4, <2>1
  <1> QED BY <1>2, <1>3, <1>5, <1>8, <1>9, <1>10, <1>11, <1>12, <1>13

\* One event: the orders list what is known, and that is at most the capacity.
LEMMA NormalizeWorks ==
    ASSUME NEW n, NormOK(n, ProcessCapacity), NEW files0, NEW ev
    PROVE  NormOK(Normalize(n, files0, ev).n, ProcessCapacity)
  <1> DEFINE m == CollectExpired(n, ev.ts)
             done == Handled(m, files0, ev)
  <1>0. ProcessCapacity \in Nat
    BY NormalizerAssumption
  <1>1. NormOK(m, ProcessCapacity)
    BY <1>0, CollectWorks
  <1> HIDE DEF m
  <1>2. NormOK(done.n, ProcessCapacity + 1)
    BY <1>0, <1>1, HandledWorks
  <1>3. Normalize(n, files0, ev).n = EnforceProcessBounds(done.n)
    BY DEF Normalize, m
  <1> HIDE DEF done
  <1> QED BY <1>2, <1>3, BoundsWork

\* The places of SetToSeq hold the elements, each once.
LEMMA SetToSeqLists ==
    ASSUME NEW S, IsFiniteSet(S)
    PROVE  Listing(SetToSeq(S), S)
  <1> DEFINE n == Cardinality(S)
             list == SetToSeq(S)
  <1>1. n \in Nat /\ \E f \in [1 .. n -> S] : IsInjective(f)
    BY FS_CardinalityType DEF ExistsBijection, Bijection, Injection
  <1>2. list \in [1 .. n -> S] /\ IsInjective(list)
    BY <1>1 DEF SetToSeq
  <1>3. Cardinality(1 .. n) = n
    BY <1>1, FS_Interval
  <1> HIDE DEF list
  <1>4. list \in Surjection(1 .. n, S)
    <2>1. list \in Injection(1 .. n, S)
      BY <1>2 DEF Injection
    <2> QED BY <1>3, <2>1, FS_Injection
  <1>5. Range(list) = S
    BY <1>2, <1>4 DEF Surjection, Range
  <1>6. IsSeq(list)
    <2> HIDE DEF n
    <2> QED BY <1>1, <1>2, SeqByIndex
  <1> QED BY <1>2, <1>5, <1>6 DEF Listing, list

BookkeepingOK == NormOK(norm, ProcessCapacity)

LEMMA BookkeepingAtFirst == Init => BookkeepingOK
  <1> SUFFICES ASSUME Init PROVE BookkeepingOK
    OBVIOUS
  <1> DEFINE found == [p \in {1} |-> [cwd |-> Workspace, fds |-> EmptyMap]]
             list == SetToSeq({1})
  <1>1. DOMAIN found = {1} /\ norm = Bootstrapped(found)
    BY DEF Init
  <1> HIDE DEF found
  <1>2. /\ norm.processes = found /\ norm.order = list
        /\ norm.expiring = EmptyMap /\ norm.expiring_order = <<>>
        /\ DOMAIN norm = Parts
    BY <1>1 DEF Bootstrapped, Parts
  <1>3. IsFiniteSet({1}) /\ Cardinality({1}) = 1
    BY FS_Singleton
  <1>4. Listing(list, {1})
    BY <1>3, SetToSeqLists
  <1>5. DOMAIN EmptyMap = {}
    BY DEF EmptyMap
  <1>6. Listing(<<>>, {})
    <2>1. IsSeq(<<>>) /\ DOMAIN <<>> = {}
      BY DEF IsSeq
    <2> QED BY <2>1 DEF Listing, IsInjective, Range
  <1>7. Cardinality({}) = 0
    BY FS_EmptySet
  <1>8. Known(norm) <= ProcessCapacity
    <2>1. Known(norm) = 1 + 0
      BY <1>1, <1>2, <1>3, <1>5, <1>7 DEF Known
    <2> QED BY <2>1, NormalizerAssumption
  <1> HIDE DEF list
  <1> QED BY <1>1, <1>2, <1>4, <1>5, <1>6, <1>8 DEF BookkeepingOK, NormOK

LEMMA BookkeepingStays == BookkeepingOK /\ [Next]_vars => BookkeepingOK'
  <1>1. ASSUME BookkeepingOK, norm' = norm
        PROVE  BookkeepingOK'
    BY <1>1 DEF BookkeepingOK, NormOK, Known
  <1>2. ASSUME Host
        PROVE  norm' = norm
    <2>1. ASSUME NEW name, Called(name) PROVE norm' = norm
      BY <2>1 DEF Called
    <2>2. \E name : Called(name)
      <3>1. ASSUME NEW p, Fork(p) \/ StartThread(p) \/ Exec(p) \/ Exit(p) \/ EndThread(p)
            PROVE  \E name : Called(name)
        BY <3>1 DEF Fork, StartThread, Exec, Exit, EndThread
      <3>2. ASSUME NEW p, Chdir(p) \/ OpenFile(p) \/ OpenUnseen(p) \/ Unlink(p) \/ Rename(p)
            PROVE  \E name : Called(name)
        BY <3>2 DEF Chdir, OpenFile, OpenUnseen, Unlink, Rename
      <3>3. ASSUME NEW p, Socket(p) \/ Accept(p) \/ Dup(p) \/ Close(p) \/ Connect(p)
            PROVE  \E name : Called(name)
        BY ZenonT(40), <3>3 DEF Socket, Accept, Dup, Close, Connect
      <3>4. ASSUME NEW p, SetFd(p) \/ SetBio(p) \/ Transfer(p)
            PROVE  \E name : Called(name)
        BY <3>4 DEF SetFd, SetBio, Transfer
      <3>5. ASSUME Relink PROVE \E name : Called(name)
        BY <3>5 DEF Relink
      <3> QED BY <1>2, <3>1, <3>2, <3>3, <3>4, <3>5 DEF Host
    <2> QED BY <2>1, <2>2
  <1>3. ASSUME BookkeepingOK, NEW i \in DOMAIN flight, Deliver(i)
        PROVE  BookkeepingOK'
    <2> DEFINE ev == flight[i]
    <2>1. CASE ev.kind = "fragment"
      <3>1. norm' = norm
        BY <1>3, <2>1 DEF Deliver
      <3> QED BY <1>1, <1>3, <3>1
    <2>2. CASE ev.kind # "fragment"
      <3> DEFINE m == Normalize(norm, files, ev).n
      <3>1. norm' = m
        BY <1>3, <2>2 DEF Deliver
      <3>2. NormOK(m, ProcessCapacity)
        BY <1>3, NormalizeWorks DEF BookkeepingOK
      <3> HIDE DEF m
      <3> QED BY <3>1, <3>2 DEF BookkeepingOK, NormOK, Known
    <2> QED BY <2>1, <2>2
  <1>4. UNCHANGED vars => norm' = norm
    BY DEF vars
  <1> QED BY <1>1, <1>2, <1>3, <1>4 DEF Next

\* The bookkeeping of the normalizer and of StateNet adds up in every state: the
\* orders list each process once, no more of them than the capacity, and the
\* version of each open descriptor is the current one.
THEOREM DescriptorTypeCorrect == Spec => []TypeOK
  <1>1. EndpointInv /\ BookkeepingOK => TypeOK
    <2> SUFFICES ASSUME EndpointInv, BookkeepingOK PROVE TypeOK
      OBVIOUS
    <2>1. Live \subseteq Pids /\ DOMAIN links = Live
      BY DEF EndpointInv, HostShape
    <2>2. /\ Lists(norm.order, DOMAIN norm.processes)
          /\ Lists(norm.expiring_order, DOMAIN norm.expiring)
          /\ Cardinality(DOMAIN norm.processes) + Cardinality(DOMAIN norm.expiring)
                <= ProcessCapacity
      BY ListingCounts DEF BookkeepingOK, NormOK, Known
    <2>3. Tidy(net, EndpointCapacity)
      BY DEF EndpointInv
    <2>4. ASSUME NEW key \in KeysIn(net.fds)
          PROVE  key \in DOMAIN net.versions /\ net.versions[key] = ValueOf(net.fds, key).version
      <3>1. PICK i \in DOMAIN net.fds : net.fds[i].key = key /\ ValueOf(net.fds, key) = net.fds[i].value
        BY <2>4, ValueOfFacts
      <3> QED BY <2>3, <3>1 DEF Tidy
    <2> QED BY <2>1, <2>2, <2>3, <2>4 DEF TypeOK, Tidy
  <1>2. BookkeepingOK /\ [Next]_vars => BookkeepingOK'
    BY BookkeepingStays
  <1>3. Spec => []BookkeepingOK
    BY <1>2, BookkeepingAtFirst, PTL DEF Spec
  <1> QED BY <1>1, <1>3, EndpointInvariant, PTL
=============================================================================
