-------------------------- MODULE CorrelationProofs --------------------------
(***************************************************************************)
(* Theorems about the correlation of sessions, for any processes, calls,   *)
(* delays, windows and bounds: the stores and their indexes agree, a chain *)
(* tells what happened, what it quotes is masked, and of an injection that *)
(* the daemon was not made to forget there is a chain.                     *)
(*                                                                         *)
(* What the daemon keeps is traced back to what it has processed: a read   *)
(* that waits, a match and a chain each name the events they come from.    *)
(* Of the reads that wait it is counted that each has its token in the     *)
(* order they are given up in.  And conversely: of what it has processed,  *)
(* the daemon keeps what is recent, as long as its stores suffice for all. *)
(***************************************************************************)
EXTENDS Correlation, FiniteSetTheorems, FunctionTheorems, WellFoundedInduction, TLAPS

IsSeq(s) == s \in Seq(Range(s))

-----------------------------------------------------------------------------
(* Sequences.                                                              *)

LEMMA Least ==
    ASSUME NEW S \in SUBSET Nat, S # {}
    PROVE  \E s \in S : \A t \in S : s <= t
  <1> DEFINE R == OpToRel(<, Nat)
  <1>1. IsWellFoundedOn(R, Nat)
    BY NatLessThanWellFounded
  <1>2. \A x, y \in Nat : <<x, y>> \in R <=> x < y
    BY DEF OpToRel
  <1> HIDE DEF R
  <1>3. PICK s \in S : \A t \in S : <<t, s>> \notin R
    BY <1>1, WFMin
  <1>4. \A t \in S : ~(t < s)
    BY <1>2, <1>3
  <1> QED BY <1>4

LEMMA SeqByIndex ==
    ASSUME NEW s, NEW n \in Nat, s = [i \in 1 .. n |-> s[i]]
    PROVE  IsSeq(s) /\ Len(s) = n /\ DOMAIN s = 1 .. n
  <1>1. s \in [1 .. n -> Range(s)]
    BY DEF Range
  <1>2. s \in Seq(Range(s))
    BY <1>1
  <1> QED BY <1>1, <1>2 DEF IsSeq

LEMMA SeqFacts ==
    ASSUME NEW s, IsSeq(s)
    PROVE  Len(s) \in Nat /\ DOMAIN s = 1 .. Len(s) /\ s = [i \in 1 .. Len(s) |-> s[i]]
  <1>1. s \in Seq(Range(s))
    BY DEF IsSeq
  <1> QED BY <1>1

LEMMA AppendFacts ==
    ASSUME NEW s, IsSeq(s), NEW x
    PROVE  /\ IsSeq(Append(s, x))
           /\ Len(Append(s, x)) = Len(s) + 1
           /\ DOMAIN Append(s, x) = 1 .. Len(s) + 1
           /\ \A i \in DOMAIN s : Append(s, x)[i] = s[i]
           /\ Append(s, x)[Len(s) + 1] = x
           /\ Range(Append(s, x)) = Range(s) \cup {x}
           /\ IsInjective(s) /\ x \notin Range(s) => IsInjective(Append(s, x))
  <1> DEFINE S == Range(s) \cup {x}
             a == Append(s, x)
  <1>1. s \in Seq(S) /\ x \in S
    BY DEF IsSeq
  <1>2. /\ a \in Seq(S)
        /\ Len(a) = Len(s) + 1
        /\ DOMAIN a = 1 .. Len(s) + 1
        /\ \A i \in DOMAIN s : a[i] = s[i]
        /\ a[Len(s) + 1] = x
        /\ DOMAIN s = 1 .. Len(s)
        /\ Len(s) \in Nat
    BY <1>1
  <1> HIDE DEF a
  <1>3. Range(a) = S
    BY <1>2 DEF Range
  <1>4. ASSUME IsInjective(s), x \notin Range(s)
        PROVE  IsInjective(a)
    <2>1. \A i, j \in DOMAIN s : s[i] = s[j] => i = j
      BY <1>4 DEF IsInjective
    <2>2. \A i \in DOMAIN s : s[i] # x
      BY <1>4 DEF Range
    <2> QED BY <2>1, <2>2, <1>2 DEF IsInjective
  <1> QED BY <1>2, <1>3, <1>4 DEF IsSeq, a

LEMMA TailFacts ==
    ASSUME NEW s, IsSeq(s), Len(s) # 0
    PROVE  /\ IsSeq(Tail(s))
           /\ Len(Tail(s)) = Len(s) - 1
           /\ DOMAIN Tail(s) = 1 .. Len(s) - 1
           /\ \A i \in 1 .. Len(s) - 1 : i + 1 \in DOMAIN s /\ Tail(s)[i] = s[i + 1]
           /\ Head(s) = s[1]
           /\ 1 \in DOMAIN s
  <1> DEFINE S == Range(s)
             t == Tail(s)
  <1>0. s \in Seq(S)
    BY DEF IsSeq
  <1>1. Len(s) \in Nat \ {0} /\ DOMAIN s = 1 .. Len(s)
    BY <1>0
  <1>3. s # <<>>
    BY <1>0
  <1>2. /\ t \in Seq(S)
        /\ Len(t) = Len(s) - 1
        /\ DOMAIN t = 1 .. Len(s) - 1
        /\ \A i \in 1 .. Len(s) - 1 : t[i] = s[i + 1]
        /\ Head(s) = s[1]
    BY <1>0, <1>1, <1>3
  <1> HIDE DEF t
  <1>4. t = [i \in 1 .. Len(s) - 1 |-> t[i]] /\ Len(s) - 1 \in Nat
    BY <1>1, <1>2
  <1>5. IsSeq(t)
    BY <1>4, SeqByIndex
  <1>6. \A i \in 1 .. Len(s) - 1 : i + 1 \in DOMAIN s
    BY <1>1
  <1> QED BY <1>1, <1>2, <1>5, <1>6 DEF t

\* What is picked of a list are its elements at those places, each once, and
\* in their order.
LEMMA PickedFacts ==
    ASSUME NEW list, IsSeq(list), NEW kept \in SUBSET DOMAIN list
    PROVE  /\ IsSeq(Picked(list, kept))
           /\ Len(Picked(list, kept)) = Cardinality(kept)
           /\ IsFiniteSet(kept)
           /\ Cardinality(kept) \in Nat
           /\ Cardinality(kept) <= Len(list)
           /\ \E p \in Bijection(DOMAIN Picked(list, kept), kept) :
                 \A m \in DOMAIN Picked(list, kept) : Picked(list, kept)[m] = list[p[m]]
           /\ \A m \in DOMAIN Picked(list, kept) :
                 \E i \in kept : Picked(list, kept)[m] = list[i]
           /\ Range(Picked(list, kept)) = {list[i] : i \in kept}
           /\ IsInjective(list) => IsInjective(Picked(list, kept))
  <1> DEFINE L == Len(list)
             upto(i) == {j \in kept : j <= i}
             place(i) == Cardinality(upto(i))
             n == Cardinality(kept)
             p == [m \in 1 .. n |-> CHOOSE i \in kept : place(i) = m]
             rest == [m \in 1 .. n |-> list[CHOOSE i \in kept : place(i) = m]]
  <1>1. L \in Nat /\ DOMAIN list = 1 .. L
    BY SeqFacts
  <1>2. \A i \in kept : i \in 1 .. L /\ i \in Int
    BY <1>1
  <1>3. IsFiniteSet(kept) /\ n \in Nat /\ n <= L
    <2>1. IsFiniteSet(1 .. L) /\ Cardinality(1 .. L) = L
      <3> HIDE DEF L
      <3> QED BY <1>1, FS_Interval
    <2>2. kept \in SUBSET (1 .. L)
      BY <1>2
    <2> QED BY <2>1, <2>2, FS_Subset, FS_CardinalityType
  <1> HIDE DEF L, n
  <1>4. ASSUME NEW i \in kept
        PROVE  IsFiniteSet(upto(i)) /\ place(i) \in 1 .. n
    <2>1. upto(i) \in SUBSET kept /\ i \in upto(i)
      BY <1>2
    <2> HIDE DEF upto
    <2>2. IsFiniteSet(upto(i)) /\ place(i) <= n /\ place(i) \in Nat
      BY <1>3, <2>1, FS_Subset, FS_CardinalityType DEF n
    <2>3. place(i) # 0
      BY <2>1, <2>2, FS_EmptySet
    <2> QED BY <1>3, <2>2, <2>3
  <1>5. ASSUME NEW i \in kept, NEW j \in kept, i < j
        PROVE  place(i) # place(j)
    <2>1. upto(i) \in SUBSET upto(j) /\ j \in upto(j) /\ j \notin upto(i)
      BY <1>2, <1>5
    <2> HIDE DEF upto
    <2>2. place(j) = place(i) => upto(i) = upto(j)
      BY <1>4, <2>1, FS_Subset
    <2> QED BY <2>1, <2>2
  <1> HIDE DEF place
  <1> DEFINE f == [i \in kept |-> place(i)]
  <1>6. f \in Injection(kept, 1 .. n)
    <2>1. f \in [kept -> 1 .. n]
      BY <1>4
    <2>2. \A i, j \in kept : f[i] = f[j] => i = j
      <3> TAKE i, j \in kept
      <3>1. ~(i < j) \/ f[i] # f[j]
        BY <1>5
      <3>2. ~(j < i) \/ f[i] # f[j]
        BY <1>5
      <3> QED BY <1>2, <3>1, <3>2
    <2> HIDE DEF f
    <2> QED BY <2>1, <2>2 DEF Injection, IsInjective
  <1>7. \A m \in 1 .. n : \E i \in kept : place(i) = m
    <2>1. IsFiniteSet(1 .. n) /\ Cardinality(1 .. n) = n
      BY <1>3, FS_Interval
    <2> HIDE DEF f
    <2>2. f \in Surjection(kept, 1 .. n)
      BY <1>3, <1>6, <2>1, FS_Injection DEF n
    <2>3. \A m \in 1 .. n : \E i \in kept : f[i] = m
      BY <2>2 DEF Surjection
    <2> QED BY <2>3 DEF f
  <1>8. \A m \in 1 .. n : p[m] \in kept /\ place(p[m]) = m
    <2> TAKE m \in 1 .. n
    <2>1. p[m] = CHOOSE i \in kept : place(i) = m
      OBVIOUS
    <2>2. \E i \in kept : place(i) = m
      BY <1>7
    <2> QED BY <2>1, <2>2
  <1>9. \A m \in 1 .. n : rest[m] = list[p[m]]
    OBVIOUS
  <1>17. p = [m \in 1 .. n |-> p[m]]
    OBVIOUS
  <1>10. Picked(list, kept) = rest
    BY DEF Picked, place, upto, n
  <1>11. rest = [m \in 1 .. n |-> rest[m]]
    OBVIOUS
  <1> HIDE DEF rest, p
  <1>12. IsSeq(rest) /\ Len(rest) = n /\ DOMAIN rest = 1 .. n
    BY <1>3, <1>11, SeqByIndex
  <1>13. \A i \in kept : \E m \in 1 .. n : p[m] = i
    <2> TAKE i \in kept
    <2>1. place(i) \in 1 .. n
      BY <1>4
    <2>2. p[place(i)] \in kept /\ place(p[place(i)]) = place(i)
      BY <1>8, <2>1
    <2>3. p[place(i)] = i
      BY <1>6, <2>2 DEF Injection, IsInjective
    <2> QED BY <2>1, <2>3
  <1>14. Range(rest) = {list[i] : i \in kept}
    <2>1. \A x \in Range(rest) : \E i \in kept : x = list[i]
      BY <1>8, <1>9, <1>12 DEF Range
    <2>2. \A i \in kept : list[i] \in Range(rest)
      BY <1>9, <1>12, <1>13 DEF Range
    <2> QED BY <2>1, <2>2
  <1>18. \A a, b \in 1 .. n : p[a] = p[b] => a = b
    BY <1>8
  <1>15. ASSUME IsInjective(list)
         PROVE  IsInjective(rest)
    <2>1. \A a, b \in 1 .. n : rest[a] = rest[b] => a = b
      <3> TAKE a, b \in 1 .. n
      <3>1. p[a] \in DOMAIN list /\ p[b] \in DOMAIN list
        BY <1>8
      <3>2. rest[a] = rest[b] => p[a] = p[b]
        BY <1>9, <1>15, <3>1 DEF IsInjective
      <3> QED BY <3>2, <1>18
    <2> QED BY <1>12, <2>1 DEF IsInjective
  <1>16. \A m \in DOMAIN rest : \E i \in kept : rest[m] = list[i]
    BY <1>8, <1>9, <1>12
  <1>19. p \in Bijection(1 .. n, kept)
    <2>1. p \in [1 .. n -> kept]
      BY <1>8, <1>17
    <2> QED BY <1>13, <1>18, <2>1, Fun_IsBij
  <1>20. \E q \in Bijection(DOMAIN rest, kept) : \A m \in DOMAIN rest : rest[m] = list[q[m]]
    BY <1>9, <1>12, <1>19
  <1> QED BY <1>3, <1>10, <1>12, <1>14, <1>15, <1>16, <1>20 DEF L, n

\* A list without some keys, or with an entry made its youngest.
LEMMA RemoveKeysFacts ==
    ASSUME NEW list, IsSeq(list), NEW keys
    PROVE  /\ IsSeq(RemoveKeys(list, keys))
           /\ Len(RemoveKeys(list, keys)) <= Len(list)
           /\ KeysIn(RemoveKeys(list, keys)) = KeysIn(list) \ keys
           /\ \A m \in DOMAIN RemoveKeys(list, keys) : \E i \in DOMAIN list :
                 RemoveKeys(list, keys)[m] = list[i] /\ list[i].key \notin keys
  <1> DEFINE kept == {i \in DOMAIN list : list[i].key \notin keys}
             r == RemoveKeys(list, keys)
  <1>1. kept \in SUBSET DOMAIN list
    OBVIOUS
  <1>2. \A i \in kept : i \in DOMAIN list /\ list[i].key \notin keys
    OBVIOUS
  <1>4. \A i \in DOMAIN list : list[i].key \notin keys => i \in kept
    OBVIOUS
  <1>3. r = Picked(list, kept)
    BY DEF RemoveKeys
  <1> HIDE DEF kept, r
  <1>5. /\ IsSeq(r)
        /\ Len(r) <= Len(list)
        /\ \A m \in DOMAIN r : \E i \in kept : r[m] = list[i]
        /\ Range(r) = {list[i] : i \in kept}
    BY <1>1, <1>3, PickedFacts
  <1>6. ASSUME NEW k \in KeysIn(r)
        PROVE  k \in KeysIn(list) \ keys
    <2>1. PICK m \in DOMAIN r : k = r[m].key
      BY DEF KeysIn
    <2> QED BY <1>2, <1>5, <2>1 DEF KeysIn
  <1>7. ASSUME NEW k \in KeysIn(list) \ keys
        PROVE  k \in KeysIn(r)
    <2>1. PICK i \in DOMAIN list : k = list[i].key
      BY DEF KeysIn
    <2>2. list[i] \in Range(r)
      BY <1>4, <1>5, <2>1
    <2>3. PICK m \in DOMAIN r : r[m] = list[i]
      BY <2>2 DEF Range
    <2> QED BY <2>1, <2>3 DEF KeysIn
  <1>8. KeysIn(r) = KeysIn(list) \ keys
    BY <1>6, <1>7
  <1> QED BY <1>2, <1>5, <1>8 DEF r

LEMMA InsertFacts ==
    ASSUME NEW list, IsSeq(list), NEW key, NEW value, NEW capacity \in Nat \ {0},
           Len(list) <= capacity
    PROVE  /\ IsSeq(InsertYoungest(list, key, value, capacity))
           /\ Len(InsertYoungest(list, key, value, capacity)) <= capacity
           /\ key \in KeysIn(InsertYoungest(list, key, value, capacity))
           /\ KeysIn(InsertYoungest(list, key, value, capacity)) \subseteq KeysIn(list) \cup {key}
           /\ \A m \in DOMAIN InsertYoungest(list, key, value, capacity) :
                 \/ InsertYoungest(list, key, value, capacity)[m]
                       = [key |-> key, value |-> value]
                 \/ \E i \in DOMAIN list :
                       /\ InsertYoungest(list, key, value, capacity)[m] = list[i]
                       /\ list[i].key # key
  <1> DEFINE rest == RemoveKeys(list, {key})
             new == [key |-> key, value |-> value]
             grown == Append(rest, new)
             r == IF Len(grown) > capacity THEN Tail(grown) ELSE grown
  <1>1. /\ IsSeq(rest)
        /\ Len(rest) <= Len(list)
        /\ \A m \in DOMAIN rest : \E i \in DOMAIN list : rest[m] = list[i] /\ list[i].key # key
    <2> DEFINE keys == {key}
    <2>1. \A x : x \notin keys <=> x # key
      OBVIOUS
    <2> HIDE DEF keys
    <2>2. rest = RemoveKeys(list, keys)
      BY DEF keys
    <2> HIDE DEF rest
    <2> QED BY <2>1, <2>2, RemoveKeysFacts
  <1>2. InsertYoungest(list, key, value, capacity) = r
    BY DEF InsertYoungest
  <1>7. new.key = key
    OBVIOUS
  <1> HIDE DEF new, rest
  <1>3. Len(list) \in Nat /\ Len(rest) \in Nat /\ DOMAIN rest = 1 .. Len(rest)
    BY <1>1, SeqFacts
  <1>4. /\ IsSeq(grown)
        /\ Len(grown) = Len(rest) + 1
        /\ DOMAIN grown = 1 .. Len(rest) + 1
        /\ \A i \in DOMAIN rest : grown[i] = rest[i]
        /\ grown[Len(rest) + 1] = new
    BY <1>1, AppendFacts
  <1> HIDE DEF grown
  <1>5. \A m \in DOMAIN grown :
           grown[m] = new \/ \E i \in DOMAIN list : grown[m] = list[i] /\ list[i].key # key
    <2> TAKE m \in DOMAIN grown
    <2>1. CASE m \in DOMAIN rest
      BY <1>1, <1>4, <2>1
    <2>2. CASE m = Len(rest) + 1
      BY <1>4, <2>2
    <2> QED BY <1>3, <1>4, <2>1, <2>2
  <1>6. /\ IsSeq(r) /\ Len(r) <= capacity
        /\ \A m \in DOMAIN r : \E k \in DOMAIN grown : r[m] = grown[k]
        /\ \E m \in DOMAIN r : r[m] = new
    <2>1. CASE Len(grown) > capacity
      <3>1. Len(grown) # 0
        BY <1>3, <1>4
      <3>2. /\ IsSeq(Tail(grown))
            /\ Len(Tail(grown)) = Len(grown) - 1
            /\ DOMAIN Tail(grown) = 1 .. Len(grown) - 1
            /\ \A i \in 1 .. Len(grown) - 1 :
                  i + 1 \in DOMAIN grown /\ Tail(grown)[i] = grown[i + 1]
        BY <1>4, <3>1, TailFacts
      <3>3. Len(rest) \in DOMAIN Tail(grown) /\ Tail(grown)[Len(rest)] = new
        BY <1>3, <1>4, <2>1, <3>2
      <3>4. r = Tail(grown)
        BY <2>1
      <3> HIDE DEF r
      <3>5. \E m \in DOMAIN r : r[m] = new
        BY <3>3, <3>4
      <3>6. IsSeq(r) /\ Len(r) <= capacity
        BY <1>1, <1>3, <1>4, <3>2, <3>4
      <3>7. \A m \in DOMAIN r : \E k \in DOMAIN grown : r[m] = grown[k]
        <4>1. \A m \in DOMAIN r : m \in 1 .. Len(grown) - 1
          BY <3>2, <3>4
        <4> QED BY <3>2, <3>4, <4>1
      <3> QED BY <3>5, <3>6, <3>7
    <2>2. CASE ~(Len(grown) > capacity)
      BY <1>3, <1>4, <2>2
    <2> QED BY <2>1, <2>2
  <1> HIDE DEF r
  <1>8. key \in KeysIn(r)
    BY <1>6, <1>7 DEF KeysIn
  <1>9. KeysIn(r) \subseteq KeysIn(list) \cup {key}
    BY <1>5, <1>6, <1>7 DEF KeysIn
  <1> QED BY <1>2, <1>5, <1>6, <1>8, <1>9 DEF new

-----------------------------------------------------------------------------
(* Maps, and the places in queues.                                         *)

LEMMA PutFacts ==
    ASSUME NEW m, NEW key, NEW value
    PROVE  /\ DOMAIN Put(m, key, value) = DOMAIN m \cup {key}
           /\ Put(m, key, value)[key] = value
           /\ \A x \in DOMAIN m : x # key => Put(m, key, value)[x] = m[x]
           /\ \A x \in DOMAIN Put(m, key, value) : x # key => x \in DOMAIN m
  BY DEF Put

LEMMA KeepFacts ==
    ASSUME NEW m, NEW keep
    PROVE  /\ DOMAIN Keep(m, keep) = DOMAIN m \cap keep
           /\ \A x \in DOMAIN Keep(m, keep) : x \in DOMAIN m /\ Keep(m, keep)[x] = m[x]
  BY DEF Keep

LEMMA WithoutFacts ==
    ASSUME NEW m, NEW key
    PROVE  /\ DOMAIN Without(m, key) = DOMAIN m \ {key}
           /\ \A x \in DOMAIN Without(m, key) :
                 x \in DOMAIN m /\ x # key /\ Without(m, key)[x] = m[x]
  BY DEF Without, Keep

LEMMA PlaceFacts ==
    ASSUME NEW q
    PROVE  /\ \A x : x \in Places(q) <=> \E s \in DOMAIN q : \E i \in DOMAIN q[s] : x = <<s, i>>
           /\ \A s, i : <<s, i>> \in Places(q) <=> s \in DOMAIN q /\ i \in DOMAIN q[s]
  <1>1. \A s : \A x : x \in {s} \X DOMAIN q[s] <=> \E i \in DOMAIN q[s] : x = <<s, i>>
    OBVIOUS
  <1>2. \A x : x \in Places(q) <=> \E s \in DOMAIN q : x \in {s} \X DOMAIN q[s]
    BY DEF Places
  <1>3. \A x : x \in Places(q) <=> \E s \in DOMAIN q : \E i \in DOMAIN q[s] : x = <<s, i>>
    BY <1>1, <1>2
  <1> QED BY <1>3

\* The elements of a queue at the places kept, of the queue of s.
KeptAt(q, s, kept) == {i \in DOMAIN q[s] : <<s, i>> \in kept}

\* Queues that hold as many elements as are kept of others hold as many in all.
LEMMA ThinnedTotal ==
    ASSUME NEW q, NEW q2, NEW kept \in SUBSET Places(q), IsFiniteSet(Places(q)),
           \A s \in DOMAIN q : IsSeq(q[s]),
           \A s \in DOMAIN q2 : IsSeq(q2[s]),
           \A s \in DOMAIN q2 : s \in DOMAIN q /\ Len(q2[s]) = Cardinality(KeptAt(q, s, kept)),
           \A s \in DOMAIN q : s \notin DOMAIN q2 => KeptAt(q, s, kept) = {}
    PROVE  /\ IsFiniteSet(Places(q2))
           /\ TotalOf(q2) = Cardinality(kept)
           /\ Cardinality(kept) <= TotalOf(q)
           /\ Cardinality(kept) \in Nat /\ TotalOf(q) \in Nat
  <1> DEFINE at(s) == KeptAt(q, s, kept)
             bij(s) == CHOOSE b : b \in Bijection(DOMAIN q2[s], at(s))
             g == [x \in Places(q2) |-> <<x[1], bij(x[1])[x[2]]>>]
  <1>1. \A s \in DOMAIN q2 : bij(s) \in Bijection(DOMAIN q2[s], at(s))
    <2> TAKE s \in DOMAIN q2
    <2>1. IsSeq(q[s]) /\ at(s) \in SUBSET DOMAIN q[s]
      BY DEF KeptAt
    <2>2. IsFiniteSet(at(s)) /\ Cardinality(at(s)) \in Nat
      BY <2>1, PickedFacts
    <2>3. ExistsBijection(1 .. Cardinality(at(s)), at(s))
      BY <2>2, FS_CardinalityType
    <2>4. DOMAIN q2[s] = 1 .. Cardinality(at(s))
      BY SeqFacts
    <2> QED BY <2>3, <2>4 DEF ExistsBijection
  <1>2. \A x : x \in Places(q2) <=> \E s \in DOMAIN q2 : \E i \in DOMAIN q2[s] : x = <<s, i>>
    BY PlaceFacts
  <1>3. \A x \in kept : \E s \in DOMAIN q : \E i \in DOMAIN q[s] : x = <<s, i>>
    BY PlaceFacts
  <1>4. \A s \in DOMAIN q2 : \A i \in DOMAIN q2[s] : bij(s)[i] \in at(s)
    BY <1>1, Fun_BijectionProperties
  <1>5. \A s \in DOMAIN q2 : \A i, j \in DOMAIN q2[s] : bij(s)[i] = bij(s)[j] => i = j
    BY <1>1, Fun_BijectionProperties
  <1>6. \A s \in DOMAIN q2 : \A k \in at(s) : \E i \in DOMAIN q2[s] : bij(s)[i] = k
    <2> TAKE s \in DOMAIN q2
    <2>1. bij(s) \in Surjection(DOMAIN q2[s], at(s))
      BY <1>1, Fun_BijectionProperties
    <2> HIDE DEF bij, at
    <2> QED BY <2>1 DEF Surjection
  <1> HIDE DEF bij
  <1>7. g \in Bijection(Places(q2), kept)
    <2>1. \A s \in DOMAIN q2 : \A i \in DOMAIN q2[s] :
             <<s, i>> \in Places(q2) /\ g[<<s, i>>] = <<s, bij(s)[i]>>
      BY <1>2
    <2>6. g = [x \in Places(q2) |-> g[x]]
      OBVIOUS
    <2> HIDE DEF g
    <2>2. \A x \in Places(q2) : g[x] \in kept
      <3> TAKE x \in Places(q2)
      <3>1. PICK s \in DOMAIN q2 : \E i \in DOMAIN q2[s] : x = <<s, i>>
        BY <1>2
      <3>2. PICK i \in DOMAIN q2[s] : x = <<s, i>>
        BY <3>1
      <3>3. bij(s)[i] \in at(s) /\ g[x] = <<s, bij(s)[i]>>
        BY <1>4, <2>1, <3>2
      <3> QED BY <3>3 DEF KeptAt
    <2>3. \A x, y \in Places(q2) : g[x] = g[y] => x = y
      <3> TAKE x, y \in Places(q2)
      <3>1. PICK s \in DOMAIN q2 : \E i \in DOMAIN q2[s] : x = <<s, i>>
        BY <1>2
      <3>2. PICK i \in DOMAIN q2[s] : x = <<s, i>>
        BY <3>1
      <3>3. PICK t \in DOMAIN q2 : \E j \in DOMAIN q2[t] : y = <<t, j>>
        BY <1>2
      <3>4. PICK j \in DOMAIN q2[t] : y = <<t, j>>
        BY <3>3
      <3>5. g[x] = <<s, bij(s)[i]>> /\ g[y] = <<t, bij(t)[j]>>
        BY <2>1, <3>2, <3>4
      <3>6. ASSUME g[x] = g[y]
            PROVE  x = y
        <4>1. s = t /\ bij(s)[i] = bij(t)[j]
          BY <3>5, <3>6
        <4>2. i = j
          BY <1>5, <4>1
        <4> QED BY <3>2, <3>4, <4>1, <4>2
      <3> QED BY <3>6
    <2>4. \A x \in kept : \E y \in Places(q2) : g[y] = x
      <3> TAKE x \in kept
      <3>1. PICK s \in DOMAIN q : \E i \in DOMAIN q[s] : x = <<s, i>>
        BY <1>3
      <3>2. PICK k \in DOMAIN q[s] : x = <<s, k>>
        BY <3>1
      <3>3. k \in at(s)
        BY <3>2 DEF KeptAt
      <3>4. s \in DOMAIN q2
        BY <3>3
      <3>5. PICK i \in DOMAIN q2[s] : bij(s)[i] = k
        BY <1>6, <3>3, <3>4
      <3> QED BY <2>1, <3>2, <3>4, <3>5
    <2>5. g \in [Places(q2) -> kept]
      BY <2>2, <2>6
    <2> QED BY <2>3, <2>4, <2>5, Fun_IsBij
  <1> HIDE DEF g, at
  <1>8. ExistsBijection(kept, Places(q2))
    <2>1. ExistsBijection(Places(q2), kept)
      BY <1>7 DEF ExistsBijection
    <2> QED BY <2>1, Fun_ExistsBijSymmetric
  <1>9. IsFiniteSet(kept) /\ Cardinality(kept) <= TotalOf(q) /\ Cardinality(kept) \in Nat
    BY FS_Subset, FS_CardinalityType DEF TotalOf
  <1>10. TotalOf(q) \in Nat
    BY FS_CardinalityType DEF TotalOf
  <1> QED BY <1>8, <1>9, <1>10, FS_Bijection DEF TotalOf

-----------------------------------------------------------------------------
(* Texts.                                                                  *)

\* What is written in place of a text is the masks of its words.
WritesMasks(words, w) ==
    /\ IsSeq(w)
    /\ \A x \in Range(w) : \E i \in DOMAIN words : x = Mask(words[i], InBlock(words, i))

LEMMA RedactedWrites ==
    ASSUME NEW words, IsSeq(words)
    PROVE  WritesMasks(words, Redacted(words))
  <1> DEFINE masked == [i \in DOMAIN words |-> Mask(words[i], InBlock(words, i))]
             again(i) == i > 1 /\ masked[i] = masked[i - 1] /\ masked[i] \in {"[PEM]", "[SECRET]"}
             More(w, i) == IF again(i) THEN w ELSE Append(w, masked[i])
             Grows(f, n) == f = [i \in 0 .. n |-> IF i = 0 THEN <<>> ELSE More(f[i - 1], i)]
             F == CHOOSE f : Grows(f, Len(words))
  <1>1. Len(words) \in Nat /\ DOMAIN words = 1 .. Len(words)
    BY SeqFacts
  <1>2. Redacted(words) = F[Len(words)]
    BY DEF Redacted
  <1>3. ASSUME NEW w, NEW i \in 1 .. Len(words), WritesMasks(words, w)
        PROVE  WritesMasks(words, More(w, i))
    <2>1. i \in DOMAIN words /\ masked[i] = Mask(words[i], InBlock(words, i))
      BY <1>1
    <2> HIDE DEF masked
    <2>2. CASE again(i)
      BY <1>3, <2>2
    <2>3. CASE ~again(i)
      <3> DEFINE grown == Append(w, masked[i])
      <3>1. More(w, i) = grown
        BY <2>3
      <3>2. IsSeq(grown) /\ Range(grown) = Range(w) \cup {masked[i]}
        BY <1>3, AppendFacts DEF WritesMasks
      <3> HIDE DEF grown
      <3>3. WritesMasks(words, grown)
        BY <1>3, <2>1, <3>2 DEF WritesMasks
      <3> QED BY <3>1, <3>3
    <2> QED BY <2>2, <2>3
  <1> HIDE DEF More
  <1>4. \E f : Grows(f, Len(words))
    <2> DEFINE Missing == {n \in 0 .. Len(words) : ~\E f : Grows(f, n)}
    <2>1. ASSUME Missing # {}
          PROVE  FALSE
      <3>1. PICK n \in Missing : \A k \in Missing : n <= k
        <4>1. Missing \in SUBSET Nat
          OBVIOUS
        <4> HIDE DEF Missing
        <4> QED BY <2>1, <4>1, Least
      <3>2. n \in 0 .. Len(words) /\ ~\E f : Grows(f, n)
        BY <3>1
      <3>3. n # 0
        <4>1. Grows([i \in 0 .. 0 |-> <<>>], 0)
          OBVIOUS
        <4> QED BY <3>2, <4>1
      <3>4. PICK f : Grows(f, n - 1)
        <4>1. n - 1 \in 0 .. Len(words) /\ n - 1 \notin Missing
          <5> HIDE DEF Missing
          <5> QED BY <1>1, <3>1, <3>2, <3>3
        <4> QED BY <4>1, Zenon
      <3> DEFINE g == [i \in 0 .. n |-> IF i = n THEN More(f[n - 1], n) ELSE f[i]]
      <3>5. Grows(g, n)
        BY <3>2, <3>3, <3>4
      <3> QED BY <3>2, <3>5
    <2>2. Len(words) \in 0 .. Len(words)
      BY <1>1
    <2> HIDE DEF Grows
    <2> QED BY <2>1, <2>2
  <1>5. Grows(F, Len(words))
    BY <1>4, Zenon
  <1> HIDE DEF F
  <1>6. F[0] = <<>> /\ \A i \in 1 .. Len(words) : F[i] = More(F[i - 1], i)
    BY <1>1, <1>5
  <1> DEFINE Right(i) == WritesMasks(words, F[i])
             Wrong == {i \in 0 .. Len(words) : ~Right(i)}
  <1>7. Right(0)
    <2>1. IsSeq(<<>>) /\ Range(<<>>) = {}
      BY DEF IsSeq, Range
    <2> QED BY <1>6, <2>1 DEF WritesMasks
  <1>8. \A i \in 1 .. Len(words) : Right(i - 1) => Right(i)
    BY <1>3, <1>6
  <1> HIDE DEF Right
  <1>9. Wrong = {}
    <2>1. SUFFICES ASSUME Wrong # {}
                   PROVE  FALSE
      OBVIOUS
    <2>2. PICK i \in Wrong : \A j \in Wrong : i <= j
      <3>1. Wrong \in SUBSET Nat
        OBVIOUS
      <3> HIDE DEF Wrong
      <3> QED BY <2>1, <3>1, Least
    <2> QED BY <1>1, <1>7, <1>8, <2>2
  <1>10. Right(Len(words))
    BY <1>1, <1>9
  <1> QED BY <1>2, <1>10 DEF Right

\* What a quotation must not show.
Secrets == {"key", "begin", "body", "end"}

LEMMA TextFacts ==
    ASSUME NEW text, IsText(text)
    PROVE  /\ IsSeq(text.words)
           /\ text.words \in Seq(Words)
           /\ \A i \in DOMAIN text.words : text.words[i] = "body" => InBlock(text.words, i)
  <1>1. text.words \in Seq(Words)
    BY DEF IsText
  <1>2. text.words = [i \in 1 .. Len(text.words) |-> text.words[i]] /\ Len(text.words) \in Nat
    BY <1>1
  <1>3. IsSeq(text.words)
    BY <1>2, SeqByIndex
  <1> QED BY <1>1, <1>3 DEF IsText

LEMMA RedactedIsMasked ==
    ASSUME NEW text, IsText(text)
    PROVE  /\ Range(Redacted(text.words)) \cap Secrets = {}
           /\ Range(Redacted(Redacted(text.words))) \cap Secrets = {}
  <1> DEFINE once == Redacted(text.words)
             twice == Redacted(once)
  <1>1. IsSeq(text.words) /\ \A i \in DOMAIN text.words :
           text.words[i] = "body" => InBlock(text.words, i)
    BY TextFacts
  <1>2. WritesMasks(text.words, once)
    BY <1>1, RedactedWrites
  <1>3. Range(once) \cap Secrets = {}
    <2>1. \A i \in DOMAIN text.words : Mask(text.words[i], InBlock(text.words, i)) \notin Secrets
      BY <1>1 DEF Mask, Secrets
    <2> HIDE DEF once
    <2> QED BY <1>2, <2>1 DEF WritesMasks
  <1>4. WritesMasks(once, twice)
    <2> HIDE DEF once
    <2> QED BY <1>2, RedactedWrites DEF WritesMasks
  <1>5. \A i \in DOMAIN once : Mask(once[i], InBlock(once, i)) \notin Secrets
    <2> HIDE DEF once
    <2>1. \A i \in DOMAIN once : once[i] \notin Secrets
      BY <1>3 DEF Range
    <2> QED BY <2>1 DEF Mask, Secrets
  <1>6. Range(twice) \cap Secrets = {}
    <2> HIDE DEF once, twice
    <2> QED BY <1>4, <1>5 DEF WritesMasks
  <1> QED BY <1>3, <1>6

\* What the words of texts that resemble each other have in common.
Related(a, b) == a = b \/ Range(a) \cap Range(b) # {} \/ (BytesOf(a) < 5 /\ BytesOf(b) < 5)

LEMMA BytesFacts ==
    ASSUME NEW words \in Seq(Words)
    PROVE  /\ BytesOf(words) \in Nat
           /\ words = <<>> => BytesOf(words) = 0
           /\ IsFiniteSet(Range(words))
           /\ DOMAIN words = 1 .. Len(words) /\ Len(words) \in Nat
  <1> DEFINE short == {i \in DOMAIN words : words[i] \in {"ok", "hi"}}
             long == DOMAIN words \ short
  <1>1. Len(words) \in Nat /\ DOMAIN words = 1 .. Len(words)
    OBVIOUS
  <1>2. IsFiniteSet(DOMAIN words)
    BY <1>1, FS_Interval
  <1>3. short \in SUBSET DOMAIN words /\ long \in SUBSET DOMAIN words
    OBVIOUS
  <1>4. BytesOf(words) = 2 * Cardinality(short) + 32 * Cardinality(long)
    BY DEF BytesOf
  <1>5. ASSUME words = <<>>
        PROVE  short = {} /\ long = {}
    BY <1>5
  <1> HIDE DEF short, long
  <1>6. Cardinality(short) \in Nat /\ Cardinality(long) \in Nat
    BY <1>2, <1>3, FS_Subset, FS_CardinalityType
  <1>7. words \in Surjection(DOMAIN words, Range(words))
    BY DEF Surjection, Range
  <1>8. IsFiniteSet(Range(words))
    BY <1>2, <1>7, FS_Surjection
  <1>9. Cardinality({}) = 0
    BY FS_EmptySet
  <1>10. BytesOf(words) \in Nat
    BY <1>4, <1>6
  <1>11. ASSUME words = <<>>
         PROVE  BytesOf(words) = 0
    <2>1. Cardinality(short) = 0
      BY <1>5, <1>9, <1>11
    <2>2. Cardinality(long) = 0
      BY <1>5, <1>9, <1>11
    <2> QED BY <1>4, <2>1, <2>2
  <1> QED BY <1>1, <1>8, <1>10, <1>11

\* Texts of which some part is matched are related, and a score is a number.
LEMMA JaccardFacts ==
    ASSUME NEW a \in Seq(Words), NEW b \in Seq(Words)
    PROVE  /\ Jaccard(a, b) \in Nat
           /\ Jaccard(a, b) >= 60 => Related(a, b)
  <1> DEFINE both == Range(a) \cap Range(b)
             either == Range(a) \cup Range(b)
             J == (100 * Cardinality(both)) \div Cardinality(either)
  <1>1. BytesOf(a) \in Nat /\ BytesOf(b) \in Nat
    BY BytesFacts
  <1>2. CASE BytesOf(a) < 5 \/ BytesOf(b) < 5
    BY <1>1, <1>2 DEF Jaccard, Related
  <1>3. CASE ~(BytesOf(a) < 5 \/ BytesOf(b) < 5)
    <2>1. Jaccard(a, b) = J
      BY <1>3 DEF Jaccard
    <2>2. IsFiniteSet(either)
      BY BytesFacts, FS_Union
    <2>3. IsFiniteSet(both)
      BY BytesFacts, FS_Intersection
    <2>4. either # {}
      <3>1. a # <<>>
        BY <1>1, <1>3, BytesFacts
      <3>2. 1 \in DOMAIN a
        BY <3>1
      <3> QED BY <3>2 DEF Range
    <2>5. Cardinality(either) \in Nat \ {0} /\ Cardinality(both) \in Nat
      BY <2>2, <2>3, <2>4, FS_EmptySet, FS_CardinalityType
    <2>6. both = {} => Cardinality(both) = 0
      BY FS_EmptySet
    <2> DEFINE e == Cardinality(either)
               m == Cardinality(both)
    <2>7. J = (100 * m) \div e
      OBVIOUS
    <2> HIDE DEF either, both, J, e, m
    <2>8. e \in Nat \ {0} /\ m \in Nat /\ (both = {} => m = 0)
      BY <2>5, <2>6 DEF e, m
    <2>9. J \in Nat
      BY <2>7, <2>8
    <2>10. J >= 60 => both # {}
      <3>1. m = 0 => J = 0
        BY <2>7, <2>8
      <3> QED BY <2>8, <3>1
    <2> QED BY <2>1, <2>9, <2>10 DEF Related, both
  <1> QED BY <1>2, <1>3

LEMMA MatchFacts ==
    ASSUME NEW artifact, IsText(artifact), NEW prompt, IsText(prompt)
    PROVE  /\ MatchScore(artifact, prompt).score \in Int
           /\ MatchScore(artifact, prompt).tier # "none" => Related(Norm(artifact), Norm(prompt))
  <1> DEFINE a == artifact.words
             p == prompt.words
             s == MatchScore(artifact, prompt)
  <1>1. a \in Seq(Words) /\ p \in Seq(Words)
    BY TextFacts
  <1>2. Norm(artifact) = a /\ Norm(prompt) = p
    BY DEF Norm
  <1>3. Jaccard(a, p) \in Nat /\ (Jaccard(a, p) >= 60 => Related(a, p))
    BY <1>1, JaccardFacts
  <1>4. s = IF artifact = prompt THEN Tier("exact", 40)
            ELSE IF a = p THEN Tier("normalized_exact", 30)
            ELSE IF Jaccard(a, p) >= 60 THEN Tier("near_exact", Jaccard(a, p) \div 5)
            ELSE IF BytesOf(a) >= 64 /\ (\E i, j \in DOMAIN p : SubSeq(p, i, j) = a)
            THEN Tier("substring", 15)
            ELSE Tier("none", 0)
    BY <1>2 DEF MatchScore
  <1>5. artifact = prompt => a = p
    OBVIOUS
  <1>6. ASSUME BytesOf(a) >= 64, NEW i \in DOMAIN p, NEW j \in DOMAIN p, SubSeq(p, i, j) = a
        PROVE  Range(a) \cap Range(p) # {}
    <2>1. a # <<>>
      BY <1>1, <1>6, BytesFacts
    <2> HIDE DEF a, p
    <2>2. i <= j /\ i \in 1 .. Len(p) /\ j \in 1 .. Len(p) /\ Len(p) \in Nat
      BY <1>1, <1>6, <2>1
    <2>3. 1 \in DOMAIN a /\ a[1] = p[i]
      BY <1>1, <1>6, <2>2
    <2>4. a[1] \in Range(a) /\ a[1] \in Range(p)
      BY <2>3 DEF Range
    <2> QED BY <2>4
  <1>7. \A name, score : Tier(name, score).tier = name /\ Tier(name, score).score = score
    BY DEF Tier
  <1>8. Jaccard(a, p) \div 5 \in Int
    BY <1>3
  <1> HIDE DEF s, a, p
  <1>9. s.score \in Int
    BY <1>4, <1>7, <1>8
  <1>10. s.tier # "none" => Related(a, p)
    BY <1>3, <1>4, <1>5, <1>6, <1>7 DEF Related
  <1> QED BY <1>2, <1>9, <1>10 DEF s

-----------------------------------------------------------------------------
(* What the correlator keeps, and where it comes from: h is what has been  *)
(* processed.                                                              *)

\* Of an artifact's or a prompt's id.
Wrote(h, w, session, path) ==
    h[w].kind = "open" /\ h[w].writes /\ h[w].session = session /\ h[w].path = path

HasRead(h, r, id, session) ==
    /\ h[r].kind = "open" /\ h[r].reads /\ h[r].session = session
    /\ h[r].path = id[2] /\ Norm(h[r].content) = id[3]

HasSaid(h, p, prompt) == h[p].kind = "say" /\ PromptId(h[p]) = prompt

\* Session read at ts what the session of the artifact had written.
Travelled(h, id, session, ts) ==
    /\ id[1] # session
    /\ \E w, r \in DOMAIN h :
          /\ Wrote(h, w, id[1], id[2]) /\ HasRead(h, r, id, session)
          /\ h[w].ts <= h[r].ts /\ h[r].ts = ts

\* And then said what resembles it.
Prompted(h, id, prompt) ==
    /\ id[1] # prompt[1]
    /\ Related(id[3], prompt[4])
    /\ \E w, r, p \in DOMAIN h :
          /\ Wrote(h, w, id[1], id[2]) /\ HasRead(h, r, id, prompt[1]) /\ HasSaid(h, p, prompt)
          /\ h[w].ts <= h[r].ts /\ h[r].ts <= prompt[3]

CapiFields == {"artifacts", "lineage", "pending", "order", "total", "candidates", "emitted",
               "templates"}

CapiTyped(c) ==
    /\ DOMAIN c = CapiFields
    /\ IsSeq(c.artifacts) /\ Len(c.artifacts) <= MaxArtifacts
    /\ IsSeq(c.lineage) /\ Len(c.lineage) <= MaxArtifacts
    /\ IsSeq(c.candidates) /\ Len(c.candidates) <= MaxArtifacts
    /\ IsSeq(c.order)
    /\ \A s \in DOMAIN c.pending : IsSeq(c.pending[s])

ArtifactIs(e) ==
    /\ e.key = e.value.id
    /\ e.value.id = <<e.value.session, e.value.path, Norm(e.value.text)>>
    /\ IsText(e.value.text)

LineageTells(c, h) ==
    \A i \in DOMAIN c.lineage :
        \E w \in DOMAIN h : Wrote(h, w, c.lineage[i].value.session, c.lineage[i].key)

ReadsTell(c, h) ==
    \A s \in DOMAIN c.pending : \A i \in DOMAIN c.pending[s] :
        Travelled(h, c.pending[s][i].artifact, s, c.pending[s][i].ts)

CandidatesTell(c, h) ==
    \A i \in DOMAIN c.candidates :
        /\ c.candidates[i].value.score \in Int
        /\ c.candidates[i].value.session = c.candidates[i].key.prompt[1]
        /\ Prompted(h, c.candidates[i].key.artifact, c.candidates[i].key.prompt)

Traced(c, h) ==
    /\ \A i \in DOMAIN c.artifacts : ArtifactIs(c.artifacts[i])
    /\ LineageTells(c, h)
    /\ ReadsTell(c, h)
    /\ CandidatesTell(c, h)

\* Each read has a token of its own in the order.
Bearing(s, reads, token) == {i \in DOMAIN reads : TokenOf(s, reads[i]) = token}
Occurs(order, token) == {i \in DOMAIN order : order[i] = token}

InLine(q, order) ==
    \A s \in DOMAIN q : \A token :
        Cardinality(Bearing(s, q[s], token)) <= Cardinality(Occurs(order, token))

Counted(c) ==
    /\ IsFiniteSet(Places(c.pending))
    /\ c.total = TotalOf(c.pending)
    /\ InLine(c.pending, c.order)

CapiOK(c, h) == CapiTyped(c) /\ Traced(c, h) /\ Counted(c)

\* What was processed is not undone by what is.
LEMMA TracedLater ==
    ASSUME NEW c, NEW h, IsSeq(h), CapiOK(c, h), NEW x
    PROVE  CapiOK(c, Append(h, x))
  <1> DEFINE g == Append(h, x)
  <1>1. \A i \in DOMAIN h : i \in DOMAIN g /\ g[i] = h[i]
    <2>1. DOMAIN h = 1 .. Len(h) /\ Len(h) \in Nat
      BY SeqFacts
    <2> QED BY <2>1, AppendFacts
  <1> HIDE DEF g
  <1>2. LineageTells(c, g)
    BY <1>1 DEF CapiOK, Traced, LineageTells, Wrote
  <1>3. \A id, s, ts : Travelled(h, id, s, ts) => Travelled(g, id, s, ts)
    BY <1>1 DEF Travelled, Wrote, HasRead
  <1>4. \A id, prompt : Prompted(h, id, prompt) => Prompted(g, id, prompt)
    BY <1>1 DEF Prompted, Wrote, HasRead, HasSaid
  <1>5. ReadsTell(c, g)
    BY <1>3 DEF CapiOK, Traced, ReadsTell
  <1>6. CandidatesTell(c, g)
    BY <1>4 DEF CapiOK, Traced, CandidatesTell
  <1> QED BY <1>2, <1>5, <1>6 DEF CapiOK, Traced, g

\* Queues of which some elements are kept.
Thinned(q2, q, kept) ==
    /\ \A s \in DOMAIN q2 :
          /\ s \in DOMAIN q /\ IsSeq(q2[s])
          /\ Len(q2[s]) = Cardinality(KeptAt(q, s, kept))
          /\ \E p \in Bijection(DOMAIN q2[s], KeptAt(q, s, kept)) :
                \A i \in DOMAIN q2[s] : q2[s][i] = q[s][p[i]]
    /\ \A s \in DOMAIN q : s \notin DOMAIN q2 => KeptAt(q, s, kept) = {}

LEMMA ThinnedReads ==
    ASSUME NEW q, NEW q2, NEW kept, Thinned(q2, q, kept), NEW s \in DOMAIN q2, IsSeq(q[s])
    PROVE  /\ \A i \in DOMAIN q2[s] : \E k \in KeptAt(q, s, kept) : q2[s][i] = q[s][k]
           /\ \A token : /\ IsFiniteSet(Bearing(s, q[s], token))
                         /\ Cardinality(Bearing(s, q2[s], token))
                               <= Cardinality(Bearing(s, q[s], token) \cap KeptAt(q, s, kept))
                         /\ Cardinality(Bearing(s, q2[s], token))
                               <= Cardinality(Bearing(s, q[s], token))
                         /\ Cardinality(Bearing(s, q2[s], token)) \in Nat
                         /\ Cardinality(Bearing(s, q[s], token)) \in Nat
  <1> DEFINE at == KeptAt(q, s, kept)
             new == q2[s]
             old == q[s]
  <1>1. PICK p \in Bijection(DOMAIN new, at) : \A i \in DOMAIN new : new[i] = old[p[i]]
    BY DEF Thinned
  <1>2. p \in [DOMAIN new -> at] /\ \A a, b \in DOMAIN new : p[a] = p[b] => a = b
    BY <1>1, Fun_BijectionProperties
  <1>3. IsFiniteSet(DOMAIN old)
    <2>1. DOMAIN old = 1 .. Len(old) /\ Len(old) \in Nat
      BY SeqFacts
    <2> QED BY <2>1, FS_Interval
  <1>4. ASSUME NEW token
        PROVE  /\ IsFiniteSet(Bearing(s, old, token))
               /\ Cardinality(Bearing(s, new, token)) <= Cardinality(Bearing(s, old, token) \cap at)
               /\ Cardinality(Bearing(s, new, token)) <= Cardinality(Bearing(s, old, token))
               /\ Cardinality(Bearing(s, new, token)) \in Nat
               /\ Cardinality(Bearing(s, old, token)) \in Nat
    <2> DEFINE B == Bearing(s, old, token)
               C == B \cap at
               D == Bearing(s, new, token)
               f == [i \in D |-> p[i]]
    <2>1. B \in SUBSET DOMAIN old /\ D \in SUBSET DOMAIN new
      BY DEF Bearing
    <2>2. \A i \in D : p[i] \in C
      <3> TAKE i \in D
      <3>1. i \in DOMAIN new /\ TokenOf(s, new[i]) = token
        BY DEF Bearing
      <3>2. p[i] \in at /\ new[i] = old[p[i]]
        BY <1>1, <1>2, <3>1
      <3>3. p[i] \in DOMAIN old
        BY <3>2 DEF KeptAt
      <3> QED BY <3>1, <3>2, <3>3 DEF Bearing
    <2> HIDE DEF B, C, D
    <2>3. f \in Injection(D, C)
      <3>1. f \in [D -> C]
        BY <2>2
      <3>2. \A a, b \in D : f[a] = f[b] => a = b
        BY <1>2, <2>1
      <3> HIDE DEF f
      <3> QED BY <3>1, <3>2 DEF Injection, IsInjective
    <2> HIDE DEF f
    <2>4. IsFiniteSet(B)
      BY <1>3, <2>1, FS_Subset
    <2>5. IsFiniteSet(C) /\ Cardinality(C) <= Cardinality(B)
      BY <2>4, FS_Intersection DEF C
    <2>6. IsFiniteSet(D) /\ Cardinality(D) <= Cardinality(C)
      BY <2>3, <2>5, FS_Injection
    <2>7. Cardinality(B) \in Nat /\ Cardinality(C) \in Nat /\ Cardinality(D) \in Nat
      BY <2>4, <2>5, <2>6, FS_CardinalityType
    <2>8. /\ IsFiniteSet(B)
          /\ Cardinality(D) <= Cardinality(C)
          /\ Cardinality(D) <= Cardinality(B)
          /\ Cardinality(D) \in Nat
          /\ Cardinality(B) \in Nat
      BY <2>4, <2>5, <2>6, <2>7
    <2> QED BY <2>8 DEF B, C, D
  <1>5. \A i \in DOMAIN new : \E k \in at : new[i] = old[k]
    BY <1>1, <1>2
  <1> QED BY <1>4, <1>5

LEMMA ThinnedCount ==
    ASSUME NEW q, NEW r, NEW kept \in SUBSET Places(q), Thinned(r, q, kept),
           IsFiniteSet(Places(q)), \A s \in DOMAIN q : IsSeq(q[s])
    PROVE  /\ IsFiniteSet(Places(r))
           /\ TotalOf(r) = Cardinality(kept)
           /\ Cardinality(kept) <= TotalOf(q)
           /\ Cardinality(kept) \in Nat /\ TotalOf(q) \in Nat
  <1>1. \A s \in DOMAIN r : s \in DOMAIN q /\ Len(r[s]) = Cardinality(KeptAt(q, s, kept))
    BY DEF Thinned
  <1>2. \A s \in DOMAIN r : IsSeq(r[s])
    BY DEF Thinned
  <1>3. \A s \in DOMAIN q : s \notin DOMAIN r => KeptAt(q, s, kept) = {}
    BY DEF Thinned
  <1> QED BY <1>1, <1>2, <1>3, ThinnedTotal

\* d is c with some reads kept, and their number and order for it.
LEMMA CapiThinned ==
    ASSUME NEW c, NEW h, CapiOK(c, h), NEW d, DOMAIN d = CapiFields,
           d.artifacts = c.artifacts, d.lineage = c.lineage, d.candidates = c.candidates,
           NEW kept \in SUBSET Places(c.pending), Thinned(d.pending, c.pending, kept),
           d.total = Cardinality(kept), IsSeq(d.order), InLine(d.pending, d.order)
    PROVE  /\ CapiOK(d, h)
           /\ d.total <= c.total
           /\ d.total \in Nat /\ c.total \in Nat
           /\ \A s \in DOMAIN d.pending :
                 /\ s \in DOMAIN c.pending
                 /\ \A i \in DOMAIN d.pending[s] : \E k \in KeptAt(c.pending, s, kept) :
                       d.pending[s][i] = c.pending[s][k]
  <1> DEFINE q == c.pending
             r == d.pending
  <1>1. \A s \in DOMAIN q : IsSeq(q[s])
    BY DEF CapiOK, CapiTyped
  <1>2. \A s \in DOMAIN r : s \in DOMAIN q /\ IsSeq(r[s])
    BY DEF Thinned
  <1>3. \A s \in DOMAIN r : \A i \in DOMAIN r[s] : \E k \in KeptAt(q, s, kept) : r[s][i] = q[s][k]
    BY <1>1, <1>2, ThinnedReads
  <1>4. /\ IsFiniteSet(Places(r))
        /\ TotalOf(r) = Cardinality(kept)
        /\ Cardinality(kept) <= TotalOf(q)
        /\ Cardinality(kept) \in Nat /\ TotalOf(q) \in Nat
    <2>1. IsFiniteSet(Places(q))
      BY DEF CapiOK, Counted
    <2>2. kept \in SUBSET Places(q) /\ Thinned(r, q, kept)
      OBVIOUS
    <2> HIDE DEF q, r
    <2> QED BY <1>1, <2>1, <2>2, ThinnedCount
  <1>5. c.total = TotalOf(q)
    BY DEF CapiOK, Counted
  <1>6. ReadsTell(d, h)
    <2>1. ReadsTell(c, h)
      BY DEF CapiOK, Traced
    <2>2. ASSUME NEW s \in DOMAIN r, NEW i \in DOMAIN r[s]
          PROVE  Travelled(h, r[s][i].artifact, s, r[s][i].ts)
      <3>1. PICK k \in KeptAt(q, s, kept) : r[s][i] = q[s][k]
        BY <1>3
      <3>2. s \in DOMAIN q /\ k \in DOMAIN q[s]
        BY <1>2, <3>1 DEF KeptAt
      <3> QED BY <2>1, <3>1, <3>2 DEF ReadsTell
    <2> QED BY <2>2 DEF ReadsTell
  <1>7. Traced(d, h)
    BY <1>6 DEF CapiOK, Traced, LineageTells, CandidatesTell
  <1>8. CapiTyped(d)
    BY <1>2 DEF CapiOK, CapiTyped
  <1>9. Counted(d)
    BY <1>4 DEF Counted
  <1> QED BY <1>2, <1>3, <1>4, <1>5, <1>7, <1>8, <1>9 DEF CapiOK

\* Of what stays in line, fewer do.
LEMMA InLineThinned ==
    ASSUME NEW q, NEW r, NEW kept, Thinned(r, q, kept), NEW order, IsSeq(order),
           \A s \in DOMAIN q : IsSeq(q[s]), InLine(q, order)
    PROVE  InLine(r, order)
  <1>1. ASSUME NEW s \in DOMAIN r, NEW token
        PROVE  Cardinality(Bearing(s, r[s], token)) <= Cardinality(Occurs(order, token))
    <2>1. s \in DOMAIN q /\ IsSeq(q[s])
      BY DEF Thinned
    <2>2. /\ Cardinality(Bearing(s, r[s], token)) <= Cardinality(Bearing(s, q[s], token))
          /\ Cardinality(Bearing(s, r[s], token)) \in Nat
          /\ Cardinality(Bearing(s, q[s], token)) \in Nat
      BY <2>1, ThinnedReads
    <2>3. Cardinality(Bearing(s, q[s], token)) <= Cardinality(Occurs(order, token))
      BY <2>1 DEF InLine
    <2>4. Cardinality(Occurs(order, token)) \in Nat
      <3>1. Occurs(order, token) \in SUBSET DOMAIN order
        BY DEF Occurs
      <3>2. DOMAIN order = 1 .. Len(order) /\ Len(order) \in Nat
        BY SeqFacts
      <3>3. IsFiniteSet(DOMAIN order)
        BY <3>2, FS_Interval
      <3> QED BY <3>1, <3>3, FS_Subset, FS_CardinalityType
    <2> HIDE DEF Thinned
    <2> QED BY <2>2, <2>3, <2>4
  <1> QED BY <1>1 DEF InLine

\* To keep all is to keep each at its place.
LEMMA AllIsKept ==
    ASSUME NEW list, IsSeq(list)
    PROVE  /\ Len(list) = Cardinality(DOMAIN list)
           /\ \E p \in Bijection(DOMAIN list, DOMAIN list) :
                 \A i \in DOMAIN list : list[i] = list[p[i]]
  <1> DEFINE D == DOMAIN list
             p == [i \in D |-> i]
  <1>1. D = 1 .. Len(list) /\ Len(list) \in Nat
    BY SeqFacts
  <1>2. Cardinality(D) = Len(list)
    <2> DEFINE L == Len(list)
    <2>1. D = 1 .. L /\ L \in Nat
      BY <1>1
    <2> HIDE DEF L
    <2>2. Cardinality(1 .. L) = L
      BY <2>1, FS_Interval
    <2> QED BY <2>1, <2>2 DEF L
  <1>3. p \in Bijection(D, D) /\ \A i \in D : p[i] = i
    <2>1. p \in [D -> D] /\ \A i \in D : p[i] = i
      OBVIOUS
    <2> HIDE DEF p, D
    <2> QED BY <2>1, Fun_IsBij
  <1> HIDE DEF p
  <1> QED BY <1>2, <1>3

\* Picked at the places kept, queue by queue.
LEMMA PickedIsThinned ==
    ASSUME NEW q, \A s \in DOMAIN q : IsSeq(q[s]), NEW kept
    PROVE  Thinned([s \in DOMAIN q |-> Picked(q[s], KeptAt(q, s, kept))], q, kept)
  <1> DEFINE r == [s \in DOMAIN q |-> Picked(q[s], KeptAt(q, s, kept))]
  <1>1. \A s \in DOMAIN q : KeptAt(q, s, kept) \in SUBSET DOMAIN q[s]
    BY DEF KeptAt
  <1>2. DOMAIN r = DOMAIN q /\ \A s \in DOMAIN q : r[s] = Picked(q[s], KeptAt(q, s, kept))
    OBVIOUS
  <1> HIDE DEF r
  <1>3. ASSUME NEW s \in DOMAIN q
        PROVE  /\ IsSeq(r[s])
               /\ Len(r[s]) = Cardinality(KeptAt(q, s, kept))
               /\ \E p \in Bijection(DOMAIN r[s], KeptAt(q, s, kept)) :
                     \A i \in DOMAIN r[s] : r[s][i] = q[s][p[i]]
    BY <1>1, <1>2, PickedFacts
  <1>4. Thinned(r, q, kept)
    BY <1>2, <1>3 DEF Thinned
  <1> QED BY <1>4 DEF r

\* Queues of which only empty ones are left out.
LEMMA SomeQueuesThinned ==
    ASSUME NEW q, \A s \in DOMAIN q : IsSeq(q[s]), NEW keep,
           \A s \in DOMAIN q : s \notin keep => q[s] = <<>>
    PROVE  Thinned(Keep(q, keep), q, Places(q))
  <1> DEFINE r == Keep(q, keep)
  <1>1. DOMAIN r = DOMAIN q \cap keep /\ \A s \in DOMAIN r : s \in DOMAIN q /\ r[s] = q[s]
    BY KeepFacts
  <1> HIDE DEF r
  <1>2. \A s \in DOMAIN q : KeptAt(q, s, Places(q)) = DOMAIN q[s]
    BY PlaceFacts DEF KeptAt
  <1>3. ASSUME NEW s \in DOMAIN r
        PROVE  /\ IsSeq(r[s])
               /\ Len(r[s]) = Cardinality(KeptAt(q, s, Places(q)))
               /\ \E p \in Bijection(DOMAIN r[s], KeptAt(q, s, Places(q))) :
                     \A i \in DOMAIN r[s] : r[s][i] = q[s][p[i]]
    <2>1. r[s] = q[s] /\ IsSeq(q[s]) /\ KeptAt(q, s, Places(q)) = DOMAIN q[s]
      BY <1>1, <1>2
    <2> QED BY <2>1, AllIsKept
  <1>4. ASSUME NEW s \in DOMAIN q, s \notin DOMAIN r
        PROVE  KeptAt(q, s, Places(q)) = {}
    BY <1>1, <1>4 DEF KeptAt
  <1>5. Thinned(r, q, Places(q))
    BY <1>1, <1>3, <1>4 DEF Thinned
  <1> QED BY <1>5 DEF r

LEMMA KeepReadsWorks ==
    ASSUME NEW c, NEW h, CapiOK(c, h), NEW kept
    PROVE  /\ CapiOK(KeepReads(c, kept), h)
           /\ KeepReads(c, kept).total <= c.total
           /\ KeepReads(c, kept).total \in Nat /\ c.total \in Nat
           /\ \A s \in DOMAIN KeepReads(c, kept).pending :
                 \A i \in DOMAIN KeepReads(c, kept).pending[s] :
                    \E k \in KeptAt(c.pending, s, kept) :
                       KeepReads(c, kept).pending[s][i] = c.pending[s][k]
  <1> DEFINE q == c.pending
             r == [s \in DOMAIN q |-> Picked(q[s], KeptAt(q, s, kept))]
             d == KeepReads(c, kept)
             in == Places(q) \cap kept
  <1>1. DOMAIN c = CapiFields
    BY DEF CapiOK, CapiTyped
  <1>2. /\ DOMAIN d = CapiFields
        /\ d.artifacts = c.artifacts /\ d.lineage = c.lineage /\ d.candidates = c.candidates
        /\ d.order = c.order
        /\ d.pending = r /\ d.total = c.total - Cardinality(Places(q) \ kept)
    BY <1>1 DEF KeepReads, KeptAt, CapiFields
  <1> HIDE DEF d
  <1>3. \A s \in DOMAIN q : IsSeq(q[s])
    BY DEF CapiOK, CapiTyped
  <1>4. \A s \in DOMAIN q : KeptAt(q, s, kept) = KeptAt(q, s, in)
    BY PlaceFacts DEF KeptAt
  <1>5. Thinned(r, q, in)
    <2>1. r = [s \in DOMAIN q |-> Picked(q[s], KeptAt(q, s, in))]
      BY <1>4
    <2>2. Thinned([s \in DOMAIN q |-> Picked(q[s], KeptAt(q, s, in))], q, in)
      BY <1>3, PickedIsThinned
    <2> QED BY <2>1, <2>2
  <1> HIDE DEF r
  <1>6. d.total = Cardinality(in)
    <2>1. IsFiniteSet(Places(q)) /\ c.total = Cardinality(Places(q))
      BY DEF CapiOK, Counted, TotalOf
    <2>2. Cardinality(Places(q) \ kept) = Cardinality(Places(q)) - Cardinality(in)
      BY <2>1, FS_Difference
    <2>3. Cardinality(Places(q)) \in Nat /\ Cardinality(in) \in Nat
      BY <2>1, FS_Intersection, FS_CardinalityType
    <2> HIDE DEF in, q
    <2> QED BY <1>2, <2>1, <2>2, <2>3
  <1>7. IsSeq(c.order) /\ InLine(q, c.order)
    BY DEF CapiOK, CapiTyped, Counted
  <1>8. InLine(d.pending, d.order)
    <2>1. InLine(r, c.order)
      BY <1>3, <1>5, <1>7, InLineThinned
    <2> QED BY <1>2, <2>1
  <1>9. in \in SUBSET Places(c.pending) /\ Thinned(d.pending, c.pending, in)
    BY <1>2, <1>5
  <1> HIDE DEF in
  <1>10. /\ CapiOK(d, h)
         /\ d.total <= c.total
         /\ d.total \in Nat /\ c.total \in Nat
         /\ \A s \in DOMAIN d.pending :
               /\ s \in DOMAIN c.pending
               /\ \A i \in DOMAIN d.pending[s] : \E k \in KeptAt(c.pending, s, in) :
                     d.pending[s][i] = c.pending[s][k]
    BY <1>2, <1>6, <1>7, <1>8, <1>9, CapiThinned
  <1> QED BY <1>4, <1>10 DEF d

\* The order without its first token.
LEMMA OccursFacts ==
    ASSUME NEW order, IsSeq(order), NEW x
    PROVE  /\ IsFiniteSet(Occurs(order, x))
           /\ Cardinality(Occurs(order, x)) \in Nat
  <1>1. Occurs(order, x) \in SUBSET DOMAIN order
    BY DEF Occurs
  <1>2. DOMAIN order = 1 .. Len(order) /\ Len(order) \in Nat
    BY SeqFacts
  <1>3. IsFiniteSet(DOMAIN order)
    BY <1>2, FS_Interval
  <1> QED BY <1>1, <1>3, FS_Subset, FS_CardinalityType

LEMMA TailOccurs ==
    ASSUME NEW order, IsSeq(order), Len(order) # 0, NEW x
    PROVE  Cardinality(Occurs(Tail(order), x))
              = Cardinality(Occurs(order, x)) - (IF order[1] = x THEN 1 ELSE 0)
  <1> DEFINE old == Occurs(order, x)
             new == Occurs(Tail(order), x)
             f == [i \in new |-> i + 1]
  <1>1. /\ Len(order) \in Nat \ {0} /\ DOMAIN order = 1 .. Len(order)
        /\ DOMAIN Tail(order) = 1 .. Len(order) - 1
        /\ \A i \in 1 .. Len(order) - 1 : Tail(order)[i] = order[i + 1]
    BY SeqFacts, TailFacts
  <1>2. \A i \in new : i \in 1 .. Len(order) - 1 /\ i + 1 \in old \ {1}
    BY <1>1 DEF Occurs
  <1>3. \A k \in old \ {1} : k - 1 \in new /\ (k - 1) + 1 = k
    BY <1>1 DEF Occurs
  <1>4. 1 \in old <=> order[1] = x
    BY <1>1 DEF Occurs
  <1>5. IsFiniteSet(old) /\ Cardinality(old) \in Nat
    BY OccursFacts
  <1> HIDE DEF new, old
  <1>6. f \in Bijection(new, old \ {1})
    <2>1. f \in [new -> old \ {1}]
      BY <1>2
    <2>2. \A i, j \in new : f[i] = f[j] => i = j
      BY <1>2
    <2>3. \A k \in old \ {1} : \E i \in new : f[i] = k
      BY <1>3
    <2> HIDE DEF f
    <2> QED BY <2>1, <2>2, <2>3, Fun_IsBij
  <1>7. ExistsBijection(old \ {1}, new)
    <2>1. ExistsBijection(new, old \ {1})
      BY <1>6 DEF ExistsBijection
    <2> QED BY <2>1, Fun_ExistsBijSymmetric
  <1>8. /\ IsFiniteSet(old \ {1})
        /\ Cardinality(old \ {1}) = IF 1 \in old THEN Cardinality(old) - 1 ELSE Cardinality(old)
    BY <1>5, FS_RemoveElement
  <1>9. Cardinality(new) = Cardinality(old \ {1})
    BY <1>7, <1>8, FS_Bijection
  <1>10. Cardinality(new) = Cardinality(old) - (IF order[1] = x THEN 1 ELSE 0)
    BY <1>4, <1>5, <1>8, <1>9
  <1> QED BY <1>10 DEF new, old

\* enforce_bounds, one step.
LEMMA DropWorks ==
    ASSUME NEW c, NEW h, CapiOK(c, h), c.order # <<>>
    PROVE  /\ CapiOK(DropOldestRead(c), h)
           /\ DropOldestRead(c).total <= c.total
           /\ Len(DropOldestRead(c).order) = Len(c.order) - 1
  <1> DEFINE token == Head(c.order)
             t == token.session
             q == c.pending
             reads == ReadsOf(c, t)
             at == {i \in DOMAIN reads : TokenOf(t, reads[i]) = token}
             left == IF at = {} THEN reads ELSE Picked(reads, DOMAIN reads \ {Min(at)})
             r == IF left = <<>> THEN Without(q, t) ELSE Put(q, t, left)
             d == DropOldestRead(c)
             gone == IF at = {} THEN {} ELSE {<<t, Min(at)>>}
             kept == Places(q) \ gone
  <1>1. DOMAIN c = CapiFields
    BY DEF CapiOK, CapiTyped
  <1>2. /\ DOMAIN d = CapiFields
        /\ d.artifacts = c.artifacts /\ d.lineage = c.lineage /\ d.candidates = c.candidates
        /\ d.order = Tail(c.order)
        /\ d.pending = r /\ d.total = IF at = {} THEN c.total ELSE c.total - 1
    BY <1>1 DEF DropOldestRead, CapiFields
  <1> HIDE DEF d
  <1>3. \A s \in DOMAIN q : IsSeq(q[s])
    BY DEF CapiOK, CapiTyped
  <1>4. IsSeq(c.order) /\ InLine(q, c.order)
    BY DEF CapiOK, CapiTyped, Counted
  <1>5. /\ Len(c.order) \in Nat \ {0} /\ DOMAIN c.order = 1 .. Len(c.order)
        /\ IsSeq(Tail(c.order)) /\ Len(Tail(c.order)) = Len(c.order) - 1
        /\ DOMAIN Tail(c.order) = 1 .. Len(c.order) - 1
        /\ \A i \in 1 .. Len(c.order) - 1 :
              i + 1 \in DOMAIN c.order /\ Tail(c.order)[i] = c.order[i + 1]
        /\ token = c.order[1]
    <2>1. Len(c.order) \in Nat /\ DOMAIN c.order = 1 .. Len(c.order)
      BY <1>4, SeqFacts
    <2>2. Len(c.order) # 0
      <3>1. c.order \in Seq(Range(c.order))
        BY <1>4 DEF IsSeq
      <3> QED BY <3>1
    <2> QED BY <1>4, <2>1, <2>2, TailFacts
  <1>6. IsSeq(reads) /\ DOMAIN reads = 1 .. Len(reads) /\ Len(reads) \in Nat
    <2>1. IsSeq(<<>>)
      BY DEF IsSeq
    <2>2. IsSeq(reads)
      BY <1>3, <2>1 DEF ReadsOf
    <2> QED BY <2>2, SeqFacts
  <1>7. at # {} => Min(at) \in at /\ t \in DOMAIN q /\ reads = q[t]
    <2>1. ASSUME at # {}
          PROVE  Min(at) \in at /\ t \in DOMAIN q
      <3>1. at \in SUBSET Nat
        BY <1>6
      <3>2. \E x \in at : \A y \in at : x <= y
        <4> HIDE DEF at
        <4> QED BY <2>1, <3>1, Least
      <3>3. Min(at) \in at
        <4> HIDE DEF at
        <4> QED BY <3>2 DEF Min
      <3>4. t \in DOMAIN q
        BY <2>1 DEF ReadsOf
      <3> QED BY <3>3, <3>4
    <2>2. t \in DOMAIN q => reads = q[t]
      BY SMTT(30) DEF ReadsOf
    <2> QED BY <2>1, <2>2
  <1> DEFINE stays == DOMAIN reads \ (IF at = {} THEN {} ELSE {Min(at)})
  <1>8. /\ IsSeq(left) /\ Len(left) = Cardinality(stays)
        /\ \E p \in Bijection(DOMAIN left, stays) : \A i \in DOMAIN left : left[i] = reads[p[i]]
        /\ left = <<>> => stays = {}
    <2>1. CASE at = {}
      <3>1. left = reads /\ stays = DOMAIN reads
        BY <2>1
      <3>2. reads = <<>> => DOMAIN reads = {}
        OBVIOUS
      <3> HIDE DEF left, stays, reads
      <3> QED BY <1>6, <3>1, <3>2, AllIsKept
    <2>2. CASE at # {}
      <3>1. left = Picked(reads, stays) /\ stays \in SUBSET DOMAIN reads
        BY <2>2
      <3> HIDE DEF left, stays, reads
      <3>2. /\ IsSeq(left) /\ Len(left) = Cardinality(stays) /\ IsFiniteSet(stays)
            /\ \E p \in Bijection(DOMAIN left, stays) : \A i \in DOMAIN left : left[i] = reads[p[i]]
        BY <1>6, <3>1, PickedFacts
      <3>3. left = <<>> => Len(left) = 0
        OBVIOUS
      <3> QED BY <3>2, <3>3, FS_EmptySet
    <2> QED BY <2>1, <2>2
  <1>9. t \notin DOMAIN q => left = <<>>
    <2>1. t \notin DOMAIN q => reads = <<>>
      BY DEF ReadsOf
    <2> QED BY <1>7, <2>1
  <1>10. t \in DOMAIN q => reads = q[t]
    BY DEF ReadsOf
  <1>11. \A s \in DOMAIN q : KeptAt(q, s, kept) = IF s = t THEN stays ELSE DOMAIN q[s]
    BY <1>7, <1>10, PlaceFacts DEF KeptAt
  <1> HIDE DEF left, stays
  <1>12. /\ \A s \in DOMAIN r : /\ s \in DOMAIN q
                                /\ s = t => r[s] = left
                                /\ s # t => r[s] = q[s]
         /\ \A s \in DOMAIN q : s \notin DOMAIN r => s = t /\ left = <<>>
    <2>1. CASE left = <<>>
      <3>1. r = Without(q, t)
        BY <2>1
      <3> HIDE DEF r, q, t
      <3>2. /\ DOMAIN r = DOMAIN q \ {t}
            /\ \A s \in DOMAIN r : s \in DOMAIN q /\ s # t /\ r[s] = q[s]
        BY <3>1, WithoutFacts
      <3> QED BY <2>1, <3>2
    <2>2. CASE left # <<>>
      <3>1. r = Put(q, t, left) /\ t \in DOMAIN q
        BY <1>9, <2>2
      <3> HIDE DEF r, q, t
      <3>2. /\ DOMAIN r = DOMAIN q \cup {t} /\ r[t] = left
            /\ \A s \in DOMAIN q : s # t => r[s] = q[s]
        BY <3>1 DEF Put
      <3> QED BY <2>2, <3>1, <3>2
    <2> QED BY <2>1, <2>2
  <1> HIDE DEF r
  <1>13. Thinned(r, q, kept)
    <2>1. ASSUME NEW s \in DOMAIN r
          PROVE  /\ s \in DOMAIN q /\ IsSeq(r[s])
                 /\ Len(r[s]) = Cardinality(KeptAt(q, s, kept))
                 /\ \E p \in Bijection(DOMAIN r[s], KeptAt(q, s, kept)) :
                       \A i \in DOMAIN r[s] : r[s][i] = q[s][p[i]]
      <3>1. CASE s = t
        <4>1. s \in DOMAIN q /\ r[s] = left /\ KeptAt(q, s, kept) = stays /\ reads = q[s]
          BY <1>10, <1>11, <1>12, <3>1
        <4> HIDE DEF reads
        <4> QED BY ZenonT(30), <1>8, <4>1
      <3>2. CASE s # t
        <4>1. s \in DOMAIN q /\ r[s] = q[s] /\ KeptAt(q, s, kept) = DOMAIN q[s] /\ IsSeq(q[s])
          BY <1>3, <1>11, <1>12, <3>2
        <4>2. /\ Len(q[s]) = Cardinality(DOMAIN q[s])
              /\ \E p \in Bijection(DOMAIN q[s], DOMAIN q[s]) :
                    \A i \in DOMAIN q[s] : q[s][i] = q[s][p[i]]
          BY <4>1, AllIsKept
        <4> QED BY <4>1, <4>2
      <3> QED BY <3>1, <3>2
    <2>2. \A s \in DOMAIN q : s \notin DOMAIN r => KeptAt(q, s, kept) = {}
      BY <1>8, <1>11, <1>12
    <2> QED BY <2>1, <2>2 DEF Thinned
  <1>14. d.total = Cardinality(kept)
    <2>1. IsFiniteSet(Places(q)) /\ c.total = Cardinality(Places(q))
      BY DEF CapiOK, Counted, TotalOf
    <2>2. CASE at = {}
      <3>1. kept = Places(q) /\ d.total = c.total
        BY <1>2, <2>2
      <3> QED BY <2>1, <3>1
    <2>3. CASE at # {}
      <3>1. kept = Places(q) \ {<<t, Min(at)>>} /\ d.total = c.total - 1
        BY <1>2, <2>3
      <3>2. <<t, Min(at)>> \in Places(q)
        BY <1>7, <2>3, PlaceFacts
      <3> QED BY <2>1, <3>1, <3>2, FS_RemoveElement
    <2> QED BY <2>2, <2>3
  <1>15. InLine(r, Tail(c.order))
    <2>1. ASSUME NEW s \in DOMAIN r, NEW x
          PROVE  Cardinality(Bearing(s, r[s], x)) <= Cardinality(Occurs(Tail(c.order), x))
      <3> DEFINE B == Cardinality(Bearing(s, q[s], x))
                 K == Cardinality(Bearing(s, q[s], x) \cap KeptAt(q, s, kept))
                 N == Cardinality(Bearing(s, r[s], x))
                 O == Cardinality(Occurs(c.order, x))
                 T == Cardinality(Occurs(Tail(c.order), x))
      <3>1. s \in DOMAIN q /\ IsSeq(q[s])
        BY <1>3, <1>12
      <3>2. IsFiniteSet(Bearing(s, q[s], x)) /\ N <= K /\ N <= B /\ N \in Nat /\ B \in Nat
        BY <1>13, <3>1, ThinnedReads
      <3>3. B <= O
        BY <1>4, <3>1 DEF InLine
      <3>4. O \in Nat /\ T \in Nat
        BY <1>4, <1>5, OccursFacts
      <3>5. T = O - (IF token = x THEN 1 ELSE 0)
        BY <1>4, <1>5, TailOccurs
      <3>6. CASE token # x
        <4> HIDE DEF B, N, O, T, token
        <4>1. T = O
          BY <3>4, <3>5, <3>6
        <4> QED BY <3>2, <3>3, <3>4, <4>1 DEF N, T
      <3>7. CASE token = x /\ Bearing(s, q[s], x) = {}
        <4>1. B = 0
          BY <3>7, FS_EmptySet
        <4> HIDE DEF B, N, O, T
        <4>2. N <= T
          BY <3>2, <3>4, <4>1
        <4> QED BY <4>2 DEF N, T
      <3>8. CASE token = x /\ Bearing(s, q[s], x) # {}
        <4>1. s = t /\ Bearing(s, q[s], x) = at /\ at # {}
          <5>1. PICK i \in DOMAIN q[s] : TokenOf(s, q[s][i]) = token
            BY <3>8 DEF Bearing
          <5>2. TokenOf(s, q[s][i]).session = s
            BY DEF TokenOf
          <5>3. s = t
            BY <5>1, <5>2
          <5>4. reads = q[s]
            BY <1>10, <3>1, <5>3
          <5> QED BY <3>8, <5>3, <5>4 DEF Bearing
        <4>2. Bearing(s, q[s], x) \cap KeptAt(q, s, kept) \in SUBSET (at \ {Min(at)})
          BY <1>11, <3>1, <4>1 DEF stays
        <4>3. Min(at) \in at /\ IsFiniteSet(at)
          BY <1>7, <3>2, <4>1
        <4>7. B = Cardinality(at)
          BY <4>1
        <4>4. IsFiniteSet(at \ {Min(at)}) /\ Cardinality(at \ {Min(at)}) = B - 1
          <5> HIDE DEF B, at
          <5> QED BY <4>3, <4>7, FS_RemoveElement
        <4>5. K <= B - 1 /\ K \in Nat
          <5> DEFINE M == at \ {Min(at)}
                     C == Bearing(s, q[s], x) \cap KeptAt(q, s, kept)
          <5>1. IsFiniteSet(M) /\ Cardinality(M) = B - 1 /\ C \in SUBSET M
            BY <4>2, <4>4
          <5> HIDE DEF B, M, C
          <5>2. Cardinality(C) <= B - 1 /\ Cardinality(C) \in Nat
            BY <5>1, FS_Subset, FS_CardinalityType
          <5> QED BY <5>2 DEF C
        <4> HIDE DEF B, K, N, O, T
        <4>6. N <= T
          BY <3>2, <3>3, <3>4, <3>5, <3>8, <4>5
        <4> QED BY <4>6 DEF N, T
      <3> QED BY <3>6, <3>7, <3>8
    <2> QED BY <2>1 DEF InLine
  <1>16. /\ kept \in SUBSET Places(c.pending) /\ Thinned(d.pending, c.pending, kept)
         /\ IsSeq(d.order) /\ InLine(d.pending, d.order)
    BY <1>2, <1>5, <1>13, <1>15
  <1> HIDE DEF kept
  <1>17. CapiOK(d, h) /\ d.total <= c.total
    BY <1>2, <1>14, <1>16, CapiThinned
  <1> QED BY <1>2, <1>5, <1>17 DEF d

\* enforce_bounds: the order is long enough to drop all reads that are too many.
LEMMA EnforceWorks ==
    ASSUME NEW c, NEW h, CapiOK(c, h)
    PROVE  /\ CapiOK(EnforceBounds(c), h)
           /\ EnforceBounds(c).total <= MaxArtifacts
  <1> DEFINE N == Len(c.order)
             More(d, n) == DropOldestRead(d)
             Grows(f, n) == f = [i \in 0 .. n |-> IF i = 0 THEN c ELSE More(f[i - 1], i)]
             F == CHOOSE f : Grows(f, N)
             enough == {n \in 0 .. N : F[n].total <= MaxArtifacts}
             Right(n) == CapiOK(F[n], h) /\ Len(F[n].order) = N - n
  <1>1. N \in Nat
    BY SeqFacts DEF CapiOK, CapiTyped
  <1>2. EnforceBounds(c) = IF enough = {} THEN F[N]
                           ELSE F[CHOOSE n \in enough : \A m \in enough : n <= m]
    BY DEF EnforceBounds
  <1>3. ASSUME NEW d, NEW i \in 1 .. N, CapiOK(d, h), Len(d.order) = N - (i - 1)
        PROVE  CapiOK(More(d, i), h) /\ Len(More(d, i).order) = N - i
    <2>1. d.order # <<>>
      BY <1>1, <1>3
    <2>2. Len(DropOldestRead(d).order) = Len(d.order) - 1 /\ CapiOK(DropOldestRead(d), h)
      BY <1>3, <2>1, DropWorks
    <2> QED BY <1>1, <1>3, <2>2
  <1> HIDE DEF N
  <1> HIDE DEF More
  <1>4. \E f : Grows(f, N)
    <2> DEFINE Missing == {n \in 0 .. N : ~\E f : Grows(f, n)}
    <2>1. ASSUME Missing # {}
          PROVE  FALSE
      <3>1. PICK n \in Missing : \A k \in Missing : n <= k
        <4>1. Missing \in SUBSET Nat
          OBVIOUS
        <4> HIDE DEF Missing
        <4> QED BY <2>1, <4>1, Least
      <3>2. n \in 0 .. N /\ ~\E f : Grows(f, n)
        BY <3>1
      <3>3. n # 0
        <4>1. Grows([i \in 0 .. 0 |-> c], 0)
          OBVIOUS
        <4> QED BY <3>2, <4>1
      <3>4. PICK f : Grows(f, n - 1)
        <4>1. n - 1 \in 0 .. N /\ n - 1 \notin Missing
          <5> HIDE DEF Missing
          <5> QED BY <1>1, <3>1, <3>2, <3>3
        <4> QED BY <4>1, Zenon
      <3> DEFINE g == [i \in 0 .. n |-> IF i = n THEN More(f[n - 1], n) ELSE f[i]]
      <3>5. Grows(g, n)
        BY <3>2, <3>3, <3>4
      <3> QED BY <3>2, <3>5
    <2>2. N \in 0 .. N
      BY <1>1
    <2> HIDE DEF Grows
    <2> QED BY <2>1, <2>2
  <1>5. Grows(F, N)
    BY <1>4, Zenon
  <1> HIDE DEF F
  <1>6. F[0] = c /\ \A i \in 1 .. N : F[i] = More(F[i - 1], i)
    BY <1>1, <1>5
  <1>7. Right(0)
    BY <1>1, <1>6 DEF N
  <1>8. \A i \in 1 .. N : Right(i - 1) => Right(i)
    BY <1>3, <1>6
  <1> DEFINE Wrong == {i \in 0 .. N : ~Right(i)}
  <1> HIDE DEF Right
  <1>9. Wrong = {}
    <2>1. SUFFICES ASSUME Wrong # {}
                   PROVE  FALSE
      OBVIOUS
    <2>2. PICK i \in Wrong : \A j \in Wrong : i <= j
      <3>1. Wrong \in SUBSET Nat
        OBVIOUS
      <3> HIDE DEF Wrong
      <3> QED BY <2>1, <3>1, Least
    <2> QED BY <1>1, <1>7, <1>8, <2>2
  <1>10. \A i \in 0 .. N : Right(i)
    BY <1>9
  <1>11. enough # {}
    <2>1. CapiOK(F[N], h) /\ Len(F[N].order) = 0
      BY <1>1, <1>10 DEF Right
    <2> DEFINE d == F[N]
    <2> HIDE DEF d
    <2>2. CapiOK(d, h) /\ Len(d.order) = 0
      BY <2>1 DEF d
    <2>3. \A s \in DOMAIN d.pending : DOMAIN d.pending[s] = {}
      <3> SUFFICES ASSUME NEW s \in DOMAIN d.pending, NEW i \in DOMAIN d.pending[s]
                   PROVE  FALSE
        OBVIOUS
      <3> DEFINE token == TokenOf(s, d.pending[s][i])
                 B == Bearing(s, d.pending[s], token)
                 O == Occurs(d.order, token)
      <3>1. i \in B
        BY DEF Bearing
      <3>2. O = {}
        <4>1. DOMAIN d.order = 1 .. Len(d.order)
          BY <2>2, SeqFacts DEF CapiOK, CapiTyped
        <4> QED BY <2>2, <4>1 DEF Occurs
      <3>3. Cardinality(B) <= Cardinality(O)
        BY <2>2 DEF CapiOK, Counted, InLine
      <3>4. IsFiniteSet(B)
        <4>1. IsSeq(d.pending[s])
          BY <2>2 DEF CapiOK, CapiTyped
        <4>2. DOMAIN d.pending[s] = 1 .. Len(d.pending[s]) /\ Len(d.pending[s]) \in Nat
          BY <4>1, SeqFacts
        <4>3. IsFiniteSet(DOMAIN d.pending[s]) /\ B \in SUBSET DOMAIN d.pending[s]
          BY <4>2, FS_Interval DEF Bearing
        <4> QED BY <4>3, FS_Subset
      <3> HIDE DEF B, O
      <3>5. Cardinality(B) \in Nat /\ Cardinality(B) # 0 /\ Cardinality(O) = 0
        BY <3>1, <3>2, <3>4, FS_EmptySet, FS_CardinalityType
      <3> QED BY <3>3, <3>5
    <2>4. Places(d.pending) = {}
      BY <2>3, PlaceFacts
    <2>5. d.total = 0
      BY <2>2, <2>4, FS_EmptySet DEF CapiOK, Counted, TotalOf
    <2>6. d.total <= MaxArtifacts
      BY <2>5, CapiAssumption
    <2> QED BY <1>1, <2>6 DEF d
  <1>12. PICK n \in enough : EnforceBounds(c) = F[n]
    <2>1. enough \in SUBSET Nat
      OBVIOUS
    <2> HIDE DEF enough
    <2>2. \E n \in enough : \A m \in enough : n <= m
      BY <1>11, <2>1, Least
    <2> QED BY <1>2, <1>11, <2>2
  <1> QED BY <1>10, <1>12 DEF Right

\* The tokens of no read can go.
LEMMA InOrderOccurs ==
    ASSUME NEW order, IsSeq(order), NEW tokens, NEW x \in tokens
    PROVE  Cardinality(Occurs(InOrder(order, tokens), x)) = Cardinality(Occurs(order, x))
  <1> DEFINE kept == {i \in DOMAIN order : order[i] \in tokens}
             less == Picked(order, kept)
             old == Occurs(order, x)
             new == Occurs(less, x)
  <1>1. InOrder(order, tokens) = less
    BY DEF InOrder
  <1>2. PICK p \in Bijection(DOMAIN less, kept) : \A m \in DOMAIN less : less[m] = order[p[m]]
    <2>1. kept \in SUBSET DOMAIN order
      OBVIOUS
    <2> HIDE DEF kept
    <2> QED BY <2>1, PickedFacts
  <1> HIDE DEF less
  <1>3. /\ p \in [DOMAIN less -> kept]
        /\ \A a, b \in DOMAIN less : p[a] = p[b] => a = b
        /\ \A k \in kept : \E m \in DOMAIN less : p[m] = k
    BY <1>2, Fun_BijectionProperties
  <1> DEFINE f == [m \in new |-> p[m]]
  <1>4. f \in Bijection(new, old)
    <2>1. new \in SUBSET DOMAIN less
      BY DEF Occurs
    <2>2. \A m \in new : p[m] \in old
      BY <1>2, <1>3 DEF Occurs
    <2>3. \A k \in old : \E m \in new : p[m] = k
      <3> TAKE k \in old
      <3>1. k \in kept /\ order[k] = x
        BY DEF Occurs
      <3>2. PICK m \in DOMAIN less : p[m] = k
        BY <1>3, <3>1
      <3>3. m \in new
        BY <1>2, <3>1, <3>2 DEF Occurs
      <3> QED BY <3>2, <3>3
    <2> HIDE DEF new, old
    <2>4. f \in [new -> old]
      BY <2>2
    <2>5. \A a, b \in new : f[a] = f[b] => a = b
      BY <1>3, <2>1
    <2>6. \A k \in old : \E m \in new : f[m] = k
      BY <2>3
    <2> HIDE DEF f
    <2> QED BY <2>4, <2>5, <2>6, Fun_IsBij
  <1>5. ExistsBijection(old, new)
    <2> HIDE DEF old, new, f
    <2>1. ExistsBijection(new, old)
      BY <1>4 DEF ExistsBijection
    <2> QED BY <2>1, Fun_ExistsBijSymmetric
  <1>6. IsFiniteSet(old)
    BY OccursFacts
  <1>7. Cardinality(new) = Cardinality(old)
    <2> HIDE DEF old, new
    <2> QED BY <1>5, <1>6, FS_Bijection
  <1> QED BY <1>1, <1>7

LEMMA InOrderInLine ==
    ASSUME NEW q, \A s \in DOMAIN q : IsSeq(q[s]), NEW order, IsSeq(order), InLine(q, order),
           NEW tokens, \A s \in DOMAIN q : \A i \in DOMAIN q[s] : TokenOf(s, q[s][i]) \in tokens
    PROVE  IsSeq(InOrder(order, tokens)) /\ InLine(q, InOrder(order, tokens))
  <1> DEFINE less == InOrder(order, tokens)
  <1>1. IsSeq(less)
    <2> DEFINE kept == {i \in DOMAIN order : order[i] \in tokens}
    <2>1. less = Picked(order, kept) /\ kept \in SUBSET DOMAIN order
      BY DEF InOrder
    <2> HIDE DEF kept, less
    <2> QED BY <2>1, PickedFacts
  <1>2. ASSUME NEW s \in DOMAIN q, NEW x
        PROVE  Cardinality(Bearing(s, q[s], x)) <= Cardinality(Occurs(less, x))
    <2>1. CASE x \in tokens
      <3>1. Cardinality(Occurs(less, x)) = Cardinality(Occurs(order, x))
        BY <2>1, InOrderOccurs
      <3> QED BY <3>1 DEF InLine
    <2>2. CASE x \notin tokens
      <3>1. Bearing(s, q[s], x) = {}
        BY <2>2 DEF Bearing
      <3>2. Cardinality(Occurs(less, x)) \in Nat
        BY <1>1, OccursFacts
      <3>3. Cardinality(Bearing(s, q[s], x)) = 0
        BY <3>1, FS_EmptySet
      <3> QED BY <3>2, <3>3
    <2> QED BY <2>1, <2>2
  <1> HIDE DEF less
  <1>3. InLine(q, less)
    BY <1>2 DEF InLine
  <1> QED BY <1>1, <1>3 DEF less

LEMMA PruneWorks ==
    ASSUME NEW c, NEW h, CapiOK(c, h), NEW now
    PROVE  /\ CapiOK(Prune(c, now), h)
           /\ Prune(c, now).total <= MaxArtifacts
  <1> DEFINE recent == {place \in Places(c.pending) : ReadAt(c, place).ts + CapiWindow >= now}
             kept == KeepReads(c, recent)
             live == [kept EXCEPT !.pending = Keep(@, {s \in DOMAIN @ : @[s] # <<>>})]
             d == [live EXCEPT
                      !.order = InOrder(@, PendingReadTokens(live)),
                      !.candidates = Picked(@, {i \in DOMAIN @ :
                                                   @[i].value.prompt_ts + CapiWindow >= now})]
  <1>1. CapiOK(kept, h)
    BY KeepReadsWorks
  <1>2. Prune(c, now) = EnforceBounds(d)
    BY DEF Prune
  <1> HIDE DEF kept
  <1> DEFINE busy == {s \in DOMAIN kept.pending : kept.pending[s] # <<>>}
  <1>3. DOMAIN kept = CapiFields /\ \A s \in DOMAIN kept.pending : IsSeq(kept.pending[s])
    BY <1>1 DEF CapiOK, CapiTyped
  <1>4. /\ DOMAIN live = CapiFields
        /\ live.artifacts = kept.artifacts /\ live.lineage = kept.lineage
        /\ live.candidates = kept.candidates /\ live.order = kept.order
        /\ live.total = kept.total
        /\ live.pending = Keep(kept.pending, busy)
    BY <1>3 DEF CapiFields
  <1>5. \A s \in DOMAIN kept.pending : s \notin busy => kept.pending[s] = <<>>
    OBVIOUS
  <1> HIDE DEF live, busy
  <1>6. Thinned(live.pending, kept.pending, Places(kept.pending))
    <2>1. Thinned(Keep(kept.pending, busy), kept.pending, Places(kept.pending))
      BY <1>3, <1>5, SomeQueuesThinned
    <2> QED BY <1>4, <2>1
  <1>7. CapiOK(live, h)
    <2>1. /\ IsSeq(kept.order) /\ InLine(kept.pending, kept.order)
          /\ kept.total = Cardinality(Places(kept.pending))
      BY <1>1 DEF CapiOK, CapiTyped, Counted, TotalOf
    <2>2. InLine(live.pending, live.order)
      BY <1>3, <1>4, <1>6, <2>1, InLineThinned
    <2>3. live.total = Cardinality(Places(kept.pending)) /\ IsSeq(live.order)
      BY <1>4, <2>1
    <2>4. Places(kept.pending) \in SUBSET Places(kept.pending)
      OBVIOUS
    <2> QED BY <1>1, <1>4, <1>6, <2>2, <2>3, <2>4, CapiThinned
  <1> DEFINE fresh == {i \in DOMAIN live.candidates :
                          live.candidates[i].value.prompt_ts + CapiWindow >= now}
  <1>8. /\ DOMAIN d = CapiFields
        /\ d.artifacts = live.artifacts /\ d.lineage = live.lineage
        /\ d.candidates = Picked(live.candidates, fresh)
        /\ d.order = InOrder(live.order, PendingReadTokens(live))
        /\ d.total = live.total /\ d.pending = live.pending
    BY <1>4 DEF CapiFields
  <1>9. fresh \in SUBSET DOMAIN live.candidates
    OBVIOUS
  <1> HIDE DEF d, fresh
  <1>10. /\ IsSeq(live.candidates) /\ Len(live.candidates) <= MaxArtifacts
         /\ IsSeq(live.order) /\ InLine(live.pending, live.order)
         /\ \A s \in DOMAIN live.pending : IsSeq(live.pending[s])
    BY <1>7 DEF CapiOK, CapiTyped, Counted
  <1>11. /\ IsSeq(d.candidates) /\ Len(d.candidates) <= MaxArtifacts
         /\ \A m \in DOMAIN d.candidates : \E i \in DOMAIN live.candidates :
               d.candidates[m] = live.candidates[i]
    <2> DEFINE l == live.candidates
               r == Picked(l, fresh)
    <2>1. IsSeq(l) /\ fresh \in SUBSET DOMAIN l /\ Len(l) \in Nat /\ Len(l) <= MaxArtifacts
      BY <1>9, <1>10, SeqFacts
    <2> HIDE DEF l
    <2>2. /\ IsSeq(r) /\ Len(r) <= Len(l) /\ Len(r) \in Nat
          /\ \A m \in DOMAIN r : \E i \in fresh : r[m] = l[i]
      BY <2>1, PickedFacts
    <2>3. d.candidates = r
      BY <1>8 DEF l
    <2> HIDE DEF r
    <2>4. Len(r) <= MaxArtifacts
      BY <2>1, <2>2, CapiAssumption
    <2>5. \A m \in DOMAIN r : \E i \in DOMAIN l : r[m] = l[i]
      BY <2>1, <2>2
    <2> QED BY <2>2, <2>3, <2>4, <2>5 DEF l
  <1>12. IsSeq(d.order) /\ InLine(d.pending, d.order)
    <2>1. \A s \in DOMAIN live.pending : \A i \in DOMAIN live.pending[s] :
             TokenOf(s, live.pending[s][i]) \in PendingReadTokens(live)
      BY DEF PendingReadTokens
    <2>2. /\ IsSeq(InOrder(live.order, PendingReadTokens(live)))
          /\ InLine(live.pending, InOrder(live.order, PendingReadTokens(live)))
      BY <1>10, <2>1, InOrderInLine
    <2> QED BY <1>8, <2>2
  <1>13. CapiTyped(d)
    BY <1>7, <1>8, <1>11, <1>12 DEF CapiOK, CapiTyped
  <1>14. Traced(d, h)
    BY <1>7, <1>8, <1>11 DEF CapiOK, Traced, LineageTells, ReadsTell, CandidatesTell
  <1>15. Counted(d)
    BY <1>7, <1>8, <1>12 DEF CapiOK, Counted
  <1> QED BY <1>2, <1>13, <1>14, <1>15, EnforceWorks DEF CapiOK

-----------------------------------------------------------------------------
(* observe_file_event.                                                     *)

LEMMA AppendOccurs ==
    ASSUME NEW order, IsSeq(order), NEW x, NEW y
    PROVE  Cardinality(Occurs(Append(order, x), y))
              = Cardinality(Occurs(order, y)) + (IF x = y THEN 1 ELSE 0)
  <1> DEFINE n == Len(order) + 1
             old == Occurs(order, y)
             new == Occurs(Append(order, x), y)
  <1>1. /\ n \in Nat /\ DOMAIN order = 1 .. n - 1 /\ DOMAIN Append(order, x) = 1 .. n
        /\ \A i \in DOMAIN order : Append(order, x)[i] = order[i]
        /\ Append(order, x)[n] = x
    BY SeqFacts, AppendFacts
  <1>2. n \notin old
    BY <1>1 DEF Occurs
  <1>3. new = IF x = y THEN old \cup {n} ELSE old
    BY <1>1 DEF Occurs
  <1>4. IsFiniteSet(old) /\ Cardinality(old) \in Nat
    BY OccursFacts
  <1> HIDE DEF old, new, n
  <1>5. Cardinality(new) = Cardinality(old) + (IF x = y THEN 1 ELSE 0)
    BY <1>2, <1>3, <1>4, FS_AddElement
  <1> QED BY <1>5 DEF old, new

LEMMA AppendBearing ==
    ASSUME NEW s, NEW reads, IsSeq(reads), NEW read, NEW y
    PROVE  /\ Cardinality(Bearing(s, Append(reads, read), y))
                 = Cardinality(Bearing(s, reads, y)) + (IF TokenOf(s, read) = y THEN 1 ELSE 0)
           /\ Cardinality(Bearing(s, reads, y)) \in Nat
  <1> DEFINE n == Len(reads) + 1
             old == Bearing(s, reads, y)
             new == Bearing(s, Append(reads, read), y)
  <1>1. /\ n \in Nat /\ DOMAIN reads = 1 .. n - 1 /\ DOMAIN Append(reads, read) = 1 .. n
        /\ \A i \in DOMAIN reads : Append(reads, read)[i] = reads[i]
        /\ Append(reads, read)[n] = read
    BY SeqFacts, AppendFacts
  <1>2. n \notin old
    BY <1>1 DEF Bearing
  <1>3. new = IF TokenOf(s, read) = y THEN old \cup {n} ELSE old
    BY <1>1 DEF Bearing
  <1>4. IsFiniteSet(old) /\ Cardinality(old) \in Nat
    <2>1. IsFiniteSet(DOMAIN reads) /\ old \in SUBSET DOMAIN reads
      BY <1>1, FS_Interval DEF Bearing
    <2> HIDE DEF old
    <2> QED BY <2>1, FS_Subset, FS_CardinalityType
  <1> HIDE DEF old, new, n
  <1>5. Cardinality(new) = Cardinality(old) + (IF TokenOf(s, read) = y THEN 1 ELSE 0)
    BY <1>2, <1>3, <1>4, FS_AddElement
  <1> QED BY <1>4, <1>5 DEF old, new

\* One more in the queue of s.
LEMMA AppendPlaces ==
    ASSUME NEW q, \A s \in DOMAIN q : IsSeq(q[s]), IsFiniteSet(Places(q)), NEW t, NEW x,
           NEW old, old = IF t \in DOMAIN q THEN q[t] ELSE <<>>
    PROVE  /\ IsFiniteSet(Places(Put(q, t, Append(old, x))))
           /\ TotalOf(Put(q, t, Append(old, x))) = TotalOf(q) + 1
           /\ TotalOf(q) \in Nat
  <1> DEFINE r == Put(q, t, Append(old, x))
             new == <<t, Len(old) + 1>>
  <1>1. IsSeq(old)
    <2>1. IsSeq(<<>>)
      BY DEF IsSeq
    <2> QED BY <2>1
  <1>2. /\ Len(old) \in Nat /\ DOMAIN old = 1 .. Len(old)
        /\ DOMAIN Append(old, x) = 1 .. Len(old) + 1
    BY <1>1, SeqFacts, AppendFacts
  <1>3. /\ DOMAIN r = DOMAIN q \cup {t} /\ r[t] = Append(old, x)
        /\ \A s \in DOMAIN q : s # t => r[s] = q[s]
    BY DEF Put
  <1> HIDE DEF r
  <1>4. new \notin Places(q)
    BY <1>2, PlaceFacts
  <1>5. ASSUME NEW y \in Places(r)
        PROVE  y \in Places(q) \cup {new}
    <2>1. PICK s \in DOMAIN r : \E i \in DOMAIN r[s] : y = <<s, i>>
      BY PlaceFacts
    <2>2. PICK i \in DOMAIN r[s] : y = <<s, i>>
      BY <2>1
    <2>3. CASE s = t
      <3>1. i \in 1 .. Len(old) + 1
        BY <1>2, <1>3, <2>3
      <3>2. CASE i = Len(old) + 1
        BY <2>2, <2>3, <3>2
      <3>3. CASE i \in DOMAIN old
        <4>1. t \in DOMAIN q /\ i \in DOMAIN q[t]
          BY <3>3
        <4> QED BY <2>2, <2>3, <4>1, PlaceFacts
      <3> QED BY <1>2, <3>1, <3>2, <3>3
    <2>4. CASE s # t
      BY <1>3, <2>2, <2>4, PlaceFacts
    <2> QED BY <2>3, <2>4
  <1>6. ASSUME NEW y \in Places(q) \cup {new}
        PROVE  y \in Places(r)
    <2>1. CASE y = new
      <3>1. t \in DOMAIN r /\ Len(old) + 1 \in DOMAIN r[t]
        BY <1>2, <1>3
      <3> QED BY <2>1, <3>1, PlaceFacts
    <2>2. CASE y \in Places(q)
      <3>1. PICK s \in DOMAIN q : \E i \in DOMAIN q[s] : y = <<s, i>>
        BY <2>2, PlaceFacts
      <3>2. PICK i \in DOMAIN q[s] : y = <<s, i>>
        BY <3>1
      <3>3. s \in DOMAIN r /\ i \in DOMAIN r[s]
        BY <1>2, <1>3, <3>2
      <3> QED BY <3>2, <3>3, PlaceFacts
    <2> QED BY <2>1, <2>2
  <1>7. Places(r) = Places(q) \cup {new}
    BY <1>5, <1>6
  <1>8. Cardinality(Places(q)) \in Nat
    BY FS_CardinalityType
  <1> HIDE DEF new
  <1>9. /\ IsFiniteSet(Places(r))
        /\ Cardinality(Places(r)) = Cardinality(Places(q)) + 1
    BY <1>4, <1>7, FS_AddElement
  <1> QED BY <1>8, <1>9 DEF TotalOf, r

\* The entry of a key that is there.
LEMMA ValueFacts ==
    ASSUME NEW list, NEW key \in KeysIn(list)
    PROVE  \E i \in DOMAIN list : list[i].key = key /\ ValueOf(list, key) = list[i].value
  <1>1. \E i \in DOMAIN list : list[i].key = key
    BY DEF KeysIn
  <1>2. IndexOf(list, key) \in DOMAIN list /\ list[IndexOf(list, key)].key = key
    BY <1>1 DEF IndexOf
  <1> QED BY <1>2 DEF ValueOf

\* What is noted of a file opened for writing, once it is processed as x.
NotedOf(c, file) ==
    IF file.writes
    THEN [c EXCEPT !.lineage = InsertYoungest(@, file.path,
                                   [session |-> file.session, ts |-> file.ts], MaxArtifacts)]
    ELSE c

IsOpenOf(x, file, content) ==
    /\ x.kind = "open" /\ x.session = file.session /\ x.path = file.path /\ x.ts = file.ts
    /\ x.writes = file.writes /\ x.reads = file.reads /\ x.content = content

LEMMA NotedWorks ==
    ASSUME NEW c, NEW h, IsSeq(h), CapiOK(c, h), NEW file, NEW content, NEW x,
           IsOpenOf(x, file, content)
    PROVE  /\ CapiOK(NotedOf(c, file), Append(h, x))
           /\ NotedOf(c, file).total = c.total
           /\ NotedOf(c, file).pending = c.pending
  <1> DEFINE g == Append(h, x)
             value == [session |-> file.session, ts |-> file.ts]
             lineage == InsertYoungest(c.lineage, file.path, value, MaxArtifacts)
             d == [c EXCEPT !.lineage = lineage]
  <1>1. CapiOK(c, g)
    BY TracedLater
  <1>2. CASE ~file.writes
    BY <1>1, <1>2 DEF NotedOf
  <1>3. CASE file.writes
    <2>1. NotedOf(c, file) = d
      BY <1>3 DEF NotedOf
    <2>2. DOMAIN c = CapiFields
      BY <1>1 DEF CapiOK, CapiTyped
    <2>9. value.session = file.session
      OBVIOUS
    <2> HIDE DEF value, lineage
    <2>3. /\ DOMAIN d = CapiFields /\ d.lineage = lineage
          /\ d.artifacts = c.artifacts /\ d.candidates = c.candidates /\ d.order = c.order
          /\ d.pending = c.pending /\ d.total = c.total
      BY <2>2 DEF CapiFields
    <2> HIDE DEF d
    <2>4. /\ IsSeq(lineage) /\ Len(lineage) <= MaxArtifacts
          /\ \A m \in DOMAIN lineage :
                \/ lineage[m] = [key |-> file.path, value |-> value]
                \/ \E i \in DOMAIN c.lineage : lineage[m] = c.lineage[i]
      <3>1. IsSeq(c.lineage) /\ Len(c.lineage) <= MaxArtifacts /\ MaxArtifacts \in Nat \ {0}
        BY <1>1, CapiAssumption DEF CapiOK, CapiTyped
      <3> QED BY <3>1, InsertFacts DEF lineage
    <2>5. Len(h) + 1 \in DOMAIN g /\ g[Len(h) + 1] = x
      <3>1. Len(h) \in Nat
        BY SeqFacts
      <3> QED BY <3>1, AppendFacts
    <2> HIDE DEF g
    <2>6. LineageTells(d, g)
      <3> SUFFICES ASSUME NEW m \in DOMAIN lineage
                   PROVE  \E w \in DOMAIN g :
                             Wrote(g, w, lineage[m].value.session, lineage[m].key)
        BY <2>3 DEF LineageTells
      <3>1. CASE lineage[m] = [key |-> file.path, value |-> value]
        <4>2. lineage[m].value = value /\ lineage[m].key = file.path
          BY <3>1
        <4>1. Wrote(g, Len(h) + 1, lineage[m].value.session, lineage[m].key)
          BY <1>3, <2>5, <2>9, <4>2 DEF Wrote, IsOpenOf
        <4> QED BY <2>5, <4>1
      <3>2. CASE \E i \in DOMAIN c.lineage : lineage[m] = c.lineage[i]
        BY <1>1, <3>2 DEF CapiOK, Traced, LineageTells
      <3> QED BY <2>4, <3>1, <3>2
    <2>7. Traced(d, g)
      BY <1>1, <2>3, <2>6 DEF CapiOK, Traced, ReadsTell, CandidatesTell
    <2>8. CapiTyped(d) /\ Counted(d)
      BY <1>1, <2>3, <2>4 DEF CapiOK, CapiTyped, Counted
    <2> QED BY <2>1, <2>3, <2>7, <2>8 DEF CapiOK, g
  <1> QED BY <1>2, <1>3

LEMMA FileWorks ==
    ASSUME NEW c, NEW h, IsSeq(h), CapiOK(c, h), c.total <= MaxArtifacts,
           NEW file, NEW content, IsText(content), NEW x, IsOpenOf(x, file, content),
           \A w \in DOMAIN h : h[w].kind = "open" => h[w].ts <= file.ts
    PROVE  /\ CapiOK(ObserveFileEvent(c, file, content), Append(h, x))
           /\ ObserveFileEvent(c, file, content).total <= MaxArtifacts
  <1> DEFINE g == Append(h, x)
             noted == NotedOf(c, file)
             writer == ValueOf(noted.lineage, file.path)
             artifact == ArtifactOf(writer.session, file.path, writer.ts, content)
             read == [artifact |-> artifact.id, path |-> file.path, ts |-> file.ts]
             old == ReadsOf(noted, file.session)
             token == TokenOf(file.session, read)
             d == [InsertArtifact(noted, artifact) EXCEPT
                      !.pending = Put(@, file.session, Append(old, read)),
                      !.order = Append(@, token),
                      !.total = @ + 1]
  <1>1. CapiOK(c, g)
    BY TracedLater
  <1>2. CapiOK(noted, g) /\ noted.total = c.total
    BY NotedWorks
  <1>3. \/ ObserveFileEvent(c, file, content) \in {c, noted}
        \/ /\ ObserveFileEvent(c, file, content) = EnforceBounds(d)
           /\ file.reads /\ file.path \in KeysIn(noted.lineage) /\ writer.session # file.session
    BY DEF ObserveFileEvent, NotedOf
  <1>4. ASSUME file.reads, file.path \in KeysIn(noted.lineage), writer.session # file.session
        PROVE  CapiOK(d, g)
    <2> HIDE DEF noted
    <2>1. /\ Len(h) \in Nat /\ DOMAIN h = 1 .. Len(h) /\ DOMAIN g = 1 .. Len(h) + 1
          /\ g[Len(h) + 1] = x /\ \A w \in DOMAIN h : g[w] = h[w]
      BY SeqFacts, AppendFacts
    <2> HIDE DEF g
    <2>2. PICK w \in DOMAIN g : Wrote(g, w, writer.session, file.path)
      <3>1. PICK i \in DOMAIN noted.lineage :
               noted.lineage[i].key = file.path /\ writer = noted.lineage[i].value
        BY <1>4, ValueFacts
      <3> HIDE DEF writer
      <3>2. LineageTells(noted, g)
        BY <1>2 DEF CapiOK, Traced
      <3>3. \E w \in DOMAIN g :
               Wrote(g, w, noted.lineage[i].value.session, noted.lineage[i].key)
        BY <3>1, <3>2 DEF LineageTells
      <3> QED BY <3>1, <3>3
    <2>3. w \in DOMAIN h /\ g[w].ts <= file.ts
      <3>1. w # Len(h) + 1
        BY <1>4, <2>1, <2>2 DEF Wrote, IsOpenOf
      <3>2. w \in DOMAIN h /\ g[w] = h[w]
        BY <2>1, <3>1
      <3> QED BY <2>2, <3>2 DEF Wrote
    <2>4. /\ artifact.id = <<writer.session, file.path, Norm(content)>>
          /\ artifact.session = writer.session /\ artifact.path = file.path
          /\ artifact.text = content
      BY DEF ArtifactOf
    <2> HIDE DEF artifact, writer
    <2>5. /\ artifact.id[1] = writer.session /\ artifact.id[2] = file.path
          /\ artifact.id[3] = Norm(content)
      BY <2>4
    <2>6. read.artifact = artifact.id /\ read.ts = file.ts
      OBVIOUS
    <2> HIDE DEF read
    <2>7. Travelled(g, read.artifact, file.session, read.ts)
      <3>1. HasRead(g, Len(h) + 1, artifact.id, file.session)
        BY <1>4, <2>1, <2>5 DEF HasRead, IsOpenOf
      <3>2. Wrote(g, w, artifact.id[1], artifact.id[2])
        BY <2>2, <2>5
      <3>3. g[Len(h) + 1].ts = file.ts /\ Len(h) + 1 \in DOMAIN g
        BY <2>1 DEF IsOpenOf
      <3>4. artifact.id[1] # file.session
        BY <1>4, <2>5
      <3> QED BY <2>3, <2>6, <3>1, <3>2, <3>3, <3>4 DEF Travelled
    <2> DEFINE artifacts == InsertYoungest(noted.artifacts, artifact.id, artifact, MaxArtifacts)
               reads == Put(noted.pending, file.session, Append(old, read))
    <2>8. DOMAIN noted = CapiFields
      BY <1>2 DEF CapiOK, CapiTyped
    <2> HIDE DEF old, token
    <2>9. /\ DOMAIN d = CapiFields
          /\ d.artifacts = artifacts /\ d.lineage = noted.lineage
          /\ d.candidates = noted.candidates /\ d.order = Append(noted.order, token)
          /\ d.pending = reads /\ d.total = noted.total + 1
      BY <2>8 DEF CapiFields, InsertArtifact
    <2> HIDE DEF d, artifacts
    <2>10. /\ IsSeq(artifacts) /\ Len(artifacts) <= MaxArtifacts
           /\ \A m \in DOMAIN artifacts :
                 \/ artifacts[m] = [key |-> artifact.id, value |-> artifact]
                 \/ \E i \in DOMAIN noted.artifacts : artifacts[m] = noted.artifacts[i]
      <3>1. IsSeq(noted.artifacts) /\ Len(noted.artifacts) <= MaxArtifacts
            /\ MaxArtifacts \in Nat \ {0}
        BY <1>2, CapiAssumption DEF CapiOK, CapiTyped
      <3> QED BY <3>1, InsertFacts DEF artifacts
    <2>11. \A m \in DOMAIN artifacts : ArtifactIs(artifacts[m])
      <3> TAKE m \in DOMAIN artifacts
      <3>1. CASE artifacts[m] = [key |-> artifact.id, value |-> artifact]
        BY <2>4, <3>1 DEF ArtifactIs
      <3>2. CASE \E i \in DOMAIN noted.artifacts : artifacts[m] = noted.artifacts[i]
        BY <1>2, <3>2 DEF CapiOK, Traced
      <3> QED BY <2>10, <3>1, <3>2
    <2>12. /\ \A s \in DOMAIN noted.pending : IsSeq(noted.pending[s])
           /\ IsSeq(noted.order) /\ IsFiniteSet(Places(noted.pending))
           /\ noted.total = TotalOf(noted.pending) /\ InLine(noted.pending, noted.order)
      BY <1>2 DEF CapiOK, CapiTyped, Counted
    <2>13. old = IF file.session \in DOMAIN noted.pending THEN noted.pending[file.session] ELSE <<>>
      BY DEF old, ReadsOf
    <2>14. IsSeq(old)
      <3>1. IsSeq(<<>>)
        BY DEF IsSeq
      <3> QED BY <2>12, <2>13, <3>1
    <2>15. /\ DOMAIN reads = DOMAIN noted.pending \cup {file.session}
           /\ reads[file.session] = Append(old, read)
           /\ \A s \in DOMAIN noted.pending : s # file.session => reads[s] = noted.pending[s]
      BY DEF Put
    <2>16. IsFiniteSet(Places(reads)) /\ TotalOf(reads) = TotalOf(noted.pending) + 1
      <3> DEFINE q == noted.pending
                 t == file.session
      <3>1. /\ \A s \in DOMAIN q : IsSeq(q[s])
            /\ IsFiniteSet(Places(q))
            /\ old = IF t \in DOMAIN q THEN q[t] ELSE <<>>
            /\ reads = Put(q, t, Append(old, read))
        BY <2>12, <2>13
      <3> HIDE DEF q, t, reads
      <3>2. IsFiniteSet(Places(reads)) /\ TotalOf(reads) = TotalOf(q) + 1
        BY <3>1, AppendPlaces
      <3> QED BY <3>2 DEF q
    <2> HIDE DEF reads
    <2>17. IsSeq(Append(old, read)) /\ IsSeq(Append(noted.order, token))
      BY <2>12, <2>14, AppendFacts
    <2>18. CapiTyped(d)
      BY <1>2, <2>9, <2>10, <2>15, <2>17 DEF CapiOK, CapiTyped
    <2>19. ReadsTell(d, g)
      <3> SUFFICES ASSUME NEW s \in DOMAIN reads, NEW i \in DOMAIN reads[s]
                   PROVE  Travelled(g, reads[s][i].artifact, s, reads[s][i].ts)
        BY <2>9 DEF ReadsTell
      <3>1. ReadsTell(noted, g)
        BY <1>2 DEF CapiOK, Traced
      <3>2. CASE s = file.session
        <4>1. /\ Len(old) \in Nat /\ DOMAIN old = 1 .. Len(old)
              /\ DOMAIN Append(old, read) = 1 .. Len(old) + 1
              /\ \A j \in DOMAIN old : Append(old, read)[j] = old[j]
              /\ Append(old, read)[Len(old) + 1] = read
          BY <2>14, SeqFacts, AppendFacts
        <4>2. CASE i = Len(old) + 1
          BY <2>7, <2>15, <3>2, <4>1, <4>2
        <4>3. CASE i \in DOMAIN old
          <5>1. reads[s][i] = old[i]
            BY <2>15, <3>2, <4>1, <4>3
          <5>2. s \in DOMAIN noted.pending /\ old = noted.pending[s]
            BY <2>13, <3>2, <4>3
          <5> QED BY <3>1, <4>3, <5>1, <5>2 DEF ReadsTell
        <4>4. i \in 1 .. Len(old) + 1
          BY <2>15, <3>2, <4>1
        <4> QED BY <4>1, <4>2, <4>3, <4>4
      <3>3. CASE s # file.session
        BY <2>15, <3>1, <3>3 DEF ReadsTell
      <3> QED BY <3>2, <3>3
    <2>20. Traced(d, g)
      BY <1>2, <2>9, <2>11, <2>19 DEF CapiOK, Traced, LineageTells, CandidatesTell
    <2>21. InLine(reads, d.order)
      <3> SUFFICES ASSUME NEW s \in DOMAIN reads, NEW y
                   PROVE  Cardinality(Bearing(s, reads[s], y)) <= Cardinality(Occurs(d.order, y))
        BY DEF InLine
      <3> DEFINE O == Cardinality(Occurs(noted.order, y))
                 B == Cardinality(Bearing(s, old, y))
      <3>1. Cardinality(Occurs(d.order, y)) = O + (IF token = y THEN 1 ELSE 0) /\ O \in Nat
        BY <2>9, <2>12, AppendOccurs, OccursFacts
      <3>2. CASE s = file.session
        <4>1. /\ Cardinality(Bearing(s, reads[s], y)) = B + (IF token = y THEN 1 ELSE 0)
              /\ B \in Nat
          <5>1. reads[s] = Append(old, read) /\ token = TokenOf(s, read)
            BY <2>15, <3>2 DEF token
          <5> HIDE DEF token
          <5>2. /\ Cardinality(Bearing(s, Append(old, read), y))
                      = B + (IF TokenOf(s, read) = y THEN 1 ELSE 0)
                /\ B \in Nat
            BY <2>14, AppendBearing
          <5> QED BY <5>1, <5>2
        <4>2. B <= O
          <5>1. CASE s \in DOMAIN noted.pending
            BY <2>12, <2>13, <3>2, <5>1 DEF InLine
          <5>2. CASE s \notin DOMAIN noted.pending
            <6>1. old = <<>>
              BY <2>13, <3>2, <5>2
            <6>2. Bearing(s, old, y) = {}
              BY <6>1 DEF Bearing
            <6>3. B = 0
              BY <6>2, FS_EmptySet
            <6> QED BY <3>1, <6>3
          <5> QED BY <5>1, <5>2
        <4> HIDE DEF O, B
        <4> QED BY <3>1, <4>1, <4>2
      <3>3. CASE s # file.session
        <4>1. s \in DOMAIN noted.pending /\ reads[s] = noted.pending[s]
          BY <2>15, <3>3
        <4>2. Cardinality(Bearing(s, reads[s], y)) <= O
          BY <2>12, <4>1 DEF InLine
        <4>3. Cardinality(Bearing(s, reads[s], y)) \in Nat
          BY <2>12, <4>1, AppendBearing
        <4> HIDE DEF O
        <4> QED BY <3>1, <4>2, <4>3
      <3> QED BY <3>2, <3>3
    <2>22. Counted(d)
      BY <2>9, <2>12, <2>16, <2>21 DEF Counted
    <2> QED BY <2>18, <2>20, <2>22 DEF CapiOK
  <1> HIDE DEF d, g, noted, writer
  <1>5. CASE ObserveFileEvent(c, file, content) \in {c, noted}
    BY <1>1, <1>2, <1>5 DEF g
  <1>6. CASE /\ ObserveFileEvent(c, file, content) = EnforceBounds(d)
             /\ file.reads /\ file.path \in KeysIn(noted.lineage) /\ writer.session # file.session
    BY <1>4, <1>6, EnforceWorks DEF g
  <1> QED BY <1>3, <1>5, <1>6

-----------------------------------------------------------------------------
(* observe_prompt.                                                         *)

LEMMA PromptIdFacts ==
    ASSUME NEW prompt
    PROVE  /\ PromptId(prompt)[1] = prompt.session /\ PromptId(prompt)[3] = prompt.ts
           /\ PromptId(prompt)[4] = Norm(prompt.text)
  BY DEF PromptId

LEMMA MeetWorks ==
    ASSUME NEW c, NEW h, CapiOK(c, h), NEW read, NEW prompt, IsText(prompt.text),
           \E p \in DOMAIN h : HasSaid(h, p, PromptId(prompt)),
           Travelled(h, read.artifact, prompt.session, read.ts), read.ts <= prompt.ts
    PROVE  CapiOK(Meet(c, read, prompt), h) /\ Meet(c, read, prompt).total = c.total
  <1> DEFINE artifact == ValueOf(c.artifacts, read.artifact)
             templates == ObserveTemplate(c.templates, artifact, prompt)
             candidate == Candidate(artifact, prompt, read)
             seen1 == [c EXCEPT !.templates = templates]
             met == [seen1 EXCEPT !.candidates =
                        InsertYoungest(@, candidate.key, candidate.value, MaxArtifacts)]
  <1>1. DOMAIN c = CapiFields
    BY DEF CapiOK, CapiTyped
  <1>2. \/ Meet(c, read, prompt) \in {c, seen1}
        \/ /\ Meet(c, read, prompt) = met
           /\ read.artifact \in KeysIn(c.artifacts) /\ candidate.value.tier # "none"
    BY DEF Meet
  <1> HIDE DEF templates
  <1>3. CapiOK(seen1, h) /\ seen1.total = c.total
    <2>1. /\ DOMAIN seen1 = CapiFields
          /\ seen1.artifacts = c.artifacts /\ seen1.lineage = c.lineage
          /\ seen1.candidates = c.candidates /\ seen1.order = c.order
          /\ seen1.pending = c.pending /\ seen1.total = c.total
      BY <1>1 DEF CapiFields
    <2> HIDE DEF seen1
    <2> QED BY <2>1 DEF CapiOK, CapiTyped, Traced, LineageTells, ReadsTell, CandidatesTell, Counted
  <1>4. ASSUME read.artifact \in KeysIn(c.artifacts), candidate.value.tier # "none"
        PROVE  CapiOK(met, h) /\ met.total = c.total
    <2>1. PICK i \in DOMAIN c.artifacts :
             c.artifacts[i].key = read.artifact /\ artifact = c.artifacts[i].value
      BY <1>4, ValueFacts
    <2> HIDE DEF artifact
    <2>2. ArtifactIs(c.artifacts[i])
      BY DEF CapiOK, Traced
    <2>3. /\ artifact.id = read.artifact /\ IsText(artifact.text)
          /\ artifact.id[3] = Norm(artifact.text)
      BY <2>1, <2>2 DEF ArtifactIs
    <2> DEFINE key == candidate.key
               value == candidate.value
               candidates == InsertYoungest(c.candidates, key, value, MaxArtifacts)
    <2>4. /\ key.artifact = artifact.id /\ key.prompt = PromptId(prompt)
          /\ value.session = prompt.session
          /\ value.tier = MatchScore(artifact.text, prompt.text).tier
          /\ value.score = MatchScore(artifact.text, prompt.text).score
      BY DEF Candidate
    <2>5. value.tier # "none"
      BY <1>4
    <2>6. /\ DOMAIN met = CapiFields
          /\ met.artifacts = c.artifacts /\ met.lineage = c.lineage
          /\ met.candidates = candidates /\ met.order = c.order
          /\ met.pending = c.pending /\ met.total = c.total
      BY <1>1 DEF CapiFields
    <2> HIDE DEF key, value, candidates, met, candidate
    <2>7. /\ IsSeq(candidates) /\ Len(candidates) <= MaxArtifacts
          /\ \A m \in DOMAIN candidates :
                \/ candidates[m] = [key |-> key, value |-> value]
                \/ \E k \in DOMAIN c.candidates : candidates[m] = c.candidates[k]
      <3>1. IsSeq(c.candidates) /\ Len(c.candidates) <= MaxArtifacts /\ MaxArtifacts \in Nat \ {0}
        BY CapiAssumption DEF CapiOK, CapiTyped
      <3> QED BY <3>1, InsertFacts DEF candidates
    <2>8. value.score \in Int /\ Related(Norm(artifact.text), Norm(prompt.text))
      BY <2>3, <2>4, <2>5, MatchFacts
    <2>9. Prompted(h, key.artifact, key.prompt)
      <3> DEFINE id == artifact.id
                 said == PromptId(prompt)
      <3>1. id[3] = Norm(artifact.text) /\ id = read.artifact
        BY <2>3
      <3>2. said[1] = prompt.session /\ said[3] = prompt.ts /\ said[4] = Norm(prompt.text)
        BY PromptIdFacts
      <3>3. key.artifact = id /\ key.prompt = said
        BY <2>4
      <3>4. \E p \in DOMAIN h : HasSaid(h, p, said)
        OBVIOUS
      <3> HIDE DEF id, said
      <3>5. id[1] # said[1] /\ Related(id[3], said[4])
        BY <2>8, <3>1, <3>2 DEF Travelled
      <3>6. PICK w \in DOMAIN h, r \in DOMAIN h :
               /\ Wrote(h, w, id[1], id[2]) /\ HasRead(h, r, id, said[1])
               /\ h[w].ts <= h[r].ts /\ h[r].ts = read.ts
        BY <3>1, <3>2 DEF Travelled
      <3>7. h[r].ts <= said[3]
        BY <3>2, <3>6
      <3>8. Prompted(h, id, said)
        BY <3>4, <3>5, <3>6, <3>7 DEF Prompted
      <3> QED BY <3>3, <3>8
    <2>10. CandidatesTell(met, h)
      <3> SUFFICES ASSUME NEW m \in DOMAIN candidates
                   PROVE  /\ candidates[m].value.score \in Int
                          /\ candidates[m].value.session = candidates[m].key.prompt[1]
                          /\ Prompted(h, candidates[m].key.artifact, candidates[m].key.prompt)
        BY <2>6 DEF CandidatesTell
      <3>1. CASE candidates[m] = [key |-> key, value |-> value]
        <4>1. candidates[m].key = key /\ candidates[m].value = value
          BY <3>1
        <4>2. value.session = key.prompt[1]
          BY <2>4, PromptIdFacts
        <4> QED BY <2>8, <2>9, <4>1, <4>2
      <3>2. CASE \E k \in DOMAIN c.candidates : candidates[m] = c.candidates[k]
        BY <3>2 DEF CapiOK, Traced, CandidatesTell
      <3> QED BY <2>7, <3>1, <3>2
    <2>11. CapiTyped(met)
      BY <2>6, <2>7 DEF CapiOK, CapiTyped
    <2>12. Traced(met, h) /\ Counted(met)
      BY <2>6, <2>10 DEF CapiOK, Traced, LineageTells, ReadsTell, Counted
    <2> QED BY <2>6, <2>11, <2>12 DEF CapiOK
  <1> HIDE DEF met, seen1, candidate
  <1> QED BY <1>2, <1>3, <1>4

LEMMA MeetAllWorks ==
    ASSUME NEW c, NEW h, CapiOK(c, h), NEW reads, IsSeq(reads), NEW prompt, IsText(prompt.text),
           \E p \in DOMAIN h : HasSaid(h, p, PromptId(prompt)),
           \A i \in DOMAIN reads : /\ Travelled(h, reads[i].artifact, prompt.session, reads[i].ts)
                                   /\ reads[i].ts <= prompt.ts
    PROVE  CapiOK(MeetAll(c, reads, prompt), h) /\ MeetAll(c, reads, prompt).total = c.total
  <1> DEFINE N == Len(reads)
             More(d, n) == Meet(d, reads[n], prompt)
             Grows(f, n) == f = [i \in 0 .. n |-> IF i = 0 THEN c ELSE More(f[i - 1], i)]
             F == CHOOSE f : Grows(f, N)
             Right(n) == CapiOK(F[n], h) /\ F[n].total = c.total
  <1>1. N \in Nat /\ DOMAIN reads = 1 .. N
    BY SeqFacts
  <1>2. MeetAll(c, reads, prompt) = F[N]
    BY DEF MeetAll
  <1>3. ASSUME NEW d, NEW i \in 1 .. N, CapiOK(d, h), d.total = c.total
        PROVE  CapiOK(More(d, i), h) /\ More(d, i).total = c.total
    <2>1. /\ Travelled(h, reads[i].artifact, prompt.session, reads[i].ts)
          /\ reads[i].ts <= prompt.ts
      BY <1>1
    <2> DEFINE read == reads[i]
    <2>2. Travelled(h, read.artifact, prompt.session, read.ts) /\ read.ts <= prompt.ts
      BY <2>1
    <2> HIDE DEF read
    <2>3. CapiOK(Meet(d, read, prompt), h) /\ Meet(d, read, prompt).total = d.total
      BY <1>3, <2>2, MeetWorks
    <2> QED BY <1>3, <2>3 DEF read
  <1> HIDE DEF N
  <1> HIDE DEF More
  <1>4. \E f : Grows(f, N)
    <2> DEFINE Missing == {n \in 0 .. N : ~\E f : Grows(f, n)}
    <2>1. ASSUME Missing # {}
          PROVE  FALSE
      <3>1. PICK n \in Missing : \A k \in Missing : n <= k
        <4>1. Missing \in SUBSET Nat
          OBVIOUS
        <4> HIDE DEF Missing
        <4> QED BY <2>1, <4>1, Least
      <3>2. n \in 0 .. N /\ ~\E f : Grows(f, n)
        BY <3>1
      <3>3. n # 0
        <4>1. Grows([i \in 0 .. 0 |-> c], 0)
          OBVIOUS
        <4> QED BY <3>2, <4>1
      <3>4. PICK f : Grows(f, n - 1)
        <4>1. n - 1 \in 0 .. N /\ n - 1 \notin Missing
          <5> HIDE DEF Missing
          <5> QED BY <1>1, <3>1, <3>2, <3>3
        <4> QED BY <4>1, Zenon
      <3> DEFINE g == [i \in 0 .. n |-> IF i = n THEN More(f[n - 1], n) ELSE f[i]]
      <3>5. Grows(g, n)
        BY <3>2, <3>3, <3>4
      <3> QED BY <3>2, <3>5
    <2>2. N \in 0 .. N
      BY <1>1
    <2> HIDE DEF Grows
    <2> QED BY <2>1, <2>2
  <1>5. Grows(F, N)
    BY <1>4, Zenon
  <1> HIDE DEF F
  <1>6. F[0] = c /\ \A i \in 1 .. N : F[i] = More(F[i - 1], i)
    BY <1>1, <1>5
  <1>7. Right(0)
    BY <1>1, <1>6
  <1>8. \A i \in 1 .. N : Right(i - 1) => Right(i)
    BY <1>3, <1>6
  <1> DEFINE Wrong == {i \in 0 .. N : ~Right(i)}
  <1> HIDE DEF Right
  <1>9. Wrong = {}
    <2>1. SUFFICES ASSUME Wrong # {}
                   PROVE  FALSE
      OBVIOUS
    <2>2. PICK i \in Wrong : \A j \in Wrong : i <= j
      <3>1. Wrong \in SUBSET Nat
        OBVIOUS
      <3> HIDE DEF Wrong
      <3> QED BY <2>1, <3>1, Least
    <2> QED BY <1>1, <1>7, <1>8, <2>2
  <1>10. \A i \in 0 .. N : Right(i)
    BY <1>9
  <1> QED BY <1>1, <1>2, <1>10 DEF Right

\* The reads a prompt meets are not younger than it.
LEMMA ObservePromptWorks ==
    ASSUME NEW c, NEW h, CapiOK(c, h), NEW prompt, IsText(prompt.text),
           \E p \in DOMAIN h : HasSaid(h, p, PromptId(prompt))
    PROVE  /\ CapiOK(ObservePrompt(c, prompt), h)
           /\ ObservePrompt(c, prompt).total <= MaxArtifacts
  <1> DEFINE d == Prune(c, prompt.ts)
             kept == {place \in Places(d.pending) :
                         place[1] # prompt.session \/ Before(ReadAt(d, place), prompt)}
             e == KeepReads(d, kept)
             reads == ReadsOf(e, prompt.session)
  <1>1. CapiOK(d, h) /\ d.total <= MaxArtifacts
    BY PruneWorks
  <1>2. InTime(c, prompt) = e
    BY DEF InTime, KeepReadsBefore
  <1>3. ObservePrompt(c, prompt) = MeetAll(e, reads, prompt)
    BY <1>2 DEF ObservePrompt
  <1> HIDE DEF d
  <1>4. \A s, i : <<s, i>> \in kept /\ s = prompt.session => d.pending[s][i].ts <= prompt.ts
    BY DEF Before, ReadAt
  <1> HIDE DEF kept, e
  <1>5. /\ CapiOK(e, h) /\ e.total <= d.total /\ e.total \in Nat /\ d.total \in Nat
        /\ \A s \in DOMAIN e.pending : \A i \in DOMAIN e.pending[s] :
              \E k \in KeptAt(d.pending, s, kept) : e.pending[s][i] = d.pending[s][k]
    BY <1>1, KeepReadsWorks DEF e
  <1>6. e.total <= MaxArtifacts
    BY <1>1, <1>5, CapiAssumption
  <1>7. ASSUME NEW i \in DOMAIN reads
        PROVE  /\ Travelled(h, reads[i].artifact, prompt.session, reads[i].ts)
               /\ reads[i].ts <= prompt.ts
    <2> DEFINE s == prompt.session
    <2>1. s \in DOMAIN e.pending /\ reads = e.pending[s]
      BY <1>7 DEF ReadsOf
    <2>2. Travelled(h, reads[i].artifact, s, reads[i].ts)
      BY <1>5, <2>1 DEF CapiOK, Traced, ReadsTell
    <2>3. PICK k \in KeptAt(d.pending, s, kept) : reads[i] = d.pending[s][k]
      BY <1>5, <2>1
    <2>4. <<s, k>> \in kept
      BY <2>3 DEF KeptAt
    <2> QED BY <1>4, <2>2, <2>3, <2>4
  <1>8. IsSeq(reads)
    <2>1. IsSeq(<<>>)
      BY DEF IsSeq
    <2> QED BY <1>5, <2>1 DEF ReadsOf, CapiOK, CapiTyped
  <1> HIDE DEF reads
  <1>9. CapiOK(MeetAll(e, reads, prompt), h) /\ MeetAll(e, reads, prompt).total = e.total
    BY <1>5, <1>7, <1>8, MeetAllWorks
  <1> QED BY <1>3, <1>6, <1>9

-----------------------------------------------------------------------------
(* The prompt store.                                                       *)

SessionsAgree(prompts1, sessions) ==
    /\ \A s \in DOMAIN sessions :
          /\ IsSeq(sessions[s]) /\ IsInjective(sessions[s])
          /\ Range(sessions[s]) = {id \in KeysIn(prompts1) : id[1] = s}
    /\ \A id \in KeysIn(prompts1) : id[1] \in DOMAIN sessions

IsPrompt(e) == e.key = PromptId(e.value) /\ e.value.ts \in Nat /\ IsText(e.value.text)

PromptsOK(p) ==
    /\ IsSeq(p.prompts) /\ Len(p.prompts) <= MaxPrompts
    /\ \A i \in DOMAIN p.prompts : IsPrompt(p.prompts[i])
    /\ SessionsAgree(p.prompts, p.sessions)

LEMMA SubSeqFacts ==
    ASSUME NEW s, IsSeq(s), NEW n \in 0 .. Len(s)
    PROVE  /\ Range(SubSeq(s, 1, n)) = {s[i] : i \in 1 .. n}
           /\ IsSeq(SubSeq(s, n + 1, Len(s)))
           /\ Range(SubSeq(s, n + 1, Len(s))) = {s[i] : i \in n + 1 .. Len(s)}
           /\ IsInjective(s) => IsInjective(SubSeq(s, n + 1, Len(s)))
  <1> DEFINE L == Len(s)
             a == SubSeq(s, 1, n)
             b == SubSeq(s, n + 1, L)
  <1>1. L \in Nat /\ DOMAIN s = 1 .. L /\ s \in Seq(Range(s))
    BY SeqFacts DEF IsSeq
  <1>2. a = [i \in 1 .. n |-> s[i]]
    BY <1>1
  <1>3. b = [i \in 1 .. L - n |-> s[i + n]]
    BY <1>1
  <1>4. DOMAIN a = 1 .. n /\ \A i \in 1 .. n : a[i] = s[i]
    BY <1>2
  <1>5. DOMAIN b = 1 .. L - n /\ \A i \in 1 .. L - n : b[i] = s[i + n]
    BY <1>3
  <1> HIDE DEF a, b
  <1>6. b = [i \in 1 .. L - n |-> b[i]] /\ L - n \in Nat
    BY <1>1, <1>3, <1>5
  <1>7. IsSeq(b)
    BY <1>6, SeqByIndex
  <1>8. Range(a) = {s[i] : i \in 1 .. n}
    BY <1>4 DEF Range
  <1>9. Range(b) = {s[i] : i \in n + 1 .. L}
    <2>1. \A x \in Range(b) : \E i \in n + 1 .. L : x = s[i]
      <3> TAKE x \in Range(b)
      <3>1. PICK i \in 1 .. L - n : x = b[i]
        BY <1>5 DEF Range
      <3>2. i + n \in n + 1 .. L /\ x = s[i + n]
        BY <1>1, <1>5, <3>1
      <3> QED BY <3>2
    <2>2. \A i \in n + 1 .. L : s[i] \in Range(b)
      <3> TAKE i \in n + 1 .. L
      <3>1. i - n \in 1 .. L - n /\ (i - n) + n = i
        BY <1>1
      <3>2. b[i - n] = s[i]
        BY <1>5, <3>1
      <3> QED BY <1>5, <3>1, <3>2 DEF Range
    <2> QED BY <2>1, <2>2
  <1>10. ASSUME IsInjective(s)
         PROVE  IsInjective(b)
    <2>1. \A i, j \in 1 .. L - n : b[i] = b[j] => i = j
      <3> TAKE i, j \in 1 .. L - n
      <3>1. i + n \in DOMAIN s /\ j + n \in DOMAIN s
        BY <1>1
      <3>2. s[i + n] = s[j + n] => i + n = j + n
        BY <1>10, <3>1 DEF IsInjective
      <3> QED BY <1>5, <3>2
    <2> QED BY <1>5, <2>1 DEF IsInjective
  <1> QED BY <1>7, <1>8, <1>9, <1>10 DEF a, b

LEMMA InOrderFacts ==
    ASSUME NEW order, IsSeq(order), NEW keep
    PROVE  /\ IsSeq(InOrder(order, keep))
           /\ Range(InOrder(order, keep)) = Range(order) \cap keep
           /\ IsInjective(order) => IsInjective(InOrder(order, keep))
  <1> DEFINE kept == {i \in DOMAIN order : order[i] \in keep}
             r == Picked(order, kept)
  <1>1. kept \in SUBSET DOMAIN order
    OBVIOUS
  <1>2. {order[i] : i \in kept} = Range(order) \cap keep
    BY DEF Range
  <1>3. InOrder(order, keep) = r
    BY DEF InOrder
  <1> HIDE DEF kept
  <1>4. /\ IsSeq(r) /\ Range(r) = {order[i] : i \in kept}
        /\ IsInjective(order) => IsInjective(r)
    BY <1>1, PickedFacts
  <1> QED BY <1>2, <1>3, <1>4

LEMMA EmptyFacts ==
    IsSeq(<<>>) /\ IsInjective(<<>>) /\ Range(<<>>) = {} /\ DOMAIN <<>> = {}
  <1>1. IsSeq(<<>>) /\ Range(<<>>) = {} /\ DOMAIN <<>> = {}
    BY DEF IsSeq, Range
  <1> QED BY <1>1 DEF IsInjective

\* The ids of a session, in an index that agrees.
LEMMA IdsFacts ==
    ASSUME NEW p, PromptsOK(p), NEW session
    PROVE  /\ IsSeq(IdsOf(p, session)) /\ IsInjective(IdsOf(p, session))
           /\ Range(IdsOf(p, session)) = {id \in KeysIn(p.prompts) : id[1] = session}
  <1>1. CASE session \in DOMAIN p.sessions
    BY <1>1 DEF IdsOf, PromptsOK, SessionsAgree
  <1>2. CASE session \notin DOMAIN p.sessions
    <2>1. {id \in KeysIn(p.prompts) : id[1] = session} = {}
      BY <1>2 DEF PromptsOK, SessionsAgree
    <2> QED BY <1>2, <2>1, EmptyFacts DEF IdsOf
  <1> QED BY <1>1, <1>2

LEMMA EvictSessionWorks ==
    ASSUME NEW p, PromptsOK(p), NEW session, NEW now
    PROVE  PromptsOK(EvictSession(p, session, now))
  <1> DEFINE ids == IdsOf(p, session)
             L == Len(ids)
             old(i) == ids[i] \in KeysIn(p.prompts) /\ PromptOf(p, ids[i]).ts + CapiWindow < now
             front == {i \in DOMAIN ids : \A j \in 1 .. i : old(j)}
             n == Cardinality(front)
             gone == Range(SubSeq(ids, 1, n))
             left == SubSeq(ids, n + 1, L)
             less == RemoveKeys(p.prompts, gone)
             named == Put(p.sessions, session, left)
  <1>1. /\ IsSeq(ids) /\ IsInjective(ids)
        /\ Range(ids) = {id \in KeysIn(p.prompts) : id[1] = session}
    BY IdsFacts
  <1>2. EvictSession(p, session, now) = IF n = 0 THEN p ELSE [prompts |-> less, sessions |-> named]
    BY DEF EvictSession
  <1>3. front \in SUBSET DOMAIN ids
    OBVIOUS
  <1> HIDE DEF front
  <1>4. L \in Nat /\ DOMAIN ids = 1 .. L /\ n \in 0 .. L
    <2>1. L \in Nat /\ DOMAIN ids = 1 .. L
      BY <1>1, SeqFacts
    <2> HIDE DEF L
    <2>2. IsFiniteSet(1 .. L) /\ Cardinality(1 .. L) = L
      BY <2>1, FS_Interval
    <2>3. IsFiniteSet(front) /\ Cardinality(front) <= L
      BY <1>3, <2>1, <2>2, FS_Subset
    <2>4. Cardinality(front) \in Nat
      BY <2>3, FS_CardinalityType
    <2> QED BY <2>1, <2>3, <2>4
  <1> HIDE DEF n, ids
  <1>5. CASE n = 0
    BY <1>2, <1>5
  <1>6. CASE n # 0
    <2>1. /\ gone = {ids[i] : i \in 1 .. n}
          /\ IsSeq(left) /\ Range(left) = {ids[i] : i \in n + 1 .. L} /\ IsInjective(left)
      BY <1>1, <1>4, SubSeqFacts
    <2> HIDE DEF left, gone
    <2>2. gone \subseteq Range(ids)
      BY <1>4, <2>1 DEF Range
    <2>3. Range(left) = Range(ids) \ gone
      <3>1. \A i \in n + 1 .. L : ids[i] \in Range(ids) /\ ids[i] \notin gone
        <4> TAKE i \in n + 1 .. L
        <4>1. i \in DOMAIN ids
          BY <1>4
        <4>2. \A j \in 1 .. n : ids[j] # ids[i]
          BY <1>1, <1>4, <4>1 DEF IsInjective
        <4> QED BY <2>1, <4>1, <4>2 DEF Range
      <3>2. \A x \in Range(ids) \ gone : x \in Range(left)
        <4> TAKE x \in Range(ids) \ gone
        <4>1. PICK i \in 1 .. L : x = ids[i]
          BY <1>4 DEF Range
        <4>2. i \notin 1 .. n
          BY <2>1, <4>1
        <4>3. i \in n + 1 .. L
          BY <1>4, <4>2
        <4> QED BY <2>1, <4>1, <4>3
      <3> QED BY <2>1, <3>1, <3>2
    <2>4. IsSeq(p.prompts) /\ Len(p.prompts) <= MaxPrompts
      BY DEF PromptsOK
    <2>5. /\ IsSeq(less) /\ Len(less) <= Len(p.prompts)
          /\ KeysIn(less) = KeysIn(p.prompts) \ gone
          /\ \A m \in DOMAIN less : \E i \in DOMAIN p.prompts : less[m] = p.prompts[i]
      BY <2>4, RemoveKeysFacts
    <2> HIDE DEF less
    <2>6. Len(less) <= MaxPrompts
      <3>1. Len(less) \in Nat /\ Len(p.prompts) \in Nat
        BY <2>4, <2>5, SeqFacts
      <3> QED BY <2>4, <2>5, <3>1, PromptAssumption
    <2>7. \A m \in DOMAIN less : IsPrompt(less[m])
      BY <2>5 DEF PromptsOK
    <2>8. /\ DOMAIN named = DOMAIN p.sessions \cup {session} /\ named[session] = left
          /\ \A s \in DOMAIN p.sessions : s # session => named[s] = p.sessions[s]
      BY DEF Put
    <2> HIDE DEF named
    <2>9. SessionsAgree(less, named)
      <3>1. ASSUME NEW s \in DOMAIN named
            PROVE  /\ IsSeq(named[s]) /\ IsInjective(named[s])
                   /\ Range(named[s]) = {id \in KeysIn(less) : id[1] = s}
        <4>1. CASE s = session
          BY <1>1, <2>1, <2>3, <2>5, <2>8, <4>1
        <4>2. CASE s # session
          <5>1. s \in DOMAIN p.sessions /\ named[s] = p.sessions[s]
            BY <2>8, <4>2
          <5>2. /\ IsSeq(named[s]) /\ IsInjective(named[s])
                /\ Range(named[s]) = {id \in KeysIn(p.prompts) : id[1] = s}
            BY <5>1 DEF PromptsOK, SessionsAgree
          <5>3. \A id \in gone : id[1] # s
            BY <1>1, <2>2, <4>2
          <5> QED BY <2>5, <5>2, <5>3
        <4> QED BY <4>1, <4>2
      <3>2. \A id \in KeysIn(less) : id[1] \in DOMAIN named
        BY <2>5, <2>8 DEF PromptsOK, SessionsAgree
      <3> QED BY <3>1, <3>2 DEF SessionsAgree
    <2> QED BY <1>2, <1>6, <2>5, <2>6, <2>7, <2>9 DEF PromptsOK
  <1> QED BY <1>5, <1>6

\* An index without some ids.
LEMMA RemoveEntriesWorks ==
    ASSUME NEW list, NEW keys, NEW named,
           \A s \in DOMAIN named :
               /\ IsSeq(named[s]) /\ IsInjective(named[s])
               /\ Range(named[s]) \ keys = {id \in KeysIn(list) : id[1] = s},
           \A id \in KeysIn(list) : id[1] \in DOMAIN named
    PROVE  SessionsAgree(list, RemoveSessionEntries(named, keys))
  <1> DEFINE left == [s \in DOMAIN named |-> InOrder(named[s], Range(named[s]) \ keys)]
             busy == {s \in DOMAIN left : left[s] # <<>>}
             r == Keep(left, busy)
  <1>1. r = RemoveSessionEntries(named, keys)
    BY DEF RemoveSessionEntries
  <1>2. DOMAIN left = DOMAIN named
        /\ \A s \in DOMAIN named : left[s] = InOrder(named[s], Range(named[s]) \ keys)
    OBVIOUS
  <1>3. \A s \in DOMAIN left : s \in busy <=> left[s] # <<>>
    OBVIOUS
  <1> HIDE DEF left, busy
  <1>4. ASSUME NEW s \in DOMAIN named
        PROVE  /\ IsSeq(left[s]) /\ IsInjective(left[s])
               /\ Range(left[s]) = {id \in KeysIn(list) : id[1] = s}
    <2>1. /\ IsSeq(left[s])
          /\ Range(left[s]) = Range(named[s]) \cap (Range(named[s]) \ keys)
          /\ IsInjective(named[s]) => IsInjective(left[s])
      <3>1. IsSeq(named[s]) /\ left[s] = InOrder(named[s], Range(named[s]) \ keys)
        BY <1>2
      <3>2. /\ IsSeq(InOrder(named[s], Range(named[s]) \ keys))
            /\ Range(InOrder(named[s], Range(named[s]) \ keys))
                  = Range(named[s]) \cap (Range(named[s]) \ keys)
            /\ IsInjective(named[s]) => IsInjective(InOrder(named[s], Range(named[s]) \ keys))
        BY <3>1, InOrderFacts
      <3> QED BY <3>1, <3>2
    <2>2. Range(left[s]) = Range(named[s]) \ keys
      BY <2>1
    <2> QED BY <2>1, <2>2
  <1>5. /\ DOMAIN r = DOMAIN left \cap busy
        /\ \A s \in DOMAIN r : s \in DOMAIN left /\ r[s] = left[s]
    BY KeepFacts
  <1> HIDE DEF r
  <1>6. \A s \in DOMAIN r : /\ IsSeq(r[s]) /\ IsInjective(r[s])
                            /\ Range(r[s]) = {id \in KeysIn(list) : id[1] = s}
    BY <1>2, <1>4, <1>5
  <1>7. ASSUME NEW id \in KeysIn(list)
        PROVE  id[1] \in DOMAIN r
    <2>1. id[1] \in DOMAIN named /\ id \in Range(left[id[1]])
      BY <1>4
    <2>2. left[id[1]] # <<>>
      BY <2>1, EmptyFacts
    <2> QED BY <1>2, <1>3, <1>5, <2>1, <2>2
  <1> QED BY <1>1, <1>6, <1>7 DEF SessionsAgree

LEMMA InsertPromptWorks ==
    ASSUME NEW p, PromptsOK(p), NEW input, input.ts \in Nat, IsText(input.text)
    PROVE  PromptsOK(InsertPrompt(p, input))
  <1> DEFINE id == PromptId(input)
             session == input.session
             list == InsertYoungest(p.prompts, id, input, MaxPrompts)
             ids == IdsOf(p, session)
             new == IF id \in Range(ids) THEN ids ELSE Append(ids, id)
             named == Put(p.sessions, session, new)
             gone == KeysIn(p.prompts) \ KeysIn(list)
             q == [prompts |-> list, sessions |-> RemoveSessionEntries(named, gone)]
  <1>1. InsertPrompt(p, input) = EvictSession(q, session, input.ts)
    BY DEF InsertPrompt
  <1>2. IsSeq(p.prompts) /\ Len(p.prompts) <= MaxPrompts /\ MaxPrompts \in Nat \ {0}
    BY PromptAssumption DEF PromptsOK
  <1>3. id[1] = session /\ IsPrompt([key |-> id, value |-> input])
    BY PromptIdFacts DEF IsPrompt
  <1>4. /\ IsSeq(ids) /\ IsInjective(ids)
        /\ Range(ids) = {x \in KeysIn(p.prompts) : x[1] = session}
    BY IdsFacts
  <1> HIDE DEF id, ids
  <1>5. /\ IsSeq(list) /\ Len(list) <= MaxPrompts
        /\ id \in KeysIn(list) /\ KeysIn(list) \subseteq KeysIn(p.prompts) \cup {id}
        /\ \A m \in DOMAIN list : \/ list[m] = [key |-> id, value |-> input]
                                  \/ \E i \in DOMAIN p.prompts : list[m] = p.prompts[i]
    BY <1>2, InsertFacts
  <1> HIDE DEF list, session
  <1>6. IsSeq(new) /\ IsInjective(new) /\ Range(new) = Range(ids) \cup {id}
    <2>1. CASE id \in Range(ids)
      BY <1>4, <2>1
    <2>2. CASE id \notin Range(ids)
      BY <1>4, <2>2, AppendFacts
    <2> QED BY <2>1, <2>2
  <1>7. /\ DOMAIN named = DOMAIN p.sessions \cup {session} /\ named[session] = new
        /\ \A s \in DOMAIN p.sessions : s # session => named[s] = p.sessions[s]
    BY DEF Put
  <1>8. \A x : x \in gone <=> x \in KeysIn(p.prompts) /\ x \notin KeysIn(list)
    OBVIOUS
  <1> HIDE DEF new, named, gone
  <1>9. ASSUME NEW s \in DOMAIN named
        PROVE  /\ IsSeq(named[s]) /\ IsInjective(named[s])
               /\ Range(named[s]) \ gone = {x \in KeysIn(list) : x[1] = s}
    <2>1. CASE s = session
      <3>1. Range(named[s]) = {x \in KeysIn(p.prompts) : x[1] = session} \cup {id}
        BY <1>4, <1>6, <1>7, <2>1
      <3>2. Range(named[s]) \ gone = {x \in KeysIn(list) : x[1] = s}
        BY <1>3, <1>5, <1>8, <2>1, <3>1
      <3> QED BY <1>6, <1>7, <2>1, <3>2
    <2>2. CASE s # session
      <3>1. /\ IsSeq(named[s]) /\ IsInjective(named[s])
            /\ Range(named[s]) = {x \in KeysIn(p.prompts) : x[1] = s}
        BY <1>7, <2>2 DEF PromptsOK, SessionsAgree
      <3>2. Range(named[s]) \ gone = {x \in KeysIn(list) : x[1] = s}
        BY <1>3, <1>5, <1>8, <2>2, <3>1
      <3> QED BY <3>1, <3>2
    <2> QED BY <2>1, <2>2
  <1>10. \A x \in KeysIn(list) : x[1] \in DOMAIN named
    BY <1>3, <1>5, <1>7 DEF PromptsOK, SessionsAgree
  <1>11. SessionsAgree(list, RemoveSessionEntries(named, gone))
    BY <1>9, <1>10, RemoveEntriesWorks
  <1>12. \A m \in DOMAIN list : IsPrompt(list[m])
    BY <1>3, <1>5 DEF PromptsOK
  <1>13. PromptsOK(q)
    BY <1>5, <1>11, <1>12 DEF PromptsOK
  <1> HIDE DEF q
  <1> QED BY <1>1, <1>13, EvictSessionWorks

LEMMA PromptOfFacts ==
    ASSUME NEW p, PromptsOK(p), NEW id \in KeysIn(p.prompts)
    PROVE  /\ PromptId(PromptOf(p, id)) = id /\ PromptOf(p, id).ts \in Nat
           /\ IsText(PromptOf(p, id).text)
  <1>1. PICK i \in DOMAIN p.prompts :
           p.prompts[i].key = id /\ ValueOf(p.prompts, id) = p.prompts[i].value
    BY ValueFacts
  <1>2. IsPrompt(p.prompts[i])
    BY DEF PromptsOK
  <1> QED BY <1>1, <1>2 DEF PromptOf, IsPrompt

\* A risky event is linked to a prompt of its own session.
LEMMA LinkWorks ==
    ASSUME NEW p, PromptsOK(p), NEW session, NEW ts \in Nat, NEW kind
    PROVE  \A j \in DOMAIN LinkRiskyEvent(p, session, ts, kind) :
              LinkRiskyEvent(p, session, ts, kind)[j][1] = session
  <1> DEFINE ids == KnownIds(p, session)
             near == {i \in DOMAIN ids : /\ PromptOf(p, ids[i]).ts <= ts
                                         /\ ts - PromptOf(p, ids[i]).ts <= RiskWindow[kind]}
             Beats(i, j) == \/ PromptOf(p, ids[j]).ts < PromptOf(p, ids[i]).ts
                            \/ PromptOf(p, ids[j]).ts = PromptOf(p, ids[i]).ts /\ j <= i
             last == CHOOSE i \in near : \A j \in near : Beats(i, j)
  <1>1. /\ IsSeq(ids)
        /\ Range(ids) = {id \in KeysIn(p.prompts) : id[1] = session} \cap KeysIn(p.prompts)
    BY IdsFacts, InOrderFacts DEF KnownIds
  <1>2. LinkRiskyEvent(p, session, ts, kind)
           = IF kind \notin DOMAIN RiskWindow \/ near = {} THEN <<>> ELSE <<ids[last]>>
    BY DEF LinkRiskyEvent
  <1> HIDE DEF ids
  <1>3. \A i \in DOMAIN ids : /\ ids[i] \in KeysIn(p.prompts) /\ ids[i][1] = session
                              /\ i \in Nat /\ i <= Len(ids) /\ Len(ids) \in Nat
    BY <1>1, SeqFacts DEF Range
  <1>4. \A i \in DOMAIN ids : PromptOf(p, ids[i]).ts \in Nat
    BY <1>3, PromptOfFacts
  <1>5. ASSUME near # {}
        PROVE  \E i \in near : \A j \in near : Beats(i, j)
    <2> DEFINE ages == {ts - PromptOf(p, ids[i]).ts : i \in near}
    <2>1. \A i \in near : /\ i \in DOMAIN ids /\ ts - PromptOf(p, ids[i]).ts \in Nat
                          /\ PromptOf(p, ids[i]).ts \in Nat
      BY <1>4
    <2> HIDE DEF near
    <2>2. ages \in SUBSET Nat /\ ages # {}
      BY <1>5, <2>1
    <2>3. PICK age \in ages : \A a \in ages : age <= a
      <3> HIDE DEF ages
      <3> QED BY <2>2, Least
    <2> DEFINE left == {Len(ids) - i : i \in {k \in near : ts - PromptOf(p, ids[k]).ts = age}}
    <2>4. left \in SUBSET Nat /\ left # {}
      BY <1>3, <2>1, <2>3
    <2>5. PICK l \in left : \A m \in left : l <= m
      <3> HIDE DEF left
      <3> QED BY <2>4, Least
    <2>6. PICK i \in near : ts - PromptOf(p, ids[i]).ts = age /\ l = Len(ids) - i
      BY <2>5
    <2>7. ASSUME NEW j \in near
          PROVE  Beats(i, j)
      <3>1. age <= ts - PromptOf(p, ids[j]).ts
        BY <2>3
      <3>2. CASE ts - PromptOf(p, ids[j]).ts = age
        <4> DEFINE L == Len(ids)
                   a == PromptOf(p, ids[i]).ts
                   b == PromptOf(p, ids[j]).ts
        <4>1. L - i <= L - j
          BY <2>5, <2>6, <3>2
        <4>2. L \in Nat /\ i \in Nat /\ j \in Nat /\ a \in Nat /\ b \in Nat
          BY <1>3, <2>1
        <4>3. ts - a = age /\ ts - b = age
          BY <2>6, <3>2
        <4> HIDE DEF L, a, b
        <4>4. j <= i /\ b = a
          BY <4>1, <4>2, <4>3
        <4> QED BY <4>4 DEF a, b
      <3>3. CASE ts - PromptOf(p, ids[j]).ts # age
        BY <2>1, <2>6, <3>1, <3>3, SMTT(30)
      <3> QED BY <3>2, <3>3
    <2> QED BY <2>7
  <1>6. near # {} => last \in near /\ last \in DOMAIN ids
    <2>1. near \subseteq DOMAIN ids
      OBVIOUS
    <2> HIDE DEF near, Beats
    <2> QED BY <1>5, <2>1
  <1> HIDE DEF near, last
  <1>7. \A x : DOMAIN <<x>> = {1} /\ <<x>>[1] = x
    OBVIOUS
  <1>8. CASE kind \notin DOMAIN RiskWindow \/ near = {}
    BY <1>2, <1>8, EmptyFacts
  <1>9. CASE ~(kind \notin DOMAIN RiskWindow \/ near = {})
    <2>1. LinkRiskyEvent(p, session, ts, kind) = <<ids[last]>> /\ ids[last][1] = session
      BY <1>2, <1>3, <1>6, <1>9
    <2> QED BY <1>7, <2>1
  <1> QED BY <1>8, <1>9

LEMMA EvidenceWorks ==
    ASSUME NEW p, PromptsOK(p), NEW session, NEW ts \in Nat, NEW kind
    PROVE  /\ PromptsOK(EvidenceForEvent(p, session, ts, kind).p)
           /\ \A j \in DOMAIN EvidenceForEvent(p, session, ts, kind).links :
                 EvidenceForEvent(p, session, ts, kind).links[j][1] = session
  <1> DEFINE kept == EvictSession(p, session, ts)
  <1>1. /\ EvidenceForEvent(p, session, ts, kind).p = kept
        /\ EvidenceForEvent(p, session, ts, kind).links = LinkRiskyEvent(kept, session, ts, kind)
    BY DEF EvidenceForEvent
  <1>2. PromptsOK(kept)
    BY EvictSessionWorks
  <1> HIDE DEF kept
  <1> QED BY <1>1, <1>2, LinkWorks

-----------------------------------------------------------------------------
(* chains_for_risky_event.                                                 *)

\* What ChainsArePropagated and ExcerptsAreMasked say of a chain.
ChainTells(h, chain) ==
    /\ chain.root # chain.downstream
    /\ \E w, r, p \in DOMAIN h :
          /\ h[w].kind = "open" /\ h[w].writes /\ h[w].session = chain.root
          /\ h[r].kind = "open" /\ h[r].reads /\ h[r].session = chain.downstream
          /\ h[w].path = chain.artifact.path /\ h[r].path = chain.artifact.path
          /\ h[p].kind = "say" /\ h[p].session = chain.downstream
          /\ h[w].ts <= h[r].ts /\ h[r].ts <= h[p].ts
          /\ h[p].ts <= chain.ts /\ chain.ts <= h[p].ts + CapiWindow
          /\ Resemble(h[r].content, h[p].text)

ChainMasked(chain) == \A words \in chain.excerpts : Range(words) \cap Secrets = {}

LEMMA ImageIsFinite ==
    ASSUME NEW S, IsFiniteSet(S), NEW f, DOMAIN f = S
    PROVE  IsFiniteSet(Range(f))
  <1> DEFINE g == [x \in S |-> f[x]]
  <1>1. g \in Surjection(S, Range(f))
    <2>1. g \in [S -> Range(f)]
      BY DEF Range
    <2>2. \A y \in Range(f) : \E x \in S : g[x] = y
      BY DEF Range
    <2> HIDE DEF g
    <2> QED BY <2>1, <2>2 DEF Surjection
  <1> HIDE DEF g
  <1> QED BY <1>1, FS_Surjection

\* A best match is a match of the session, there are finitely many, and none of
\* its prompt is better.
LEMMA BestFacts ==
    ASSUME NEW c, NEW h, CapiOK(c, h), NEW session
    PROVE  /\ IsFiniteSet(BestCandidates(c, session))
           /\ \A e \in BestCandidates(c, session) : \E i \in DOMAIN c.candidates :
                 e = c.candidates[i] /\ e.value.session = session
           /\ \A i \in DOMAIN c.candidates : c.candidates[i].value.session = session =>
                 \E e \in BestCandidates(c, session) :
                    /\ e.key.prompt = c.candidates[i].key.prompt
                    /\ c.candidates[i].value.score <= e.value.score
  <1> DEFINE mine == {i \in DOMAIN c.candidates : c.candidates[i].value.session = session}
             of(id) == {i \in mine : c.candidates[i].key.prompt = id}
             score(i) == c.candidates[i].value.score
             Best(id) == CHOOSE i \in of(id) : \A j \in of(id) : score(j) <= score(i)
             ids == {c.candidates[i].key.prompt : i \in mine}
             f == [id \in ids |-> c.candidates[Best(id)]]
  <1>1. BestCandidates(c, session) = Range(f)
    <2>1. Range(f) = {c.candidates[Best(id)] : id \in ids}
      BY DEF Range
    <2> QED BY <2>1 DEF BestCandidates
  <1>2. IsSeq(c.candidates) /\ \A i \in DOMAIN c.candidates : score(i) \in Int
    BY DEF CapiOK, CapiTyped, Traced, CandidatesTell
  <1>3. IsFiniteSet(mine)
    <2>1. DOMAIN c.candidates = 1 .. Len(c.candidates) /\ Len(c.candidates) \in Nat
      BY <1>2, SeqFacts
    <2>2. IsFiniteSet(DOMAIN c.candidates)
      BY <2>1, FS_Interval
    <2>3. mine \in SUBSET DOMAIN c.candidates
      OBVIOUS
    <2> HIDE DEF mine
    <2> QED BY <2>2, <2>3, FS_Subset
  <1>4. \A i \in mine : i \in DOMAIN c.candidates /\ c.candidates[i].value.session = session
    OBVIOUS
  <1>5. IsFiniteSet(ids)
    <2> DEFINE g == [i \in mine |-> c.candidates[i].key.prompt]
    <2>1. Range(g) = ids /\ DOMAIN g = mine
      BY DEF Range
    <2> HIDE DEF g, mine, ids
    <2> QED BY <1>3, <2>1, ImageIsFinite
  <1>6. IsFiniteSet(Range(f))
    <2>1. DOMAIN f = ids
      OBVIOUS
    <2> HIDE DEF f, ids
    <2> QED BY <1>5, <2>1, ImageIsFinite
  <1>7. ASSUME NEW id \in ids
        PROVE  /\ Best(id) \in mine /\ Best(id) \in of(id)
               /\ \A j \in of(id) : score(j) <= score(Best(id))
    <2> DEFINE S == of(id)
               better(i) == {j \in S : score(i) < score(j)}
               ranks == {Cardinality(better(i)) : i \in S}
    <2>1. S # {} /\ S \in SUBSET mine
      OBVIOUS
    <2> HIDE DEF mine
    <2>2. IsFiniteSet(S)
      <3> HIDE DEF S
      <3> QED BY <1>3, <2>1, FS_Subset
    <2>3. \A i \in S : score(i) \in Int
      BY <1>2, <1>4, <2>1
    <2> HIDE DEF S
    <2>4. \A i \in S : IsFiniteSet(better(i)) /\ Cardinality(better(i)) \in Nat
      <3> TAKE i \in S
      <3>1. better(i) \in SUBSET S
        OBVIOUS
      <3> HIDE DEF better
      <3> QED BY <2>2, <3>1, FS_Subset, FS_CardinalityType
    <2>5. ranks \in SUBSET Nat /\ ranks # {}
      <3> HIDE DEF better
      <3> QED BY <2>1, <2>4
    <2>6. PICK n \in ranks : \A m \in ranks : n <= m
      <3> HIDE DEF ranks
      <3> QED BY <2>5, Least
    <2>7. PICK i \in S : n = Cardinality(better(i))
      OBVIOUS
    <2>8. \A j \in S : score(j) <= score(i)
      <3> SUFFICES ASSUME NEW j \in S, score(i) < score(j)
                   PROVE  FALSE
        BY <2>3
      <3>1. /\ better(j) \in SUBSET better(i)
            /\ j \in better(i) /\ j \notin better(j)
        BY <2>3
      <3>2. Cardinality(better(i)) <= Cardinality(better(j))
        BY <2>6, <2>7
      <3> HIDE DEF better
      <3>3. /\ Cardinality(better(j)) <= Cardinality(better(i))
            /\ Cardinality(better(j)) = Cardinality(better(i)) => better(j) = better(i)
        BY <2>4, <3>1, FS_Subset
      <3> QED BY <2>4, <3>1, <3>2, <3>3
    <2>9. Best(id) \in S /\ \A j \in S : score(j) <= score(Best(id))
      <3>1. Best(id) = CHOOSE k \in S : \A j \in S : score(j) <= score(k)
        BY DEF S
      <3> HIDE DEF Best, score
      <3> QED BY <2>8, <3>1
    <2> QED BY <2>1, <2>9 DEF S
  <1>8. \A e \in Range(f) : \E i \in DOMAIN c.candidates :
           e = c.candidates[i] /\ e.value.session = session
    <2> TAKE e \in Range(f)
    <2>1. PICK id \in ids : e = c.candidates[Best(id)]
      BY DEF Range
    <2> HIDE DEF ids
    <2>2. Best(id) \in mine
      BY <1>7, <2>1, ZenonT(60)
    <2> HIDE DEF mine, Best
    <2> QED BY <1>4, <2>1, <2>2
  <1>9. ASSUME NEW i \in DOMAIN c.candidates, c.candidates[i].value.session = session
        PROVE  \E e \in Range(f) : /\ e.key.prompt = c.candidates[i].key.prompt
                                   /\ c.candidates[i].value.score <= e.value.score
    <2> DEFINE id == c.candidates[i].key.prompt
               e == c.candidates[Best(id)]
    <2>1. i \in mine /\ id \in ids /\ i \in of(id)
      BY <1>9
    <2>2. Best(id) \in of(id) /\ score(i) <= score(Best(id))
      <3> HIDE DEF ids, Best, score, id, mine
      <3> QED BY <1>7, <2>1, SMTT(30)
    <2>3. e.key.prompt = id /\ score(i) <= e.value.score
      BY <2>2
    <2>4. e \in Range(f)
      <3>1. f[id] = e /\ DOMAIN f = ids
        BY <2>1
      <3> HIDE DEF f, e, id, ids
      <3> QED BY <2>1, <3>1, SMTT(30) DEF Range
    <2> QED BY <2>3, <2>4
  <1> QED BY <1>1, <1>6, <1>8, <1>9

\* A chain of a match tells what happened, and is masked.
LEMMA ChainOfTells ==
    ASSUME NEW c, NEW h, CapiOK(c, h), NEW p, PromptsOK(p), NEW i \in DOMAIN c.candidates,
           NEW event, NEW ts \in Nat, NEW kind, NEW entry, entry = c.candidates[i],
           NEW artifact, artifact = ValueOf(c.artifacts, entry.key.artifact),
           NEW prompt, prompt = PromptOf(p, entry.key.prompt),
           entry.key.artifact \in KeysIn(c.artifacts), entry.key.prompt \in KeysIn(p.prompts),
           Ordered(artifact, prompt, ts)
    PROVE  /\ ChainTells(h, ChainOf(entry, artifact, prompt, event, ts, kind))
           /\ ChainMasked(ChainOf(entry, artifact, prompt, event, ts, kind))
  <1> DEFINE chain == ChainOf(entry, artifact, prompt, event, ts, kind)
             id == entry.key.artifact
             said == entry.key.prompt
  <1>1. /\ chain.root = artifact.session /\ chain.downstream = prompt.session
        /\ chain.artifact = artifact /\ chain.ts = ts
        /\ chain.excerpts = {Redacted(Redacted(artifact.text.words)), Redacted(prompt.text.words)}
    BY DEF ChainOf
  <1> HIDE DEF chain
  <1>2. /\ PromptId(prompt) = said /\ prompt.ts \in Nat /\ IsText(prompt.text)
    BY PromptOfFacts
  <1>3. said[1] = prompt.session /\ said[3] = prompt.ts /\ said[4] = Norm(prompt.text)
    BY <1>2, PromptIdFacts
  <1>4. /\ IsText(artifact.text) /\ id[1] = artifact.session /\ id[2] = artifact.path
        /\ id[3] = Norm(artifact.text)
    <2>1. PICK k \in DOMAIN c.artifacts : c.artifacts[k].key = id /\ artifact = c.artifacts[k].value
      BY ValueFacts
    <2>2. ArtifactIs(c.artifacts[k])
      BY DEF CapiOK, Traced
    <2> QED BY <2>1, <2>2 DEF ArtifactIs
  <1>5. Prompted(h, id, said)
    BY DEF CapiOK, Traced, CandidatesTell
  <1> HIDE DEF id, said
  <1>6. PICK w \in DOMAIN h, r \in DOMAIN h, s \in DOMAIN h :
           /\ Wrote(h, w, id[1], id[2]) /\ HasRead(h, r, id, said[1]) /\ HasSaid(h, s, said)
           /\ h[w].ts <= h[r].ts /\ h[r].ts <= said[3]
    BY <1>5 DEF Prompted
  <1>7. h[s].session = said[1] /\ h[s].ts = said[3] /\ Norm(h[s].text) = said[4]
        /\ h[s].kind = "say"
    BY <1>6, PromptIdFacts DEF HasSaid
  <1>8. Resemble(h[r].content, h[s].text)
    <2>1. Related(id[3], said[4]) /\ Norm(h[r].content) = id[3]
      BY <1>5, <1>6 DEF Prompted, HasRead
    <2> QED BY <1>7, <2>1 DEF Resemble, Related
  <1>9. prompt.ts <= ts /\ ts <= prompt.ts + CapiWindow
    BY <1>2, PromptAssumption, SMTT(30) DEF Ordered
  <1>10. chain.root # chain.downstream
    BY <1>1, <1>3, <1>4, <1>5, ZenonT(60) DEF Prompted
  <1>11. /\ h[w].kind = "open" /\ h[w].writes /\ h[w].session = chain.root
         /\ h[r].kind = "open" /\ h[r].reads /\ h[r].session = chain.downstream
         /\ h[w].path = chain.artifact.path /\ h[r].path = chain.artifact.path
         /\ h[s].kind = "say" /\ h[s].session = chain.downstream
    BY <1>1, <1>3, <1>4, <1>6, <1>7, ZenonT(60) DEF Wrote, HasRead
  <1>12. /\ h[w].ts <= h[r].ts /\ h[r].ts <= h[s].ts
         /\ h[s].ts <= chain.ts /\ chain.ts <= h[s].ts + CapiWindow
    BY <1>1, <1>3, <1>6, <1>7, <1>9
  <1>13. ChainTells(h, chain)
    BY <1>8, <1>10, <1>11, <1>12, SMTT(30) DEF ChainTells
  <1>14. ChainMasked(chain)
    BY <1>1, <1>2, <1>4, RedactedIsMasked DEF ChainMasked
  <1> QED BY <1>13, <1>14 DEF chain

\* What is reported is one of the chains, and of each id one that was not.
LEMMA NewChainsFacts ==
    ASSUME NEW c, NEW chains, IsFiniteSet(chains)
    PROVE  /\ IsSeq(NewChains(c, chains)) /\ Range(NewChains(c, chains)) \subseteq chains
           /\ \A chain \in chains : chain.id \notin KeysIn(c.emitted) =>
                 \E e \in Range(NewChains(c, chains)) : e.id = chain.id
  <1> DEFINE ids == {chain.id : chain \in chains} \ KeysIn(c.emitted)
             new == {CHOOSE chain \in chains : chain.id = id : id \in ids}
             n == Cardinality(new)
             f == SetToSeq(new)
  <1>1. NewChains(c, chains) = f
    BY DEF NewChains
  <1>2. \A id \in ids : (CHOOSE chain \in chains : chain.id = id) \in chains
    OBVIOUS
  <1>3. new \in SUBSET chains
    <2> HIDE DEF ids
    <2> QED BY <1>2
  <1> HIDE DEF new
  <1>4. IsFiniteSet(new)
    BY <1>3, FS_Subset
  <1>5. \E g \in [1 .. n -> new] : IsInjective(g)
    <2>1. ExistsBijection(1 .. n, new)
      BY <1>4, FS_CardinalityType
    <2>2. PICK g \in Bijection(1 .. n, new) : TRUE
      BY <2>1 DEF ExistsBijection
    <2>3. g \in [1 .. n -> new] /\ \A a, b \in 1 .. n : g[a] = g[b] => a = b
      BY Fun_BijectionProperties
    <2> QED BY <2>3 DEF IsInjective
  <1>6. f \in [1 .. n -> new] /\ IsInjective(f)
    BY <1>5 DEF SetToSeq
  <1> HIDE DEF f
  <1>7. Range(f) = new
    <2>1. IsFiniteSet(1 .. n) /\ Cardinality(1 .. n) = n
      <3>1. n \in Nat
        BY <1>4, FS_CardinalityType
      <3> HIDE DEF n
      <3> QED BY <3>1, FS_Interval
    <2>2. f \in Injection(1 .. n, new)
      BY <1>6 DEF Injection, IsInjective
    <2>3. f \in Surjection(1 .. n, new)
      BY <1>4, <2>1, <2>2, FS_Injection
    <2> QED BY <1>6, <2>3 DEF Range, Surjection
  <1>8. \A chain \in chains : chain.id \notin KeysIn(c.emitted) => \E e \in new : e.id = chain.id
    <2> TAKE chain \in chains
    <2> HAVE chain.id \notin KeysIn(c.emitted)
    <2> DEFINE e == CHOOSE some \in chains : some.id = chain.id
    <2>1. e \in chains /\ e.id = chain.id
      OBVIOUS
    <2>2. e \in new
      BY DEF new
    <2> QED BY <2>1, <2>2
  <1>9. IsSeq(f)
    <2>1. f = [i \in 1 .. n |-> f[i]]
      BY <1>6
    <2>2. n \in Nat
      BY <1>4, FS_CardinalityType
    <2> HIDE DEF n
    <2> QED BY <2>1, <2>2, SeqByIndex
  <1> QED BY <1>1, <1>3, <1>7, <1>8, <1>9

LEMMA RiskWorks ==
    ASSUME NEW c, NEW h, CapiOK(c, h), NEW p, PromptsOK(p), NEW session, NEW event,
           NEW ts \in Nat, NEW kind
    PROVE  /\ CapiOK(ChainsForRiskyEvent(c, p, session, event, ts, kind).c, h)
           /\ ChainsForRiskyEvent(c, p, session, event, ts, kind).c.total <= MaxArtifacts
           /\ \A chain \in Range(ChainsForRiskyEvent(c, p, session, event, ts, kind).chains) :
                 ChainTells(h, chain) /\ ChainMasked(chain)
  <1> DEFINE d == Prune(c, ts)
             best == BestCandidates(d, session)
             Artifact(e) == ValueOf(d.artifacts, e.key.artifact)
             Prompt(e) == PromptOf(p, e.key.prompt)
             live == {e \in best : /\ e.key.artifact \in KeysIn(d.artifacts)
                                   /\ e.key.prompt \in KeysIn(p.prompts)
                                   /\ Ordered(Artifact(e), Prompt(e), ts)}
             f == [e \in live |-> ChainOf(e, Artifact(e), Prompt(e), event, ts, kind)]
             chains == ChainsOf(d, p, best, event, ts, kind)
             new == NewChains(d, chains)
             risk == ChainsForRiskyEvent(c, p, session, event, ts, kind)
  <1>1. CapiOK(d, h) /\ d.total <= MaxArtifacts
    BY PruneWorks
  <1>2. risk = EmitChains(d, new)
    BY DEF ChainsForRiskyEvent, ChainsAfterPruning
  <1>3. chains = Range(f)
    <2>1. Range(f) = {ChainOf(e, Artifact(e), Prompt(e), event, ts, kind) : e \in live}
      BY DEF Range
    <2> QED BY <2>1 DEF ChainsOf
  <1> HIDE DEF d, chains, risk
  <1>4. IsFiniteSet(chains)
    <2>1. IsFiniteSet(best)
      BY <1>1, BestFacts
    <2>2. live \in SUBSET best
      OBVIOUS
    <2> HIDE DEF live, best
    <2>3. IsFiniteSet(live)
      BY <2>1, <2>2, FS_Subset
    <2>4. DOMAIN f = live
      OBVIOUS
    <2> HIDE DEF f
    <2> QED BY <1>3, <2>3, <2>4, ImageIsFinite
  <1>5. ASSUME NEW chain \in chains
        PROVE  ChainTells(h, chain) /\ ChainMasked(chain)
    <2>1. PICK e \in live : chain = ChainOf(e, Artifact(e), Prompt(e), event, ts, kind)
      BY <1>3 DEF Range
    <2>2. /\ e \in best
          /\ e.key.artifact \in KeysIn(d.artifacts) /\ e.key.prompt \in KeysIn(p.prompts)
          /\ Ordered(Artifact(e), Prompt(e), ts)
      BY <2>1
    <2>3. PICK i \in DOMAIN d.candidates : e = d.candidates[i]
      <3> HIDE DEF best
      <3>1. \A x \in best : \E i \in DOMAIN d.candidates : x = d.candidates[i]
        BY <1>1, BestFacts DEF best
      <3> QED BY <2>2, <3>1
    <2> DEFINE a == Artifact(e)
               q == Prompt(e)
    <2>4. a = ValueOf(d.artifacts, e.key.artifact) /\ q = PromptOf(p, e.key.prompt)
      OBVIOUS
    <2>5. Ordered(a, q, ts) /\ chain = ChainOf(e, a, q, event, ts, kind)
      BY <2>1, <2>2
    <2> HIDE DEF a, q
    <2>6. /\ ChainTells(h, ChainOf(e, a, q, event, ts, kind))
          /\ ChainMasked(ChainOf(e, a, q, event, ts, kind))
      BY <1>1, <2>2, <2>3, <2>4, <2>5, ChainOfTells
    <2> QED BY <2>5, <2>6
  <1>6. Range(new) \subseteq chains
    BY <1>4, NewChainsFacts
  <1> HIDE DEF new
  <1>7. PICK emitted : EmitChains(d, new) = [c |-> [d EXCEPT !.emitted = emitted], chains |-> new]
    BY DEF EmitChains
  <1> DEFINE e == [d EXCEPT !.emitted = emitted]
  <1>8. risk.c = e /\ risk.chains = new
    BY <1>2, <1>7
  <1>9. DOMAIN d = CapiFields
    BY <1>1 DEF CapiOK, CapiTyped
  <1>10. /\ DOMAIN e = CapiFields
         /\ e.artifacts = d.artifacts /\ e.lineage = d.lineage
         /\ e.candidates = d.candidates /\ e.order = d.order
         /\ e.pending = d.pending /\ e.total = d.total
    BY <1>9 DEF CapiFields
  <1> HIDE DEF e
  <1>11. CapiOK(e, h)
    BY <1>1, <1>10
       DEF CapiOK, CapiTyped, Traced, LineageTells, ReadsTell, CandidatesTell, Counted
  <1> QED BY <1>1, <1>5, <1>6, <1>8, <1>10, <1>11 DEF risk

-----------------------------------------------------------------------------
(* What the daemon keeps: d is [pending, total, prompts, capi, seen].      *)

DaemonFields == {"pending", "total", "prompts", "capi", "seen"}

QueuesOK(q) ==
    /\ DOMAIN q \subseteq Pids
    /\ \A s \in DOMAIN q :
          /\ IsSeq(q[s]) /\ q[s] # <<>>
          /\ \A i \in DOMAIN q[s] : q[s][i].ts \in Nat /\ IsText(q[s][i].text)

PendingOK(d) ==
    /\ QueuesOK(d.pending) /\ IsFiniteSet(Places(d.pending))
    /\ d.total = TotalOf(d.pending) /\ d.total <= MaxPrompts

\* What was linked and reported when an event was processed.
EventTells(h, x) ==
    x.kind # "say" => /\ \A j \in DOMAIN x.links : x.links[j][1] = x.session
                      /\ \A chain \in Range(x.chains) : ChainTells(h, chain) /\ ChainMasked(chain)

HistoryOK(h) == IsSeq(h) /\ \A i \in DOMAIN h : EventTells(h, h[i])

OpensBy(h, t) ==
    \A w \in DOMAIN h : h[w].kind = "open" => h[w].ts \in Nat /\ h[w].ts <= t

DaemonOK(d) ==
    /\ DOMAIN d = DaemonFields
    /\ PendingOK(d) /\ PromptsOK(d.prompts)
    /\ CapiOK(d.capi, d.seen) /\ d.capi.total <= MaxArtifacts
    /\ HistoryOK(d.seen)

LEMMA JoinedFacts ==
    ASSUME NEW record, NEW other
    PROVE  /\ DOMAIN Joined(record, other) = DOMAIN record \cup DOMAIN other
           /\ \A f \in DOMAIN record : Joined(record, other)[f] = record[f]
           /\ \A f \in DOMAIN other : f \notin DOMAIN record => Joined(record, other)[f] = other[f]
  BY DEF Joined

LEMMA HistoryGrows ==
    ASSUME NEW h, HistoryOK(h), NEW x, EventTells(Append(h, x), x)
    PROVE  /\ HistoryOK(Append(h, x))
           /\ \A t : OpensBy(h, t) /\ (x.kind = "open" => x.ts \in Nat /\ x.ts <= t)
                        => OpensBy(Append(h, x), t)
  <1> DEFINE g == Append(h, x)
  <1>1. /\ IsSeq(g) /\ DOMAIN g = 1 .. Len(h) + 1 /\ DOMAIN h = 1 .. Len(h) /\ Len(h) \in Nat
        /\ g[Len(h) + 1] = x /\ \A i \in DOMAIN h : g[i] = h[i]
    BY SeqFacts, AppendFacts DEF HistoryOK
  <1> HIDE DEF g
  <1>2. \A i \in DOMAIN g : i \in DOMAIN h \/ i = Len(h) + 1
    BY <1>1
  <1>3. \A i \in DOMAIN h : i \in DOMAIN g /\ g[i] = h[i]
    BY <1>1
  <1>4. \A chain : ChainTells(h, chain) => ChainTells(g, chain)
    BY <1>3 DEF ChainTells
  <1>5. \A i \in DOMAIN h : EventTells(g, g[i])
    BY <1>3, <1>4 DEF HistoryOK, EventTells
  <1>6. EventTells(g, g[Len(h) + 1])
    BY <1>1 DEF g
  <1>7. HistoryOK(g)
    BY <1>1, <1>2, <1>5, <1>6 DEF HistoryOK
  <1>8. \A t : OpensBy(h, t) /\ (x.kind = "open" => x.ts \in Nat /\ x.ts <= t)
                     => OpensBy(g, t)
    BY <1>1, <1>2, <1>3 DEF OpensBy
  <1> QED BY <1>7, <1>8 DEF g

LEMMA TakePromptWorks ==
    ASSUME NEW d, DaemonOK(d), NEW pid, NEW said, said.ts \in Nat, IsText(said.text)
    PROVE  /\ DaemonOK(TakePrompt(d, pid, said))
           /\ \A t : OpensBy(d.seen, t) => OpensBy(TakePrompt(d, pid, said).seen, t)
  <1> DEFINE input == [session |-> SessionOf[pid], stream |-> said.stream, ts |-> said.ts,
                       text |-> said.text, visibility |-> said.visibility]
             store == InsertPrompt(d.prompts, input)
             x == Joined(input, [kind |-> "say"])
             h == d.seen
             g == Append(h, x)
             capi1 == IF PromptId(input) \in KeysIn(store.prompts)
                      THEN ObservePrompt(d.capi, input) ELSE d.capi
             e == [d EXCEPT !.prompts = store, !.capi = capi1, !.seen = g]
  <1>1. TakePrompt(d, pid, said) = e
    BY DEF TakePrompt
  <1>2. /\ DOMAIN d = DaemonFields /\ IsSeq(h) /\ HistoryOK(h) /\ CapiOK(d.capi, h)
        /\ d.capi.total <= MaxArtifacts /\ PromptsOK(d.prompts)
    BY DEF DaemonOK, HistoryOK
  <1>3. input.ts \in Nat /\ IsText(input.text)
    OBVIOUS
  <1>4. x.kind = "say" /\ PromptId(x) = PromptId(input)
    <2>1. DOMAIN input = {"session", "stream", "ts", "text", "visibility"}
      OBVIOUS
    <2> DEFINE kind == [kind |-> "say"]
    <2>2. DOMAIN kind = {"kind"} /\ kind["kind"] = "say"
      OBVIOUS
    <2> HIDE DEF input, kind
    <2>3. /\ \A f \in DOMAIN input : Joined(input, kind)[f] = input[f]
          /\ \A f \in DOMAIN kind : f \notin DOMAIN input => Joined(input, kind)[f] = kind[f]
      BY JoinedFacts
    <2>4. x = Joined(input, kind)
      BY DEF kind
    <2> HIDE DEF x
    <2>5. /\ x["kind"] = "say" /\ x["session"] = input["session"]
          /\ x["stream"] = input["stream"] /\ x["ts"] = input["ts"] /\ x["text"] = input["text"]
      BY <2>1, <2>2, <2>3, <2>4
    <2> QED BY <2>5 DEF PromptId
  <1> HIDE DEF input, x, capi1
  <1>5. PromptsOK(store)
    BY <1>2, <1>3, InsertPromptWorks
  <1> HIDE DEF store, h
  <1>6. CapiOK(d.capi, g)
    BY <1>2, TracedLater
  <1>7. HistoryOK(g) /\ \A t : OpensBy(h, t) => OpensBy(g, t)
    <2>1. EventTells(g, x)
      BY <1>4 DEF EventTells
    <2>2. HistoryOK(g)
          /\ \A t : OpensBy(h, t) /\ (x.kind = "open" => x.ts \in Nat /\ x.ts <= t)
                     => OpensBy(g, t)
      BY <1>2, <2>1, HistoryGrows
    <2> QED BY <1>4, <2>2
  <1>8. \E p \in DOMAIN g : HasSaid(g, p, PromptId(input))
    <2>1. Len(h) + 1 \in DOMAIN g /\ g[Len(h) + 1] = x
      BY <1>2, SeqFacts, AppendFacts
    <2> HIDE DEF g
    <2> QED BY <1>4, <2>1 DEF HasSaid
  <1> HIDE DEF g
  <1>9. CapiOK(capi1, g) /\ capi1.total <= MaxArtifacts
    <2>1. CapiOK(ObservePrompt(d.capi, input), g) /\ ObservePrompt(d.capi, input).total <= MaxArtifacts
      BY <1>3, <1>6, <1>8, ObservePromptWorks
    <2> QED BY <1>2, <1>6, <2>1 DEF capi1
  <1>10. /\ DOMAIN e = DaemonFields /\ e.pending = d.pending /\ e.total = d.total
         /\ e.prompts = store /\ e.capi = capi1 /\ e.seen = g
    BY <1>2 DEF DaemonFields
  <1> HIDE DEF e
  <1>11. PendingOK(e)
    BY <1>10 DEF DaemonOK, PendingOK
  <1>12. DaemonOK(e)
    BY <1>5, <1>7, <1>9, <1>10, <1>11 DEF DaemonOK
  <1>13. \A t : OpensBy(d.seen, t) => OpensBy(e.seen, t)
    BY <1>7, <1>10 DEF h
  <1> QED BY <1>1, <1>12, <1>13

\* The oldest prompt of all.
LEMMA OldestFacts ==
    ASSUME NEW q, QueuesOK(q), DOMAIN q # {}
    PROVE  OldestPending(q) \in DOMAIN q
  <1> DEFINE Beats(p, r) == q[p][1].ts < q[r][1].ts \/ (q[p][1].ts = q[r][1].ts /\ p <= r)
             times == {q[p][1].ts : p \in DOMAIN q}
  <1>1. \A p \in DOMAIN q : p \in Nat /\ q[p][1].ts \in Nat
    <2> TAKE p \in DOMAIN q
    <2>1. IsSeq(q[p]) /\ q[p] # <<>>
      BY DEF QueuesOK
    <2>2. 1 \in DOMAIN q[p]
      <3>1. q[p] \in Seq(Range(q[p]))
        BY <2>1 DEF IsSeq
      <3> QED BY <2>1, <3>1
    <2> QED BY <2>2, CorrelationAssumption DEF QueuesOK
  <1>2. times \in SUBSET Nat /\ times # {}
    BY <1>1
  <1>3. PICK m \in times : \A t \in times : m <= t
    <2> HIDE DEF times
    <2> QED BY <1>2, Least
  <1> DEFINE first == {p \in DOMAIN q : q[p][1].ts = m}
  <1>4. first \in SUBSET Nat /\ first # {}
    BY <1>1, <1>3
  <1>5. PICK p \in first : \A r \in first : p <= r
    <2> HIDE DEF first
    <2> QED BY <1>4, Least
  <1>6. p \in DOMAIN q /\ q[p][1].ts = m
    OBVIOUS
  <1>7. ASSUME NEW r \in DOMAIN q
        PROVE  Beats(p, r)
    <2> DEFINE a == q[p][1].ts
               b == q[r][1].ts
    <2>1. a \in Nat /\ b \in Nat /\ m \in Nat /\ a = m /\ m <= b
      BY <1>1, <1>2, <1>3, <1>6
    <2>2. b = m => p <= r
      BY <1>5
    <2> HIDE DEF a, b
    <2>3. a < b \/ (a = b /\ p <= r)
      BY <2>1, <2>2
    <2> QED BY <2>3 DEF a, b
  <1>8. OldestPending(q) = CHOOSE s \in DOMAIN q : \A r \in DOMAIN q : Beats(s, r)
    BY DEF OldestPending
  <1> HIDE DEF Beats
  <1> QED BY <1>6, <1>7, <1>8

\* A queue without its first element.
LEMMA HeadIsTaken ==
    ASSUME NEW q, QueuesOK(q), IsFiniteSet(Places(q)), NEW t \in DOMAIN q, NEW r,
           r = IF Len(q[t]) = 1 THEN Without(q, t) ELSE Put(q, t, Tail(q[t]))
    PROVE  /\ QueuesOK(r) /\ IsFiniteSet(Places(r))
           /\ TotalOf(r) = TotalOf(q) - 1 /\ TotalOf(q) \in Nat
  <1> DEFINE gone == <<t, 1>>
             kept == Places(q) \ {gone}
             stays == DOMAIN q[t] \ {1}
             tail == Tail(q[t])
             f == [i \in DOMAIN tail |-> i + 1]
  <1>1. \A s \in DOMAIN q : IsSeq(q[s]) /\ q[s] # <<>>
    BY DEF QueuesOK
  <1>2. Len(q[t]) \in Nat \ {0} /\ DOMAIN q[t] = 1 .. Len(q[t]) /\ 1 \in DOMAIN q[t]
    <2>1. q[t] \in Seq(Range(q[t])) /\ q[t] # <<>>
      BY <1>1 DEF IsSeq
    <2> QED BY <2>1
  <1>3. /\ IsSeq(tail) /\ Len(tail) = Len(q[t]) - 1
        /\ DOMAIN tail = 1 .. Len(q[t]) - 1
        /\ \A i \in 1 .. Len(q[t]) - 1 : i + 1 \in DOMAIN q[t] /\ tail[i] = q[t][i + 1]
    BY <1>1, <1>2, TailFacts
  <1>4. \A s \in DOMAIN q : KeptAt(q, s, kept) = IF s = t THEN stays ELSE DOMAIN q[s]
    BY PlaceFacts DEF KeptAt
  <1>5. gone \in Places(q)
    BY <1>2, PlaceFacts
  <1> HIDE DEF tail, gone
  <1>6. /\ \A s \in DOMAIN r : /\ s \in DOMAIN q
                               /\ s = t => r[s] = tail /\ Len(q[t]) # 1
                               /\ s # t => r[s] = q[s]
        /\ \A s \in DOMAIN q : s \notin DOMAIN r => s = t /\ Len(q[t]) = 1
    <2>1. CASE Len(q[t]) = 1
      <3>1. /\ DOMAIN r = DOMAIN q \ {t}
            /\ \A s \in DOMAIN r : s \in DOMAIN q /\ s # t /\ r[s] = q[s]
        BY <2>1, WithoutFacts
      <3> QED BY <2>1, <3>1
    <2>2. CASE Len(q[t]) # 1
      <3>1. r = Put(q, t, tail)
        BY <2>2 DEF tail
      <3>2. /\ DOMAIN r = DOMAIN q \cup {t} /\ r[t] = tail
            /\ \A s \in DOMAIN q : s # t => r[s] = q[s]
        BY <3>1 DEF Put
      <3> QED BY <2>2, <3>2
    <2> QED BY <2>1, <2>2
  <1>7. /\ Len(tail) = Cardinality(stays)
        /\ f \in Bijection(DOMAIN tail, stays) /\ \A i \in DOMAIN tail : tail[i] = q[t][f[i]]
    <2>1. f \in [DOMAIN tail -> stays] /\ \A i, j \in DOMAIN tail : f[i] = f[j] => i = j
      BY <1>2, <1>3
    <2>2. \A k \in stays : \E i \in DOMAIN tail : f[i] = k
      <3> TAKE k \in stays
      <3>1. k - 1 \in DOMAIN tail /\ (k - 1) + 1 = k
        BY <1>2, <1>3
      <3> QED BY <3>1
    <2>3. \A i \in DOMAIN tail : tail[i] = q[t][f[i]]
      BY <1>3
    <2> HIDE DEF f
    <2>4. f \in Bijection(DOMAIN tail, stays)
      BY <2>1, <2>2, Fun_IsBij
    <2> DEFINE L == Len(q[t])
    <2>5. L \in Nat \ {0} /\ DOMAIN q[t] = 1 .. L /\ 1 \in DOMAIN q[t]
      BY <1>2
    <2> HIDE DEF L
    <2>6. IsFiniteSet(DOMAIN q[t]) /\ Cardinality(DOMAIN q[t]) = L
      <3>1. IsFiniteSet(1 .. L) /\ Cardinality(1 .. L) = L
        BY <2>5, FS_Interval
      <3> QED BY <2>5, <3>1
    <2>7. Cardinality(stays) = L - 1
      BY <2>5, <2>6, FS_RemoveElement
    <2> QED BY <1>3, <2>3, <2>4, <2>7 DEF L
  <1>13. \E p \in Bijection(DOMAIN tail, stays) : \A i \in DOMAIN tail : tail[i] = q[t][p[i]]
    BY <1>7
  <1>9. kept \in SUBSET Places(q)
    OBVIOUS
  <1>10. Cardinality(kept) = Cardinality(Places(q)) - 1
    BY <1>5, FS_RemoveElement
  <1> HIDE DEF stays, f, kept
  <1>8. Thinned(r, q, kept)
    <2>1. ASSUME NEW s \in DOMAIN r
          PROVE  /\ s \in DOMAIN q /\ IsSeq(r[s])
                 /\ Len(r[s]) = Cardinality(KeptAt(q, s, kept))
                 /\ \E p \in Bijection(DOMAIN r[s], KeptAt(q, s, kept)) :
                       \A i \in DOMAIN r[s] : r[s][i] = q[s][p[i]]
      <3>1. CASE s = t
        <4>1. r[s] = tail /\ KeptAt(q, s, kept) = stays
          BY <1>4, <1>6, <3>1
        <4>2. \E p \in Bijection(DOMAIN tail, stays) : \A i \in DOMAIN tail : tail[i] = q[s][p[i]]
          BY <1>13, <3>1
        <4>3. s \in DOMAIN q /\ IsSeq(r[s]) /\ Len(r[s]) = Cardinality(KeptAt(q, s, kept))
          BY <1>3, <1>7, <3>1, <4>1
        <4> QED BY <4>1, <4>2, <4>3
      <3>2. CASE s # t
        <4>1. s \in DOMAIN q /\ r[s] = q[s] /\ KeptAt(q, s, kept) = DOMAIN q[s] /\ IsSeq(q[s])
          BY <1>1, <1>4, <1>6, <3>2
        <4> QED BY <4>1, AllIsKept
      <3> QED BY <3>1, <3>2
    <2>2. ASSUME NEW s \in DOMAIN q, s \notin DOMAIN r
          PROVE  KeptAt(q, s, kept) = {}
      <3>1. s = t /\ Len(q[t]) = 1
        BY <1>6, <2>2
      <3>2. stays = {}
        BY <1>2, <3>1 DEF stays
      <3> QED BY <1>4, <3>1, <3>2
    <2> QED BY <2>1, <2>2 DEF Thinned
  <1>11. /\ IsFiniteSet(Places(r)) /\ TotalOf(r) = Cardinality(kept) /\ TotalOf(q) \in Nat
    BY <1>1, <1>8, <1>9, ThinnedCount
  <1>12. QueuesOK(r)
    <2>1. DOMAIN r \subseteq Pids
      BY <1>6 DEF QueuesOK
    <2>2. ASSUME NEW s \in DOMAIN r
          PROVE  /\ IsSeq(r[s]) /\ r[s] # <<>>
                 /\ \A i \in DOMAIN r[s] : r[s][i].ts \in Nat /\ IsText(r[s][i].text)
      <3>1. CASE s = t
        <4>1. r[s] = tail /\ Len(tail) # 0
          BY <1>2, <1>3, <1>6, <3>1
        <4>2. \A i \in DOMAIN tail : i + 1 \in DOMAIN q[t] /\ tail[i] = q[t][i + 1]
          BY <1>3
        <4>3. tail # <<>>
          <5>1. Len(<<>>) = 0
            OBVIOUS
          <5> QED BY <4>1, <5>1
        <4>4. \A i \in DOMAIN tail : tail[i].ts \in Nat /\ IsText(tail[i].text)
          BY <4>2 DEF QueuesOK
        <4> QED BY <1>3, <4>1, <4>3, <4>4
      <3>2. CASE s # t
        BY <1>6, <3>2 DEF QueuesOK
      <3> QED BY <3>1, <3>2
    <2> QED BY <2>1, <2>2 DEF QueuesOK
  <1> QED BY <1>10, <1>11, <1>12 DEF TotalOf

LEMMA QueueWorks ==
    ASSUME NEW d, DaemonOK(d), NEW pid \in Pids, NEW said, said.ts \in Nat, IsText(said.text)
    PROVE  /\ DaemonOK(QueuePendingPrompt(d, pid, said))
           /\ QueuePendingPrompt(d, pid, said).seen = d.seen
  <1> DEFINE q == d.pending
             queue == IF pid \in DOMAIN q THEN q[pid] ELSE <<>>
             grown == Append(queue, said)
             queued == Put(q, pid, grown)
             oldest == OldestPending(queued)
             left == IF Len(queued[oldest]) = 1 THEN Without(queued, oldest)
                     ELSE Put(queued, oldest, Tail(queued[oldest]))
             more == [d EXCEPT !.pending = queued, !.total = @ + 1]
             same == [d EXCEPT !.pending = left]
             e == QueuePendingPrompt(d, pid, said)
  <1>1. e = IF d.total + 1 <= MaxPrompts THEN more ELSE same
    BY DEF QueuePendingPrompt
  <1>2. /\ DOMAIN d = DaemonFields /\ QueuesOK(q) /\ IsFiniteSet(Places(q))
        /\ d.total = TotalOf(q) /\ d.total <= MaxPrompts
    BY DEF DaemonOK, PendingOK
  <1>3. \A s \in DOMAIN q : IsSeq(q[s])
    BY <1>2 DEF QueuesOK
  <1>4. IsSeq(queue)
    BY <1>3, EmptyFacts
  <1>5. \A i \in DOMAIN queue : queue[i].ts \in Nat /\ IsText(queue[i].text)
    BY <1>2, EmptyFacts DEF QueuesOK
  <1>6. /\ IsFiniteSet(Places(queued)) /\ TotalOf(queued) = TotalOf(q) + 1 /\ TotalOf(q) \in Nat
    <2>1. queue = IF pid \in DOMAIN q THEN q[pid] ELSE <<>>
      OBVIOUS
    <2> HIDE DEF queue, q
    <2> QED BY <1>2, <1>3, <2>1, AppendPlaces
  <1> HIDE DEF queue
  <1>7. QueuesOK(queued)
    <2>1. /\ IsSeq(grown) /\ DOMAIN grown = 1 .. Len(queue) + 1 /\ Len(grown) = Len(queue) + 1
          /\ DOMAIN queue = 1 .. Len(queue) /\ Len(queue) \in Nat
          /\ grown[Len(queue) + 1] = said /\ \A i \in DOMAIN queue : grown[i] = queue[i]
      BY <1>4, SeqFacts, AppendFacts
    <2> HIDE DEF grown
    <2>2. grown # <<>>
      <3>1. Len(<<>>) = 0
        OBVIOUS
      <3> QED BY <2>1, <3>1
    <2>3. \A i \in DOMAIN grown : grown[i].ts \in Nat /\ IsText(grown[i].text)
      <3> TAKE i \in DOMAIN grown
      <3>1. i \in DOMAIN queue \/ i = Len(queue) + 1
        BY <2>1
      <3> QED BY <1>5, <2>1, <3>1
    <2>4. /\ DOMAIN queued = DOMAIN q \cup {pid} /\ queued[pid] = grown
          /\ \A s \in DOMAIN q : s # pid => queued[s] = q[s]
      BY DEF Put
    <2> HIDE DEF queued
    <2>5. DOMAIN queued \subseteq Pids
      BY <1>2, <2>4 DEF QueuesOK
    <2>6. ASSUME NEW s \in DOMAIN queued
          PROVE  /\ IsSeq(queued[s]) /\ queued[s] # <<>>
                 /\ \A i \in DOMAIN queued[s] : queued[s][i].ts \in Nat /\ IsText(queued[s][i].text)
      <3>1. CASE s = pid
        BY <2>1, <2>2, <2>3, <2>4, <3>1
      <3>2. CASE s # pid
        BY <1>2, <2>4, <3>2 DEF QueuesOK
      <3> QED BY <3>1, <3>2
    <2> QED BY <2>5, <2>6 DEF QueuesOK
  <1>8. DOMAIN queued # {}
    BY DEF Put
  <1>9. more.pending = queued /\ more.total = d.total + 1 /\ same.pending = left /\ same.total = d.total
    BY <1>2 DEF DaemonFields
  <1>10. /\ DOMAIN more = DaemonFields /\ more.prompts = d.prompts /\ more.capi = d.capi
         /\ more.seen = d.seen
    BY <1>2 DEF DaemonFields
  <1>11. /\ DOMAIN same = DaemonFields /\ same.prompts = d.prompts /\ same.capi = d.capi
         /\ same.seen = d.seen
    BY <1>2 DEF DaemonFields
  <1> HIDE DEF queued, grown, more, same, e
  <1>12. oldest \in DOMAIN queued
    BY <1>7, <1>8, OldestFacts
  <1> HIDE DEF oldest
  <1>13. QueuesOK(left) /\ IsFiniteSet(Places(left)) /\ TotalOf(left) = TotalOf(queued) - 1
    BY <1>6, <1>7, <1>12, HeadIsTaken
  <1> HIDE DEF left
  <1>14. MaxPrompts \in Nat
    BY PromptAssumption
  <1>15. CASE d.total + 1 <= MaxPrompts
    <2>1. PendingOK(more)
      BY <1>2, <1>6, <1>7, <1>9, <1>15 DEF PendingOK
    <2> QED BY <1>1, <1>10, <1>15, <2>1 DEF DaemonOK, e
  <1>16. CASE ~(d.total + 1 <= MaxPrompts)
    <2>1. TotalOf(left) = d.total
      BY <1>2, <1>6, <1>13
    <2>2. PendingOK(same)
      BY <1>2, <1>9, <1>13, <2>1 DEF PendingOK
    <2> QED BY <1>1, <1>11, <1>16, <2>2 DEF DaemonOK, e
  <1> QED BY <1>15, <1>16

LEMMA EvictPendingWorks ==
    ASSUME NEW d, DaemonOK(d), NEW now
    PROVE  /\ DaemonOK(EvictPendingPrompts(d, now))
           /\ EvictPendingPrompts(d, now).seen = d.seen
  <1> DEFINE q == d.pending
             kept == {place \in Places(q) : q[place[1]][place[2]].ts + PromptWindow >= now}
             recent(s) == {i \in DOMAIN q[s] : q[s][i].ts + PromptWindow >= now}
             waiting == [s \in DOMAIN q |-> Picked(q[s], recent(s))]
             busy == {s \in DOMAIN waiting : waiting[s] # <<>>}
             r == Keep(waiting, busy)
             e == [d EXCEPT !.pending = r, !.total = TotalOf(waiting)]
  <1>1. EvictPendingPrompts(d, now) = e
    BY DEF EvictPendingPrompts
  <1>2. /\ DOMAIN d = DaemonFields /\ QueuesOK(q) /\ IsFiniteSet(Places(q))
        /\ d.total = TotalOf(q) /\ d.total <= MaxPrompts
    BY DEF DaemonOK, PendingOK
  <1>3. \A s \in DOMAIN q : IsSeq(q[s])
    BY <1>2 DEF QueuesOK
  <1>4. \A s \in DOMAIN q : KeptAt(q, s, kept) = recent(s)
    BY PlaceFacts DEF KeptAt
  <1>5. waiting = [s \in DOMAIN q |-> Picked(q[s], KeptAt(q, s, kept))]
    BY <1>4
  <1>6. kept \in SUBSET Places(q)
    OBVIOUS
  <1>7. \A s \in DOMAIN waiting : s \in busy <=> waiting[s] # <<>>
    OBVIOUS
  <1>8. /\ DOMAIN e = DaemonFields /\ e.pending = r /\ e.total = TotalOf(waiting)
        /\ e.prompts = d.prompts /\ e.capi = d.capi /\ e.seen = d.seen
    BY <1>2 DEF DaemonFields
  <1> HIDE DEF waiting, busy, kept, e
  <1>9. Thinned(waiting, q, kept)
    BY <1>3, <1>5, PickedIsThinned
  <1>10. /\ IsFiniteSet(Places(waiting)) /\ TotalOf(waiting) = Cardinality(kept)
         /\ Cardinality(kept) <= TotalOf(q) /\ Cardinality(kept) \in Nat /\ TotalOf(q) \in Nat
    <2> HIDE DEF q
    <2> QED BY <1>2, <1>3, <1>6, <1>9, ThinnedCount
  <1>11. \A s \in DOMAIN waiting : IsSeq(waiting[s])
    BY <1>9 DEF Thinned
  <1>12. Thinned(r, waiting, Places(waiting))
    BY <1>7, <1>11, SomeQueuesThinned
  <1>13. \A s \in DOMAIN r : s \in DOMAIN waiting /\ r[s] = waiting[s] /\ r[s] # <<>>
    BY <1>7 DEF Keep
  <1> HIDE DEF r
  <1>14. IsFiniteSet(Places(r)) /\ TotalOf(r) = TotalOf(waiting)
    <2>1. Places(waiting) \in SUBSET Places(waiting)
      OBVIOUS
    <2>2. IsFiniteSet(Places(r)) /\ TotalOf(r) = Cardinality(Places(waiting))
      BY <1>10, <1>11, <1>12, <2>1, ThinnedCount
    <2> QED BY <2>2 DEF TotalOf
  <1>15. QueuesOK(r)
    <2>1. \A s \in DOMAIN r : s \in DOMAIN q /\ IsSeq(r[s])
      BY <1>5, <1>12, <1>13 DEF Thinned
    <2>2. ASSUME NEW s \in DOMAIN r, NEW i \in DOMAIN r[s]
          PROVE  r[s][i].ts \in Nat /\ IsText(r[s][i].text)
      <3>1. s \in DOMAIN waiting /\ r[s] = waiting[s] /\ s \in DOMAIN q /\ IsSeq(q[s])
        BY <1>3, <1>13, <2>1
      <3>2. i \in DOMAIN waiting[s]
        BY <3>1
      <3>3. PICK k \in KeptAt(q, s, kept) : waiting[s][i] = q[s][k]
        <4> HIDE DEF q
        <4> QED BY <1>9, <3>1, <3>2, ThinnedReads
      <3>4. k \in DOMAIN q[s]
        BY DEF KeptAt
      <3> QED BY <1>2, <3>1, <3>3, <3>4 DEF QueuesOK
    <2>3. DOMAIN r \subseteq Pids
      BY <1>2, <2>1 DEF QueuesOK
    <2> QED BY <1>13, <2>1, <2>2, <2>3 DEF QueuesOK
  <1>16. PendingOK(e)
    <2>1. TotalOf(waiting) <= MaxPrompts
      BY <1>2, <1>10, PromptAssumption
    <2> QED BY <1>8, <1>14, <1>15, <2>1 DEF PendingOK
  <1> QED BY <1>1, <1>8, <1>16 DEF DaemonOK

\* What holds of 0, and of each number when of the one before, holds up to N.
LEMMA UpTo ==
    ASSUME NEW N \in Nat, NEW S, 0 \in S, \A i \in 1 .. N : i - 1 \in S => i \in S
    PROVE  \A i \in 0 .. N : i \in S
  <1> DEFINE Missing == {i \in 0 .. N : i \notin S}
  <1>1. ASSUME Missing # {}
        PROVE  FALSE
    <2>1. PICK i \in Missing : \A j \in Missing : i <= j
      <3>1. Missing \in SUBSET Nat
        OBVIOUS
      <3> HIDE DEF Missing
      <3> QED BY <1>1, <3>1, Least
    <2>2. i \in 1 .. N /\ i - 1 \in 0 .. N
      BY <2>1
    <2>3. i - 1 \in S
      BY <2>1, <2>2
    <2> QED BY <2>1, <2>2, <2>3
  <1> QED BY <1>1

\* The prompts that wait are taken one by one.
LEMMA DrainSteps ==
    ASSUME NEW d, DaemonOK(d), NEW pid, pid \in DOMAIN d.pending
    PROVE  \E N \in Nat : \E F :
              /\ DrainPendingPrompts(d, pid) = F[N]
              /\ DaemonOK(F[0]) /\ F[0].seen = d.seen
              /\ F[0].capi = d.capi /\ F[0].prompts = d.prompts
              /\ \A i \in 1 .. N : \E said : /\ said.ts \in Nat /\ IsText(said.text)
                                            /\ F[i] = TakePrompt(F[i - 1], pid, said)
  <1> DEFINE q == d.pending
             queue == q[pid]
             N == Len(queue)
             r == Without(q, pid)
             rest == [d EXCEPT !.pending = r, !.total = @ - N]
             More(b, n) == TakePrompt(b, pid, queue[n])
             Grows(f, n) == f = [i \in 0 .. n |-> IF i = 0 THEN rest ELSE More(f[i - 1], i)]
             F == CHOOSE f : Grows(f, N)
  <1>0. pid \in DOMAIN q
    OBVIOUS
  <1>2. DrainPendingPrompts(d, pid) = F[N]
    BY <1>0 DEF DrainPendingPrompts
  <1>11. /\ DOMAIN d = DaemonFields /\ QueuesOK(q) /\ IsFiniteSet(Places(q))
         /\ d.total = TotalOf(q) /\ d.total <= MaxPrompts
    BY DEF DaemonOK, PendingOK
  <1>12. \A s \in DOMAIN q : IsSeq(q[s])
    BY <1>11 DEF QueuesOK
  <1>1. N \in Nat /\ DOMAIN queue = 1 .. N
    BY <1>0, <1>12, SeqFacts
  <1>13. \A i \in 1 .. N : queue[i].ts \in Nat /\ IsText(queue[i].text)
    BY <1>0, <1>1, <1>11 DEF QueuesOK
  <1>14. /\ DaemonOK(rest) /\ rest.seen = d.seen
         /\ rest.capi = d.capi /\ rest.prompts = d.prompts
    <2> DEFINE gone == {pid} \X DOMAIN queue
               kept == Places(q) \ gone
    <2>1. /\ DOMAIN rest = DaemonFields /\ rest.pending = r /\ rest.total = d.total - N
          /\ rest.prompts = d.prompts /\ rest.capi = d.capi /\ rest.seen = d.seen
      BY <1>11 DEF DaemonFields
    <2>2. /\ DOMAIN r = DOMAIN q \ {pid}
          /\ \A s \in DOMAIN r : s \in DOMAIN q /\ s # pid /\ r[s] = q[s]
      BY WithoutFacts
    <2>3. gone \in SUBSET Places(q)
      BY <1>0, PlaceFacts
    <2>4. \A s \in DOMAIN q : KeptAt(q, s, kept) = IF s = pid THEN {} ELSE DOMAIN q[s]
      BY PlaceFacts DEF KeptAt
    <2>5. Cardinality(gone) = N /\ IsFiniteSet(gone)
      <3> HIDE DEF N
      <3>1. IsFiniteSet(1 .. N) /\ Cardinality(1 .. N) = N
        BY <1>1, FS_Interval
      <3>2. IsFiniteSet({pid}) /\ Cardinality({pid}) = 1
        BY FS_Singleton
      <3>3. /\ IsFiniteSet({pid} \X (1 .. N))
            /\ Cardinality({pid} \X (1 .. N)) = Cardinality({pid}) * Cardinality(1 .. N)
        BY <3>1, <3>2, FS_Product
      <3>4. gone = {pid} \X (1 .. N)
        BY <1>1
      <3>5. 1 * N = N
        BY <1>1
      <3> QED BY <3>1, <3>2, <3>3, <3>4, <3>5
    <2>6. kept \in SUBSET Places(q)
      OBVIOUS
    <2>7. Cardinality(kept) = TotalOf(q) - N
      <3>1. Cardinality(kept) = Cardinality(Places(q)) - Cardinality(Places(q) \cap gone)
        <4> HIDE DEF gone, q
        <4> QED BY <1>11, FS_Difference
      <3>2. Places(q) \cap gone = gone
        BY <2>3
      <3> QED BY <2>5, <3>1, <3>2 DEF TotalOf
    <2> HIDE DEF gone, kept, rest, r, queue, N
    <2>8. Thinned(r, q, kept)
      <3>1. ASSUME NEW s \in DOMAIN r
            PROVE  /\ s \in DOMAIN q /\ IsSeq(r[s])
                   /\ Len(r[s]) = Cardinality(KeptAt(q, s, kept))
                   /\ \E p \in Bijection(DOMAIN r[s], KeptAt(q, s, kept)) :
                         \A i \in DOMAIN r[s] : r[s][i] = q[s][p[i]]
        <4>1. s \in DOMAIN q /\ r[s] = q[s] /\ KeptAt(q, s, kept) = DOMAIN q[s] /\ IsSeq(q[s])
          BY <1>12, <2>2, <2>4
        <4> QED BY <4>1, AllIsKept
      <3>2. \A s \in DOMAIN q : s \notin DOMAIN r => KeptAt(q, s, kept) = {}
        BY <2>2, <2>4
      <3> QED BY <3>1, <3>2 DEF Thinned
    <2>9. /\ IsFiniteSet(Places(r)) /\ TotalOf(r) = Cardinality(kept) /\ TotalOf(q) \in Nat
      <3> HIDE DEF q
      <3> QED BY <1>11, <1>12, <2>6, <2>8, ThinnedCount
    <2>10. QueuesOK(r)
      BY <1>11, <2>2 DEF QueuesOK
    <2>11. TotalOf(r) = d.total - N /\ d.total - N <= MaxPrompts
      BY <1>1, <1>11, <2>7, <2>9, PromptAssumption
    <2>12. PendingOK(rest)
      BY <2>1, <2>9, <2>10, <2>11 DEF PendingOK
    <2> QED BY <2>1, <2>12 DEF DaemonOK
  <1> HIDE DEF rest
  <1> HIDE DEF N
  <1> HIDE DEF More
  <1>4. \E f : Grows(f, N)
    <2> DEFINE Missing == {n \in 0 .. N : ~\E f : Grows(f, n)}
    <2>1. ASSUME Missing # {}
          PROVE  FALSE
      <3>1. PICK n \in Missing : \A k \in Missing : n <= k
        <4>1. Missing \in SUBSET Nat
          OBVIOUS
        <4> HIDE DEF Missing
        <4> QED BY <2>1, <4>1, Least
      <3>2. n \in 0 .. N /\ ~\E f : Grows(f, n)
        BY <3>1
      <3>3. n # 0
        <4>1. Grows([i \in 0 .. 0 |-> rest], 0)
          OBVIOUS
        <4> QED BY <3>2, <4>1
      <3>4. PICK f : Grows(f, n - 1)
        <4>1. n - 1 \in 0 .. N /\ n - 1 \notin Missing
          <5> HIDE DEF Missing
          <5> QED BY <1>1, <3>1, <3>2, <3>3
        <4> QED BY <4>1, Zenon
      <3> DEFINE g == [i \in 0 .. n |-> IF i = n THEN More(f[n - 1], n) ELSE f[i]]
      <3>5. Grows(g, n)
        BY <3>2, <3>3, <3>4
      <3> QED BY <3>2, <3>5
    <2>2. N \in 0 .. N
      BY <1>1
    <2> HIDE DEF Grows
    <2> QED BY <2>1, <2>2
  <1>5. Grows(F, N)
    BY <1>4, Zenon
  <1> HIDE DEF F
  <1>6. F[0] = rest /\ \A i \in 1 .. N : F[i] = More(F[i - 1], i)
    BY <1>1, <1>5
  <1>7. \A i \in 1 .. N : \E said : /\ said.ts \in Nat /\ IsText(said.text)
                                   /\ F[i] = TakePrompt(F[i - 1], pid, said)
    BY <1>6, <1>13 DEF More
  <1> HIDE DEF queue
  <1> QED BY <1>1, <1>2, <1>6, <1>7, <1>14

LEMMA DrainWorks ==
    ASSUME NEW d, DaemonOK(d), NEW pid
    PROVE  /\ DaemonOK(DrainPendingPrompts(d, pid))
           /\ \A t : OpensBy(d.seen, t) => OpensBy(DrainPendingPrompts(d, pid).seen, t)
  <1> DEFINE e == DrainPendingPrompts(d, pid)
  <1>1. SUFFICES ASSUME pid \in DOMAIN d.pending
                 PROVE  DaemonOK(e) /\ \A t : OpensBy(d.seen, t) => OpensBy(e.seen, t)
    BY DEF DrainPendingPrompts
  <1> HIDE DEF e
  <1>2. PICK N \in Nat : \E F :
           /\ e = F[N] /\ DaemonOK(F[0]) /\ F[0].seen = d.seen
           /\ \A i \in 1 .. N : \E said : /\ said.ts \in Nat /\ IsText(said.text)
                                         /\ F[i] = TakePrompt(F[i - 1], pid, said)
    BY <1>1, DrainSteps DEF e
  <1>3. PICK F : /\ e = F[N] /\ DaemonOK(F[0]) /\ F[0].seen = d.seen
                 /\ \A i \in 1 .. N : \E said : /\ said.ts \in Nat /\ IsText(said.text)
                                               /\ F[i] = TakePrompt(F[i - 1], pid, said)
    BY <1>2
  <1> DEFINE Right == {i \in 0 .. N : /\ DaemonOK(F[i])
                                      /\ \A t : OpensBy(d.seen, t) => OpensBy(F[i].seen, t)}
  <1>4. ASSUME NEW i \in 1 .. N, i - 1 \in Right
        PROVE  i \in Right
    <2>1. PICK said : /\ said.ts \in Nat /\ IsText(said.text)
                      /\ F[i] = TakePrompt(F[i - 1], pid, said)
      BY <1>3
    <2>2. DaemonOK(F[i]) /\ \A t : OpensBy(F[i - 1].seen, t) => OpensBy(F[i].seen, t)
      BY <1>4, <2>1, TakePromptWorks
    <2> QED BY <1>4, <2>2
  <1>5. 0 \in Right
    BY <1>3
  <1> HIDE DEF Right
  <1>6. N \in Right
    BY <1>4, <1>5, UpTo
  <1> QED BY <1>3, <1>6 DEF Right

-----------------------------------------------------------------------------
(* process_owned_event.                                                    *)

CallFields == {"kind", "pid", "path", "writes", "reads", "text", "stream", "visibility"}

IsEvent(ev) ==
    /\ DOMAIN ev = CallFields \cup {"id", "ts"}
    /\ ev.kind \in {"start", "open", "remove", "say", "shell"}
    /\ ev.pid \in Pids /\ ev.ts \in Nat /\ IsText(ev.text)

DiskOK(files) == \A path \in DOMAIN files : IsText(files[path])

LEMMA DrainedWorks ==
    ASSUME NEW d, DaemonOK(d), NEW ev, IsEvent(ev), ev.kind # "say", DiskOK(disk),
           ev.kind = "open" => OpensBy(d.seen, ev.ts)
    PROVE  /\ DaemonOK(ObserveDrained(d, ev))
           /\ \A t : OpensBy(d.seen, t) /\ (ev.kind = "open" => ev.ts <= t)
                        => OpensBy(ObserveDrained(d, ev).seen, t)
  <1> DEFINE content == IF ev.kind = "open" /\ ev.path \in DOMAIN disk THEN disk[ev.path] ELSE NoText
             session == SessionOf[ev.pid]
             evidence == EvidenceForEvent(d.prompts, session, ev.ts, RiskOf(ev))
             after == ObserveFile(d.capi, ev, content)
             risk == ObserveRisk(after, evidence.p, ev)
             more == [session |-> session, content |-> content, links |-> evidence.links,
                      repeated |-> evidence.repeated, chains |-> risk.chains]
             x == Joined(ev, more)
             h == d.seen
             g == Append(h, x)
             e == [d EXCEPT !.prompts = evidence.p, !.capi = risk.c, !.seen = g]
  <1>1. ObserveDrained(d, ev) = e
    BY DEF ObserveDrained
  <1>2. /\ DOMAIN d = DaemonFields /\ IsSeq(h) /\ HistoryOK(h) /\ CapiOK(d.capi, h)
        /\ d.capi.total <= MaxArtifacts /\ PromptsOK(d.prompts) /\ PendingOK(d)
    BY DEF DaemonOK, HistoryOK
  <1>3. IsText(content)
    <2>1. IsText(NoText)
      BY DEF IsText, NoText
    <2> QED BY <2>1 DEF DiskOK
  <1>4. ev.ts \in Nat /\ DOMAIN ev = CallFields \cup {"id", "ts"}
    BY DEF IsEvent
  <1>5. /\ x.kind = ev.kind /\ x.ts = ev.ts /\ x.path = ev.path
        /\ x.writes = ev.writes /\ x.reads = ev.reads
        /\ x.session = session /\ x.content = content
        /\ x.links = evidence.links /\ x.chains = risk.chains
    <2>1. /\ DOMAIN more = {"session", "content", "links", "repeated", "chains"}
          /\ more["session"] = session /\ more["content"] = content
          /\ more["links"] = evidence.links /\ more["chains"] = risk.chains
      OBVIOUS
    <2> HIDE DEF more
    <2>2. /\ \A f \in DOMAIN ev : x[f] = ev[f]
          /\ \A f \in DOMAIN more : f \notin DOMAIN ev => x[f] = more[f]
      BY JoinedFacts
    <2> HIDE DEF x, session, content, evidence, risk
    <2>3. /\ x["kind"] = ev["kind"] /\ x["ts"] = ev["ts"] /\ x["path"] = ev["path"]
          /\ x["writes"] = ev["writes"] /\ x["reads"] = ev["reads"]
      BY <1>4, <2>2 DEF CallFields
    <2>4. /\ x["session"] = session /\ x["content"] = content
          /\ x["links"] = evidence.links /\ x["chains"] = risk.chains
      BY <1>4, <2>1, <2>2 DEF CallFields
    <2> QED BY <2>3, <2>4
  <1> HIDE DEF x, content, more
  <1>6. /\ PromptsOK(evidence.p)
        /\ \A j \in DOMAIN evidence.links : evidence.links[j][1] = session
    BY <1>2, <1>4, EvidenceWorks
  <1> HIDE DEF evidence, h
  <1>7. CapiOK(after, g) /\ after.total <= MaxArtifacts
    <2>1. CASE ev.kind # "open"
      <3>1. after = d.capi
        BY <2>1 DEF ObserveFile
      <3> HIDE DEF after
      <3> QED BY <1>2, <3>1, TracedLater
    <2>2. CASE ev.kind = "open"
      <3> DEFINE file == [session |-> session, path |-> ev.path, ts |-> ev.ts,
                          workspace |-> ev.path[1] \in Workspaces,
                          writes |-> ev.writes, reads |-> ev.reads]
      <3>1. after = ObserveFileEvent(d.capi, file, content)
        BY <2>2 DEF ObserveFile
      <3>2. /\ file.session = session /\ file.path = ev.path /\ file.ts = ev.ts
            /\ file.writes = ev.writes /\ file.reads = ev.reads
        OBVIOUS
      <3> HIDE DEF file, after
      <3>3. IsOpenOf(x, file, content)
        BY <1>5, <2>2, <3>2 DEF IsOpenOf
      <3>4. \A w \in DOMAIN h : h[w].kind = "open" => h[w].ts <= file.ts
        BY <2>2, <3>2 DEF OpensBy, h
      <3>5. /\ CapiOK(ObserveFileEvent(d.capi, file, content), Append(h, x))
            /\ ObserveFileEvent(d.capi, file, content).total <= MaxArtifacts
        BY <1>2, <1>3, <3>3, <3>4, FileWorks
      <3> QED BY <3>1, <3>5
    <2> QED BY <2>1, <2>2
  <1> HIDE DEF after, session
  <1>8. /\ CapiOK(risk.c, g) /\ risk.c.total <= MaxArtifacts
        /\ \A chain \in Range(risk.chains) : ChainTells(g, chain) /\ ChainMasked(chain)
    <2>1. CASE ev.kind # "shell"
      <3>1. risk.c = after /\ risk.chains = <<>>
        BY <2>1 DEF ObserveRisk
      <3> HIDE DEF risk
      <3> QED BY <1>7, <3>1, EmptyFacts
    <2>2. CASE ev.kind = "shell"
      <3> DEFINE p == evidence.p
                 id == ev.id
                 ts == ev.ts
                 kind == "UnexpectedShell"
      <3>1. risk = ChainsForRiskyEvent(after, p, session, id, ts, kind)
        BY <2>2 DEF ObserveRisk, session
      <3>2. PromptsOK(p) /\ ts \in Nat
        BY <1>4, <1>6
      <3> HIDE DEF risk, p, id, ts, kind, g
      <3>3. /\ CapiOK(ChainsForRiskyEvent(after, p, session, id, ts, kind).c, g)
            /\ ChainsForRiskyEvent(after, p, session, id, ts, kind).c.total <= MaxArtifacts
            /\ \A chain \in Range(ChainsForRiskyEvent(after, p, session, id, ts, kind).chains) :
                  ChainTells(g, chain) /\ ChainMasked(chain)
        BY <1>7, <3>2, RiskWorks
      <3> QED BY <3>1, <3>3
    <2> QED BY <2>1, <2>2
  <1> HIDE DEF risk
  <1>9. HistoryOK(g)
        /\ \A t : OpensBy(h, t) /\ (x.kind = "open" => x.ts \in Nat /\ x.ts <= t)
                     => OpensBy(g, t)
    <2>1. EventTells(g, x)
      BY <1>5, <1>6, <1>8 DEF EventTells
    <2> QED BY <1>2, <2>1, HistoryGrows
  <1> HIDE DEF g
  <1>10. /\ DOMAIN e = DaemonFields /\ e.pending = d.pending /\ e.total = d.total
         /\ e.prompts = evidence.p /\ e.capi = risk.c /\ e.seen = g
    BY <1>2 DEF DaemonFields
  <1> HIDE DEF e
  <1>11. PendingOK(e)
    BY <1>2, <1>10 DEF PendingOK
  <1>12. DaemonOK(e)
    BY <1>6, <1>8, <1>9, <1>10, <1>11 DEF DaemonOK
  <1> QED BY <1>1, <1>4, <1>5, <1>9, <1>10, <1>12 DEF h

LEMMA ObserveWorks ==
    ASSUME NEW d, DaemonOK(d), NEW ev, IsEvent(ev), ev.kind # "say", DiskOK(disk),
           ev.kind = "open" => OpensBy(d.seen, ev.ts)
    PROVE  /\ DaemonOK(Observe(d, ev))
           /\ \A t : OpensBy(d.seen, t) /\ (ev.kind = "open" => ev.ts <= t)
                        => OpensBy(Observe(d, ev).seen, t)
  <1> DEFINE drained == DrainPendingPrompts(d, ev.pid)
             left == EvictPendingPrompts(drained, ev.ts)
  <1>1. Observe(d, ev) = ObserveDrained(left, ev)
    BY DEF Observe
  <1>2. DaemonOK(drained) /\ \A t : OpensBy(d.seen, t) => OpensBy(drained.seen, t)
    BY DrainWorks
  <1> HIDE DEF drained
  <1>3. DaemonOK(left) /\ left.seen = drained.seen
    BY <1>2, EvictPendingWorks
  <1> HIDE DEF left
  <1>4. ev.kind = "open" => OpensBy(left.seen, ev.ts)
    BY <1>2, <1>3
  <1>5. /\ DaemonOK(ObserveDrained(left, ev))
        /\ \A t : OpensBy(left.seen, t) /\ (ev.kind = "open" => ev.ts <= t)
                     => OpensBy(ObserveDrained(left, ev).seen, t)
    BY <1>3, <1>4, DrainedWorks
  <1> QED BY <1>1, <1>2, <1>3, <1>5

-----------------------------------------------------------------------------
(* The invariant.                                                          *)

FlightOK ==
    /\ IsSeq(flight)
    /\ \A i \in DOMAIN flight :
          /\ IsEvent(flight[i]) /\ flight[i].ts <= clock
          /\ RingOf(flight[i]) = "fs" => OpensBy(seen, flight[i].ts)
    /\ \A i, j \in DOMAIN flight : i < j => flight[i].ts <= flight[j].ts

HostOK ==
    /\ scenario \in Scenarios
    /\ clock \in Nat
    /\ DiskOK(disk)
    /\ OpensBy(seen, clock)
    /\ FlightOK

IInv == HostOK /\ DaemonOK(Daemon)

LEMMA RemoveAtFacts ==
    ASSUME NEW s, IsSeq(s), NEW i \in DOMAIN s
    PROVE  /\ IsSeq(RemoveAt(s, i))
           /\ \A k \in DOMAIN RemoveAt(s, i) :
                 LET o == IF k < i THEN k ELSE k + 1
                 IN  o \in DOMAIN s \ {i} /\ RemoveAt(s, i)[k] = s[o]
           /\ DOMAIN RemoveAt(s, i) \subseteq Nat
  <1> DEFINE L == Len(s)
             a == SubSeq(s, 1, i - 1)
             b == SubSeq(s, i + 1, L)
             r == [k \in 1 .. L - 1 |-> IF k < i THEN s[k] ELSE s[k + 1]]
  <1>1. s \in Seq(Range(s)) /\ L \in Nat /\ DOMAIN s = 1 .. L /\ i \in 1 .. L
    BY SeqFacts DEF IsSeq
  <1>2. a = [k \in 1 .. i - 1 |-> s[k]]
    BY <1>1
  <1>3. b = [k \in 1 .. L - i |-> s[k + i]]
    BY <1>1
  <1> DEFINE m == i - 1
             n == L - i
  <1>13. m \in Nat /\ n \in Nat /\ m + n = L - 1
    BY <1>1
  <1>14. /\ \A k \in 1 .. m : s[k] \in Range(s)
         /\ \A k \in 1 .. n : s[k + i] \in Range(s)
    BY <1>1 DEF Range
  <1>15. a = [k \in 1 .. m |-> s[k]] /\ b = [k \in 1 .. n |-> s[k + i]]
    BY <1>2, <1>3
  <1> HIDE DEF a, b, m, n
  <1>4. a \in Seq(Range(s)) /\ Len(a) = m
    BY SMTT(30), <1>13, <1>14, <1>15
  <1>5. b \in Seq(Range(s)) /\ Len(b) = n
    BY SMTT(30), <1>13, <1>14, <1>15
  <1>16. a \o b = [k \in 1 .. m + n |-> IF k <= m THEN a[k] ELSE b[k - m]]
    <2> DEFINE c == a \o b
               d == [k \in 1 .. m + n |-> IF k <= m THEN a[k] ELSE b[k - m]]
    <2>1. c \in Seq(Range(s)) /\ Len(c) = m + n
      BY <1>4, <1>5, <1>13
    <2>2. \A k \in 1 .. m + n : c[k] = IF k <= m THEN a[k] ELSE b[k - m]
      BY <1>4, <1>5, <1>13
    <2> HIDE DEF c
    <2>3. c = [k \in 1 .. m + n |-> c[k]]
      BY <2>1
    <2>4. c = d
      BY <2>2, <2>3
    <2> QED BY <2>4 DEF c
  <1>6. a \o b = [k \in 1 .. (i - 1) + (L - i) |-> IF k <= i - 1 THEN a[k] ELSE b[k - (i - 1)]]
    BY <1>16 DEF m, n
  <1>7. \A k \in 1 .. L - 1 : (a \o b)[k] = r[k]
    <2> TAKE k \in 1 .. L - 1
    <2>1. k \in 1 .. (i - 1) + (L - i)
      BY <1>1
    <2>2. CASE k < i
      <3>1. k <= i - 1 /\ k \in 1 .. i - 1
        BY <1>1, <2>2
      <3> QED BY <1>2, <1>6, <2>1, <2>2, <3>1
    <2>3. CASE ~(k < i)
      <3>1. ~(k <= i - 1) /\ k - (i - 1) \in 1 .. L - i /\ (k - (i - 1)) + i = k + 1
        BY <1>1, <2>3
      <3>2. (a \o b)[k] = b[k - (i - 1)]
        BY <1>6, <2>1, <3>1
      <3>3. b[k - (i - 1)] = s[(k - (i - 1)) + i]
        BY <1>3, <3>1
      <3> QED BY <2>3, <3>1, <3>2, <3>3
    <2> QED BY <2>2, <2>3
  <1>8. a \o b = r
    <2>1. (i - 1) + (L - i) = L - 1
      BY <1>1
    <2>2. DOMAIN (a \o b) = 1 .. L - 1 /\ a \o b = [k \in 1 .. L - 1 |-> (a \o b)[k]]
      BY <1>6, <2>1
    <2> QED BY <1>7, <2>2
  <1>9. RemoveAt(s, i) = r
    BY <1>8 DEF RemoveAt, a, b
  <1>10. r = [k \in 1 .. L - 1 |-> r[k]] /\ L - 1 \in Nat /\ DOMAIN r = 1 .. L - 1
    BY <1>1
  <1>11. IsSeq(r)
    <2> HIDE DEF r
    <2> QED BY <1>10, SeqByIndex
  <1>12. ASSUME NEW k \in DOMAIN r
         PROVE  LET o == IF k < i THEN k ELSE k + 1
                IN  o \in DOMAIN s \ {i} /\ r[k] = s[o]
    BY <1>1
  <1>17. DOMAIN r \subseteq Nat
    BY <1>10
  <1> QED BY <1>9, <1>11, <1>12, <1>17

LEMMA InitWorks ==
    ASSUME Init
    PROVE  IInv
  <1>1. Places(EmptyMap) = {} /\ DOMAIN EmptyMap = {}
    <2>1. DOMAIN EmptyMap = {}
      BY DEF EmptyMap
    <2> QED BY <2>1, PlaceFacts
  <1>2. IsFiniteSet(Places(EmptyMap)) /\ TotalOf(EmptyMap) = 0
    BY <1>1, FS_EmptySet DEF TotalOf
  <1>3. KeysIn(<<>>) = {} /\ Len(<<>>) = 0
    BY DEF KeysIn
  <1>4. PendingOK(Daemon)
    <2>1. Daemon.pending = EmptyMap /\ Daemon.total = 0
      BY DEF Init, Daemon
    <2>2. QueuesOK(EmptyMap)
      BY <1>1 DEF QueuesOK
    <2>3. 0 <= MaxPrompts
      BY PromptAssumption
    <2> QED BY <1>2, <2>1, <2>2, <2>3 DEF PendingOK
  <1>5. PromptsOK(Daemon.prompts)
    <2>1. Daemon.prompts = NewPromptStore
      BY DEF Init, Daemon
    <2>2. NewPromptStore.prompts = <<>> /\ NewPromptStore.sessions = EmptyMap
      BY DEF NewPromptStore
    <2>3. SessionsAgree(<<>>, EmptyMap)
      BY <1>1, <1>3 DEF SessionsAgree
    <2> QED BY <1>3, <2>1, <2>2, <2>3, EmptyFacts, PromptAssumption DEF PromptsOK
  <1>6. CapiOK(Daemon.capi, Daemon.seen) /\ Daemon.capi.total <= MaxArtifacts
    <2> DEFINE c == NewCapi
    <2>1. Daemon.capi = c
      BY DEF Init, Daemon
    <2>2. /\ DOMAIN c = CapiFields
          /\ c.artifacts = <<>> /\ c.lineage = <<>> /\ c.candidates = <<>> /\ c.order = <<>>
          /\ c.pending = EmptyMap /\ c.total = 0
      BY DEF NewCapi, CapiFields
    <2> HIDE DEF c
    <2>3. 0 <= MaxArtifacts
      BY CapiAssumption
    <2>4. CapiTyped(c)
      BY <1>1, <1>3, <2>2, <2>3, EmptyFacts DEF CapiTyped
    <2>5. Traced(c, Daemon.seen)
      BY <1>1, <2>2, EmptyFacts DEF Traced, LineageTells, ReadsTell, CandidatesTell
    <2>6. Counted(c)
      BY <1>1, <1>2, <2>2 DEF Counted, InLine
    <2> QED BY <2>1, <2>2, <2>3, <2>4, <2>5, <2>6 DEF CapiOK
  <1>7. HistoryOK(Daemon.seen)
    <2>1. Daemon.seen = <<>>
      BY DEF Init, Daemon
    <2> QED BY <2>1, EmptyFacts DEF HistoryOK
  <1>8. DaemonOK(Daemon)
    <2>1. DOMAIN Daemon = DaemonFields
      BY DEF Daemon, DaemonFields
    <2> QED BY <1>4, <1>5, <1>6, <1>7, <2>1 DEF DaemonOK
  <1>9. HostOK
    <2>1. DiskOK(disk)
      BY <1>1 DEF DiskOK, Init
    <2>2. OpensBy(seen, clock)
      BY EmptyFacts DEF OpensBy, Init
    <2>3. FlightOK
      BY EmptyFacts DEF FlightOK, Init
    <2> QED BY <2>1, <2>2, <2>3 DEF HostOK, Init
  <1> QED BY <1>8, <1>9 DEF IInv

LEMMA CallWorks ==
    ASSUME IInv, NEW call \in scenario.calls, NEW gap \in scenario.gaps, Call(call, gap)
    PROVE  IInv'
  <1> DEFINE now == clock + gap
             more == [id |-> count + 1, ts |-> now]
             ev == Joined(call, more)
  <1>1. scenario \in Scenarios /\ clock \in Nat /\ DiskOK(disk) /\ OpensBy(seen, clock) /\ FlightOK
    BY DEF IInv, HostOK
  <1>2. IsCall(call) /\ gap \in Nat
    BY <1>1, CorrelationAssumption
  <1>3. /\ flight' = Append(flight, ev) /\ clock' = now /\ scenario' = scenario
        /\ seen' = seen /\ Daemon' = Daemon
        /\ disk' = CASE call.kind = "open" /\ call.writes -> Put(disk, call.path, call.text)
                     [] call.kind = "remove" -> Without(disk, call.path)
                     [] OTHER -> disk
    BY DEF Call, daemon_vars, Daemon
  <1>4. IsEvent(ev) /\ ev.ts = now
    <2>1. DOMAIN call = CallFields
      BY <1>2 DEF IsCall, CallFields
    <2>2. DOMAIN more = {"id", "ts"} /\ more["ts"] = now
      OBVIOUS
    <2> HIDE DEF more
    <2>3. /\ DOMAIN ev = DOMAIN call \cup DOMAIN more
          /\ \A f \in DOMAIN call : ev[f] = call[f]
          /\ \A f \in DOMAIN more : f \notin DOMAIN call => ev[f] = more[f]
      BY JoinedFacts
    <2> HIDE DEF ev
    <2>4. ev["kind"] = call["kind"] /\ ev["pid"] = call["pid"] /\ ev["text"] = call["text"]
      BY <2>1, <2>3 DEF CallFields
    <2>5. ev["ts"] = now
      BY <2>1, <2>2, <2>3 DEF CallFields
    <2>6. now \in Nat
      BY <1>1, <1>2
    <2> HIDE DEF now
    <2> QED BY <1>2, <2>1, <2>2, <2>3, <2>4, <2>5, <2>6 DEF IsCall, IsEvent
  <1>5. now \in Nat /\ clock <= now
    BY <1>1, <1>2
  <1>6. OpensBy(seen, now)
    BY <1>1, <1>5 DEF OpensBy
  <1> HIDE DEF ev, now
  <1>7. DiskOK(disk')
    <2>1. CASE call.kind = "open" /\ call.writes
      <3>1. disk' = Put(disk, call.path, call.text)
        BY <1>3, <2>1
      <3>2. IsText(call.text)
        BY <1>2 DEF IsCall
      <3> QED BY <1>1, <3>1, <3>2 DEF DiskOK, Put
    <2>2. CASE ~(call.kind = "open" /\ call.writes) /\ call.kind = "remove"
      <3>1. disk' = Without(disk, call.path)
        BY <1>3, <2>2
      <3> QED BY <1>1, <3>1 DEF DiskOK, Without, Keep
    <2>3. CASE ~(call.kind = "open" /\ call.writes) /\ call.kind # "remove"
      <3>1. disk' = disk
        BY <1>3, <2>3
      <3> QED BY <1>1, <3>1
    <2> QED BY <2>1, <2>2, <2>3
  <1>8. FlightOK'
    <2>1. IsSeq(flight)
      BY <1>1 DEF FlightOK
    <2>2. /\ IsSeq(flight') /\ DOMAIN flight' = 1 .. Len(flight) + 1
          /\ DOMAIN flight = 1 .. Len(flight) /\ Len(flight) \in Nat
          /\ flight'[Len(flight) + 1] = ev /\ \A i \in DOMAIN flight : flight'[i] = flight[i]
      BY <1>3, <2>1, SeqFacts, AppendFacts
    <2>3. \A i \in DOMAIN flight' : i \in DOMAIN flight \/ i = Len(flight) + 1
      BY <2>2
    <2>4. ASSUME NEW i \in DOMAIN flight'
          PROVE  /\ IsEvent(flight'[i]) /\ flight'[i].ts <= clock'
                 /\ RingOf(flight'[i]) = "fs" => OpensBy(seen', flight'[i].ts)
      <3>1. CASE i \in DOMAIN flight
        <4>1. flight'[i] = flight[i] /\ IsEvent(flight[i]) /\ flight[i].ts <= clock
              /\ (RingOf(flight[i]) = "fs" => OpensBy(seen, flight[i].ts))
          BY <1>1, <2>2, <3>1 DEF FlightOK
        <4>2. flight[i].ts \in Nat
          BY <4>1 DEF IsEvent
        <4>3. flight[i].ts <= now
          BY <1>1, <1>5, <4>1, <4>2
        <4> QED BY <1>3, <4>1, <4>3
      <3>2. CASE i = Len(flight) + 1
        BY <1>3, <1>4, <1>5, <1>6, <2>2, <3>2
      <3> QED BY <2>3, <3>1, <3>2
    <2>5. ASSUME NEW i \in DOMAIN flight', NEW j \in DOMAIN flight', i < j
          PROVE  flight'[i].ts <= flight'[j].ts
      <3>1. i \in DOMAIN flight /\ flight'[i] = flight[i]
        BY <2>2, <2>5
      <3>2. CASE j \in DOMAIN flight
        BY <1>1, <2>2, <2>5, <3>1, <3>2 DEF FlightOK
      <3>3. CASE j = Len(flight) + 1
        <4>1. flight[i].ts <= clock /\ flight[i].ts \in Nat
          BY <1>1, <3>1 DEF FlightOK, IsEvent
        <4>2. flight[i].ts <= now
          BY <1>1, <1>5, <4>1
        <4> QED BY <1>4, <2>2, <3>1, <3>3, <4>2
      <3> QED BY <2>3, <3>2, <3>3
    <2> QED BY <2>2, <2>4, <2>5 DEF FlightOK
  <1>9. HostOK'
    BY <1>1, <1>3, <1>5, <1>6, <1>7, <1>8 DEF HostOK
  <1>10. DaemonOK(Daemon')
    BY <1>3 DEF IInv
  <1> QED BY <1>9, <1>10 DEF IInv

\* What an event leaves the daemon with.
LEMMA StepWorks ==
    ASSUME IInv, NEW ring, Process(ring)
    PROVE  \E i \in DOMAIN flight :
              /\ RingOf(flight[i]) = ring
              /\ \A j \in 1 .. i - 1 : RingOf(flight[j]) # ring
              /\ flight' = RemoveAt(flight, i)
              /\ DaemonOK(Daemon')
              /\ \A t : OpensBy(seen, t) /\ (flight[i].kind = "open" => flight[i].ts <= t)
                           => OpensBy(seen', t)
  <1>1. /\ DaemonOK(Daemon) /\ DiskOK(disk) /\ FlightOK /\ Daemon.seen = seen
    BY DEF IInv, HostOK, Daemon
  <1>2. \A d : Becomes(d) /\ DaemonOK(d) => DaemonOK(Daemon') /\ seen' = d.seen
    <2> SUFFICES ASSUME NEW d, Becomes(d), DaemonOK(d)
                 PROVE  DaemonOK(Daemon') /\ seen' = d.seen
      OBVIOUS
    <2> DEFINE e == [pending |-> d.pending, total |-> d.total, prompts |-> d.prompts,
                     capi |-> d.capi, seen |-> d.seen]
    <2>1. Daemon' = e /\ seen' = d.seen
      BY DEF Becomes, Daemon
    <2>2. /\ DOMAIN e = DaemonFields /\ e.pending = d.pending /\ e.total = d.total
          /\ e.prompts = d.prompts /\ e.capi = d.capi /\ e.seen = d.seen
      BY DEF DaemonFields
    <2> HIDE DEF e
    <2> QED BY <2>1, <2>2 DEF DaemonOK, PendingOK
  <1>3. PICK i \in DOMAIN flight :
           /\ RingOf(flight[i]) = ring
           /\ \A j \in 1 .. i - 1 : RingOf(flight[j]) # ring
           /\ flight' = RemoveAt(flight, i)
           /\ Becomes(CASE flight[i].kind = "say" ->
                             IF flight[i].pid \in bound
                             THEN TakePrompt(Daemon, flight[i].pid, flight[i])
                             ELSE QueuePendingPrompt(Daemon, flight[i].pid, flight[i])
                        [] flight[i].kind # "say" /\ flight[i].pid \in bound' ->
                             Observe(Daemon, flight[i])
                        [] OTHER -> EvictPendingPrompts(Daemon, flight[i].ts))
    BY Zenon DEF Process
  <1> DEFINE ev == flight[i]
             d == Daemon
             D == CASE ev.kind = "say" -> IF ev.pid \in bound THEN TakePrompt(d, ev.pid, ev)
                                          ELSE QueuePendingPrompt(d, ev.pid, ev)
                    [] ev.kind # "say" /\ ev.pid \in bound' -> Observe(d, ev)
                    [] OTHER -> EvictPendingPrompts(d, ev.ts)
             Works(e) == /\ DaemonOK(e)
                         /\ \A t : OpensBy(d.seen, t) /\ (ev.kind = "open" => ev.ts <= t)
                                      => OpensBy(e.seen, t)
  <1>4. /\ IsEvent(ev) /\ ev.pid \in Pids /\ ev.ts \in Nat /\ IsText(ev.text)
        /\ ev.kind = "open" => OpensBy(d.seen, ev.ts)
    <2>1. IsEvent(ev) /\ (RingOf(ev) = "fs" => OpensBy(seen, ev.ts))
      BY <1>1 DEF FlightOK
    <2>2. ev.kind = "open" => RingOf(ev) = "fs"
      BY DEF RingOf
    <2> QED BY <1>1, <2>1, <2>2 DEF IsEvent
  <1>5. Becomes(D)
    BY <1>3, Zenon
  <1> HIDE DEF ev
  <1>6. DaemonOK(d)
    BY <1>1
  <1> HIDE DEF d
  <1>7. Works(TakePrompt(d, ev.pid, ev))
    BY <1>4, <1>6, TakePromptWorks
  <1>8. Works(QueuePendingPrompt(d, ev.pid, ev))
    BY <1>4, <1>6, QueueWorks
  <1>9. Works(EvictPendingPrompts(d, ev.ts))
    BY <1>6, EvictPendingWorks
  <1>10. ev.kind # "say" => Works(Observe(d, ev))
    BY <1>1, <1>4, <1>6, ObserveWorks
  <1> HIDE DEF Works
  <1>11. Works(D)
    <2>1. CASE ev.kind = "say"
      BY <1>7, <1>8, <2>1
    <2>2. CASE ev.kind # "say" /\ ev.pid \in bound'
      BY <1>10, <2>2
    <2>3. CASE ev.kind # "say" /\ ~(ev.pid \in bound')
      BY <1>9, <2>3
    <2> QED BY <2>1, <2>2, <2>3
  <1> HIDE DEF D
  <1>12. DaemonOK(D)
    BY <1>11 DEF Works
  <1>13. DaemonOK(Daemon') /\ seen' = D.seen
    BY <1>2, <1>5, <1>12
  <1>14. \A t : OpensBy(seen, t) /\ (ev.kind = "open" => ev.ts <= t) => OpensBy(seen', t)
    BY <1>1, <1>11, <1>13 DEF Works, d
  <1> QED BY <1>3, <1>12, <1>13, <1>14 DEF ev

LEMMA ProcessWorks ==
    ASSUME IInv, NEW ring, Process(ring)
    PROVE  IInv'
  <1>1. scenario \in Scenarios /\ clock \in Nat /\ DiskOK(disk) /\ OpensBy(seen, clock) /\ FlightOK
    BY DEF IInv, HostOK
  <1>2. PICK i \in DOMAIN flight :
           /\ RingOf(flight[i]) = ring
           /\ \A j \in 1 .. i - 1 : RingOf(flight[j]) # ring
           /\ flight' = RemoveAt(flight, i)
           /\ DaemonOK(Daemon')
           /\ \A t : OpensBy(seen, t) /\ (flight[i].kind = "open" => flight[i].ts <= t)
                        => OpensBy(seen', t)
    BY StepWorks
  <1>3. scenario' = scenario /\ clock' = clock /\ disk' = disk
    BY DEF Process, host_vars
  <1>4. IsSeq(flight) /\ DOMAIN flight = 1 .. Len(flight) /\ Len(flight) \in Nat
    BY <1>1, SeqFacts DEF FlightOK
  <1>5. OpensBy(seen', clock)
    <2>1. flight[i].ts <= clock
      BY <1>1 DEF FlightOK
    <2> QED BY <1>1, <1>2, <2>1
  <1> DEFINE left == RemoveAt(flight, i)
  <1>6. /\ IsSeq(left) /\ DOMAIN left \subseteq Nat
        /\ \A k \in DOMAIN left :
              LET o == IF k < i THEN k ELSE k + 1
              IN  o \in DOMAIN flight \ {i} /\ left[k] = flight[o]
    BY <1>4, RemoveAtFacts
  <1> HIDE DEF left
  <1>7. ASSUME NEW k \in DOMAIN left
        PROVE  /\ IsEvent(left[k]) /\ left[k].ts <= clock
               /\ RingOf(left[k]) = "fs" => OpensBy(seen', left[k].ts)
    <2>1. PICK o \in DOMAIN flight \ {i} : left[k] = flight[o]
      BY <1>6
    <2>2. /\ IsEvent(flight[o]) /\ flight[o].ts <= clock
          /\ RingOf(flight[o]) = "fs" => OpensBy(seen, flight[o].ts)
      BY <1>1 DEF FlightOK
    <2>3. ASSUME RingOf(flight[o]) = "fs"
          PROVE  OpensBy(seen', flight[o].ts)
      <3>1. ASSUME flight[i].kind = "open"
            PROVE  flight[i].ts <= flight[o].ts
        <4>1. ring = "fs"
          BY <1>2, <3>1 DEF RingOf
        <4>2. ~(o < i)
          BY <1>2, <1>4, <2>3, <4>1
        <4>3. i < o
          BY <1>4, <4>2
        <4> QED BY <1>1, <4>3 DEF FlightOK
      <3> QED BY <1>2, <2>2, <2>3, <3>1
    <2> QED BY <2>1, <2>2, <2>3
  <1>8. ASSUME NEW k \in DOMAIN left, NEW m \in DOMAIN left, k < m
        PROVE  left[k].ts <= left[m].ts
    <2> DEFINE a == IF k < i THEN k ELSE k + 1
               b == IF m < i THEN m ELSE m + 1
    <2>1. a \in DOMAIN flight /\ b \in DOMAIN flight /\ left[k] = flight[a] /\ left[m] = flight[b]
      BY <1>6
    <2>2. a < b
      BY <1>4, <1>6, <1>8
    <2> HIDE DEF a, b
    <2> QED BY <1>1, <2>1, <2>2 DEF FlightOK
  <1>9. FlightOK'
    <2>1. flight' = left
      BY <1>2 DEF left
    <2> QED BY <1>3, <1>6, <1>7, <1>8, <2>1 DEF FlightOK
  <1>10. HostOK'
    BY <1>1, <1>3, <1>5, <1>9 DEF HostOK
  <1> QED BY <1>2, <1>10 DEF IInv

LEMMA StepKeepsInvariant ==
    ASSUME IInv, [Next]_vars
    PROVE  IInv'
  <1>1. CASE \E call \in scenario.calls, gap \in scenario.gaps : Call(call, gap)
    BY <1>1, CallWorks
  <1>2. CASE \E ring \in {"proc", "fs", "tls"} : Process(ring)
    BY <1>2, ProcessWorks
  <1>3. CASE UNCHANGED vars
    <2>1. /\ UNCHANGED <<scenario, clock, disk, flight, seen>>
          /\ UNCHANGED <<pending, pending_total, prompts, capi>>
      BY <1>3 DEF vars, host_vars, daemon_vars
    <2>2. DaemonOK(Daemon)'
      BY <2>1 DEF IInv, Daemon
    <2>3. HostOK'
      BY <2>1 DEF IInv, HostOK, FlightOK
    <2> QED BY <2>2, <2>3 DEF IInv
  <1> QED BY <1>1, <1>2, <1>3 DEF Next

\* The rings hold what the host did in its order, the prompts agree with their
\* index of sessions, each read that waits has its token in the order of
\* eviction, and prompts, reads, candidates and chains name events that were
\* processed (process_owned_event and the stores it feeds).
THEOREM CorrelationInvariant == Spec => []IInv
  <1>1. Init => IInv
    BY InitWorks
  <1>2. IInv /\ [Next]_vars => IInv'
    BY StepKeepsInvariant
  <1> QED BY <1>1, <1>2, PTL DEF Spec

-----------------------------------------------------------------------------
(* The theorems.                                                           *)

\* The index of the sessions names the prompts there are, each once and under
\* its own session; the totals of what waits are totals, every read that waits
\* has its token in the order reads are given up in, no store exceeds its bound,
\* and a risky event is linked to prompts of its own session (PromptStore::insert,
\* evict_session, remove_session_entries; enforce_pending_prompt_bound_to,
\* evict_pending_prompts; enforce_bounds, prune; link_risky_event).
THEOREM CorrelationTypeCorrect == Spec => []TypeOK
  <1>1. IInv => TypeOK
    <2> SUFFICES ASSUME IInv
                 PROVE  TypeOK
      OBVIOUS
    <2>1. /\ PendingOK(Daemon) /\ PromptsOK(prompts) /\ CapiOK(capi, seen)
          /\ capi.total <= MaxArtifacts /\ HistoryOK(seen)
          /\ pending_total = TotalOf(pending) /\ pending_total <= MaxPrompts
      BY DEF IInv, DaemonOK, PendingOK, Daemon
    <2>2. /\ \A s \in DOMAIN prompts.sessions :
                /\ IsInjective(prompts.sessions[s])
                /\ Range(prompts.sessions[s]) = {id \in KeysIn(prompts.prompts) : id[1] = s}
          /\ \A id \in KeysIn(prompts.prompts) : id[1] \in DOMAIN prompts.sessions
          /\ Len(prompts.prompts) <= MaxPrompts
      BY <2>1 DEF PromptsOK, SessionsAgree
    <2>3. capi.total = TotalOf(capi.pending)
      BY <2>1 DEF CapiOK, Counted
    <2>4. PendingReadTokens(capi) \subseteq Range(capi.order)
      <3> SUFFICES ASSUME NEW s \in DOMAIN capi.pending, NEW i \in DOMAIN capi.pending[s]
                   PROVE  TokenOf(s, capi.pending[s][i]) \in Range(capi.order)
        BY DEF PendingReadTokens
      <3> DEFINE token == TokenOf(s, capi.pending[s][i])
                 B == Bearing(s, capi.pending[s], token)
                 O == Occurs(capi.order, token)
      <3>1. i \in B
        BY DEF Bearing
      <3>2. IsSeq(capi.pending[s]) /\ IsSeq(capi.order) /\ Cardinality(B) <= Cardinality(O)
        BY <2>1 DEF CapiOK, CapiTyped, Counted, InLine
      <3>3. IsFiniteSet(B)
        <4>1. /\ DOMAIN capi.pending[s] = 1 .. Len(capi.pending[s])
              /\ Len(capi.pending[s]) \in Nat
          BY <3>2, SeqFacts
        <4>2. IsFiniteSet(DOMAIN capi.pending[s]) /\ B \in SUBSET DOMAIN capi.pending[s]
          BY <4>1, FS_Interval DEF Bearing
        <4> QED BY <4>2, FS_Subset
      <3> HIDE DEF B
      <3>4. Cardinality(B) \in Nat /\ Cardinality(B) # 0
        BY <3>1, <3>3, FS_EmptySet, FS_CardinalityType
      <3>5. O # {}
        <4>1. O = {} => Cardinality(O) = 0
          BY FS_EmptySet
        <4> HIDE DEF O
        <4> QED BY <3>2, <3>4, <4>1
      <3> QED BY <3>5 DEF Occurs, Range
    <2>5. {Len(capi.artifacts), Len(capi.lineage), Len(capi.candidates)} \subseteq 0 .. MaxArtifacts
      <3>1. /\ IsSeq(capi.artifacts) /\ Len(capi.artifacts) <= MaxArtifacts
            /\ IsSeq(capi.lineage) /\ Len(capi.lineage) <= MaxArtifacts
            /\ IsSeq(capi.candidates) /\ Len(capi.candidates) <= MaxArtifacts
        BY <2>1 DEF CapiOK, CapiTyped
      <3>2. /\ Len(capi.artifacts) \in Nat /\ Len(capi.lineage) \in Nat
            /\ Len(capi.candidates) \in Nat
        BY <3>1, SeqFacts
      <3> QED BY <3>1, <3>2, CapiAssumption
    <2>6. \A i \in DOMAIN seen : seen[i].kind # "say" =>
             \A j \in DOMAIN seen[i].links : seen[i].links[j][1] = seen[i].session
      BY <2>1 DEF HistoryOK, EventTells
    <2> QED BY <2>1, <2>2, <2>3, <2>4, <2>5, <2>6 DEF TypeOK
  <1> QED BY <1>1, CorrelationInvariant, PTL

LEMMA ChainsNowTell ==
    ASSUME IInv, NEW chain \in ChainsNow
    PROVE  ChainTells(seen, chain) /\ ChainMasked(chain)
  <1>1. HistoryOK(seen)
    BY DEF IInv, DaemonOK, Daemon
  <1>2. seen # <<>> /\ Last(seen).kind # "say" /\ chain \in Range(Last(seen).chains)
    BY DEF ChainsNow
  <1>3. Len(seen) \in DOMAIN seen
    <2>1. seen \in Seq(Range(seen))
      BY <1>1 DEF HistoryOK, IsSeq
    <2> QED BY <1>2, <2>1
  <1>4. EventTells(seen, Last(seen))
    BY <1>1, <1>3 DEF HistoryOK, Last
  <1> QED BY <1>2, <1>4 DEF EventTells

\* Whatever the processes, the calls, the delays between the rings and the
\* bounds of the stores, a chain that is reported names a write, a read of the
\* same file by another session, a prompt of that session which resembles what it
\* read, and a risky event, in this order and within CAPI_WINDOW_MS
\* (observe_file_event, observe_prompt, build_evidence_chain).
THEOREM ChainsTellWhatHappened == Spec => []ChainsArePropagated
  <1>1. IInv => ChainsArePropagated
    BY ChainsNowTell DEF ChainsArePropagated, ChainTells
  <1> QED BY <1>1, CorrelationInvariant, PTL

\* What a chain quotes, of any text, bears no secret token and nothing of a PEM
\* block, redacted once or twice (redact_excerpt_string).
THEOREM SecretsStayMasked == Spec => []ExcerptsAreMasked
  <1>1. IInv => ExcerptsAreMasked
    BY ChainsNowTell DEF ExcerptsAreMasked, ChainMasked, Secrets
  <1> QED BY <1>1, CorrelationInvariant, PTL

-----------------------------------------------------------------------------
(* What stays: as long as there is room, only what has become too old is   *)
(* given up.                                                               *)

\* An insertion for which there is room.
LEMMA RoomFacts ==
    ASSUME NEW list, IsSeq(list), NEW key, NEW value, NEW capacity \in Nat \ {0},
           Len(list) + 1 <= capacity
    PROVE  /\ IsSeq(InsertYoungest(list, key, value, capacity))
           /\ Len(InsertYoungest(list, key, value, capacity)) <= Len(list) + 1
           /\ KeysIn(InsertYoungest(list, key, value, capacity)) = KeysIn(list) \cup {key}
           /\ \A m \in DOMAIN InsertYoungest(list, key, value, capacity) :
                 \/ InsertYoungest(list, key, value, capacity)[m]
                       = [key |-> key, value |-> value]
                 \/ \E i \in DOMAIN list :
                       /\ InsertYoungest(list, key, value, capacity)[m] = list[i]
                       /\ list[i].key # key
  <1> DEFINE keys == {key}
             rest == RemoveKeys(list, keys)
             new == [key |-> key, value |-> value]
             grown == Append(rest, new)
             r == InsertYoungest(list, key, value, capacity)
  <1>1. r = IF Len(grown) > capacity THEN Tail(grown) ELSE grown
    BY DEF InsertYoungest
  <1>2. Len(list) \in Nat
    BY SeqFacts
  <1>3. /\ IsSeq(rest) /\ Len(rest) <= Len(list) /\ KeysIn(rest) = KeysIn(list) \ keys
    BY RemoveKeysFacts
  <1>4. new.key = key
    OBVIOUS
  <1> HIDE DEF new, rest
  <1>5. Len(rest) \in Nat /\ DOMAIN rest = 1 .. Len(rest)
    BY <1>3, SeqFacts
  <1>6. /\ IsSeq(grown) /\ Len(grown) = Len(rest) + 1
        /\ DOMAIN grown = 1 .. Len(rest) + 1
        /\ \A i \in DOMAIN rest : grown[i] = rest[i]
        /\ grown[Len(rest) + 1] = new
    BY <1>3, AppendFacts
  <1> HIDE DEF grown
  <1>7. ~(Len(grown) > capacity) /\ Len(grown) <= Len(list) + 1 /\ Len(list) <= capacity
    BY <1>2, <1>3, <1>5, <1>6
  <1>8. r = grown
    BY <1>1, <1>7
  <1>9. KeysIn(grown) = KeysIn(rest) \cup {key}
    <2>1. \A i \in DOMAIN grown : i \in DOMAIN rest \/ i = Len(rest) + 1
      BY <1>5, <1>6
    <2>2. DOMAIN rest \subseteq DOMAIN grown /\ Len(rest) + 1 \in DOMAIN grown
      BY <1>5, <1>6
    <2>3. \A k \in KeysIn(grown) : k \in KeysIn(rest) \/ k = key
      <3> TAKE k \in KeysIn(grown)
      <3>1. PICK i \in DOMAIN grown : k = grown[i].key
        BY DEF KeysIn
      <3>2. CASE i \in DOMAIN rest
        BY <1>6, <3>1, <3>2 DEF KeysIn
      <3>3. CASE i = Len(rest) + 1
        BY <1>4, <1>6, <3>1, <3>3
      <3> QED BY <2>1, <3>2, <3>3
    <2>4. key \in KeysIn(grown)
      BY <1>4, <1>6, <2>2 DEF KeysIn
    <2>5. KeysIn(rest) \subseteq KeysIn(grown)
      <3> SUFFICES ASSUME NEW i \in DOMAIN rest
                   PROVE  rest[i].key \in KeysIn(grown)
        BY DEF KeysIn
      <3>1. i \in DOMAIN grown /\ grown[i] = rest[i]
        BY <1>6, <2>2
      <3> QED BY <3>1 DEF KeysIn
    <2> QED BY <2>3, <2>4, <2>5
  <1>10. \A m \in DOMAIN r : \/ r[m] = [key |-> key, value |-> value]
                             \/ \E i \in DOMAIN list : r[m] = list[i] /\ list[i].key # key
    BY <1>2, <1>7, InsertFacts
  <1> HIDE DEF r
  <1>11. KeysIn(r) = KeysIn(list) \cup {key}
    BY <1>3, <1>8, <1>9
  <1> QED BY <1>6, <1>7, <1>8, <1>10, <1>11 DEF r

LEMMA ReadsFacts ==
    ASSUME NEW c, CapiTyped(c), NEW s
    PROVE  IsSeq(ReadsOf(c, s)) /\ Len(ReadsOf(c, s)) \in Nat
  <1>1. IsSeq(<<>>)
    BY DEF IsSeq
  <1>2. IsSeq(ReadsOf(c, s))
    BY <1>1 DEF CapiTyped, ReadsOf
  <1> QED BY <1>2, SeqFacts

\* What is kept when some reads go.
LEMMA KeepReadsKeeps ==
    ASSUME NEW c, CapiTyped(c), NEW kept
    PROVE  LET d == KeepReads(c, kept)
           IN  /\ DOMAIN d = CapiFields
               /\ d.artifacts = c.artifacts /\ d.lineage = c.lineage
               /\ d.candidates = c.candidates /\ d.emitted = c.emitted
               /\ \A s : Len(ReadsOf(d, s)) <= Len(ReadsOf(c, s))
               /\ \A s \in DOMAIN c.pending : \A i \in DOMAIN c.pending[s] :
                     <<s, i>> \in kept => c.pending[s][i] \in Range(ReadsOf(d, s))
  <1> DEFINE q == c.pending
             r == [s \in DOMAIN q |-> Picked(q[s], KeptAt(q, s, kept))]
             d == KeepReads(c, kept)
  <1>1. DOMAIN c = CapiFields
    BY DEF CapiTyped
  <1>2. /\ DOMAIN d = CapiFields
        /\ d.artifacts = c.artifacts /\ d.lineage = c.lineage /\ d.candidates = c.candidates
        /\ d.emitted = c.emitted /\ d.pending = r
    BY <1>1 DEF KeepReads, KeptAt, CapiFields
  <1>3. DOMAIN r = DOMAIN q /\ \A s \in DOMAIN q : r[s] = Picked(q[s], KeptAt(q, s, kept))
    OBVIOUS
  <1> HIDE DEF d, r
  <1>4. \A s \in DOMAIN q : IsSeq(q[s])
    BY DEF CapiTyped
  <1>5. ASSUME NEW s \in DOMAIN q
        PROVE  Len(r[s]) <= Len(q[s]) /\ Range(r[s]) = {q[s][i] : i \in KeptAt(q, s, kept)}
    <2> DEFINE list == q[s]
               some == KeptAt(q, s, kept)
    <2>1. IsSeq(list) /\ some \in SUBSET DOMAIN list /\ r[s] = Picked(list, some)
      BY <1>3, <1>4 DEF KeptAt
    <2> HIDE DEF list, some
    <2>2. /\ Len(Picked(list, some)) = Cardinality(some) /\ Cardinality(some) <= Len(list)
          /\ Range(Picked(list, some)) = {list[i] : i \in some}
      BY <2>1, PickedFacts
    <2> QED BY <2>1, <2>2 DEF list, some
  <1>6. \A s : ReadsOf(d, s) = IF s \in DOMAIN q THEN r[s] ELSE <<>>
    BY <1>2, <1>3 DEF ReadsOf
  <1>7. \A s : Len(ReadsOf(d, s)) <= Len(ReadsOf(c, s))
    <2> TAKE s
    <2>1. CASE s \in DOMAIN q
      BY <1>5, <1>6, <2>1 DEF ReadsOf
    <2>2. CASE s \notin DOMAIN q
      <3>1. ReadsOf(d, s) = ReadsOf(c, s)
        BY <1>6, <2>2 DEF ReadsOf
      <3>2. Len(ReadsOf(c, s)) \in Nat
        BY ReadsFacts
      <3> QED BY <3>1, <3>2
    <2> QED BY <2>1, <2>2
  <1>8. \A s \in DOMAIN q : \A i \in DOMAIN q[s] :
           <<s, i>> \in kept => q[s][i] \in Range(ReadsOf(d, s))
    BY <1>5, <1>6 DEF KeptAt
  <1> QED BY <1>2, <1>7, <1>8 DEF d, q

\* As long as there is room nothing is given up.
LEMMA EnforceIdles ==
    ASSUME NEW c, CapiTyped(c), c.total <= MaxArtifacts
    PROVE  EnforceBounds(c) = c
  <1> DEFINE N == Len(c.order)
             More(d, n) == DropOldestRead(d)
             Grows(f, n) == f = [i \in 0 .. n |-> IF i = 0 THEN c ELSE More(f[i - 1], i)]
             F == CHOOSE f : Grows(f, N)
             enough == {n \in 0 .. N : F[n].total <= MaxArtifacts}
  <1>1. N \in Nat
    BY SeqFacts DEF CapiTyped
  <1>2. EnforceBounds(c) = IF enough = {} THEN F[N]
                           ELSE F[CHOOSE n \in enough : \A m \in enough : n <= m]
    BY DEF EnforceBounds
  <1> HIDE DEF N
  <1> HIDE DEF More
  <1>4. \E f : Grows(f, N)
    <2> DEFINE Missing == {n \in 0 .. N : ~\E f : Grows(f, n)}
    <2>1. ASSUME Missing # {}
          PROVE  FALSE
      <3>1. PICK n \in Missing : \A k \in Missing : n <= k
        <4>1. Missing \in SUBSET Nat
          OBVIOUS
        <4> HIDE DEF Missing
        <4> QED BY <2>1, <4>1, Least
      <3>2. n \in 0 .. N /\ ~\E f : Grows(f, n)
        BY <3>1
      <3>3. n # 0
        <4>1. Grows([i \in 0 .. 0 |-> c], 0)
          OBVIOUS
        <4> QED BY <3>2, <4>1
      <3>4. PICK f : Grows(f, n - 1)
        <4>1. n - 1 \in 0 .. N /\ n - 1 \notin Missing
          <5> HIDE DEF Missing
          <5> QED BY <1>1, <3>1, <3>2, <3>3
        <4> QED BY <4>1, Zenon
      <3> DEFINE g == [i \in 0 .. n |-> IF i = n THEN More(f[n - 1], n) ELSE f[i]]
      <3>5. Grows(g, n)
        BY <3>2, <3>3, <3>4
      <3> QED BY <3>2, <3>5
    <2>2. N \in 0 .. N
      BY <1>1
    <2> HIDE DEF Grows
    <2> QED BY <2>1, <2>2
  <1>5. Grows(F, N)
    BY <1>4, Zenon
  <1> HIDE DEF F
  <1>6. F[0] = c
    BY <1>1, <1>5
  <1>7. 0 \in enough /\ \A m \in enough : 0 <= m /\ m \in Nat
    BY <1>1, <1>6
  <1> HIDE DEF enough
  <1>8. (CHOOSE n \in enough : \A m \in enough : n <= m) = 0
    <2> DEFINE n == CHOOSE n \in enough : \A m \in enough : n <= m
    <2>1. n \in enough /\ \A m \in enough : n <= m
      BY <1>7
    <2> HIDE DEF n
    <2>2. n = 0
      BY <1>7, <2>1
    <2> QED BY <2>2 DEF n
  <1> QED BY <1>2, <1>6, <1>7, <1>8

\* prune: what is recent stays.
LEMMA PruneKeeps ==
    ASSUME NEW c, NEW h, CapiOK(c, h), c.total <= MaxArtifacts, NEW now
    PROVE  LET d == Prune(c, now)
           IN  /\ CapiOK(d, h) /\ d.total <= c.total
               /\ d.artifacts = c.artifacts /\ d.lineage = c.lineage /\ d.emitted = c.emitted
               /\ \A s : /\ Len(ReadsOf(d, s)) <= Len(ReadsOf(c, s))
                         /\ \A read \in Range(ReadsOf(c, s)) :
                               read.ts + CapiWindow >= now => read \in Range(ReadsOf(d, s))
               /\ Len(d.candidates) <= Len(c.candidates)
               /\ \A i \in DOMAIN c.candidates :
                     c.candidates[i].value.prompt_ts + CapiWindow >= now
                     => c.candidates[i].key \in KeysIn(d.candidates)
               /\ \A m \in DOMAIN d.candidates : \E i \in DOMAIN c.candidates :
                     d.candidates[m] = c.candidates[i]
  <1> DEFINE recent == {place \in Places(c.pending) : ReadAt(c, place).ts + CapiWindow >= now}
             kept == KeepReads(c, recent)
             live == [kept EXCEPT !.pending = Keep(@, {s \in DOMAIN @ : @[s] # <<>>})]
             d == [live EXCEPT
                      !.order = InOrder(@, PendingReadTokens(live)),
                      !.candidates = Picked(@, {i \in DOMAIN @ :
                                                   @[i].value.prompt_ts + CapiWindow >= now})]
             e == Prune(c, now)
  <1>1. CapiOK(kept, h) /\ kept.total <= c.total /\ kept.total \in Nat /\ c.total \in Nat
    BY KeepReadsWorks
  <1>2. e = EnforceBounds(d)
    BY DEF Prune
  <1>3. CapiOK(e, h)
    BY PruneWorks
  <1>4. \A s, i : s \in DOMAIN c.pending /\ i \in DOMAIN c.pending[s]
                     /\ c.pending[s][i].ts + CapiWindow >= now => <<s, i>> \in recent
    BY PlaceFacts DEF ReadAt
  <1>5. CapiTyped(c)
    BY DEF CapiOK
  <1> HIDE DEF recent
  <1>6. /\ DOMAIN kept = CapiFields
        /\ kept.artifacts = c.artifacts /\ kept.lineage = c.lineage
        /\ kept.candidates = c.candidates /\ kept.emitted = c.emitted
        /\ \A s : Len(ReadsOf(kept, s)) <= Len(ReadsOf(c, s))
        /\ \A s \in DOMAIN c.pending : \A i \in DOMAIN c.pending[s] :
              <<s, i>> \in recent => c.pending[s][i] \in Range(ReadsOf(kept, s))
    BY <1>5, KeepReadsKeeps
  <1> HIDE DEF kept, e
  <1> DEFINE busy == {s \in DOMAIN kept.pending : kept.pending[s] # <<>>}
  <1>7. /\ DOMAIN live = CapiFields
        /\ live.artifacts = kept.artifacts /\ live.lineage = kept.lineage
        /\ live.candidates = kept.candidates /\ live.emitted = kept.emitted
        /\ live.total = kept.total /\ live.order = kept.order
        /\ live.pending = Keep(kept.pending, busy)
    BY <1>6 DEF CapiFields
  <1> HIDE DEF live
  <1>8. \A s : ReadsOf(live, s) = ReadsOf(kept, s)
    <2> TAKE s
    <2>1. /\ DOMAIN live.pending = DOMAIN kept.pending \cap busy
          /\ \A x \in DOMAIN live.pending : live.pending[x] = kept.pending[x]
      <3> DEFINE q == kept.pending
                 r == live.pending
      <3>1. r = Keep(q, busy)
        BY <1>7
      <3> HIDE DEF q, r, busy
      <3>2. DOMAIN r = DOMAIN q \cap busy /\ \A x \in DOMAIN r : r[x] = q[x]
        BY <3>1, KeepFacts
      <3> QED BY <3>2 DEF q, r
    <2>2. CASE s \in busy
      BY <2>1, <2>2 DEF ReadsOf
    <2>3. CASE s \notin busy
      BY <2>1, <2>3 DEF ReadsOf
    <2> QED BY <2>2, <2>3
  <1> HIDE DEF busy
  <1> DEFINE fresh == {i \in DOMAIN live.candidates :
                          live.candidates[i].value.prompt_ts + CapiWindow >= now}
  <1>9. /\ DOMAIN d = CapiFields
        /\ d.artifacts = live.artifacts /\ d.lineage = live.lineage
        /\ d.emitted = live.emitted /\ d.total = live.total /\ d.pending = live.pending
        /\ d.candidates = Picked(live.candidates, fresh)
        /\ d.order = InOrder(live.order, PendingReadTokens(live))
    BY <1>7 DEF CapiFields
  <1> HIDE DEF d
  <1>10. /\ IsSeq(d.candidates) /\ Len(d.candidates) <= Len(c.candidates)
         /\ \A m \in DOMAIN d.candidates : \E i \in DOMAIN c.candidates :
               d.candidates[m] = c.candidates[i]
         /\ \A i \in DOMAIN c.candidates :
               c.candidates[i].value.prompt_ts + CapiWindow >= now
               => c.candidates[i].key \in KeysIn(d.candidates)
    <2> DEFINE l == live.candidates
               r == Picked(l, fresh)
    <2>1. l = c.candidates /\ IsSeq(l)
      BY <1>5, <1>6, <1>7 DEF CapiTyped
    <2>2. d.candidates = r
      BY <1>9
    <2>3. fresh \in SUBSET DOMAIN l
      OBVIOUS
    <2>4. \A i \in DOMAIN l : l[i].value.prompt_ts + CapiWindow >= now => i \in fresh
      OBVIOUS
    <2> HIDE DEF l, fresh
    <2>5. /\ IsSeq(r) /\ Len(r) = Cardinality(fresh) /\ Cardinality(fresh) <= Len(l)
          /\ \A m \in DOMAIN r : \E i \in fresh : r[m] = l[i]
          /\ Range(r) = {l[i] : i \in fresh}
      BY <2>1, <2>3, PickedFacts
    <2> HIDE DEF r
    <2>6. \A i \in fresh : l[i].key \in KeysIn(r)
      <3> TAKE i \in fresh
      <3>1. l[i] \in Range(r)
        BY <2>5
      <3>2. PICK m \in DOMAIN r : r[m] = l[i]
        BY <3>1 DEF Range
      <3> QED BY <3>2 DEF KeysIn
    <2>7. \A m \in DOMAIN r : \E i \in DOMAIN l : r[m] = l[i]
      BY <2>3, <2>5
    <2> QED BY <2>1, <2>2, <2>4, <2>5, <2>6, <2>7
  <1>11. CapiTyped(d) /\ d.total <= MaxArtifacts
    <2>1. IsSeq(d.order)
      <3>1. IsSeq(live.order)
        BY <1>1, <1>7 DEF CapiOK, CapiTyped
      <3> DEFINE some == {i \in DOMAIN live.order : live.order[i] \in PendingReadTokens(live)}
      <3>2. some \in SUBSET DOMAIN live.order
        OBVIOUS
      <3>3. InOrder(live.order, PendingReadTokens(live)) = Picked(live.order, some)
        BY DEF InOrder
      <3> HIDE DEF some
      <3> QED BY <1>9, <3>1, <3>2, <3>3, PickedFacts
    <2>2. \A s \in DOMAIN d.pending : IsSeq(d.pending[s])
      <3>1. /\ DOMAIN d.pending \subseteq DOMAIN kept.pending
            /\ \A x \in DOMAIN d.pending : d.pending[x] = kept.pending[x]
        <4> DEFINE q == kept.pending
                   r == d.pending
        <4>1. r = Keep(q, busy)
          BY <1>7, <1>9
        <4> HIDE DEF q, r
        <4>2. DOMAIN r \subseteq DOMAIN q /\ \A x \in DOMAIN r : r[x] = q[x]
          BY <4>1, KeepFacts
        <4> QED BY <4>2 DEF q, r
      <3> QED BY <1>1, <3>1 DEF CapiOK, CapiTyped
    <2>3. Len(d.candidates) <= MaxArtifacts
      <3>1. Len(d.candidates) \in Nat /\ Len(c.candidates) \in Nat /\ Len(c.candidates) <= MaxArtifacts
        BY <1>5, <1>10, SeqFacts DEF CapiTyped
      <3> QED BY <1>10, <3>1, CapiAssumption
    <2>4. IsSeq(d.lineage) /\ Len(d.lineage) <= MaxArtifacts
          /\ IsSeq(d.artifacts) /\ Len(d.artifacts) <= MaxArtifacts
      BY <1>5, <1>6, <1>7, <1>9 DEF CapiTyped
    <2>5. d.total <= MaxArtifacts
      BY <1>1, <1>7, <1>9, CapiAssumption
    <2> QED BY <1>9, <1>10, <2>1, <2>2, <2>3, <2>4, <2>5 DEF CapiTyped
  <1>12. e = d
    BY <1>2, <1>11, EnforceIdles
  <1>13. \A s : ReadsOf(e, s) = ReadsOf(kept, s)
    <2>1. \A s : ReadsOf(d, s) = ReadsOf(live, s)
      BY <1>9 DEF ReadsOf
    <2> QED BY <1>8, <1>12, <2>1
  <1>14. \A s : \A read \in Range(ReadsOf(c, s)) :
            read.ts + CapiWindow >= now => read \in Range(ReadsOf(e, s))
    <2> SUFFICES ASSUME NEW s, NEW read \in Range(ReadsOf(c, s)), read.ts + CapiWindow >= now
                 PROVE  read \in Range(ReadsOf(e, s))
      OBVIOUS
    <2>1. s \in DOMAIN c.pending /\ \E i \in DOMAIN c.pending[s] : read = c.pending[s][i]
      BY EmptyFacts DEF ReadsOf, Range
    <2>2. PICK i \in DOMAIN c.pending[s] : read = c.pending[s][i]
      BY <2>1
    <2>3. <<s, i>> \in recent
      BY <1>4, <2>1, <2>2
    <2> QED BY <1>6, <1>13, <2>1, <2>2, <2>3
  <1>15. e.total <= c.total
    BY <1>1, <1>7, <1>9, <1>12
  <1>16. e.artifacts = c.artifacts /\ e.lineage = c.lineage /\ e.emitted = c.emitted
    BY <1>6, <1>7, <1>9, <1>12
  <1>17. \A s : Len(ReadsOf(e, s)) <= Len(ReadsOf(c, s))
    BY <1>6, <1>13
  <1> QED BY <1>3, <1>10, <1>12, <1>14, <1>15, <1>16, <1>17 DEF e

\* The reads a prompt meets: those that are recent and not younger.
LEMMA InTimeKeeps ==
    ASSUME NEW c, NEW h, CapiOK(c, h), c.total <= MaxArtifacts, NEW prompt
    PROVE  LET d == InTime(c, prompt)
           IN  /\ CapiOK(d, h) /\ d.total <= c.total
               /\ d.artifacts = c.artifacts /\ d.lineage = c.lineage /\ d.emitted = c.emitted
               /\ \A s : /\ Len(ReadsOf(d, s)) <= Len(ReadsOf(c, s))
                         /\ \A read \in Range(ReadsOf(c, s)) :
                               /\ read.ts + CapiWindow >= prompt.ts
                               /\ s # prompt.session \/ Before(read, prompt)
                               => read \in Range(ReadsOf(d, s))
               /\ Len(d.candidates) <= Len(c.candidates)
               /\ \A i \in DOMAIN c.candidates :
                     c.candidates[i].value.prompt_ts + CapiWindow >= prompt.ts
                     => c.candidates[i].key \in KeysIn(d.candidates)
               /\ \A m \in DOMAIN d.candidates : \E i \in DOMAIN c.candidates :
                     d.candidates[m] = c.candidates[i]
  <1> DEFINE d == Prune(c, prompt.ts)
             kept == {place \in Places(d.pending) :
                         place[1] # prompt.session \/ Before(ReadAt(d, place), prompt)}
             e == KeepReads(d, kept)
             now == prompt.ts
  <1>1. /\ CapiOK(d, h) /\ d.total <= c.total
        /\ d.artifacts = c.artifacts /\ d.lineage = c.lineage /\ d.emitted = c.emitted
        /\ \A s : /\ Len(ReadsOf(d, s)) <= Len(ReadsOf(c, s))
                  /\ \A read \in Range(ReadsOf(c, s)) :
                        read.ts + CapiWindow >= now => read \in Range(ReadsOf(d, s))
        /\ Len(d.candidates) <= Len(c.candidates)
        /\ \A i \in DOMAIN c.candidates :
              c.candidates[i].value.prompt_ts + CapiWindow >= now
              => c.candidates[i].key \in KeysIn(d.candidates)
        /\ \A m \in DOMAIN d.candidates : \E i \in DOMAIN c.candidates :
              d.candidates[m] = c.candidates[i]
    BY PruneKeeps
  <1>2. InTime(c, prompt) = e
    BY DEF InTime, KeepReadsBefore
  <1> HIDE DEF d
  <1>3. \A s, i : s \in DOMAIN d.pending /\ i \in DOMAIN d.pending[s]
                     /\ (s # prompt.session \/ Before(d.pending[s][i], prompt))
                  => <<s, i>> \in kept
    BY PlaceFacts DEF ReadAt
  <1> HIDE DEF kept, e
  <1>4. CapiOK(e, h) /\ e.total <= d.total /\ e.total \in Nat /\ d.total \in Nat
    BY <1>1, KeepReadsWorks DEF e
  <1>5. CapiTyped(d) /\ CapiTyped(c)
    BY <1>1 DEF CapiOK
  <1>6. /\ DOMAIN e = CapiFields
        /\ e.artifacts = d.artifacts /\ e.lineage = d.lineage
        /\ e.candidates = d.candidates /\ e.emitted = d.emitted
        /\ \A s : Len(ReadsOf(e, s)) <= Len(ReadsOf(d, s))
        /\ \A s \in DOMAIN d.pending : \A i \in DOMAIN d.pending[s] :
              <<s, i>> \in kept => d.pending[s][i] \in Range(ReadsOf(e, s))
    BY <1>5, KeepReadsKeeps DEF e
  <1>7. \A s : \A read \in Range(ReadsOf(c, s)) :
           /\ read.ts + CapiWindow >= prompt.ts
           /\ s # prompt.session \/ Before(read, prompt)
           => read \in Range(ReadsOf(e, s))
    <2> SUFFICES ASSUME NEW s, NEW read \in Range(ReadsOf(c, s)),
                        read.ts + CapiWindow >= now,
                        s # prompt.session \/ Before(read, prompt)
                 PROVE  read \in Range(ReadsOf(e, s))
      OBVIOUS
    <2>1. read \in Range(ReadsOf(d, s))
      BY <1>1
    <2>2. s \in DOMAIN d.pending /\ \E i \in DOMAIN d.pending[s] : read = d.pending[s][i]
      BY <2>1, EmptyFacts DEF ReadsOf, Range
    <2>3. PICK i \in DOMAIN d.pending[s] : read = d.pending[s][i]
      BY <2>2
    <2>4. <<s, i>> \in kept
      BY <1>3, <2>2, <2>3
    <2> QED BY <1>6, <2>2, <2>3, <2>4
  <1>8. \A s : Len(ReadsOf(e, s)) <= Len(ReadsOf(c, s))
    <2> TAKE s
    <2>1. Len(ReadsOf(e, s)) \in Nat /\ Len(ReadsOf(d, s)) \in Nat /\ Len(ReadsOf(c, s)) \in Nat
      BY <1>4, <1>5, ReadsFacts DEF CapiOK
    <2>2. Len(ReadsOf(e, s)) <= Len(ReadsOf(d, s)) /\ Len(ReadsOf(d, s)) <= Len(ReadsOf(c, s))
      BY <1>1, <1>6
    <2> QED BY <2>1, <2>2
  <1>9. e.total <= c.total
    <2>1. c.total \in Nat
      BY KeepReadsWorks
    <2> QED BY <1>1, <1>4, <2>1
  <1> QED BY <1>1, <1>2, <1>4, <1>6, <1>7, <1>8, <1>9

-----------------------------------------------------------------------------
(* Scores: what says the same words matches best.                          *)

LEMMA PartOfAHundred ==
    ASSUME NEW m \in Nat, NEW e \in Nat \ {0}, m <= e
    PROVE  (100 * m) \div e <= 100
  <1> DEFINE n == 100 * m
             q == n \div e
  <1>1. n \in Nat /\ n <= 100 * e
    OBVIOUS
  <1> HIDE DEF n
  <1>2. q \in Nat /\ q * e <= n
    BY <1>1
  <1> HIDE DEF q
  <1>3. q * e <= 100 * e
    BY <1>1, <1>2
  <1>4. ASSUME q >= 101
        PROVE  FALSE
    <2>1. q * e >= 101 * e
      BY <1>2, <1>4
    <2> QED BY <1>2, <1>3, <2>1
  <1>5. q <= 100
    BY <1>2, <1>4
  <1> QED BY <1>5 DEF q, n

LEMMA JaccardBound ==
    ASSUME NEW a \in Seq(Words), NEW b \in Seq(Words)
    PROVE  Jaccard(a, b) \in 0 .. 100
  <1> DEFINE both == Range(a) \cap Range(b)
             either == Range(a) \cup Range(b)
             e == Cardinality(either)
             m == Cardinality(both)
             J == (100 * m) \div e
  <1>1. BytesOf(a) \in Nat /\ BytesOf(b) \in Nat /\ Jaccard(a, b) \in Nat
    BY BytesFacts, JaccardFacts
  <1>2. CASE BytesOf(a) < 5 \/ BytesOf(b) < 5
    BY <1>1, <1>2 DEF Jaccard
  <1>3. CASE ~(BytesOf(a) < 5 \/ BytesOf(b) < 5)
    <2>1. Jaccard(a, b) = J
      BY <1>3 DEF Jaccard
    <2>2. IsFiniteSet(either)
      BY BytesFacts, FS_Union
    <2>3. both \in SUBSET either
      OBVIOUS
    <2>4. either # {}
      <3>1. a # <<>>
        BY <1>1, <1>3, BytesFacts
      <3>2. 1 \in DOMAIN a
        BY <3>1
      <3> QED BY <3>2 DEF Range
    <2> HIDE DEF either, both
    <2>5. e \in Nat \ {0} /\ m \in Nat /\ m <= e
      BY <2>2, <2>3, <2>4, FS_EmptySet, FS_CardinalityType, FS_Subset
    <2> HIDE DEF e, m
    <2>6. J <= 100
      BY <2>5, PartOfAHundred
    <2> DEFINE x == Jaccard(a, b)
    <2> HIDE DEF J
    <2>7. x = J /\ x \in Nat
      BY <1>1, <2>1
    <2> HIDE DEF x
    <2>8. x \in 0 .. 100
      BY <2>6, <2>7
    <2> QED BY <2>8 DEF x
  <1> QED BY <1>2, <1>3

\* Which scores tell that the words are the same.
LEMMA MatchTells ==
    ASSUME NEW artifact, IsText(artifact), NEW prompt, IsText(prompt)
    PROVE  /\ MatchScore(artifact, prompt).score >= 30 <=> Norm(artifact) = Norm(prompt)
           /\ Norm(artifact) = Norm(prompt) => MatchScore(artifact, prompt).tier # "none"
  <1> DEFINE a == artifact.words
             p == prompt.words
             s == MatchScore(artifact, prompt)
  <1>1. a \in Seq(Words) /\ p \in Seq(Words)
    BY TextFacts
  <1>2. Norm(artifact) = a /\ Norm(prompt) = p
    BY DEF Norm
  <1>3. Jaccard(a, p) \in 0 .. 100
    BY <1>1, JaccardBound
  <1>4. s = IF artifact = prompt THEN Tier("exact", 40)
            ELSE IF a = p THEN Tier("normalized_exact", 30)
            ELSE IF Jaccard(a, p) >= 60 THEN Tier("near_exact", Jaccard(a, p) \div 5)
            ELSE IF BytesOf(a) >= 64 /\ (\E i, j \in DOMAIN p : SubSeq(p, i, j) = a)
            THEN Tier("substring", 15)
            ELSE Tier("none", 0)
    BY <1>2 DEF MatchScore
  <1>5. artifact = prompt => a = p
    OBVIOUS
  <1>6. \A name, score : Tier(name, score).tier = name /\ Tier(name, score).score = score
    BY DEF Tier
  <1>7. Jaccard(a, p) \div 5 \in 0 .. 20
    BY <1>3
  <1> HIDE DEF s, a, p
  <1>8. CASE a = p
    <2>1. s.score \in {30, 40} /\ s.tier # "none"
      BY <1>4, <1>6, <1>8
    <2> QED BY <1>2, <1>8, <2>1 DEF s
  <1>9. CASE a # p
    <2>1. s.score \in 0 .. 20
      BY <1>4, <1>5, <1>6, <1>7, <1>9
    <2> QED BY <1>2, <1>9, <2>1 DEF s
  <1> QED BY <1>8, <1>9

\* What a match tells, of the artifacts there are.
MatchIs(c, e) ==
    /\ e.key.artifact \in KeysIn(c.artifacts)
    /\ e.value.prompt_ts = e.key.prompt[3]
    /\ e.value.score >= 30 <=> e.key.artifact[3] = e.key.prompt[4]

\* A read that a prompt repeats.
Repeats(c, read, prompt) ==
    /\ read.artifact \in KeysIn(c.artifacts)
    /\ read.artifact[1] # prompt.session
    /\ read.artifact[3] = Norm(prompt.text)
    /\ ~TemplateShape(Norm(prompt.text))

KeyOf(read, prompt) == [artifact |-> read.artifact, prompt |-> PromptId(prompt)]

\* All of c but its matches and templates.
SameButMatches(d, c) ==
    /\ DOMAIN d = DOMAIN c
    /\ d.artifacts = c.artifacts /\ d.lineage = c.lineage /\ d.pending = c.pending
    /\ d.order = c.order /\ d.total = c.total /\ d.emitted = c.emitted

LEMMA MeetKeeps ==
    ASSUME NEW c, NEW h, CapiOK(c, h), Len(c.candidates) + 1 <= MaxArtifacts,
           NEW read, NEW prompt, IsText(prompt.text)
    PROVE  LET d == Meet(c, read, prompt)
           IN  /\ SameButMatches(d, c)
               /\ IsSeq(d.candidates) /\ Len(d.candidates) <= Len(c.candidates) + 1
               /\ KeysIn(c.candidates) \subseteq KeysIn(d.candidates)
               /\ Repeats(c, read, prompt) => KeyOf(read, prompt) \in KeysIn(d.candidates)
               /\ \A m \in DOMAIN d.candidates :
                     \/ MatchIs(c, d.candidates[m])
                     \/ \E i \in DOMAIN c.candidates : d.candidates[m] = c.candidates[i]
  <1> DEFINE artifact == ValueOf(c.artifacts, read.artifact)
             templates == ObserveTemplate(c.templates, artifact, prompt)
             candidate == Candidate(artifact, prompt, read)
             seen1 == [c EXCEPT !.templates = templates]
             candidates == InsertYoungest(c.candidates, candidate.key, candidate.value, MaxArtifacts)
             met == [seen1 EXCEPT !.candidates = candidates]
             idle == \/ ShouldSuppress(templates, artifact)
                     \/ artifact.session = prompt.session
                     \/ candidate.value.tier = "none"
             d == Meet(c, read, prompt)
  <1>1. DOMAIN c = CapiFields /\ IsSeq(c.candidates)
    BY DEF CapiOK, CapiTyped
  <1>2. Len(c.candidates) \in Nat
    BY <1>1, SeqFacts
  <1>3. d = IF read.artifact \notin KeysIn(c.artifacts) THEN c
            ELSE IF idle THEN seen1 ELSE met
    <2>1. /\ DOMAIN seen1 = CapiFields /\ seen1.candidates = c.candidates
      BY <1>1 DEF CapiFields
    <2>2. d = IF read.artifact \notin KeysIn(c.artifacts) THEN c
              ELSE IF idle THEN seen1
              ELSE [seen1 EXCEPT !.candidates = InsertYoungest(seen1.candidates, candidate.key,
                                                   candidate.value, MaxArtifacts)]
      BY DEF Meet
    <2> HIDE DEF seen1, d, idle, candidate
    <2> QED BY <2>1, <2>2
  <1>4. CASE read.artifact \notin KeysIn(c.artifacts)
    <2>1. d = c
      BY <1>3, <1>4
    <2> HIDE DEF d
    <2> QED BY <1>1, <1>2, <1>4, <2>1 DEF SameButMatches, Repeats, d
  <1>5. CASE read.artifact \in KeysIn(c.artifacts)
    <2>1. PICK i \in DOMAIN c.artifacts :
             c.artifacts[i].key = read.artifact /\ artifact = c.artifacts[i].value
      BY <1>5, ValueFacts
    <2> HIDE DEF artifact
    <2>2. ArtifactIs(c.artifacts[i])
      BY DEF CapiOK, Traced
    <2>3. /\ artifact.id = read.artifact /\ IsText(artifact.text)
          /\ artifact.id[3] = Norm(artifact.text) /\ artifact.id[1] = artifact.session
      BY <2>1, <2>2 DEF ArtifactIs
    <2> DEFINE key == candidate.key
               value == candidate.value
    <2>4. /\ key = KeyOf(read, prompt) /\ key.artifact = artifact.id /\ key.prompt = PromptId(prompt)
          /\ value.prompt_ts = prompt.ts
          /\ value.tier = MatchScore(artifact.text, prompt.text).tier
          /\ value.score = MatchScore(artifact.text, prompt.text).score
      BY <2>3 DEF Candidate, KeyOf
    <2>5. /\ value.score >= 30 <=> Norm(artifact.text) = Norm(prompt.text)
          /\ Norm(artifact.text) = Norm(prompt.text) => value.tier # "none"
      BY <2>3, <2>4, MatchTells
    <2>6. /\ SameButMatches(seen1, c) /\ seen1.candidates = c.candidates
      BY <1>1 DEF CapiFields, SameButMatches
    <2>7. /\ SameButMatches(met, c) /\ met.candidates = candidates
      BY <1>1 DEF CapiFields, SameButMatches
    <2>8. Repeats(c, read, prompt) => ~idle
      <3> SUFFICES ASSUME Repeats(c, read, prompt)
                   PROVE  ~idle
        OBVIOUS
      <3>1. /\ artifact.session # prompt.session /\ Norm(artifact.text) = Norm(prompt.text)
            /\ ~TemplateShape(Norm(artifact.text))
        BY <2>3 DEF Repeats
      <3>2. ~ShouldSuppress(templates, artifact)
        BY <3>1 DEF ShouldSuppress
      <3>3. value.tier # "none"
        BY <2>5, <3>1
      <3> QED BY <3>1, <3>2, <3>3
    <2> HIDE DEF met, seen1, idle, candidate, templates, d
    <2>9. CASE idle
      <3>1. d = seen1
        BY <1>3, <1>5, <2>9
      <3> QED BY <1>1, <1>2, <2>6, <2>8, <2>9, <3>1 DEF d
    <2>10. CASE ~idle
      <3>1. d = met
        BY <1>3, <1>5, <2>10
      <3>2. candidates = InsertYoungest(c.candidates, key, value, MaxArtifacts)
        OBVIOUS
      <3> HIDE DEF key, value, candidates
      <3>3. /\ IsSeq(candidates) /\ Len(candidates) <= Len(c.candidates) + 1
            /\ KeysIn(candidates) = KeysIn(c.candidates) \cup {key}
            /\ \A m \in DOMAIN candidates :
                  \/ candidates[m] = [key |-> key, value |-> value]
                  \/ \E k \in DOMAIN c.candidates : candidates[m] = c.candidates[k]
        <4>1. MaxArtifacts \in Nat \ {0}
          BY CapiAssumption
        <4> QED BY <1>1, <3>2, <4>1, RoomFacts
      <3> DEFINE entry == [key |-> key, value |-> value]
      <3>4. MatchIs(c, entry)
        <4>1. entry.key = key /\ entry.value = value
          OBVIOUS
        <4> HIDE DEF entry
        <4>2. PromptId(prompt)[3] = prompt.ts /\ PromptId(prompt)[4] = Norm(prompt.text)
          BY PromptIdFacts
        <4> QED BY <1>5, <2>3, <2>4, <2>5, <4>1, <4>2 DEF MatchIs
      <3>5. d.candidates = candidates /\ SameButMatches(d, c)
        BY <2>7, <3>1
      <3> HIDE DEF entry
      <3> QED BY <2>4, <3>3, <3>4, <3>5 DEF d, entry
    <2> QED BY <2>9, <2>10
  <1> QED BY <1>4, <1>5

\* After the first n reads a prompt meets.
HasMet(d, c, h, reads, n, prompt) ==
    /\ CapiOK(d, h) /\ SameButMatches(d, c)
    /\ Len(d.candidates) <= Len(c.candidates) + n
    /\ KeysIn(c.candidates) \subseteq KeysIn(d.candidates)
    /\ \A i \in 1 .. n : Repeats(c, reads[i], prompt)
                            => KeyOf(reads[i], prompt) \in KeysIn(d.candidates)
    /\ \A m \in DOMAIN d.candidates :
          \/ MatchIs(c, d.candidates[m])
          \/ \E i \in DOMAIN c.candidates : d.candidates[m] = c.candidates[i]

LEMMA MeetsOneMore ==
    ASSUME NEW c, NEW d, NEW h, CapiOK(c, h), NEW reads, NEW n \in Nat \ {0},
           NEW prompt, IsText(prompt.text),
           \E p \in DOMAIN h : HasSaid(h, p, PromptId(prompt)),
           Travelled(h, reads[n].artifact, prompt.session, reads[n].ts),
           reads[n].ts <= prompt.ts,
           Len(c.candidates) + n <= MaxArtifacts,
           HasMet(d, c, h, reads, n - 1, prompt)
    PROVE  HasMet(Meet(d, reads[n], prompt), c, h, reads, n, prompt)
  <1> DEFINE e == Meet(d, reads[n], prompt)
             read == reads[n]
  <1>1. /\ CapiOK(d, h) /\ SameButMatches(d, c)
        /\ Len(d.candidates) <= Len(c.candidates) + (n - 1)
        /\ KeysIn(c.candidates) \subseteq KeysIn(d.candidates)
        /\ \A i \in 1 .. n - 1 : Repeats(c, reads[i], prompt)
                                    => KeyOf(reads[i], prompt) \in KeysIn(d.candidates)
        /\ \A m \in DOMAIN d.candidates :
              \/ MatchIs(c, d.candidates[m])
              \/ \E i \in DOMAIN c.candidates : d.candidates[m] = c.candidates[i]
    BY DEF HasMet
  <1>2. Len(c.candidates) \in Nat /\ Len(d.candidates) \in Nat
    BY <1>1, SeqFacts DEF CapiOK, CapiTyped
  <1>3. Len(d.candidates) + 1 <= MaxArtifacts
    BY <1>1, <1>2, CapiAssumption
  <1>4. CapiOK(e, h)
    <2>1. Travelled(h, read.artifact, prompt.session, read.ts) /\ read.ts <= prompt.ts
      OBVIOUS
    <2> HIDE DEF read
    <2>2. CapiOK(Meet(d, read, prompt), h)
      BY <1>1, <2>1, MeetWorks
    <2> QED BY <2>2 DEF read
  <1>5. /\ SameButMatches(e, d)
        /\ IsSeq(e.candidates) /\ Len(e.candidates) <= Len(d.candidates) + 1
        /\ KeysIn(d.candidates) \subseteq KeysIn(e.candidates)
        /\ Repeats(d, read, prompt) => KeyOf(read, prompt) \in KeysIn(e.candidates)
        /\ \A m \in DOMAIN e.candidates :
              \/ MatchIs(d, e.candidates[m])
              \/ \E i \in DOMAIN d.candidates : e.candidates[m] = d.candidates[i]
    <2> HIDE DEF read
    <2>1. LET r == Meet(d, read, prompt)
          IN  /\ SameButMatches(r, d)
              /\ IsSeq(r.candidates) /\ Len(r.candidates) <= Len(d.candidates) + 1
              /\ KeysIn(d.candidates) \subseteq KeysIn(r.candidates)
              /\ Repeats(d, read, prompt) => KeyOf(read, prompt) \in KeysIn(r.candidates)
              /\ \A m \in DOMAIN r.candidates :
                    \/ MatchIs(d, r.candidates[m])
                    \/ \E i \in DOMAIN d.candidates : r.candidates[m] = d.candidates[i]
      BY <1>1, <1>3, MeetKeeps
    <2> QED BY <2>1 DEF read
  <1> HIDE DEF e
  <1>6. SameButMatches(e, c) /\ d.artifacts = c.artifacts
    BY <1>1, <1>5 DEF SameButMatches
  <1>7. Len(e.candidates) <= Len(c.candidates) + n
    <2>1. Len(e.candidates) \in Nat
      BY <1>5, SeqFacts
    <2> QED BY <1>1, <1>2, <1>5, <2>1
  <1>8. KeysIn(c.candidates) \subseteq KeysIn(e.candidates)
    BY <1>1, <1>5
  <1>9. ASSUME NEW i \in 1 .. n, Repeats(c, reads[i], prompt)
        PROVE  KeyOf(reads[i], prompt) \in KeysIn(e.candidates)
    <2>1. CASE i = n
      BY <1>5, <1>6, <1>9, <2>1 DEF Repeats
    <2>2. CASE i # n
      <3>1. i \in 1 .. n - 1
        BY <2>2
      <3> QED BY <1>1, <1>5, <1>9, <3>1
    <2> QED BY <2>1, <2>2
  <1>10. ASSUME NEW m \in DOMAIN e.candidates
         PROVE  \/ MatchIs(c, e.candidates[m])
                \/ \E i \in DOMAIN c.candidates : e.candidates[m] = c.candidates[i]
    <2>1. CASE MatchIs(d, e.candidates[m])
      BY <1>6, <2>1 DEF MatchIs
    <2>2. CASE \E i \in DOMAIN d.candidates : e.candidates[m] = d.candidates[i]
      BY <1>1, <2>2
    <2> QED BY <1>5, <2>1, <2>2
  <1> QED BY <1>4, <1>6, <1>7, <1>8, <1>9, <1>10 DEF HasMet, e

LEMMA MeetAllKeeps ==
    ASSUME NEW c, NEW h, CapiOK(c, h), NEW reads, IsSeq(reads), NEW prompt, IsText(prompt.text),
           \E p \in DOMAIN h : HasSaid(h, p, PromptId(prompt)),
           \A i \in DOMAIN reads : /\ Travelled(h, reads[i].artifact, prompt.session, reads[i].ts)
                                   /\ reads[i].ts <= prompt.ts,
           Len(c.candidates) + Len(reads) <= MaxArtifacts
    PROVE  HasMet(MeetAll(c, reads, prompt), c, h, reads, Len(reads), prompt)
  <1> DEFINE N == Len(reads)
             More(d, n) == Meet(d, reads[n], prompt)
             Grows(f, n) == f = [i \in 0 .. n |-> IF i = 0 THEN c ELSE More(f[i - 1], i)]
             F == CHOOSE f : Grows(f, N)
             Right(n) == HasMet(F[n], c, h, reads, n, prompt)
  <1>1. N \in Nat /\ DOMAIN reads = 1 .. N
    BY SeqFacts
  <1>2. MeetAll(c, reads, prompt) = F[N]
    BY DEF MeetAll
  <1>3. ASSUME NEW d, NEW i \in 1 .. N, HasMet(d, c, h, reads, i - 1, prompt)
        PROVE  HasMet(More(d, i), c, h, reads, i, prompt)
    <2>1. /\ Travelled(h, reads[i].artifact, prompt.session, reads[i].ts)
          /\ reads[i].ts <= prompt.ts
      BY <1>1
    <2>2. Len(c.candidates) \in Nat
      BY SeqFacts DEF CapiOK, CapiTyped
    <2>3. i \in Nat \ {0} /\ Len(c.candidates) + i <= MaxArtifacts
      BY <1>1, <2>2, CapiAssumption
    <2> QED BY <1>3, <2>1, <2>3, MeetsOneMore
  <1>14. HasMet(c, c, h, reads, 0, prompt)
    <2>1. SameButMatches(c, c) /\ \A i \in 1 .. 0 : FALSE
      BY DEF SameButMatches
    <2>2. Len(c.candidates) \in Nat
      BY SeqFacts DEF CapiOK, CapiTyped
    <2> QED BY <2>1, <2>2 DEF HasMet
  <1> HIDE DEF N
  <1> HIDE DEF More
  <1>4. \E f : Grows(f, N)
    <2> DEFINE Missing == {n \in 0 .. N : ~\E f : Grows(f, n)}
    <2>1. ASSUME Missing # {}
          PROVE  FALSE
      <3>1. PICK n \in Missing : \A k \in Missing : n <= k
        <4>1. Missing \in SUBSET Nat
          OBVIOUS
        <4> HIDE DEF Missing
        <4> QED BY <2>1, <4>1, Least
      <3>2. n \in 0 .. N /\ ~\E f : Grows(f, n)
        BY <3>1
      <3>3. n # 0
        <4>1. Grows([i \in 0 .. 0 |-> c], 0)
          OBVIOUS
        <4> QED BY <3>2, <4>1
      <3>4. PICK f : Grows(f, n - 1)
        <4>1. n - 1 \in 0 .. N /\ n - 1 \notin Missing
          <5> HIDE DEF Missing
          <5> QED BY <1>1, <3>1, <3>2, <3>3
        <4> QED BY <4>1, Zenon
      <3> DEFINE g == [i \in 0 .. n |-> IF i = n THEN More(f[n - 1], n) ELSE f[i]]
      <3>5. Grows(g, n)
        BY <3>2, <3>3, <3>4
      <3> QED BY <3>2, <3>5
    <2>2. N \in 0 .. N
      BY <1>1
    <2> HIDE DEF Grows
    <2> QED BY <2>1, <2>2
  <1>5. Grows(F, N)
    BY <1>4, Zenon
  <1> HIDE DEF F
  <1>6. F[0] = c /\ \A i \in 1 .. N : F[i] = More(F[i - 1], i)
    BY <1>1, <1>5
  <1>7. Right(0)
    BY <1>6, <1>14
  <1>8. \A i \in 1 .. N : Right(i - 1) => Right(i)
    BY <1>3, <1>6
  <1> DEFINE Wrong == {i \in 0 .. N : ~Right(i)}
  <1> HIDE DEF Right
  <1>9. Wrong = {}
    <2>1. SUFFICES ASSUME Wrong # {}
                   PROVE  FALSE
      OBVIOUS
    <2>2. PICK i \in Wrong : \A j \in Wrong : i <= j
      <3>1. Wrong \in SUBSET Nat
        OBVIOUS
      <3> HIDE DEF Wrong
      <3> QED BY <2>1, <3>1, Least
    <2> QED BY <1>1, <1>7, <1>8, <2>2
  <1>10. \A i \in 0 .. N : Right(i)
    BY <1>9
  <1> QED BY <1>1, <1>2, <1>10 DEF Right, N

-----------------------------------------------------------------------------
(* What the daemon is aware of.                                            *)

\* The stores suffice for what has been processed.
Room(h) ==
    /\ Cardinality(Opened(h)) <= MaxArtifacts
    /\ Cardinality(ReadsIn(h)) * Cardinality(PromptsIn(h)) <= MaxArtifacts
    /\ Cardinality(PromptsIn(h)) <= MaxPrompts

\* Nothing has been processed that makes i too old.
Young(h, i) == \A k \in DOMAIN h : i < k => h[k].ts <= h[i].ts + CapiWindow

\* Who wrote a file last is known, and when each writer known of did.
IsLatest(h, w) ==
    /\ h[w].writes /\ h[w].path[1] \in Workspaces
    /\ \A i \in WritesOf(h, h[w].path) : i <= w

WritersKnown(c, h) ==
    \A w \in Opened(h) : IsLatest(h, w) =>
        /\ h[w].path \in KeysIn(c.lineage)
        /\ \A m \in DOMAIN c.lineage : c.lineage[m].key = h[w].path
                                          => c.lineage[m].value.session = h[w].session

WritersTold(c, h) ==
    \A m \in DOMAIN c.lineage : \E w \in WritesOf(h, c.lineage[m].key) :
        c.lineage[m].value.ts = h[w].ts

\* An artifact is as old as a write that came before a read of its text.
ArtifactTold(h, id, ts) ==
    \E r \in ReadsIn(h) : \E w \in WritesOf(h, h[r].path) :
        w < r /\ Norm(h[r].content) = id[3] /\ ts = h[w].ts

ArtifactsTold(c, h) ==
    \A m \in DOMAIN c.artifacts : ArtifactTold(h, c.artifacts[m].key, c.artifacts[m].value.ts)

\* A read of what another session wrote waits, until prompts of the session that
\* are older than it come.
Awaits(h, w, r) ==
    /\ HandedOver(h, w, r) /\ Young(h, r)
    /\ \A i \in PromptsIn(h) : r < i /\ h[i].session = h[r].session => h[i].ts >= h[r].ts

IsRead(c, h, w, r, read) ==
    /\ read.ts = h[r].ts
    /\ read.artifact = <<h[w].session, h[r].path, Norm(h[r].content)>>
    /\ read.artifact \in KeysIn(c.artifacts)

ReadsKnown(c, h) ==
    \A w, r \in DOMAIN h : Awaits(h, w, r) =>
        \E read \in Range(ReadsOf(c, h[r].session)) : IsRead(c, h, w, r, read)

\* And what was said of it is matched.
MatchesKnown(c, h) ==
    \A w, r, p \in DOMAIN h : HandedOver(h, w, r) /\ SaidAgain(h, r, p) /\ Young(h, r) =>
        \E key \in KeysIn(c.candidates) :
            key.prompt = PromptId(h[p]) /\ key.artifact[3] = Norm(h[p].text)

MatchesTold(c) == \A m \in DOMAIN c.candidates : MatchIs(c, c.candidates[m])

\* What is kept has been processed, each once.
Bounded(c, h) ==
    /\ Len(c.lineage) <= Cardinality(Opened(h)) /\ Len(c.artifacts) <= Cardinality(Opened(h))
    /\ c.total <= Cardinality(ReadsIn(h))
    /\ \A s : Len(ReadsOf(c, s)) <= Cardinality(ReadsIn(h))
    /\ Len(c.candidates) <= Cardinality(ReadsIn(h)) * Cardinality(PromptsIn(h))

CapiAware(c, h) ==
    Room(h) => /\ Bounded(c, h)
               /\ WritersKnown(c, h) /\ WritersTold(c, h) /\ ArtifactsTold(c, h)
               /\ ReadsKnown(c, h) /\ MatchesKnown(c, h) /\ MatchesTold(c)

PromptsKnown(p, h) ==
    \A i \in PromptsIn(h) : Young(h, i) => PromptId(h[i]) \in KeysIn(p.prompts)

PromptsAware(p, h) ==
    Room(h) => Len(p.prompts) <= Cardinality(PromptsIn(h)) /\ PromptsKnown(p, h)

Timed(h) == IsSeq(h) /\ \A i \in DOMAIN h : h[i].ts \in Nat

-----------------------------------------------------------------------------
(* What has been processed, with one event more.                           *)

LEMMA OneMore ==
    ASSUME NEW h, IsSeq(h), NEW x
    PROVE  LET g == Append(h, x)
               n == Len(h) + 1
           IN  /\ IsSeq(g) /\ Len(h) \in Nat /\ DOMAIN h = 1 .. Len(h) /\ DOMAIN g = 1 .. n
               /\ g[n] = x /\ n \notin DOMAIN h
               /\ \A i \in DOMAIN h : i \in DOMAIN g /\ g[i] = h[i] /\ i < n
               /\ \A i \in DOMAIN g : i \in DOMAIN h \/ i = n
               /\ Opened(g) = Opened(h) \cup (IF x.kind = "open" THEN {n} ELSE {})
               /\ ReadsIn(g) = ReadsIn(h)
                     \cup (IF x.kind = "open" /\ x.reads /\ ~x.writes THEN {n} ELSE {})
               /\ PromptsIn(g) = PromptsIn(h) \cup (IF x.kind = "say" THEN {n} ELSE {})
               /\ \A path : WritesOf(g, path) = WritesOf(h, path)
                     \cup (IF x.kind = "open" /\ x.writes /\ x.path = path THEN {n} ELSE {})
  <1> DEFINE g == Append(h, x)
             n == Len(h) + 1
  <1>1. /\ IsSeq(g) /\ Len(h) \in Nat /\ DOMAIN h = 1 .. Len(h) /\ DOMAIN g = 1 .. n
        /\ g[n] = x /\ \A i \in DOMAIN h : g[i] = h[i]
    BY SeqFacts, AppendFacts
  <1> HIDE DEF g
  <1>2. /\ n \notin DOMAIN h
        /\ \A i \in DOMAIN h : i \in DOMAIN g /\ g[i] = h[i] /\ i < n
        /\ \A i \in DOMAIN g : i \in DOMAIN h \/ i = n
        /\ n \in DOMAIN g
    BY <1>1
  <1> HIDE DEF n
  <1>3. Opened(g) = Opened(h) \cup (IF x.kind = "open" THEN {n} ELSE {})
    BY <1>1, <1>2 DEF Opened
  <1>4. \A i : i \in Opened(g) <=> i \in Opened(h) \/ (i = n /\ x.kind = "open")
    BY <1>3
  <1>5. \A i \in Opened(h) : i \in DOMAIN h
    BY DEF Opened
  <1>6. ReadsIn(g) = ReadsIn(h) \cup (IF x.kind = "open" /\ x.reads /\ ~x.writes THEN {n} ELSE {})
    BY <1>1, <1>2, <1>4, <1>5 DEF ReadsIn
  <1>7. PromptsIn(g) = PromptsIn(h) \cup (IF x.kind = "say" THEN {n} ELSE {})
    BY <1>1, <1>2 DEF PromptsIn
  <1>8. ASSUME NEW path
        PROVE  WritesOf(g, path) = WritesOf(h, path)
                  \cup (IF x.kind = "open" /\ x.writes /\ x.path = path THEN {n} ELSE {})
    BY <1>1, <1>2, <1>4, <1>5 DEF WritesOf
  <1> QED BY <1>1, <1>2, <1>3, <1>6, <1>7, <1>8 DEF g, n

LEMMA CountFacts ==
    ASSUME NEW h, IsSeq(h)
    PROVE  /\ IsFiniteSet(Opened(h)) /\ Cardinality(Opened(h)) \in Nat
           /\ IsFiniteSet(ReadsIn(h)) /\ Cardinality(ReadsIn(h)) \in Nat
           /\ IsFiniteSet(PromptsIn(h)) /\ Cardinality(PromptsIn(h)) \in Nat
           /\ Cardinality(ReadsIn(h)) <= Cardinality(Opened(h))
           /\ \A i \in Opened(h) \cup ReadsIn(h) \cup PromptsIn(h) : i \in DOMAIN h
  <1>1. IsFiniteSet(DOMAIN h)
    <2>1. DOMAIN h = 1 .. Len(h) /\ Len(h) \in Nat
      BY SeqFacts
    <2> QED BY <2>1, FS_Interval
  <1>2. Opened(h) \subseteq DOMAIN h /\ PromptsIn(h) \subseteq DOMAIN h /\ ReadsIn(h) \subseteq Opened(h)
    BY DEF Opened, PromptsIn, ReadsIn
  <1>3. IsFiniteSet(Opened(h)) /\ IsFiniteSet(PromptsIn(h))
    BY <1>1, <1>2, FS_Subset
  <1>4. IsFiniteSet(ReadsIn(h)) /\ Cardinality(ReadsIn(h)) <= Cardinality(Opened(h))
    BY <1>2, <1>3, FS_Subset
  <1>5. /\ Cardinality(Opened(h)) \in Nat /\ Cardinality(ReadsIn(h)) \in Nat
        /\ Cardinality(PromptsIn(h)) \in Nat
    BY <1>3, <1>4, FS_CardinalityType
  <1>6. \A i \in Opened(h) \cup ReadsIn(h) \cup PromptsIn(h) : i \in DOMAIN h
    BY <1>2
  <1> QED BY <1>3, <1>4, <1>5, <1>6

\* How the numbers grow, and that there was room if there is.
LEMMA CountOneMore ==
    ASSUME NEW h, IsSeq(h), NEW x
    PROVE  LET g == Append(h, x)
           IN  /\ Cardinality(Opened(g))
                     = Cardinality(Opened(h)) + (IF x.kind = "open" THEN 1 ELSE 0)
               /\ Cardinality(ReadsIn(g)) = Cardinality(ReadsIn(h))
                     + (IF x.kind = "open" /\ x.reads /\ ~x.writes THEN 1 ELSE 0)
               /\ Cardinality(PromptsIn(g))
                     = Cardinality(PromptsIn(h)) + (IF x.kind = "say" THEN 1 ELSE 0)
               /\ Room(g) => Room(h)
  <1> DEFINE g == Append(h, x)
             n == Len(h) + 1
             O == Cardinality(Opened(h))
             R == Cardinality(ReadsIn(h))
             P == Cardinality(PromptsIn(h))
             O2 == Cardinality(Opened(g))
             R2 == Cardinality(ReadsIn(g))
             P2 == Cardinality(PromptsIn(g))
  <1>1. /\ n \notin DOMAIN h
        /\ Opened(g) = Opened(h) \cup (IF x.kind = "open" THEN {n} ELSE {})
        /\ ReadsIn(g) = ReadsIn(h)
              \cup (IF x.kind = "open" /\ x.reads /\ ~x.writes THEN {n} ELSE {})
        /\ PromptsIn(g) = PromptsIn(h) \cup (IF x.kind = "say" THEN {n} ELSE {})
    BY OneMore
  <1>2. /\ IsFiniteSet(Opened(h)) /\ O \in Nat /\ IsFiniteSet(ReadsIn(h)) /\ R \in Nat
        /\ IsFiniteSet(PromptsIn(h)) /\ P \in Nat
        /\ n \notin Opened(h) /\ n \notin ReadsIn(h) /\ n \notin PromptsIn(h)
    BY <1>1, CountFacts
  <1> HIDE DEF n, g
  <1>3. \A S : IsFiniteSet(S) /\ n \notin S => Cardinality(S \cup {n}) = Cardinality(S) + 1
    <2> SUFFICES ASSUME NEW S, IsFiniteSet(S), n \notin S
                 PROVE  Cardinality(S \cup {n}) = Cardinality(S) + 1
      OBVIOUS
    <2> QED BY FS_AddElement
  <1>4. O2 = O + (IF x.kind = "open" THEN 1 ELSE 0)
    <2>1. CASE x.kind = "open"
      BY <1>1, <1>2, <1>3, <2>1
    <2>2. CASE x.kind # "open"
      <3>1. Opened(g) = Opened(h)
        BY <1>1, <2>2
      <3> QED BY <1>2, <2>2, <3>1
    <2> QED BY <2>1, <2>2
  <1>5. R2 = R + (IF x.kind = "open" /\ x.reads /\ ~x.writes THEN 1 ELSE 0)
    <2>1. CASE x.kind = "open" /\ x.reads /\ ~x.writes
      BY <1>1, <1>2, <1>3, <2>1
    <2>2. CASE ~(x.kind = "open" /\ x.reads /\ ~x.writes)
      <3>1. ReadsIn(g) = ReadsIn(h)
        BY <1>1, <2>2
      <3> QED BY <1>2, <2>2, <3>1
    <2> QED BY <2>1, <2>2
  <1>6. P2 = P + (IF x.kind = "say" THEN 1 ELSE 0)
    <2>1. CASE x.kind = "say"
      BY <1>1, <1>2, <1>3, <2>1
    <2>2. CASE x.kind # "say"
      <3>1. PromptsIn(g) = PromptsIn(h)
        BY <1>1, <2>2
      <3> QED BY <1>2, <2>2, <3>1
    <2> QED BY <2>1, <2>2
  <1>7. Room(g) => Room(h)
    <2> SUFFICES ASSUME Room(g)
                 PROVE  Room(h)
      OBVIOUS
    <2>1. O2 <= MaxArtifacts /\ R2 * P2 <= MaxArtifacts /\ P2 <= MaxPrompts
      BY DEF Room
    <2> HIDE DEF O, R, P, O2, R2, P2
    <2>2. O2 \in Nat /\ R2 \in Nat /\ P2 \in Nat /\ O <= O2 /\ R <= R2 /\ P <= P2
      BY <1>2, <1>4, <1>5, <1>6
    <2>3. R * P <= R2 * P2
      <3>1. R * P <= R2 * P /\ R * P \in Nat /\ R2 * P \in Nat
        BY <1>2, <2>2
      <3>2. R2 * P <= R2 * P2 /\ R2 * P2 \in Nat
        BY <1>2, <2>2
      <3> QED BY <3>1, <3>2
    <2>4. R * P \in Nat /\ R2 * P2 \in Nat
      BY <1>2, <2>2
    <2>5. O <= MaxArtifacts /\ R * P <= MaxArtifacts /\ P <= MaxPrompts
      BY <1>2, <2>1, <2>2, <2>3, <2>4, CapiAssumption, PromptAssumption
    <2> QED BY <2>5 DEF Room, O, R, P
  <1> QED BY <1>4, <1>5, <1>6, <1>7 DEF g

-----------------------------------------------------------------------------
(* Prompts stay while they are young.                                      *)

\* evict_session: what is within the window stays.
LEMMA EvictSessionKeeps ==
    ASSUME NEW p, PromptsOK(p), NEW session, NEW now \in Nat
    PROVE  LET d == EvictSession(p, session, now)
           IN  /\ Len(d.prompts) <= Len(p.prompts)
               /\ \A id \in KeysIn(p.prompts) :
                     id[3] + CapiWindow >= now => id \in KeysIn(d.prompts)
  <1> DEFINE ids == IdsOf(p, session)
             L == Len(ids)
             old(i) == ids[i] \in KeysIn(p.prompts) /\ PromptOf(p, ids[i]).ts + CapiWindow < now
             front == {i \in DOMAIN ids : \A j \in 1 .. i : old(j)}
             n == Cardinality(front)
             gone == Range(SubSeq(ids, 1, n))
             left == SubSeq(ids, n + 1, L)
             less == RemoveKeys(p.prompts, gone)
             named == Put(p.sessions, session, left)
             d == EvictSession(p, session, now)
  <1>1. /\ IsSeq(ids) /\ IsSeq(p.prompts) /\ Len(p.prompts) \in Nat
    BY IdsFacts, SeqFacts DEF PromptsOK
  <1>2. d = IF n = 0 THEN p ELSE [prompts |-> less, sessions |-> named]
    BY DEF EvictSession
  <1>3. front \in SUBSET DOMAIN ids
    OBVIOUS
  <1>4. \A i, j : i \in front /\ j \in DOMAIN ids /\ j \in Nat /\ i \in Nat /\ j <= i => j \in front
    OBVIOUS
  <1>5. \A i \in front : old(i)
    <2>1. DOMAIN ids = 1 .. L /\ L \in Nat
      BY <1>1, SeqFacts
    <2> HIDE DEF old
    <2> QED BY <2>1
  <1> HIDE DEF front, old
  <1>6. L \in Nat /\ DOMAIN ids = 1 .. L /\ n \in 0 .. L
    <2>1. L \in Nat /\ DOMAIN ids = 1 .. L
      BY <1>1, SeqFacts
    <2> HIDE DEF L
    <2>2. IsFiniteSet(1 .. L) /\ Cardinality(1 .. L) = L
      BY <2>1, FS_Interval
    <2>3. IsFiniteSet(front) /\ Cardinality(front) <= L
      BY <1>3, <2>1, <2>2, FS_Subset
    <2>4. Cardinality(front) \in Nat
      BY <2>3, FS_CardinalityType
    <2> QED BY <2>1, <2>3, <2>4
  <1>7. ASSUME NEW i \in 1 .. n
        PROVE  i \in front
    <2> SUFFICES ASSUME i \notin front
                 PROVE  FALSE
      OBVIOUS
    <2>1. i \in DOMAIN ids /\ i \in Nat /\ i - 1 \in Nat /\ n \in Nat /\ i <= n
      BY <1>6
    <2>2. front \in SUBSET (1 .. i - 1)
      <3> SUFFICES ASSUME NEW j \in front
                   PROVE  j \in 1 .. i - 1
        OBVIOUS
      <3>1. j \in 1 .. L
        BY <1>3, <1>6
      <3>3. j \in Nat
        BY <1>6, <3>1
      <3>2. ~(i <= j)
        <4> HIDE DEF L
        <4> QED BY <1>4, <2>1, <3>3
      <3> QED BY <1>6, <2>1, <3>1, <3>2
    <2>3. IsFiniteSet(1 .. i - 1) /\ Cardinality(1 .. i - 1) = i - 1
      <3> DEFINE k == i - 1
      <3>1. k \in Nat
        BY <2>1
      <3> HIDE DEF k
      <3>2. Cardinality(1 .. k) = IF 1 > k THEN 0 ELSE k - 1 + 1
        BY <3>1, FS_Interval
      <3>3. Cardinality(1 .. k) = k
        BY <3>1, <3>2
      <3>4. IsFiniteSet(1 .. k)
        BY <3>1, FS_Interval
      <3> QED BY <3>3, <3>4 DEF k
    <2>4. n <= i - 1
      BY <2>2, <2>3, FS_Subset
    <2> QED BY <2>1, <2>4
  <1> HIDE DEF n, ids
  <1>8. CASE n = 0
    BY <1>1, <1>2, <1>8
  <1>9. CASE n # 0
    <2>1. gone = {ids[i] : i \in 1 .. n}
      BY <1>1, <1>6, SubSeqFacts
    <2> HIDE DEF gone
    <2>2. /\ Len(less) <= Len(p.prompts) /\ KeysIn(less) = KeysIn(p.prompts) \ gone
      BY <1>1, RemoveKeysFacts
    <2> HIDE DEF less
    <2>3. ASSUME NEW id \in KeysIn(p.prompts), id[3] + CapiWindow >= now, id \in gone
          PROVE  FALSE
      <3>1. PICK i \in 1 .. n : id = ids[i]
        BY <2>1, <2>3
      <3>2. old(i)
        BY <1>5, <1>7
      <3>3. PromptOf(p, id).ts + CapiWindow < now
        BY <3>1, <3>2 DEF old
      <3>4. PromptId(PromptOf(p, id)) = id
        BY PromptOfFacts
      <3> DEFINE said == PromptOf(p, id)
      <3>5. id[3] = said.ts
        <4> HIDE DEF said
        <4>1. PromptId(said)[3] = said.ts
          BY PromptIdFacts
        <4> QED BY <3>4, <4>1 DEF said
      <3>6. said.ts \in Nat
        BY PromptOfFacts
      <3> HIDE DEF said
      <3>7. said.ts + CapiWindow < now /\ said.ts + CapiWindow >= now
        BY <2>3, <3>3, <3>5 DEF said
      <3>8. said.ts + CapiWindow \in Nat
        BY <3>6, PromptAssumption
      <3> QED BY <3>7, <3>8
    <2>4. d.prompts = less
      BY <1>2, <1>9
    <2> HIDE DEF d
    <2> QED BY <2>2, <2>3, <2>4 DEF d
  <1> QED BY <1>8, <1>9

\* insert: with room, no other prompt goes but of those that are too old.
LEMMA InsertPromptKeeps ==
    ASSUME NEW p, PromptsOK(p), NEW input, input.ts \in Nat, IsText(input.text),
           Len(p.prompts) + 1 <= MaxPrompts
    PROVE  LET d == InsertPrompt(p, input)
           IN  /\ Len(d.prompts) <= Len(p.prompts) + 1
               /\ PromptId(input) \in KeysIn(d.prompts)
               /\ \A id \in KeysIn(p.prompts) :
                     id[3] + CapiWindow >= input.ts => id \in KeysIn(d.prompts)
  <1> DEFINE id == PromptId(input)
             session == input.session
             list == InsertYoungest(p.prompts, id, input, MaxPrompts)
             ids == IdsOf(p, session)
             new == IF id \in Range(ids) THEN ids ELSE Append(ids, id)
             named == Put(p.sessions, session, new)
             gone == KeysIn(p.prompts) \ KeysIn(list)
             q == [prompts |-> list, sessions |-> RemoveSessionEntries(named, gone)]
             d == InsertPrompt(p, input)
             now == input.ts
  <1>1. d = EvictSession(q, session, now) /\ now \in Nat
    BY DEF InsertPrompt
  <1>2. IsSeq(p.prompts) /\ Len(p.prompts) <= MaxPrompts /\ MaxPrompts \in Nat \ {0}
        /\ Len(p.prompts) \in Nat
    BY PromptAssumption, SeqFacts DEF PromptsOK
  <1>3. id[1] = session /\ id[3] = now /\ IsPrompt([key |-> id, value |-> input])
    BY PromptIdFacts DEF IsPrompt
  <1>4. /\ IsSeq(ids) /\ IsInjective(ids)
        /\ Range(ids) = {x \in KeysIn(p.prompts) : x[1] = session}
    BY IdsFacts
  <1> HIDE DEF id, ids, now
  <1>5. /\ IsSeq(list) /\ Len(list) <= Len(p.prompts) + 1
        /\ KeysIn(list) = KeysIn(p.prompts) \cup {id}
        /\ \A m \in DOMAIN list : \/ list[m] = [key |-> id, value |-> input]
                                  \/ \E i \in DOMAIN p.prompts : list[m] = p.prompts[i]
    BY <1>2, RoomFacts
  <1> HIDE DEF list, session
  <1>6. IsSeq(new) /\ IsInjective(new) /\ Range(new) = Range(ids) \cup {id}
    <2>1. CASE id \in Range(ids)
      BY <1>4, <2>1
    <2>2. CASE id \notin Range(ids)
      BY <1>4, <2>2, AppendFacts
    <2> QED BY <2>1, <2>2
  <1>7. /\ DOMAIN named = DOMAIN p.sessions \cup {session} /\ named[session] = new
        /\ \A s \in DOMAIN p.sessions : s # session => named[s] = p.sessions[s]
    BY DEF Put
  <1>8. gone = {}
    BY <1>5
  <1> HIDE DEF new, named, gone
  <1>9. ASSUME NEW s \in DOMAIN named
        PROVE  /\ IsSeq(named[s]) /\ IsInjective(named[s])
               /\ Range(named[s]) \ gone = {x \in KeysIn(list) : x[1] = s}
    <2>1. CASE s = session
      <3>1. Range(named[s]) = {x \in KeysIn(p.prompts) : x[1] = session} \cup {id}
        BY <1>4, <1>6, <1>7, <2>1
      <3>2. Range(named[s]) \ gone = {x \in KeysIn(list) : x[1] = s}
        BY <1>3, <1>5, <1>8, <2>1, <3>1
      <3> QED BY <1>6, <1>7, <2>1, <3>2
    <2>2. CASE s # session
      <3>1. /\ IsSeq(named[s]) /\ IsInjective(named[s])
            /\ Range(named[s]) = {x \in KeysIn(p.prompts) : x[1] = s}
        BY <1>7, <2>2 DEF PromptsOK, SessionsAgree
      <3>2. Range(named[s]) \ gone = {x \in KeysIn(list) : x[1] = s}
        BY <1>3, <1>5, <1>8, <2>2, <3>1
      <3> QED BY <3>1, <3>2
    <2> QED BY <2>1, <2>2
  <1>10. \A x \in KeysIn(list) : x[1] \in DOMAIN named
    BY <1>3, <1>5, <1>7 DEF PromptsOK, SessionsAgree
  <1>11. SessionsAgree(list, RemoveSessionEntries(named, gone))
    BY <1>9, <1>10, RemoveEntriesWorks
  <1>12. \A m \in DOMAIN list : IsPrompt(list[m])
    BY <1>3, <1>5 DEF PromptsOK
  <1>13. PromptsOK(q) /\ q.prompts = list
    <2>1. Len(list) <= MaxPrompts
      BY <1>2, <1>5, SeqFacts
    <2> QED BY <1>5, <1>11, <1>12, <2>1 DEF PromptsOK
  <1> HIDE DEF q, d
  <1>14. /\ Len(d.prompts) <= Len(list)
         /\ \A x \in KeysIn(list) : x[3] + CapiWindow >= now => x \in KeysIn(d.prompts)
    BY <1>1, <1>13, EvictSessionKeeps
  <1>15. id \in KeysIn(d.prompts)
    <2>1. now \in Nat /\ now + CapiWindow >= now
      BY PromptAssumption DEF now
    <2> QED BY <1>3, <1>5, <1>14, <2>1
  <1>16. Len(d.prompts) <= Len(p.prompts) + 1
    <2>1. PromptsOK(d)
      BY <1>1, <1>13, EvictSessionWorks
    <2>2. Len(d.prompts) \in Nat /\ Len(list) \in Nat
      BY <1>5, <2>1, SeqFacts DEF PromptsOK
    <2> QED BY <1>2, <1>5, <1>14, <2>2
  <1> QED BY <1>5, <1>14, <1>15, <1>16 DEF d, id, now

\* What is young has been.
LEMMA YoungBefore ==
    ASSUME NEW h, Timed(h), NEW x, x.ts \in Nat
    PROVE  /\ Timed(Append(h, x))
           /\ \A i \in DOMAIN h : Young(Append(h, x), i)
                                     => Young(h, i) /\ h[i].ts + CapiWindow >= x.ts
  <1> DEFINE g == Append(h, x)
             n == Len(h) + 1
  <1>1. /\ IsSeq(g) /\ DOMAIN g = 1 .. n /\ DOMAIN h = 1 .. Len(h) /\ Len(h) \in Nat /\ g[n] = x
        /\ \A i \in DOMAIN h : i \in DOMAIN g /\ g[i] = h[i] /\ i < n
        /\ \A i \in DOMAIN g : i \in DOMAIN h \/ i = n
    BY OneMore DEF Timed
  <1>2. n \in DOMAIN g
    BY <1>1
  <1> HIDE DEF g, n
  <1>3. Timed(g)
    BY <1>1 DEF Timed
  <1>4. ASSUME NEW i \in DOMAIN h, Young(g, i)
        PROVE  Young(h, i) /\ h[i].ts + CapiWindow >= x.ts
    <2>1. \A k \in DOMAIN h : i < k => h[k].ts <= h[i].ts + CapiWindow
      BY <1>1, <1>4 DEF Young
    <2>2. x.ts <= h[i].ts + CapiWindow
      BY <1>1, <1>2, <1>4 DEF Young
    <2>3. h[i].ts \in Nat /\ h[i].ts + CapiWindow \in Nat
      BY PromptAssumption DEF Timed
    <2> QED BY <2>1, <2>2, <2>3 DEF Young
  <1> QED BY <1>3, <1>4 DEF g

LEMMA PromptsFade ==
    ASSUME NEW p, PromptsOK(p), NEW h, Timed(h), PromptsAware(p, h), NEW session,
           NEW x, x.kind # "say", x.ts \in Nat
    PROVE  PromptsAware(EvictSession(p, session, x.ts), Append(h, x))
  <1> DEFINE g == Append(h, x)
             now == x.ts
             d == EvictSession(p, session, now)
  <1>1. SUFFICES ASSUME Room(g)
                 PROVE  Len(d.prompts) <= Cardinality(PromptsIn(g)) /\ PromptsKnown(d, g)
    BY DEF PromptsAware
  <1>2. IsSeq(h)
    BY DEF Timed
  <1>3. /\ Room(h) /\ Cardinality(PromptsIn(g)) = Cardinality(PromptsIn(h))
        /\ Cardinality(PromptsIn(h)) \in Nat
    <2>1. /\ Room(g) => Room(h)
          /\ Cardinality(PromptsIn(g)) = Cardinality(PromptsIn(h)) + 0
      BY <1>2, CountOneMore
    <2> HIDE DEF g
    <2> QED BY <1>1, <1>2, <2>1, CountFacts
  <1>4. Len(p.prompts) <= Cardinality(PromptsIn(h)) /\ PromptsKnown(p, h)
    BY <1>3 DEF PromptsAware
  <1>5. now \in Nat
    OBVIOUS
  <1>6. /\ Len(d.prompts) <= Len(p.prompts)
        /\ \A id \in KeysIn(p.prompts) : id[3] + CapiWindow >= now => id \in KeysIn(d.prompts)
    <2> HIDE DEF now
    <2> QED BY <1>5, EvictSessionKeeps
  <1>7. PromptsOK(d)
    BY EvictSessionWorks
  <1>8. PromptsIn(g) = PromptsIn(h) /\ \A i \in PromptsIn(h) : i \in DOMAIN h /\ g[i] = h[i]
    <2>1. /\ PromptsIn(g) = PromptsIn(h) \cup {}
          /\ \A i \in DOMAIN h : g[i] = h[i]
      BY <1>2, OneMore
    <2> HIDE DEF g
    <2> QED BY <1>2, <2>1, CountFacts
  <1>9. \A i \in DOMAIN h : Young(g, i) => Young(h, i) /\ h[i].ts + CapiWindow >= now
    BY YoungBefore
  <1> HIDE DEF d, g, now
  <1>10. Len(d.prompts) <= Cardinality(PromptsIn(g))
    <2>1. Len(d.prompts) \in Nat /\ Len(p.prompts) \in Nat
      BY <1>7, SeqFacts DEF PromptsOK
    <2> QED BY <1>3, <1>4, <1>6, <2>1
  <1>11. PromptsKnown(d, g)
    <2> SUFFICES ASSUME NEW i \in PromptsIn(g), Young(g, i)
                 PROVE  PromptId(g[i]) \in KeysIn(d.prompts)
      BY DEF PromptsKnown
    <2>1. /\ i \in PromptsIn(h) /\ i \in DOMAIN h /\ g[i] = h[i]
          /\ Young(h, i) /\ h[i].ts + CapiWindow >= now
      BY <1>8, <1>9
    <2>2. PromptId(h[i]) \in KeysIn(p.prompts)
      BY <1>4, <2>1 DEF PromptsKnown
    <2> DEFINE id == PromptId(h[i])
    <2>3. id[3] = h[i].ts
      BY PromptIdFacts
    <2> HIDE DEF id
    <2> QED BY <1>6, <2>1, <2>2, <2>3 DEF id
  <1> QED BY <1>10, <1>11

\* What is processed of a prompt.
IsSayOf(x, input) ==
    /\ x.kind = "say" /\ x.session = input.session /\ x.ts = input.ts /\ x.text = input.text
    /\ PromptId(x) = PromptId(input)

LEMMA PromptsTaken ==
    ASSUME NEW p, PromptsOK(p), NEW h, Timed(h), PromptsAware(p, h),
           NEW input, input.ts \in Nat, IsText(input.text), NEW x, IsSayOf(x, input)
    PROVE  /\ PromptsAware(InsertPrompt(p, input), Append(h, x))
           /\ Room(Append(h, x)) => PromptId(input) \in KeysIn(InsertPrompt(p, input).prompts)
  <1> DEFINE g == Append(h, x)
             n == Len(h) + 1
             d == InsertPrompt(p, input)
  <1>1. SUFFICES ASSUME Room(g)
                 PROVE  /\ Len(d.prompts) <= Cardinality(PromptsIn(g)) /\ PromptsKnown(d, g)
                        /\ PromptId(input) \in KeysIn(d.prompts)
    BY DEF PromptsAware
  <1>2. IsSeq(h) /\ x.kind = "say" /\ x.ts \in Nat /\ x.ts = input.ts
    BY DEF Timed, IsSayOf
  <1>3. /\ Room(h) /\ Cardinality(PromptsIn(g)) = Cardinality(PromptsIn(h)) + 1
        /\ Cardinality(PromptsIn(h)) \in Nat
    <2>1. /\ Room(g) => Room(h)
          /\ Cardinality(PromptsIn(g)) = Cardinality(PromptsIn(h)) + 1
      BY <1>2, CountOneMore
    <2> HIDE DEF g
    <2> QED BY <1>1, <1>2, <2>1, CountFacts
  <1>4. Len(p.prompts) <= Cardinality(PromptsIn(h)) /\ PromptsKnown(p, h)
    BY <1>3 DEF PromptsAware
  <1>5. Len(p.prompts) \in Nat /\ Len(p.prompts) + 1 <= MaxPrompts
    <2>1. Len(p.prompts) \in Nat
      BY SeqFacts DEF PromptsOK
    <2>2. Cardinality(PromptsIn(g)) <= MaxPrompts
      BY <1>1 DEF Room
    <2> QED BY <1>3, <1>4, <2>1, <2>2, PromptAssumption
  <1>6. /\ Len(d.prompts) <= Len(p.prompts) + 1
        /\ PromptId(input) \in KeysIn(d.prompts)
        /\ \A id \in KeysIn(p.prompts) :
              id[3] + CapiWindow >= input.ts => id \in KeysIn(d.prompts)
    BY <1>5, InsertPromptKeeps
  <1>7. PromptsOK(d)
    BY InsertPromptWorks
  <1>8. /\ PromptsIn(g) = PromptsIn(h) \cup {n}
        /\ \A i \in PromptsIn(h) : i \in DOMAIN h /\ g[i] = h[i]
        /\ g[n] = x
    <2>1. /\ PromptsIn(g) = PromptsIn(h) \cup (IF x.kind = "say" THEN {n} ELSE {})
          /\ \A i \in DOMAIN h : g[i] = h[i]
          /\ g[n] = x
      BY <1>2, OneMore, ZenonT(60)
    <2> HIDE DEF g, n
    <2>2. PromptsIn(g) = PromptsIn(h) \cup {n}
      BY <1>2, <2>1
    <2> QED BY <1>2, <2>1, <2>2, CountFacts
  <1>9. \A i \in DOMAIN h : Young(g, i) => Young(h, i) /\ h[i].ts + CapiWindow >= x.ts
    BY <1>2, YoungBefore
  <1> HIDE DEF d, g, n
  <1>10. Len(d.prompts) <= Cardinality(PromptsIn(g))
    <2>1. Len(d.prompts) \in Nat
      BY <1>7, SeqFacts DEF PromptsOK
    <2> QED BY <1>3, <1>4, <1>5, <1>6, <2>1
  <1>11. PromptsKnown(d, g)
    <2> SUFFICES ASSUME NEW i \in PromptsIn(g), Young(g, i)
                 PROVE  PromptId(g[i]) \in KeysIn(d.prompts)
      BY DEF PromptsKnown
    <2>1. CASE i = n
      BY <1>6, <1>8, <2>1 DEF IsSayOf
    <2>2. CASE i # n
      <3>1. /\ i \in PromptsIn(h) /\ i \in DOMAIN h /\ g[i] = h[i]
            /\ Young(h, i) /\ h[i].ts + CapiWindow >= x.ts
        BY <1>8, <1>9, <2>2
      <3>2. PromptId(h[i]) \in KeysIn(p.prompts)
        BY <1>4, <3>1 DEF PromptsKnown
      <3> DEFINE id == PromptId(h[i])
      <3>3. id[3] = h[i].ts
        BY PromptIdFacts
      <3> HIDE DEF id
      <3> QED BY <1>2, <1>6, <3>1, <3>2, <3>3 DEF id
    <2> QED BY <2>1, <2>2
  <1> QED BY <1>6, <1>10, <1>11

-----------------------------------------------------------------------------
(* What time alone takes.                                                  *)

\* What was handed over and said again, as it was when it was.
LEMMA TaleBefore ==
    ASSUME NEW h, Timed(h), NEW x
    PROVE  LET g == Append(h, x)
           IN  /\ \A w, r : r \in DOMAIN h /\ HandedOver(g, w, r)
                               => w \in DOMAIN h /\ HandedOver(h, w, r)
               /\ \A r, p : r \in DOMAIN g /\ p \in DOMAIN h /\ SaidAgain(g, r, p)
                               => r \in DOMAIN h /\ SaidAgain(h, r, p)
  <1> DEFINE g == Append(h, x)
             n == Len(h) + 1
  <1>1. /\ IsSeq(h) /\ DOMAIN g = 1 .. n /\ DOMAIN h = 1 .. Len(h) /\ Len(h) \in Nat
        /\ n \notin DOMAIN h
        /\ \A i \in DOMAIN h : i \in DOMAIN g /\ g[i] = h[i] /\ i < n
        /\ \A i \in DOMAIN g : i \in DOMAIN h \/ i = n
    BY OneMore DEF Timed
  <1>2. \A i \in DOMAIN h : \A j \in DOMAIN g : j < i => j \in DOMAIN h
    BY <1>1
  <1> HIDE DEF g, n
  <1>3. \A i \in DOMAIN h : /\ i \in ReadsIn(g) <=> i \in ReadsIn(h)
                            /\ i \in PromptsIn(g) <=> i \in PromptsIn(h)
                            /\ \A path : i \in WritesOf(g, path) <=> i \in WritesOf(h, path)
    BY <1>1 DEF ReadsIn, PromptsIn, WritesOf, Opened
  <1>4. /\ \A path : \A i \in WritesOf(g, path) : i \in DOMAIN g
        /\ \A path : \A i \in WritesOf(h, path) : i \in DOMAIN h
        /\ \A i \in PromptsIn(h) : i \in DOMAIN h
    BY DEF WritesOf, Opened, PromptsIn
  <1>5. ASSUME NEW w, NEW r \in DOMAIN h, HandedOver(g, w, r)
        PROVE  w \in DOMAIN h /\ HandedOver(h, w, r)
    <2>1. /\ w < r /\ r \in ReadsIn(g) /\ w \in WritesOf(g, g[r].path)
          /\ g[w].path[1] \in Workspaces /\ g[r].session # g[w].session
          /\ g[r].content # NoText
          /\ \A i \in WritesOf(g, g[r].path) : ~(w < i /\ i < r)
      BY <1>5 DEF HandedOver
    <2>2. w \in DOMAIN h /\ g[w] = h[w] /\ g[r] = h[r]
      BY <1>1, <1>2, <1>4, <2>1
    <2>3. \A i \in WritesOf(h, h[r].path) : ~(w < i /\ i < r)
      BY <1>3, <1>4, <2>1, <2>2
    <2> QED BY <1>3, <2>1, <2>2, <2>3 DEF HandedOver
  <1>6. ASSUME NEW r \in DOMAIN g, NEW p \in DOMAIN h, SaidAgain(g, r, p)
        PROVE  r \in DOMAIN h /\ SaidAgain(h, r, p)
    <2>1. /\ r < p /\ p \in PromptsIn(g)
          /\ g[p].session = g[r].session /\ g[p].text = g[r].content /\ g[r].ts <= g[p].ts
          /\ ~TemplateShape(Norm(g[p].text))
          /\ \A i \in PromptsIn(g) : r < i /\ i < p /\ g[i].session = g[r].session
                                        => g[i].ts >= g[r].ts
      BY <1>6 DEF SaidAgain
    <2>2. r \in DOMAIN h /\ g[r] = h[r] /\ g[p] = h[p]
      BY <1>1, <1>2, <2>1
    <2>3. \A i \in PromptsIn(h) : r < i /\ i < p /\ h[i].session = h[r].session
                                     => h[i].ts >= h[r].ts
      <3> TAKE i \in PromptsIn(h)
      <3>1. i \in PromptsIn(g) /\ g[i] = h[i]
        BY <1>1, <1>3, <1>4
      <3> QED BY <2>1, <2>2, <3>1
    <2> QED BY <1>3, <2>1, <2>2, <2>3 DEF SaidAgain
  <1> QED BY <1>5, <1>6 DEF g

\* What time alone takes.
Fades(d, c, now) ==
    /\ d.total <= c.total
    /\ d.artifacts = c.artifacts /\ d.lineage = c.lineage
    /\ \A s : /\ Len(ReadsOf(d, s)) <= Len(ReadsOf(c, s))
              /\ \A read \in Range(ReadsOf(c, s)) :
                    read.ts + CapiWindow >= now => read \in Range(ReadsOf(d, s))
    /\ Len(d.candidates) <= Len(c.candidates)
    /\ \A i \in DOMAIN c.candidates :
          c.candidates[i].value.prompt_ts + CapiWindow >= now
          => c.candidates[i].key \in KeysIn(d.candidates)
    /\ \A m \in DOMAIN d.candidates : \E i \in DOMAIN c.candidates :
          d.candidates[m] = c.candidates[i]

\* An event that is no prompt and opens nothing.
LEMMA OtherEvent ==
    ASSUME NEW h, IsSeq(h), NEW x
    PROVE  LET g == Append(h, x)
           IN  x.kind # "say" /\ x.kind # "open" =>
                  /\ Opened(g) = Opened(h) /\ ReadsIn(g) = ReadsIn(h)
                  /\ PromptsIn(g) = PromptsIn(h)
                  /\ \A path : WritesOf(g, path) = WritesOf(h, path)
                  /\ \A i \in DOMAIN h : i \in DOMAIN g /\ g[i] = h[i]
  <1> DEFINE g == Append(h, x)
             n == Len(h) + 1
  <1>1. /\ Opened(g) = Opened(h) \cup (IF x.kind = "open" THEN {n} ELSE {})
        /\ ReadsIn(g) = ReadsIn(h)
              \cup (IF x.kind = "open" /\ x.reads /\ ~x.writes THEN {n} ELSE {})
        /\ PromptsIn(g) = PromptsIn(h) \cup (IF x.kind = "say" THEN {n} ELSE {})
        /\ \A path : WritesOf(g, path) = WritesOf(h, path)
              \cup (IF x.kind = "open" /\ x.writes /\ x.path = path THEN {n} ELSE {})
        /\ \A i \in DOMAIN h : i \in DOMAIN g /\ g[i] = h[i]
    BY OneMore, ZenonT(60)
  <1> HIDE DEF g, n
  <1>2. SUFFICES ASSUME x.kind # "say", x.kind # "open"
                 PROVE  /\ Opened(g) = Opened(h) /\ ReadsIn(g) = ReadsIn(h)
                        /\ PromptsIn(g) = PromptsIn(h)
                        /\ \A path : WritesOf(g, path) = WritesOf(h, path)
                        /\ \A i \in DOMAIN h : i \in DOMAIN g /\ g[i] = h[i]
    BY DEF g
  <1>3. \A path : WritesOf(g, path) = WritesOf(h, path)
    BY <1>1, <1>2
  <1>4. Opened(g) = Opened(h) /\ ReadsIn(g) = ReadsIn(h) /\ PromptsIn(g) = PromptsIn(h)
    BY <1>1, <1>2
  <1> QED BY <1>1, <1>3, <1>4

LEMMA CapiFades ==
    ASSUME NEW h, Timed(h), NEW c, CapiOK(c, h), CapiAware(c, h),
           NEW x, x.kind # "say", x.kind # "open", x.ts \in Nat,
           NEW d, CapiTyped(d), d.total \in Nat, c.total \in Nat, Fades(d, c, x.ts)
    PROVE  CapiAware(d, Append(h, x))
  <1> DEFINE g == Append(h, x)
             n == Len(h) + 1
             O == Cardinality(Opened(h))
             R == Cardinality(ReadsIn(h))
             P == Cardinality(PromptsIn(h))
  <1>1. SUFFICES ASSUME Room(g)
                 PROVE  /\ Bounded(d, g)
                        /\ WritersKnown(d, g) /\ WritersTold(d, g) /\ ArtifactsTold(d, g)
                        /\ ReadsKnown(d, g) /\ MatchesKnown(d, g) /\ MatchesTold(d)
    BY DEF CapiAware
  <1>2. IsSeq(h) /\ \A i \in DOMAIN h : h[i].ts \in Nat
    BY DEF Timed
  <1>3. Room(g) => Room(h)
    BY <1>2, CountOneMore
  <1>4. /\ Opened(g) = Opened(h) /\ ReadsIn(g) = ReadsIn(h) /\ PromptsIn(g) = PromptsIn(h)
        /\ \A path : WritesOf(g, path) = WritesOf(h, path)
        /\ \A i \in DOMAIN h : i \in DOMAIN g /\ g[i] = h[i]
    BY <1>2, OtherEvent
  <1>5. \A i \in DOMAIN h : Young(g, i) => Young(h, i) /\ h[i].ts + CapiWindow >= x.ts
    BY YoungBefore
  <1>6. /\ \A w, r : r \in DOMAIN h /\ HandedOver(g, w, r)
                        => w \in DOMAIN h /\ HandedOver(h, w, r)
        /\ \A r, p : r \in DOMAIN g /\ p \in DOMAIN h /\ SaidAgain(g, r, p)
                        => r \in DOMAIN h /\ SaidAgain(h, r, p)
    BY TaleBefore
  <1> HIDE DEF g
  <1>7. /\ Bounded(c, h) /\ WritersKnown(c, h) /\ WritersTold(c, h) /\ ArtifactsTold(c, h)
        /\ ReadsKnown(c, h) /\ MatchesKnown(c, h) /\ MatchesTold(c)
    BY <1>1, <1>3 DEF CapiAware
  <1>8. /\ \A i \in Opened(h) \cup ReadsIn(h) \cup PromptsIn(h) : i \in DOMAIN h
        /\ O \in Nat /\ R \in Nat /\ P \in Nat
    BY <1>2, CountFacts
  <1>9. \A path : \A i \in WritesOf(h, path) : i \in DOMAIN h
    BY DEF WritesOf, Opened
  <1>10. /\ d.total <= c.total
         /\ d.artifacts = c.artifacts /\ d.lineage = c.lineage
         /\ \A s : /\ Len(ReadsOf(d, s)) <= Len(ReadsOf(c, s))
                   /\ \A read \in Range(ReadsOf(c, s)) :
                         read.ts + CapiWindow >= x.ts => read \in Range(ReadsOf(d, s))
         /\ Len(d.candidates) <= Len(c.candidates)
         /\ \A i \in DOMAIN c.candidates :
               c.candidates[i].value.prompt_ts + CapiWindow >= x.ts
               => c.candidates[i].key \in KeysIn(d.candidates)
         /\ \A m \in DOMAIN d.candidates : \E i \in DOMAIN c.candidates :
               d.candidates[m] = c.candidates[i]
    BY DEF Fades
  <1>11. Bounded(d, g)
    <2>1. /\ \A s : Len(ReadsOf(d, s)) \in Nat /\ Len(ReadsOf(c, s)) \in Nat
          /\ Len(d.candidates) \in Nat /\ Len(c.candidates) \in Nat
      BY ReadsFacts, SeqFacts DEF CapiOK, CapiTyped
    <2>2. /\ Len(c.lineage) <= O /\ Len(c.artifacts) <= O /\ c.total <= R
          /\ \A s : Len(ReadsOf(c, s)) <= R
          /\ Len(c.candidates) <= R * P
      BY <1>7 DEF Bounded
    <2> HIDE DEF O, R, P
    <2>3. R * P \in Nat
      BY <1>8
    <2>4. d.total <= R /\ Len(d.candidates) <= R * P
      BY <1>8, <1>10, <2>1, <2>2, <2>3
    <2>5. \A s : Len(ReadsOf(d, s)) <= R
      <3> TAKE s
      <3>1. Len(ReadsOf(d, s)) \in Nat /\ Len(ReadsOf(c, s)) \in Nat
            /\ Len(ReadsOf(d, s)) <= Len(ReadsOf(c, s)) /\ Len(ReadsOf(c, s)) <= R
        BY <1>10, <2>1, <2>2
      <3> QED BY <1>8, <3>1
    <2> QED BY <1>4, <1>10, <2>2, <2>4, <2>5 DEF Bounded, O, R, P
  <1>12. WritersKnown(d, g)
    <2> SUFFICES ASSUME NEW w \in Opened(g), IsLatest(g, w)
                 PROVE  /\ g[w].path \in KeysIn(d.lineage)
                        /\ \A m \in DOMAIN d.lineage : d.lineage[m].key = g[w].path
                              => d.lineage[m].value.session = g[w].session
      BY DEF WritersKnown
    <2>1. w \in Opened(h) /\ g[w] = h[w]
      BY <1>4, <1>8
    <2>2. IsLatest(h, w)
      BY <1>4, <2>1 DEF IsLatest
    <2> QED BY <1>7, <1>10, <2>1, <2>2 DEF WritersKnown
  <1>13. WritersTold(d, g)
    BY <1>4, <1>7, <1>9, <1>10 DEF WritersTold
  <1>14. ArtifactsTold(d, g)
    <2> SUFFICES ASSUME NEW m \in DOMAIN c.artifacts
                 PROVE  ArtifactTold(g, c.artifacts[m].key, c.artifacts[m].value.ts)
      BY <1>10 DEF ArtifactsTold
    <2>1. ArtifactTold(h, c.artifacts[m].key, c.artifacts[m].value.ts)
      BY <1>7 DEF ArtifactsTold
    <2> QED BY <1>4, <1>8, <1>9, <2>1 DEF ArtifactTold
  <1>15. ReadsKnown(d, g)
    <2> SUFFICES ASSUME NEW w \in DOMAIN g, NEW r \in DOMAIN g, Awaits(g, w, r)
                 PROVE  \E read \in Range(ReadsOf(d, g[r].session)) : IsRead(d, g, w, r, read)
      BY DEF ReadsKnown
    <2>1. r \in ReadsIn(g)
      BY DEF Awaits, HandedOver
    <2>2. /\ w \in DOMAIN h /\ r \in DOMAIN h /\ HandedOver(h, w, r)
          /\ g[w] = h[w] /\ g[r] = h[r]
      BY <1>4, <1>6, <1>8, <2>1 DEF Awaits
    <2>3. Young(h, r) /\ h[r].ts + CapiWindow >= x.ts
      BY <1>5, <2>2 DEF Awaits
    <2>4. Awaits(h, w, r)
      <3> SUFFICES ASSUME NEW i \in PromptsIn(h), r < i, h[i].session = h[r].session
                   PROVE  h[i].ts >= h[r].ts
        BY <2>2, <2>3 DEF Awaits
      <3>1. i \in PromptsIn(g) /\ g[i] = h[i]
        BY <1>4, <1>8
      <3> QED BY <2>2, <3>1 DEF Awaits
    <2>5. PICK read \in Range(ReadsOf(c, h[r].session)) : IsRead(c, h, w, r, read)
      BY <1>7, <2>2, <2>4 DEF ReadsKnown
    <2>6. read.ts = h[r].ts
      BY <2>5 DEF IsRead
    <2>7. read \in Range(ReadsOf(d, h[r].session))
      BY <1>10, <2>3, <2>6
    <2>8. IsRead(d, g, w, r, read)
      BY <1>10, <2>2, <2>5 DEF IsRead
    <2> QED BY <2>2, <2>7, <2>8
  <1>16. MatchesKnown(d, g)
    <2> SUFFICES ASSUME NEW w \in DOMAIN g, NEW r \in DOMAIN g, NEW p \in DOMAIN g,
                        HandedOver(g, w, r), SaidAgain(g, r, p), Young(g, r)
                 PROVE  \E key \in KeysIn(d.candidates) :
                           key.prompt = PromptId(g[p]) /\ key.artifact[3] = Norm(g[p].text)
      BY DEF MatchesKnown
    <2>1. r \in ReadsIn(g) /\ p \in PromptsIn(g)
      BY DEF HandedOver, SaidAgain
    <2>2. /\ w \in DOMAIN h /\ r \in DOMAIN h /\ p \in DOMAIN h
          /\ HandedOver(h, w, r) /\ SaidAgain(h, r, p)
          /\ g[w] = h[w] /\ g[r] = h[r] /\ g[p] = h[p]
      BY <1>4, <1>6, <1>8, <2>1
    <2>3. Young(h, r) /\ h[r].ts + CapiWindow >= x.ts
      BY <1>5, <2>2
    <2>4. PICK key \in KeysIn(c.candidates) :
             key.prompt = PromptId(h[p]) /\ key.artifact[3] = Norm(h[p].text)
      BY <1>7, <2>2, <2>3 DEF MatchesKnown
    <2>5. PICK i \in DOMAIN c.candidates : key = c.candidates[i].key
      BY DEF KeysIn
    <2>6. c.candidates[i].value.prompt_ts = h[p].ts
      <3>1. c.candidates[i].value.prompt_ts = key.prompt[3]
        BY <1>7, <2>5 DEF MatchesTold, MatchIs
      <3> QED BY <2>4, <3>1, PromptIdFacts
    <2>7. h[p].ts + CapiWindow >= x.ts
      <3>1. h[r].ts <= h[p].ts
        BY <2>2 DEF SaidAgain
      <3>2. h[r].ts \in Nat /\ h[p].ts \in Nat
        BY <1>2, <2>2
      <3> QED BY <2>3, <3>1, <3>2, PromptAssumption
    <2>8. key \in KeysIn(d.candidates)
      BY <1>10, <2>5, <2>6, <2>7
    <2> QED BY <2>2, <2>4, <2>8
  <1>17. MatchesTold(d)
    BY <1>7, <1>10, ZenonT(60) DEF MatchesTold, MatchIs
  <1> QED BY <1>11, <1>12, <1>13, <1>14, <1>15, <1>16, <1>17

-----------------------------------------------------------------------------
(* A file is opened.                                                       *)

\* What is known once it is noted who writes, and before what is read is: g is h
\* with the event.
HasNoted(k, h, g) ==
    /\ Len(k.lineage) <= Cardinality(Opened(g)) /\ Len(k.artifacts) <= Cardinality(Opened(h))
    /\ k.total <= Cardinality(ReadsIn(h))
    /\ \A s : Len(ReadsOf(k, s)) <= Cardinality(ReadsIn(h))
    /\ Len(k.candidates) <= Cardinality(ReadsIn(h)) * Cardinality(PromptsIn(h))
    /\ WritersKnown(k, g) /\ WritersTold(k, g) /\ ArtifactsTold(k, g)
    /\ \A w, r \in DOMAIN h : Awaits(g, w, r) =>
          \E read \in Range(ReadsOf(k, g[r].session)) : IsRead(k, g, w, r, read)
    /\ MatchesKnown(k, g) /\ MatchesTold(k)

\* A file that is opened.
OpenEvent(h, g, x) ==
    LET n == Len(h) + 1
    IN  /\ n \notin DOMAIN h /\ n \in DOMAIN g /\ g[n] = x
        /\ \A i \in DOMAIN h : i \in DOMAIN g /\ g[i] = h[i] /\ i < n /\ i \in Nat
        /\ \A i \in DOMAIN g : i \in DOMAIN h \/ i = n
        /\ Opened(g) = Opened(h) \cup {n}
        /\ ReadsIn(g) = ReadsIn(h) \cup (IF x.reads /\ ~x.writes THEN {n} ELSE {})
        /\ PromptsIn(g) = PromptsIn(h)
        /\ \A path : WritesOf(g, path)
              = WritesOf(h, path) \cup (IF x.writes /\ x.path = path THEN {n} ELSE {})

LEMMA OpenEventFacts ==
    ASSUME NEW h, IsSeq(h), NEW x
    PROVE  x.kind = "open" => OpenEvent(h, Append(h, x), x)
  <1> DEFINE g == Append(h, x)
             n == Len(h) + 1
  <1>1. /\ Len(h) \in Nat /\ DOMAIN h = 1 .. Len(h) /\ DOMAIN g = 1 .. n
        /\ g[n] = x /\ n \notin DOMAIN h
        /\ \A i \in DOMAIN h : i \in DOMAIN g /\ g[i] = h[i] /\ i < n
        /\ \A i \in DOMAIN g : i \in DOMAIN h \/ i = n
        /\ Opened(g) = Opened(h) \cup (IF x.kind = "open" THEN {n} ELSE {})
        /\ ReadsIn(g) = ReadsIn(h)
              \cup (IF x.kind = "open" /\ x.reads /\ ~x.writes THEN {n} ELSE {})
        /\ PromptsIn(g) = PromptsIn(h) \cup (IF x.kind = "say" THEN {n} ELSE {})
        /\ \A path : WritesOf(g, path) = WritesOf(h, path)
              \cup (IF x.kind = "open" /\ x.writes /\ x.path = path THEN {n} ELSE {})
    BY OneMore, ZenonT(60)
  <1>2. n \in DOMAIN g /\ \A i \in DOMAIN h : i \in Nat
    BY <1>1
  <1> HIDE DEF g, n
  <1>3. SUFFICES ASSUME x.kind = "open"
                 PROVE  OpenEvent(h, g, x)
    BY DEF g
  <1>4. \A path : WritesOf(g, path)
           = WritesOf(h, path) \cup (IF x.writes /\ x.path = path THEN {n} ELSE {})
    BY <1>1, <1>3
  <1>5. /\ Opened(g) = Opened(h) \cup {n}
        /\ ReadsIn(g) = ReadsIn(h) \cup (IF x.reads /\ ~x.writes THEN {n} ELSE {})
        /\ PromptsIn(g) = PromptsIn(h)
    BY <1>1, <1>3
  <1> QED BY <1>1, <1>2, <1>4, <1>5 DEF OpenEvent, n

LEMMA LineageRoom ==
    ASSUME NEW c, NEW h, CapiOK(c, h), NEW file, Len(c.lineage) + 1 <= MaxArtifacts
    PROVE  LET k == NotedOf(c, file)
           IN  /\ k.artifacts = c.artifacts /\ k.pending = c.pending /\ k.total = c.total
               /\ k.candidates = c.candidates /\ k.emitted = c.emitted
               /\ ~file.writes => k.lineage = c.lineage
               /\ file.writes =>
                     /\ Len(k.lineage) <= Len(c.lineage) + 1
                     /\ KeysIn(k.lineage) = KeysIn(c.lineage) \cup {file.path}
                     /\ \A m \in DOMAIN k.lineage :
                           \/ /\ k.lineage[m].key = file.path
                              /\ k.lineage[m].value.session = file.session
                              /\ k.lineage[m].value.ts = file.ts
                           \/ \E i \in DOMAIN c.lineage :
                                 k.lineage[m] = c.lineage[i] /\ c.lineage[i].key # file.path
  <1> DEFINE value == [session |-> file.session, ts |-> file.ts]
             lineage == InsertYoungest(c.lineage, file.path, value, MaxArtifacts)
             d == [c EXCEPT !.lineage = lineage]
             k == NotedOf(c, file)
  <1>1. DOMAIN c = CapiFields /\ IsSeq(c.lineage)
    BY DEF CapiOK, CapiTyped
  <1>2. CASE ~file.writes
    <2>1. k = c
      BY <1>2 DEF NotedOf
    <2> HIDE DEF k
    <2> QED BY <1>2, <2>1 DEF k
  <1>3. CASE file.writes
    <2>1. k = d
      BY <1>3 DEF NotedOf
    <2>2. value.session = file.session /\ value.ts = file.ts
      OBVIOUS
    <2> HIDE DEF value
    <2>3. /\ Len(lineage) <= Len(c.lineage) + 1
          /\ KeysIn(lineage) = KeysIn(c.lineage) \cup {file.path}
          /\ \A m \in DOMAIN lineage :
                \/ lineage[m] = [key |-> file.path, value |-> value]
                \/ \E i \in DOMAIN c.lineage :
                      lineage[m] = c.lineage[i] /\ c.lineage[i].key # file.path
      <3>1. MaxArtifacts \in Nat \ {0}
        BY CapiAssumption
      <3> QED BY <1>1, <3>1, RoomFacts
    <2> HIDE DEF lineage
    <2>4. /\ d.artifacts = c.artifacts /\ d.pending = c.pending /\ d.total = c.total
          /\ d.candidates = c.candidates /\ d.emitted = c.emitted /\ d.lineage = lineage
      BY <1>1 DEF CapiFields
    <2> HIDE DEF d, k
    <2>5. \A m \in DOMAIN lineage :
             \/ /\ lineage[m].key = file.path
                /\ lineage[m].value.session = file.session
                /\ lineage[m].value.ts = file.ts
             \/ \E i \in DOMAIN c.lineage :
                   lineage[m] = c.lineage[i] /\ c.lineage[i].key # file.path
      <3> TAKE m \in DOMAIN lineage
      <3>1. CASE lineage[m] = [key |-> file.path, value |-> value]
        <4>1. lineage[m].key = file.path /\ lineage[m].value = value
          BY <3>1
        <4> QED BY <2>2, <4>1
      <3>2. CASE \E i \in DOMAIN c.lineage :
                    lineage[m] = c.lineage[i] /\ c.lineage[i].key # file.path
        BY <3>2
      <3> QED BY <2>3, <3>1, <3>2
    <2> QED BY <1>3, <2>1, <2>3, <2>4, <2>5 DEF k
  <1> QED BY <1>2, <1>3

LEMMA OpenNoted ==
    ASSUME NEW h, Timed(h), NEW c, CapiOK(c, h), CapiAware(c, h),
           NEW file, NEW content, NEW x, IsOpenOf(x, file, content), x.ts \in Nat,
           file.workspace <=> file.path[1] \in Workspaces,
           Room(Append(h, x)),
           NEW k, k = IF file.workspace THEN NotedOf(c, file) ELSE c
    PROVE  HasNoted(k, h, Append(h, x))
  <1> DEFINE g == Append(h, x)
             n == Len(h) + 1
             O == Cardinality(Opened(h))
             R == Cardinality(ReadsIn(h))
             P == Cardinality(PromptsIn(h))
             O2 == Cardinality(Opened(g))
  <1>1. /\ x.kind = "open" /\ x.session = file.session /\ x.path = file.path /\ x.ts = file.ts
        /\ x.writes = file.writes /\ x.reads = file.reads /\ x.content = content
    BY DEF IsOpenOf
  <1>2. IsSeq(h) /\ \A i \in DOMAIN h : h[i].ts \in Nat
    BY DEF Timed
  <1>3. Room(h) /\ O2 = O + 1 /\ O2 <= MaxArtifacts
    <2>1. /\ Room(g) => Room(h)
          /\ O2 = O + (IF x.kind = "open" THEN 1 ELSE 0)
      BY <1>2, CountOneMore
    <2>2. O2 <= MaxArtifacts /\ Room(g)
      BY DEF Room
    <2> HIDE DEF g, O, O2
    <2> QED BY <1>1, <2>1, <2>2
  <1>4. OpenEvent(h, g, x)
    BY <1>1, <1>2, OpenEventFacts
  <1>5. \A i \in DOMAIN h : Young(g, i) => Young(h, i) /\ h[i].ts + CapiWindow >= x.ts
    BY YoungBefore
  <1>6. /\ \A w, r : r \in DOMAIN h /\ HandedOver(g, w, r)
                        => w \in DOMAIN h /\ HandedOver(h, w, r)
        /\ \A r, p : r \in DOMAIN g /\ p \in DOMAIN h /\ SaidAgain(g, r, p)
                        => r \in DOMAIN h /\ SaidAgain(h, r, p)
    BY TaleBefore
  <1> HIDE DEF g
  <1>7. /\ n \notin DOMAIN h /\ n \in DOMAIN g /\ g[n] = x
        /\ \A i \in DOMAIN h : i \in DOMAIN g /\ g[i] = h[i] /\ i < n /\ i \in Nat
        /\ \A i \in DOMAIN g : i \in DOMAIN h \/ i = n
        /\ Opened(g) = Opened(h) \cup {n}
        /\ ReadsIn(g) = ReadsIn(h) \cup (IF x.reads /\ ~x.writes THEN {n} ELSE {})
        /\ PromptsIn(g) = PromptsIn(h)
        /\ \A path : WritesOf(g, path)
              = WritesOf(h, path) \cup (IF x.writes /\ x.path = path THEN {n} ELSE {})
    BY <1>4 DEF OpenEvent
  <1>8. n \in Nat
    BY <1>2, SeqFacts
  <1> HIDE DEF n
  <1>9. /\ Bounded(c, h) /\ WritersKnown(c, h) /\ WritersTold(c, h) /\ ArtifactsTold(c, h)
        /\ ReadsKnown(c, h) /\ MatchesKnown(c, h) /\ MatchesTold(c)
    BY <1>3 DEF CapiAware
  <1>10. /\ \A i \in Opened(h) \cup ReadsIn(h) \cup PromptsIn(h) : i \in DOMAIN h
         /\ O \in Nat /\ R \in Nat /\ P \in Nat
    BY <1>2, CountFacts
  <1>11. \A path : \A i \in WritesOf(h, path) : i \in DOMAIN h
    BY DEF WritesOf, Opened
  <1>12. Len(c.lineage) \in Nat /\ Len(c.lineage) + 1 <= MaxArtifacts /\ Len(c.lineage) <= O
    <2>1. Len(c.lineage) \in Nat
      BY SeqFacts DEF CapiOK, CapiTyped
    <2>2. Len(c.lineage) <= O
      BY <1>9 DEF Bounded
    <2> HIDE DEF O, O2
    <2> QED BY <1>3, <1>10, <2>1, <2>2, CapiAssumption
  <1>13. /\ k.artifacts = c.artifacts /\ k.pending = c.pending /\ k.total = c.total
         /\ k.candidates = c.candidates
         /\ ~(file.workspace /\ file.writes) => k.lineage = c.lineage
         /\ file.workspace /\ file.writes =>
               /\ Len(k.lineage) <= Len(c.lineage) + 1
               /\ KeysIn(k.lineage) = KeysIn(c.lineage) \cup {file.path}
               /\ \A m \in DOMAIN k.lineage :
                     \/ /\ k.lineage[m].key = file.path
                        /\ k.lineage[m].value.session = file.session
                        /\ k.lineage[m].value.ts = file.ts
                     \/ \E i \in DOMAIN c.lineage :
                           k.lineage[m] = c.lineage[i] /\ c.lineage[i].key # file.path
         /\ Len(k.lineage) \in Nat
    <2>1. CASE ~file.workspace
      BY <1>12, <2>1
    <2>2. CASE file.workspace
      <3> DEFINE d == NotedOf(c, file)
      <3>1. k = d
        BY <2>2
      <3>2. /\ d.artifacts = c.artifacts /\ d.pending = c.pending /\ d.total = c.total
            /\ d.candidates = c.candidates /\ d.emitted = c.emitted
            /\ ~file.writes => d.lineage = c.lineage
            /\ file.writes =>
                  /\ Len(d.lineage) <= Len(c.lineage) + 1
                  /\ KeysIn(d.lineage) = KeysIn(c.lineage) \cup {file.path}
                  /\ \A m \in DOMAIN d.lineage :
                        \/ /\ d.lineage[m].key = file.path
                           /\ d.lineage[m].value.session = file.session
                           /\ d.lineage[m].value.ts = file.ts
                        \/ \E i \in DOMAIN c.lineage :
                              d.lineage[m] = c.lineage[i] /\ c.lineage[i].key # file.path
        BY <1>12, LineageRoom, ZenonT(60)
      <3>3. Len(d.lineage) \in Nat
        <4>1. CapiOK(d, g)
          BY <1>2, NotedWorks DEF g
        <4> HIDE DEF d
        <4> QED BY <4>1, SeqFacts DEF CapiOK, CapiTyped
      <3> HIDE DEF d
      <3> QED BY <2>2, <3>1, <3>2, <3>3
    <2> QED BY <2>1, <2>2
  <1>14. /\ Len(k.lineage) <= O2 /\ Len(k.artifacts) <= O /\ k.total <= R
         /\ \A s : Len(ReadsOf(k, s)) <= R
         /\ Len(k.candidates) <= R * P
    <2>1. /\ Len(c.artifacts) <= O /\ c.total <= R
          /\ \A s : Len(ReadsOf(c, s)) <= R
          /\ Len(c.candidates) <= R * P
      BY <1>9 DEF Bounded
    <2>2. \A s : ReadsOf(k, s) = ReadsOf(c, s)
      BY <1>13 DEF ReadsOf
    <2>3. Len(k.lineage) <= Len(c.lineage) + 1
      BY <1>12, <1>13
    <2> HIDE DEF O, O2, R, P
    <2>4. Len(k.lineage) <= O2
      BY <1>3, <1>10, <1>12, <1>13, <2>3
    <2> QED BY <1>13, <2>1, <2>2, <2>4
  <1>15. WritersKnown(k, g)
    <2> SUFFICES ASSUME NEW w \in Opened(g), IsLatest(g, w)
                 PROVE  /\ g[w].path \in KeysIn(k.lineage)
                        /\ \A m \in DOMAIN k.lineage : k.lineage[m].key = g[w].path
                              => k.lineage[m].value.session = g[w].session
      BY DEF WritersKnown
    <2>1. CASE w = n
      <3>1. g[w] = x /\ x.writes /\ file.workspace
        BY <1>1, <1>7, <2>1 DEF IsLatest
      <3> QED BY <1>1, <1>13, <3>1
    <2>2. CASE w # n
      <3>1. w \in Opened(h) /\ w \in DOMAIN h /\ g[w] = h[w] /\ w < n /\ w \in Nat
        BY <1>7, <1>10, <2>2
      <3>2. IsLatest(h, w)
        <4>1. \A i \in WritesOf(h, h[w].path) : i \in WritesOf(g, g[w].path)
          BY <1>7, <3>1
        <4> QED BY <3>1, <4>1 DEF IsLatest
      <3>3. ~(x.writes /\ x.path = g[w].path)
        <4> SUFFICES ASSUME x.writes, x.path = g[w].path
                     PROVE  FALSE
          OBVIOUS
        <4>1. n \in WritesOf(g, g[w].path)
          BY <1>7
        <4>2. n <= w
          BY <4>1 DEF IsLatest
        <4> QED BY <1>8, <3>1, <4>2
      <3>4. /\ h[w].path \in KeysIn(c.lineage)
            /\ \A m \in DOMAIN c.lineage : c.lineage[m].key = h[w].path
                  => c.lineage[m].value.session = h[w].session
        BY <1>9, <3>1, <3>2 DEF WritersKnown
      <3>5. CASE ~(file.workspace /\ file.writes)
        BY <1>13, <3>1, <3>4, <3>5
      <3>6. CASE file.workspace /\ file.writes
        <4>1. file.path # g[w].path
          BY <1>1, <3>3, <3>6
        <4>2. h[w].path \in KeysIn(k.lineage)
          BY <1>13, <3>4, <3>6
        <4>3. ASSUME NEW m \in DOMAIN k.lineage, k.lineage[m].key = g[w].path
              PROVE  k.lineage[m].value.session = g[w].session
          BY <1>13, <3>1, <3>4, <3>6, <4>1, <4>3
        <4> QED BY <3>1, <4>2, <4>3
      <3> QED BY <3>5, <3>6
    <2> QED BY <2>1, <2>2
  <1>16. WritersTold(k, g)
    <2> SUFFICES ASSUME NEW m \in DOMAIN k.lineage
                 PROVE  \E w \in WritesOf(g, k.lineage[m].key) : k.lineage[m].value.ts = g[w].ts
      BY DEF WritersTold
    <2>1. \A i \in DOMAIN c.lineage : \E w \in WritesOf(g, c.lineage[i].key) :
             c.lineage[i].value.ts = g[w].ts
      <3> TAKE i \in DOMAIN c.lineage
      <3>1. PICK w \in WritesOf(h, c.lineage[i].key) : c.lineage[i].value.ts = h[w].ts
        BY <1>9 DEF WritersTold
      <3>2. w \in WritesOf(g, c.lineage[i].key) /\ g[w] = h[w]
        BY <1>7, <1>11, <3>1
      <3> QED BY <3>1, <3>2
    <2>2. CASE ~(file.workspace /\ file.writes)
      BY <1>13, <2>1, <2>2
    <2>3. CASE file.workspace /\ file.writes
      <3>1. n \in WritesOf(g, file.path) /\ g[n].ts = file.ts
        BY <1>1, <1>7, <2>3
      <3>2. CASE k.lineage[m].key = file.path /\ k.lineage[m].value.ts = file.ts
        BY <3>1, <3>2
      <3>3. CASE \E i \in DOMAIN c.lineage : k.lineage[m] = c.lineage[i]
        BY <2>1, <3>3
      <3> QED BY <1>13, <2>3, <3>2, <3>3
    <2> QED BY <2>2, <2>3
  <1>17. ArtifactsTold(k, g)
    <2> SUFFICES ASSUME NEW m \in DOMAIN c.artifacts
                 PROVE  ArtifactTold(g, c.artifacts[m].key, c.artifacts[m].value.ts)
      BY <1>13 DEF ArtifactsTold
    <2> DEFINE id == c.artifacts[m].key
               ts == c.artifacts[m].value.ts
    <2>1. ArtifactTold(h, id, ts)
      BY <1>9 DEF ArtifactsTold
    <2> HIDE DEF id, ts
    <2>2. PICK r \in ReadsIn(h) : \E w \in WritesOf(h, h[r].path) :
             w < r /\ Norm(h[r].content) = id[3] /\ ts = h[w].ts
      BY <2>1 DEF ArtifactTold
    <2>3. PICK w \in WritesOf(h, h[r].path) :
             w < r /\ Norm(h[r].content) = id[3] /\ ts = h[w].ts
      BY <2>2
    <2>4. r \in ReadsIn(g) /\ g[r] = h[r] /\ w \in WritesOf(g, h[r].path) /\ g[w] = h[w]
      BY <1>7, <1>10, <1>11
    <2> QED BY <2>3, <2>4 DEF ArtifactTold, id, ts
  <1>18. ASSUME NEW w \in DOMAIN h, NEW r \in DOMAIN h, Awaits(g, w, r)
         PROVE  \E read \in Range(ReadsOf(k, g[r].session)) : IsRead(k, g, w, r, read)
    <2>1. /\ HandedOver(h, w, r) /\ g[w] = h[w] /\ g[r] = h[r]
      BY <1>6, <1>7, <1>18 DEF Awaits
    <2>2. Young(h, r)
      BY <1>5, <1>18 DEF Awaits
    <2>3. Awaits(h, w, r)
      <3> SUFFICES ASSUME NEW i \in PromptsIn(h), r < i, h[i].session = h[r].session
                   PROVE  h[i].ts >= h[r].ts
        BY <2>1, <2>2 DEF Awaits
      <3>1. i \in PromptsIn(g) /\ g[i] = h[i]
        BY <1>7, <1>10
      <3> QED BY <1>18, <2>1, <3>1 DEF Awaits
    <2>4. PICK read \in Range(ReadsOf(c, h[r].session)) : IsRead(c, h, w, r, read)
      BY <1>9, <2>3 DEF ReadsKnown
    <2>5. IsRead(k, g, w, r, read)
      BY <1>13, <2>1, <2>4 DEF IsRead
    <2>6. ReadsOf(k, g[r].session) = ReadsOf(c, h[r].session)
      BY <1>13, <2>1 DEF ReadsOf
    <2> QED BY <2>5, <2>6
  <1>19. MatchesKnown(k, g)
    <2> SUFFICES ASSUME NEW w \in DOMAIN g, NEW r \in DOMAIN g, NEW p \in DOMAIN g,
                        HandedOver(g, w, r), SaidAgain(g, r, p), Young(g, r)
                 PROVE  \E key \in KeysIn(k.candidates) :
                           key.prompt = PromptId(g[p]) /\ key.artifact[3] = Norm(g[p].text)
      BY DEF MatchesKnown
    <2>1. p \in PromptsIn(g)
      BY DEF SaidAgain
    <2>2. /\ p \in DOMAIN h /\ r \in DOMAIN h /\ SaidAgain(h, r, p)
          /\ g[r] = h[r] /\ g[p] = h[p]
      BY <1>6, <1>7, <1>10, <2>1
    <2>3. w \in DOMAIN h /\ HandedOver(h, w, r)
      BY <1>6, <2>2
    <2>4. Young(h, r)
      BY <1>5, <2>2
    <2>5. \E key \in KeysIn(c.candidates) :
             key.prompt = PromptId(h[p]) /\ key.artifact[3] = Norm(h[p].text)
      BY <1>9, <2>2, <2>3, <2>4 DEF MatchesKnown
    <2> QED BY <1>13, <2>2, <2>5
  <1>20. MatchesTold(k)
    BY <1>9, <1>13 DEF MatchesTold, MatchIs
  <1> QED BY <1>14, <1>15, <1>16, <1>17, <1>18, <1>19, <1>20 DEF HasNoted, g

\* A read is kept, and what opening a file comes to once it is noted who writes.
WithRead(k, session, read, artifact) ==
    [InsertArtifact(k, artifact) EXCEPT
        !.pending = Put(@, session, Append(ReadsOf(k, session), read)),
        !.order = Append(@, TokenOf(session, read)),
        !.total = @ + 1]

WriterIn(k, file) == ValueOf(k.lineage, file.path)
ArtifactIn(k, file, content) ==
    ArtifactOf(WriterIn(k, file).session, file.path, WriterIn(k, file).ts, content)
ReadIn(k, file, content) ==
    [artifact |-> ArtifactIn(k, file, content).id, path |-> file.path, ts |-> file.ts]

Unremarkable(k, file, content) ==
    \/ ~file.reads \/ file.path \notin KeysIn(k.lineage)
    \/ WriterIn(k, file).session = file.session \/ content = NoText

OpenResult(k, file, content) ==
    IF Unremarkable(k, file, content) THEN k
    ELSE EnforceBounds(WithRead(k, file.session, ReadIn(k, file, content),
                                ArtifactIn(k, file, content)))

LEMMA OpenForm ==
    ASSUME NEW c, NEW file, NEW content
    PROVE  ObserveFileEvent(c, file, content)
              = IF file.workspace THEN OpenResult(NotedOf(c, file), file, content) ELSE c
  BY DEF ObserveFileEvent, NotedOf, OpenResult, Unremarkable, WithRead, ReadIn, ArtifactIn, WriterIn

\* What a read adds, as long as there is room.
LEMMA ReadRoom ==
    ASSUME NEW k, NEW g, CapiOK(k, g), NEW session, NEW read, NEW artifact,
           k.total + 1 <= MaxArtifacts, Len(k.artifacts) + 1 <= MaxArtifacts
    PROVE  LET d == WithRead(k, session, read, artifact)
           IN
           /\ CapiTyped(d) /\ EnforceBounds(d) = d
           /\ d.lineage = k.lineage /\ d.candidates = k.candidates /\ d.emitted = k.emitted
           /\ d.total = k.total + 1
           /\ Len(d.artifacts) <= Len(k.artifacts) + 1
           /\ KeysIn(d.artifacts) = KeysIn(k.artifacts) \cup {artifact.id}
           /\ \A m \in DOMAIN d.artifacts :
                 \/ d.artifacts[m] = [key |-> artifact.id, value |-> artifact]
                 \/ \E i \in DOMAIN k.artifacts : d.artifacts[m] = k.artifacts[i]
           /\ \A s : Len(ReadsOf(d, s)) <= Len(ReadsOf(k, s)) + 1
           /\ \A s : \A r \in Range(ReadsOf(k, s)) : r \in Range(ReadsOf(d, s))
           /\ read \in Range(ReadsOf(d, session))
  <1> DEFINE old == ReadsOf(k, session)
             more == Append(old, read)
             artifacts == InsertYoungest(k.artifacts, artifact.id, artifact, MaxArtifacts)
             reads == Put(k.pending, session, more)
             order == Append(k.order, TokenOf(session, read))
             d == WithRead(k, session, read, artifact)
  <1>1. CapiTyped(k) /\ DOMAIN k = CapiFields
    BY DEF CapiOK, CapiTyped
  <1>2. /\ DOMAIN d = CapiFields
        /\ d.artifacts = artifacts /\ d.lineage = k.lineage
        /\ d.candidates = k.candidates /\ d.order = order /\ d.emitted = k.emitted
        /\ d.pending = reads /\ d.total = k.total + 1
    BY <1>1 DEF CapiFields, InsertArtifact, WithRead
  <1> HIDE DEF d
  <1>3. /\ IsSeq(artifacts) /\ Len(artifacts) <= Len(k.artifacts) + 1
        /\ KeysIn(artifacts) = KeysIn(k.artifacts) \cup {artifact.id}
        /\ \A m \in DOMAIN artifacts :
              \/ artifacts[m] = [key |-> artifact.id, value |-> artifact]
              \/ \E i \in DOMAIN k.artifacts : artifacts[m] = k.artifacts[i]
    <2>1. IsSeq(k.artifacts) /\ MaxArtifacts \in Nat \ {0}
      BY <1>1, CapiAssumption DEF CapiTyped
    <2> QED BY <2>1, RoomFacts
  <1> HIDE DEF artifacts
  <1>4. IsSeq(old) /\ Len(old) \in Nat
    BY <1>1, ReadsFacts
  <1> HIDE DEF old
  <1>5. IsSeq(more) /\ Len(more) = Len(old) + 1 /\ Range(more) = Range(old) \cup {read}
    BY <1>4, AppendFacts
  <1> HIDE DEF more
  <1>6. IsSeq(order)
    <2>1. IsSeq(k.order)
      BY <1>1 DEF CapiTyped
    <2> QED BY <2>1, AppendFacts
  <1>7. /\ DOMAIN reads = DOMAIN k.pending \cup {session}
        /\ reads[session] = more
        /\ \A s \in DOMAIN k.pending : s # session => reads[s] = k.pending[s]
    BY DEF Put
  <1> HIDE DEF reads, order
  <1>8. \A s : ReadsOf(d, s) = IF s = session THEN more ELSE ReadsOf(k, s)
    <2> TAKE s
    <2>1. CASE s = session
      BY <1>2, <1>7, <2>1 DEF ReadsOf
    <2>2. CASE s # session
      BY <1>2, <1>7, <2>2 DEF ReadsOf
    <2> QED BY <2>1, <2>2
  <1>9. CapiTyped(d)
    <2>1. \A s \in DOMAIN reads : IsSeq(reads[s])
      BY <1>1, <1>5, <1>7 DEF CapiTyped
    <2>2. Len(artifacts) <= MaxArtifacts
      <3>1. Len(artifacts) \in Nat /\ Len(k.artifacts) \in Nat
        BY <1>1, <1>3, SeqFacts DEF CapiTyped
      <3> QED BY <1>3, <3>1, CapiAssumption
    <2> QED BY <1>1, <1>2, <1>3, <1>6, <2>1, <2>2 DEF CapiTyped
  <1>10. EnforceBounds(d) = d
    BY <1>2, <1>9, EnforceIdles
  <1>11. \A s : Len(ReadsOf(d, s)) <= Len(ReadsOf(k, s)) + 1
    <2> TAKE s
    <2>1. Len(ReadsOf(k, s)) \in Nat
      BY <1>1, ReadsFacts
    <2>2. CASE s = session
      BY <1>4, <1>5, <1>8, <2>2 DEF old
    <2>3. CASE s # session
      BY <1>8, <2>1, <2>3
    <2> QED BY <2>2, <2>3
  <1>12. \A s : \A r \in Range(ReadsOf(k, s)) : r \in Range(ReadsOf(d, s))
    BY <1>5, <1>8 DEF old
  <1>13. read \in Range(ReadsOf(d, session))
    BY <1>5, <1>8
  <1> QED BY <1>2, <1>3, <1>9, <1>10, <1>11, <1>12, <1>13 DEF d

LEMMA OpenAware ==
    ASSUME NEW h, Timed(h), NEW c, CapiOK(c, h), CapiAware(c, h),
           NEW file, NEW content, NEW x, IsOpenOf(x, file, content), x.ts \in Nat,
           file.workspace <=> file.path[1] \in Workspaces
    PROVE  /\ CapiAware(ObserveFileEvent(c, file, content), Append(h, x))
           /\ Room(Append(h, x)) => ObserveFileEvent(c, file, content).emitted = c.emitted
  <1> DEFINE g == Append(h, x)
             n == Len(h) + 1
             O == Cardinality(Opened(h))
             R == Cardinality(ReadsIn(h))
             P == Cardinality(PromptsIn(h))
             noted == NotedOf(c, file)
             k == IF file.workspace THEN noted ELSE c
             writer == WriterIn(k, file)
             artifact == ArtifactIn(k, file, content)
             read == ReadIn(k, file, content)
             d == WithRead(k, file.session, read, artifact)
             idle == ~file.workspace \/ Unremarkable(k, file, content)
             e == ObserveFileEvent(c, file, content)
  <1>1. e = IF idle THEN k ELSE EnforceBounds(d)
    <2>1. e = IF file.workspace THEN OpenResult(noted, file, content) ELSE c
      BY OpenForm
    <2>2. CASE ~file.workspace
      BY <2>1, <2>2
    <2>3. CASE file.workspace
      <3>1. e = OpenResult(k, file, content)
        BY <2>1, <2>3
      <3> HIDE DEF k, e
      <3> QED BY <2>3, <3>1 DEF OpenResult
    <2> QED BY <2>2, <2>3
  <1>2. SUFFICES ASSUME Room(g)
                 PROVE  /\ Bounded(e, g)
                        /\ WritersKnown(e, g) /\ WritersTold(e, g) /\ ArtifactsTold(e, g)
                        /\ ReadsKnown(e, g) /\ MatchesKnown(e, g) /\ MatchesTold(e)
                        /\ e.emitted = c.emitted
    BY DEF CapiAware
  <1>3. /\ x.kind = "open" /\ x.session = file.session /\ x.path = file.path /\ x.ts = file.ts
        /\ x.writes = file.writes /\ x.reads = file.reads /\ x.content = content
    BY DEF IsOpenOf
  <1>4. IsSeq(h) /\ \A i \in DOMAIN h : h[i].ts \in Nat
    BY DEF Timed
  <1>5. HasNoted(k, h, g)
    BY <1>2, OpenNoted
  <1>6. CapiOK(k, g)
    <2>1. CapiOK(noted, g) /\ CapiOK(c, g)
      BY <1>4, NotedWorks, TracedLater
    <2> QED BY <2>1
  <1>20. k.emitted = c.emitted
    <2>1. noted.emitted = c.emitted
      BY DEF NotedOf, CapiOK, CapiTyped, CapiFields
    <2> HIDE DEF noted
    <2> QED BY <2>1
  <1>7. OpenEvent(h, g, x)
    BY <1>3, <1>4, OpenEventFacts
  <1>8. /\ Cardinality(Opened(g)) = O + 1
        /\ Cardinality(ReadsIn(g)) = R + (IF x.reads /\ ~x.writes THEN 1 ELSE 0)
        /\ Cardinality(PromptsIn(g)) = P
        /\ O + 1 <= MaxArtifacts
    <2>1. /\ Cardinality(Opened(g)) = O + (IF x.kind = "open" THEN 1 ELSE 0)
          /\ Cardinality(ReadsIn(g)) = R
                + (IF x.kind = "open" /\ x.reads /\ ~x.writes THEN 1 ELSE 0)
          /\ Cardinality(PromptsIn(g)) = P + (IF x.kind = "say" THEN 1 ELSE 0)
      BY <1>4, CountOneMore
    <2>2. Cardinality(Opened(g)) <= MaxArtifacts
      BY <1>2 DEF Room
    <2>3. P \in Nat
      BY <1>4, CountFacts
    <2> HIDE DEF g, O, R, P
    <2> QED BY <1>3, <2>1, <2>2, <2>3
  <1>9. O \in Nat /\ R \in Nat /\ P \in Nat /\ R <= O
    BY <1>4, CountFacts
  <1>10. \A i \in Opened(h) \cup ReadsIn(h) \cup PromptsIn(h) : i \in DOMAIN h
    BY <1>4, CountFacts
  <1>11. n \in Nat
    BY <1>4, SeqFacts
  <1> HIDE DEF g
  <1>12. /\ n \notin DOMAIN h /\ n \in DOMAIN g /\ g[n] = x
         /\ \A i \in DOMAIN h : i \in DOMAIN g /\ g[i] = h[i] /\ i < n /\ i \in Nat
         /\ \A i \in DOMAIN g : i \in DOMAIN h \/ i = n
         /\ Opened(g) = Opened(h) \cup {n}
         /\ ReadsIn(g) = ReadsIn(h) \cup (IF x.reads /\ ~x.writes THEN {n} ELSE {})
         /\ PromptsIn(g) = PromptsIn(h)
         /\ \A path : WritesOf(g, path)
               = WritesOf(h, path) \cup (IF x.writes /\ x.path = path THEN {n} ELSE {})
    BY <1>7 DEF OpenEvent
  <1> HIDE DEF n
  <1>13. /\ Len(k.lineage) <= Cardinality(Opened(g)) /\ Len(k.artifacts) <= O /\ k.total <= R
         /\ \A s : Len(ReadsOf(k, s)) <= R
         /\ Len(k.candidates) <= R * P
         /\ WritersKnown(k, g) /\ WritersTold(k, g) /\ ArtifactsTold(k, g)
         /\ \A w, r \in DOMAIN h : Awaits(g, w, r) =>
               \E y \in Range(ReadsOf(k, g[r].session)) : IsRead(k, g, w, r, y)
         /\ MatchesKnown(k, g) /\ MatchesTold(k)
    BY <1>5 DEF HasNoted
  <1>14. \A w, r : HandedOver(g, w, r) => w \in DOMAIN g /\ w < r /\ r \in ReadsIn(g)
    BY DEF HandedOver, WritesOf, Opened
  <1>15. /\ \A s : Len(ReadsOf(k, s)) \in Nat
         /\ Len(k.artifacts) \in Nat /\ Len(k.candidates) \in Nat /\ k.total \in Nat
    <2>1. CapiTyped(k)
      BY <1>6 DEF CapiOK
    <2>2. k.total \in Nat
      <3> HIDE DEF k
      <3> QED BY <1>6, KeepReadsWorks
    <2> HIDE DEF k
    <2> QED BY <2>1, <2>2, ReadsFacts, SeqFacts DEF CapiTyped
  <1>16. /\ file.workspace <=> x.path[1] \in Workspaces
    BY <1>3
  \* Who reads what another session wrote last is recognized.
  <1>17. ASSUME NEW w, HandedOver(g, w, n)
         PROVE  /\ ~idle /\ writer.session = g[w].session
    <2>1. /\ w < n /\ n \in ReadsIn(g) /\ w \in WritesOf(g, x.path)
          /\ g[w].path[1] \in Workspaces /\ x.session # g[w].session /\ x.content # NoText
          /\ \A i \in WritesOf(g, x.path) : ~(w < i /\ i < n)
      BY <1>12, <1>17 DEF HandedOver
    <2>2. x.reads /\ ~x.writes
      BY <1>12, <2>1 DEF ReadsIn, Opened
    <2>3. w \in Opened(g) /\ g[w].writes /\ g[w].path = x.path
      BY <2>1 DEF WritesOf
    <2>4. w \in DOMAIN h
      BY <1>11, <1>12, <2>1, <2>3 DEF Opened
    <2>5. IsLatest(g, w)
      <3> SUFFICES ASSUME NEW i \in WritesOf(g, x.path)
                   PROVE  i <= w
        BY <2>1, <2>3 DEF IsLatest
      <3>1. i \in WritesOf(h, x.path)
        BY <1>12, <2>2
      <3>2. i \in DOMAIN h
        BY <3>1 DEF WritesOf, Opened
      <3>3. i \in Nat /\ i < n /\ w \in Nat
        BY <1>12, <2>4, <3>2
      <3> QED BY <2>1, <3>3
    <2>6. /\ x.path \in KeysIn(k.lineage)
          /\ \A m \in DOMAIN k.lineage : k.lineage[m].key = x.path
                                            => k.lineage[m].value.session = g[w].session
      <3> HIDE DEF k
      <3> QED BY <1>13, <2>3, <2>5 DEF WritersKnown
    <2> HIDE DEF k
    <2>7. PICK m \in DOMAIN k.lineage : k.lineage[m].key = file.path /\ writer = k.lineage[m].value
      BY <1>3, <2>6, ValueFacts DEF WriterIn
    <2> HIDE DEF writer
    <2>8. writer.session = g[w].session
      BY <1>3, <2>6, <2>7
    <2>9. ~Unremarkable(k, file, content)
      BY <1>3, <2>1, <2>2, <2>6, <2>8 DEF Unremarkable, writer
    <2>10. file.workspace
      BY <1>16, <2>1, <2>3
    <2> QED BY <2>8, <2>9, <2>10
  <1>18. CASE idle
    <2>1. e = k
      BY <1>1, <1>18
    <2> HIDE DEF e, k, idle
    <2>2. Bounded(e, g)
      <3>1. Len(k.artifacts) <= Cardinality(Opened(g))
        BY <1>8, <1>9, <1>13, <1>15
      <3> DEFINE R2 == Cardinality(ReadsIn(g))
      <3>2. R2 \in Nat /\ R <= R2 /\ Cardinality(PromptsIn(g)) = P
        BY <1>8, <1>9
      <3>3. Len(k.candidates) <= R2 * P
        <4> HIDE DEF R, P, R2
        <4>1. R * P <= R2 * P /\ R * P \in Nat /\ R2 * P \in Nat
          BY <1>9, <3>2
        <4> QED BY <1>13, <1>15, <4>1
      <3>4. k.total <= R2
        BY <1>9, <1>13, <1>15, <3>2
      <3>5. \A s : Len(ReadsOf(k, s)) <= R2
        BY <1>9, <1>13, <1>15, <3>2
      <3> QED BY <1>13, <2>1, <3>1, <3>2, <3>3, <3>4, <3>5 DEF Bounded
    <2>3. ReadsKnown(e, g)
      <3> SUFFICES ASSUME NEW w \in DOMAIN g, NEW r \in DOMAIN g, Awaits(g, w, r)
                   PROVE  \E y \in Range(ReadsOf(k, g[r].session)) : IsRead(k, g, w, r, y)
        BY <2>1 DEF ReadsKnown
      <3>1. HandedOver(g, w, r)
        BY DEF Awaits
      <3>2. r # n
        BY <1>17, <1>18, <3>1
      <3>3. r \in DOMAIN h /\ w \in DOMAIN g /\ w < r
        BY <1>12, <1>14, <3>1, <3>2
      <3>4. w \in DOMAIN h
        BY <1>11, <1>12, <3>3
      <3> QED BY <1>13, <3>3, <3>4
    <2> QED BY <1>13, <1>20, <2>1, <2>2, <2>3
  <1>19. CASE ~idle
    <2>1. e = EnforceBounds(d)
      BY <1>1, <1>19
    <2>2. /\ file.workspace /\ file.reads /\ file.path \in KeysIn(k.lineage)
          /\ writer.session # file.session /\ content # NoText
      BY <1>19 DEF Unremarkable
    <2>3. /\ k.total + 1 <= MaxArtifacts /\ Len(k.artifacts) + 1 <= MaxArtifacts
      <3> HIDE DEF k, O, R, P
      <3> QED BY <1>8, <1>9, <1>13, <1>15, CapiAssumption, SMTT(60)
    <2> HIDE DEF k, idle, e
    <2>4. /\ artifact.id = <<writer.session, file.path, Norm(content)>>
          /\ artifact.ts = writer.ts
      BY DEF ArtifactIn, ArtifactOf
    <2>5. PICK m \in DOMAIN k.lineage : k.lineage[m].key = file.path /\ writer = k.lineage[m].value
      BY <2>2, ValueFacts DEF WriterIn
    <2>6. read.artifact = artifact.id /\ read.ts = file.ts
      BY DEF ReadIn
    <2> HIDE DEF writer, artifact
    <2> HIDE DEF read
    <2> DEFINE b == d
    <2>7. /\ CapiTyped(b) /\ EnforceBounds(b) = b
          /\ b.lineage = k.lineage /\ b.candidates = k.candidates /\ b.emitted = k.emitted
          /\ b.total = k.total + 1
          /\ Len(b.artifacts) <= Len(k.artifacts) + 1
          /\ KeysIn(b.artifacts) = KeysIn(k.artifacts) \cup {artifact.id}
          /\ \A j \in DOMAIN b.artifacts :
                \/ b.artifacts[j] = [key |-> artifact.id, value |-> artifact]
                \/ \E i \in DOMAIN k.artifacts : b.artifacts[j] = k.artifacts[i]
          /\ \A s : Len(ReadsOf(b, s)) <= Len(ReadsOf(k, s)) + 1
          /\ \A s : \A r \in Range(ReadsOf(k, s)) : r \in Range(ReadsOf(b, s))
          /\ read \in Range(ReadsOf(b, file.session))
      BY <1>6, <2>3, ReadRoom
    <2>8. e = b
      BY <2>1, <2>7
    <2> HIDE DEF b
    \* The writer's session does not read what it writes.
    <2>9. ~x.writes
      <3> SUFFICES ASSUME x.writes
                   PROVE  FALSE
        OBVIOUS
      <3>1. n \in Opened(g) /\ n \in WritesOf(g, x.path)
        BY <1>12
      <3>2. IsLatest(g, n)
        <4>1. \A i \in WritesOf(g, x.path) : i <= n
          BY <1>11, <1>12 DEF WritesOf, Opened
        <4> QED BY <1>12, <1>16, <2>2, <4>1 DEF IsLatest
      <3>3. k.lineage[m].value.session = x.session
        BY <1>3, <1>12, <1>13, <2>5, <3>1, <3>2 DEF WritersKnown
      <3> QED BY <1>3, <2>2, <2>5, <3>3
    <2>10. Cardinality(ReadsIn(g)) = R + 1 /\ n \in ReadsIn(g)
      BY <1>3, <1>8, <1>12, <2>2, <2>9
    <2>11. PICK w0 \in WritesOf(g, file.path) : writer.ts = g[w0].ts
      BY <1>13, <2>5 DEF WritersTold
    <2>12. w0 < n /\ w0 \in WritesOf(g, g[n].path)
      <3>1. w0 \in WritesOf(h, x.path)
        BY <1>3, <1>12, <2>9, <2>11
      <3>2. w0 \in DOMAIN h
        BY <3>1 DEF WritesOf, Opened
      <3> QED BY <1>3, <1>12, <3>2
    <2>13. Bounded(e, g)
      <3> DEFINE R2 == Cardinality(ReadsIn(g))
      <3>1. R2 = R + 1 /\ Cardinality(PromptsIn(g)) = P
        BY <1>8, <2>10
      <3>2. Len(e.candidates) <= R2 * P
        <4> HIDE DEF R, P, R2
        <4>1. R * P <= R2 * P /\ R * P \in Nat /\ R2 * P \in Nat
          BY <1>9, <3>1
        <4> QED BY <1>13, <1>15, <2>7, <2>8, <4>1
      <3>3. Len(e.artifacts) <= O + 1
        <4>1. Len(e.artifacts) \in Nat
          BY <2>7, <2>8, SeqFacts DEF CapiTyped
        <4> QED BY <1>9, <1>13, <1>15, <2>7, <2>8, <4>1
      <3>4. e.total <= R2
        BY <1>9, <1>13, <1>15, <2>7, <2>8, <3>1
      <3>5. \A s : Len(ReadsOf(e, s)) <= R2
        <4> TAKE s
        <4>1. Len(ReadsOf(e, s)) <= Len(ReadsOf(k, s)) + 1 /\ Len(ReadsOf(k, s)) <= R
              /\ Len(ReadsOf(k, s)) \in Nat
          BY <1>13, <1>15, <2>7, <2>8
        <4>2. Len(ReadsOf(e, s)) \in Nat
          BY <2>7, <2>8, ReadsFacts
        <4> QED BY <1>9, <3>1, <4>1, <4>2
      <3> QED BY <1>8, <1>13, <2>7, <2>8, <3>1, <3>2, <3>3, <3>4, <3>5 DEF Bounded
    <2>14. WritersKnown(e, g) /\ WritersTold(e, g)
      <3>1. e.lineage = k.lineage
        BY <2>7, <2>8
      <3>2. WritersKnown(e, g)
        BY <1>13, <3>1 DEF WritersKnown
      <3>3. WritersTold(e, g)
        BY <1>13, <3>1 DEF WritersTold
      <3> QED BY <3>2, <3>3
    <2>15. ArtifactsTold(e, g)
      <3> SUFFICES ASSUME NEW j \in DOMAIN b.artifacts
                   PROVE  ArtifactTold(g, b.artifacts[j].key, b.artifacts[j].value.ts)
        BY <2>8 DEF ArtifactsTold
      <3>1. CASE b.artifacts[j] = [key |-> artifact.id, value |-> artifact]
        <4> DEFINE id == artifact.id
        <4>1. b.artifacts[j].key = id /\ b.artifacts[j].value = artifact
          BY <3>1
        <4>2. id[3] = Norm(content)
          BY <2>4
        <4> HIDE DEF id
        <4>3. ArtifactTold(g, id, artifact.ts)
          BY <1>3, <1>12, <2>4, <2>10, <2>11, <2>12, <4>2 DEF ArtifactTold
        <4> QED BY <4>1, <4>3
      <3>2. CASE \E i \in DOMAIN k.artifacts : b.artifacts[j] = k.artifacts[i]
        BY <1>13, <3>2 DEF ArtifactsTold
      <3> QED BY <2>7, <3>1, <3>2
    <2>16. ReadsKnown(e, g)
      <3> SUFFICES ASSUME NEW w \in DOMAIN g, NEW r \in DOMAIN g, Awaits(g, w, r)
                   PROVE  \E y \in Range(ReadsOf(b, g[r].session)) : IsRead(b, g, w, r, y)
        BY <2>8 DEF ReadsKnown
      <3>1. HandedOver(g, w, r)
        BY DEF Awaits
      <3>2. CASE r = n
        <4>1. writer.session = g[w].session
          BY <1>17, <3>1, <3>2
        <4>2. read.artifact = <<g[w].session, g[r].path, Norm(g[r].content)>>
          BY <1>3, <1>12, <2>4, <2>6, <3>2, <4>1
        <4>3. IsRead(b, g, w, r, read)
          BY <1>3, <1>12, <2>6, <2>7, <3>2, <4>2 DEF IsRead
        <4> QED BY <1>3, <1>12, <2>7, <3>2, <4>3
      <3>3. CASE r # n
        <4>1. r \in DOMAIN h /\ w \in DOMAIN g /\ w < r
          BY <1>12, <1>14, <3>1, <3>3
        <4>2. w \in DOMAIN h
          BY <1>11, <1>12, <4>1
        <4>3. PICK y \in Range(ReadsOf(k, g[r].session)) : IsRead(k, g, w, r, y)
          BY <1>13, <4>1, <4>2
        <4>4. IsRead(b, g, w, r, y)
          BY <2>7, <4>3 DEF IsRead
        <4> QED BY <2>7, <4>3, <4>4
      <3> QED BY <3>2, <3>3
    <2>17. MatchesKnown(e, g)
      BY <1>13, <2>7, <2>8 DEF MatchesKnown
    <2>18. MatchesTold(e)
      <3> SUFFICES ASSUME NEW j \in DOMAIN k.candidates
                   PROVE  MatchIs(b, k.candidates[j])
        BY <2>7, <2>8 DEF MatchesTold
      <3>1. MatchIs(k, k.candidates[j])
        BY <1>13 DEF MatchesTold
      <3>2. KeysIn(k.artifacts) \subseteq KeysIn(b.artifacts)
        BY <2>7
      <3> QED BY <3>1, <3>2 DEF MatchIs
    <2>19. e.emitted = c.emitted
      BY <1>20, <2>7, <2>8
    <2> QED BY <2>13, <2>14, <2>15, <2>16, <2>17, <2>18, <2>19
  <1> QED BY <1>18, <1>19

-----------------------------------------------------------------------------
(* A prompt is observed.                                                   *)

\* A prompt.
SayEvent(h, g, x) ==
    LET n == Len(h) + 1
    IN  /\ n \notin DOMAIN h /\ n \in DOMAIN g /\ g[n] = x
        /\ \A i \in DOMAIN h : i \in DOMAIN g /\ g[i] = h[i] /\ i < n /\ i \in Nat
        /\ \A i \in DOMAIN g : i \in DOMAIN h \/ i = n
        /\ Opened(g) = Opened(h) /\ ReadsIn(g) = ReadsIn(h)
        /\ PromptsIn(g) = PromptsIn(h) \cup {n}
        /\ \A path : WritesOf(g, path) = WritesOf(h, path)

LEMMA SayEventFacts ==
    ASSUME NEW h, IsSeq(h), NEW x
    PROVE  x.kind = "say" => SayEvent(h, Append(h, x), x)
  <1> DEFINE g == Append(h, x)
             n == Len(h) + 1
  <1>1. /\ Len(h) \in Nat /\ DOMAIN h = 1 .. Len(h) /\ DOMAIN g = 1 .. n
        /\ g[n] = x /\ n \notin DOMAIN h
        /\ \A i \in DOMAIN h : i \in DOMAIN g /\ g[i] = h[i] /\ i < n
        /\ \A i \in DOMAIN g : i \in DOMAIN h \/ i = n
        /\ Opened(g) = Opened(h) \cup (IF x.kind = "open" THEN {n} ELSE {})
        /\ ReadsIn(g) = ReadsIn(h)
              \cup (IF x.kind = "open" /\ x.reads /\ ~x.writes THEN {n} ELSE {})
        /\ PromptsIn(g) = PromptsIn(h) \cup (IF x.kind = "say" THEN {n} ELSE {})
        /\ \A path : WritesOf(g, path) = WritesOf(h, path)
              \cup (IF x.kind = "open" /\ x.writes /\ x.path = path THEN {n} ELSE {})
    BY OneMore
  <1>2. n \in DOMAIN g /\ \A i \in DOMAIN h : i \in Nat
    BY <1>1
  <1> HIDE DEF g, n
  <1>3. SUFFICES ASSUME x.kind = "say"
                 PROVE  SayEvent(h, g, x)
    BY DEF g
  <1>4. \A path : WritesOf(g, path) = WritesOf(h, path)
    BY <1>1, <1>3
  <1>5. Opened(g) = Opened(h) /\ ReadsIn(g) = ReadsIn(h) /\ PromptsIn(g) = PromptsIn(h) \cup {n}
    BY <1>1, <1>3
  <1> QED BY <1>1, <1>2, <1>4, <1>5 DEF SayEvent, n

\* What is known before the matches of a prompt: g is h with it, at n.
HasKept(d, c, g, n, now) ==
    /\ d.artifacts = c.artifacts /\ d.lineage = c.lineage
    /\ \A s : Len(ReadsOf(d, s)) <= Len(ReadsOf(c, s))
    /\ Len(d.candidates) <= Len(c.candidates)
    /\ d.total <= c.total
    /\ \A i \in DOMAIN c.candidates : c.candidates[i].value.prompt_ts + CapiWindow >= now
          => c.candidates[i].key \in KeysIn(d.candidates)
    /\ \A m \in DOMAIN d.candidates : \E i \in DOMAIN c.candidates :
          d.candidates[m] = c.candidates[i]
    /\ \A w, r \in DOMAIN g : r # n /\ Awaits(g, w, r) =>
          \E read \in Range(ReadsOf(d, g[r].session)) : IsRead(d, g, w, r, read)

\* What InTime leaves is what the prompt may repeat, and more.
LEMMA InTimeLeaves ==
    ASSUME NEW h, Timed(h), NEW c, CapiOK(c, h), c.total <= MaxArtifacts, CapiAware(c, h),
           NEW input, input.ts \in Nat, NEW x, IsSayOf(x, input), Room(Append(h, x))
    PROVE  HasKept(InTime(c, input), c, Append(h, x), Len(h) + 1, x.ts)
  <1> DEFINE g == Append(h, x)
             n == Len(h) + 1
             d == InTime(c, input)
  <1>1. /\ x.kind = "say" /\ x.session = input.session /\ x.ts = input.ts /\ x.ts \in Nat
    BY DEF IsSayOf
  <1>2. IsSeq(h) /\ \A i \in DOMAIN h : h[i].ts \in Nat
    BY DEF Timed
  <1>3. Room(h)
    BY <1>2, CountOneMore
  <1>4. SayEvent(h, g, x)
    BY <1>1, <1>2, SayEventFacts
  <1>5. \A i \in DOMAIN h : Young(g, i) => Young(h, i) /\ h[i].ts + CapiWindow >= x.ts
    BY <1>1, YoungBefore
  <1>6. /\ \A w, r : r \in DOMAIN h /\ HandedOver(g, w, r)
                        => w \in DOMAIN h /\ HandedOver(h, w, r)
    BY TaleBefore
  <1>7. /\ CapiOK(d, h) /\ d.total <= c.total
        /\ d.artifacts = c.artifacts /\ d.lineage = c.lineage /\ d.emitted = c.emitted
        /\ \A s : /\ Len(ReadsOf(d, s)) <= Len(ReadsOf(c, s))
                  /\ \A read \in Range(ReadsOf(c, s)) :
                        /\ read.ts + CapiWindow >= input.ts
                        /\ s # input.session \/ Before(read, input)
                        => read \in Range(ReadsOf(d, s))
        /\ Len(d.candidates) <= Len(c.candidates)
        /\ \A i \in DOMAIN c.candidates :
              c.candidates[i].value.prompt_ts + CapiWindow >= input.ts
              => c.candidates[i].key \in KeysIn(d.candidates)
        /\ \A m \in DOMAIN d.candidates : \E i \in DOMAIN c.candidates :
              d.candidates[m] = c.candidates[i]
    BY InTimeKeeps
  <1> HIDE DEF g, n, d
  <1>8. /\ n \notin DOMAIN h /\ n \in DOMAIN g /\ g[n] = x
        /\ \A i \in DOMAIN h : i \in DOMAIN g /\ g[i] = h[i] /\ i < n /\ i \in Nat
        /\ \A i \in DOMAIN g : i \in DOMAIN h \/ i = n
        /\ PromptsIn(g) = PromptsIn(h) \cup {n}
    BY <1>4 DEF SayEvent, n
  <1>9. /\ \A i \in PromptsIn(h) : i \in DOMAIN h
    BY DEF PromptsIn
  <1>10. ReadsKnown(c, h)
    BY <1>3 DEF CapiAware
  <1>11. ASSUME NEW w \in DOMAIN g, NEW r \in DOMAIN g, r # n, Awaits(g, w, r)
         PROVE  \E read \in Range(ReadsOf(d, g[r].session)) : IsRead(d, g, w, r, read)
    <2>1. r \in DOMAIN h /\ g[r] = h[r]
      BY <1>8, <1>11
    <2>2. w \in DOMAIN h /\ HandedOver(h, w, r) /\ g[w] = h[w]
      BY <1>6, <1>8, <1>11, <2>1 DEF Awaits
    <2>3. Young(h, r) /\ h[r].ts + CapiWindow >= x.ts
      BY <1>5, <1>11, <2>1 DEF Awaits
    <2>4. Awaits(h, w, r)
      <3> SUFFICES ASSUME NEW i \in PromptsIn(h), r < i, h[i].session = h[r].session
                   PROVE  h[i].ts >= h[r].ts
        BY <2>2, <2>3 DEF Awaits
      <3>1. i \in PromptsIn(g) /\ g[i] = h[i]
        BY <1>8, <1>9
      <3> QED BY <1>11, <2>1, <3>1 DEF Awaits
    <2>5. PICK read \in Range(ReadsOf(c, h[r].session)) : IsRead(c, h, w, r, read)
      BY <1>10, <2>1, <2>2, <2>4 DEF ReadsKnown
    <2>6. read.ts = h[r].ts /\ h[r].ts \in Nat
      BY <1>2, <2>1, <2>5 DEF IsRead
    <2>7. h[r].session # input.session \/ Before(read, input)
      <3> SUFFICES ASSUME h[r].session = input.session
                   PROVE  Before(read, input)
        OBVIOUS
      <3>1. n \in PromptsIn(g) /\ r < n /\ g[n].session = g[r].session
        BY <1>1, <1>8, <2>1
      <3>2. x.ts >= h[r].ts
        BY <1>8, <1>11, <2>1, <3>1 DEF Awaits
      <3> QED BY <1>1, <2>3, <2>6, <3>2, PromptAssumption DEF Before
    <2>8. read \in Range(ReadsOf(d, h[r].session))
      BY <1>1, <1>7, <2>3, <2>5, <2>6, <2>7
    <2>9. IsRead(d, g, w, r, read)
      BY <1>7, <2>1, <2>2, <2>5 DEF IsRead
    <2> QED BY <2>1, <2>8, <2>9
  <1>12. /\ d.artifacts = c.artifacts /\ d.lineage = c.lineage
         /\ \A s : Len(ReadsOf(d, s)) <= Len(ReadsOf(c, s))
         /\ Len(d.candidates) <= Len(c.candidates)
         /\ d.total <= c.total
         /\ \A i \in DOMAIN c.candidates : c.candidates[i].value.prompt_ts + CapiWindow >= x.ts
               => c.candidates[i].key \in KeysIn(d.candidates)
         /\ \A m \in DOMAIN d.candidates : \E i \in DOMAIN c.candidates :
               d.candidates[m] = c.candidates[i]
    BY <1>1, <1>7
  <1> QED BY <1>11, <1>12 DEF HasKept, g, n, d

\* The reads that are in time have been made, before the prompt.
LEMMA InTimeReads ==
    ASSUME NEW c, NEW h, CapiOK(c, h), NEW prompt
    PROVE  LET reads == ReadsOf(InTime(c, prompt), prompt.session)
           IN  /\ IsSeq(reads)
               /\ \A i \in DOMAIN reads :
                     /\ Travelled(h, reads[i].artifact, prompt.session, reads[i].ts)
                     /\ reads[i].ts <= prompt.ts
  <1> DEFINE d == Prune(c, prompt.ts)
             kept == {place \in Places(d.pending) :
                         place[1] # prompt.session \/ Before(ReadAt(d, place), prompt)}
             e == KeepReads(d, kept)
             reads == ReadsOf(e, prompt.session)
  <1>1. CapiOK(d, h)
    BY PruneWorks
  <1>2. InTime(c, prompt) = e
    BY DEF InTime, KeepReadsBefore
  <1> HIDE DEF d
  <1>4. \A s, i : <<s, i>> \in kept /\ s = prompt.session => d.pending[s][i].ts <= prompt.ts
    BY DEF Before, ReadAt
  <1> HIDE DEF kept, e
  <1>5. /\ CapiOK(e, h)
        /\ \A s \in DOMAIN e.pending : \A i \in DOMAIN e.pending[s] :
              \E k \in KeptAt(d.pending, s, kept) : e.pending[s][i] = d.pending[s][k]
    BY <1>1, KeepReadsWorks DEF e
  <1>7. ASSUME NEW i \in DOMAIN reads
        PROVE  /\ Travelled(h, reads[i].artifact, prompt.session, reads[i].ts)
               /\ reads[i].ts <= prompt.ts
    <2> DEFINE s == prompt.session
    <2>1. s \in DOMAIN e.pending /\ reads = e.pending[s]
      BY <1>7 DEF ReadsOf
    <2>2. Travelled(h, reads[i].artifact, s, reads[i].ts)
      BY <1>5, <2>1 DEF CapiOK, Traced, ReadsTell
    <2>3. PICK k \in KeptAt(d.pending, s, kept) : reads[i] = d.pending[s][k]
      BY <1>5, <2>1
    <2>4. <<s, k>> \in kept
      BY <2>3 DEF KeptAt
    <2> QED BY <1>4, <2>2, <2>3, <2>4
  <1>8. IsSeq(reads)
    BY <1>5, EmptyFacts DEF ReadsOf, CapiOK, CapiTyped
  <1> QED BY <1>2, <1>7, <1>8

\* What is known when a prompt has met the reads that are in time: g is h with it.
LEMMA PromptMet ==
    ASSUME NEW h, Timed(h), NEW c, CapiOK(c, h), c.total <= MaxArtifacts, CapiAware(c, h),
           NEW input, input.ts \in Nat, IsText(input.text), NEW x, IsSayOf(x, input),
           Room(Append(h, x)), NEW d, d = InTime(c, input),
           NEW reads, reads = ReadsOf(d, input.session)
    PROVE  /\ HasMet(ObservePrompt(c, input), d, Append(h, x), reads, Len(reads), input)
           /\ Len(d.candidates) + Len(reads)
                 <= Cardinality(ReadsIn(Append(h, x))) * Cardinality(PromptsIn(Append(h, x)))
           /\ IsSeq(reads) /\ CapiTyped(d) /\ d.total \in Nat /\ c.total \in Nat
  <1> DEFINE g == Append(h, x)
             n == Len(h) + 1
             R == Cardinality(ReadsIn(h))
             P == Cardinality(PromptsIn(h))
  <1>1. x.kind = "say" /\ IsSeq(h)
    BY DEF IsSayOf, Timed
  <1>2. SayEvent(h, g, x)
    BY <1>1, SayEventFacts
  <1>3. HasKept(d, c, g, n, x.ts)
    BY InTimeLeaves
  <1>4. CapiOK(c, g)
    BY <1>1, TracedLater
  <1>5. CapiOK(d, g)
    BY <1>4, InTimeKeeps
  <1>6. /\ IsSeq(reads)
        /\ \A i \in DOMAIN reads : /\ Travelled(g, reads[i].artifact, input.session, reads[i].ts)
                                   /\ reads[i].ts <= input.ts
    BY <1>4, InTimeReads
  <1>7. \E p \in DOMAIN g : HasSaid(g, p, PromptId(input))
    BY <1>1, <1>2 DEF SayEvent, HasSaid, IsSayOf
  <1>8. ObservePrompt(c, input) = MeetAll(d, reads, input)
    BY DEF ObservePrompt
  <1>9. Room(h) /\ R \in Nat /\ P \in Nat
    BY <1>1, CountOneMore, CountFacts
  <1>10. Cardinality(PromptsIn(g)) = P + 1 /\ Cardinality(ReadsIn(g)) = R
    <2>1. Cardinality(PromptsIn(g)) = P + (IF x.kind = "say" THEN 1 ELSE 0)
      BY <1>1, CountOneMore
    <2> HIDE DEF g, P
    <2>2. ReadsIn(g) = ReadsIn(h)
      BY <1>2 DEF SayEvent
    <2> QED BY <1>1, <2>1, <2>2
  <1>11. c.total \in Nat /\ d.total \in Nat
    BY <1>4, <1>5, KeepReadsWorks
  <1> HIDE DEF g, n
  <1>12. Len(d.candidates) <= Len(c.candidates) /\ Len(reads) <= Len(ReadsOf(c, input.session))
    BY <1>3 DEF HasKept
  <1>13. /\ Len(c.candidates) <= R * P /\ Len(ReadsOf(c, input.session)) <= R
    BY <1>9 DEF CapiAware, Bounded
  <1>14. /\ Len(c.candidates) \in Nat /\ Len(d.candidates) \in Nat
         /\ Len(reads) \in Nat /\ Len(ReadsOf(c, input.session)) \in Nat
    BY <1>4, <1>5, <1>6, ReadsFacts, SeqFacts DEF CapiOK, CapiTyped
  <1>15. Len(d.candidates) + Len(reads) <= R * (P + 1)
    <2> DEFINE D == Len(d.candidates)
               L == Len(reads)
               C == Len(c.candidates)
               Q == Len(ReadsOf(c, input.session))
    <2>1. /\ D \in Nat /\ L \in Nat /\ C \in Nat /\ Q \in Nat
          /\ D <= C /\ L <= Q /\ C <= R * P /\ Q <= R
      BY <1>12, <1>13, <1>14
    <2> HIDE DEF R, P, D, L, C, Q
    <2>2. R * (P + 1) = R * P + R /\ R * P \in Nat
      BY <1>9
    <2> DEFINE S == R * P
    <2>3. S \in Nat /\ C <= S /\ R * (P + 1) = S + R
      BY <2>1, <2>2
    <2> HIDE DEF S
    <2>4. D + L <= S + R
      BY <1>9, <2>1, <2>3
    <2> QED BY <2>3, <2>4 DEF D, L
  <1>16. R * (P + 1) <= MaxArtifacts
    BY <1>1, <1>10 DEF Room, g
  <1>17. Len(d.candidates) + Len(reads) <= MaxArtifacts
    <2> DEFINE D == Len(d.candidates)
               L == Len(reads)
               S == R * (P + 1)
    <2>1. S \in Nat
      <3> HIDE DEF R, P
      <3> QED BY <1>9
    <2>2. D \in Nat /\ L \in Nat /\ D + L <= S /\ S <= MaxArtifacts
      BY <1>14, <1>15, <1>16
    <2> HIDE DEF D, L, S
    <2>3. D + L <= MaxArtifacts
      BY <2>1, <2>2, CapiAssumption
    <2> QED BY <2>3 DEF D, L
  <1>18. HasMet(MeetAll(d, reads, input), d, g, reads, Len(reads), input)
    BY <1>5, <1>6, <1>7, <1>17, MeetAllKeeps
  <1>19. CapiTyped(d)
    BY <1>5 DEF CapiOK
  <1> QED BY <1>6, <1>8, <1>10, <1>11, <1>15, <1>18, <1>19 DEF g

LEMMA SayAware ==
    ASSUME NEW h, Timed(h), NEW c, CapiOK(c, h), c.total <= MaxArtifacts, CapiAware(c, h),
           NEW input, input.ts \in Nat, IsText(input.text), NEW x, IsSayOf(x, input)
    PROVE  /\ CapiAware(ObservePrompt(c, input), Append(h, x))
           /\ Room(Append(h, x)) => ObservePrompt(c, input).emitted = c.emitted
  <1> DEFINE g == Append(h, x)
             n == Len(h) + 1
             d == InTime(c, input)
             reads == ReadsOf(d, input.session)
             e == ObservePrompt(c, input)
             O == Cardinality(Opened(h))
             R == Cardinality(ReadsIn(h))
  <1>1. SUFFICES ASSUME Room(g)
                 PROVE  /\ Bounded(e, g)
                        /\ WritersKnown(e, g) /\ WritersTold(e, g) /\ ArtifactsTold(e, g)
                        /\ ReadsKnown(e, g) /\ MatchesKnown(e, g) /\ MatchesTold(e)
                        /\ e.emitted = c.emitted
    BY DEF CapiAware
  <1>2. IsSeq(h) /\ \A i \in DOMAIN h : h[i].ts \in Nat
    BY DEF Timed
  <1>3. /\ x.kind = "say" /\ x.session = input.session /\ x.ts = input.ts /\ x.text = input.text
        /\ PromptId(x) = PromptId(input)
    BY DEF IsSayOf
  <1>4. HasKept(d, c, g, n, x.ts)
    BY <1>1, InTimeLeaves
  <1>5. /\ HasMet(e, d, g, reads, Len(reads), input)
        /\ Len(d.candidates) + Len(reads) <= Cardinality(ReadsIn(g)) * Cardinality(PromptsIn(g))
        /\ IsSeq(reads) /\ CapiTyped(d) /\ d.total \in Nat /\ c.total \in Nat
    BY <1>1, PromptMet
  <1>6. SayEvent(h, g, x)
    BY <1>2, <1>3, SayEventFacts
  <1>7. Room(h)
    BY <1>1, <1>2, CountOneMore
  <1>8. \A i \in DOMAIN h : Young(g, i) => Young(h, i) /\ h[i].ts + CapiWindow >= x.ts
    BY <1>3, YoungBefore
  <1>9. /\ \A w, r : r \in DOMAIN h /\ HandedOver(g, w, r)
                        => w \in DOMAIN h /\ HandedOver(h, w, r)
        /\ \A r, p : r \in DOMAIN g /\ p \in DOMAIN h /\ SaidAgain(g, r, p)
                        => r \in DOMAIN h /\ SaidAgain(h, r, p)
    BY TaleBefore
  <1>10. O \in Nat /\ R \in Nat
    BY <1>2, CountFacts
  <1>26. d.emitted = c.emitted
    BY InTimeKeeps
  <1> HIDE DEF g, n, d, e
  <1>11. /\ n \notin DOMAIN h /\ n \in DOMAIN g /\ g[n] = x
         /\ \A i \in DOMAIN h : i \in DOMAIN g /\ g[i] = h[i] /\ i < n /\ i \in Nat
         /\ \A i \in DOMAIN g : i \in DOMAIN h \/ i = n
         /\ Opened(g) = Opened(h) /\ ReadsIn(g) = ReadsIn(h)
         /\ PromptsIn(g) = PromptsIn(h) \cup {n}
         /\ \A path : WritesOf(g, path) = WritesOf(h, path)
    BY <1>6 DEF SayEvent, n
  <1>12. /\ Bounded(c, h) /\ WritersKnown(c, h) /\ WritersTold(c, h) /\ ArtifactsTold(c, h)
         /\ MatchesKnown(c, h) /\ MatchesTold(c)
    BY <1>7 DEF CapiAware
  <1>13. /\ d.artifacts = c.artifacts /\ d.lineage = c.lineage /\ d.total <= c.total
         /\ \A s : Len(ReadsOf(d, s)) <= Len(ReadsOf(c, s))
         /\ \A i \in DOMAIN c.candidates : c.candidates[i].value.prompt_ts + CapiWindow >= x.ts
               => c.candidates[i].key \in KeysIn(d.candidates)
         /\ \A m \in DOMAIN d.candidates : \E i \in DOMAIN c.candidates :
               d.candidates[m] = c.candidates[i]
    BY <1>4 DEF HasKept
  <1>14. \A w, r \in DOMAIN g : r # n /\ Awaits(g, w, r) =>
            \E read \in Range(ReadsOf(d, g[r].session)) : IsRead(d, g, w, r, read)
    BY <1>4 DEF HasKept
  <1>15. /\ CapiOK(e, g) /\ SameButMatches(e, d)
         /\ Len(e.candidates) <= Len(d.candidates) + Len(reads)
         /\ KeysIn(d.candidates) \subseteq KeysIn(e.candidates)
         /\ \A i \in 1 .. Len(reads) : Repeats(d, reads[i], input)
                                          => KeyOf(reads[i], input) \in KeysIn(e.candidates)
         /\ \A m \in DOMAIN e.candidates :
               \/ MatchIs(d, e.candidates[m])
               \/ \E i \in DOMAIN d.candidates : e.candidates[m] = d.candidates[i]
    BY <1>5 DEF HasMet
  <1>16. /\ e.artifacts = d.artifacts /\ e.lineage = d.lineage /\ e.total = d.total
         /\ \A s : ReadsOf(e, s) = ReadsOf(d, s)
    BY <1>15 DEF SameButMatches, ReadsOf
  <1>17. /\ \A path : \A i \in WritesOf(h, path) : i \in DOMAIN h
         /\ \A i \in Opened(h) \cup ReadsIn(h) \cup PromptsIn(h) : i \in DOMAIN h
    BY <1>2, CountFacts DEF WritesOf, Opened
  <1>18. Bounded(e, g)
    <2>1. Len(e.candidates) <= Cardinality(ReadsIn(g)) * Cardinality(PromptsIn(g))
      <3> DEFINE B == Cardinality(ReadsIn(g)) * Cardinality(PromptsIn(g))
      <3>1. Len(e.candidates) \in Nat /\ Len(d.candidates) \in Nat /\ Len(reads) \in Nat
        BY <1>5, <1>15, SeqFacts DEF CapiOK, CapiTyped
      <3>2. B \in Nat
        <4>1. IsSeq(g)
          BY <1>2, AppendFacts DEF g
        <4> QED BY <4>1, CountFacts
      <3>3. Len(d.candidates) + Len(reads) <= B
        BY <1>5
      <3> HIDE DEF B
      <3>4. Len(e.candidates) <= B
        <4> DEFINE E == Len(e.candidates)
                   D == Len(d.candidates)
                   L == Len(reads)
        <4>1. E \in Nat /\ D \in Nat /\ L \in Nat /\ E <= D + L /\ D + L <= B
          BY <1>15, <3>1, <3>3
        <4> HIDE DEF E, D, L
        <4>2. E <= B
          BY <3>2, <4>1
        <4> QED BY <4>2 DEF E
      <3> QED BY <3>4 DEF B
    <2>2. /\ Len(c.lineage) <= O /\ Len(c.artifacts) <= O /\ c.total <= R
          /\ \A s : Len(ReadsOf(c, s)) <= R
      BY <1>12 DEF Bounded
    <2> HIDE DEF O, R
    <2>3. e.total <= R
      BY <1>5, <1>10, <1>13, <1>16, <2>2
    <2>4. \A s : Len(ReadsOf(e, s)) <= R
      <3> TAKE s
      <3>1. /\ Len(ReadsOf(e, s)) \in Nat /\ Len(ReadsOf(c, s)) \in Nat
            /\ Len(ReadsOf(e, s)) <= Len(ReadsOf(c, s)) /\ Len(ReadsOf(c, s)) <= R
        BY <1>5, <1>13, <1>16, <2>2, ReadsFacts DEF CapiOK
      <3> QED BY <1>10, <3>1
    <2> QED BY <1>11, <1>13, <1>16, <2>1, <2>2, <2>3, <2>4 DEF Bounded, O, R
  <1>19. WritersKnown(e, g)
    <2> SUFFICES ASSUME NEW w \in Opened(g), IsLatest(g, w)
                 PROVE  /\ g[w].path \in KeysIn(c.lineage)
                        /\ \A m \in DOMAIN c.lineage : c.lineage[m].key = g[w].path
                              => c.lineage[m].value.session = g[w].session
      BY <1>13, <1>16 DEF WritersKnown
    <2>1. w \in Opened(h) /\ g[w] = h[w]
      BY <1>11, <1>17
    <2>2. IsLatest(h, w)
      BY <1>11, <2>1 DEF IsLatest
    <2> QED BY <1>12, <2>1, <2>2 DEF WritersKnown
  <1>20. WritersTold(e, g)
    <2> SUFFICES ASSUME NEW m \in DOMAIN c.lineage
                 PROVE  \E w \in WritesOf(g, c.lineage[m].key) : c.lineage[m].value.ts = g[w].ts
      BY <1>13, <1>16 DEF WritersTold
    <2> QED BY <1>11, <1>12, <1>17 DEF WritersTold
  <1>21. ArtifactsTold(e, g)
    <2> SUFFICES ASSUME NEW m \in DOMAIN c.artifacts
                 PROVE  ArtifactTold(g, c.artifacts[m].key, c.artifacts[m].value.ts)
      BY <1>13, <1>16 DEF ArtifactsTold
    <2>1. ArtifactTold(h, c.artifacts[m].key, c.artifacts[m].value.ts)
      BY <1>12 DEF ArtifactsTold
    <2> QED BY <1>11, <1>17, <2>1 DEF ArtifactTold
  <1>22. n \notin ReadsIn(g)
    BY <1>11, <1>17
  <1>23. ReadsKnown(e, g)
    <2> SUFFICES ASSUME NEW w \in DOMAIN g, NEW r \in DOMAIN g, Awaits(g, w, r)
                 PROVE  \E read \in Range(ReadsOf(e, g[r].session)) : IsRead(e, g, w, r, read)
      BY DEF ReadsKnown
    <2>1. r # n
      BY <1>22 DEF Awaits, HandedOver
    <2>2. PICK read \in Range(ReadsOf(d, g[r].session)) : IsRead(d, g, w, r, read)
      BY <1>14, <2>1
    <2>3. IsRead(e, g, w, r, read)
      BY <1>16, <2>2 DEF IsRead
    <2> QED BY <1>16, <2>2, <2>3
  <1>24. MatchesKnown(e, g)
    <2> SUFFICES ASSUME NEW w \in DOMAIN g, NEW r \in DOMAIN g, NEW p \in DOMAIN g,
                        HandedOver(g, w, r), SaidAgain(g, r, p), Young(g, r)
                 PROVE  \E key \in KeysIn(e.candidates) :
                           key.prompt = PromptId(g[p]) /\ key.artifact[3] = Norm(g[p].text)
      BY DEF MatchesKnown
    <2>1. r \in ReadsIn(g) /\ r # n /\ r \in DOMAIN h /\ g[r] = h[r]
      BY <1>11, <1>22 DEF HandedOver
    <2>2. w \in DOMAIN h /\ HandedOver(h, w, r) /\ g[w] = h[w]
      BY <1>9, <1>11, <2>1
    <2>3. Young(h, r) /\ h[r].ts + CapiWindow >= x.ts
      BY <1>8, <2>1
    \* It is the prompt that came: the read awaits it.
    <2>4. CASE p = n
      <3>1. /\ x.session = g[r].session /\ x.text = g[r].content /\ g[r].ts <= x.ts
            /\ ~TemplateShape(Norm(x.text))
            /\ \A i \in PromptsIn(g) : r < i /\ i < n /\ g[i].session = g[r].session
                  => g[i].ts >= g[r].ts
        BY <1>11, <2>4 DEF SaidAgain
      <3>2. Awaits(g, w, r)
        <4> SUFFICES ASSUME NEW i \in PromptsIn(g), r < i, g[i].session = g[r].session
                     PROVE  g[i].ts >= g[r].ts
          BY DEF Awaits
        <4>1. CASE i = n
          BY <1>2, <1>3, <1>11, <2>1, <3>1, <4>1
        <4>2. CASE i # n
          <5>1. i < n
            BY <1>11, <1>17, <4>2
          <5> QED BY <3>1, <5>1
        <4> QED BY <4>1, <4>2
      <3>3. PICK read \in Range(ReadsOf(d, g[r].session)) : IsRead(d, g, w, r, read)
        BY <1>14, <2>1, <3>2
      <3>4. PICK j \in DOMAIN reads : read = reads[j]
        BY <1>3, <3>1, <3>3 DEF Range
      <3>5. /\ read.artifact = <<g[w].session, g[r].path, Norm(g[r].content)>>
            /\ read.artifact \in KeysIn(d.artifacts)
        BY <3>3 DEF IsRead
      <3> DEFINE id == read.artifact
      <3>6. id[1] = g[w].session /\ id[3] = Norm(g[r].content)
        BY <3>5
      <3>7. g[w].session # g[r].session
        BY DEF HandedOver
      <3>8. Repeats(d, reads[j], input)
        <4>1. id \in KeysIn(d.artifacts) /\ read = reads[j]
          BY <3>4, <3>5
        <4>2. id[1] # input.session /\ id[3] = Norm(input.text)
          BY <1>3, <3>1, <3>6, <3>7
        <4>3. ~TemplateShape(Norm(input.text))
          BY <1>3, <3>1
        <4> QED BY <4>1, <4>2, <4>3 DEF Repeats
      <3>9. j \in 1 .. Len(reads)
        <4> HIDE DEF reads
        <4> QED BY <1>5, <3>4, SeqFacts
      <3>10. KeyOf(reads[j], input) \in KeysIn(e.candidates)
        BY <1>15, <3>8, <3>9
      <3>11. /\ KeyOf(reads[j], input).prompt = PromptId(input)
             /\ KeyOf(reads[j], input).artifact = id
        BY <3>4 DEF KeyOf
      <3>12. PromptId(g[p]) = PromptId(input) /\ Norm(g[p].text) = Norm(g[r].content)
        BY <1>3, <1>11, <2>4, <3>1
      <3> QED BY <3>6, <3>10, <3>11, <3>12
    <2>5. CASE p # n
      <3>1. p \in DOMAIN h /\ g[p] = h[p] /\ SaidAgain(h, r, p)
        BY <1>9, <1>11, <2>5
      <3>2. PICK key \in KeysIn(c.candidates) :
               key.prompt = PromptId(h[p]) /\ key.artifact[3] = Norm(h[p].text)
        BY <1>12, <2>1, <2>2, <2>3, <3>1 DEF MatchesKnown
      <3>3. PICK i \in DOMAIN c.candidates : key = c.candidates[i].key
        BY DEF KeysIn
      <3>4. c.candidates[i].value.prompt_ts = h[p].ts
        <4>1. c.candidates[i].value.prompt_ts = key.prompt[3]
          BY <1>12, <3>3 DEF MatchesTold, MatchIs
        <4> QED BY <3>2, <4>1, PromptIdFacts
      <3>5. h[p].ts + CapiWindow >= x.ts
        <4>1. h[r].ts <= h[p].ts
          BY <3>1 DEF SaidAgain
        <4>2. h[r].ts \in Nat /\ h[p].ts \in Nat
          BY <1>2, <2>1, <3>1
        <4>3. x.ts \in Nat
          BY <1>3
        <4> QED BY <2>3, <4>1, <4>2, <4>3, PromptAssumption
      <3>6. key \in KeysIn(e.candidates)
        BY <1>13, <1>15, <3>3, <3>4, <3>5
      <3> QED BY <3>1, <3>2, <3>6
    <2> QED BY <2>4, <2>5
  <1>25. MatchesTold(e)
    <2> SUFFICES ASSUME NEW m \in DOMAIN e.candidates
                 PROVE  MatchIs(e, e.candidates[m])
      BY DEF MatchesTold
    <2>1. MatchIs(d, e.candidates[m]) \/ MatchIs(c, e.candidates[m])
      BY <1>12, <1>13, <1>15 DEF MatchesTold
    <2> QED BY <1>13, <1>16, <2>1 DEF MatchIs
  <1>27. e.emitted = c.emitted
    BY <1>15, <1>26 DEF SameButMatches
  <1> QED BY <1>18, <1>19, <1>20, <1>21, <1>23, <1>24, <1>25, <1>27

-----------------------------------------------------------------------------
(* Of what was handed over and said again there is a chain, once.          *)

\* An injection, and a risky event it is not too old for.
Injected(h, w, r, p, session, ts) ==
    /\ HandedOver(h, w, r) /\ SaidAgain(h, r, p) /\ StillKnown(h, r, p)
    /\ session = h[r].session /\ h[p].ts <= ts /\ ts <= h[r].ts + CapiWindow

\* The best match of what was said again tells of a chain.
LEMMA InjectionMatched ==
    ASSUME NEW h, Timed(h), NEW c, CapiOK(c, h), CapiAware(c, h),
           NEW q, PromptsOK(q), PromptsAware(q, h), NEW session, NEW ts \in Nat,
           NEW w \in DOMAIN h, NEW r \in DOMAIN h, NEW p \in DOMAIN h,
           Injected(h, w, r, p, session, ts)
    PROVE  \E e \in BestCandidates(c, session) :
              /\ e.key.artifact \in KeysIn(c.artifacts) /\ e.key.prompt \in KeysIn(q.prompts)
              /\ Ordered(ValueOf(c.artifacts, e.key.artifact), PromptOf(q, e.key.prompt), ts)
              /\ PromptOf(q, e.key.prompt).session = session
              /\ e.key.artifact[3] = Norm(h[p].text)
  <1>1. /\ HandedOver(h, w, r) /\ SaidAgain(h, r, p) /\ StillKnown(h, r, p)
        /\ session = h[r].session /\ h[p].ts <= ts /\ ts <= h[r].ts + CapiWindow
    BY DEF Injected
  <1>2. /\ Room(h) /\ Young(h, r)
        /\ \A j \in ReadsIn(h) : Norm(h[j].content) = Norm(h[p].text) =>
              \A i \in WritesOf(h, h[j].path) : i < j => h[i].ts <= h[p].ts
    BY <1>1 DEF StillKnown, Room, Young
  <1>3. /\ r < p /\ p \in PromptsIn(h) /\ h[p].session = session /\ h[r].ts <= h[p].ts
    BY <1>1 DEF SaidAgain
  <1>4. \A i \in DOMAIN h : h[i].ts \in Nat
    BY DEF Timed
  <1>5. /\ DOMAIN h = 1 .. Len(h) /\ Len(h) \in Nat
    BY SeqFacts DEF Timed
  <1>6. /\ ArtifactsTold(c, h) /\ MatchesKnown(c, h) /\ MatchesTold(c)
        /\ PromptsKnown(q, h)
    BY <1>2 DEF CapiAware, PromptsAware
  <1> DEFINE said == PromptId(h[p])
             words == Norm(h[p].text)
  <1>7. said[1] = session /\ said[3] = h[p].ts /\ said[4] = words
    BY <1>3, PromptIdFacts
  <1> HIDE DEF said, words
  <1>8. PICK key \in KeysIn(c.candidates) : key.prompt = said /\ key.artifact[3] = words
    BY <1>1, <1>2, <1>6 DEF MatchesKnown, said, words
  <1>9. PICK i \in DOMAIN c.candidates : key = c.candidates[i].key
    BY DEF KeysIn
  <1> DEFINE score == c.candidates[i].value.score
  <1>10. c.candidates[i].value.session = session /\ score \in Int /\ score >= 30
    <2>1. c.candidates[i].value.session = key.prompt[1] /\ score \in Int
      BY <1>9 DEF CapiOK, Traced, CandidatesTell
    <2>2. score >= 30 <=> key.artifact[3] = key.prompt[4]
      BY <1>6, <1>9 DEF MatchesTold, MatchIs
    <2> HIDE DEF score
    <2> QED BY <1>7, <1>8, <2>1, <2>2
  <1>11. PICK e \in BestCandidates(c, session) : e.key.prompt = said /\ score <= e.value.score
    BY <1>8, <1>9, <1>10, BestFacts
  <1>12. PICK j \in DOMAIN c.candidates : e = c.candidates[j]
    BY BestFacts
  <1> DEFINE best == e.value.score
             id == e.key.artifact
  <1>13. best \in Int /\ (best >= 30 <=> id[3] = said[4]) /\ id \in KeysIn(c.artifacts)
    BY <1>6, <1>11, <1>12 DEF CapiOK, Traced, CandidatesTell, MatchesTold, MatchIs
  <1>14. id[3] = words
    <2>1. score <= best
      BY <1>11
    <2> HIDE DEF score, best, id
    <2> QED BY <1>7, <1>10, <1>13, <2>1
  <1> HIDE DEF score, best, id
  <1>15. said \in KeysIn(q.prompts)
    <2>1. Young(h, p)
      <3> SUFFICES ASSUME NEW k \in DOMAIN h, p < k
                   PROVE  h[k].ts <= h[p].ts + CapiWindow
        BY DEF Young
      <3>1. h[k].ts <= h[r].ts + CapiWindow
        BY <1>2, <1>3, <1>5 DEF Young
      <3>2. h[k].ts \in Nat /\ h[r].ts \in Nat /\ h[p].ts \in Nat
        BY <1>4
      <3> QED BY <1>3, <3>1, <3>2, PromptAssumption
    <2> QED BY <1>3, <1>6, <2>1 DEF PromptsKnown, said
  <1> DEFINE artifact == ValueOf(c.artifacts, id)
             prompt == PromptOf(q, said)
  <1>16. prompt.session = session /\ prompt.ts = h[p].ts
    <2>1. PromptId(prompt) = said
      BY <1>15, PromptOfFacts
    <2> HIDE DEF prompt
    <2> QED BY <1>7, <2>1, PromptIdFacts
  <1>17. artifact.ts \in Nat /\ artifact.ts <= h[p].ts
    <2>1. PICK k \in DOMAIN c.artifacts : c.artifacts[k].key = id /\ artifact = c.artifacts[k].value
      BY <1>13, ValueFacts
    <2> HIDE DEF artifact
    <2>2. ArtifactTold(h, id, artifact.ts)
      BY <1>6, <2>1 DEF ArtifactsTold
    <2>3. PICK r2 \in ReadsIn(h) : \E w2 \in WritesOf(h, h[r2].path) :
             w2 < r2 /\ Norm(h[r2].content) = id[3] /\ artifact.ts = h[w2].ts
      BY <2>2 DEF ArtifactTold
    <2>4. PICK w2 \in WritesOf(h, h[r2].path) :
             w2 < r2 /\ Norm(h[r2].content) = id[3] /\ artifact.ts = h[w2].ts
      BY <2>3
    <2>5. h[w2].ts <= h[p].ts
      BY <1>2, <1>14, <2>4 DEF words
    <2>6. h[w2].ts \in Nat
      BY <1>4 DEF WritesOf, Opened
    <2> QED BY <2>4, <2>5, <2>6
  <1>18. Ordered(artifact, prompt, ts)
    <2> HIDE DEF artifact, prompt
    <2>1. h[r].ts \in Nat /\ h[p].ts \in Nat
      BY <1>4
    <2>2. ts - h[p].ts <= CapiWindow
      BY <1>1, <1>3, <2>1, PromptAssumption
    <2> QED BY <1>1, <1>16, <1>17, <2>1, <2>2 DEF Ordered
  <1>19. /\ e.key.artifact = id /\ e.key.prompt = said
    BY <1>11 DEF id
  <1> QED BY <1>13, <1>14, <1>15, <1>16, <1>18, <1>19 DEF words

LEMMA InjectionFound ==
    ASSUME NEW h, Timed(h), NEW c, CapiOK(c, h), CapiAware(c, h),
           NEW q, PromptsOK(q), PromptsAware(q, h), NEW session, NEW event, NEW ts \in Nat,
           NEW kind, \A id \in KeysIn(c.emitted) : id[4] # event,
           NEW w \in DOMAIN h, NEW r \in DOMAIN h, NEW p \in DOMAIN h,
           Injected(h, w, r, p, session, ts)
    PROVE  \E chain \in Range(NewChains(c,
                          ChainsOf(c, q, BestCandidates(c, session), event, ts, kind))) :
              chain.downstream = session /\ Norm(chain.artifact.text) = Norm(h[p].text)
  <1> DEFINE best == BestCandidates(c, session)
             Artifact(e) == ValueOf(c.artifacts, e.key.artifact)
             Prompt(e) == PromptOf(q, e.key.prompt)
             Live(e) == /\ e.key.artifact \in KeysIn(c.artifacts)
                        /\ e.key.prompt \in KeysIn(q.prompts)
                        /\ Ordered(Artifact(e), Prompt(e), ts)
             live == {e \in best : Live(e)}
             Chain(e) == ChainOf(e, Artifact(e), Prompt(e), event, ts, kind)
             f == [e \in live |-> Chain(e)]
             chains == ChainsOf(c, q, best, event, ts, kind)
             words == Norm(h[p].text)
  <1>1. chains = {Chain(e) : e \in live}
    BY DEF ChainsOf
  <1>2. IsFiniteSet(chains)
    <2>1. IsFiniteSet(best)
      BY BestFacts
    <2>2. live \in SUBSET best
      OBVIOUS
    <2>3. Range(f) = chains
      BY <1>1 DEF Range
    <2> HIDE DEF live, best, chains
    <2>4. IsFiniteSet(live)
      BY <2>1, <2>2, FS_Subset
    <2>5. DOMAIN f = live
      OBVIOUS
    <2> HIDE DEF f
    <2> QED BY <2>3, <2>4, <2>5, ImageIsFinite
  <1>3. PICK e \in best : /\ Live(e) /\ Prompt(e).session = session
                          /\ e.key.artifact[3] = words
    <2> HIDE DEF words
    <2> QED BY InjectionMatched DEF words
  \* The chain of a match: its id tells its artifact's words and its session.
  <1>4. ASSUME NEW d, Live(d)
        PROVE  /\ Chain(d).id[2] = Chain(d).downstream
               /\ Chain(d).downstream = Prompt(d).session
               /\ Chain(d).id[3] = d.key.artifact
               /\ Norm(Chain(d).artifact.text) = d.key.artifact[3]
               /\ Chain(d).id[4] = event
    <2> DEFINE a == Artifact(d)
               s == Prompt(d)
    <2>1. /\ Chain(d).id = <<a.session, s.session, a.id, event>>
          /\ Chain(d).downstream = s.session /\ Chain(d).artifact = a
      BY DEF ChainOf
    <2>2. PICK k \in DOMAIN c.artifacts :
             c.artifacts[k].key = d.key.artifact /\ a = c.artifacts[k].value
      BY <1>4, ValueFacts
    <2> HIDE DEF a, s, Chain, Live
    <2>3. ArtifactIs(c.artifacts[k])
      BY DEF CapiOK, Traced
    <2>4. a.id = d.key.artifact /\ a.id = <<a.session, a.path, Norm(a.text)>>
      BY <2>2, <2>3 DEF ArtifactIs
    <2>5. a.id[3] = Norm(a.text)
      BY <2>4
    <2>6. /\ Chain(d).id[2] = s.session /\ Chain(d).id[3] = a.id /\ Chain(d).id[4] = event
      BY <2>1
    <2>7. Norm(Chain(d).artifact.text) = d.key.artifact[3]
      BY <2>1, <2>4, <2>5
    <2> QED BY <2>1, <2>4, <2>6, <2>7 DEF s
  <1>5. Chain(e) \in chains
    BY <1>1, <1>3
  <1> HIDE DEF Chain, Live, best
  <1>6. \A chain \in chains : \E d \in live : chain = Chain(d)
    BY <1>1
  <1>7. \A d \in live : Live(d)
    OBVIOUS
  <1> HIDE DEF live, chains
  <1>8. Chain(e).id \notin KeysIn(c.emitted)
    BY <1>3, <1>4
  <1>9. PICK chain \in Range(NewChains(c, chains)) : chain.id = Chain(e).id
    BY <1>2, <1>5, <1>8, NewChainsFacts
  <1>10. chain \in chains
    BY <1>2, NewChainsFacts
  <1>11. PICK d \in live : chain = Chain(d)
    BY <1>6, <1>10
  <1>12. /\ chain.downstream = chain.id[2]
         /\ Norm(chain.artifact.text) = d.key.artifact[3] /\ chain.id[3] = d.key.artifact
    BY <1>4, <1>7, <1>11
  <1>13. Chain(e).id[2] = session /\ Chain(e).id[3] = e.key.artifact
    BY <1>3, <1>4
  <1>14. chain.downstream = session /\ Norm(chain.artifact.text) = words
    BY <1>3, <1>9, <1>12, <1>13
  <1> HIDE DEF words
  <1>15. \E x \in Range(NewChains(c, chains)) :
            x.downstream = session /\ Norm(x.artifact.text) = words
    BY <1>14
  <1> QED BY <1>15 DEF chains, words, best

\* The chains that were emitted tell of events in S.
EmittedOK(c, S) ==
    /\ IsSeq(c.emitted) /\ Len(c.emitted) <= MaxChains
    /\ \A id \in KeysIn(c.emitted) : id[4] \in S

LEMMA EmitKeeps ==
    ASSUME NEW c, DOMAIN c = CapiFields, NEW S, EmittedOK(c, S),
           NEW chains, IsSeq(chains), \A i \in DOMAIN chains : chains[i].id[4] \in S
    PROVE  EmittedOK(EmitChains(c, chains).c, S)
  <1> DEFINE N == Len(chains)
             first == c.emitted
             More(list, n) == InsertYoungest(list, chains[n].id, "emitted", MaxChains)
             Grows(f, n) == f = [i \in 0 .. n |-> IF i = 0 THEN first ELSE More(f[i - 1], i)]
             F == CHOOSE f : Grows(f, N)
             Kept(list) == /\ IsSeq(list) /\ Len(list) <= MaxChains
                           /\ \A id \in KeysIn(list) : id[4] \in S
             Right(n) == Kept(F[n])
             d == [c EXCEPT !.emitted = F[N]]
  <1>1. N \in Nat /\ DOMAIN chains = 1 .. N
    BY SeqFacts
  <1>2. EmitChains(c, chains).c = d
    BY DEF EmitChains
  <1>3. ASSUME NEW list, NEW i \in 1 .. N, Kept(list)
        PROVE  Kept(More(list, i))
    <2> DEFINE id == chains[i].id
    <2>1. id[4] \in S
      BY <1>1
    <2> HIDE DEF id
    <2>2. MaxChains \in Nat \ {0}
      BY CapiAssumption
    <2>3. /\ IsSeq(InsertYoungest(list, id, "emitted", MaxChains))
          /\ Len(InsertYoungest(list, id, "emitted", MaxChains)) <= MaxChains
          /\ KeysIn(InsertYoungest(list, id, "emitted", MaxChains)) \subseteq KeysIn(list) \cup {id}
      BY <1>3, <2>2, InsertFacts
    <2>4. \A x \in KeysIn(list) \cup {id} : x[4] \in S
      BY <1>3, <2>1
    <2> QED BY <2>3, <2>4 DEF id
  <1>14. Kept(first)
    BY DEF EmittedOK
  <1> HIDE DEF N, first, Kept
  <1> HIDE DEF More
  <1>4. \E f : Grows(f, N)
    <2> DEFINE Missing == {n \in 0 .. N : ~\E f : Grows(f, n)}
    <2>1. ASSUME Missing # {}
          PROVE  FALSE
      <3>1. PICK n \in Missing : \A k \in Missing : n <= k
        <4>1. Missing \in SUBSET Nat
          OBVIOUS
        <4> HIDE DEF Missing
        <4> QED BY <2>1, <4>1, Least
      <3>2. n \in 0 .. N /\ ~\E f : Grows(f, n)
        BY <3>1
      <3>3. n # 0
        <4>1. Grows([i \in 0 .. 0 |-> first], 0)
          OBVIOUS
        <4> QED BY <3>2, <4>1
      <3>4. PICK f : Grows(f, n - 1)
        <4>1. n - 1 \in 0 .. N /\ n - 1 \notin Missing
          <5> HIDE DEF Missing
          <5> QED BY <1>1, <3>1, <3>2, <3>3
        <4> QED BY <4>1, Zenon
      <3> DEFINE g == [i \in 0 .. n |-> IF i = n THEN More(f[n - 1], n) ELSE f[i]]
      <3>5. Grows(g, n)
        BY <3>2, <3>3, <3>4
      <3> QED BY <3>2, <3>5
    <2>2. N \in 0 .. N
      BY <1>1
    <2> HIDE DEF Grows
    <2> QED BY <2>1, <2>2
  <1>5. Grows(F, N)
    BY <1>4, Zenon
  <1> HIDE DEF F
  <1>6. F[0] = first /\ \A i \in 1 .. N : F[i] = More(F[i - 1], i)
    BY <1>1, <1>5
  <1>7. Right(0)
    BY <1>6, <1>14
  <1>8. \A i \in 1 .. N : Right(i - 1) => Right(i)
    BY <1>3, <1>6
  <1> DEFINE Wrong == {i \in 0 .. N : ~Right(i)}
  <1> HIDE DEF Right
  <1>9. Wrong = {}
    <2>1. SUFFICES ASSUME Wrong # {}
                   PROVE  FALSE
      OBVIOUS
    <2>2. PICK i \in Wrong : \A j \in Wrong : i <= j
      <3>1. Wrong \in SUBSET Nat
        OBVIOUS
      <3> HIDE DEF Wrong
      <3> QED BY <2>1, <3>1, Least
    <2> QED BY <1>1, <1>7, <1>8, <2>2
  <1>10. Kept(F[N])
    BY <1>1, <1>9 DEF Right
  <1>11. d.emitted = F[N]
    BY DEF CapiFields
  <1> HIDE DEF d
  <1> QED BY <1>2, <1>10, <1>11 DEF EmittedOK, Kept

\* chains_for_risky_event, in its parts.
LEMMA RiskForm ==
    ASSUME NEW c, NEW h, CapiOK(c, h), NEW p, NEW session, NEW event, NEW ts, NEW kind
    PROVE  LET d == Prune(c, ts)
               new == NewChains(d, ChainsOf(d, p, BestCandidates(d, session), event, ts, kind))
               risk == ChainsForRiskyEvent(c, p, session, event, ts, kind)
           IN  /\ risk.chains = new
               /\ risk.c.artifacts = d.artifacts /\ risk.c.lineage = d.lineage
               /\ risk.c.candidates = d.candidates
               /\ risk.c.pending = d.pending /\ risk.c.total = d.total
               /\ risk.c.emitted = EmitChains(d, new).c.emitted
  <1> DEFINE d == Prune(c, ts)
             new == NewChains(d, ChainsOf(d, p, BestCandidates(d, session), event, ts, kind))
             risk == ChainsForRiskyEvent(c, p, session, event, ts, kind)
  <1>1. risk = EmitChains(d, new)
    BY DEF ChainsForRiskyEvent, ChainsAfterPruning
  <1>2. DOMAIN d = CapiFields
    BY PruneWorks DEF CapiOK, CapiTyped
  <1> HIDE DEF d, new, risk
  <1>3. PICK emitted : EmitChains(d, new) = [c |-> [d EXCEPT !.emitted = emitted], chains |-> new]
    BY DEF EmitChains
  <1> DEFINE e == [d EXCEPT !.emitted = emitted]
  <1>4. risk.c = e /\ risk.chains = new
    BY <1>1, <1>3
  <1>5. /\ e.artifacts = d.artifacts /\ e.lineage = d.lineage /\ e.candidates = d.candidates
        /\ e.pending = d.pending /\ e.total = d.total
    BY <1>2 DEF CapiFields
  <1> HIDE DEF e
  <1> QED BY <1>1, <1>4, <1>5 DEF d, new, risk

\* Of what was handed over, said again and known there is a chain.
Tells(chain, session, text) ==
    chain.downstream = session /\ Norm(chain.artifact.text) = Norm(text)

Found(h) ==
    h # <<>> /\ Last(h).kind = "shell" =>
        \A w, r, p \in DOMAIN h :
            /\ HandedOver(h, w, r) /\ SaidAgain(h, r, p) /\ StillKnown(h, r, p)
            /\ Last(h).session = h[r].session /\ h[p].ts <= Last(h).ts
            => \E chain \in Range(Last(h).chains) : Tells(chain, h[r].session, h[p].text)

LEMMA TotalIsNat ==
    ASSUME NEW c, NEW h, CapiOK(c, h)
    PROVE  c.total \in Nat
  BY KeepReadsWorks

LEMMA LastOfAppend ==
    ASSUME NEW h, IsSeq(h), NEW x
    PROVE  Append(h, x) # <<>> /\ Last(Append(h, x)) = x
  <1>1. Len(Append(h, x)) = Len(h) + 1 /\ Append(h, x)[Len(h) + 1] = x /\ Len(h) \in Nat
    BY SeqFacts, AppendFacts
  <1>2. Last(Append(h, x)) = x
    BY <1>1 DEF Last
  <1>3. Len(<<>>) = 0
    OBVIOUS
  <1> QED BY <1>1, <1>2, <1>3

LEMMA EmittedMore ==
    ASSUME NEW c, NEW S, NEW T, S \subseteq T, EmittedOK(c, S)
    PROVE  EmittedOK(c, T)
  BY DEF EmittedOK

\* A shell, and the chains that were told of it.
LEMMA RiskAware ==
    ASSUME NEW h, Timed(h), NEW c, CapiOK(c, h), c.total <= MaxArtifacts, CapiAware(c, h),
           NEW x, x.kind = "shell", x.ts \in Nat,
           NEW q, PromptsOK(q), PromptsAware(q, Append(h, x)), NEW S, NEW event, event \notin S,
           Room(h) => EmittedOK(c, S), NEW kind,
           x.chains = ChainsForRiskyEvent(c, q, x.session, event, x.ts, kind).chains
    PROVE  LET d == ChainsForRiskyEvent(c, q, x.session, event, x.ts, kind).c
           IN  /\ CapiAware(d, Append(h, x)) /\ Found(Append(h, x))
               /\ Room(Append(h, x)) => EmittedOK(d, S \cup {event})
  <1> DEFINE g == Append(h, x)
             n == Len(h) + 1
             session == x.session
             ts == x.ts
             b == Prune(c, ts)
             best == BestCandidates(b, session)
             chains == ChainsOf(b, q, best, event, ts, kind)
             new == NewChains(b, chains)
             d == ChainsForRiskyEvent(c, q, session, event, ts, kind).c
             T == S \cup {event}
  <1>1. IsSeq(h) /\ Timed(g) /\ ts \in Nat
    BY YoungBefore DEF Timed
  <1>2. /\ CapiOK(b, h) /\ b.total <= c.total
        /\ b.artifacts = c.artifacts /\ b.lineage = c.lineage /\ b.emitted = c.emitted
    BY PruneKeeps
  <1>3. Fades(b, c, ts)
    BY PruneKeeps DEF Fades
  <1>4. /\ CapiTyped(b) /\ b.total \in Nat /\ c.total \in Nat
    BY <1>2, TotalIsNat DEF CapiOK
  <1>5. CapiAware(b, g)
    <2> HIDE DEF b
    <2>1. x.kind # "say" /\ x.kind # "open"
      OBVIOUS
    <2> QED BY <1>3, <1>4, <2>1, CapiFades
  <1>6. CapiOK(b, g)
    <2> HIDE DEF b
    <2> QED BY <1>1, <1>2, TracedLater
  <1>7. /\ x.chains = new
        /\ d.artifacts = b.artifacts /\ d.lineage = b.lineage /\ d.candidates = b.candidates
        /\ d.pending = b.pending /\ d.total = b.total
        /\ d.emitted = EmitChains(b, new).c.emitted
    BY RiskForm
  <1>8. DOMAIN b = CapiFields
    BY <1>4 DEF CapiTyped
  <1>9. \A chain \in chains : chain.id[4] = event
    <2> SUFFICES ASSUME NEW chain \in chains
                 PROVE  chain.id[4] = event
      OBVIOUS
    <2>1. PICK e, a, p : chain = ChainOf(e, a, p, event, ts, kind)
      BY DEF ChainsOf
    <2> QED BY <2>1 DEF ChainOf
  <1>10. IsFiniteSet(chains)
    <2> DEFINE Artifact(e) == ValueOf(b.artifacts, e.key.artifact)
               Prompt(e) == PromptOf(q, e.key.prompt)
               live == {e \in best : /\ e.key.artifact \in KeysIn(b.artifacts)
                                     /\ e.key.prompt \in KeysIn(q.prompts)
                                     /\ Ordered(Artifact(e), Prompt(e), ts)}
               f == [e \in live |-> ChainOf(e, Artifact(e), Prompt(e), event, ts, kind)]
    <2>1. Range(f) = {ChainOf(e, Artifact(e), Prompt(e), event, ts, kind) : e \in live}
      BY DEF Range
    <2>2. chains = Range(f)
      BY <2>1 DEF ChainsOf
    <2>3. IsFiniteSet(best)
      BY <1>2, BestFacts
    <2>4. live \in SUBSET best
      OBVIOUS
    <2> HIDE DEF live, best, chains
    <2>5. IsFiniteSet(live)
      BY <2>3, <2>4, FS_Subset
    <2>6. DOMAIN f = live
      OBVIOUS
    <2> HIDE DEF f
    <2> QED BY <2>2, <2>5, <2>6, ImageIsFinite
  <1> HIDE DEF b, chains, d, best
  <1>11. IsSeq(new) /\ Range(new) \subseteq chains
    BY <1>10, NewChainsFacts
  <1> HIDE DEF new
  <1>12. CapiAware(d, g)
    <2>1. \A s : ReadsOf(d, s) = ReadsOf(b, s)
      BY <1>7 DEF ReadsOf
    <2>2. Bounded(b, g) => Bounded(d, g)
      BY <1>7, <2>1 DEF Bounded
    <2>3. WritersKnown(b, g) => WritersKnown(d, g)
      BY <1>7 DEF WritersKnown
    <2>4. WritersTold(b, g) => WritersTold(d, g)
      BY <1>7 DEF WritersTold
    <2>5. ArtifactsTold(b, g) => ArtifactsTold(d, g)
      BY <1>7 DEF ArtifactsTold
    <2>6. ReadsKnown(b, g) => ReadsKnown(d, g)
      BY <1>7, <2>1 DEF ReadsKnown, IsRead
    <2>7. MatchesKnown(b, g) => MatchesKnown(d, g)
      BY <1>7 DEF MatchesKnown
    <2>8. MatchesTold(b) => MatchesTold(d)
      BY <1>7 DEF MatchesTold, MatchIs
    <2> HIDE DEF g
    <2> QED BY <1>5, <2>2, <2>3, <2>4, <2>5, <2>6, <2>7, <2>8 DEF CapiAware
  <1>13. Room(g) => Room(h)
    BY <1>1, CountOneMore
  <1>14. Room(g) => EmittedOK(d, T)
    <2> SUFFICES ASSUME Room(g)
                 PROVE  EmittedOK(d, T)
      OBVIOUS
    <2>1. EmittedOK(b, T)
      BY <1>2, <1>13 DEF EmittedOK
    <2>2. \A i \in DOMAIN new : new[i].id[4] \in T
      BY <1>9, <1>11 DEF Range
    <2> HIDE DEF T
    <2>3. EmittedOK(EmitChains(b, new).c, T)
      BY <1>8, <1>11, <2>1, <2>2, EmitKeeps
    <2> QED BY <1>7, <2>3 DEF EmittedOK
  <1>15. Found(g)
    <2>1. g # <<>> /\ Last(g) = x
      BY <1>1, LastOfAppend
    <2>2. /\ DOMAIN g = 1 .. n /\ Len(h) \in Nat /\ g[n] = x
      BY <1>1, SeqFacts, AppendFacts
    <2> HIDE DEF g
    <2> SUFFICES ASSUME NEW w \in DOMAIN g, NEW r \in DOMAIN g, NEW p \in DOMAIN g,
                        HandedOver(g, w, r), SaidAgain(g, r, p), StillKnown(g, r, p),
                        session = g[r].session, g[p].ts <= ts
                 PROVE  \E chain \in Range(new) : Tells(chain, g[r].session, g[p].text)
      BY <1>7, <2>1 DEF Found
    <2>3. r < n
      <3>1. g[r].kind = "open"
        BY DEF HandedOver, ReadsIn, Opened
      <3> QED BY <2>2, <3>1
    <2>4. ts <= g[r].ts + CapiWindow
      BY <2>2, <2>3 DEF StillKnown
    <2>5. Injected(g, w, r, p, session, ts)
      BY <2>4 DEF Injected
    <2>6. Room(g)
      BY DEF StillKnown, Room
    <2>7. \A id \in KeysIn(b.emitted) : id[4] # event
      BY <1>2, <1>13, <2>6 DEF EmittedOK
    <2> HIDE DEF session, ts
    <2>8. \E chain \in Range(new) :
              chain.downstream = session /\ Norm(chain.artifact.text) = Norm(g[p].text)
      <3>1. PromptsAware(q, g)
        BY DEF g
      <3> QED BY <1>1, <1>5, <1>6, <2>5, <2>7, <3>1, InjectionFound DEF new, chains, best
    <2> QED BY <2>8 DEF Tells
  <1> QED BY <1>12, <1>14, <1>15 DEF d, g, T

-----------------------------------------------------------------------------
(* What the daemon keeps, event by event.                                  *)

\* The daemon is aware of what it has processed; S are the events it has had.
DaemonAware(d, S) ==
    /\ Timed(d.seen)
    /\ CapiAware(d.capi, d.seen) /\ PromptsAware(d.prompts, d.seen)
    /\ Room(d.seen) => EmittedOK(d.capi, S)
    /\ Found(d.seen)

LEMMA TakePromptAware ==
    ASSUME NEW d, DaemonOK(d), NEW S, DaemonAware(d, S), NEW pid,
           NEW said, said.ts \in Nat, IsText(said.text)
    PROVE  DaemonAware(TakePrompt(d, pid, said), S)
  <1> DEFINE input == [session |-> SessionOf[pid], stream |-> said.stream, ts |-> said.ts,
                       text |-> said.text, visibility |-> said.visibility]
             store == InsertPrompt(d.prompts, input)
             x == Joined(input, [kind |-> "say"])
             h == d.seen
             g == Append(h, x)
             met == ObservePrompt(d.capi, input)
             capi1 == IF PromptId(input) \in KeysIn(store.prompts) THEN met ELSE d.capi
             e == [d EXCEPT !.prompts = store, !.capi = capi1, !.seen = g]
  <1>1. TakePrompt(d, pid, said) = e
    BY DEF TakePrompt
  <1>2. /\ DOMAIN d = DaemonFields /\ IsSeq(h) /\ CapiOK(d.capi, h)
        /\ d.capi.total <= MaxArtifacts /\ PromptsOK(d.prompts)
    BY DEF DaemonOK, HistoryOK
  <1>3. input.ts \in Nat /\ IsText(input.text)
    OBVIOUS
  <1>4. IsSayOf(x, input)
    <2>1. DOMAIN input = {"session", "stream", "ts", "text", "visibility"}
      OBVIOUS
    <2> DEFINE kind == [kind |-> "say"]
    <2>2. DOMAIN kind = {"kind"} /\ kind["kind"] = "say"
      OBVIOUS
    <2> HIDE DEF input, kind
    <2>3. /\ \A f \in DOMAIN input : Joined(input, kind)[f] = input[f]
          /\ \A f \in DOMAIN kind : f \notin DOMAIN input => Joined(input, kind)[f] = kind[f]
      BY JoinedFacts
    <2>4. x = Joined(input, kind)
      BY DEF kind
    <2> HIDE DEF x
    <2>5. /\ x["kind"] = "say" /\ x["session"] = input["session"]
          /\ x["stream"] = input["stream"] /\ x["ts"] = input["ts"] /\ x["text"] = input["text"]
      BY <2>1, <2>2, <2>3, <2>4
    <2> QED BY <2>5 DEF PromptId, IsSayOf
  <1> HIDE DEF input, x
  <1>5. /\ Timed(h) /\ CapiAware(d.capi, h) /\ PromptsAware(d.prompts, h)
        /\ Room(h) => EmittedOK(d.capi, S)
    BY DEF DaemonAware
  <1>6. x.kind = "say" /\ x.ts \in Nat
    BY <1>3, <1>4 DEF IsSayOf
  <1> HIDE DEF store, h, met
  <1>7. PromptsAware(store, g) /\ (Room(g) => PromptId(input) \in KeysIn(store.prompts))
    BY <1>2, <1>3, <1>4, <1>5, PromptsTaken DEF store
  <1>8. CapiAware(met, g) /\ (Room(g) => met.emitted = d.capi.emitted)
    BY <1>2, <1>3, <1>4, <1>5, SayAware DEF met
  <1>9. Timed(g)
    BY <1>5, <1>6, YoungBefore
  <1>10. Room(g) => Room(h)
    BY <1>2, CountOneMore
  <1>11. Found(g)
    <2>1. Last(g).kind = "say"
      BY <1>2, <1>6, LastOfAppend
    <2> HIDE DEF g
    <2> QED BY <2>1 DEF Found
  <1> HIDE DEF g
  <1>12. Room(g) => capi1 = met
    BY <1>7
  <1> HIDE DEF capi1
  <1>13. CapiAware(capi1, g)
    <2>1. CASE Room(g)
      BY <1>8, <1>12, <2>1
    <2>2. CASE ~Room(g)
      BY <2>2 DEF CapiAware
    <2> QED BY <2>1, <2>2
  <1>14. Room(g) => EmittedOK(capi1, S)
    <2> SUFFICES ASSUME Room(g)
                 PROVE  EmittedOK(capi1, S)
      OBVIOUS
    <2>1. capi1.emitted = d.capi.emitted
      BY <1>8, <1>12
    <2> QED BY <1>5, <1>10, <2>1 DEF EmittedOK
  <1>15. e.prompts = store /\ e.capi = capi1 /\ e.seen = g
    BY <1>2 DEF DaemonFields
  <1> HIDE DEF e
  <1>16. DaemonAware(e, S)
    BY <1>7, <1>9, <1>11, <1>13, <1>14, <1>15 DEF DaemonAware
  <1> QED BY <1>1, <1>16

LEMMA DrainAware ==
    ASSUME NEW d, DaemonOK(d), NEW S, DaemonAware(d, S), NEW pid
    PROVE  DaemonAware(DrainPendingPrompts(d, pid), S)
  <1>1. SUFFICES ASSUME pid \in DOMAIN d.pending
                 PROVE  DaemonAware(DrainPendingPrompts(d, pid), S)
    BY DEF DrainPendingPrompts
  <1> DEFINE e == DrainPendingPrompts(d, pid)
  <1>2. PICK N \in Nat : \E F :
           /\ DrainPendingPrompts(d, pid) = F[N]
           /\ DaemonOK(F[0]) /\ F[0].seen = d.seen
           /\ F[0].capi = d.capi /\ F[0].prompts = d.prompts
           /\ \A i \in 1 .. N : \E said : /\ said.ts \in Nat /\ IsText(said.text)
                                         /\ F[i] = TakePrompt(F[i - 1], pid, said)
    BY <1>1, DrainSteps
  <1>3. PICK F : /\ e = F[N] /\ DaemonOK(F[0]) /\ F[0].seen = d.seen
                 /\ F[0].capi = d.capi /\ F[0].prompts = d.prompts
                 /\ \A i \in 1 .. N : \E said : /\ said.ts \in Nat /\ IsText(said.text)
                                               /\ F[i] = TakePrompt(F[i - 1], pid, said)
    BY <1>2
  <1> HIDE DEF e
  <1> DEFINE Right == {i \in 0 .. N : DaemonOK(F[i]) /\ DaemonAware(F[i], S)}
  <1>4. ASSUME NEW i \in 1 .. N, i - 1 \in Right
        PROVE  i \in Right
    <2>1. PICK said : /\ said.ts \in Nat /\ IsText(said.text)
                      /\ F[i] = TakePrompt(F[i - 1], pid, said)
      BY <1>3
    <2>2. DaemonOK(F[i])
      BY <1>4, <2>1, TakePromptWorks
    <2>3. DaemonAware(F[i], S)
      BY <1>4, <2>1, TakePromptAware
    <2> QED BY <1>4, <2>2, <2>3
  <1>5. 0 \in Right
    BY <1>3 DEF DaemonAware
  <1> HIDE DEF Right
  <1>6. N \in Right
    BY <1>4, <1>5, UpTo
  <1> QED BY <1>3, <1>6 DEF Right, e

\* What neither evicts prompts nor processes anything.
LEMMA SameAware ==
    ASSUME NEW d, NEW S, DaemonAware(d, S),
           NEW e, e.seen = d.seen, e.capi = d.capi, e.prompts = d.prompts
    PROVE  DaemonAware(e, S)
  BY DEF DaemonAware

LEMMA EvictPendingAware ==
    ASSUME NEW d, DOMAIN d = DaemonFields, NEW S, DaemonAware(d, S), NEW now
    PROVE  DaemonAware(EvictPendingPrompts(d, now), S)
  <1> DEFINE e == EvictPendingPrompts(d, now)
  <1>1. e.seen = d.seen /\ e.capi = d.capi /\ e.prompts = d.prompts
    BY DEF EvictPendingPrompts, DaemonFields
  <1> HIDE DEF e
  <1> QED BY <1>1, SameAware DEF e

LEMMA QueueAware ==
    ASSUME NEW d, DOMAIN d = DaemonFields, NEW S, DaemonAware(d, S), NEW pid, NEW said
    PROVE  DaemonAware(QueuePendingPrompt(d, pid, said), S)
  <1> DEFINE e == QueuePendingPrompt(d, pid, said)
  <1>1. e.seen = d.seen /\ e.capi = d.capi /\ e.prompts = d.prompts
    BY DEF QueuePendingPrompt, DaemonFields
  <1> HIDE DEF e
  <1> QED BY <1>1, SameAware DEF e

\* An event that is no prompt is processed.
LEMMA DrainedAware ==
    ASSUME NEW d, DaemonOK(d), NEW S, DaemonAware(d, S),
           NEW ev, IsEvent(ev), ev.kind # "say", ev.id \notin S
    PROVE  DaemonAware(ObserveDrained(d, ev), S \cup {ev.id})
  <1> DEFINE content == IF ev.kind = "open" /\ ev.path \in DOMAIN disk THEN disk[ev.path] ELSE NoText
             session == SessionOf[ev.pid]
             evidence == EvidenceForEvent(d.prompts, session, ev.ts, RiskOf(ev))
             after == ObserveFile(d.capi, ev, content)
             risk == ObserveRisk(after, evidence.p, ev)
             more == [session |-> session, content |-> content, links |-> evidence.links,
                      repeated |-> evidence.repeated, chains |-> risk.chains]
             x == Joined(ev, more)
             h == d.seen
             g == Append(h, x)
             e == [d EXCEPT !.prompts = evidence.p, !.capi = risk.c, !.seen = g]
             T == S \cup {ev.id}
  <1>1. ObserveDrained(d, ev) = e
    BY DEF ObserveDrained
  <1>2. /\ DOMAIN d = DaemonFields /\ IsSeq(h) /\ CapiOK(d.capi, h)
        /\ d.capi.total <= MaxArtifacts /\ PromptsOK(d.prompts)
    BY DEF DaemonOK, HistoryOK
  <1>3. /\ Timed(h) /\ CapiAware(d.capi, h) /\ PromptsAware(d.prompts, h)
        /\ Room(h) => EmittedOK(d.capi, S)
    BY DEF DaemonAware
  <1>4. ev.ts \in Nat /\ DOMAIN ev = CallFields \cup {"id", "ts"}
    BY DEF IsEvent
  <1>5. /\ x.kind = ev.kind /\ x.ts = ev.ts /\ x.path = ev.path
        /\ x.writes = ev.writes /\ x.reads = ev.reads
        /\ x.session = session /\ x.content = content /\ x.chains = risk.chains
    <2>1. /\ DOMAIN more = {"session", "content", "links", "repeated", "chains"}
          /\ more["session"] = session /\ more["content"] = content
          /\ more["chains"] = risk.chains
      OBVIOUS
    <2> HIDE DEF more
    <2>2. /\ \A f \in DOMAIN ev : x[f] = ev[f]
          /\ \A f \in DOMAIN more : f \notin DOMAIN ev => x[f] = more[f]
      BY JoinedFacts
    <2> HIDE DEF x, session, content, evidence, risk
    <2>3. /\ x["kind"] = ev["kind"] /\ x["ts"] = ev["ts"] /\ x["path"] = ev["path"]
          /\ x["writes"] = ev["writes"] /\ x["reads"] = ev["reads"]
      BY <1>4, <2>2 DEF CallFields
    <2>4. x["session"] = session /\ x["content"] = content /\ x["chains"] = risk.chains
      BY <1>4, <2>1, <2>2 DEF CallFields
    <2> QED BY <2>3, <2>4
  <1> HIDE DEF x, content, more
  <1>6. PromptsOK(evidence.p)
    BY <1>2, <1>4, EvidenceWorks
  <1>7. PromptsAware(evidence.p, g)
    <2> DEFINE now == x.ts
    <2>1. evidence.p = EvictSession(d.prompts, session, now)
      BY <1>5 DEF EvidenceForEvent
    <2>2. PromptsAware(EvictSession(d.prompts, session, x.ts), Append(h, x))
      <3>1. x.kind # "say" /\ x.ts \in Nat
        BY <1>4, <1>5
      <3> HIDE DEF session, h
      <3> QED BY <1>2, <1>3, <3>1, PromptsFade
    <2> HIDE DEF evidence, session
    <2> QED BY <2>1, <2>2
  <1> HIDE DEF evidence, h
  <1>8. Timed(g) /\ (Room(g) => Room(h))
    <2>1. x.ts \in Nat
      BY <1>4, <1>5
    <2> QED BY <1>2, <1>3, <2>1, YoungBefore, CountOneMore
  <1>9. /\ CapiAware(risk.c, g) /\ Found(g)
        /\ Room(g) => EmittedOK(risk.c, T)
    <2>1. CASE ev.kind # "shell"
      <3>1. risk.c = after
        BY <2>1 DEF ObserveRisk
      <3>2. CapiAware(after, g) /\ (Room(g) => after.emitted = d.capi.emitted)
        <4>1. CASE ev.kind # "open"
          <5>1. after = d.capi
            BY <4>1 DEF ObserveFile
          <5> HIDE DEF after
          <5> DEFINE c == d.capi
          <5>2. /\ x.kind # "say" /\ x.kind # "open" /\ x.ts \in Nat
            BY <1>4, <1>5, <4>1
          <5>3. CapiTyped(c) /\ c.total \in Nat
            BY <1>2, TotalIsNat DEF CapiOK
          <5>4. CapiOK(c, h) /\ CapiAware(c, h)
            BY <1>2, <1>3
          <5> HIDE DEF c
          <5>5. Len(c.candidates) <= Len(c.candidates) /\ \A s : Len(ReadsOf(c, s)) <= Len(ReadsOf(c, s))
            <6>1. Len(c.candidates) \in Nat
              BY <5>3, SeqFacts DEF CapiTyped
            <6>2. \A s : Len(ReadsOf(c, s)) \in Nat
              <7>1. \A s : IsSeq(ReadsOf(c, s))
                BY <5>3, EmptyFacts DEF CapiTyped, ReadsOf
              <7> QED BY <7>1, SeqFacts
            <6> QED BY <6>1, <6>2
          <5>6. Fades(c, c, x.ts)
            BY <5>3, <5>5 DEF Fades, KeysIn
          <5>7. CapiAware(c, g)
            BY <1>3, <5>2, <5>3, <5>4, <5>6, CapiFades
          <5> QED BY <5>1, <5>7 DEF c
        <4>2. CASE ev.kind = "open"
          <5> DEFINE file == [session |-> session, path |-> ev.path, ts |-> ev.ts,
                              workspace |-> ev.path[1] \in Workspaces,
                              writes |-> ev.writes, reads |-> ev.reads]
          <5>1. after = ObserveFileEvent(d.capi, file, content)
            BY <4>2 DEF ObserveFile
          <5>2. /\ file.session = session /\ file.path = ev.path /\ file.ts = ev.ts
                /\ file.writes = ev.writes /\ file.reads = ev.reads
                /\ file.workspace <=> file.path[1] \in Workspaces
            OBVIOUS
          <5> HIDE DEF file, after
          <5>3. IsOpenOf(x, file, content)
            BY <1>5, <4>2, <5>2 DEF IsOpenOf
          <5>4. x.ts \in Nat
            BY <1>4, <1>5
          <5>5. file.workspace <=> file.path[1] \in Workspaces
            BY <5>2
          <5>6. /\ CapiAware(ObserveFileEvent(d.capi, file, content), Append(h, x))
                /\ Room(Append(h, x))
                      => ObserveFileEvent(d.capi, file, content).emitted = d.capi.emitted
            BY <1>2, <1>3, <5>3, <5>4, <5>5, OpenAware
          <5> QED BY <5>1, <5>6
        <4> QED BY <4>1, <4>2
      <3> HIDE DEF after
      <3>3. Found(g)
        <4>1. Last(g).kind # "shell"
          BY <1>2, <1>5, <2>1, LastOfAppend
        <4> HIDE DEF g
        <4> QED BY <4>1 DEF Found
      <3>4. Room(g) => EmittedOK(after, T)
        <4> HIDE DEF g
        <4> QED BY <1>3, <1>8, <3>2 DEF EmittedOK
      <3> HIDE DEF risk
      <3> QED BY <3>1, <3>2, <3>3, <3>4
    <2>2. CASE ev.kind = "shell"
      <3> DEFINE q == evidence.p
                 id == ev.id
                 kind == "UnexpectedShell"
                 c == d.capi
      <3>1. risk = ChainsForRiskyEvent(after, q, session, id, ev.ts, kind) /\ after = c
        BY <2>2 DEF ObserveRisk, ObserveFile, session
      <3>2. risk = ChainsForRiskyEvent(c, q, x.session, id, x.ts, kind)
        <4> HIDE DEF risk, after, q, id, kind, c, session
        <4> QED BY <1>5, <3>1
      <3>3. PromptsOK(q) /\ PromptsAware(q, Append(h, x))
        BY <1>6, <1>7
      <3>4. /\ CapiOK(c, h) /\ c.total <= MaxArtifacts /\ CapiAware(c, h) /\ Timed(h)
            /\ Room(h) => EmittedOK(c, S)
        BY <1>2, <1>3
      <3>5. x.kind = "shell" /\ x.ts \in Nat
        BY <1>4, <1>5, <2>2
      <3>6. id \notin S
        OBVIOUS
      <3> HIDE DEF risk, q, id, kind, c, after
      <3>7. x.chains = ChainsForRiskyEvent(c, q, x.session, id, x.ts, kind).chains
        BY <1>5, <3>2
      <3>8. /\ CapiAware(ChainsForRiskyEvent(c, q, x.session, id, x.ts, kind).c, Append(h, x))
            /\ Found(Append(h, x))
            /\ Room(Append(h, x)) =>
                  EmittedOK(ChainsForRiskyEvent(c, q, x.session, id, x.ts, kind).c, S \cup {id})
        BY <3>3, <3>4, <3>5, <3>6, <3>7, RiskAware
      <3> QED BY <3>2, <3>8 DEF id
    <2> QED BY <2>1, <2>2
  <1> HIDE DEF risk, g
  <1>10. e.prompts = evidence.p /\ e.capi = risk.c /\ e.seen = g
    BY <1>2 DEF DaemonFields
  <1> HIDE DEF e, T
  <1>11. DaemonAware(e, T)
    BY <1>7, <1>8, <1>9, <1>10 DEF DaemonAware
  <1> QED BY <1>1, <1>11 DEF T

LEMMA ObserveAware ==
    ASSUME NEW d, DaemonOK(d), NEW S, DaemonAware(d, S),
           NEW ev, IsEvent(ev), ev.kind # "say", ev.id \notin S
    PROVE  DaemonAware(Observe(d, ev), S \cup {ev.id})
  <1> DEFINE drained == DrainPendingPrompts(d, ev.pid)
             left == EvictPendingPrompts(drained, ev.ts)
  <1>1. Observe(d, ev) = ObserveDrained(left, ev)
    BY DEF Observe
  <1>2. DaemonOK(drained) /\ DaemonAware(drained, S)
    BY DrainWorks, DrainAware
  <1> HIDE DEF drained
  <1>3. DOMAIN drained = DaemonFields
    BY <1>2 DEF DaemonOK
  <1>4. DaemonOK(left) /\ DaemonAware(left, S)
    BY <1>2, <1>3, EvictPendingWorks, EvictPendingAware
  <1> HIDE DEF left
  <1>5. DaemonAware(ObserveDrained(left, ev), S \cup {ev.id})
    BY <1>4, DrainedAware
  <1> QED BY <1>1, <1>5

-----------------------------------------------------------------------------
(* No injection is missed.                                                 *)

LEMMA AwareMore ==
    ASSUME NEW d, NEW S, NEW T, S \subseteq T, DaemonAware(d, S)
    PROVE  DaemonAware(d, T)
  BY EmittedMore DEF DaemonAware

\* Each event is processed once.
Waiting == {flight[i].id : i \in DOMAIN flight}
Gone == (1 .. count) \ Waiting

FlightNumbered ==
    /\ count \in Nat
    /\ \A i \in DOMAIN flight : flight[i].id \in 1 .. count
    /\ \A i, j \in DOMAIN flight : flight[i].id = flight[j].id => i = j

FoundInv == FlightNumbered /\ DaemonAware(Daemon, Gone)

LEMMA InitAware ==
    ASSUME Init
    PROVE  FoundInv
  <1> DEFINE c == NewCapi
             p == NewPromptStore
  <1>1. /\ Daemon.seen = <<>> /\ Daemon.capi = c /\ Daemon.prompts = p
        /\ count = 0 /\ flight = <<>>
    BY DEF Init, Daemon
  <1>2. /\ c.artifacts = <<>> /\ c.lineage = <<>> /\ c.candidates = <<>>
        /\ c.pending = EmptyMap /\ c.total = 0 /\ c.emitted = <<>> /\ p.prompts = <<>>
    BY DEF NewCapi, NewPromptStore
  <1> HIDE DEF c, p
  <1> DEFINE h == <<>>
  <1>3. /\ IsSeq(h) /\ DOMAIN h = {} /\ Len(h) = 0 /\ KeysIn(h) = {}
    BY EmptyFacts DEF KeysIn
  <1>4. \A s : ReadsOf(c, s) = h
    BY <1>2 DEF ReadsOf, EmptyMap
  <1> HIDE DEF h
  <1>5. /\ Opened(h) = {} /\ ReadsIn(h) = {} /\ PromptsIn(h) = {}
    BY <1>3 DEF Opened, ReadsIn, PromptsIn
  <1>6. /\ Cardinality(Opened(h)) = 0 /\ Cardinality(ReadsIn(h)) = 0
        /\ Cardinality(PromptsIn(h)) = 0
    BY <1>5, FS_EmptySet
  <1>7. 0 <= MaxChains
    BY CapiAssumption
  <1>8. CapiAware(c, h)
    <2>1. Bounded(c, h)
      <3>1. /\ Len(c.lineage) = 0 /\ Len(c.artifacts) = 0 /\ Len(c.candidates) = 0
            /\ \A s : Len(ReadsOf(c, s)) = 0
        BY <1>2, <1>3, <1>4 DEF h
      <3>2. 0 * 0 = 0
        OBVIOUS
      <3> QED BY <1>2, <1>6, <3>1, <3>2 DEF Bounded
    <2>2. WritersKnown(c, h)
      BY <1>5 DEF WritersKnown
    <2>3. WritersTold(c, h)
      BY <1>2, <1>3 DEF WritersTold, h
    <2>4. ArtifactsTold(c, h)
      BY <1>2, <1>3 DEF ArtifactsTold, h
    <2>5. ReadsKnown(c, h)
      BY <1>3 DEF ReadsKnown
    <2>6. MatchesKnown(c, h)
      BY <1>3 DEF MatchesKnown
    <2>7. MatchesTold(c)
      BY <1>2, <1>3 DEF MatchesTold, h
    <2> QED BY <2>1, <2>2, <2>3, <2>4, <2>5, <2>6, <2>7 DEF CapiAware
  <1>9. PromptsAware(p, h)
    <2>1. Len(p.prompts) = 0
      BY <1>2, <1>3 DEF h
    <2>2. PromptsKnown(p, h)
      BY <1>5 DEF PromptsKnown
    <2> QED BY <1>6, <2>1, <2>2 DEF PromptsAware
  <1>10. EmittedOK(c, Gone)
    BY <1>2, <1>3, <1>7 DEF EmittedOK, h
  <1>11. Timed(h) /\ Found(h)
    BY <1>3 DEF Timed, Found, h
  <1>12. DaemonAware(Daemon, Gone)
    BY <1>1, <1>8, <1>9, <1>10, <1>11 DEF DaemonAware, h
  <1>13. FlightNumbered
    BY <1>1, <1>3 DEF FlightNumbered, h
  <1> QED BY <1>12, <1>13 DEF FoundInv

LEMMA CallAware ==
    ASSUME IInv, FoundInv, NEW call \in scenario.calls, NEW gap \in scenario.gaps, Call(call, gap)
    PROVE  FoundInv'
  <1> DEFINE more == [id |-> count + 1, ts |-> clock + gap]
             ev == Joined(call, more)
             n == Len(flight) + 1
  <1>1. /\ scenario \in Scenarios /\ IsSeq(flight) /\ FlightNumbered /\ DaemonAware(Daemon, Gone)
    BY DEF IInv, HostOK, FlightOK, FoundInv
  <1>2. IsCall(call)
    BY <1>1, CorrelationAssumption
  <1>3. flight' = Append(flight, ev) /\ count' = count + 1 /\ Daemon' = Daemon
    BY DEF Call, daemon_vars, Daemon
  <1>4. ev.id = count + 1
    <2>1. DOMAIN call = CallFields
      BY <1>2 DEF IsCall, CallFields
    <2>2. DOMAIN more = {"id", "ts"} /\ more["id"] = count + 1
      OBVIOUS
    <2> HIDE DEF more
    <2>3. \A f \in DOMAIN more : f \notin DOMAIN call => ev[f] = more[f]
      BY JoinedFacts
    <2> HIDE DEF ev
    <2>4. ev["id"] = more["id"]
      BY <2>1, <2>2, <2>3 DEF CallFields
    <2> QED BY <2>2, <2>4
  <1> HIDE DEF ev
  <1>5. /\ DOMAIN flight' = 1 .. n /\ DOMAIN flight = 1 .. Len(flight) /\ Len(flight) \in Nat
        /\ flight'[n] = ev /\ \A i \in DOMAIN flight : flight'[i] = flight[i]
    BY <1>1, <1>3, SeqFacts, AppendFacts
  <1>6. /\ n \in DOMAIN flight' /\ \A i \in DOMAIN flight : i \in DOMAIN flight' /\ i # n
        /\ \A i \in DOMAIN flight' : i \in DOMAIN flight \/ i = n
    BY <1>5
  <1>7. /\ count \in Nat /\ \A i \in DOMAIN flight : flight[i].id \in 1 .. count
        /\ \A i, j \in DOMAIN flight : flight[i].id = flight[j].id => i = j
    BY <1>1 DEF FlightNumbered
  <1> HIDE DEF n
  <1>8. FlightNumbered'
    <2>1. count' \in Nat
      BY <1>3, <1>7
    <2>2. \A i \in DOMAIN flight' : flight'[i].id \in 1 .. count'
      BY <1>3, <1>4, <1>5, <1>6, <1>7
    <2>3. ASSUME NEW i \in DOMAIN flight', NEW j \in DOMAIN flight', flight'[i].id = flight'[j].id
          PROVE  i = j
      <3>1. \A k \in DOMAIN flight : flight'[k].id \in 1 .. count
        BY <1>5, <1>7
      <3>2. flight'[n].id = count + 1 /\ count + 1 \notin 1 .. count
        BY <1>4, <1>5, <1>7
      <3> QED BY <1>5, <1>6, <1>7, <2>3, <3>1, <3>2
    <2> QED BY <2>1, <2>2, <2>3 DEF FlightNumbered
  <1>9. Gone \subseteq Gone'
    <2>1. Waiting' = Waiting \cup {count + 1}
      <3>1. \A y : y \in Waiting' <=> \E i \in DOMAIN flight' : y = flight'[i].id
        BY DEF Waiting
      <3>2. \A y : y \in Waiting <=> \E i \in DOMAIN flight : y = flight[i].id
        BY DEF Waiting
      <3> QED BY <1>4, <1>5, <1>6, <3>1, <3>2
    <2>2. \A y \in 1 .. count : y \in 1 .. count' /\ y # count + 1
      BY <1>3, <1>7
    <2> QED BY <2>1, <2>2 DEF Gone
  <1>10. DaemonAware(Daemon', Gone')
    BY <1>1, <1>3, <1>9, AwareMore
  <1> QED BY <1>8, <1>10 DEF FoundInv

LEMMA ProcessAware ==
    ASSUME IInv, FoundInv, NEW ring, Process(ring)
    PROVE  FoundInv'
  <1>1. /\ DaemonOK(Daemon) /\ FlightOK /\ IsSeq(flight)
        /\ FlightNumbered /\ DaemonAware(Daemon, Gone)
    BY DEF IInv, HostOK, FlightOK, FoundInv
  <1>2. ASSUME NEW d, NEW S, Becomes(d), DaemonAware(d, S)
        PROVE  DaemonAware(Daemon', S)
    <2> DEFINE e == [pending |-> d.pending, total |-> d.total, prompts |-> d.prompts,
                     capi |-> d.capi, seen |-> d.seen]
    <2>1. Daemon' = e
      BY <1>2 DEF Becomes, Daemon
    <2>2. e.prompts = d.prompts /\ e.capi = d.capi /\ e.seen = d.seen
      OBVIOUS
    <2> HIDE DEF e
    <2> QED BY <1>2, <2>1, <2>2, SameAware
  <1>3. PICK i \in DOMAIN flight :
           /\ flight' = RemoveAt(flight, i)
           /\ Becomes(CASE flight[i].kind = "say" ->
                             IF flight[i].pid \in bound
                             THEN TakePrompt(Daemon, flight[i].pid, flight[i])
                             ELSE QueuePendingPrompt(Daemon, flight[i].pid, flight[i])
                        [] flight[i].kind # "say" /\ flight[i].pid \in bound' ->
                             Observe(Daemon, flight[i])
                        [] OTHER -> EvictPendingPrompts(Daemon, flight[i].ts))
    BY Zenon DEF Process
  <1>4. count' = count
    BY DEF Process, host_vars
  <1> DEFINE ev == flight[i]
             d == Daemon
             D == CASE ev.kind = "say" -> IF ev.pid \in bound THEN TakePrompt(d, ev.pid, ev)
                                          ELSE QueuePendingPrompt(d, ev.pid, ev)
                    [] ev.kind # "say" /\ ev.pid \in bound' -> Observe(d, ev)
                    [] OTHER -> EvictPendingPrompts(d, ev.ts)
             S == Gone
             T == S \cup {ev.id}
             left == RemoveAt(flight, i)
  <1>5. /\ IsEvent(ev) /\ ev.ts \in Nat /\ IsText(ev.text)
    BY <1>1 DEF FlightOK, IsEvent
  <1>6. /\ \A k \in DOMAIN left : \E o \in DOMAIN flight \ {i} : left[k] = flight[o]
        /\ \A k, m \in DOMAIN left : left[k].id = left[m].id => k = m
    <2>1. /\ DOMAIN left \subseteq Nat /\ i \in Nat
          /\ \A k \in DOMAIN left :
                LET o == IF k < i THEN k ELSE k + 1
                IN  o \in DOMAIN flight \ {i} /\ left[k] = flight[o]
      BY <1>1, SeqFacts, RemoveAtFacts
    <2> HIDE DEF left
    <2>2. \A k \in DOMAIN left : \E o \in DOMAIN flight \ {i} : left[k] = flight[o]
      BY <2>1
    <2>3. ASSUME NEW k \in DOMAIN left, NEW m \in DOMAIN left, left[k].id = left[m].id
          PROVE  k = m
      <3> DEFINE a == IF k < i THEN k ELSE k + 1
                 b == IF m < i THEN m ELSE m + 1
      <3>1. a \in DOMAIN flight /\ b \in DOMAIN flight /\ left[k] = flight[a] /\ left[m] = flight[b]
        BY <2>1
      <3>2. a = b => k = m
        BY <2>1
      <3> HIDE DEF a, b
      <3> QED BY <1>1, <2>3, <3>1, <3>2 DEF FlightNumbered
    <2> QED BY <2>2, <2>3
  <1>7. flight' = left
    BY <1>3
  <1> HIDE DEF left
  <1>8. FlightNumbered'
    <2>1. \A k \in DOMAIN left : left[k].id \in 1 .. count
      BY <1>1, <1>6 DEF FlightNumbered
    <2> QED BY <1>1, <1>4, <1>6, <1>7, <2>1 DEF FlightNumbered
  <1>9. ev.id \notin S /\ T \subseteq Gone'
    <2>1. ev.id \in Waiting /\ ev.id \in 1 .. count
      BY <1>1 DEF Waiting, FlightNumbered
    <2>2. ASSUME NEW y \in Waiting'
          PROVE  y \in Waiting /\ y # ev.id
      <3>1. PICK k \in DOMAIN left : y = left[k].id
        BY <1>7 DEF Waiting
      <3>2. PICK o \in DOMAIN flight \ {i} : left[k] = flight[o]
        BY <1>6
      <3>3. y = flight[o].id /\ o # i
        BY <3>1, <3>2
      <3> QED BY <1>1, <3>2, <3>3 DEF Waiting, FlightNumbered
    <2> HIDE DEF ev
    <2> QED BY <1>4, <2>1, <2>2 DEF Gone
  <1>10. Becomes(D)
    BY <1>3, Zenon
  <1> HIDE DEF ev
  <1>11. DaemonOK(d) /\ DaemonAware(d, S) /\ DOMAIN d = DaemonFields
    BY <1>1 DEF DaemonOK
  <1> HIDE DEF d, S
  <1>12. DaemonAware(TakePrompt(d, ev.pid, ev), S)
    BY <1>5, <1>11, TakePromptAware
  <1>13. DaemonAware(QueuePendingPrompt(d, ev.pid, ev), S)
    BY <1>11, QueueAware
  <1>14. DaemonAware(EvictPendingPrompts(d, ev.ts), S)
    BY <1>11, EvictPendingAware
  <1>15. ev.kind # "say" => DaemonAware(Observe(d, ev), T)
    BY <1>5, <1>9, <1>11, ObserveAware
  <1>16. \A e : DaemonAware(e, S) => DaemonAware(e, T)
    BY AwareMore
  <1> HIDE DEF T
  <1>17. DaemonAware(D, T)
    <2>1. CASE ev.kind = "say"
      BY <1>12, <1>13, <1>16, <2>1
    <2>2. CASE ev.kind # "say" /\ ev.pid \in bound'
      BY <1>15, <2>2
    <2>3. CASE ev.kind # "say" /\ ~(ev.pid \in bound')
      BY <1>14, <1>16, <2>3
    <2> QED BY <2>1, <2>2, <2>3
  <1> HIDE DEF D
  <1>18. DaemonAware(Daemon', T)
    BY <1>2, <1>10, <1>17
  <1>19. DaemonAware(Daemon', Gone')
    BY <1>9, <1>18, AwareMore
  <1> QED BY <1>8, <1>19 DEF FoundInv

LEMMA StepAware ==
    ASSUME IInv, FoundInv, [Next]_vars
    PROVE  FoundInv'
  <1>1. CASE \E call \in scenario.calls, gap \in scenario.gaps : Call(call, gap)
    BY <1>1, CallAware
  <1>2. CASE \E ring \in {"proc", "fs", "tls"} : Process(ring)
    BY <1>2, ProcessAware
  <1>3. CASE UNCHANGED vars
    <2>1. /\ UNCHANGED <<count, flight, seen>>
          /\ UNCHANGED <<pending, pending_total, prompts, capi>>
      BY <1>3 DEF vars, host_vars, daemon_vars
    <2>2. Daemon' = Daemon /\ Gone' = Gone
      BY <2>1 DEF Daemon, Gone, Waiting
    <2>3. FlightNumbered'
      BY <2>1 DEF FoundInv, FlightNumbered
    <2> QED BY <2>2, <2>3 DEF FoundInv
  <1> QED BY <1>1, <1>2, <1>3 DEF Next

LEMMA FoundIsFound ==
    ASSUME FoundInv
    PROVE  InjectionsAreFound
  <1>1. Found(seen) /\ DOMAIN seen = 1 .. Len(seen)
    <2>1. DaemonAware(Daemon, Gone) /\ Daemon.seen = seen
      BY DEF FoundInv, Daemon
    <2> QED BY <2>1, SeqFacts DEF DaemonAware, Timed
  <1> SUFFICES ASSUME NEW w \in DOMAIN seen, NEW r \in DOMAIN seen, NEW p \in DOMAIN seen,
                      HandedOver(seen, w, r), SaidAgain(seen, r, p), StillKnown(seen, r, p),
                      Last(seen).kind = "shell", Last(seen).session = seen[r].session,
                      seen[p].ts <= Last(seen).ts
               PROVE  \E chain \in ChainsNow :
                         /\ chain.downstream = seen[r].session
                         /\ Norm(chain.artifact.text) = Norm(seen[p].text)
    BY DEF InjectionsAreFound
  <1>2. seen # <<>>
    OBVIOUS
  <1>3. ChainsNow = Range(Last(seen).chains)
    BY <1>2 DEF ChainsNow
  <1>4. \E chain \in Range(Last(seen).chains) : Tells(chain, seen[r].session, seen[p].text)
    BY <1>1, <1>2 DEF Found
  <1> QED BY <1>3, <1>4 DEF Tells

\* Each event is processed once, and what the daemon keeps of what it processed
\* is enough for the injections it has not been made to forget (process_owned_event
\* and the stores it feeds).
THEOREM AwarenessInvariant == Spec => [](IInv /\ FoundInv)
  <1>1. Init => IInv /\ FoundInv
    BY InitWorks, InitAware
  <1>2. IInv /\ FoundInv /\ [Next]_vars => IInv' /\ FoundInv'
    BY StepKeepsInvariant, StepAware
  <1> QED BY <1>1, <1>2, PTL DEF Spec

\* A session that prompts what it read in another's file and then runs a shell is
\* found out: a chain of that event quotes what was said (observe_file_event,
\* observe_prompt, chains_for_risky_event).
THEOREM InjectionsGetFound == Spec => []InjectionsAreFound
  <1>1. FoundInv => InjectionsAreFound
    BY FoundIsFound
  <1> QED BY <1>1, AwarenessInvariant, PTL
=============================================================================
