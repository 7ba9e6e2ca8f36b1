-------------------------- MODULE BoundedMapProofs --------------------------
(***************************************************************************)
(* Theorems about BoundedMap, for any keys, values and capacity and any    *)
(* width of the counter: the two indexes never disagree and the capacity   *)
(* holds, through every wrap; and until the first wrap each operation is   *)
(* one of the age-ordered map.                                             *)
(*                                                                         *)
(* What makes it inductive: every number in use is below the counter, but  *)
(* for the one that was given out at the wrap, the last there is.          *)
(***************************************************************************)
EXTENDS BoundedMap, FiniteSetTheorems, WellFoundedInduction, TLAPS

Agree(es, os) ==
    /\ \A key \in DOMAIN es : es[key].seq \in DOMAIN os /\ os[es[key].seq] = key
    /\ \A s \in DOMAIN os : os[s] \in DOMAIN es /\ es[os[s]].seq = s

\* Two indexes of the same entries.
Sound(es, os) ==
    /\ IsMap(es, Keys, Entry)
    /\ IsMap(os, Seqs, Keys)
    /\ Agree(es, os)
    /\ IsFiniteSet(DOMAIN es)

NumbersAreUsed == \A s \in DOMAIN order : s < next_seq \/ (wrapped /\ s = SeqLimit - 1)

Inv ==
    /\ Sound(entries, order)
    /\ next_seq \in Seqs
    /\ wrapped \in BOOLEAN
    /\ NumbersAreUsed
    /\ Cardinality(DOMAIN entries) <= Capacity
-----------------------------------------------------------------------------
(* Counting.                                                               *)

LEMMA Least ==
    ASSUME NEW S \in SUBSET Nat, S # {}
    PROVE  \E s \in S : \A t \in S : s <= t
  <1> DEFINE R == OpToRel(<, Nat)
  <1>1. IsWellFoundedOn(R, Nat)
    BY NatLessThanWellFounded
  <1>2. \A x, y \in Nat : <<x, y>> \in R <=> x < y
    BY DEF OpToRel
  <1> HIDE DEF R
  <1>3. PICK s \in S : \A t \in S : <<t, s>> \notin R
    BY <1>1, WFMin
  <1>4. \A t \in S : ~(t < s)
    BY <1>2, <1>3
  <1> QED BY <1>4

\* Ranks count the numbers in use below one: they keep the order, and a set of
\* n numbers has ranks below n.
LEMMA Ranks ==
    ASSUME NEW os, IsFiniteSet(DOMAIN os), DOMAIN os \subseteq Nat
    PROVE  /\ Cardinality(DOMAIN os) \in Nat
           /\ \A s \in DOMAIN os : Rank(os, s) \in Nat /\ Rank(os, s) < Cardinality(DOMAIN os)
           /\ \A s, t \in DOMAIN os : s < t => Rank(os, s) < Rank(os, t)
  <1> DEFINE Below(s) == {t \in DOMAIN os : t < s}
  <1>1. \A s : IsFiniteSet(Below(s)) /\ Cardinality(Below(s)) \in Nat
    BY FS_Subset, FS_CardinalityType
  <1>2. \A s \in DOMAIN os : s \notin Below(s)
    OBVIOUS
  <1>3. ASSUME NEW s \in DOMAIN os, NEW S, IsFiniteSet(S), Below(s) \cup {s} \subseteq S
        PROVE  Cardinality(Below(s)) < Cardinality(S)
    <2>1. Cardinality(Below(s) \cup {s}) = Cardinality(Below(s)) + 1
      BY <1>1, <1>2, FS_AddElement
    <2>2. Cardinality(Below(s) \cup {s}) <= Cardinality(S) /\ Cardinality(S) \in Nat
      BY <1>3, FS_Subset, FS_CardinalityType
    <2> HIDE DEF Below
    <2> QED BY <1>1, <2>1, <2>2
  <1>4. \A s, t \in DOMAIN os : s < t => Below(s) \cup {s} \subseteq Below(t)
    OBVIOUS
  <1>5. \A s \in DOMAIN os : Below(s) \cup {s} \subseteq DOMAIN os
    OBVIOUS
  <1>6. Cardinality(DOMAIN os) \in Nat
    BY FS_CardinalityType
  <1>7. \A s : Rank(os, s) = Cardinality(Below(s))
    BY DEF Rank
  <1> HIDE DEF Below
  <1> QED BY <1>1, <1>3, <1>4, <1>5, <1>6, <1>7
-----------------------------------------------------------------------------
(* The edits of the two indexes.                                           *)

LEMMA SoundFinite ==
    ASSUME NEW es, NEW os, Sound(es, os)
    PROVE  /\ IsFiniteSet(DOMAIN os)
           /\ Cardinality(DOMAIN os) <= Cardinality(DOMAIN es)
           /\ DOMAIN os \subseteq Nat
  <1> DEFINE f == [s \in DOMAIN os |-> os[s]]
  <1>1. \A s \in DOMAIN os : os[s] \in DOMAIN es /\ es[os[s]].seq = s
    BY DEF Sound, Agree
  <1>2. f \in Injection(DOMAIN os, DOMAIN es)
    BY <1>1 DEF Injection, IsInjective
  <1>3. DOMAIN os \subseteq Nat
    BY CapacityAssumption DEF Sound, IsMap, Seqs
  <1> QED BY <1>2, <1>3, FS_Injection DEF Sound

\* Removing an entry from both indexes.
LEMMA RemoveIsSound ==
    ASSUME NEW es, NEW os, Sound(es, os), NEW key
    PROVE  /\ Sound(Without(es, key), OrderWithout(es, os, key))
           /\ DOMAIN Without(es, key) = DOMAIN es \ {key}
           /\ DOMAIN OrderWithout(es, os, key) \subseteq DOMAIN os
  <1> DEFINE e == Without(es, key)
             o == OrderWithout(es, os, key)
  <1>1. DOMAIN e = DOMAIN es \ {key} /\ \A k \in DOMAIN e : e[k] = es[k]
    BY DEF Without, Keep
  <1>2. /\ DOMAIN o = {s \in DOMAIN os : os[s] # key}
        /\ \A s \in DOMAIN o : o[s] = os[s]
    BY DEF Sound, Agree, OrderWithout, Without, Keep
  <1>3. IsFiniteSet(DOMAIN e)
    BY <1>1, FS_RemoveElement DEF Sound
  <1>4. IsMap(e, Keys, Entry) /\ IsMap(o, Seqs, Keys)
    BY DEF Sound, IsMap, OrderWithout, Without, Keep
  <1> HIDE DEF e, o
  <1>5. Agree(e, o)
    BY <1>1, <1>2 DEF Sound, Agree
  <1> QED BY <1>1, <1>2, <1>3, <1>4, <1>5 DEF Sound, e, o

\* Adding one to both, under a key and a number neither has.
LEMMA PutIsSound ==
    ASSUME NEW es, NEW os, Sound(es, os), NEW key \in Keys, key \notin DOMAIN es,
           NEW seq \in Seqs, seq \notin DOMAIN os, NEW value \in Values
    PROVE  Sound(Put(es, key, [value |-> value, seq |-> seq]), Put(os, seq, key))
  <1> DEFINE new == [value |-> value, seq |-> seq]
             e == Put(es, key, new)
             o == Put(os, seq, key)
  <1>1. /\ DOMAIN e = DOMAIN es \cup {key} /\ e[key] = new
        /\ \A k \in DOMAIN es : e[k] = es[k]
    BY DEF Put
  <1>2. /\ DOMAIN o = DOMAIN os \cup {seq} /\ o[seq] = key
        /\ \A s \in DOMAIN os : o[s] = os[s]
    BY DEF Put
  <1>3. new \in Entry /\ new.seq = seq
    BY DEF Entry
  <1> HIDE DEF new
  <1>4. IsFiniteSet(DOMAIN e)
    BY <1>1, FS_AddElement DEF Sound
  <1>5. IsMap(e, Keys, Entry) /\ IsMap(o, Seqs, Keys)
    BY <1>3 DEF Sound, IsMap, Put
  <1> HIDE DEF e, o
  <1>6. Agree(e, o)
    BY <1>1, <1>2, <1>3 DEF Sound, Agree
  <1> QED BY <1>4, <1>5, <1>6 DEF Sound, e, o, new

\* Dropping from both what some numbers stand for.
LEMMA DropIsSound ==
    ASSUME NEW es, NEW os, Sound(es, os), NEW gone \in SUBSET DOMAIN os
    PROVE  Sound(Keep(es, DOMAIN es \ {os[s] : s \in gone}), Keep(os, DOMAIN os \ gone))
  <1> DEFINE e == Keep(es, DOMAIN es \ {os[s] : s \in gone})
             o == Keep(os, DOMAIN os \ gone)
  <1>1. /\ DOMAIN e = {k \in DOMAIN es : es[k].seq \notin gone}
        /\ \A k \in DOMAIN e : e[k] = es[k]
    BY DEF Sound, Agree, Keep
  <1>2. DOMAIN o = DOMAIN os \ gone /\ \A s \in DOMAIN o : o[s] = os[s]
    BY DEF Keep
  <1>3. IsFiniteSet(DOMAIN e)
    BY <1>1, FS_Subset DEF Sound
  <1>4. IsMap(e, Keys, Entry) /\ IsMap(o, Seqs, Keys)
    BY DEF Sound, IsMap, Keep
  <1> HIDE DEF e, o
  <1>5. Agree(e, o)
    BY <1>1, <1>2 DEF Sound, Agree
  <1> QED BY <1>3, <1>4, <1>5 DEF Sound, e, o

\* resequence: numbering the entries by their ranks keeps the indexes in step,
\* and leaves the numbers from their count on free.
LEMMA ResequenceIsSound ==
    ASSUME NEW es, NEW os, Sound(es, os), Cardinality(DOMAIN es) < SeqLimit
    PROVE  /\ Sound(RankedEntries(es, os), RankedOrder(os))
           /\ DOMAIN RankedEntries(es, os) = DOMAIN es
           /\ \A r \in DOMAIN RankedOrder(os) : r < Cardinality(DOMAIN os)
  <1> DEFINE e == RankedEntries(es, os)
             o == RankedOrder(os)
             n == Cardinality(DOMAIN os)
  <1>1. IsFiniteSet(DOMAIN os) /\ n <= Cardinality(DOMAIN es) /\ DOMAIN os \subseteq Nat
    BY SoundFinite
  <1>2. Cardinality(DOMAIN es) \in Nat
    BY FS_CardinalityType DEF Sound
  <1>3. /\ n \in Nat
        /\ \A s \in DOMAIN os : Rank(os, s) \in Nat /\ Rank(os, s) < n
        /\ \A s, t \in DOMAIN os : s < t => Rank(os, s) < Rank(os, t)
    BY <1>1, Ranks
  <1> HIDE DEF n
  <1>4. \A s \in DOMAIN os : Rank(os, s) \in Seqs
    BY <1>1, <1>2, <1>3, CapacityAssumption DEF Seqs
  <1>5. \A s, t \in DOMAIN os : Rank(os, s) = Rank(os, t) => s = t
    <2> SUFFICES ASSUME NEW s \in DOMAIN os, NEW t \in DOMAIN os, s # t
                 PROVE  Rank(os, s) # Rank(os, t)
      OBVIOUS
    <2>1. s < t \/ t < s
      BY <1>1
    <2> QED BY <1>3, <2>1
  <1>6. /\ DOMAIN o = {Rank(os, s) : s \in DOMAIN os}
        /\ \A s \in DOMAIN os : o[Rank(os, s)] = os[s]
    BY <1>5 DEF RankedOrder
  <1>7. \A k \in DOMAIN es : es[k] \in Entry /\ es[k].seq \in DOMAIN os /\ os[es[k].seq] = k
    BY DEF Sound, IsMap, Agree
  <1>8. /\ DOMAIN e = DOMAIN es
        /\ \A k \in DOMAIN es : e[k] = [es[k] EXCEPT !.seq = Rank(os, es[k].seq)]
    BY DEF RankedEntries
  <1>9. \A k \in DOMAIN es : e[k] \in Entry /\ e[k].seq = Rank(os, es[k].seq)
    <2> SUFFICES ASSUME NEW k \in DOMAIN es
                 PROVE  e[k] \in Entry /\ e[k].seq = Rank(os, es[k].seq)
      OBVIOUS
    <2>1. Rank(os, es[k].seq) \in Seqs
      BY <1>4, <1>7
    <2> HIDE DEF e
    <2> QED BY <1>7, <1>8, <2>1 DEF Entry
  <1>10. IsMap(e, Keys, Entry)
    <2>1. e = [k \in DOMAIN e |-> e[k]]
      BY DEF RankedEntries
    <2> HIDE DEF e
    <2> QED BY <1>8, <1>9, <2>1 DEF Sound, IsMap
  <1>11. IsMap(o, Seqs, Keys)
    <2>1. o = [r \in DOMAIN o |-> o[r]]
      BY DEF RankedOrder
    <2>2. \A s \in DOMAIN os : os[s] \in Keys
      BY DEF Sound, IsMap
    <2> HIDE DEF o
    <2> QED BY <1>4, <1>6, <2>1, <2>2 DEF IsMap
  <1> HIDE DEF e, o
  <1>12. Agree(e, o)
    <2>1. \A s \in DOMAIN os : os[s] \in DOMAIN es /\ es[os[s]].seq = s
      BY DEF Sound, Agree
    <2>2. \A k \in DOMAIN e : e[k].seq \in DOMAIN o /\ o[e[k].seq] = k
      BY <1>6, <1>7, <1>8, <1>9
    <2>3. \A r \in DOMAIN o : o[r] \in DOMAIN e /\ e[o[r]].seq = r
      BY <1>6, <1>8, <1>9, <2>1
    <2> QED BY <2>2, <2>3 DEF Agree
  <1>13. Sound(e, o)
    BY <1>8, <1>10, <1>11, <1>12 DEF Sound
  <1>14. \A r \in DOMAIN o : r < n
    BY <1>3, <1>6
  <1> QED BY <1>8, <1>13, <1>14 DEF e, o, n
-----------------------------------------------------------------------------
(* The operations.                                                         *)

\* What insert does before it evicts.
Wraps == (next_seq + 1) % SeqLimit = 0
Others(key) == Without(entries, key)
OthersOrder(key) == OrderWithout(entries, order, key)
Grown(key, value) ==
    Put(IF Wraps THEN RankedEntries(Others(key), OthersOrder(key)) ELSE Others(key),
        key, [value |-> value, seq |-> next_seq])
GrownOrder(key) ==
    Put(IF Wraps THEN RankedOrder(OthersOrder(key)) ELSE OthersOrder(key), next_seq, key)

LEMMA WrapsAtTheEnd ==
    ASSUME next_seq \in Seqs
    PROVE  Wraps <=> next_seq = SeqLimit - 1
  <1>1. SeqLimit \in Nat /\ SeqLimit > 0 /\ next_seq \in 0 .. SeqLimit - 1
    BY CapacityAssumption DEF Seqs
  <1>2. CASE next_seq = SeqLimit - 1
    <2>1. next_seq + 1 = SeqLimit
      BY <1>1, <1>2
    <2>2. SeqLimit % SeqLimit = 0
      BY <1>1
    <2> QED BY <1>2, <2>1, <2>2 DEF Wraps
  <1>3. CASE next_seq # SeqLimit - 1
    <2>1. next_seq + 1 \in Nat /\ 0 < next_seq + 1 /\ next_seq + 1 < SeqLimit
      BY <1>1, <1>3
    <2>2. (next_seq + 1) % SeqLimit = next_seq + 1
      BY <1>1, <2>1
    <2> QED BY <1>3, <2>1, <2>2 DEF Wraps
  <1> QED BY <1>2, <1>3

\* The grown indexes are sound, hold one entry more at most, and their numbers
\* are below the counter but for the one that ends it.
LEMMA GrownIsSound ==
    ASSUME Inv, NEW key \in Keys, NEW value \in Values
    PROVE  /\ Sound(Grown(key, value), GrownOrder(key))
           /\ DOMAIN Grown(key, value) = DOMAIN entries \cup {key}
           /\ Cardinality(DOMAIN Grown(key, value)) <= Capacity + 1
           /\ NextSeq(OthersOrder(key)) \in Seqs
           /\ \A s \in DOMAIN GrownOrder(key) :
                 \/ s < NextSeq(OthersOrder(key))
                 \/ (wrapped \/ Wraps) /\ s = SeqLimit - 1
  <1> DEFINE es0 == Others(key)
             os0 == OthersOrder(key)
             es1 == IF Wraps THEN RankedEntries(es0, os0) ELSE es0
             os1 == IF Wraps THEN RankedOrder(os0) ELSE os0
             next == NextSeq(os0)
  <1>1. /\ Sound(es0, os0)
        /\ DOMAIN es0 = DOMAIN entries \ {key}
        /\ DOMAIN os0 \subseteq DOMAIN order
    BY RemoveIsSound DEF Inv, Others, OthersOrder
  <1>2. /\ IsFiniteSet(DOMAIN entries)
        /\ Cardinality(DOMAIN entries) \in Nat
        /\ Cardinality(DOMAIN entries) <= Capacity
    BY FS_CardinalityType DEF Inv, Sound
  <1>3. /\ Cardinality(DOMAIN es0) \in Nat
        /\ Cardinality(DOMAIN es0) <= Capacity
        /\ Cardinality(DOMAIN entries \cup {key}) <= Capacity + 1
    <2>1. /\ Cardinality(DOMAIN es0) \in Nat
          /\ Cardinality(DOMAIN es0) <= Cardinality(DOMAIN entries)
      <3> HIDE DEF es0
      <3> QED BY <1>1, <1>2, FS_Subset, FS_CardinalityType
    <2>2. Cardinality(DOMAIN entries \cup {key}) <= Cardinality(DOMAIN entries) + 1
      <3>1. Cardinality(DOMAIN entries \cup {key})
               = IF key \in DOMAIN entries THEN Cardinality(DOMAIN entries)
                                           ELSE Cardinality(DOMAIN entries) + 1
        BY <1>2, FS_AddElement
      <3> QED BY <1>2, <3>1
    <2>3. Cardinality(DOMAIN entries \cup {key}) \in Nat
      BY <1>2, FS_AddElement, FS_CardinalityType
    <2> HIDE DEF es0
    <2> QED BY <1>2, <2>1, <2>2, <2>3, CapacityAssumption
  <1>4. /\ Capacity \in Nat /\ SeqLimit \in Nat /\ Capacity < SeqLimit
        /\ next_seq \in Nat /\ next_seq <= SeqLimit - 1
    BY CapacityAssumption DEF Inv, Seqs
  <1>5. /\ Cardinality(DOMAIN os0) \in Nat
        /\ Cardinality(DOMAIN os0) <= Capacity
    BY <1>1, <1>3, <1>4, SoundFinite, FS_CardinalityType
  <1>6. Cardinality(DOMAIN es0) < SeqLimit
    BY <1>3, <1>4
  <1>7. \A s \in DOMAIN os0 : s \in Nat /\ (s < next_seq \/ (wrapped /\ s = SeqLimit - 1))
    BY <1>1, SoundFinite DEF Inv, NumbersAreUsed
  <1>8. Wraps <=> next_seq = SeqLimit - 1
    BY WrapsAtTheEnd DEF Inv
  <1> HIDE DEF es0, os0
  <1>9. /\ Sound(es1, os1)
        /\ DOMAIN es1 = DOMAIN entries \ {key}
        /\ Wraps => \A r \in DOMAIN os1 : r < Cardinality(DOMAIN os0)
    BY <1>1, <1>6, ResequenceIsSound
  <1>10. next = IF Wraps THEN Cardinality(DOMAIN os0) ELSE next_seq + 1
    BY DEF NextSeq, Wraps
  <1>11. \A s \in DOMAIN os1 : s \in Nat
    BY <1>9, SoundFinite
  <1> HIDE DEF es1, next
  <1>12. next_seq \notin DOMAIN os1
    <2>1. CASE Wraps
      BY <1>4, <1>5, <1>8, <1>9, <1>11, <2>1
    <2>2. CASE ~Wraps
      BY <1>4, <1>7, <1>8, <2>2
    <2> QED BY <2>1, <2>2
  <1>13. next \in Seqs
    BY <1>4, <1>5, <1>8, <1>10 DEF Seqs
  <1>14. \A s \in DOMAIN os1 \cup {next_seq} :
            s < next \/ ((wrapped \/ Wraps) /\ s = SeqLimit - 1)
    <2>1. CASE Wraps
      BY <1>8, <1>9, <1>10, <2>1
    <2>2. CASE ~Wraps
      BY <1>4, <1>7, <1>10, <2>2
    <2> QED BY <2>1, <2>2
  <1> HIDE DEF os1
  <1>15. Grown(key, value) = Put(es1, key, [value |-> value, seq |-> next_seq])
    BY DEF Grown, es1, es0, os0
  <1>16. GrownOrder(key) = Put(os1, next_seq, key)
    BY DEF GrownOrder, os1, os0
  <1>17. Sound(Grown(key, value), GrownOrder(key))
    BY <1>9, <1>12, <1>15, <1>16, PutIsSound DEF Inv
  <1>18. DOMAIN Grown(key, value) = DOMAIN entries \cup {key}
    BY <1>9, <1>15 DEF Put
  <1>19. DOMAIN GrownOrder(key) = DOMAIN os1 \cup {next_seq}
    BY <1>16 DEF Put
  <1> QED BY <1>3, <1>13, <1>14, <1>17, <1>18, <1>19 DEF next, os0

\* evict_over_capacity gives up the entry with the least number.
LEMMA EvictionWorks ==
    ASSUME NEW es, NEW os, Sound(es, os), Cardinality(DOMAIN es) <= Capacity + 1
    PROVE  /\ Victims(es, os) \subseteq DOMAIN os
           /\ Cardinality(DOMAIN es \ {os[s] : s \in Victims(es, os)}) <= Capacity
  <1> DEFINE gone == Victims(es, os)
             n == Cardinality(DOMAIN es)
  <1>1. /\ n \in Nat /\ Capacity \in Nat
        /\ IsFiniteSet(DOMAIN es)
        /\ DOMAIN os \subseteq Nat
    BY CapacityAssumption, FS_CardinalityType, SoundFinite DEF Sound
  <1>2. gone \subseteq DOMAIN os
    BY DEF Victims
  <1>3. CASE n > Capacity
    <2>1. DOMAIN es # {}
      BY <1>1, <1>3, FS_EmptySet
    <2>2. DOMAIN os # {}
      BY <2>1 DEF Sound, Agree
    <2>3. PICK s \in DOMAIN os : \A t \in DOMAIN os : s <= t
      BY <1>1, <2>2, Least
    <2>4. gone = {s}
      BY <1>1, <1>3, <2>3 DEF Victims
    <2>5. os[s] \in DOMAIN es
      BY <2>3 DEF Sound, Agree
    <2>6. {os[t] : t \in gone} = {os[s]}
      BY <2>4
    <2>7. Cardinality(DOMAIN es \ {os[s]}) = n - 1
      BY <1>1, <2>5, FS_RemoveElement
    <2> HIDE DEF gone, n
    <2>8. n - 1 <= Capacity
      BY <1>1 DEF n
    <2> QED BY <1>2, <2>6, <2>7, <2>8 DEF gone
  <1>4. CASE ~(n > Capacity)
    <2>1. gone = {} /\ DOMAIN es \ {os[s] : s \in gone} = DOMAIN es
      BY <1>4 DEF Victims
    <2> QED BY <1>1, <1>2, <1>4, <2>1
  <1> QED BY <1>3, <1>4

LEMMA InsertKeepsInv ==
    ASSUME Inv, NEW key \in Keys, NEW value \in Values, Insert(key, value)
    PROVE  Inv'
  <1> DEFINE es == Grown(key, value)
             os == GrownOrder(key)
             gone == Victims(es, os)
  <1>1. /\ entries' = Keep(es, DOMAIN es \ {os[s] : s \in gone})
        /\ order' = Keep(os, DOMAIN os \ gone)
        /\ next_seq' = NextSeq(OthersOrder(key))
        /\ wrapped' = (wrapped \/ Wraps)
    BY DEF Insert, Grown, GrownOrder, Others, OthersOrder, Wraps
  <1>2. /\ Sound(es, os)
        /\ Cardinality(DOMAIN es) <= Capacity + 1
        /\ NextSeq(OthersOrder(key)) \in Seqs
        /\ \A s \in DOMAIN os :
              \/ s < NextSeq(OthersOrder(key))
              \/ (wrapped \/ Wraps) /\ s = SeqLimit - 1
    BY GrownIsSound
  <1> HIDE DEF es, os
  <1>3. gone \subseteq DOMAIN os /\ Cardinality(DOMAIN es \ {os[s] : s \in gone}) <= Capacity
    BY <1>2, EvictionWorks
  <1> HIDE DEF gone
  <1>4. Sound(entries', order')
    BY <1>1, <1>2, <1>3, DropIsSound
  <1>5. DOMAIN entries' = DOMAIN es \ {os[s] : s \in gone} /\ DOMAIN order' \subseteq DOMAIN os
    BY <1>1 DEF Keep
  <1>6. wrapped' \in BOOLEAN
    BY <1>1 DEF Inv
  <1> QED BY <1>1, <1>2, <1>3, <1>4, <1>5, <1>6 DEF Inv, NumbersAreUsed, Sound, Agree

LEMMA RetainKeepsInv ==
    ASSUME Inv, NEW keep, Retain(keep)
    PROVE  Inv'
  <1> DEFINE gone == {entries[key].seq : key \in DOMAIN entries \ keep}
  <1>1. gone \subseteq DOMAIN order
    BY DEF Inv, Sound, Agree
  <1>2. DOMAIN entries \ {order[s] : s \in gone} = DOMAIN entries \cap keep
    BY DEF Inv, Sound, Agree
  <1>3. /\ entries' = Keep(entries, DOMAIN entries \ {order[s] : s \in gone})
        /\ order' = Keep(order, DOMAIN order \ gone)
        /\ UNCHANGED <<next_seq, wrapped>>
    BY <1>2 DEF Retain, Keep
  <1> HIDE DEF gone
  <1>4. Sound(entries', order')
    BY <1>1, <1>3, DropIsSound DEF Inv
  <1>5. DOMAIN entries' \subseteq DOMAIN entries /\ DOMAIN order' \subseteq DOMAIN order
    BY <1>3 DEF Keep
  <1>6. Cardinality(DOMAIN entries') <= Capacity
    <2>1. /\ IsFiniteSet(DOMAIN entries) /\ IsFiniteSet(DOMAIN entries')
          /\ Cardinality(DOMAIN entries) <= Capacity
      BY <1>4 DEF Inv, Sound
    <2>2. /\ Cardinality(DOMAIN entries') <= Cardinality(DOMAIN entries)
          /\ Cardinality(DOMAIN entries) \in Nat /\ Cardinality(DOMAIN entries') \in Nat
      BY <1>5, <2>1, FS_Subset, FS_CardinalityType
    <2> QED BY <2>1, <2>2, CapacityAssumption
  <1> QED BY <1>3, <1>4, <1>5, <1>6 DEF Inv, NumbersAreUsed, Sound, Agree

LEMMA UpdateKeepsInv ==
    ASSUME Inv, NEW key, NEW value \in Values, Update(key, value)
    PROVE  Inv'
  <1>1. /\ key \in DOMAIN entries
        /\ entries' = [entries EXCEPT ![key].value = value]
        /\ UNCHANGED <<order, next_seq, wrapped>>
    BY DEF Update
  <1>2. /\ DOMAIN entries' = DOMAIN entries
        /\ \A k \in DOMAIN entries : entries[k] \in Entry
        /\ entries' = [k \in DOMAIN entries |-> entries'[k]]
    BY <1>1 DEF Inv, Sound, IsMap
  <1>3. \A k \in DOMAIN entries : entries'[k] \in Entry /\ entries'[k].seq = entries[k].seq
    BY <1>1, <1>2 DEF Entry
  <1>4. IsMap(entries', Keys, Entry)
    BY <1>2, <1>3 DEF IsMap, Inv, Sound
  <1>5. Sound(entries', order')
    BY <1>1, <1>2, <1>3, <1>4 DEF Inv, Sound, Agree
  <1> QED BY <1>1, <1>2, <1>5 DEF Inv, NumbersAreUsed, Sound, Agree

LEMMA InvInit == Init => Inv
  <1> SUFFICES ASSUME Init PROVE Inv
    OBVIOUS
  <1>1. DOMAIN entries = {} /\ DOMAIN order = {}
    BY DEF Init, EmptyMap
  <1>2. IsMap(entries, Keys, Entry) /\ IsMap(order, Seqs, Keys)
    BY DEF Init, EmptyMap, IsMap
  <1>3. IsFiniteSet(DOMAIN entries) /\ Cardinality(DOMAIN entries) <= Capacity
    BY <1>1, FS_EmptySet, CapacityAssumption
  <1>4. next_seq \in Seqs
    <2>1. SeqLimit \in Nat /\ SeqLimit > 0
      BY CapacityAssumption
    <2>2. 0 \in 0 .. SeqLimit - 1
      BY <2>1
    <2> QED BY <2>2 DEF Init, Seqs
  <1>5. wrapped \in BOOLEAN
    BY DEF Init
  <1> QED BY <1>1, <1>2, <1>3, <1>4, <1>5 DEF Inv, Sound, Agree, NumbersAreUsed

LEMMA InvNext ==
    ASSUME Inv, [Next]_vars
    PROVE  Inv'
  <1>1. CASE UNCHANGED vars
    BY <1>1 DEF vars, Inv, Sound, Agree, NumbersAreUsed
  <1> QED BY <1>1, InsertKeepsInv, UpdateKeepsInv, RetainKeepsInv DEF Next

\* The inductive invariant of insert, retain and get_mut: the indexes are inverse
\* to each other, and every number in use is below the counter or the last.
THEOREM MapInvariant == Spec => []Inv
  BY InvInit, InvNext, PTL DEF Spec

\* insert, retain, remove, get_mut and resequence keep the two indexes in step
\* and the map within its capacity, however often the counter wraps.
THEOREM IndexesStayInStep == Spec => []TypeOK
  <1>1. Inv => TypeOK
    BY DEF Inv, Sound, Agree, TypeOK, IndexesAgree
  <1> QED BY <1>1, MapInvariant, PTL
-----------------------------------------------------------------------------
(* The age-ordered map: age is the order of the numbers.                   *)

ValuesOf(es) == [key \in DOMAIN es |-> es[key].value]
ByNumber(es) ==
    {pair \in (DOMAIN es) \X (DOMAIN es) : es[pair[1]].seq < es[pair[2]].seq}

\* The least number in use is the number of the oldest key.
LEMMA LeastIsOldest ==
    ASSUME NEW es, NEW os, Sound(es, os)
    PROVE  {os[s] : s \in {s \in DOMAIN os : \A t \in DOMAIN os : s <= t}}
              = Abstract!Oldest(DOMAIN es, ByNumber(es))
  <1> DEFINE least == {s \in DOMAIN os : \A t \in DOMAIN os : s <= t}
  <1>1. \A key \in DOMAIN es : es[key].seq \in DOMAIN os /\ os[es[key].seq] = key
    BY DEF Sound, Agree
  <1>2. \A s \in DOMAIN os : s \in Nat /\ os[s] \in DOMAIN es /\ es[os[s]].seq = s
    BY SoundFinite DEF Sound, Agree
  <1>3. \A x, y : <<x, y>> \in ByNumber(es)
                     <=> x \in DOMAIN es /\ y \in DOMAIN es /\ es[x].seq < es[y].seq
    BY DEF ByNumber
  <1>4. ASSUME NEW s \in least
        PROVE  os[s] \in Abstract!Oldest(DOMAIN es, ByNumber(es))
    <2>1. \A y \in DOMAIN es \ {os[s]} : es[y].seq # s /\ s <= es[y].seq
      BY <1>1, <1>4
    <2>2. \A y \in DOMAIN es \ {os[s]} : s < es[y].seq
      BY <1>1, <1>2, <1>4, <2>1
    <2> QED BY <1>2, <1>3, <1>4, <2>2 DEF Abstract!Oldest
  <1>5. ASSUME NEW x \in Abstract!Oldest(DOMAIN es, ByNumber(es))
        PROVE  \E s \in least : os[s] = x
    <2>1. x \in DOMAIN es /\ \A y \in DOMAIN es \ {x} : es[x].seq < es[y].seq
      BY <1>3, <1>5 DEF Abstract!Oldest
    <2>2. \A t \in DOMAIN os : es[x].seq <= t
      BY <1>1, <1>2, <2>1
    <2> QED BY <1>1, <2>1, <2>2
  <1> QED BY <1>4, <1>5

LEMMA InsertIsInsert ==
    ASSUME Inv, NEW key \in Keys, NEW value \in Values, Insert(key, value), ~wrapped'
    PROVE  Abstract!Insert(key, value)
  <1> DEFINE es == Grown(key, value)
             os == GrownOrder(key)
             others == DOMAIN entries \ {key}
             present == others \cup {key}
             older == Abstract!Among(others) \cup {<<x, key>> : x \in others}
             gone == {os[s] : s \in Victims(es, os)}
             kept == present \ gone
  <1>1. /\ entries' = Keep(es, DOMAIN es \ gone)
        /\ ~wrapped /\ ~Wraps
    BY DEF Insert, Grown, GrownOrder, Others, OthersOrder, Wraps
  <1>2. Sound(es, os)
    BY GrownIsSound
  <1>3. /\ DOMAIN es = present
        /\ es[key] = [value |-> value, seq |-> next_seq]
        /\ \A x \in others : es[x] = entries[x]
    BY <1>1 DEF Grown, Others, Put, Without, Keep
  <1>4. /\ next_seq \in Nat
        /\ \A x \in others : entries[x].seq \in Nat /\ entries[x].seq < next_seq
    <2>1. \A x \in DOMAIN entries : entries[x].seq \in DOMAIN order
      BY DEF Inv, Sound, Agree
    <2>2. \A s \in DOMAIN order : s \in Nat /\ s < next_seq
      BY <1>1, SoundFinite DEF Inv, NumbersAreUsed
    <2>3. next_seq \in Nat
      BY CapacityAssumption DEF Inv, Seqs
    <2> QED BY <2>1, <2>2, <2>3
  <1> HIDE DEF es, os
  <1>5. older = ByNumber(es)
    <2>1. \A x, y : <<x, y>> \in Abstract!Among(others)
                      <=> x \in others /\ y \in others /\ entries[x].seq < entries[y].seq
      BY DEF Abstract!Among
    <2>2. ASSUME NEW x \in present, NEW y \in present
          PROVE  <<x, y>> \in older <=> es[x].seq < es[y].seq
      <3>1. CASE x \in others /\ y \in others
        BY <1>3, <2>1, <3>1
      <3>2. CASE x \in others /\ y = key
        BY <1>3, <1>4, <3>2
      <3>3. CASE x = key /\ y \in others
        <4>1. ~(es[x].seq < es[y].seq)
          BY <1>3, <1>4, <3>3
        <4>2. <<x, y>> \notin older
          BY <2>1, <3>3
        <4> QED BY <4>1, <4>2
      <3>4. CASE x = key /\ y = key
        BY <1>3, <1>4, <2>1, <3>4
      <3> QED BY <3>1, <3>2, <3>3, <3>4
    <2>3. \A p \in older : p \in present \X present
      BY DEF Abstract!Among
    <2> HIDE DEF older, present
    <2> QED BY <1>3, <2>2, <2>3 DEF ByNumber
  <1>6. gone = IF Cardinality(present) > Capacity
               THEN Abstract!Oldest(present, older) ELSE {}
    BY <1>2, <1>3, <1>5, LeastIsOldest DEF Victims
  <1> HIDE DEF gone, older
  <1>7. DOMAIN entries' = kept /\ \A x \in kept : entries'[x] = es[x]
    BY <1>1, <1>3 DEF Keep
  <1>8. ValuesOf(entries') = Abstract!Keep(Abstract!Put(ValuesOf(entries), key, value), kept)
    BY <1>3, <1>7 DEF ValuesOf, Abstract!Keep, Abstract!Put
  <1>9. ByNumber(entries') = {pair \in older : pair[1] \in kept /\ pair[2] \in kept}
    BY <1>3, <1>5, <1>7 DEF ByNumber
  <1>10. Abstract!Cardinality(present) = Cardinality(present)
    BY DEF Abstract!Cardinality, Cardinality
  <1> DEFINE oldest == IF Abstract!Cardinality(present) > Capacity
                      THEN Abstract!Oldest(present, older) ELSE {}
             left == present \ oldest
  <1>11. left = kept
    BY <1>6, <1>10
  <1> HIDE DEF kept
  <1>12. /\ ValuesOf(entries') = Abstract!Keep(Abstract!Put(ValuesOf(entries), key, value), left)
         /\ ByNumber(entries') = {pair \in older : pair[1] \in left /\ pair[2] \in left}
    <2> HIDE DEF left
    <2> QED BY <1>8, <1>9, <1>11
  <1>13. DOMAIN ValuesOf(entries) = DOMAIN entries
    BY DEF ValuesOf
  <1> QED BY <1>12, <1>13, Zenon DEF Abstract!Insert, ValuesOf, ByNumber, older

LEMMA RetainIsRetain ==
    ASSUME Inv, NEW keep, Retain(keep)
    PROVE  Abstract!Retain(keep)
  <1>1. entries' = Keep(entries, keep)
    BY DEF Retain
  <1>2. ValuesOf(entries') = Abstract!Keep(ValuesOf(entries), keep)
    BY <1>1 DEF ValuesOf, Keep, Abstract!Keep
  <1>3. ByNumber(entries') = Abstract!Among(DOMAIN ValuesOf(entries) \cap keep)
    BY <1>1 DEF ByNumber, ValuesOf, Keep, Abstract!Among
  <1> QED BY <1>2, <1>3 DEF Abstract!Retain, ValuesOf, ByNumber

LEMMA UpdateIsUpdate ==
    ASSUME Inv, NEW key, NEW value \in Values, Update(key, value)
    PROVE  Abstract!Update(key, value)
  <1>1. key \in DOMAIN entries /\ entries' = [entries EXCEPT ![key].value = value]
    BY DEF Update
  <1>2. \A k \in DOMAIN entries : entries[k] \in Entry
    BY DEF Inv, Sound, IsMap
  <1>3. /\ DOMAIN entries' = DOMAIN entries
        /\ \A k \in DOMAIN entries :
              /\ entries'[k].seq = entries[k].seq
              /\ entries'[k].value = IF k = key THEN value ELSE entries[k].value
    BY <1>1, <1>2 DEF Entry
  <1>4. ValuesOf(entries') = [ValuesOf(entries) EXCEPT ![key] = value]
    BY <1>1, <1>3 DEF ValuesOf
  <1>5. ByNumber(entries') = ByNumber(entries)
    BY <1>3 DEF ByNumber
  <1> QED BY <1>1, <1>4, <1>5 DEF Abstract!Update, ValuesOf, ByNumber

\* Until the counter wraps, BoundedMap is the age-ordered map: insert evicts
\* what was inserted longest ago and nothing else, a key inserted again is
\* young again, and get_mut leaves ages alone.
THEOREM RefinesAgeOrder == Spec => EvictsOldestUntilWrap
  <1>1. Init => Abstract!Init
    BY DEF Init, Abstract!Init, EmptyMap, Abstract!EmptyMap
  <1>2. ASSUME Inv, [Next]_vars, ~wrapped'
        PROVE  [Abstract!Next]_(Abstract!vars)
    <2>1. CASE UNCHANGED vars
      BY <2>1 DEF vars, Abstract!vars
    <2>2. CASE Next
      BY <1>2, <2>2, InsertIsInsert, RetainIsRetain, UpdateIsUpdate DEF Next, Abstract!Next
    <2> QED BY <1>2, <2>1, <2>2
  <1>3. ASSUME Inv, ~wrapped'
        PROVE  \A key \in Keys, value \in Values :
                  Insert(key, value) => Abstract!Insert(key, value)
    BY <1>3, InsertIsInsert
  <1>4. Inv /\ [Next]_vars =>
           [wrapped' \/ /\ [Abstract!Next]_(Abstract!vars)
                        /\ \A key \in Keys, value \in Values :
                              Insert(key, value) => Abstract!Insert(key, value)]_vars
    BY <1>2, <1>3
  <1> QED BY <1>1, <1>4, MapInvariant, PTL DEF Spec, EvictsOldestUntilWrap
=============================================================================
