--------------------------- MODULE AlertingProofs ---------------------------
(***************************************************************************)
(* Theorems about detectors and throttler, for any events in any order     *)
(* within the lag, any windows, thresholds and capacities: the counts are  *)
(* those of the window, a session found looping rests, equal alerts are    *)
(* apart, and what is held back is listed.                                 *)
(*                                                                         *)
(* The two parts do not meet: the throttler only wants findings stamped    *)
(* with the time of their event, and the detector never looks at it.       *)
(***************************************************************************)
EXTENDS Alerting, TLAPS, FiniteSetTheorems, SequenceTheorems, NaturalsInduction,
        WellFoundedInduction

IsSeq(s) == s \in Seq(Range(s))

\* The numbers of the events of a kind, and what counting them by object gives.
OfKind(events, kind) == {j \in DOMAIN events : events[j].kind = kind}
OfObject(events, kind, object) == {j \in OfKind(events, kind) : events[j].object = object}
CountsOf(events, kind) ==
    [object \in {events[j].object : j \in OfKind(events, kind)} |->
        Cardinality(OfObject(events, kind, object))]
ProgressOf(events) == {j \in DOMAIN events : events[j].progress}

ActivityKinds == {"net_connect", "file_access", "unaddressed"}
IsActivity(a) == a.kind \in ActivityKinds /\ a.ts \in Nat /\ a.progress \in BOOLEAN

\* A session whose counts are those of its events.
Counted(s) ==
    /\ IsSeq(s.events)
    /\ \A j \in DOMAIN s.events : IsActivity(s.events[j])
    /\ s.connects = CountsOf(s.events, "net_connect")
    /\ s.files = CountsOf(s.events, "file_access")
    /\ s.progress = Cardinality(ProgressOf(s.events))

\* A list with each key once.
Distinct(list) ==
    /\ IsSeq(list)
    /\ \A i, j \in DOMAIN list : list[i].key = list[j].key => i = j

SessionsOf(list) ==
    /\ Distinct(list)
    /\ \A i \in DOMAIN list : Counted(list[i].value) /\ list[i].value.events # <<>>

SessionsKept(d) ==
    /\ SessionsOf(d.sessions)
    /\ Len(d.sessions) <= LoopCapacity
    /\ IsMap(d.cooldown, KeysIn(d.sessions), Nat)

\* The history knows of every session of the list when it was active last, in
\* the order of the list.
Tracks(act, list, now) ==
    /\ DOMAIN act = KeysIn(list)
    /\ \A i \in DOMAIN list :
          /\ act[list[i].key].ts = Last(list[i].value.events).ts
          /\ act[list[i].key].count \in 0 .. now
    /\ \A i, j \in DOMAIN list : i < j => act[list[i].key].count < act[list[j].key].count

\* A loop found in a session that has been active ever since still has its
\* cooldown, unless that is over.
Rests(d, act, found, now) ==
    /\ DOMAIN found \subseteq DOMAIN act
    /\ \A s \in DOMAIN found :
          /\ found[s] \in Nat
          /\ \/ found[s] + LoopCooldown <= now
             \/ s \in DOMAIN d.cooldown /\ d.cooldown[s] = found[s] + LoopCooldown

\* An entry holds back ids without doubles, all of those owed if they are not
\* too many.
EntryKept(entry, key, owed) ==
    /\ entry = [alert |-> entry.alert, merged |-> entry.merged]
    /\ entry.alert.key = key
    /\ entry.alert.ts \in Nat
    /\ IsSeq(entry.merged)
    /\ IsInjective(entry.merged)
    /\ Len(entry.merged) <= MaxMerged
    /\ Range(entry.merged) \subseteq owed
    /\ Cardinality(owed) <= MaxMerged => owed \subseteq Range(entry.merged)

\* The table t is full of keys other than key alerted since.
FullOfOthers(t, key, since) ==
    /\ key \notin DOMAIN t
    /\ Cardinality(DOMAIN t) = MaxThrottleEntries
    /\ \A other \in DOMAIN t : t[other].alert.ts >= since

\* What was told of a key agrees with its entry; a key without one was told of
\* ALERT_DEDUP_SECS ago, or the table is full of keys alerted since.
Throttled(t, h, now) ==
    /\ IsFiniteSet(DOMAIN t)
    /\ Cardinality(DOMAIN t) <= MaxThrottleEntries
    /\ DOMAIN t \subseteq DOMAIN h
    /\ IsFiniteSet(DOMAIN h)
    /\ \A key \in DOMAIN h :
          /\ h[key] = [ts |-> h[key].ts, owed |-> h[key].owed]
          /\ h[key].ts \in Nat
          /\ IsFiniteSet(h[key].owed)
    /\ \A key \in DOMAIN t : EntryKept(t[key], key, h[key].owed) /\ t[key].alert.ts = h[key].ts
    /\ \A key \in DOMAIN h \ DOMAIN t :
          h[key].ts + AlertDedup <= now \/ FullOfOthers(t, key, h[key].ts)

AlertInv ==
    /\ scenario \in Scenarios
    /\ clock \in Nat
    /\ count \in Nat
    /\ SessionsKept(detector)
    /\ Tracks(active, detector.sessions, count)
    /\ Rests(detector, active, loops, clock)
    /\ Throttled(throttle, told, clock)
    /\ AlertsAreApart
    /\ HeldBackIsListed
-----------------------------------------------------------------------------
(* Sequences and counting.                                                 *)

LEMMA Least ==
    ASSUME NEW S \in SUBSET Nat, S # {}
    PROVE  \E s \in S : \A t \in S : s <= t
  <1> DEFINE R == OpToRel(<, Nat)
  <1>1. IsWellFoundedOn(R, Nat)
    BY NatLessThanWellFounded
  <1>2. \A x, y \in Nat : <<x, y>> \in R <=> x < y
    BY DEF OpToRel
  <1> HIDE DEF R
  <1>3. PICK s \in S : \A t \in S : <<t, s>> \notin R
    BY <1>1, WFMin
  <1>4. \A t \in S : ~(t < s)
    BY <1>2, <1>3
  <1> QED BY <1>4

LEMMA SeqByIndex ==
    ASSUME NEW s, NEW n \in Nat, s = [i \in 1 .. n |-> s[i]]
    PROVE  IsSeq(s) /\ Len(s) = n /\ DOMAIN s = 1 .. n
  <1>1. s \in [1 .. n -> Range(s)]
    BY DEF Range
  <1>2. s \in Seq(Range(s))
    BY <1>1
  <1> QED BY <1>1, <1>2 DEF IsSeq

LEMMA SeqFacts ==
    ASSUME NEW s, IsSeq(s)
    PROVE  /\ Len(s) \in Nat
           /\ DOMAIN s = 1 .. Len(s)
           /\ s = [i \in 1 .. Len(s) |-> s[i]]
           /\ \A i \in DOMAIN s : s[i] \in Range(s)
           /\ IsFiniteSet(Range(s))
           /\ s = <<>> <=> Len(s) = 0
  <1>1. s \in Seq(Range(s))
    BY DEF IsSeq
  <1>2. Len(s) \in Nat /\ DOMAIN s = 1 .. Len(s) /\ s = [i \in 1 .. Len(s) |-> s[i]]
    BY <1>1
  <1>3. IsFiniteSet(Range(s))
    <2>1. s \in Surjection(1 .. Len(s), Range(s))
      BY <1>2 DEF Surjection, Range
    <2>2. IsFiniteSet(1 .. Len(s))
      BY <1>2, FS_Interval
    <2> QED BY <2>1, <2>2, FS_Surjection
  <1> QED BY <1>1, <1>2, <1>3 DEF Range

LEMMA AppendFacts ==
    ASSUME NEW s, IsSeq(s), NEW x
    PROVE  /\ IsSeq(Append(s, x))
           /\ Len(Append(s, x)) = Len(s) + 1
           /\ DOMAIN Append(s, x) = 1 .. Len(s) + 1
           /\ \A i \in DOMAIN s : Append(s, x)[i] = s[i]
           /\ Append(s, x)[Len(s) + 1] = x
           /\ Range(Append(s, x)) = Range(s) \cup {x}
           /\ IsInjective(s) /\ x \notin Range(s) => IsInjective(Append(s, x))
  <1> DEFINE S == Range(s) \cup {x}
             a == Append(s, x)
  <1>1. s \in Seq(S) /\ x \in S
    BY DEF IsSeq
  <1>2. /\ a \in Seq(S)
        /\ Len(a) = Len(s) + 1
        /\ DOMAIN a = 1 .. Len(s) + 1
        /\ \A i \in DOMAIN s : a[i] = s[i]
        /\ a[Len(s) + 1] = x
        /\ DOMAIN s = 1 .. Len(s)
        /\ Len(s) \in Nat
    BY <1>1
  <1> HIDE DEF a
  <1>3. Range(a) = S
    BY <1>2 DEF Range
  <1>4. ASSUME IsInjective(s), x \notin Range(s)
        PROVE  IsInjective(a)
    <2>1. \A i, j \in DOMAIN s : s[i] = s[j] => i = j
      BY <1>4 DEF IsInjective
    <2>2. \A i \in DOMAIN s : s[i] # x
      BY <1>4 DEF Range
    <2> QED BY <2>1, <2>2, <1>2 DEF IsInjective
  <1> QED BY <1>2, <1>3, <1>4 DEF IsSeq, a

LEMMA InjectiveCounts ==
    ASSUME NEW s, IsSeq(s), IsInjective(s)
    PROVE  Cardinality(Range(s)) = Len(s)
  <1>1. Len(s) \in Nat /\ DOMAIN s = 1 .. Len(s) /\ s = [i \in 1 .. Len(s) |-> s[i]]
    BY SeqFacts
  <1>2. s \in Bijection(1 .. Len(s), Range(s))
    <2>1. \A i, j \in DOMAIN s : s[i] = s[j] => i = j
      BY DEF IsInjective
    <2> QED BY <1>1, <2>1 DEF Bijection, Injection, Surjection, Range
  <1>3. ExistsBijection(1 .. Len(s), Range(s))
    BY <1>2 DEF ExistsBijection
  <1>4. IsFiniteSet(1 .. Len(s)) /\ Cardinality(1 .. Len(s)) = Len(s)
    BY <1>1, FS_Interval
  <1> QED BY <1>3, <1>4, FS_Bijection

\* What has been merged after i of the ids.
MergedSoFar(merged, ids, room, m, i) ==
    /\ IsSeq(m)
    /\ Range(merged) \subseteq Range(m)
    /\ Range(m) \subseteq Range(merged) \cup Range(ids)
    /\ IsInjective(merged) => IsInjective(m)
    /\ Len(m) <= Len(merged) + i
    /\ Len(merged) <= room => Len(m) <= room
    /\ Len(m) < room \/ Len(merged) + i <= room => \A j \in 1 .. i : ids[j] \in Range(m)

\* Merging adds no double and nothing but the ids, no more than there is room
\* for, and all of them if there is room for all.
LEMMA MergedWorks ==
    ASSUME NEW merged, IsSeq(merged), NEW ids, IsSeq(ids), NEW room \in Nat
    PROVE  MergedSoFar(merged, ids, room, Merged(merged, ids, room), Len(ids))
  <1> DEFINE More(m, i) ==
                 IF Len(m) >= room \/ ids[i] \in Range(m) THEN m ELSE Append(m, ids[i])
             Grows(f, n) == f = [i \in 0 .. n |-> IF i = 0 THEN merged ELSE More(f[i - 1], i)]
             F == CHOOSE f : Grows(f, Len(ids))
  <1>1. Len(ids) \in Nat /\ DOMAIN ids = 1 .. Len(ids) /\ Len(merged) \in Nat
    BY SeqFacts
  <1>2. Merged(merged, ids, room) = F[Len(ids)]
    BY DEF Merged
  <1>3. ASSUME NEW m, NEW i \in 1 .. Len(ids), MergedSoFar(merged, ids, room, m, i - 1)
        PROVE  MergedSoFar(merged, ids, room, More(m, i), i)
    <2>1. Len(m) \in Nat /\ ids[i] \in Range(ids)
      BY <1>1, <1>3, SeqFacts DEF MergedSoFar
    <2>2. CASE Len(m) >= room \/ ids[i] \in Range(m)
      BY <1>1, <1>3, <2>1, <2>2 DEF MergedSoFar
    <2>3. CASE ~(Len(m) >= room \/ ids[i] \in Range(m))
      <3> DEFINE grown == Append(m, ids[i])
      <3>1. More(m, i) = grown
        BY <2>3
      <3>2. /\ IsSeq(grown)
            /\ Len(grown) = Len(m) + 1
            /\ Range(grown) = Range(m) \cup {ids[i]}
            /\ IsInjective(m) => IsInjective(grown)
        BY <1>3, <2>3, AppendFacts DEF MergedSoFar
      <3> HIDE DEF grown
      <3>3. MergedSoFar(merged, ids, room, grown, i)
        BY <1>1, <1>3, <2>1, <2>3, <3>2 DEF MergedSoFar
      <3> QED BY <3>1, <3>3
    <2> QED BY <2>2, <2>3
  <1> HIDE DEF More
  <1>4. \E f : Grows(f, Len(ids))
    <2> DEFINE Missing == {n \in 0 .. Len(ids) : ~\E f : Grows(f, n)}
    <2>1. ASSUME Missing # {}
          PROVE  FALSE
      <3>1. PICK n \in Missing : \A k \in Missing : n <= k
        <4>1. Missing \in SUBSET Nat
          OBVIOUS
        <4> HIDE DEF Missing
        <4> QED BY <2>1, <4>1, Least
      <3>2. n \in 0 .. Len(ids) /\ ~\E f : Grows(f, n)
        BY <3>1
      <3>3. n # 0
        <4>1. Grows([i \in 0 .. 0 |-> merged], 0)
          OBVIOUS
        <4> QED BY <3>2, <4>1
      <3>4. PICK f : Grows(f, n - 1)
        <4>1. n - 1 \in 0 .. Len(ids) /\ n - 1 \notin Missing
          <5> HIDE DEF Missing
          <5> QED BY <1>1, <3>1, <3>2, <3>3
        <4> QED BY <4>1, Zenon
      <3> DEFINE g == [i \in 0 .. n |-> IF i = n THEN More(f[n - 1], n) ELSE f[i]]
      <3>5. Grows(g, n)
        BY <3>2, <3>3, <3>4
      <3> QED BY <3>2, <3>5
    <2>2. Len(ids) \in 0 .. Len(ids)
      BY <1>1
    <2> HIDE DEF Grows
    <2> QED BY <2>1, <2>2
  <1>5. Grows(F, Len(ids))
    BY <1>4, Zenon
  <1> HIDE DEF F
  <1>6. F[0] = merged /\ \A i \in 1 .. Len(ids) : F[i] = More(F[i - 1], i)
    BY <1>1, <1>5
  <1> DEFINE Right(i) == MergedSoFar(merged, ids, room, F[i], i)
             Wrong == {i \in 0 .. Len(ids) : ~Right(i)}
  <1>7. Right(0)
    BY <1>1, <1>6 DEF MergedSoFar
  <1>8. \A i \in 1 .. Len(ids) : Right(i - 1) => Right(i)
    BY <1>3, <1>6
  <1> HIDE DEF Right
  <1>9. Wrong = {}
    <2>1. SUFFICES ASSUME Wrong # {}
                   PROVE  FALSE
      OBVIOUS
    <2>2. PICK i \in Wrong : \A j \in Wrong : i <= j
      <3>1. Wrong \in SUBSET Nat
        OBVIOUS
      <3> HIDE DEF Wrong
      <3> QED BY <2>1, <3>1, Least
    <2> QED BY <1>1, <1>7, <1>8, <2>2
  <1>10. Right(Len(ids))
    BY <1>1, <1>9
  <1> QED BY <1>2, <1>10 DEF Right
-----------------------------------------------------------------------------
(* The throttler.                                                          *)

\* The keys of t whose alert is not yet ALERT_DEDUP_SECS old at ts, and key.
Young(t, key, ts) == {k \in DOMAIN t : k = key \/ Since(t[k].alert.ts, ts) < AlertDedup}

LEMMA SinceIs ==
    ASSUME NEW a \in Nat, NEW b \in Nat
    PROVE  ~(Since(a, b) < AlertDedup) <=> a + AlertDedup <= b
  BY ThrottleAssumption DEF Since

\* The first alert of a key goes in and, if there is no room, the oldest out.
LEMMA InsertThrottled ==
    ASSUME NEW t, NEW h, NEW now \in Nat, Throttled(t, h, now),
           NEW key, key \notin DOMAIN t,
           NEW a, a.key = key, a.ts \in Nat, a.ts <= now,
           NEW grown,
           grown = Put(Keep(t, Young(t, key, a.ts)), key, [alert |-> a, merged |-> <<>>]),
           NEW nt \in PrunedCapacity(grown)
    PROVE  /\ Throttled(nt, Put(h, key, [ts |-> a.ts, owed |-> {}]), now)
           /\ \A other : \A since \in Nat :
                 FullOfOthers(t, other, since) /\ a.ts < since => FullOfOthers(nt, other, since)
  <1> DEFINE young == Young(t, key, a.ts)
             nh == Put(h, key, [ts |-> a.ts, owed |-> {}])
             Max1 == Cardinality(DOMAIN grown) > MaxThrottleEntries
  <1>1. MaxThrottleEntries \in Nat \ {0} /\ AlertDedup \in Nat \ {0} /\ MaxMerged \in Nat \ {0}
    BY ThrottleAssumption
  <1>2. /\ IsFiniteSet(DOMAIN t) /\ Cardinality(DOMAIN t) \in Nat
        /\ Cardinality(DOMAIN t) <= MaxThrottleEntries
    BY FS_CardinalityType DEF Throttled
  <1>3. /\ young \in SUBSET DOMAIN t
        /\ key \notin young
        /\ \A k \in DOMAIN t \ young : t[k].alert.ts + AlertDedup <= a.ts
    <2>1. \A k \in DOMAIN t : t[k].alert.ts \in Nat
      BY DEF Throttled, EntryKept
    <2> QED BY <2>1, SinceIs DEF Young
  <1>4. /\ IsFiniteSet(young) /\ Cardinality(young) \in Nat
        /\ Cardinality(young) <= Cardinality(DOMAIN t)
        /\ Cardinality(young) = Cardinality(DOMAIN t) => young = DOMAIN t
    BY <1>2, <1>3, FS_Subset, FS_CardinalityType
  <1> HIDE DEF young
  <1>5. /\ DOMAIN grown = young \cup {key}
        /\ grown[key] = [alert |-> a, merged |-> <<>>]
        /\ \A k \in young : grown[k] = t[k]
    BY <1>3 DEF Put, Keep, young
  <1>6. IsFiniteSet(DOMAIN grown) /\ Cardinality(DOMAIN grown) = Cardinality(young) + 1
    BY <1>3, <1>4, <1>5, FS_AddElement
  <1>7. /\ DOMAIN nh = DOMAIN h \cup {key}
        /\ nh[key] = [ts |-> a.ts, owed |-> {}]
        /\ \A k \in DOMAIN h : k # key => nh[k] = h[k]
    BY DEF Put
  <1>8. \A k \in DOMAIN grown :
           EntryKept(grown[k], k, nh[k].owed) /\ grown[k].alert.ts = nh[k].ts
    <2>1. EntryKept(grown[key], key, nh[key].owed) /\ grown[key].alert.ts = nh[key].ts
      <3>1. IsSeq(<<>>) /\ IsInjective(<<>>) /\ Range(<<>>) = {} /\ Len(<<>>) = 0
        BY DEF IsSeq, IsInjective, Range
      <3> DEFINE e == [alert |-> a, merged |-> <<>>]
      <3>2. EntryKept(e, key, {})
        BY <1>1, <3>1 DEF EntryKept
      <3>3. e.alert.ts = [ts |-> a.ts, owed |-> {}].ts
        OBVIOUS
      <3> HIDE DEF e, nh
      <3>4. grown[key] = e /\ nh[key].owed = {} /\ nh[key].ts = a.ts
        BY <1>5, <1>7 DEF e
      <3> QED BY <3>2, <3>3, <3>4
    <2>2. \A k \in young : EntryKept(grown[k], k, nh[k].owed) /\ grown[k].alert.ts = nh[k].ts
      BY <1>3, <1>5, <1>7 DEF Throttled
    <2> QED BY <1>5, <2>1, <2>2
  <1>9. /\ IsFiniteSet(DOMAIN nh)
        /\ DOMAIN grown \subseteq DOMAIN nh
        /\ \A k \in DOMAIN nh : /\ nh[k] = [ts |-> nh[k].ts, owed |-> nh[k].owed]
                                /\ nh[k].ts \in Nat
                                /\ IsFiniteSet(nh[k].owed)
    <2>1. IsFiniteSet(DOMAIN nh)
      BY <1>7, FS_AddElement DEF Throttled
    <2>2. DOMAIN grown \subseteq DOMAIN nh
      BY <1>3, <1>5, <1>7 DEF Throttled
    <2>3. IsFiniteSet({})
      BY FS_EmptySet
    <2>4. ASSUME NEW k \in DOMAIN nh
          PROVE  /\ nh[k] = [ts |-> nh[k].ts, owed |-> nh[k].owed]
                 /\ nh[k].ts \in Nat
                 /\ IsFiniteSet(nh[k].owed)
      <3> HIDE DEF nh
      <3>1. CASE k = key
        <4> DEFINE r == [ts |-> a.ts, owed |-> {}]
        <4>1. r = [ts |-> r.ts, owed |-> r.owed] /\ r.ts \in Nat
          OBVIOUS
        <4>2. IsFiniteSet(r.owed)
          BY <2>3
        <4>3. nh[k] = r
          BY <1>7, <3>1
        <4> HIDE DEF r
        <4> QED BY <4>1, <4>2, <4>3
      <3>2. CASE k # key
        BY <1>7, <2>4, <3>2 DEF Throttled
      <3> QED BY <3>1, <3>2
    <2> HIDE DEF nh
    <2> QED BY <2>1, <2>2, <2>4
  <1> HIDE DEF nh
  <1>10. ASSUME NEW q \in DOMAIN h, q # key, q \notin young
         PROVE  \/ h[q].ts + AlertDedup <= now
                \/ young = DOMAIN t /\ FullOfOthers(t, q, h[q].ts)
    <2>1. CASE q \in DOMAIN t
      BY <1>1, <1>3, <1>10, <2>1 DEF Throttled, EntryKept
    <2>2. CASE q \notin DOMAIN t
      <3>1. SUFFICES ASSUME FullOfOthers(t, q, h[q].ts), young # DOMAIN t
                     PROVE  h[q].ts + AlertDedup <= now
        BY <2>2 DEF Throttled
      <3>2. PICK o \in DOMAIN t : o \notin young
        BY <1>3, <3>1
      <3>3. t[o].alert.ts >= h[q].ts /\ t[o].alert.ts + AlertDedup <= a.ts
        BY <1>3, <3>1, <3>2 DEF FullOfOthers
      <3>4. t[o].alert.ts \in Nat /\ h[q].ts \in Nat
        BY DEF Throttled, EntryKept
      <3> QED BY <1>1, <3>3, <3>4
    <2> QED BY <2>1, <2>2
  <1>11. CASE ~Max1
    <2>1. nt = grown /\ Cardinality(DOMAIN grown) <= MaxThrottleEntries
      BY <1>1, <1>4, <1>6, <1>11 DEF PrunedCapacity
    <2>2. Cardinality(young) < MaxThrottleEntries
      BY <1>1, <1>4, <1>6, <2>1
    <2>3. ASSUME NEW q \in DOMAIN nh \ DOMAIN grown
          PROVE  nh[q].ts + AlertDedup <= now
      <3>1. q \in DOMAIN h /\ q # key /\ q \notin young /\ nh[q] = h[q]
        BY <1>5, <1>7, <2>3
      <3>2. ~(young = DOMAIN t /\ FullOfOthers(t, q, h[q].ts))
        BY <1>1, <1>4, <2>2 DEF FullOfOthers
      <3> QED BY <1>10, <3>1, <3>2
    <2>4. Throttled(grown, nh, now)
      BY <1>6, <1>8, <1>9, <2>1, <2>3 DEF Throttled
    <2>5. ASSUME NEW other, NEW since \in Nat, FullOfOthers(t, other, since), a.ts < since
          PROVE  FALSE
      <3>1. young # DOMAIN t
        BY <1>1, <2>2, <2>5 DEF FullOfOthers
      <3>2. PICK o \in DOMAIN t : o \notin young
        BY <1>3, <3>1
      <3>3. t[o].alert.ts >= since /\ t[o].alert.ts + AlertDedup <= a.ts /\ t[o].alert.ts \in Nat
        BY <1>3, <2>5, <3>2 DEF FullOfOthers, Throttled, EntryKept
      <3> QED BY <1>1, <2>5, <3>3
    <2> QED BY <2>1, <2>4, <2>5 DEF nh
  <1>12. CASE Max1
    <2>1. PICK x \in DOMAIN grown :
             /\ \A other \in DOMAIN grown : grown[x].alert.ts <= grown[other].alert.ts
             /\ nt = Without(grown, x)
      BY <1>1, <1>4, <1>6, <1>12 DEF PrunedCapacity
    <2>2. young = DOMAIN t /\ Cardinality(young) = MaxThrottleEntries
      BY <1>1, <1>2, <1>4, <1>6, <1>12
    <2>3. /\ DOMAIN nt = DOMAIN grown \ {x}
          /\ \A k \in DOMAIN nt : nt[k] = grown[k]
      BY <2>1 DEF Without, Keep
    <2>4. IsFiniteSet(DOMAIN nt) /\ Cardinality(DOMAIN nt) = MaxThrottleEntries
      <3>1. /\ IsFiniteSet(DOMAIN grown \ {x})
            /\ Cardinality(DOMAIN grown \ {x}) = Cardinality(DOMAIN grown) - 1
        BY <1>6, <2>1, FS_RemoveElement
      <3> QED BY <1>1, <1>6, <2>2, <2>3, <3>1
    <2>5. \A k \in DOMAIN grown : grown[k].alert.ts \in Nat
      BY <1>9, <1>8 DEF EntryKept
    <2>6. ASSUME NEW q \in DOMAIN nh \ DOMAIN nt
          PROVE  nh[q].ts + AlertDedup <= now \/ FullOfOthers(nt, q, nh[q].ts)
      <3>1. CASE q = x
        <4>1. nh[q].ts = grown[x].alert.ts
          BY <1>8, <2>1, <3>1
        <4>2. \A other \in DOMAIN nt : nt[other].alert.ts >= nh[q].ts
          BY <2>1, <2>3, <2>5, <4>1
        <4> QED BY <2>4, <2>6, <4>2 DEF FullOfOthers
      <3>2. CASE q # x
        <4>1. q \in DOMAIN h /\ q # key /\ q \notin young /\ nh[q] = h[q]
          BY <1>5, <1>7, <2>3, <2>6, <3>2
        <4>2. SUFFICES ASSUME FullOfOthers(t, q, h[q].ts)
                       PROVE  FullOfOthers(nt, q, h[q].ts)
          BY <1>10, <4>1
        <4>3. ASSUME NEW other \in DOMAIN nt
              PROVE  nt[other].alert.ts >= h[q].ts
          <5>1. CASE other # key
            BY <1>5, <2>2, <2>3, <4>2, <5>1 DEF FullOfOthers
          <5>2. CASE other = key
            <6>1. x # key /\ x \in young
              BY <1>5, <2>1, <2>3, <5>2
            <6>2. grown[x].alert.ts >= h[q].ts
              BY <1>5, <2>2, <4>2, <6>1 DEF FullOfOthers
            <6>3. grown[x].alert.ts <= grown[key].alert.ts
              BY <1>5, <2>1
            <6>4. h[q].ts \in Nat
              BY <4>1 DEF Throttled
            <6> QED BY <1>5, <2>3, <2>5, <5>2, <6>1, <6>2, <6>3, <6>4
          <5> QED BY <5>1, <5>2
        <4> QED BY <2>4, <2>6, <4>3 DEF FullOfOthers
      <3> QED BY <3>1, <3>2
    <2>7. Throttled(nt, nh, now)
      <3>1. DOMAIN nt \subseteq DOMAIN nh
        BY <1>9, <2>3
      <3>2. \A k \in DOMAIN nt : EntryKept(nt[k], k, nh[k].owed) /\ nt[k].alert.ts = nh[k].ts
        BY <1>8, <2>3
      <3>3. Cardinality(DOMAIN nt) <= MaxThrottleEntries
        BY <1>1, <2>4
      <3> QED BY <1>9, <2>4, <2>6, <3>1, <3>2, <3>3 DEF Throttled
    <2>8. ASSUME NEW other, NEW since \in Nat, FullOfOthers(t, other, since), a.ts < since
          PROVE  FullOfOthers(nt, other, since)
      <3>1. \A k \in young : grown[k].alert.ts >= since
        BY <1>5, <2>2, <2>8 DEF FullOfOthers
      <3>2. x = key
        BY <1>5, <2>1, <2>5, <2>8, <3>1
      <3>3. DOMAIN nt = DOMAIN t /\ \A k \in DOMAIN nt : nt[k] = t[k]
        BY <1>3, <1>5, <2>2, <2>3, <3>2
      <3> QED BY <2>8, <3>3 DEF FullOfOthers
    <2> QED BY <2>7, <2>8 DEF nh
  <1> QED BY <1>11, <1>12 DEF nh

\* Taking out what is old and changing the entry of a key, not to an older
\* alert, leaves table and history in step.
LEMMA UpdateThrottled ==
    ASSUME NEW t, NEW h, NEW now \in Nat, Throttled(t, h, now),
           NEW key \in DOMAIN t, NEW ts \in Nat, ts <= now,
           NEW entry, NEW owed, IsFiniteSet(owed), EntryKept(entry, key, owed),
           entry.alert.ts >= t[key].alert.ts,
           NEW nt, DOMAIN nt = Young(t, key, ts), nt[key] = entry,
           \A k \in DOMAIN nt : k # key => nt[k] = t[k]
    PROVE  /\ Throttled(nt, Put(h, key, [ts |-> entry.alert.ts, owed |-> owed]), now)
           /\ \A other : \A since \in Nat :
                 FullOfOthers(t, other, since) /\ ts < since => FullOfOthers(nt, other, since)
  <1> DEFINE young == DOMAIN nt
             told1 == [ts |-> entry.alert.ts, owed |-> owed]
             nh == Put(h, key, told1)
  <1>1. MaxThrottleEntries \in Nat \ {0} /\ AlertDedup \in Nat \ {0}
    BY ThrottleAssumption
  <1>2. (\A k \in DOMAIN t : t[k].alert.ts \in Nat) /\ entry.alert.ts \in Nat
    BY DEF Throttled, EntryKept
  <1>3. /\ young \in SUBSET DOMAIN t
        /\ key \in young
        /\ \A k \in DOMAIN t \ young : t[k].alert.ts + AlertDedup <= ts
    BY <1>2, SinceIs DEF Young
  <1>4. /\ IsFiniteSet(young) /\ Cardinality(young) <= Cardinality(DOMAIN t)
        /\ IsFiniteSet(DOMAIN t)
    BY <1>3, FS_Subset DEF Throttled
  <1>5. Cardinality(young) \in Nat /\ Cardinality(DOMAIN t) \in Nat
        /\ Cardinality(DOMAIN t) <= MaxThrottleEntries
    BY <1>4, FS_CardinalityType DEF Throttled
  <1>6. told1 = [ts |-> told1.ts, owed |-> told1.owed] /\ told1.ts = entry.alert.ts
        /\ told1.owed = owed
    OBVIOUS
  <1> HIDE DEF told1
  <1>7. key \in DOMAIN h
    BY DEF Throttled
  <1>8. DOMAIN nh = DOMAIN h /\ nh[key] = told1 /\ \A k \in DOMAIN h : k # key => nh[k] = h[k]
    BY <1>7 DEF Put
  <1> HIDE DEF nh
  <1>9. \A k \in DOMAIN nh : /\ nh[k] = [ts |-> nh[k].ts, owed |-> nh[k].owed]
                             /\ nh[k].ts \in Nat
                             /\ IsFiniteSet(nh[k].owed)
    <2>1. ASSUME NEW k \in DOMAIN nh
          PROVE  /\ nh[k] = [ts |-> nh[k].ts, owed |-> nh[k].owed]
                 /\ nh[k].ts \in Nat
                 /\ IsFiniteSet(nh[k].owed)
      <3>1. CASE k = key
        BY <1>2, <1>6, <1>8, <3>1
      <3>2. CASE k # key
        BY <1>8, <2>1, <3>2 DEF Throttled
      <3> QED BY <3>1, <3>2
    <2> QED BY <2>1
  <1>10. \A k \in DOMAIN nt : EntryKept(nt[k], k, nh[k].owed) /\ nt[k].alert.ts = nh[k].ts
    <2>1. ASSUME NEW k \in DOMAIN nt
          PROVE  EntryKept(nt[k], k, nh[k].owed) /\ nt[k].alert.ts = nh[k].ts
      <3>1. CASE k = key
        BY <1>6, <1>8, <3>1
      <3>2. CASE k # key
        BY <1>3, <1>8, <3>2 DEF Throttled
      <3> QED BY <3>1, <3>2
    <2> QED BY <2>1
  <1>11. ASSUME NEW other, NEW since \in Nat, FullOfOthers(t, other, since), young = DOMAIN t
         PROVE  FullOfOthers(nt, other, since)
    <2>1. \A k \in DOMAIN nt : nt[k].alert.ts >= since
      BY <1>2, <1>11 DEF FullOfOthers
    <2> QED BY <1>11, <2>1 DEF FullOfOthers
  <1>12. ASSUME NEW other, NEW since \in Nat, FullOfOthers(t, other, since), young # DOMAIN t
         PROVE  since + AlertDedup <= ts
    <2>1. PICK o \in DOMAIN t : o \notin young
      BY <1>3, <1>12
    <2>2. t[o].alert.ts >= since /\ t[o].alert.ts + AlertDedup <= ts /\ t[o].alert.ts \in Nat
      BY <1>2, <1>3, <1>12, <2>1 DEF FullOfOthers
    <2> QED BY <1>1, <2>2
  <1>13. ASSUME NEW q \in DOMAIN nh \ DOMAIN nt
         PROVE  nh[q].ts + AlertDedup <= now \/ FullOfOthers(nt, q, nh[q].ts)
    <2>1. q \in DOMAIN h /\ q # key /\ nh[q] = h[q] /\ h[q].ts \in Nat
      BY <1>3, <1>8, <1>13 DEF Throttled
    <2>2. CASE q \in DOMAIN t
      BY <1>1, <1>2, <1>3, <1>13, <2>1, <2>2 DEF Throttled
    <2>3. CASE q \notin DOMAIN t
      <3>1. h[q].ts + AlertDedup <= now \/ FullOfOthers(t, q, h[q].ts)
        BY <2>1, <2>3 DEF Throttled
      <3>2. CASE FullOfOthers(t, q, h[q].ts)
        <4>1. FullOfOthers(nt, q, h[q].ts) \/ h[q].ts + AlertDedup <= ts
          BY <1>11, <1>12, <2>1, <3>2
        <4> QED BY <1>1, <2>1, <4>1
      <3> QED BY <2>1, <3>1, <3>2
    <2> QED BY <2>2, <2>3
  <1>14. Throttled(nt, nh, now)
    <2>1. Cardinality(young) <= MaxThrottleEntries
      BY <1>1, <1>4, <1>5
    <2>2. DOMAIN nt \subseteq DOMAIN nh /\ IsFiniteSet(DOMAIN nh)
      BY <1>3, <1>8 DEF Throttled
    <2> QED BY <1>4, <1>9, <1>10, <1>13, <2>1, <2>2 DEF Throttled
  <1>15. ASSUME NEW other, NEW since \in Nat, FullOfOthers(t, other, since), ts < since
         PROVE  FullOfOthers(nt, other, since)
    <2>1. young = DOMAIN t
      BY <1>1, <1>12, <1>15
    <2> QED BY <1>11, <1>15, <2>1
  <1> QED BY <1>14, <1>15 DEF nh, told1

\* What becomes of the alert a and the entries kept: its key had no entry, or
\* it is held back, or it is said again with what was held back.
Projected(t, a, kept, listed, next) ==
    /\ a.key \notin DOMAIN t =>
          /\ next.t \in PrunedCapacity(Put(kept, a.key, [alert |-> a, merged |-> <<>>]))
          /\ next.outcome = [alert |-> a, passed |-> TRUE, held |-> FALSE]
    /\ a.key \in DOMAIN t /\ Since(t[a.key].alert.ts, a.ts) < AlertDedup =>
          /\ next.t = [kept EXCEPT ![a.key].merged = Merged(@, a.ids, MaxMerged)]
          /\ next.outcome = [alert |-> a, passed |-> FALSE, held |-> TRUE]
    /\ a.key \in DOMAIN t /\ ~(Since(t[a.key].alert.ts, a.ts) < AlertDedup) =>
          /\ next.t = [kept EXCEPT ![a.key] = [alert |-> listed, merged |-> <<>>]]
          /\ next.outcome = [alert |-> listed, passed |-> TRUE, held |-> TRUE]

LEMMA ProjectCases ==
    ASSUME NEW t, NEW finding, NEW pressure, NEW next \in Project(t, finding, pressure),
           NEW a, a = AlertOf(finding, pressure),
           NEW kept, kept = Keep(t, Young(t, a.key, a.ts)),
           NEW listed,
           listed = [a EXCEPT !.ids = Merged(a.ids, t[a.key].merged, Len(a.ids) + MaxMerged)]
    PROVE  Projected(t, a, kept, listed, next)
  <1>1. a.key \in DOMAIN kept <=> a.key \in DOMAIN t
    BY DEF Keep, Young
  <1>2. a.key \in DOMAIN t => kept[a.key] = t[a.key]
    BY <1>1 DEF Keep
  <1>3. kept = Keep(t, {k \in DOMAIN t : k = a.key \/ Since(t[k].alert.ts, a.ts) < AlertDedup})
    BY DEF Young
  <1> DEFINE grown == Put(kept, a.key, [alert |-> a, merged |-> <<>>])
             updated == [kept EXCEPT ![a.key].merged =
                            Merged(kept[a.key].merged, a.ids, MaxMerged)]
             renewed == [kept EXCEPT ![a.key] = [alert |-> listed, merged |-> <<>>]]
             outcome(passed, said) == [alert |-> said, passed |-> passed,
                                       held |-> a.key \in DOMAIN t]
  <1>4. next \in IF a.key \notin DOMAIN kept
                 THEN {[t |-> pruned, outcome |-> outcome(TRUE, a)] :
                          pruned \in PrunedCapacity(grown)}
                 ELSE IF Since(kept[a.key].alert.ts, a.ts) < AlertDedup
                 THEN {[t |-> updated, outcome |-> outcome(FALSE, a)]}
                 ELSE {[t |-> renewed, outcome |-> outcome(TRUE, listed)]}
    <2>1. a.key \notin DOMAIN kept =>
             next \in {[t |-> pruned, outcome |-> outcome(TRUE, a)] :
                          pruned \in PrunedCapacity(grown)}
      BY <1>3 DEF Project
    <2>2. a.key \in DOMAIN kept /\ Since(kept[a.key].alert.ts, a.ts) < AlertDedup =>
             next \in {[t |-> updated, outcome |-> outcome(FALSE, a)]}
      BY <1>3 DEF Project
    <2>3. a.key \in DOMAIN kept /\ ~(Since(kept[a.key].alert.ts, a.ts) < AlertDedup) =>
             next \in {[t |-> renewed, outcome |-> outcome(TRUE, listed)]}
      BY <1>2, <1>1, <1>3 DEF Project
    <2> HIDE DEF grown, updated, renewed, outcome
    <2> QED BY <2>1, <2>2, <2>3
  <1> HIDE DEF grown, updated, renewed
  <1>5. CASE a.key \notin DOMAIN t
    <2>1. PICK pruned \in PrunedCapacity(grown) :
             next = [t |-> pruned, outcome |-> outcome(TRUE, a)]
      <3> HIDE DEF outcome
      <3> QED BY <1>1, <1>4, <1>5
    <2>2. next.t = pruned /\ next.outcome = outcome(TRUE, a)
      BY <2>1
    <2>3. (a.key \in DOMAIN t) = FALSE
      BY <1>5
    <2>4. outcome(TRUE, a) = [alert |-> a, passed |-> TRUE, held |-> FALSE]
      BY <2>3
    <2> HIDE DEF outcome
    <2> QED BY <1>5, <2>2, <2>4 DEF grown, Projected
  <1>6. CASE a.key \in DOMAIN t /\ Since(t[a.key].alert.ts, a.ts) < AlertDedup
    <2>1. next = [t |-> updated, outcome |-> outcome(FALSE, a)]
      <3> HIDE DEF outcome
      <3> QED BY <1>1, <1>2, <1>4, <1>6
    <2>2. next.t = updated /\ next.outcome = outcome(FALSE, a)
      BY <2>1
    <2> QED BY <1>6, <2>2 DEF updated, Projected
  <1>7. CASE a.key \in DOMAIN t /\ ~(Since(t[a.key].alert.ts, a.ts) < AlertDedup)
    <2>1. next = [t |-> renewed, outcome |-> outcome(TRUE, listed)]
      <3> HIDE DEF outcome
      <3> QED BY <1>1, <1>2, <1>4, <1>7
    <2>2. next.t = renewed /\ next.outcome = outcome(TRUE, listed)
      BY <2>1
    <2> QED BY <1>7, <2>2 DEF renewed, Projected
  <1> QED BY <1>5, <1>6, <1>7

\* A finding of an event of the time ts.
IsFinding(finding, ts) ==
    /\ finding = [type |-> finding.type, session |-> finding.session, ts |-> finding.ts,
                  reason |-> finding.reason, object |-> finding.object, ids |-> finding.ids,
                  visibility |-> finding.visibility, score |-> finding.score]
    /\ finding.ts = ts
    /\ IsSeq(finding.ids)

\* One finding through the throttler: table and history stay in step; if it is
\* said, its key was told of long ago or the table was full of others, and what
\* was held back under its entry is listed.
LEMMA ProjectWorks ==
    ASSUME NEW t, NEW h, NEW now \in Nat, Throttled(t, h, now),
           NEW ts \in Nat, ts <= now, NEW finding, IsFinding(finding, ts), NEW pressure,
           NEW next \in Project(t, finding, pressure),
           NEW o, o = next.outcome, NEW said, said = ToldOf(h, o.alert.key)
    PROVE  /\ o = [alert |-> o.alert, passed |-> o.passed, held |-> o.held]
           /\ o.alert.ts = ts
           /\ o.passed \in BOOLEAN
           /\ Throttled(next.t, Remembered(h, o), now)
           /\ \A other : \A since \in Nat :
                 FullOfOthers(t, other, since) /\ ts < since => FullOfOthers(next.t, other, since)
           /\ o.passed => \/ said.ts < 0
                          \/ said.ts \in Nat /\ said.ts + AlertDedup <= now
                          \/ said.ts \in Nat /\ FullOfOthers(t, o.alert.key, said.ts)
           /\ (o.passed /\ o.held /\ Cardinality(said.owed) <= MaxMerged)
                 => said.owed \subseteq Range(o.alert.ids)
  <1> DEFINE a == AlertOf(finding, pressure)
             key == a.key
             kept == Keep(t, Young(t, key, ts))
  <1>1. /\ a = [key |-> a.key, ts |-> a.ts, ids |-> a.ids, policy |-> a.policy]
        /\ a.ts = ts
        /\ IsSeq(a.ids)
    BY DEF AlertOf, IsFinding
  <1> DEFINE listed == [a EXCEPT !.ids = Merged(a.ids, t[key].merged, Len(a.ids) + MaxMerged)]
  <1>0. /\ key \notin DOMAIN t =>
              /\ next.t \in PrunedCapacity(Put(kept, key, [alert |-> a, merged |-> <<>>]))
              /\ o = [alert |-> a, passed |-> TRUE, held |-> FALSE]
        /\ key \in DOMAIN t /\ Since(t[key].alert.ts, ts) < AlertDedup =>
              /\ next.t = [kept EXCEPT ![key].merged = Merged(kept[key].merged, a.ids, MaxMerged)]
              /\ o = [alert |-> a, passed |-> FALSE, held |-> TRUE]
        /\ key \in DOMAIN t /\ ~(Since(t[key].alert.ts, ts) < AlertDedup) =>
              /\ next.t = [kept EXCEPT ![key] = [alert |-> listed, merged |-> <<>>]]
              /\ o = [alert |-> listed, passed |-> TRUE, held |-> TRUE]
    <2> HIDE DEF a
    <2>1. kept = Keep(t, Young(t, a.key, a.ts)) /\ a = AlertOf(finding, pressure)
      BY <1>1 DEF a
    <2> HIDE DEF kept, listed
    <2>2. listed = [a EXCEPT !.ids = Merged(a.ids, t[a.key].merged, Len(a.ids) + MaxMerged)]
      BY DEF listed
    <2>3. Projected(t, a, kept, listed, next)
      BY <2>1, <2>2, ProjectCases
    <2> QED BY <1>1, <2>3 DEF Projected
  <1> HIDE DEF a
  <1>2. AlertDedup \in Nat \ {0} /\ MaxMerged \in Nat \ {0}
    BY ThrottleAssumption
  <1>3. CASE key \notin DOMAIN t
    <2>1. /\ next.t \in PrunedCapacity(Put(kept, key, [alert |-> a, merged |-> <<>>]))
          /\ o = [alert |-> a, passed |-> TRUE, held |-> FALSE]
      BY <1>0, <1>3
    <2>2. o.alert = a /\ o.passed = TRUE /\ o.held = FALSE
      BY <2>1
    <2>3. Remembered(h, o) = Put(h, key, [ts |-> ts, owed |-> {}])
      BY <1>1, <2>2 DEF Remembered
    <2>4. /\ Throttled(next.t, Put(h, key, [ts |-> a.ts, owed |-> {}]), now)
          /\ \A other : \A since \in Nat :
                FullOfOthers(t, other, since) /\ a.ts < since => FullOfOthers(next.t, other, since)
      BY <1>1, <1>3, <2>1, InsertThrottled
    <2>5. \/ said.ts < 0
          \/ said.ts \in Nat /\ said.ts + AlertDedup <= now
          \/ said.ts \in Nat /\ FullOfOthers(t, key, said.ts)
      <3>1. CASE key \in DOMAIN h
        BY <1>3, <2>2, <3>1 DEF ToldOf, Throttled
      <3>2. CASE key \notin DOMAIN h
        BY <2>2, <3>2 DEF ToldOf, Untold
      <3> QED BY <3>1, <3>2
    <2> QED BY <1>1, <2>1, <2>2, <2>3, <2>4, <2>5
  <1>4. ASSUME key \in DOMAIN t
        PROVE  /\ key \in DOMAIN h
               /\ t[key] = [alert |-> t[key].alert, merged |-> t[key].merged]
               /\ EntryKept(t[key], key, h[key].owed)
               /\ t[key].alert.ts = h[key].ts
               /\ h[key].ts \in Nat
               /\ IsFiniteSet(h[key].owed)
               /\ key \in DOMAIN kept /\ kept[key] = t[key]
               /\ DOMAIN kept = Young(t, key, ts)
               /\ \A k \in DOMAIN kept : kept[k] = t[k]
    <2>1. DOMAIN kept = Young(t, key, ts) /\ \A k \in DOMAIN kept : kept[k] = t[k]
      BY DEF Keep, Young
    <2>2. key \in Young(t, key, ts)
      BY <1>4 DEF Young
    <2> QED BY <1>4, <2>1, <2>2 DEF Throttled, EntryKept
  <1>5. CASE key \in DOMAIN t /\ Since(t[key].alert.ts, ts) < AlertDedup
    <2> DEFINE merged == Merged(t[key].merged, a.ids, MaxMerged)
               entry == [alert |-> t[key].alert, merged |-> merged]
               owed == h[key].owed \cup Range(a.ids)
    <2>1. /\ next.t = [kept EXCEPT ![key].merged = Merged(kept[key].merged, a.ids, MaxMerged)]
          /\ o = [alert |-> a, passed |-> FALSE, held |-> TRUE]
      <3> HIDE DEF kept
      <3> QED BY <1>0, <1>5
    <2>2. o.alert = a /\ o.passed = FALSE /\ o.held = TRUE
      BY <2>1
    <2>3. IsFiniteSet(owed)
      BY <1>1, <1>4, <1>5, SeqFacts, FS_Union
    <2>4. EntryKept(entry, key, owed)
      <3> DEFINE old == t[key].merged
      <3>1. /\ IsSeq(old) /\ IsInjective(old) /\ Len(old) <= MaxMerged
            /\ Range(old) \subseteq h[key].owed
            /\ Cardinality(h[key].owed) <= MaxMerged => h[key].owed \subseteq Range(old)
            /\ t[key].alert.key = key /\ t[key].alert.ts \in Nat
        BY <1>4, <1>5 DEF EntryKept
      <3>2. MergedSoFar(old, a.ids, MaxMerged, merged, Len(a.ids))
        BY <1>1, <1>2, <3>1, MergedWorks
      <3> HIDE DEF merged, old, owed
      <3>3. /\ IsSeq(merged) /\ IsInjective(merged) /\ Len(merged) <= MaxMerged
            /\ Range(old) \subseteq Range(merged)
            /\ Range(merged) \subseteq Range(old) \cup Range(a.ids)
            /\ Len(merged) < MaxMerged => \A j \in 1 .. Len(a.ids) : a.ids[j] \in Range(merged)
        BY <3>1, <3>2 DEF MergedSoFar
      <3>4. Range(merged) \subseteq owed
        BY <3>1, <3>3 DEF owed
      <3>5. ASSUME Cardinality(owed) <= MaxMerged
            PROVE  owed \subseteq Range(merged)
        <4>1. Cardinality(owed) \in Nat /\ Len(merged) \in Nat
          BY <2>3, <3>3, FS_CardinalityType, SeqFacts
        <4>2. Cardinality(h[key].owed) <= Cardinality(owed) /\ Cardinality(h[key].owed) \in Nat
          BY <1>4, <1>5, <2>3, FS_Subset, FS_CardinalityType DEF owed
        <4>3. h[key].owed \subseteq Range(merged)
          BY <1>2, <3>1, <3>3, <3>5, <4>1, <4>2
        <4>4. CASE Len(merged) < MaxMerged
          <5>1. Range(a.ids) \subseteq Range(merged)
            BY <1>1, <3>3, <4>4, SeqFacts DEF Range
          <5> QED BY <4>3, <5>1 DEF owed
        <4>5. CASE Len(merged) = MaxMerged
          <5>1. Cardinality(Range(merged)) = MaxMerged
            BY <3>3, <4>5, InjectiveCounts
          <5>2. Cardinality(Range(merged)) <= Cardinality(owed)
            BY <2>3, <3>4, FS_Subset
          <5>3. Cardinality(Range(merged)) = Cardinality(owed)
            BY <1>2, <3>5, <4>1, <5>1, <5>2
          <5> QED BY <2>3, <3>4, <5>3, FS_Subset
        <4> QED BY <1>2, <3>3, <4>1, <4>4, <4>5
      <3> QED BY <3>1, <3>3, <3>4, <3>5 DEF EntryKept
    <2> HIDE DEF merged
    <2>5. entry.alert.ts = t[key].alert.ts /\ t[key].alert.ts \in Nat
      BY <1>4, <1>5
    <2>6. /\ DOMAIN next.t = Young(t, key, ts)
          /\ next.t[key] = entry
          /\ \A k \in DOMAIN next.t : k # key => next.t[k] = t[k]
      <3>1. [t[key] EXCEPT !.merged = merged] = entry
        BY <1>4, <1>5
      <3>2. next.t = [kept EXCEPT ![key] = [t[key] EXCEPT !.merged = merged]]
        BY <1>4, <1>5, <2>1 DEF merged
      <3> HIDE DEF kept, entry
      <3> QED BY <1>4, <1>5, <3>1, <3>2
    <2>7. Remembered(h, o) = Put(h, key, [ts |-> entry.alert.ts, owed |-> owed])
      <3>1. h[key] = [ts |-> h[key].ts, owed |-> h[key].owed]
        BY <1>4, <1>5 DEF Throttled
      <3>2. ToldOf(h, key) = h[key]
        BY <1>4, <1>5 DEF ToldOf
      <3>3. h[key].ts = entry.alert.ts
        BY <1>4, <1>5, <2>5
      <3> HIDE DEF entry
      <3> DEFINE x == h[key].ts
                 y == h[key].owed
      <3>4. [h[key] EXCEPT !.owed = y \cup Range(a.ids)] = [ts |-> x, owed |-> y \cup Range(a.ids)]
        <4> HIDE DEF x, y
        <4>1. h[key] = [ts |-> x, owed |-> y]
          BY <3>1 DEF x, y
        <4>2. [[ts |-> x, owed |-> y] EXCEPT !.owed = y \cup Range(a.ids)]
                 = [ts |-> x, owed |-> y \cup Range(a.ids)]
          OBVIOUS
        <4> QED BY <4>1, <4>2, Zenon
      <3> HIDE DEF owed
      <3> QED BY <2>2, <3>2, <3>3, <3>4 DEF Remembered, owed
    <2> HIDE DEF entry, owed
    <2>8. /\ Throttled(next.t, Put(h, key, [ts |-> entry.alert.ts, owed |-> owed]), now)
          /\ \A other : \A since \in Nat :
                FullOfOthers(t, other, since) /\ ts < since => FullOfOthers(next.t, other, since)
      BY <1>5, <2>3, <2>4, <2>5, <2>6, UpdateThrottled
    <2> QED BY <1>1, <2>1, <2>2, <2>7, <2>8
  <1>6. CASE key \in DOMAIN t /\ ~(Since(t[key].alert.ts, ts) < AlertDedup)
    <2> DEFINE entry == [alert |-> listed, merged |-> <<>>]
    <2>1. /\ next.t = [kept EXCEPT ![key] = entry]
          /\ o = [alert |-> listed, passed |-> TRUE, held |-> TRUE]
      BY <1>0, <1>6
    <2>2. /\ listed.key = key /\ listed.ts = ts
          /\ listed.ids = Merged(a.ids, t[key].merged, Len(a.ids) + MaxMerged)
      BY <1>1
    <2> HIDE DEF listed
    <2>3. o.alert = listed /\ o.passed = TRUE /\ o.held = TRUE
      BY <2>1
    <2>4. h[key].ts + AlertDedup <= ts /\ h[key].ts \in Nat
      BY <1>4, <1>6, SinceIs
    <2>5. EntryKept(entry, key, {})
      <3>1. IsSeq(<<>>) /\ IsInjective(<<>>) /\ Range(<<>>) = {} /\ Len(<<>>) = 0
        BY DEF IsSeq, IsInjective, Range
      <3> QED BY <1>2, <2>2, <3>1 DEF EntryKept
    <2>6. entry.alert.ts = ts /\ entry.alert.ts >= t[key].alert.ts
      BY <1>2, <1>4, <1>6, <2>2, <2>4
    <2>7. /\ DOMAIN next.t = Young(t, key, ts)
          /\ next.t[key] = entry
          /\ \A k \in DOMAIN next.t : k # key => next.t[k] = t[k]
      <3> HIDE DEF kept, entry
      <3> QED BY <1>4, <1>6, <2>1
    <2>8. Remembered(h, o) = Put(h, key, [ts |-> entry.alert.ts, owed |-> {}])
      BY <2>2, <2>3, <2>6 DEF Remembered
    <2> HIDE DEF entry
    <2>9. /\ Throttled(next.t, Put(h, key, [ts |-> entry.alert.ts, owed |-> {}]), now)
          /\ \A other : \A since \in Nat :
                FullOfOthers(t, other, since) /\ ts < since => FullOfOthers(next.t, other, since)
      <3>1. IsFiniteSet({})
        BY FS_EmptySet
      <3> QED BY <1>6, <2>5, <2>6, <2>7, <3>1, UpdateThrottled
    <2>10. said = h[key]
      BY <1>4, <1>6, <2>2, <2>3 DEF ToldOf
    <2>11. Cardinality(said.owed) <= MaxMerged => said.owed \subseteq Range(listed.ids)
      <3> DEFINE old == t[key].merged
                 room == Len(a.ids) + MaxMerged
      <3>1. /\ IsSeq(old) /\ Len(old) <= MaxMerged
            /\ Cardinality(h[key].owed) <= MaxMerged => h[key].owed \subseteq Range(old)
        BY <1>4, <1>6 DEF EntryKept
      <3>2. Len(a.ids) \in Nat /\ Len(old) \in Nat /\ DOMAIN old = 1 .. Len(old)
        BY <1>1, <3>1, SeqFacts
      <3>3. room \in Nat
        BY <1>2, <3>2
      <3>4. MergedSoFar(a.ids, old, room, listed.ids, Len(old))
        BY <1>1, <2>2, <3>1, <3>3, MergedWorks
      <3>5. \A j \in 1 .. Len(old) : old[j] \in Range(listed.ids)
        <4>1. Len(a.ids) + Len(old) <= room
          BY <1>2, <3>1, <3>2
        <4> HIDE DEF room, old
        <4> QED BY <3>4, <4>1 DEF MergedSoFar
      <3>6. Range(old) \subseteq Range(listed.ids)
        BY <3>2, <3>5 DEF Range
      <3> QED BY <2>10, <3>1, <3>6
    <2> QED BY <1>2, <2>1, <2>2, <2>3, <2>4, <2>8, <2>9, <2>10, <2>11
  <1> QED BY <1>3, <1>5, <1>6

\* The tables a run through the throttler goes through, from t to that of e.
Trail(t, findings, pressure, e, n, trail) ==
    /\ IsSeq(e.outcomes)
    /\ Len(e.outcomes) = n
    /\ trail[0] = t
    /\ trail[n] = e.t
    /\ \A i \in 1 .. n :
          \E next \in Project(trail[i - 1], findings[i], pressure) :
              trail[i] = next.t /\ e.outcomes[i] = next.outcome

LEMMA EmitHasTrail ==
    ASSUME NEW t, NEW findings, IsSeq(findings), NEW pressure,
           NEW e \in Emit(t, findings, pressure)
    PROVE  \E trail : Trail(t, findings, pressure, e, Len(findings), trail)
  <1> DEFINE N == Len(findings)
             start == [t |-> t, outcomes |-> <<>>]
             then(sofar, next) == [t |-> next.t, outcomes |-> Append(sofar.outcomes, next.outcome)]
             Step(S, i) == UNION {{then(sofar, next) :
                                      next \in Project(sofar.t, findings[i], pressure)} :
                                  sofar \in S}
             Emits(f, n) == f = [i \in 0 .. n |-> IF i = 0 THEN {start} ELSE Step(f[i - 1], i)]
             F == CHOOSE f : Emits(f, N)
             Trailed(x, n) == \E trail : Trail(t, findings, pressure, x, n, trail)
  <1>1. N \in Nat
    BY SeqFacts
  <1>2. Emit(t, findings, pressure) = F[N]
    BY DEF Emit
  <1>3. ASSUME NEW S, NEW i \in 1 .. N, \A x \in S : Trailed(x, i - 1)
        PROVE  \A x \in Step(S, i) : Trailed(x, i)
    <2> TAKE x \in Step(S, i)
    <2>0. PICK sofar \in S :
             x \in {then(sofar, next) : next \in Project(sofar.t, findings[i], pressure)}
      OBVIOUS
    <2>1. PICK next \in Project(sofar.t, findings[i], pressure) : x = then(sofar, next)
      BY <2>0
    <2>2. PICK trail : Trail(t, findings, pressure, sofar, i - 1, trail)
      BY <1>3
    <2>3. x.t = next.t /\ x.outcomes = Append(sofar.outcomes, next.outcome)
      BY <2>1
    <2> DEFINE longer == [k \in 0 .. i |-> IF k = i THEN next.t ELSE trail[k]]
    <2>4. /\ IsSeq(x.outcomes) /\ Len(x.outcomes) = i
          /\ x.outcomes[i] = next.outcome
          /\ \A k \in 1 .. i - 1 : x.outcomes[k] = sofar.outcomes[k]
      <3>1. IsSeq(sofar.outcomes) /\ Len(sofar.outcomes) = i - 1 /\ DOMAIN sofar.outcomes = 1 .. i - 1
        BY <2>2, SeqFacts DEF Trail
      <3> QED BY <1>1, <2>3, <3>1, AppendFacts
    <2>5. ASSUME NEW k \in 1 .. i
          PROVE  \E n \in Project(longer[k - 1], findings[k], pressure) :
                    longer[k] = n.t /\ x.outcomes[k] = n.outcome
      <3>1. CASE k = i
        <4>1. longer[k - 1] = sofar.t /\ longer[k] = next.t
          BY <1>1, <2>2, <3>1 DEF Trail
        <4> HIDE DEF longer
        <4> QED BY <2>4, <3>1, <4>1
      <3>2. CASE k # i
        <4>1. longer[k - 1] = trail[k - 1] /\ longer[k] = trail[k] /\ k \in 1 .. i - 1
          BY <1>1, <3>2
        <4> HIDE DEF longer
        <4> QED BY <2>2, <2>4, <4>1 DEF Trail
      <3> QED BY <3>1, <3>2
    <2>6. longer[0] = t /\ longer[i] = x.t
      BY <1>1, <2>2, <2>3 DEF Trail
    <2> HIDE DEF longer
    <2>7. Trail(t, findings, pressure, x, i, longer)
      BY <2>4, <2>5, <2>6 DEF Trail
    <2> QED BY <2>7
  <1>4. \A x \in {start} : Trailed(x, 0)
    <2> DEFINE trail == [k \in {0} |-> t]
    <2>1. IsSeq(<<>>) /\ Len(<<>>) = 0
      BY DEF IsSeq
    <2>2. start.t = t /\ start.outcomes = <<>> /\ trail[0] = t
      OBVIOUS
    <2> HIDE DEF start, trail
    <2>3. Trail(t, findings, pressure, start, 0, trail)
      BY <2>1, <2>2 DEF Trail
    <2> QED BY <2>3
  <1> HIDE DEF Step, start
  <1>5. \E f : Emits(f, N)
    <2> DEFINE Missing == {n \in 0 .. N : ~\E f : Emits(f, n)}
    <2>1. ASSUME Missing # {}
          PROVE  FALSE
      <3>1. PICK n \in Missing : \A k \in Missing : n <= k
        <4>1. Missing \in SUBSET Nat
          OBVIOUS
        <4> HIDE DEF Missing
        <4> QED BY <2>1, <4>1, Least
      <3>2. n \in 0 .. N /\ ~\E f : Emits(f, n)
        BY <3>1
      <3>3. n # 0
        <4>1. Emits([i \in 0 .. 0 |-> {start}], 0)
          OBVIOUS
        <4> QED BY <3>2, <4>1
      <3>4. PICK f : Emits(f, n - 1)
        <4>1. n - 1 \in 0 .. N /\ n - 1 \notin Missing
          <5> HIDE DEF Missing, N
          <5> QED BY <1>1, <3>1, <3>2, <3>3
        <4> QED BY <4>1, Zenon
      <3> DEFINE g == [i \in 0 .. n |-> IF i = n THEN Step(f[n - 1], n) ELSE f[i]]
      <3>5. Emits(g, n)
        <4> HIDE DEF N
        <4>1. n \in Nat /\ n - 1 \in Nat /\ n # 0
          BY <1>1, <3>2, <3>3
        <4>2. \A i \in 0 .. n - 1 : f[i] = IF i = 0 THEN {start} ELSE Step(f[i - 1], i)
          BY <3>4
        <4>3. \A i \in 0 .. n : g[i] = IF i = 0 THEN {start} ELSE Step(g[i - 1], i)
          BY <4>1, <4>2
        <4>4. g = [i \in 0 .. n |-> g[i]]
          OBVIOUS
        <4> HIDE DEF g
        <4> QED BY <4>3, <4>4
      <3> QED BY <3>2, <3>5
    <2>2. N \in 0 .. N
      BY <1>1
    <2> HIDE DEF Emits, N
    <2> QED BY <2>1, <2>2
  <1>6. Emits(F, N)
    BY <1>5, Zenon
  <1> HIDE DEF F, N
  <1>7. F[0] = {start} /\ \A i \in 1 .. N : F[i] = Step(F[i - 1], i)
    BY <1>1, <1>6
  <1> HIDE DEF Trailed
  <1> DEFINE Right(i) == \A x \in F[i] : Trailed(x, i)
             Wrong == {i \in 0 .. N : ~Right(i)}
  <1>8. Right(0)
    BY <1>4, <1>7
  <1>9. \A i \in 1 .. N : Right(i - 1) => Right(i)
    BY <1>3, <1>7
  <1> HIDE DEF Right
  <1>10. Wrong = {}
    <2>1. SUFFICES ASSUME Wrong # {}
                   PROVE  FALSE
      OBVIOUS
    <2>2. PICK i \in Wrong : \A j \in Wrong : i <= j
      <3>1. Wrong \in SUBSET Nat
        OBVIOUS
      <3> HIDE DEF Wrong
      <3> QED BY <2>1, <3>1, Least
    <2> QED BY <1>1, <1>8, <1>9, <2>2
  <1>11. Right(N)
    BY <1>1, <1>10
  <1> QED BY <1>2, <1>11 DEF Right, Trailed, N

\* At least MaxThrottleEntries other keys were last told of at since or later.
Outnumbered(h, key, since) ==
    Cardinality({k \in DOMAIN h \ {key} : h[k].ts >= since}) >= MaxThrottleEntries

LEMMA FullOutnumbers ==
    ASSUME NEW t, NEW h, NEW now, Throttled(t, h, now), NEW key, NEW since \in Nat,
           FullOfOthers(t, key, since)
    PROVE  Outnumbered(h, key, since)
  <1> DEFINE S == {k \in DOMAIN h \ {key} : h[k].ts >= since}
  <1>1. DOMAIN t \in SUBSET S
    BY DEF Throttled, FullOfOthers
  <1>2. IsFiniteSet(S)
    BY FS_Subset DEF Throttled
  <1> HIDE DEF S
  <1>3. Cardinality(DOMAIN t) <= Cardinality(S)
    BY <1>1, <1>2, FS_Subset
  <1> QED BY <1>3 DEF FullOfOthers, Outnumbered, S

LEMMA OutnumberedStays ==
    ASSUME NEW h, IsFiniteSet(DOMAIN h), NEW key, NEW since \in Nat, NEW o,
           \A k \in DOMAIN h : h[k] = [ts |-> h[k].ts, owed |-> h[k].owed],
           o.passed => o.alert.ts >= since,
           Outnumbered(h, key, since)
    PROVE  Outnumbered(Remembered(h, o), key, since)
  <1> DEFINE nh == Remembered(h, o)
             S == {k \in DOMAIN h \ {key} : h[k].ts >= since}
             T == {k \in DOMAIN nh \ {key} : nh[k].ts >= since}
  <1>1. /\ DOMAIN nh = DOMAIN h \cup {o.alert.key}
        /\ \A k \in DOMAIN h : k # o.alert.key => nh[k] = h[k]
        /\ o.passed => nh[o.alert.key] = [ts |-> o.alert.ts, owed |-> {}]
        /\ ~o.passed => nh[o.alert.key] = [ToldOf(h, o.alert.key) EXCEPT
                                              !.owed = @ \cup Range(o.alert.ids)]
    BY DEF Remembered, Put
  <1>2. \A k \in S : k \in T
    <2> TAKE k \in S
    <2>1. CASE k # o.alert.key
      BY <1>1, <2>1
    <2>2. CASE k = o.alert.key /\ o.passed
      BY <1>1, <2>2
    <2>3. CASE k = o.alert.key /\ ~o.passed
      <3> DEFINE x == h[k].ts
                 y == h[k].owed
                 ids == Range(o.alert.ids)
      <3>0. nh[k] = [h[k] EXCEPT !.owed = y \cup ids]
        BY <1>1, <2>3 DEF ToldOf
      <3>1. nh[k].ts = h[k].ts
        <4>1. h[k] = [ts |-> x, owed |-> y]
          OBVIOUS
        <4> HIDE DEF x, y, ids, nh
        <4>2. [[ts |-> x, owed |-> y] EXCEPT !.owed = y \cup ids] = [ts |-> x, owed |-> y \cup ids]
          OBVIOUS
        <4>3. nh[k] = [ts |-> x, owed |-> y \cup ids]
          BY <3>0, <4>1, <4>2, Zenon
        <4> QED BY <4>1, <4>3 DEF x
      <3> QED BY <1>1, <2>3, <3>1
    <2> QED BY <2>1, <2>2, <2>3
  <1>3. IsFiniteSet(T)
    <2>1. IsFiniteSet(DOMAIN nh)
      BY <1>1, FS_AddElement
    <2> QED BY <2>1, FS_Subset
  <1> HIDE DEF S, T
  <1>4. S \in SUBSET T
    BY <1>2
  <1>5. IsFiniteSet(S) /\ Cardinality(S) <= Cardinality(T)
    BY <1>3, <1>4, FS_Subset
  <1>6. Cardinality(S) \in Nat /\ Cardinality(T) \in Nat
    BY <1>3, <1>5, FS_CardinalityType
  <1>7. Cardinality(S) >= MaxThrottleEntries
    BY DEF Outnumbered, S
  <1>8. Cardinality(T) >= MaxThrottleEntries
    BY <1>5, <1>6, <1>7, ThrottleAssumption
  <1> QED BY <1>8 DEF Outnumbered, T

\* Why a key may be told of again: those of the keys in the table keep it out,
\* or those told of since.
Excused(t, h, key, since, ts) ==
    /\ since \in Nat
    /\ IF ts < since THEN FullOfOthers(t, key, since) ELSE Outnumbered(h, key, since)

\* The outcome o of an event of the time ts, with what was told of its key
\* before, when table and history have become t and h.
OutcomeFine(o, said, t, h, ts, now) ==
    /\ o = [alert |-> o.alert, passed |-> o.passed, held |-> o.held]
    /\ o.alert.ts = ts
    /\ o.passed => \/ said.ts < 0
                   \/ said.ts \in Nat /\ said.ts + AlertDedup <= now
                   \/ Excused(t, h, o.alert.key, said.ts, ts)
    /\ (o.passed /\ o.held /\ Cardinality(said.owed) <= MaxMerged)
          => said.owed \subseteq Range(o.alert.ids)

\* One outcome more leaves the earlier ones excused.
LEMMA ExcusedStays ==
    ASSUME NEW t, NEW h, NEW now \in Nat, Throttled(t, h, now),
           NEW ts \in Nat, ts <= now, NEW finding, IsFinding(finding, ts), NEW pressure,
           NEW next \in Project(t, finding, pressure),
           NEW key, NEW since, Excused(t, h, key, since, ts)
    PROVE  Excused(next.t, Remembered(h, next.outcome), key, since, ts)
  <1> DEFINE o == next.outcome
             said == ToldOf(h, o.alert.key)
  <1>1. since \in Nat
    BY DEF Excused
  <1>2. /\ o.alert.ts = ts
        /\ \A other : \A n \in Nat :
              FullOfOthers(t, other, n) /\ ts < n => FullOfOthers(next.t, other, n)
    BY ProjectWorks
  <1>3. CASE ts < since
    BY <1>1, <1>2, <1>3 DEF Excused
  <1>4. CASE ~(ts < since)
    <2>1. o.passed => o.alert.ts >= since
      BY <1>1, <1>2, <1>4
    <2>2. /\ IsFiniteSet(DOMAIN h)
          /\ \A k \in DOMAIN h : h[k] = [ts |-> h[k].ts, owed |-> h[k].owed]
      BY DEF Throttled
    <2>3. Outnumbered(h, key, since)
      BY <1>4 DEF Excused
    <2> HIDE DEF o
    <2>4. Outnumbered(Remembered(h, o), key, since)
      BY <1>1, <2>1, <2>2, <2>3, OutnumberedStays
    <2> QED BY <1>1, <1>4, <2>4 DEF Excused, o
  <1> QED BY <1>3, <1>4

LEMMA OutcomeWorks ==
    ASSUME NEW t, NEW h, NEW now \in Nat, Throttled(t, h, now),
           NEW ts \in Nat, ts <= now, NEW finding, IsFinding(finding, ts), NEW pressure,
           NEW next \in Project(t, finding, pressure)
    PROVE  /\ Throttled(next.t, Remembered(h, next.outcome), now)
           /\ OutcomeFine(next.outcome, ToldOf(h, next.outcome.alert.key),
                          next.t, Remembered(h, next.outcome), ts, now)
  <1> DEFINE o == next.outcome
             said == ToldOf(h, o.alert.key)
             key == o.alert.key
  <1>1. /\ o = [alert |-> o.alert, passed |-> o.passed, held |-> o.held]
        /\ o.alert.ts = ts
        /\ Throttled(next.t, Remembered(h, o), now)
        /\ o.passed => \/ said.ts < 0
                       \/ said.ts \in Nat /\ said.ts + AlertDedup <= now
                       \/ said.ts \in Nat /\ FullOfOthers(t, key, said.ts)
        /\ (o.passed /\ o.held /\ Cardinality(said.owed) <= MaxMerged)
              => said.owed \subseteq Range(o.alert.ids)
    BY ProjectWorks
  <1>2. ASSUME said.ts \in Nat, FullOfOthers(t, key, said.ts)
        PROVE  Excused(next.t, Remembered(h, o), key, said.ts, ts)
    <2>1. Outnumbered(h, key, said.ts)
      BY <1>2, FullOutnumbers
    <2>2. Excused(t, h, key, said.ts, ts)
      BY <1>2, <2>1 DEF Excused
    <2> QED BY <2>2, ExcusedStays
  <1> HIDE DEF o, said, key
  <1>3. OutcomeFine(o, said, next.t, Remembered(h, o), ts, now)
    BY <1>1, <1>2 DEF OutcomeFine, key
  <1> QED BY <1>1, <1>3 DEF o, said, key

\* All the findings of an event through the throttler.
LEMMA EmitWorks ==
    ASSUME NEW t, NEW h, NEW now \in Nat, Throttled(t, h, now),
           NEW ts \in Nat, ts <= now,
           NEW findings, IsSeq(findings), \A i \in DOMAIN findings : IsFinding(findings[i], ts),
           NEW pressure, NEW e \in Emit(t, findings, pressure),
           NEW n, n = Len(e.outcomes), NEW H,
           H[0] = h, \A i \in 1 .. n : H[i] = Remembered(H[i - 1], e.outcomes[i])
    PROVE  /\ IsSeq(e.outcomes)
           /\ Throttled(e.t, H[n], now)
           /\ \A j \in 1 .. n : OutcomeFine(e.outcomes[j],
                                            ToldOf(H[j - 1], e.outcomes[j].alert.key),
                                            e.t, H[n], ts, now)
  <1>1. PICK trail : Trail(t, findings, pressure, e, Len(findings), trail)
    BY EmitHasTrail
  <1>2. /\ n \in Nat /\ n = Len(findings) /\ DOMAIN findings = 1 .. n
        /\ IsSeq(e.outcomes)
        /\ trail[0] = t /\ trail[n] = e.t
        /\ \A i \in 1 .. n :
              \E next \in Project(trail[i - 1], findings[i], pressure) :
                  trail[i] = next.t /\ e.outcomes[i] = next.outcome
    BY <1>1, SeqFacts DEF Trail
  <1> DEFINE Said(j) == ToldOf(H[j - 1], e.outcomes[j].alert.key)
             Fine(j, i) == OutcomeFine(e.outcomes[j], Said(j), trail[i], H[i], ts, now)
             Right(i) == /\ Throttled(trail[i], H[i], now)
                         /\ \A j \in 1 .. i : Fine(j, i)
             Wrong == {i \in 0 .. n : ~Right(i)}
  <1>3. Right(0)
    BY <1>2
  <1>4. ASSUME NEW i \in 1 .. n, Right(i - 1)
        PROVE  Right(i)
    <2>1. PICK next \in Project(trail[i - 1], findings[i], pressure) :
             trail[i] = next.t /\ e.outcomes[i] = next.outcome
      BY <1>2
    <2>2. Throttled(trail[i - 1], H[i - 1], now) /\ IsFinding(findings[i], ts)
      BY <1>2, <1>4
    <2>3. H[i] = Remembered(H[i - 1], next.outcome)
      BY <2>1
    <2>4. /\ Throttled(next.t, Remembered(H[i - 1], next.outcome), now)
          /\ OutcomeFine(next.outcome, ToldOf(H[i - 1], next.outcome.alert.key),
                         next.t, Remembered(H[i - 1], next.outcome), ts, now)
      BY <2>2, OutcomeWorks
    <2>5. Throttled(trail[i], H[i], now) /\ Fine(i, i)
      BY <2>1, <2>3, <2>4
    <2>6. ASSUME NEW j \in 1 .. i - 1
          PROVE  Fine(j, i)
      <3> DEFINE o == e.outcomes[j]
      <3>1. OutcomeFine(o, Said(j), trail[i - 1], H[i - 1], ts, now)
        BY <1>4
      <3> HIDE DEF o, Said
      <3>2. \A key, since : Excused(trail[i - 1], H[i - 1], key, since, ts)
               => Excused(next.t, Remembered(H[i - 1], next.outcome), key, since, ts)
        BY <2>2, ExcusedStays
      <3>3. OutcomeFine(o, Said(j), trail[i], H[i], ts, now)
        BY <2>1, <2>3, <3>1, <3>2 DEF OutcomeFine
      <3> QED BY <3>3 DEF o
    <2> HIDE DEF Fine
    <2>7. \A j \in 1 .. i : Fine(j, i)
      BY <2>5, <2>6, <1>2
    <2> QED BY <2>5, <2>7
  <1> HIDE DEF Right
  <1>5. Wrong = {}
    <2>1. SUFFICES ASSUME Wrong # {}
                   PROVE  FALSE
      OBVIOUS
    <2>2. PICK i \in Wrong : \A j \in Wrong : i <= j
      <3>1. Wrong \in SUBSET Nat
        OBVIOUS
      <3> HIDE DEF Wrong
      <3> QED BY <2>1, <3>1, Least
    <2> QED BY <1>2, <1>3, <1>4, <2>2
  <1>6. Right(n)
    BY <1>2, <1>5
  <1> QED BY <1>2, <1>6 DEF Right

LEMMA ThrottledLater ==
    ASSUME NEW t, NEW h, NEW now \in Nat, NEW later \in Nat, now <= later, Throttled(t, h, now)
    PROVE  Throttled(t, h, later)
  <1>1. AlertDedup \in Nat
    BY ThrottleAssumption
  <1>2. \A key \in DOMAIN h : h[key].ts \in Nat
    BY DEF Throttled
  <1>3. \A key \in DOMAIN h : h[key].ts + AlertDedup <= now => h[key].ts + AlertDedup <= later
    BY <1>1, <1>2
  <1> QED BY <1>3 DEF Throttled

\* The history after each of the outcomes.
History(h, list, n, f) ==
    f = [i \in 0 .. n |-> IF i = 0 THEN h ELSE Remembered(f[i - 1], list[i])]

LEMMA HistoryGrows ==
    ASSUME NEW h, NEW list, NEW n \in Nat, NEW H, History(h, list, n, H)
    PROVE  H[0] = h /\ \A i \in 1 .. n : H[i] = Remembered(H[i - 1], list[i])
  <1> DEFINE More(m, i) == Remembered(m, list[i])
  <1>1. H = [i \in 0 .. n |-> IF i = 0 THEN h ELSE More(H[i - 1], i)]
    BY DEF History
  <1> HIDE DEF More
  <1>2. H[0] = h
    BY <1>1
  <1>3. \A i \in 1 .. n : H[i] = More(H[i - 1], i)
    BY <1>1
  <1> QED BY <1>2, <1>3 DEF More

LEMMA HistoryExists ==
    ASSUME NEW h, NEW list, NEW n \in Nat
    PROVE  \E f : History(h, list, n, f)
  <1> DEFINE More(m, i) == Remembered(m, list[i])
             Grows(f, k) == f = [i \in 0 .. k |-> IF i = 0 THEN h ELSE More(f[i - 1], i)]
  <1> HIDE DEF More
  <1>2. \E f : Grows(f, n)
    <2> DEFINE Missing == {k \in 0 .. n : ~\E f : Grows(f, k)}
    <2>1. ASSUME Missing # {}
          PROVE  FALSE
      <3>1. PICK k \in Missing : \A l \in Missing : k <= l
        <4>1. Missing \in SUBSET Nat
          OBVIOUS
        <4> HIDE DEF Missing
        <4> QED BY <2>1, <4>1, Least
      <3>2. k \in 0 .. n /\ ~\E f : Grows(f, k)
        BY <3>1
      <3>3. k # 0
        <4>1. Grows([i \in 0 .. 0 |-> h], 0)
          OBVIOUS
        <4> QED BY <3>2, <4>1
      <3>4. PICK f : Grows(f, k - 1)
        <4>1. k - 1 \in 0 .. n /\ k - 1 \notin Missing
          <5> HIDE DEF Missing
          <5> QED BY <3>1, <3>2, <3>3
        <4> QED BY <4>1, Zenon
      <3> DEFINE g == [i \in 0 .. k |-> IF i = k THEN More(f[k - 1], k) ELSE f[i]]
      <3>5. Grows(g, k)
        BY <3>2, <3>3, <3>4
      <3> QED BY <3>2, <3>5
    <2> HIDE DEF Grows
    <2> QED BY <2>1
  <1> QED BY <1>2 DEF History, More

LEMMA TellWorks ==
    ASSUME NEW now \in Nat, Throttled(throttle, told, now),
           NEW ts \in Nat, ts <= now, now <= ts + Lag,
           NEW findings, IsSeq(findings), \A i \in DOMAIN findings : IsFinding(findings[i], ts),
           NEW pressure, Tell(findings, pressure)
    PROVE  /\ Throttled(throttle', told', now)
           /\ AlertsAreApart'
           /\ HeldBackIsListed'
  <1> DEFINE NewOutcomes(e, H) ==
                 [i \in DOMAIN e.outcomes |->
                     Put(e.outcomes[i], "before", ToldOf(H[i - 1], e.outcomes[i].alert.key))]
             Lasting(e) == CHOOSE f : History(told, e.outcomes, Len(e.outcomes), f)
  <1>1. PICK e \in Emit(throttle, findings, pressure) :
           /\ throttle' = e.t
           /\ outcomes' = NewOutcomes(e, Lasting(e))
           /\ told' = Lasting(e)[Len(e.outcomes)]
    BY DEF Tell, History
  <1> DEFINE n == Len(e.outcomes)
             H == Lasting(e)
  <1>2. n \in Nat /\ DOMAIN e.outcomes = 1 .. n
    <2>1. PICK trail : Trail(throttle, findings, pressure, e, Len(findings), trail)
      BY EmitHasTrail
    <2> QED BY <2>1, SeqFacts DEF Trail
  <1>3. H[0] = told /\ \A i \in 1 .. n : H[i] = Remembered(H[i - 1], e.outcomes[i])
    <2>1. \E f : History(told, e.outcomes, n, f)
      BY <1>2, HistoryExists
    <2>2. History(told, e.outcomes, n, H)
      BY <2>1, Zenon
    <2> HIDE DEF n, H
    <2>3. n \in Nat
      BY <1>2
    <2>4. ASSUME NEW list, NEW f, NEW h, History(h, list, n, f)
          PROVE  f[0] = h /\ \A i \in 1 .. n : f[i] = Remembered(f[i - 1], list[i])
      BY <2>3, <2>4, HistoryGrows
    <2>5. H[0] = told
      BY <2>2, <2>4
    <2> QED BY <2>2, <2>4
  <1>4. throttle' = e.t /\ told' = H[n] /\ outcomes' = NewOutcomes(e, H)
    BY <1>1
  <1> HIDE DEF H
  <1>5. /\ Throttled(e.t, H[n], now)
        /\ \A j \in 1 .. n : OutcomeFine(e.outcomes[j],
                                         ToldOf(H[j - 1], e.outcomes[j].alert.key),
                                         e.t, H[n], ts, now)
    <2>1. n = Len(e.outcomes)
      OBVIOUS
    <2> HIDE DEF n
    <2> QED BY <1>3, <2>1, EmitWorks
  <1>6. ASSUME NEW i \in DOMAIN outcomes'
        PROVE  \E o, said :
                  /\ outcomes'[i].alert = o.alert /\ outcomes'[i].passed = o.passed
                  /\ outcomes'[i].held = o.held /\ outcomes'[i].before = said
                  /\ OutcomeFine(o, said, throttle', told', ts, now)
    <2> DEFINE o == e.outcomes[i]
               said == ToldOf(H[i - 1], o.alert.key)
    <2>1. i \in 1 .. n /\ outcomes'[i] = Put(o, "before", said)
      BY <1>2, <1>4
    <2>2. OutcomeFine(o, said, throttle', told', ts, now)
      BY <1>4, <1>5, <2>1
    <2> HIDE DEF o, said
    <2> DEFINE x == o.alert
               y == o.passed
               z == o.held
    <2>3. o = [alert |-> x, passed |-> y, held |-> z]
      BY <2>2 DEF OutcomeFine
    <2> HIDE DEF x, y, z
    <2>4. /\ Put(o, "before", said).alert = x
          /\ Put(o, "before", said).passed = y
          /\ Put(o, "before", said).held = z
          /\ Put(o, "before", said).before = said
      BY <2>3 DEF Put
    <2>5. x = o.alert /\ y = o.passed /\ z = o.held
      BY DEF x, y, z
    <2> QED BY <2>1, <2>2, <2>4, <2>5
  <1>7. AlertsAreApart'
    <2> SUFFICES ASSUME NEW i \in DOMAIN outcomes'
                 PROVE  \/ ~outcomes'[i].passed
                        \/ outcomes'[i].before.ts < 0
                        \/ outcomes'[i].alert.ts + Lag >= outcomes'[i].before.ts + AlertDedup
                        \/ Outnumbered(told', outcomes'[i].alert.key, outcomes'[i].before.ts)
      BY DEF AlertsAreApart, Outnumbered
    <2>1. PICK o, said :
             /\ outcomes'[i].alert = o.alert /\ outcomes'[i].passed = o.passed
             /\ outcomes'[i].held = o.held /\ outcomes'[i].before = said
             /\ OutcomeFine(o, said, throttle', told', ts, now)
      BY <1>6
    <2>2. /\ o.alert.ts = ts
          /\ o.passed => \/ said.ts < 0
                         \/ said.ts \in Nat /\ said.ts + AlertDedup <= now
                         \/ Excused(throttle', told', o.alert.key, said.ts, ts)
      BY <2>1 DEF OutcomeFine
    <2>3. said.ts \in Nat /\ said.ts + AlertDedup <= now => ts + Lag >= said.ts + AlertDedup
      BY AlertingAssumption, ThrottleAssumption
    <2>4. Excused(throttle', told', o.alert.key, said.ts, ts)
             => Outnumbered(told', o.alert.key, said.ts)
      BY <1>4, <1>5, FullOutnumbers DEF Excused
    <2> QED BY <2>1, <2>2, <2>3, <2>4
  <1>8. HeldBackIsListed'
    <2> SUFFICES ASSUME NEW i \in DOMAIN outcomes',
                        outcomes'[i].passed, outcomes'[i].held,
                        Cardinality(outcomes'[i].before.owed) <= MaxMerged
                 PROVE  outcomes'[i].before.owed \subseteq Range(outcomes'[i].alert.ids)
      BY DEF HeldBackIsListed
    <2> QED BY <1>6 DEF OutcomeFine
  <1> QED BY <1>4, <1>5, <1>7, <1>8
-----------------------------------------------------------------------------
(* What the detectors find is stamped with the time of the event.          *)

AreFindings(findings, ts) ==
    /\ IsSeq(findings)
    /\ \A i \in DOMAIN findings : IsFinding(findings[i], ts)

LEMMA ConcatFacts ==
    ASSUME NEW r, IsSeq(r), NEW s, IsSeq(s)
    PROVE  /\ IsSeq(r \o s)
           /\ Len(r \o s) = Len(r) + Len(s)
           /\ \A i \in DOMAIN (r \o s) :
                 (r \o s)[i] = IF i <= Len(r) THEN r[i] ELSE s[i - Len(r)]
           /\ Range(r \o s) = Range(r) \cup Range(s)
  <1> DEFINE S == Range(r) \cup Range(s)
             c == r \o s
  <1>1. r \in Seq(S) /\ s \in Seq(S)
    BY DEF IsSeq
  <1>2. /\ c \in Seq(S)
        /\ Len(c) = Len(r) + Len(s)
        /\ DOMAIN c = 1 .. Len(r) + Len(s)
        /\ \A i \in DOMAIN c : c[i] = IF i <= Len(r) THEN r[i] ELSE s[i - Len(r)]
        /\ DOMAIN r = 1 .. Len(r) /\ DOMAIN s = 1 .. Len(s)
        /\ Len(r) \in Nat /\ Len(s) \in Nat
    BY <1>1
  <1> HIDE DEF c
  <1>3. Range(c) = S
    <2>1. ASSUME NEW i \in DOMAIN r PROVE r[i] \in Range(c)
      BY <1>2 DEF Range
    <2>2. ASSUME NEW i \in DOMAIN s PROVE s[i] \in Range(c)
      <3>1. i + Len(r) \in DOMAIN c /\ c[i + Len(r)] = s[i]
        BY <1>2
      <3> QED BY <3>1 DEF Range
    <2>3. ASSUME NEW i \in DOMAIN c PROVE c[i] \in S
      BY <1>2 DEF Range
    <2> QED BY <2>1, <2>2, <2>3 DEF Range
  <1> QED BY <1>2, <1>3 DEF IsSeq, c

LEMMA ConcatFindings ==
    ASSUME NEW ts, NEW r, AreFindings(r, ts), NEW s, AreFindings(s, ts)
    PROVE  AreFindings(r \o s, ts)
  <1>1. IsSeq(r) /\ IsSeq(s)
    BY DEF AreFindings
  <1>2. Len(r) \in Nat /\ DOMAIN r = 1 .. Len(r) /\ Len(s) \in Nat /\ DOMAIN s = 1 .. Len(s)
    BY <1>1, SeqFacts
  <1> DEFINE c == r \o s
  <1>3. /\ IsSeq(c) /\ Len(c) = Len(r) + Len(s)
        /\ \A i \in DOMAIN c : c[i] = IF i <= Len(r) THEN r[i] ELSE s[i - Len(r)]
    BY <1>1, ConcatFacts
  <1> HIDE DEF c
  <1>4. DOMAIN c = 1 .. Len(c)
    BY <1>3, SeqFacts
  <1>5. ASSUME NEW i \in DOMAIN c
        PROVE  IsFinding(c[i], ts)
    BY <1>2, <1>3, <1>4 DEF AreFindings
  <1> QED BY <1>3, <1>5 DEF AreFindings, c

LEMMA NoFindings ==
    ASSUME NEW ts
    PROVE  AreFindings(<<>>, ts)
  <1>1. IsSeq(<<>>) /\ DOMAIN <<>> = {}
    BY DEF IsSeq
  <1> QED BY <1>1 DEF AreFindings

LEMMA OneFinding ==
    ASSUME NEW ts, NEW f, IsFinding(f, ts)
    PROVE  AreFindings(<<f>>, ts)
  <1> DEFINE s == <<f>>
  <1>1. s = [i \in 1 .. 1 |-> s[i]] /\ s[1] = f
    OBVIOUS
  <1> HIDE DEF s
  <1>2. IsSeq(s) /\ DOMAIN s = 1 .. 1
    BY <1>1, SeqByIndex
  <1>3. \A i \in DOMAIN s : s[i] = f
    BY <1>1, <1>2
  <1>4. AreFindings(s, ts)
    BY <1>2, <1>3 DEF AreFindings
  <1> QED BY <1>4 DEF s

LEMMA WhenFindings ==
    ASSUME NEW ts, NEW condition, NEW f, IsFinding(f, ts)
    PROVE  AreFindings(When(condition, f), ts)
  <1>1. When(condition, f) = <<f>> \/ When(condition, f) = <<>>
    BY DEF When
  <1> QED BY <1>1, NoFindings, OneFinding

\* A finding made by another with some fields replaced.
LEMMA FindingExcept ==
    ASSUME NEW ts, NEW f, IsFinding(f, ts), NEW object, NEW ids, IsSeq(ids), NEW visibility,
           NEW score
    PROVE  /\ IsFinding([f EXCEPT !.object = object], ts)
           /\ IsFinding([f EXCEPT !.object = object, !.visibility = visibility,
                                  !.score = score], ts)
           /\ IsFinding([f EXCEPT !.ids = ids, !.visibility = visibility], ts)
  <1> DEFINE a == f.type
             b == f.session
             c == f.reason
             o == f.object
             i == f.ids
             v == f.visibility
             s == f.score
  <1>1. f = [type |-> a, session |-> b, ts |-> ts, reason |-> c, object |-> o, ids |-> i,
             visibility |-> v, score |-> s] /\ IsSeq(i)
    BY DEF IsFinding
  <1> HIDE DEF a, b, c, o, i, v, s
  <1> DEFINE Made(x, y, z, w) ==
                 [type |-> a, session |-> b, ts |-> ts, reason |-> c, object |-> x, ids |-> y,
                  visibility |-> z, score |-> w]
  <1>2. f = Made(o, i, v, s)
    BY <1>1
  <1>3. /\ [Made(o, i, v, s) EXCEPT !.object = object] = Made(object, i, v, s)
        /\ [Made(o, i, v, s) EXCEPT !.object = object, !.visibility = visibility,
                                    !.score = score] = Made(object, i, visibility, score)
        /\ [Made(o, i, v, s) EXCEPT !.ids = ids, !.visibility = visibility]
              = Made(o, ids, visibility, s)
    <2>1. \A x, y, z, w :
             /\ [Made(x, y, z, w) EXCEPT !.object = object] = Made(object, y, z, w)
             /\ [Made(x, y, z, w) EXCEPT !.ids = ids] = Made(x, ids, z, w)
             /\ [Made(x, y, z, w) EXCEPT !.visibility = visibility] = Made(x, y, visibility, w)
             /\ [Made(x, y, z, w) EXCEPT !.score = score] = Made(x, y, z, score)
      OBVIOUS
    <2>2. \A g : /\ [g EXCEPT !.object = object, !.visibility = visibility, !.score = score]
                        = [[[g EXCEPT !.object = object] EXCEPT !.visibility = visibility]
                              EXCEPT !.score = score]
                 /\ [g EXCEPT !.ids = ids, !.visibility = visibility]
                        = [[g EXCEPT !.ids = ids] EXCEPT !.visibility = visibility]
      OBVIOUS
    <2> HIDE DEF Made
    <2>3. [Made(o, i, v, s) EXCEPT !.object = object] = Made(object, i, v, s)
      BY <2>1
    <2>4. [Made(o, i, v, s) EXCEPT !.ids = ids, !.visibility = visibility]
             = Made(o, ids, visibility, s)
      <3>1. [Made(o, i, v, s) EXCEPT !.ids = ids, !.visibility = visibility]
               = [[Made(o, i, v, s) EXCEPT !.ids = ids] EXCEPT !.visibility = visibility]
        BY <2>2
      <3>2. [Made(o, i, v, s) EXCEPT !.ids = ids] = Made(o, ids, v, s)
        BY <2>1
      <3>3. [Made(o, ids, v, s) EXCEPT !.visibility = visibility] = Made(o, ids, visibility, s)
        BY <2>1
      <3> QED BY <3>1, <3>2, <3>3, Zenon
    <2>5. [Made(o, i, v, s) EXCEPT !.object = object, !.visibility = visibility, !.score = score]
             = Made(object, i, visibility, score)
      <3>1. [Made(o, i, v, s) EXCEPT !.object = object, !.visibility = visibility, !.score = score]
               = [[[Made(o, i, v, s) EXCEPT !.object = object] EXCEPT !.visibility = visibility]
                     EXCEPT !.score = score]
        BY <2>2
      <3>2. [Made(object, i, v, s) EXCEPT !.visibility = visibility]
               = Made(object, i, visibility, s)
        BY <2>1
      <3>3. [Made(object, i, visibility, s) EXCEPT !.score = score]
               = Made(object, i, visibility, score)
        BY <2>1
      <3> QED BY <2>3, <3>1, <3>2, <3>3, Zenon
    <2> QED BY <2>3, <2>4, <2>5
  <1>4. /\ [f EXCEPT !.object = object] = Made(object, i, v, s)
        /\ [f EXCEPT !.object = object, !.visibility = visibility, !.score = score]
              = Made(object, i, visibility, score)
        /\ [f EXCEPT !.ids = ids, !.visibility = visibility] = Made(o, ids, visibility, s)
    <2> HIDE DEF Made
    <2> QED BY <1>2, <1>3, Zenon
  <1>5. ASSUME NEW x, NEW y, IsSeq(y), NEW z, NEW w
        PROVE  IsFinding(Made(x, y, z, w), ts)
    BY <1>5 DEF IsFinding
  <1> HIDE DEF Made
  <1>6. /\ IsFinding(Made(object, i, v, s), ts)
        /\ IsFinding(Made(object, i, visibility, score), ts)
        /\ IsFinding(Made(o, ids, visibility, s), ts)
    BY <1>1, <1>5
  <1> QED BY <1>4, <1>6, Zenon

LEMMA PathFindings ==
    ASSUME NEW ev, NEW type, NEW reason
    PROVE  IsFinding(PathFinding(ev, type, reason), ev.ts)
  <1>1. IsSeq(<<ev.id>>)
    <2> DEFINE s == <<ev.id>>
    <2>1. s = [i \in 1 .. 1 |-> s[i]]
      OBVIOUS
    <2> HIDE DEF s
    <2>2. IsSeq(s)
      BY <2>1, SeqByIndex
    <2> QED BY <2>2 DEF s
  <1> QED BY <1>1 DEF PathFinding, IsFinding

LEMMA WithPromptFinding ==
    ASSUME NEW ts, NEW f, IsFinding(f, ts), NEW prompt
    PROVE  /\ IsFinding(WithPrompt(f, prompt), ts)
           /\ WithPrompt(f, prompt).type = f.type
  <1> DEFINE ids == Append(f.ids, prompt.id)
             visibility == IF prompt.visibility = "partial" THEN "partial" ELSE f.visibility
             g == [f EXCEPT !.ids = ids, !.visibility = visibility]
  <1>1. IsSeq(ids)
    BY AppendFacts DEF IsFinding
  <1>2. "ids" \in DOMAIN f /\ "visibility" \in DOMAIN f /\ "type" \in DOMAIN f
    BY DEF IsFinding
  <1>3. WithPrompt(f, prompt) = f \/ WithPrompt(f, prompt) = g
    BY <1>2 DEF WithPrompt
  <1> HIDE DEF ids, visibility
  <1>4. IsFinding(g, ts)
    BY <1>1, FindingExcept
  <1>5. g.type = f.type
    BY <1>2
  <1> HIDE DEF g
  <1> QED BY <1>3, <1>4, <1>5

\* By induction over the prompts: a finding stays one, and of its type.
LEMMA WithPromptsFindings ==
    ASSUME NEW ts, NEW f, IsFinding(f, ts), NEW prompts, IsSeq(prompts)
    PROVE  /\ IsFinding(WithPrompts(f, prompts), ts)
           /\ WithPrompts(f, prompts).type = f.type
  <1> DEFINE Grows(h, n) == h = [i \in 0 .. n |->
                                   IF i = 0 THEN f ELSE WithPrompt(h[i - 1], prompts[i])]
             F == CHOOSE h : Grows(h, Len(prompts))
             Right(i) == IsFinding(F[i], ts) /\ F[i].type = f.type
             Missing == {n \in 0 .. Len(prompts) : ~\E h : Grows(h, n)}
             Wrong == {i \in 0 .. Len(prompts) : ~Right(i)}
  <1>1. Len(prompts) \in Nat
    BY SeqFacts
  <1>2. WithPrompts(f, prompts) = F[Len(prompts)]
    BY DEF WithPrompts
  <1>3. \E h : Grows(h, Len(prompts))
    <2>1. ASSUME Missing # {}
          PROVE  FALSE
      <3>1. PICK n \in Missing : \A k \in Missing : n <= k
        <4>1. Missing \in SUBSET Nat
          OBVIOUS
        <4> HIDE DEF Missing
        <4> QED BY <2>1, <4>1, Least
      <3>2. n \in 0 .. Len(prompts) /\ ~\E h : Grows(h, n)
        BY <3>1
      <3>3. n # 0
        <4>1. Grows([i \in 0 .. 0 |-> f], 0)
          OBVIOUS
        <4> QED BY <3>2, <4>1
      <3>4. PICK h : Grows(h, n - 1)
        <4>1. n - 1 \in 0 .. Len(prompts) /\ n - 1 \notin Missing
          <5> HIDE DEF Missing
          <5> QED BY <1>1, <3>1, <3>2, <3>3
        <4> QED BY <4>1, Zenon
      <3> DEFINE g == [i \in 0 .. n |-> IF i = n THEN WithPrompt(h[n - 1], prompts[n]) ELSE h[i]]
      <3>5. Grows(g, n)
        BY <3>2, <3>3, <3>4
      <3> QED BY <3>2, <3>5
    <2>2. Len(prompts) \in 0 .. Len(prompts)
      BY <1>1
    <2> HIDE DEF Grows
    <2> QED BY <2>1, <2>2
  <1>4. Grows(F, Len(prompts))
    <2> HIDE DEF Grows
    <2> QED BY <1>3, Zenon
  <1> HIDE DEF F
  <1>5. F[0] = f /\ \A i \in 1 .. Len(prompts) : F[i] = WithPrompt(F[i - 1], prompts[i])
    BY <1>1, <1>4
  <1>6. Right(0) /\ \A i \in 1 .. Len(prompts) : Right(i - 1) => Right(i)
    BY <1>5, WithPromptFinding
  <1> HIDE DEF Right
  <1>7. Wrong = {}
    <2>1. SUFFICES ASSUME Wrong # {}
                   PROVE  FALSE
      OBVIOUS
    <2>2. PICK i \in Wrong : \A j \in Wrong : i <= j
      <3>1. Wrong \in SUBSET Nat
        OBVIOUS
      <3> HIDE DEF Wrong
      <3> QED BY <2>1, <3>1, Least
    <2> QED BY <1>1, <1>6, <2>2
  <1>8. Right(Len(prompts))
    BY <1>1, <1>7
  <1> QED BY <1>2, <1>8 DEF Right

LEMMA McpFindings ==
    ASSUME NEW ev, ev.spoofed \in Nat
    PROVE  AreFindings(McpToolSpoofing(ev), ev.ts)
  <1> DEFINE s == McpToolSpoofing(ev)
             f == [PathFinding(ev, "McpToolSpoofing", "mcp_tool_name_collision") EXCEPT
                      !.object = NoObject]
  <1>1. s = [i \in 1 .. ev.spoofed |-> s[i]] /\ \A i \in 1 .. ev.spoofed : s[i] = f
    BY DEF McpToolSpoofing
  <1>2. IsFinding(f, ev.ts)
    <2>1. IsSeq(<<>>)
      BY DEF IsSeq
    <2> QED BY <2>1, PathFindings, FindingExcept
  <1> HIDE DEF s, f
  <1>3. IsSeq(s) /\ DOMAIN s = 1 .. ev.spoofed
    BY <1>1, SeqByIndex
  <1>4. AreFindings(s, ev.ts)
    BY <1>1, <1>2, <1>3 DEF AreFindings
  <1> QED BY <1>4 DEF s

LEMMA LoopFindings ==
    ASSUME NEW session, NEW s, NEW repeats, NEW now
    PROVE  IsFinding(LoopFinding(session, s, repeats, now), now)
  <1> DEFINE first(kind, counts, threshold) ==
                 IF ~Reaches(counts, threshold) THEN <<>>
                 ELSE <<s.events[CHOOSE i \in DOMAIN s.events :
                            /\ s.events[i].kind = kind /\ s.events[i].object = Top(counts)
                            /\ \A j \in 1 .. i - 1 : ~(s.events[j].kind = kind
                                                      /\ s.events[j].object = Top(counts))]>>
             file == first("file_access", s.files, FileThreshold)
             connect == first("net_connect", s.connects, ConnectThreshold)
             evidence == connect \o file
             prompt == IF repeats >= PromptThreshold THEN <<RepeatedPrompt>> ELSE <<>>
             ids == [i \in DOMAIN evidence |-> evidence[i].id] \o prompt
  <1>1. \A x : IsSeq(<<x>>)
    <2> TAKE x
    <2> DEFINE q == <<x>>
    <2>1. q = [i \in 1 .. 1 |-> q[i]]
      OBVIOUS
    <2> HIDE DEF q
    <2>2. IsSeq(q)
      BY <2>1, SeqByIndex
    <2> QED BY <2>2 DEF q
  <1>2. IsSeq(<<>>)
    BY DEF IsSeq
  <1>3. \A kind, counts, threshold : IsSeq(first(kind, counts, threshold))
    BY <1>1, <1>2
  <1>4. IsSeq(file) /\ IsSeq(connect)
    <2> HIDE DEF first
    <2> QED BY <1>3
  <1>5. LoopFinding(session, s, repeats, now) =
           [type |-> "SingleAgentDeadloop", session |-> session, ts |-> now,
            reason |-> "deadloop_core_no_progress",
            object |-> IF file = <<>> THEN 0 ELSE file[1].object,
            ids |-> ids, visibility |-> "full", score |-> 0]
    BY DEF LoopFinding
  <1>6. IsSeq(ids)
    <2>1. IsSeq(prompt)
      BY <1>1, <1>2
    <2>2. IsSeq(evidence)
      <3> HIDE DEF file, connect
      <3> QED BY <1>4, ConcatFacts
    <2> HIDE DEF prompt, evidence
    <2>3. Len(evidence) \in Nat /\ DOMAIN evidence = 1 .. Len(evidence)
      BY <2>2, SeqFacts
    <2> DEFINE q == [i \in DOMAIN evidence |-> evidence[i].id]
    <2>4. q = [i \in 1 .. Len(evidence) |-> q[i]]
      BY <2>3
    <2> HIDE DEF q
    <2>5. IsSeq(q)
      BY <2>3, <2>4, SeqByIndex
    <2>6. IsSeq(q \o prompt)
      BY <2>1, <2>5, ConcatFacts
    <2> QED BY <2>6 DEF q
  <1> HIDE DEF file, ids
  <1> QED BY <1>5, <1>6 DEF IsFinding

\* Findings put one after the other.
LEMMA FlattenFindings ==
    ASSUME NEW ts, NEW n \in Nat, NEW seqs, seqs = [i \in 1 .. n |-> seqs[i]],
           \A i \in 1 .. n : AreFindings(seqs[i], ts)
    PROVE  AreFindings(FlattenSeq(seqs), ts)
  <1> DEFINE More(m, i) == m \o seqs[i]
             Grows(f, k) == f = [i \in 1 .. k |-> IF i = 1 THEN seqs[i] ELSE More(f[i - 1], i)]
             F == CHOOSE f : Grows(f, n)
  <1>1. IsSeq(seqs) /\ Len(seqs) = n /\ DOMAIN seqs = 1 .. n
    BY SeqByIndex
  <1>2. CASE n = 0
    <2>1. FlattenSeq(seqs) = seqs
      BY <1>1, <1>2 DEF FlattenSeq
    <2> QED BY <1>1, <1>2, <2>1 DEF AreFindings
  <1>3. CASE n # 0
    <2>1. FlattenSeq(seqs) = F[n]
      BY <1>1, <1>3 DEF FlattenSeq
    <2>2. \A m : \A i \in 1 .. n : AreFindings(m, ts) => AreFindings(More(m, i), ts)
      BY ConcatFindings
    <2> HIDE DEF More
    <2>3. \E f : Grows(f, n)
      <3> DEFINE Missing == {k \in 1 .. n : ~\E f : Grows(f, k)}
      <3>1. ASSUME Missing # {}
            PROVE  FALSE
        <4>1. PICK k \in Missing : \A l \in Missing : k <= l
          <5>1. Missing \in SUBSET Nat
            OBVIOUS
          <5> HIDE DEF Missing
          <5> QED BY <3>1, <5>1, Least
        <4>2. k \in 1 .. n /\ ~\E f : Grows(f, k)
          BY <4>1
        <4>3. k # 1
          <5>1. Grows([i \in 1 .. 1 |-> seqs[i]], 1)
            OBVIOUS
          <5> QED BY <4>2, <5>1
        <4>4. PICK f : Grows(f, k - 1)
          <5>1. k - 1 \in 1 .. n /\ k - 1 \notin Missing
            <6> HIDE DEF Missing
            <6> QED BY <4>1, <4>2, <4>3
          <5> QED BY <5>1, Zenon
        <4> DEFINE g == [i \in 1 .. k |-> IF i = k THEN More(f[k - 1], k) ELSE f[i]]
        <4>5. Grows(g, k)
          <5>1. k \in Nat /\ k - 1 \in Nat /\ k # 1
            BY <4>2, <4>3
          <5>2. \A i \in 1 .. k - 1 : f[i] = IF i = 1 THEN seqs[i] ELSE More(f[i - 1], i)
            BY <4>4
          <5>3. ASSUME NEW i \in 1 .. k
                PROVE  g[i] = IF i = 1 THEN seqs[i] ELSE More(g[i - 1], i)
            <6>1. CASE i = k
              <7>1. g[i] = More(f[k - 1], k) /\ g[k - 1] = f[k - 1]
                BY <5>1, <6>1
              <7> HIDE DEF g
              <7> QED BY <5>1, <6>1, <7>1
            <6>2. CASE i # k /\ i # 1
              <7>1. i \in 1 .. k - 1 /\ g[i] = f[i] /\ g[i - 1] = f[i - 1]
                BY <5>1, <6>2
              <7> HIDE DEF g
              <7> QED BY <5>2, <6>2, <7>1
            <6>3. CASE i # k /\ i = 1
              <7>1. i \in 1 .. k - 1 /\ g[i] = f[i]
                BY <5>1, <6>3
              <7> HIDE DEF g
              <7> QED BY <5>2, <6>3, <7>1
            <6> QED BY <6>1, <6>2, <6>3
          <5>4. g = [i \in 1 .. k |-> g[i]]
            OBVIOUS
          <5> HIDE DEF g
          <5> QED BY <5>3, <5>4
        <4> QED BY <4>2, <4>5
      <3> HIDE DEF Grows
      <3> QED BY <1>3, <3>1
    <2>4. Grows(F, n)
      BY <2>3, Zenon
    <2> HIDE DEF F
    <2>5. F[1] = seqs[1] /\ \A i \in 2 .. n : F[i] = More(F[i - 1], i)
      BY <1>3, <2>4
    <2> DEFINE Right(i) == AreFindings(F[i], ts)
               Wrong == {i \in 1 .. n : ~Right(i)}
    <2>6. Right(1)
      BY <1>3, <2>5
    <2>7. \A i \in 2 .. n : Right(i - 1) => Right(i)
      BY <2>2, <2>5
    <2> HIDE DEF Right
    <2>8. Wrong = {}
      <3>1. SUFFICES ASSUME Wrong # {}
                     PROVE  FALSE
        OBVIOUS
      <3>2. PICK i \in Wrong : \A j \in Wrong : i <= j
        <4>1. Wrong \in SUBSET Nat
          OBVIOUS
        <4> HIDE DEF Wrong
        <4> QED BY <3>1, <4>1, Least
      <3> QED BY <2>6, <2>7, <3>2
    <2>9. Right(n)
      BY <1>3, <2>8
    <2> QED BY <2>1, <2>9 DEF Right
  <1> QED BY <1>2, <1>3

\* The chains of an event give rise to findings for each of the risky ones.
LEMMA ChainsFindings ==
    ASSUME NEW ev, IsSeq(ev.chains), NEW findings, IsSeq(findings)
    PROVE  AreFindings(ChainFindings(ev, findings), ev.ts)
  <1> DEFINE risky == {i \in DOMAIN findings : findings[i].type \in RiskyTypes}
             each == [i \in DOMAIN ev.chains |-> CrossAgent(ev, ev.chains[i])]
             asked == FlattenSeq(each)
             all == [i \in 1 .. Cardinality(risky) |-> asked]
  <1>1. \A chain : AreFindings(CrossAgent(ev, chain), ev.ts)
    <2> TAKE chain
    <2> DEFINE f == PathFinding(ev, "CrossAgentPromptInjection",
                        IF chain.weak THEN "capi_cross_session_weak_match"
                        ELSE "capi_cross_session_prompt_to_syscall")
               g == [f EXCEPT !.object = chain.id, !.visibility = chain.visibility,
                              !.score = chain.score]
    <2>1. IsFinding(f, ev.ts)
      BY PathFindings
    <2>2. CrossAgent(ev, chain) = When(chain.score >= 55, g)
      BY DEF CrossAgent
    <2>3. IsFinding(g, ev.ts)
      <3>1. IsSeq(<<>>)
        BY DEF IsSeq
      <3> HIDE DEF f
      <3> QED BY <2>1, <3>1, FindingExcept
    <2> HIDE DEF g
    <2> QED BY <2>2, <2>3, WhenFindings
  <1>2. AreFindings(asked, ev.ts)
    <2>1. Len(ev.chains) \in Nat /\ DOMAIN ev.chains = 1 .. Len(ev.chains)
      BY SeqFacts
    <2>2. /\ each = [i \in 1 .. Len(ev.chains) |-> each[i]]
          /\ \A i \in 1 .. Len(ev.chains) : AreFindings(each[i], ev.ts)
      BY <1>1, <2>1
    <2> HIDE DEF each
    <2> QED BY <2>1, <2>2, FlattenFindings
  <1>3. Cardinality(risky) \in Nat
    <2>0. Len(findings) \in Nat /\ DOMAIN findings = 1 .. Len(findings)
      BY SeqFacts
    <2>1. IsFiniteSet(DOMAIN findings)
      BY <2>0, FS_Interval
    <2>2. IsFiniteSet(risky)
      BY <2>1, FS_Subset
    <2> QED BY <2>2, FS_CardinalityType
  <1>4. ChainFindings(ev, findings) = FlattenSeq(all)
    BY DEF ChainFindings
  <1> HIDE DEF risky, asked
  <1>5. /\ all = [i \in 1 .. Cardinality(risky) |-> all[i]]
        /\ \A i \in 1 .. Cardinality(risky) : AreFindings(all[i], ev.ts)
    BY <1>2
  <1> HIDE DEF all
  <1>6. AreFindings(FlattenSeq(all), ev.ts)
    BY <1>3, <1>5, FlattenFindings
  <1> QED BY <1>4, <1>6

LEMMA DetectedFindings ==
    ASSUME NEW d, NEW ev, IsSeq(ev.prompts), ev.spoofed \in Nat, NEW dry_run
    PROVE  AreFindings(Detected(d, ev, dry_run).findings, ev.ts)
  <1> DEFINE loop == Deadloop(d, ev.session, Activities(ev), ev.repeats, ev.ts)
             found == UnexpectedShell(ev) \o SensitiveFileAccess(ev)
                         \o OutOfWorkspaceDeletion(ev) \o loop.findings \o McpToolSpoofing(ev)
             all == IF found = <<>> /\ dry_run THEN ExecObserved(ev) ELSE found
             linked == [i \in DOMAIN all |-> WithPrompts(all[i], ev.prompts)]
  <1>1. Detected(d, ev, dry_run).findings = linked
    BY DEF Detected
  <1>2. /\ AreFindings(UnexpectedShell(ev), ev.ts)
        /\ AreFindings(SensitiveFileAccess(ev), ev.ts)
        /\ AreFindings(OutOfWorkspaceDeletion(ev), ev.ts)
        /\ AreFindings(ExecObserved(ev), ev.ts)
        /\ AreFindings(McpToolSpoofing(ev), ev.ts)
    <2>1. AreFindings(UnexpectedShell(ev), ev.ts)
      BY PathFindings, WhenFindings DEF UnexpectedShell
    <2>2. AreFindings(SensitiveFileAccess(ev), ev.ts)
      BY PathFindings, WhenFindings DEF SensitiveFileAccess
    <2>3. AreFindings(OutOfWorkspaceDeletion(ev), ev.ts)
      BY PathFindings, WhenFindings DEF OutOfWorkspaceDeletion
    <2>4. AreFindings(ExecObserved(ev), ev.ts)
      BY PathFindings, WhenFindings DEF ExecObserved
    <2> QED BY <2>1, <2>2, <2>3, <2>4, McpFindings
  <1>3. AreFindings(loop.findings, ev.ts)
    <2>1. \/ loop.findings = <<>>
          \/ \E s : loop.findings = <<LoopFinding(ev.session, s, ev.repeats, ev.ts)>>
      BY DEF Deadloop
    <2> HIDE DEF loop
    <2> QED BY <2>1, NoFindings, OneFinding, LoopFindings
  <1> HIDE DEF loop
  <1>4. AreFindings(found, ev.ts)
    BY <1>2, <1>3, ConcatFindings
  <1> HIDE DEF found
  <1>5. AreFindings(all, ev.ts)
    BY <1>2, <1>4
  <1> HIDE DEF all
  <1>6. IsSeq(all) /\ Len(all) \in Nat /\ DOMAIN all = 1 .. Len(all)
    BY <1>5, SeqFacts DEF AreFindings
  <1>7. \A i \in 1 .. Len(all) : linked[i] = WithPrompts(all[i], ev.prompts)
    BY <1>6
  <1>8. linked = [i \in 1 .. Len(all) |-> linked[i]]
    BY <1>6
  <1> HIDE DEF linked
  <1>9. IsSeq(linked) /\ DOMAIN linked = 1 .. Len(all)
    BY <1>6, <1>8, SeqByIndex
  <1>10. \A i \in DOMAIN linked : IsFinding(linked[i], ev.ts)
    BY <1>5, <1>6, <1>7, <1>9, WithPromptsFindings DEF AreFindings
  <1> QED BY <1>1, <1>9, <1>10 DEF AreFindings
-----------------------------------------------------------------------------
(* Lists by age.                                                           *)

\* rest is list without the keys: p gives where each of its elements was.
Thinned(list, keys, rest, p) ==
    /\ IsSeq(rest)
    /\ Len(rest) <= Len(list)
    /\ p \in [DOMAIN rest -> DOMAIN list]
    /\ \A m \in DOMAIN rest : rest[m] = list[p[m]]
    /\ \A m \in DOMAIN rest : list[p[m]].key \notin keys
    /\ \A i \in DOMAIN list : list[i].key \notin keys => \E m \in DOMAIN rest : p[m] = i
    /\ \A m, n \in DOMAIN rest : m < n => p[m] < p[n]

LEMMA RemoveKeysThins ==
    ASSUME NEW list, IsSeq(list), NEW keys
    PROVE  \E p : Thinned(list, keys, RemoveKeys(list, keys), p)
  <1> DEFINE L == Len(list)
             kept == {i \in DOMAIN list : list[i].key \notin keys}
             upto(i) == {j \in kept : j <= i}
             place(i) == Cardinality(upto(i))
             n == Cardinality(kept)
             rest == [m \in 1 .. n |-> list[CHOOSE i \in kept : place(i) = m]]
             p == [m \in 1 .. n |-> CHOOSE i \in kept : place(i) = m]
  <1>1. L \in Nat /\ DOMAIN list = 1 .. L
    BY SeqFacts
  <1>2. kept \in SUBSET (1 .. L)
    BY <1>1
  <1>3. IsFiniteSet(kept) /\ n \in Nat /\ n <= L
    <2>1. IsFiniteSet(1 .. L) /\ Cardinality(1 .. L) = L
      <3> HIDE DEF L
      <3> QED BY <1>1, FS_Interval
    <2> HIDE DEF kept
    <2> QED BY <1>2, <2>1, FS_Subset, FS_CardinalityType
  <1> HIDE DEF kept, L, n
  <1>0. \A i \in kept : i \in Int
    BY <1>1, <1>2
  <1>4. ASSUME NEW i \in kept
        PROVE  IsFiniteSet(upto(i)) /\ place(i) \in 1 .. n
    <2>1. upto(i) \in SUBSET kept
      OBVIOUS
    <2>2. i \in upto(i)
      BY <1>1, <1>2
    <2> HIDE DEF upto
    <2>3. IsFiniteSet(upto(i)) /\ place(i) <= n /\ place(i) \in Nat
      BY <1>3, <2>1, FS_Subset, FS_CardinalityType DEF n
    <2>4. place(i) # 0
      BY <2>2, <2>3, FS_EmptySet
    <2> QED BY <1>3, <2>3, <2>4
  <1>5. ASSUME NEW i \in kept, NEW j \in kept, i < j
        PROVE  place(i) < place(j)
    <2>1. upto(i) \in SUBSET upto(j)
      BY <1>0, <1>5
    <2>2. j \in upto(j) /\ j \notin upto(i)
      BY <1>0, <1>5
    <2> HIDE DEF upto
    <2>3. place(i) <= place(j) /\ (place(j) = place(i) => upto(i) = upto(j))
      BY <1>4, <2>1, FS_Subset
    <2> QED BY <1>3, <1>4, <2>2, <2>3
  <1> HIDE DEF place
  <1> DEFINE f == [i \in kept |-> place(i)]
  <1>6. f \in Injection(kept, 1 .. n)
    <2>1. f \in [kept -> 1 .. n]
      BY <1>4
    <2>2. ASSUME NEW i \in kept, NEW j \in kept, f[i] = f[j]
          PROVE  i = j
      <3>1. place(i) = place(j) /\ i \in Nat /\ j \in Nat
        BY <1>1, <1>2, <2>2
      <3>2. ~(place(i) < place(j)) /\ ~(place(j) < place(i))
        <4>1. place(i) \in Int /\ place(j) \in Int
          <5>1. place(i) \in 1 .. n /\ place(j) \in 1 .. n
            BY <1>4
          <5> QED BY <1>3, <5>1
        <4> QED BY <3>1, <4>1
      <3>3. ~(i < j) /\ ~(j < i)
        BY <1>5, <3>2
      <3> QED BY <3>1, <3>3
    <2> HIDE DEF f
    <2> QED BY <2>1, <2>2 DEF Injection, IsInjective
  <1>7. \A m \in 1 .. n : \E i \in kept : place(i) = m
    <2>1. IsFiniteSet(1 .. n) /\ Cardinality(1 .. n) = n
      BY <1>3, FS_Interval
    <2> HIDE DEF f
    <2>2. f \in Surjection(kept, 1 .. n)
      BY <1>3, <1>6, <2>1, FS_Injection DEF n
    <2>3. \A m \in 1 .. n : \E i \in kept : f[i] = m
      BY <2>2 DEF Surjection
    <2> QED BY <2>3 DEF f
  <1>8. \A m \in 1 .. n : p[m] \in kept /\ place(p[m]) = m
    <2> TAKE m \in 1 .. n
    <2>1. p[m] = CHOOSE i \in kept : place(i) = m
      OBVIOUS
    <2>2. \E i \in kept : place(i) = m
      BY <1>7
    <2> QED BY <2>1, <2>2
  <1>9. \A m \in 1 .. n : rest[m] = list[p[m]]
    OBVIOUS
  <1>10. RemoveKeys(list, keys) = rest
    BY DEF RemoveKeys, Picked, kept, place, upto, n
  <1>11. rest = [m \in 1 .. n |-> rest[m]]
    OBVIOUS
  <1>15. p = [m \in 1 .. n |-> p[m]]
    OBVIOUS
  <1> HIDE DEF rest, p
  <1>12. IsSeq(rest) /\ Len(rest) = n /\ DOMAIN rest = 1 .. n
    BY <1>3, <1>11, SeqByIndex
  <1>13. \A i \in kept : \E m \in 1 .. n : p[m] = i
    <2> TAKE i \in kept
    <2>1. place(i) \in 1 .. n
      BY <1>4
    <2>2. p[place(i)] \in kept /\ place(p[place(i)]) = place(i)
      BY <1>8, <2>1
    <2>3. p[place(i)] = i
      BY <1>6, <2>2 DEF Injection, IsInjective
    <2> QED BY <2>1, <2>3
  <1>14. \A a, b \in 1 .. n : a < b => p[a] < p[b]
    <2> TAKE a, b \in 1 .. n
    <2>1. p[a] \in kept /\ p[b] \in kept /\ place(p[a]) = a /\ place(p[b]) = b
      BY <1>8
    <2>2. p[a] \in Int /\ p[b] \in Int
      BY <1>0, <2>1
    <2>3. p[b] < p[a] => place(p[b]) < place(p[a])
      BY <1>5, <2>1
    <2> QED BY <1>3, <2>1, <2>2, <2>3
  <1>16. Thinned(list, keys, rest, p)
    BY <1>1, <1>2, <1>3, <1>8, <1>9, <1>12, <1>13, <1>14, <1>15 DEF Thinned, kept, L
  <1> QED BY <1>10, <1>16

LEMMA ThinnedKeys ==
    ASSUME NEW list, Distinct(list), NEW keys, NEW rest, NEW p, Thinned(list, keys, rest, p)
    PROVE  Distinct(rest) /\ KeysIn(rest) = KeysIn(list) \ keys
  <1>1. DOMAIN list = 1 .. Len(list) /\ DOMAIN rest = 1 .. Len(rest)
        /\ Len(list) \in Nat /\ Len(rest) \in Nat
    BY SeqFacts DEF Distinct, Thinned
  <1>2. \A m, n \in DOMAIN rest : rest[m].key = rest[n].key => m = n
    <2> TAKE m, n \in DOMAIN rest
    <2>1. p[m] \in DOMAIN list /\ p[n] \in DOMAIN list
          /\ rest[m] = list[p[m]] /\ rest[n] = list[p[n]]
      BY DEF Thinned
    <2>2. rest[m].key = rest[n].key => p[m] = p[n]
      BY <2>1 DEF Distinct
    <2>3. p[m] = p[n] => ~(m < n) /\ ~(n < m)
      BY <1>1, <2>1 DEF Thinned
    <2> QED BY <1>1, <2>2, <2>3
  <1>3. KeysIn(rest) = KeysIn(list) \ keys
    BY DEF KeysIn, Thinned
  <1> QED BY <1>2, <1>3 DEF Distinct, Thinned
-----------------------------------------------------------------------------
(* The counts of a session.                                                *)

LEMMA TailFacts ==
    ASSUME NEW s, IsSeq(s), s # <<>>
    PROVE  /\ IsSeq(Tail(s))
           /\ Len(Tail(s)) = Len(s) - 1
           /\ DOMAIN Tail(s) = 1 .. Len(s) - 1
           /\ \A i \in 1 .. Len(s) - 1 : Tail(s)[i] = s[i + 1]
           /\ Head(s) = s[1]
           /\ Len(s) \in Nat \ {0}
           /\ 1 \in DOMAIN s
  <1> DEFINE S == Range(s)
             t == Tail(s)
  <1>1. s \in Seq(S)
    BY DEF IsSeq
  <1>2. /\ t \in Seq(S)
        /\ Len(t) = Len(s) - 1
        /\ DOMAIN t = 1 .. Len(s) - 1
        /\ \A i \in 1 .. Len(s) - 1 : t[i] = s[i + 1]
        /\ Head(s) = s[1]
        /\ Len(s) \in Nat \ {0}
        /\ DOMAIN s = 1 .. Len(s)
    BY <1>1
  <1> HIDE DEF t
  <1>3. t = [i \in 1 .. Len(s) - 1 |-> t[i]] /\ Len(s) - 1 \in Nat
    BY <1>2
  <1>4. IsSeq(t)
    BY <1>3, SeqByIndex
  <1> QED BY <1>2, <1>4 DEF t

\* Numbers moved down by one.
LEMMA MovedDown ==
    ASSUME NEW n \in Nat, NEW S \in SUBSET (1 .. n),
           NEW T, T = {j \in 1 .. n - 1 : j + 1 \in S}
    PROVE  /\ IsFiniteSet(S) /\ IsFiniteSet(T)
           /\ Cardinality(S) \in Nat /\ Cardinality(T) \in Nat
           /\ Cardinality(T) = IF 1 \in S THEN Cardinality(S) - 1 ELSE Cardinality(S)
  <1>0. IsFiniteSet(1 .. n)
    BY FS_Interval
  <1>1. IsFiniteSet(S)
    BY <1>0, FS_Subset
  <1>2. IsFiniteSet(T)
    <2>1. T \in SUBSET (1 .. n)
      OBVIOUS
    <2> QED BY <1>0, <2>1, FS_Subset
  <1> DEFINE U == S \ {1}
             f == [j \in T |-> j + 1]
  <1>3. f \in Bijection(T, U)
    <2>1. f \in [T -> U]
      OBVIOUS
    <2>2. \A i, j \in T : f[i] = f[j] => i = j
      OBVIOUS
    <2>3. \A x \in U : \E j \in T : f[j] = x
      <3> TAKE x \in U
      <3>1. x - 1 \in T /\ f[x - 1] = x
        OBVIOUS
      <3> QED BY <3>1
    <2> HIDE DEF f, U
    <2> QED BY <2>1, <2>2, <2>3 DEF Bijection, Injection, Surjection, IsInjective
  <1>4. Cardinality(U) = Cardinality(T)
    <2>1. ExistsBijection(T, U)
      BY <1>3 DEF ExistsBijection
    <2> HIDE DEF U
    <2> QED BY <1>2, <2>1, FS_Bijection
  <1>5. Cardinality(U) = IF 1 \in S THEN Cardinality(S) - 1 ELSE Cardinality(S)
    BY <1>1, FS_RemoveElement
  <1> QED BY <1>1, <1>2, <1>4, <1>5, FS_CardinalityType

LEMMA OfObjectFinite ==
    ASSUME NEW e, IsSeq(e), NEW kind, NEW object
    PROVE  /\ IsFiniteSet(OfObject(e, kind, object))
           /\ Cardinality(OfObject(e, kind, object)) \in Nat
           /\ Cardinality(OfObject(e, kind, object)) = 0 <=> OfObject(e, kind, object) = {}
           /\ object \in DOMAIN CountsOf(e, kind) <=> OfObject(e, kind, object) # {}
           /\ CountOf(CountsOf(e, kind), object) = Cardinality(OfObject(e, kind, object))
  <1> DEFINE S == OfObject(e, kind, object)
  <1>1. Len(e) \in Nat /\ DOMAIN e = 1 .. Len(e)
    BY SeqFacts
  <1>2. IsFiniteSet(DOMAIN e)
    BY <1>1, FS_Interval
  <1>3. S \in SUBSET DOMAIN e
    BY DEF OfObject, OfKind
  <1> HIDE DEF S
  <1>4. IsFiniteSet(S) /\ Cardinality(S) \in Nat /\ (Cardinality(S) = 0 <=> S = {})
    BY <1>2, <1>3, FS_Subset, FS_CardinalityType, FS_EmptySet
  <1>5. object \in DOMAIN CountsOf(e, kind) <=> S # {}
    BY DEF CountsOf, OfObject, OfKind, S
  <1>6. object \in DOMAIN CountsOf(e, kind) => CountsOf(e, kind)[object] = Cardinality(S)
    BY DEF CountsOf, S
  <1>7. CountOf(CountsOf(e, kind), object) = Cardinality(S)
    BY <1>4, <1>5, <1>6 DEF CountOf
  <1> QED BY <1>4, <1>5, <1>7 DEF S

\* The counts are determined by how many events there are of each object.
LEMMA CountsAre ==
    ASSUME NEW e, IsSeq(e), NEW kind, NEW counts,
           counts = [o \in DOMAIN counts |-> counts[o]],
           \A o : o \in DOMAIN counts <=> OfObject(e, kind, o) # {},
           \A o \in DOMAIN counts : counts[o] = Cardinality(OfObject(e, kind, o))
    PROVE  counts = CountsOf(e, kind)
  <1> DEFINE given == CountsOf(e, kind)
  <1>1. /\ given = [o \in DOMAIN given |-> given[o]]
        /\ \A o \in DOMAIN given : given[o] = Cardinality(OfObject(e, kind, o))
    BY DEF CountsOf
  <1>2. \A o : o \in DOMAIN given <=> OfObject(e, kind, o) # {}
    BY OfObjectFinite
  <1> HIDE DEF given
  <1>3. DOMAIN counts = DOMAIN given
    BY <1>2
  <1>4. counts = given
    BY <1>1, <1>3
  <1> QED BY <1>4 DEF given

LEMMA CountsPushed ==
    ASSUME NEW e, IsSeq(e), NEW a, NEW kind,
           NEW c, c = CountsOf(e, kind)
    PROVE  CountsOf(Append(e, a), kind)
              = IF a.kind = kind THEN Put(c, a.object, CountOf(c, a.object) + 1) ELSE c
  <1> DEFINE grown == Append(e, a)
             counts == IF a.kind = kind THEN Put(c, a.object, CountOf(c, a.object) + 1) ELSE c
             S(o) == OfObject(e, kind, o)
             T(o) == OfObject(grown, kind, o)
  <1>1. /\ IsSeq(grown) /\ DOMAIN grown = 1 .. Len(e) + 1
        /\ \A i \in DOMAIN e : grown[i] = e[i]
        /\ grown[Len(e) + 1] = a
        /\ DOMAIN e = 1 .. Len(e) /\ Len(e) \in Nat
    BY AppendFacts, SeqFacts
  <1> HIDE DEF grown
  <1>2. \A o : T(o) = IF a.kind = kind /\ a.object = o THEN S(o) \cup {Len(e) + 1} ELSE S(o)
    BY <1>1 DEF OfObject, OfKind
  <1>3. \A o : /\ IsFiniteSet(S(o)) /\ Len(e) + 1 \notin S(o)
               /\ o \in DOMAIN c <=> S(o) # {}
               /\ CountOf(c, o) = Cardinality(S(o))
               /\ o \in DOMAIN c => c[o] = Cardinality(S(o))
    <2> TAKE o
    <2>1. /\ IsFiniteSet(S(o)) /\ (o \in DOMAIN c <=> S(o) # {})
          /\ CountOf(c, o) = Cardinality(S(o))
      BY OfObjectFinite
    <2>2. Len(e) + 1 \notin S(o)
      BY <1>1 DEF OfObject, OfKind
    <2> QED BY <2>1, <2>2 DEF CountOf
  <1>4. c = [o \in DOMAIN c |-> c[o]]
    BY DEF CountsOf
  <1> HIDE DEF S, T
  <1>5. counts = [o \in DOMAIN counts |-> counts[o]]
    <2>1. CASE a.kind = kind
      <3>1. counts = Put(c, a.object, CountOf(c, a.object) + 1)
        BY <2>1
      <3> QED BY <3>1 DEF Put
    <2>2. CASE a.kind # kind
      BY <1>4, <2>2
    <2> QED BY <2>1, <2>2
  <1>6. \A o : o \in DOMAIN counts <=> T(o) # {}
    BY <1>2, <1>3 DEF Put
  <1>7. ASSUME NEW o \in DOMAIN counts
        PROVE  counts[o] = Cardinality(T(o))
    <2>1. CASE a.kind = kind /\ a.object = o
      <3>1. counts[o] = Cardinality(S(o)) + 1
        BY <1>3, <2>1 DEF Put
      <3>2. Cardinality(S(o) \cup {Len(e) + 1}) = Cardinality(S(o)) + 1
        BY <1>3, FS_AddElement
      <3> QED BY <1>2, <2>1, <3>1, <3>2
    <2>2. CASE ~(a.kind = kind /\ a.object = o)
      <3>1. T(o) = S(o) /\ o \in DOMAIN c /\ counts[o] = c[o]
        BY <1>2, <2>2, <1>6, <1>3 DEF Put
      <3> QED BY <1>3, <3>1
    <2> QED BY <2>1, <2>2
  <1> HIDE DEF counts
  <1>8. counts = CountsOf(grown, kind)
    BY <1>1, <1>5, <1>6, <1>7, CountsAre DEF T
  <1> QED BY <1>8 DEF counts, grown

LEMMA CountsPopped ==
    ASSUME NEW e, IsSeq(e), e # <<>>, NEW kind,
           NEW c, c = CountsOf(e, kind)
    PROVE  CountsOf(Tail(e), kind)
              = IF Head(e).kind = kind THEN Decremented(c, Head(e).object) ELSE c
  <1> DEFINE rest == Tail(e)
             a == Head(e)
             counts == IF a.kind = kind THEN Decremented(c, a.object) ELSE c
             S(o) == OfObject(e, kind, o)
             T(o) == OfObject(rest, kind, o)
             n(o) == Cardinality(S(o))
             m(o) == Cardinality(T(o))
             Hit(o) == a.kind = kind /\ a.object = o
  <1>1. /\ IsSeq(rest) /\ DOMAIN rest = 1 .. Len(e) - 1
        /\ \A i \in 1 .. Len(e) - 1 : rest[i] = e[i + 1]
        /\ a = e[1] /\ DOMAIN e = 1 .. Len(e) /\ Len(e) \in Nat \ {0}
    BY TailFacts, SeqFacts
  <1> HIDE DEF rest, a
  <1>2. \A o : /\ n(o) \in Nat /\ m(o) \in Nat
               /\ m(o) = IF Hit(o) THEN n(o) - 1 ELSE n(o)
               /\ n(o) = 0 <=> S(o) = {}
               /\ m(o) = 0 <=> T(o) = {}
               /\ o \in DOMAIN c <=> S(o) # {}
               /\ CountOf(c, o) = n(o)
               /\ o \in DOMAIN c => c[o] = n(o)
    <2> TAKE o
    <2>1. S(o) \in SUBSET (1 .. Len(e)) /\ T(o) = {j \in 1 .. Len(e) - 1 : j + 1 \in S(o)}
      BY <1>1 DEF OfObject, OfKind
    <2>2. 1 \in S(o) <=> Hit(o)
      BY <1>1 DEF OfObject, OfKind
    <2>4. (m(o) = 0 <=> T(o) = {}) /\ (n(o) = 0 <=> S(o) = {}) /\ (o \in DOMAIN c <=> S(o) # {})
          /\ CountOf(c, o) = n(o)
      BY <1>1, OfObjectFinite
    <2> HIDE DEF S, T, Hit
    <2>5. n(o) \in Nat /\ m(o) \in Nat /\ m(o) = IF 1 \in S(o) THEN n(o) - 1 ELSE n(o)
      BY <1>1, <2>1, MovedDown
    <2> QED BY <2>2, <2>4, <2>5 DEF CountOf
  <1>4. c = [o \in DOMAIN c |-> c[o]]
    BY DEF CountsOf
  <1> HIDE DEF S, T, n, m
  <1>5. counts = [o \in DOMAIN counts |-> counts[o]]
    <2>1. CASE a.kind = kind /\ CountOf(c, a.object) <= 1
      <3>1. counts = Without(c, a.object)
        BY <2>1 DEF Decremented
      <3> QED BY <3>1 DEF Without, Keep
    <2>2. CASE a.kind = kind /\ ~(CountOf(c, a.object) <= 1)
      <3>1. counts = [c EXCEPT ![a.object] = @ - 1]
        BY <2>2 DEF Decremented
      <3> QED BY <3>1
    <2>3. CASE a.kind # kind
      BY <1>4, <2>3
    <2> QED BY <2>1, <2>2, <2>3
  <1>6. ASSUME NEW o
        PROVE  /\ o \in DOMAIN counts <=> T(o) # {}
               /\ o \in DOMAIN counts => counts[o] = m(o)
    <2>0. Hit(o) => n(o) \in Nat \ {0}
      BY <1>2
    <2>1. CASE a.kind = kind /\ CountOf(c, a.object) <= 1
      <3>1. counts = Without(c, a.object)
        BY <2>1 DEF Decremented
      <3>2. DOMAIN counts = DOMAIN c \ {a.object} /\ \A x \in DOMAIN counts : counts[x] = c[x]
        BY <3>1 DEF Without, Keep
      <3> HIDE DEF counts
      <3> QED BY <1>2, <2>0, <2>1, <3>2
    <2>2. CASE a.kind = kind /\ ~(CountOf(c, a.object) <= 1)
      <3>1. counts = [c EXCEPT ![a.object] = @ - 1]
        BY <2>2 DEF Decremented
      <3>2. /\ DOMAIN counts = DOMAIN c
            /\ \A x \in DOMAIN c : counts[x] = IF x = a.object THEN c[x] - 1 ELSE c[x]
        BY <3>1
      <3> HIDE DEF counts
      <3> QED BY <1>2, <2>0, <2>2, <3>2
    <2>3. CASE a.kind # kind
      BY <1>2, <2>3
    <2> QED BY <2>1, <2>2, <2>3
  <1> HIDE DEF counts
  <1>7. counts = CountsOf(rest, kind)
    <2>1. \A o : o \in DOMAIN counts <=> OfObject(rest, kind, o) # {}
      BY <1>6 DEF T
    <2>2. \A o \in DOMAIN counts : counts[o] = Cardinality(OfObject(rest, kind, o))
      BY <1>6 DEF T, m
    <2> QED BY <1>1, <1>5, <2>1, <2>2, CountsAre
  <1> QED BY <1>7 DEF counts, rest, a

LEMMA ProgressFinite ==
    ASSUME NEW e, IsSeq(e)
    PROVE  IsFiniteSet(ProgressOf(e)) /\ Cardinality(ProgressOf(e)) \in Nat
  <1>1. Len(e) \in Nat /\ DOMAIN e = 1 .. Len(e)
    BY SeqFacts
  <1>2. IsFiniteSet(DOMAIN e)
    BY <1>1, FS_Interval
  <1>3. ProgressOf(e) \in SUBSET DOMAIN e
    BY DEF ProgressOf
  <1> QED BY <1>2, <1>3, FS_Subset, FS_CardinalityType

LEMMA NewCounted ==
    Counted(NewLoopSession)
  <1> DEFINE s == NewLoopSession
  <1>1. s.events = <<>> /\ s.connects = EmptyMap /\ s.files = EmptyMap /\ s.progress = 0
    BY DEF NewLoopSession
  <1>2. IsSeq(<<>>) /\ DOMAIN <<>> = {}
    BY DEF IsSeq
  <1>3. ASSUME NEW kind
        PROVE  EmptyMap = CountsOf(<<>>, kind)
    <2>1. DOMAIN EmptyMap = {} /\ EmptyMap = [o \in DOMAIN EmptyMap |-> EmptyMap[o]]
      BY DEF EmptyMap
    <2>2. \A o : OfObject(<<>>, kind, o) = {}
      BY <1>2 DEF OfObject, OfKind
    <2> QED BY <1>2, <2>1, <2>2, CountsAre
  <1>4. Cardinality(ProgressOf(<<>>)) = 0
    <2>1. ProgressOf(<<>>) = {}
      BY <1>2 DEF ProgressOf
    <2> QED BY <2>1, FS_EmptySet
  <1> HIDE DEF s
  <1>5. Counted(s)
    BY <1>1, <1>2, <1>3, <1>4 DEF Counted
  <1> QED BY <1>5 DEF s

LEMMA PushCounted ==
    ASSUME NEW s, Counted(s), NEW a, IsActivity(a)
    PROVE  /\ Counted(Push(s, a))
           /\ Len(Push(s, a).events) = Len(s.events) + 1
           /\ Last(Push(s, a).events) = a
  <1> DEFINE e == s.events
             grown == Append(e, a)
             p == Push(s, a)
             kinds(kind, counts) ==
                 IF a.kind = kind THEN Put(counts, a.object, CountOf(counts, a.object) + 1)
                 ELSE counts
  <1>1. /\ p.events = grown
        /\ p.connects = kinds("net_connect", s.connects)
        /\ p.files = kinds("file_access", s.files)
        /\ p.progress = s.progress + One(a.progress)
    BY DEF Push
  <1>2. /\ IsSeq(e)
        /\ \A j \in DOMAIN e : IsActivity(e[j])
        /\ s.connects = CountsOf(e, "net_connect")
        /\ s.files = CountsOf(e, "file_access")
        /\ s.progress = Cardinality(ProgressOf(e))
    BY DEF Counted
  <1> HIDE DEF e, p
  <1>3. p.connects = CountsOf(grown, "net_connect") /\ p.files = CountsOf(grown, "file_access")
    BY <1>1, <1>2, CountsPushed
  <1>4. /\ IsSeq(grown) /\ Len(grown) = Len(e) + 1 /\ DOMAIN grown = 1 .. Len(e) + 1
        /\ \A i \in DOMAIN e : grown[i] = e[i]
        /\ grown[Len(e) + 1] = a
        /\ DOMAIN e = 1 .. Len(e) /\ Len(e) \in Nat
    BY <1>2, AppendFacts, SeqFacts
  <1> HIDE DEF grown
  <1>5. \A j \in DOMAIN grown : IsActivity(grown[j])
    BY <1>2, <1>4
  <1>6. p.progress = Cardinality(ProgressOf(grown))
    <2>1. IsFiniteSet(ProgressOf(e)) /\ Cardinality(ProgressOf(e)) \in Nat
      BY <1>2, ProgressFinite
    <2>2. Len(e) + 1 \notin ProgressOf(e)
      BY <1>4 DEF ProgressOf
    <2>3. CASE a.progress
      <3>1. ProgressOf(grown) = ProgressOf(e) \cup {Len(e) + 1}
        BY <1>4, <2>3 DEF ProgressOf
      <3>2. Cardinality(ProgressOf(grown)) = Cardinality(ProgressOf(e)) + 1
        BY <2>1, <2>2, <3>1, FS_AddElement
      <3> QED BY <1>1, <1>2, <2>3, <3>2 DEF One
    <2>4. CASE ~a.progress
      <3>1. ProgressOf(grown) = ProgressOf(e)
        BY <1>4, <2>4 DEF ProgressOf
      <3> QED BY <1>1, <1>2, <2>1, <2>4, <3>1 DEF One
    <2> QED BY <2>3, <2>4
  <1>7. Counted(p)
    BY <1>1, <1>3, <1>4, <1>5, <1>6 DEF Counted
  <1>8. Last(p.events) = a
    BY <1>1, <1>4 DEF Last
  <1> QED BY <1>1, <1>4, <1>7, <1>8 DEF p, e

LEMMA PopCounted ==
    ASSUME NEW s, Counted(s), Len(s.events) >= 2
    PROVE  /\ Counted(PopFront(s))
           /\ Len(PopFront(s).events) = Len(s.events) - 1
           /\ Last(PopFront(s).events) = Last(s.events)
  <1> DEFINE e == s.events
             rest == Tail(e)
             a == Head(e)
             p == PopFront(s)
             kinds(kind, counts) ==
                 IF a.kind = kind THEN Decremented(counts, a.object) ELSE counts
  <1>1. /\ p.events = rest
        /\ p.connects = kinds("net_connect", s.connects)
        /\ p.files = kinds("file_access", s.files)
        /\ p.progress = s.progress - One(a.progress)
    BY DEF PopFront
  <1>2. /\ IsSeq(e) /\ Len(e) >= 2
        /\ \A j \in DOMAIN e : IsActivity(e[j])
        /\ s.connects = CountsOf(e, "net_connect")
        /\ s.files = CountsOf(e, "file_access")
        /\ s.progress = Cardinality(ProgressOf(e))
    BY DEF Counted
  <1> HIDE DEF e, p
  <1>3. e # <<>>
    BY <1>2, SeqFacts
  <1>4. p.connects = CountsOf(rest, "net_connect") /\ p.files = CountsOf(rest, "file_access")
    BY <1>1, <1>2, <1>3, CountsPopped
  <1>5. /\ IsSeq(rest) /\ Len(rest) = Len(e) - 1 /\ DOMAIN rest = 1 .. Len(e) - 1
        /\ \A i \in 1 .. Len(e) - 1 : rest[i] = e[i + 1]
        /\ a = e[1] /\ DOMAIN e = 1 .. Len(e) /\ Len(e) \in Nat
    BY <1>2, <1>3, TailFacts, SeqFacts
  <1> HIDE DEF rest, a
  <1>6. \A j \in DOMAIN rest : IsActivity(rest[j])
    BY <1>2, <1>5
  <1>7. p.progress = Cardinality(ProgressOf(rest))
    <2> DEFINE n == Len(e)
               S == ProgressOf(e)
               T == ProgressOf(rest)
    <2>0. n \in Nat
      BY <1>5
    <2>1. S \in SUBSET (1 .. n) /\ T = {j \in 1 .. n - 1 : j + 1 \in S}
      BY <1>5 DEF ProgressOf
    <2>2. 1 \in S <=> a.progress
      BY <1>2, <1>5 DEF ProgressOf
    <2> HIDE DEF n, S, T
    <2>3. Cardinality(S) \in Nat
          /\ Cardinality(T) = IF 1 \in S THEN Cardinality(S) - 1 ELSE Cardinality(S)
      BY <2>0, <2>1, MovedDown
    <2>4. p.progress = Cardinality(S) - One(a.progress)
      BY <1>1, <1>2 DEF S
    <2>5. p.progress = Cardinality(T)
      BY <2>2, <2>3, <2>4 DEF One
    <2> QED BY <2>5 DEF T
  <1>8. Counted(p)
    BY <1>1, <1>4, <1>5, <1>6, <1>7 DEF Counted
  <1>9. Last(p.events) = Last(e)
    BY <1>1, <1>2, <1>5 DEF Last
  <1> QED BY <1>1, <1>5, <1>8, <1>9 DEF p, e

\* What came before the window goes, never the event that came last.
LEMMA PruneCounted ==
    ASSUME NEW s, Counted(s), s.events # <<>>, NEW now \in Nat, Last(s.events).ts = now
    PROVE  /\ Counted(PruneBefore(s, now))
           /\ PruneBefore(s, now).events # <<>>
           /\ Len(PruneBefore(s, now).events) <= Len(s.events)
           /\ Last(PruneBefore(s, now).events) = Last(s.events)
  <1> DEFINE L == Len(s.events)
             old(i) == s.events[i].ts + LoopWindow < now
             aged == {i \in DOMAIN s.events : \A j \in 1 .. i : old(j)}
             leading == Cardinality(aged)
             More(m) == PopFront(m)
             Grows(f, n) == f = [i \in 0 .. n |-> IF i = 0 THEN s ELSE More(f[i - 1])]
             F == CHOOSE f : Grows(f, leading)
  <1>1. IsSeq(s.events) /\ L \in Nat \ {0} /\ DOMAIN s.events = 1 .. L
    BY SeqFacts DEF Counted
  <1>2. leading \in Nat /\ leading <= L - 1
    <2>1. Last(s.events) = s.events[L]
      BY DEF Last
    <2>2. ~old(L)
      BY <2>1, LoopAssumption
    <2> HIDE DEF old, L
    <2>3. \A i \in aged : i \in 1 .. L - 1
      <3> TAKE i \in aged
      <3>1. i \in 1 .. L /\ \A j \in 1 .. i : old(j)
        BY <1>1 DEF L
      <3>2. i # L
        BY <1>1, <2>2, <3>1
      <3> QED BY <1>1, <3>1, <3>2
    <2>4. IsFiniteSet(1 .. L - 1) /\ Cardinality(1 .. L - 1) = L - 1
      BY <1>1, FS_Interval
    <2>5. aged \in SUBSET (1 .. L - 1)
      BY <2>3
    <2> HIDE DEF aged
    <2> QED BY <2>4, <2>5, FS_Subset, FS_CardinalityType
  <1>3. PruneBefore(s, now) = F[leading]
    BY DEF PruneBefore
  <1> DEFINE Fine(m, i) == /\ Counted(m)
                           /\ Len(m.events) = L - i
                           /\ Last(m.events) = Last(s.events)
  <1> HIDE DEF leading
  <1>4. ASSUME NEW m, NEW i \in 1 .. leading, Fine(m, i - 1)
        PROVE  Fine(More(m), i)
    <2>1. Len(m.events) >= 2
      BY <1>1, <1>2, <1>4
    <2> HIDE DEF L
    <2>2. /\ Counted(PopFront(m))
          /\ Len(PopFront(m).events) = Len(m.events) - 1
          /\ Last(PopFront(m).events) = Last(m.events)
      BY <1>4, <2>1, PopCounted
    <2> QED BY <1>1, <1>2, <1>4, <2>2
  <1> HIDE DEF More
  <1>5. \E f : Grows(f, leading)
    <2> DEFINE Missing == {n \in 0 .. leading : ~\E f : Grows(f, n)}
    <2>1. ASSUME Missing # {}
          PROVE  FALSE
      <3>1. PICK n \in Missing : \A k \in Missing : n <= k
        <4>1. Missing \in SUBSET Nat
          OBVIOUS
        <4> HIDE DEF Missing
        <4> QED BY <2>1, <4>1, Least
      <3>2. n \in 0 .. leading /\ ~\E f : Grows(f, n)
        BY <3>1
      <3>3. n # 0
        <4>1. Grows([i \in 0 .. 0 |-> s], 0)
          OBVIOUS
        <4> QED BY <3>2, <4>1
      <3>4. PICK f : Grows(f, n - 1)
        <4>1. n - 1 \in 0 .. leading /\ n - 1 \notin Missing
          <5> HIDE DEF Missing
          <5> QED BY <1>2, <3>1, <3>2, <3>3
        <4> QED BY <4>1, Zenon
      <3> DEFINE g == [i \in 0 .. n |-> IF i = n THEN More(f[n - 1]) ELSE f[i]]
      <3>5. Grows(g, n)
        BY <1>2, <3>2, <3>3, <3>4
      <3> QED BY <3>2, <3>5
    <2>2. leading \in 0 .. leading
      BY <1>2
    <2> HIDE DEF Grows
    <2> QED BY <2>1, <2>2
  <1>6. Grows(F, leading)
    BY <1>5, Zenon
  <1> HIDE DEF F
  <1>7. F[0] = s /\ \A i \in 1 .. leading : F[i] = More(F[i - 1])
    BY <1>2, <1>6
  <1> DEFINE Right(i) == Fine(F[i], i)
             Wrong == {i \in 0 .. leading : ~Right(i)}
  <1>8. Right(0)
    BY <1>1, <1>7
  <1>9. \A i \in 1 .. leading : Right(i - 1) => Right(i)
    <2> HIDE DEF Fine
    <2> QED BY <1>4, <1>7
  <1> HIDE DEF Right
  <1>10. Wrong = {}
    <2>1. SUFFICES ASSUME Wrong # {}
                   PROVE  FALSE
      OBVIOUS
    <2>2. PICK i \in Wrong : \A j \in Wrong : i <= j
      <3>1. Wrong \in SUBSET Nat
        OBVIOUS
      <3> HIDE DEF Wrong
      <3> QED BY <2>1, <3>1, Least
    <2> QED BY <1>2, <1>8, <1>9, <2>2
  <1>11. Right(leading)
    BY <1>2, <1>10
  <1> DEFINE r == F[leading]
  <1>12. Fine(r, leading)
    BY <1>11 DEF Right
  <1> HIDE DEF r
  <1>13. r.events # <<>> /\ Len(r.events) <= L
    <2>1. IsSeq(r.events)
      BY <1>12 DEF Counted
    <2>2. Len(r.events) # 0 /\ Len(r.events) <= L
      BY <1>1, <1>2, <1>12
    <2> QED BY <2>1, <2>2, SeqFacts
  <1> QED BY <1>3, <1>12, <1>13 DEF r
-----------------------------------------------------------------------------
(* The sessions kept and their history.                                    *)

LEMMA ValueIs ==
    ASSUME NEW list, Distinct(list), NEW i \in DOMAIN list
    PROVE  ValueOf(list, list[i].key) = list[i].value
  <1>1. IndexOf(list, list[i].key) = i
    BY DEF IndexOf, Distinct
  <1> QED BY <1>1 DEF ValueOf

LEMMA ListFacts ==
    ASSUME NEW list, SessionsOf(list)
    PROVE  /\ IsSeq(list) /\ Len(list) \in Nat /\ DOMAIN list = 1 .. Len(list)
           /\ \A i \in DOMAIN list : Last(list[i].value.events).ts \in Nat
  <1>1. IsSeq(list) /\ Len(list) \in Nat /\ DOMAIN list = 1 .. Len(list)
    BY SeqFacts DEF SessionsOf, Distinct
  <1>2. ASSUME NEW i \in DOMAIN list
        PROVE  Last(list[i].value.events).ts \in Nat
    <2> DEFINE e == list[i].value.events
    <2>1. IsSeq(e) /\ e # <<>> /\ \A j \in DOMAIN e : IsActivity(e[j])
      BY DEF SessionsOf, Counted
    <2> HIDE DEF e
    <2>2. Len(e) \in DOMAIN e
      <3>1. Len(e) \in Nat /\ DOMAIN e = 1 .. Len(e) /\ Len(e) # 0
        BY <2>1, SeqFacts
      <3> QED BY <3>1
    <2>3. Last(e).ts \in Nat
      BY <2>1, <2>2 DEF Last, IsActivity
    <2> QED BY <2>3 DEF e
  <1> QED BY <1>1, <1>2

LEMMA ThinTracks ==
    ASSUME NEW list, SessionsOf(list), NEW act, NEW n \in Nat, Tracks(act, list, n), NEW keys
    PROVE  /\ SessionsOf(RemoveKeys(list, keys))
           /\ Len(RemoveKeys(list, keys)) <= Len(list)
           /\ KeysIn(RemoveKeys(list, keys)) = KeysIn(list) \ keys
           /\ Tracks(Keep(act, DOMAIN act \ keys), RemoveKeys(list, keys), n)
  <1> DEFINE rest == RemoveKeys(list, keys)
             kept == Keep(act, DOMAIN act \ keys)
  <1>1. IsSeq(list) /\ Distinct(list)
    BY DEF SessionsOf, Distinct
  <1>2. PICK p : Thinned(list, keys, rest, p)
    BY <1>1, RemoveKeysThins
  <1> HIDE DEF rest
  <1>3. Distinct(rest) /\ KeysIn(rest) = KeysIn(list) \ keys
    BY <1>1, <1>2, ThinnedKeys
  <1>4. /\ Len(rest) <= Len(list)
        /\ \A m \in DOMAIN rest : p[m] \in DOMAIN list /\ rest[m] = list[p[m]]
                                  /\ rest[m].key \notin keys
        /\ \A m, k \in DOMAIN rest : m < k => p[m] < p[k]
    BY <1>2 DEF Thinned
  <1>5. SessionsOf(rest)
    BY <1>3, <1>4 DEF SessionsOf
  <1>6. /\ DOMAIN act = KeysIn(list)
        /\ DOMAIN kept = KeysIn(list) \ keys
        /\ \A x \in DOMAIN kept : kept[x] = act[x]
    BY DEF Tracks, Keep
  <1> HIDE DEF kept
  <1>7. \A m \in DOMAIN rest : kept[rest[m].key] = act[list[p[m]].key]
    <2> TAKE m \in DOMAIN rest
    <2>1. rest[m].key \in KeysIn(rest)
      BY DEF KeysIn
    <2> QED BY <1>3, <1>4, <1>6, <2>1
  <1>8. \A m \in DOMAIN rest :
           /\ kept[rest[m].key].ts = Last(rest[m].value.events).ts
           /\ kept[rest[m].key].count \in 0 .. n
    BY <1>4, <1>7 DEF Tracks
  <1>9. \A m, k \in DOMAIN rest :
           m < k => kept[rest[m].key].count < kept[rest[k].key].count
    BY <1>4, <1>7 DEF Tracks
  <1>10. Tracks(kept, rest, n)
    BY <1>3, <1>6, <1>8, <1>9 DEF Tracks
  <1> QED BY <1>3, <1>4, <1>5, <1>10 DEF rest, kept

\* A session goes to the end of the list, and is the last that was active.
Added(list, x, s) == Append(list, [key |-> x, value |-> s])
Touched(act, x, ts, n) == Put(act, x, [ts |-> ts, count |-> n])

LEMMA AppendTracks ==
    ASSUME NEW list, SessionsOf(list), NEW act, NEW n \in Nat, Tracks(act, list, n),
           NEW x, x \notin KeysIn(list), NEW s, Counted(s), s.events # <<>>
    PROVE  /\ SessionsOf(Added(list, x, s))
           /\ Len(Added(list, x, s)) = Len(list) + 1
           /\ KeysIn(Added(list, x, s)) = KeysIn(list) \cup {x}
           /\ Added(list, x, s)[Len(list) + 1].key = x
           /\ Tracks(Touched(act, x, Last(s.events).ts, n + 1), Added(list, x, s), n + 1)
  <1> DEFINE last == [key |-> x, value |-> s]
             grown == Added(list, x, s)
             ts == Last(s.events).ts
             all == Touched(act, x, ts, n + 1)
  <1>1. IsSeq(list) /\ Len(list) \in Nat /\ DOMAIN list = 1 .. Len(list) /\ Distinct(list)
    BY ListFacts DEF SessionsOf
  <1>2. /\ IsSeq(grown) /\ Len(grown) = Len(list) + 1 /\ DOMAIN grown = 1 .. Len(list) + 1
        /\ \A i \in DOMAIN list : grown[i] = list[i]
        /\ grown[Len(list) + 1] = last
    BY <1>1, AppendFacts DEF Added
  <1>3. last.key = x /\ last.value = s
    OBVIOUS
  <1> HIDE DEF last, grown
  <1>4. \A i \in DOMAIN grown : i \in DOMAIN list \/ i = Len(list) + 1
    BY <1>1, <1>2
  <1>5. \A i \in DOMAIN list : list[i].key \in KeysIn(list) /\ list[i].key # x
    BY DEF KeysIn
  <1>6. Distinct(grown)
    <2>1. ASSUME NEW i \in DOMAIN grown, NEW j \in DOMAIN grown, grown[i].key = grown[j].key
          PROVE  i = j
      <3>1. CASE i \in DOMAIN list /\ j \in DOMAIN list
        BY <1>1, <1>2, <2>1, <3>1 DEF Distinct
      <3>2. CASE i \in DOMAIN list /\ j = Len(list) + 1
        BY <1>2, <1>3, <1>5, <2>1, <3>2
      <3>3. CASE i = Len(list) + 1 /\ j \in DOMAIN list
        BY <1>2, <1>3, <1>5, <2>1, <3>3
      <3> QED BY <1>4, <3>1, <3>2, <3>3
    <2> QED BY <1>2, <2>1 DEF Distinct
  <1>7. SessionsOf(grown)
    <2>1. ASSUME NEW i \in DOMAIN grown
          PROVE  Counted(grown[i].value) /\ grown[i].value.events # <<>>
      BY <1>2, <1>3, <1>4 DEF SessionsOf
    <2> QED BY <1>6, <2>1 DEF SessionsOf
  <1>8. KeysIn(grown) = KeysIn(list) \cup {x}
    <2>1. Len(list) + 1 \in DOMAIN grown /\ DOMAIN list \subseteq DOMAIN grown
      BY <1>1, <1>2
    <2> QED BY <1>2, <1>3, <1>4, <2>1 DEF KeysIn
  <1>9. /\ DOMAIN all = DOMAIN act \cup {x}
        /\ all[x] = [ts |-> ts, count |-> n + 1]
        /\ \A i \in DOMAIN list : all[list[i].key] = act[list[i].key]
    <2>1. \A i \in DOMAIN list : list[i].key \in DOMAIN act
      BY <1>5 DEF Tracks
    <2> QED BY <1>5, <2>1 DEF Put, Touched
  <1> HIDE DEF all
  <1>10. all[x].ts = ts /\ all[x].count = n + 1
    BY <1>9
  <1>11. ASSUME NEW i \in DOMAIN grown
         PROVE  /\ all[grown[i].key].ts = Last(grown[i].value.events).ts
                /\ all[grown[i].key].count \in 0 .. n + 1
    <2>1. CASE i \in DOMAIN list
      BY <1>2, <1>9, <2>1 DEF Tracks
    <2>2. CASE i = Len(list) + 1
      BY <1>2, <1>3, <1>10, <2>2
    <2> QED BY <1>4, <2>1, <2>2
  <1>12. ASSUME NEW i \in DOMAIN grown, NEW j \in DOMAIN grown, i < j
         PROVE  all[grown[i].key].count < all[grown[j].key].count
    <2>1. i \in DOMAIN list
      BY <1>1, <1>2, <1>12
    <2>2. all[grown[i].key].count = act[list[i].key].count /\ act[list[i].key].count \in 0 .. n
      BY <1>2, <1>9, <2>1 DEF Tracks
    <2>3. CASE j \in DOMAIN list
      BY <1>2, <1>9, <1>12, <2>1, <2>3 DEF Tracks
    <2>4. CASE j = Len(list) + 1
      BY <1>2, <1>3, <1>10, <2>2, <2>4
    <2> QED BY <1>4, <2>3, <2>4
  <1>13. Tracks(all, grown, n + 1)
    BY <1>8, <1>9, <1>11, <1>12 DEF Tracks
  <1> QED BY <1>2, <1>3, <1>7, <1>8, <1>13 DEF all, grown

LEMMA TailTracks ==
    ASSUME NEW list, SessionsOf(list), list # <<>>, NEW act, NEW n \in Nat, Tracks(act, list, n),
           NEW first, first = list[1].key
    PROVE  /\ SessionsOf(Tail(list))
           /\ KeysIn(Tail(list)) = KeysIn(list) \ {first}
           /\ Tracks(Keep(act, DOMAIN act \ {first}), Tail(list), n)
  <1> DEFINE rest == Tail(list)
             kept == Keep(act, DOMAIN act \ {first})
  <1>1. IsSeq(list) /\ DOMAIN list = 1 .. Len(list) /\ Distinct(list)
    BY ListFacts DEF SessionsOf
  <1>2. /\ IsSeq(rest) /\ DOMAIN rest = 1 .. Len(list) - 1
        /\ \A i \in 1 .. Len(list) - 1 : rest[i] = list[i + 1]
        /\ Len(list) \in Nat \ {0}
    BY <1>1, TailFacts
  <1> HIDE DEF rest
  <1>3. \A i \in DOMAIN rest : i + 1 \in DOMAIN list /\ rest[i] = list[i + 1]
    BY <1>1, <1>2
  <1>4. \A i \in DOMAIN list : i = 1 \/ i - 1 \in DOMAIN rest
    BY <1>1, <1>2
  <1>5. ASSUME NEW i \in DOMAIN rest, NEW j \in DOMAIN rest
        PROVE  rest[i].key = rest[j].key => i = j
    <2>1. i + 1 \in DOMAIN list /\ j + 1 \in DOMAIN list /\ i \in Int /\ j \in Int
      BY <1>2, <1>3
    <2>2. list[i + 1].key = list[j + 1].key => i + 1 = j + 1
      BY <1>1, <2>1 DEF Distinct
    <2> QED BY <1>3, <2>1, <2>2
  <1>6. SessionsOf(rest)
    BY <1>2, <1>3, <1>5 DEF SessionsOf, Distinct
  <1>7. \A i \in DOMAIN rest : rest[i].key # first
    <2> TAKE i \in DOMAIN rest
    <2>1. i + 1 \in DOMAIN list /\ 1 \in DOMAIN list /\ i + 1 # 1
      BY <1>1, <1>2
    <2> QED BY <1>1, <1>3, <2>1 DEF Distinct
  <1>8. KeysIn(rest) = KeysIn(list) \ {first}
    <2>1. ASSUME NEW i \in DOMAIN list, list[i].key # first
          PROVE  \E j \in DOMAIN rest : rest[j].key = list[i].key
      <3>1. i # 1 /\ i \in Int /\ i - 1 \in DOMAIN rest
        BY <1>1, <1>2, <1>4, <2>1
      <3>2. rest[i - 1] = list[i]
        BY <1>2, <3>1
      <3> QED BY <3>1, <3>2
    <2> QED BY <1>3, <1>7, <2>1 DEF KeysIn
  <1>9. /\ DOMAIN kept = KeysIn(list) \ {first}
        /\ \A x \in DOMAIN kept : kept[x] = act[x]
    BY DEF Tracks, Keep
  <1> HIDE DEF kept
  <1>10. \A i \in DOMAIN rest : kept[rest[i].key] = act[list[i + 1].key]
    BY <1>3, <1>8, <1>9 DEF KeysIn
  <1>11. \A i \in DOMAIN rest :
            /\ kept[rest[i].key].ts = Last(rest[i].value.events).ts
            /\ kept[rest[i].key].count \in 0 .. n
    BY <1>3, <1>10 DEF Tracks
  <1>12. ASSUME NEW i \in DOMAIN rest, NEW j \in DOMAIN rest, i < j
         PROVE  kept[rest[i].key].count < kept[rest[j].key].count
    <2>1. i + 1 \in DOMAIN list /\ j + 1 \in DOMAIN list /\ i + 1 < j + 1
      BY <1>2, <1>3, <1>12
    <2> QED BY <1>10, <2>1 DEF Tracks
  <1>13. Tracks(kept, rest, n)
    BY <1>8, <1>9, <1>11, <1>12 DEF Tracks
  <1> QED BY <1>6, <1>8, <1>13 DEF rest, kept

\* How many sessions were active after the i-th.
LEMMA Rank ==
    ASSUME NEW list, SessionsOf(list), NEW act, NEW n \in Nat, Tracks(act, list, n),
           NEW i \in DOMAIN list
    PROVE  Cardinality({x \in DOMAIN act : act[x].count > act[list[i].key].count})
              = Len(list) - i
  <1> DEFINE later == {x \in DOMAIN act : act[x].count > act[list[i].key].count}
             L == Len(list)
             f == [j \in i + 1 .. L |-> list[j].key]
  <1>1. L \in Nat /\ DOMAIN list = 1 .. L /\ Distinct(list)
    BY ListFacts DEF SessionsOf
  <1>2. /\ DOMAIN act = KeysIn(list)
        /\ \A j \in DOMAIN list : act[list[j].key].count \in Int
        /\ \A j, k \in DOMAIN list : j < k => act[list[j].key].count < act[list[k].key].count
    BY DEF Tracks
  <1> HIDE DEF L
  <1>3. f \in Bijection(i + 1 .. L, later)
    <2>1. ASSUME NEW j \in i + 1 .. L
          PROVE  f[j] \in later
      <3>1. j \in DOMAIN list /\ i < j
        BY <1>1
      <3>2. list[j].key \in DOMAIN act
        BY <1>2, <3>1 DEF KeysIn
      <3> QED BY <1>2, <3>1, <3>2
    <2>2. ASSUME NEW j \in i + 1 .. L, NEW k \in i + 1 .. L, f[j] = f[k]
          PROVE  j = k
      <3>1. j \in DOMAIN list /\ k \in DOMAIN list /\ list[j].key = list[k].key
        BY <1>1, <2>2
      <3> QED BY <1>1, <3>1 DEF Distinct
    <2>3. ASSUME NEW x \in later
          PROVE  \E j \in i + 1 .. L : f[j] = x
      <3>1. PICK j \in DOMAIN list : x = list[j].key
        BY <1>2 DEF KeysIn
      <3>2. act[list[j].key].count > act[list[i].key].count
        BY <3>1
      <3>3. ~(j < i) /\ j # i
        BY <1>2, <3>2
      <3>4. j \in i + 1 .. L
        BY <1>1, <3>3
      <3> QED BY <3>1, <3>4
    <2>4. f \in [i + 1 .. L -> later]
      BY <2>1
    <2> HIDE DEF f, later
    <2> QED BY <2>2, <2>3, <2>4 DEF Bijection, Injection, Surjection, IsInjective
  <1>4. IsFiniteSet(i + 1 .. L) /\ Cardinality(i + 1 .. L) = L - i
    <2>1. i \in 1 .. L /\ i + 1 \in Int /\ L \in Int
      BY <1>1
    <2> DEFINE a == i + 1
    <2>2. a \in Int
      BY <2>1
    <2> HIDE DEF a
    <2>3. IsFiniteSet(a .. L) /\ Cardinality(a .. L) = IF a > L THEN 0 ELSE L - a + 1
      BY <2>1, <2>2, FS_Interval
    <2> QED BY <2>1, <2>3 DEF a
  <1>5. ExistsBijection(i + 1 .. L, later)
    BY <1>3 DEF ExistsBijection
  <1> HIDE DEF later
  <1>6. Cardinality(later) = L - i
    BY <1>4, <1>5, FS_Bijection
  <1> QED BY <1>6 DEF later, L

\* The sessions not idle for long, and those the capacity leaves room for.
Live(act, now) == {s \in DOMAIN act : act[s].ts + LoopWindow >= now}
Awake(act) ==
    {s \in DOMAIN act :
        Cardinality({x \in DOMAIN act : act[x].count > act[s].count}) < LoopCapacity}

LEMMA KeepAll ==
    ASSUME NEW m, m = [x \in DOMAIN m |-> m[x]]
    PROVE  Keep(m, DOMAIN m) = m
  BY DEF Keep

LEMMA AwakeWithin ==
    ASSUME NEW list, SessionsOf(list), NEW act, NEW n \in Nat, Tracks(act, list, n),
           Len(list) <= LoopCapacity
    PROVE  Awake(act) = DOMAIN act
  <1>1. ASSUME NEW s \in DOMAIN act
        PROVE  Cardinality({x \in DOMAIN act : act[x].count > act[s].count}) < LoopCapacity
    <2>1. PICK i \in DOMAIN list : s = list[i].key
      BY DEF Tracks, KeysIn
    <2>2. Cardinality({x \in DOMAIN act : act[x].count > act[s].count}) = Len(list) - i
      BY <2>1, Rank
    <2>3. Len(list) \in Nat /\ i \in 1 .. Len(list) /\ LoopCapacity \in Nat
      BY ListFacts, LoopAssumption
    <2> QED BY <2>2, <2>3
  <1> QED BY <1>1 DEF Awake

LEMMA AwakeOver ==
    ASSUME NEW list, SessionsOf(list), NEW act, NEW n \in Nat, Tracks(act, list, n),
           Len(list) = LoopCapacity + 1
    PROVE  Awake(act) = DOMAIN act \ {list[1].key}
  <1> DEFINE later(s) == Cardinality({x \in DOMAIN act : act[x].count > act[s].count})
  <1>1. Len(list) \in Nat /\ DOMAIN list = 1 .. Len(list) /\ Distinct(list)
        /\ LoopCapacity \in Nat \ {0}
    BY ListFacts, LoopAssumption DEF SessionsOf
  <1>2. \A i \in DOMAIN list : later(list[i].key) = Len(list) - i
    BY Rank
  <1> HIDE DEF later
  <1>3. \A i \in DOMAIN list : later(list[i].key) < LoopCapacity <=> i # 1
    BY <1>1, <1>2
  <1>4. \A i \in DOMAIN list : list[i].key = list[1].key <=> i = 1
    BY <1>1 DEF Distinct
  <1>5. \A s \in DOMAIN act : later(s) < LoopCapacity <=> s # list[1].key
    <2> TAKE s \in DOMAIN act
    <2>1. PICK i \in DOMAIN list : s = list[i].key
      BY DEF Tracks, KeysIn
    <2> QED BY <1>3, <1>4, <2>1
  <1>6. Awake(act) = {s \in DOMAIN act : later(s) < LoopCapacity}
    BY DEF Awake, later
  <1> QED BY <1>5, <1>6

\* What expiry leaves, of the sessions and of the cooldowns of the live ones.
Expires(d, act, n, now, pd) ==
    /\ SessionsKept(pd)
    /\ Tracks(Keep(act, Live(act, now)), pd.sessions, n)
    /\ \A s \in DOMAIN pd.cooldown : s \in DOMAIN d.cooldown /\ pd.cooldown[s] = d.cooldown[s]
    /\ \A s \in DOMAIN d.cooldown \cap Live(act, now) :
          d.cooldown[s] > now => s \in DOMAIN pd.cooldown
    /\ \A s \in KeysIn(d.sessions) \ Live(act, now) : s \notin KeysIn(pd.sessions)

\* The sessions expired are those whose last activity was before the window.
LEMMA PruneKeeps ==
    ASSUME NEW d, SessionsKept(d), NEW act, NEW n \in Nat, Tracks(act, d.sessions, n),
           NEW now \in Nat, NEW pd, pd = PruneExpired(d, now)
    PROVE  Expires(d, act, n, now, pd)
  <1> DEFINE list == d.sessions
             live == Live(act, now)
             expired == {x \in KeysIn(list) : IsExpired(ValueOf(list, x), now)}
             rest == RemoveKeys(list, expired)
  <1>1. SessionsOf(list) /\ Distinct(list) /\ DOMAIN act = KeysIn(list)
    BY DEF SessionsKept, SessionsOf, Tracks
  <1>2. ASSUME NEW x \in KeysIn(list)
        PROVE  x \in expired <=> x \notin live
    <2>1. PICK i \in DOMAIN list : x = list[i].key
      BY DEF KeysIn
    <2> DEFINE s == list[i].value
    <2>2. ValueOf(list, x) = s
      BY <1>1, <2>1, ValueIs
    <2>3. s.events # <<>> /\ act[x].ts = Last(s.events).ts /\ Last(s.events).ts \in Nat
      BY <1>1, <2>1, ListFacts DEF SessionsOf, Tracks
    <2>4. IsExpired(s, now) <=> act[x].ts + LoopWindow < now
      BY <2>3 DEF IsExpired
    <2> HIDE DEF s
    <2>5. x \in expired <=> IsExpired(s, now)
      BY <2>2
    <2>6. x \in live <=> act[x].ts + LoopWindow >= now
      BY <1>1 DEF Live
    <2>7. act[x].ts \in Nat /\ LoopWindow \in Nat
      BY <2>3, LoopAssumption
    <2> QED BY <2>4, <2>5, <2>6, <2>7
  <1>3. pd = [sessions |-> rest,
              cooldown |-> Keep(d.cooldown, {x \in DOMAIN d.cooldown \ expired :
                                                d.cooldown[x] > now})]
    BY DEF PruneExpired
  <1>4. /\ pd.sessions = rest
        /\ DOMAIN pd.cooldown = {x \in DOMAIN d.cooldown \ expired : d.cooldown[x] > now}
        /\ \A x \in DOMAIN pd.cooldown : pd.cooldown[x] = d.cooldown[x]
        /\ pd.cooldown = [x \in DOMAIN pd.cooldown |-> pd.cooldown[x]]
    BY <1>3 DEF Keep
  <1> HIDE DEF expired, rest, live
  <1>5. live = DOMAIN act \cap (DOMAIN act \ expired)
    BY <1>1, <1>2 DEF Live, live
  <1>6. /\ SessionsOf(rest) /\ Len(rest) <= Len(list) /\ KeysIn(rest) = KeysIn(list) \ expired
        /\ Tracks(Keep(act, DOMAIN act \ expired), rest, n)
    BY <1>1, ThinTracks DEF rest
  <1>7. Keep(act, DOMAIN act \ expired) = Keep(act, live)
    BY <1>5 DEF Keep
  <1>8. DOMAIN d.cooldown \subseteq KeysIn(list) /\ \A x \in DOMAIN d.cooldown : d.cooldown[x] \in Nat
    BY DEF SessionsKept, IsMap
  <1>9. IsMap(pd.cooldown, KeysIn(rest), Nat)
    BY <1>4, <1>6, <1>8 DEF IsMap
  <1>10. Len(rest) <= LoopCapacity
    <2>1. Len(rest) \in Nat /\ Len(list) \in Nat /\ Len(list) <= LoopCapacity
      BY <1>1, <1>6, ListFacts DEF SessionsKept
    <2> QED BY <1>6, <2>1, LoopAssumption
  <1>11. SessionsKept(pd)
    BY <1>4, <1>6, <1>9, <1>10 DEF SessionsKept
  <1> QED BY <1>1, <1>2, <1>4, <1>6, <1>7, <1>8, <1>11 DEF live, Expires

\* The sessions with one more noted, all awake, and their cooldowns.
Notes(d, all, n, x, nd) ==
    /\ SessionsKept(nd)
    /\ Tracks(Keep(all, Awake(all)), nd.sessions, n)
    /\ x \in Awake(all)
    /\ \A k \in DOMAIN nd.cooldown : k \in DOMAIN d.cooldown /\ nd.cooldown[k] = d.cooldown[k]
    /\ \A k \in DOMAIN d.cooldown \cap Awake(all) : k \in DOMAIN nd.cooldown

\* A session goes in as the youngest, and the oldest out if there is no room.
LEMMA InsertKeeps ==
    ASSUME NEW d, SessionsKept(d), NEW act, NEW n \in Nat, Tracks(act, d.sessions, n),
           NEW x, NEW s, Counted(s), s.events # <<>>,
           NEW nd, nd = InsertSession(d, x, s),
           NEW all, all = Touched(act, x, Last(s.events).ts, n + 1)
    PROVE  Notes(d, all, n + 1, x, nd)
  <1> DEFINE list == d.sessions
             rest == RemoveKeys(list, {x})
             kept == Keep(act, DOMAIN act \ {x})
             grown == Added(rest, x, s)
             ts == Last(s.events).ts
             sessions == IF Len(grown) > LoopCapacity THEN Tail(grown) ELSE grown
  <1>1. SessionsOf(list) /\ Len(list) \in Nat /\ Len(list) <= LoopCapacity
        /\ LoopCapacity \in Nat \ {0}
    BY ListFacts, LoopAssumption DEF SessionsKept
  <1>2. /\ SessionsOf(rest) /\ Len(rest) <= Len(list) /\ KeysIn(rest) = KeysIn(list) \ {x}
        /\ Tracks(kept, rest, n)
    BY <1>1, ThinTracks
  <1>3. Len(rest) \in Nat
    BY <1>2, ListFacts
  <1> HIDE DEF rest
  <1>4. x \notin KeysIn(rest)
    BY <1>2
  <1> HIDE DEF kept
  <1>5. /\ SessionsOf(grown)
        /\ Len(grown) = Len(rest) + 1
        /\ KeysIn(grown) = KeysIn(rest) \cup {x}
        /\ grown[Len(grown)].key = x
        /\ Tracks(Touched(kept, x, ts, n + 1), grown, n + 1)
    BY <1>2, <1>3, <1>4, AppendTracks
  <1>6. Touched(kept, x, ts, n + 1) = all
    BY DEF Touched, Put, Keep, kept
  <1>7. nd = [sessions |-> sessions,
              cooldown |-> Keep(d.cooldown, DOMAIN d.cooldown
                                   \ (KeysIn(list) \ KeysIn(sessions)))]
    BY DEF InsertSession, InsertYoungest, rest, Added
  <1>8. /\ nd.sessions = sessions
        /\ DOMAIN nd.cooldown = DOMAIN d.cooldown \ (KeysIn(list) \ KeysIn(sessions))
        /\ \A k \in DOMAIN nd.cooldown : nd.cooldown[k] = d.cooldown[k]
        /\ nd.cooldown = [k \in DOMAIN nd.cooldown |-> nd.cooldown[k]]
    <2> HIDE DEF sessions
    <2> QED BY <1>7 DEF Keep
  <1> HIDE DEF grown
  <1>9. /\ DOMAIN all = KeysIn(grown)
        /\ all = [k \in DOMAIN all |-> all[k]]
        /\ Tracks(all, grown, n + 1)
    <2>1. Tracks(all, grown, n + 1)
      BY <1>5, <1>6
    <2> QED BY <2>1 DEF Touched, Put, Tracks
  <1>10. /\ SessionsOf(sessions)
         /\ Len(sessions) <= LoopCapacity
         /\ KeysIn(sessions) = Awake(all)
         /\ x \in Awake(all)
         /\ Tracks(Keep(all, Awake(all)), sessions, n + 1)
    <2>1. CASE Len(grown) > LoopCapacity
      <3>1. sessions = Tail(grown) /\ Len(grown) = LoopCapacity + 1
        BY <1>1, <1>2, <1>3, <1>5, <2>1
      <3> DEFINE first == grown[1].key
      <3>2. Awake(all) = DOMAIN all \ {first}
        BY <1>5, <1>9, <3>1, AwakeOver
      <3>3. IsSeq(grown) /\ grown # <<>> /\ DOMAIN grown = 1 .. Len(grown)
            /\ Len(Tail(grown)) = Len(grown) - 1
        <4>1. IsSeq(grown) /\ DOMAIN grown = 1 .. Len(grown) /\ Len(grown) # 0
          BY <1>1, <1>5, <3>1, ListFacts
        <4> QED BY <4>1, SeqFacts, TailFacts
      <3>4. first # x
        <4>1. 1 \in DOMAIN grown /\ Len(grown) \in DOMAIN grown /\ Len(grown) # 1
          BY <1>1, <3>1, <3>3
        <4> QED BY <1>5, <4>1 DEF SessionsOf, Distinct
      <3>5. /\ SessionsOf(Tail(grown)) /\ KeysIn(Tail(grown)) = KeysIn(grown) \ {first}
            /\ Tracks(Keep(all, DOMAIN all \ {first}), Tail(grown), n + 1)
        <4> DEFINE m == n + 1
        <4>1. m \in Nat /\ first = grown[1].key /\ Tracks(all, grown, m)
          BY <1>9
        <4> HIDE DEF m, first
        <4>2. /\ SessionsOf(Tail(grown)) /\ KeysIn(Tail(grown)) = KeysIn(grown) \ {first}
              /\ Tracks(Keep(all, DOMAIN all \ {first}), Tail(grown), m)
          BY <1>5, <3>3, <4>1, TailTracks
        <4> QED BY <4>2 DEF m
      <3> HIDE DEF first
      <3>6. Len(sessions) <= LoopCapacity
        BY <1>1, <3>1, <3>3
      <3> HIDE DEF sessions
      <3>7. KeysIn(sessions) = Awake(all) /\ x \in Awake(all)
        BY <1>5, <1>9, <3>1, <3>2, <3>4, <3>5
      <3>8. SessionsOf(sessions) /\ Tracks(Keep(all, Awake(all)), sessions, n + 1)
        BY <3>1, <3>2, <3>5
      <3> QED BY <3>6, <3>7, <3>8
    <2>2. CASE ~(Len(grown) > LoopCapacity)
      <3>1. sessions = grown /\ Len(grown) <= LoopCapacity
        BY <1>1, <1>3, <1>5, <2>2
      <3>2. Awake(all) = DOMAIN all
        BY <1>5, <1>9, <3>1, AwakeWithin
      <3>3. Keep(all, Awake(all)) = all
        BY <1>9, <3>2, KeepAll
      <3> QED BY <1>5, <1>9, <3>1, <3>2, <3>3
    <2> QED BY <2>1, <2>2
  <1> HIDE DEF sessions
  <1>11. DOMAIN d.cooldown \subseteq KeysIn(list)
         /\ \A k \in DOMAIN d.cooldown : d.cooldown[k] \in Nat
    BY DEF SessionsKept, IsMap
  <1>12. IsMap(nd.cooldown, KeysIn(sessions), Nat)
    BY <1>8, <1>11 DEF IsMap
  <1>13. SessionsKept(nd)
    BY <1>8, <1>10, <1>12 DEF SessionsKept
  <1> QED BY <1>8, <1>10, <1>13 DEF Notes

\* What a call leaves: the sessions, their history and the loops found in step,
\* and a loop found again only after the cooldown.
Applied(d, all, n, found, nfound, now, later) ==
    /\ SessionsKept(d)
    /\ Tracks(Keep(all, Awake(all)), d.sessions, n)
    /\ Rests(d, Keep(all, Awake(all)), nfound, later)
    /\ \A s \in DOMAIN found \cap DOMAIN nfound : nfound[s] # found[s] =>
          nfound[s] = now /\ found[s] + LoopCooldown <= later

\* The history a call leaves, before the capacity is enforced; the loops known.
ActiveThen(act, activities, session, now, n) ==
    IF activities = <<>> THEN Keep(act, Live(act, now))
    ELSE Touched(Keep(act, Live(act, now)), session, now, n)
LoopsThen(found, keep, loop, session, now) ==
    IF loop THEN Put(Keep(found, keep), session, now) ELSE Keep(found, keep)

\* One call of the detector: the sessions, their history and the loops found
\* stay in step, and a session found looping has rested.
LEMMA DeadloopWorks ==
    ASSUME NEW d, NEW act, NEW found, NEW n \in Nat, NEW clk \in Nat,
           SessionsKept(d), Tracks(act, d.sessions, n), Rests(d, act, found, clk),
           NEW now \in Nat, NEW later \in Nat, now <= later, clk <= later,
           NEW session, NEW repeats, NEW activities,
           activities = <<>> \/ \E a : activities = <<a>> /\ IsActivity(a) /\ a.ts = now,
           NEW r, r = Deadloop(d, session, activities, repeats, now),
           NEW live, live = Live(act, now),
           NEW all, all = ActiveThen(act, activities, session, now, n + 1),
           NEW loop \in BOOLEAN, loop => r.findings # <<>>,
           NEW nfound, nfound = LoopsThen(found, live \cap Awake(all), loop, session, now)
    PROVE  Applied(r.d, all, n + 1, found, nfound, now, later)
  <1> DEFINE ever == Keep(found, live \cap Awake(all))
             pruned == PruneExpired(d, now)
             act1 == Keep(act, live)
             nact == Keep(all, Awake(all))
             Kept(c, k) == \/ found[k] + LoopCooldown <= later
                           \/ k \in DOMAIN c /\ c[k] = found[k] + LoopCooldown
  <1>0. /\ all = IF activities = <<>> THEN act1 ELSE Touched(act1, session, now, n + 1)
        /\ nfound = IF loop THEN Put(ever, session, now) ELSE ever
    BY DEF ActiveThen, LoopsThen
  <1>1. /\ SessionsKept(pruned)
        /\ Tracks(act1, pruned.sessions, n)
        /\ \A s \in DOMAIN pruned.cooldown :
              s \in DOMAIN d.cooldown /\ pruned.cooldown[s] = d.cooldown[s]
        /\ \A s \in DOMAIN d.cooldown \cap live : d.cooldown[s] > now => s \in DOMAIN pruned.cooldown
        /\ \A s \in KeysIn(d.sessions) \ live : s \notin KeysIn(pruned.sessions)
    <2>1. pruned = PruneExpired(d, now) /\ act1 = Keep(act, Live(act, now))
      OBVIOUS
    <2> HIDE DEF pruned, act1
    <2>2. Expires(d, act, n, now, pruned)
      BY <2>1, PruneKeeps
    <2> QED BY <2>1, <2>2 DEF Expires
  <1>2. /\ LoopCooldown \in Nat /\ LoopCapacity \in Nat
        /\ FileThreshold \in Nat /\ FileThreshold >= 2
    BY LoopAssumption
  <1>3. /\ DOMAIN found \subseteq DOMAIN act
        /\ \A s \in DOMAIN found :
              /\ found[s] \in Nat
              /\ \/ found[s] + LoopCooldown <= clk
                 \/ s \in DOMAIN d.cooldown /\ d.cooldown[s] = found[s] + LoopCooldown
    BY DEF Rests
  <1>4. \A k \in DOMAIN found \cap live : Kept(pruned.cooldown, k)
    BY <1>1, <1>2, <1>3
  <1> HIDE DEF pruned
  <1>5. /\ DOMAIN act1 = DOMAIN act \cap live
        /\ act1 = [x \in DOMAIN act1 |-> act1[x]]
    BY DEF Keep
  <1> HIDE DEF act1
  <1>6. /\ DOMAIN nact = Awake(all)
        /\ DOMAIN ever = DOMAIN found \cap live \cap Awake(all)
        /\ \A k \in DOMAIN ever : ever[k] = found[k]
    BY DEF Keep, Awake
  <1> HIDE DEF ever
  <1>7. CASE activities = <<>>
    <2>1. r = [d |-> pruned, findings |-> <<>>]
      BY <1>7 DEF Deadloop, pruned
    <2>2. r.d = pruned /\ ~loop /\ nfound = ever /\ all = act1
      BY <1>0, <1>7, <2>1
    <2>3. Awake(all) = DOMAIN all
      BY <1>1, <2>2, AwakeWithin DEF SessionsKept
    <2>4. nact = all
      BY <1>5, <2>2, <2>3, KeepAll
    <2> HIDE DEF nact
    <2>5. Tracks(nact, pruned.sessions, n + 1)
      <3>1. Tracks(nact, pruned.sessions, n)
        BY <1>1, <2>2, <2>4
      <3> QED BY <3>1 DEF Tracks
    <2>6. Rests(pruned, nact, nfound, later)
      <3>1. \A k \in DOMAIN ever : ever[k] \in Nat /\ Kept(pruned.cooldown, k)
        BY <1>3, <1>4, <1>6
      <3>2. \A k \in DOMAIN ever : \/ ever[k] + LoopCooldown <= later
                                   \/ k \in DOMAIN pruned.cooldown
                                      /\ pruned.cooldown[k] = ever[k] + LoopCooldown
        BY <1>6, <3>1
      <3> QED BY <1>6, <2>2, <3>1, <3>2 DEF Rests
    <2>7. \A s \in DOMAIN found \cap DOMAIN nfound : nfound[s] = found[s]
      BY <1>6, <2>2
    <2> QED BY <1>1, <2>2, <2>5, <2>6, <2>7 DEF nact, Applied
  <1>8. CASE activities # <<>>
    <2>1. PICK a : activities = <<a>> /\ IsActivity(a) /\ a.ts = now
      BY <1>8
    <2> DEFINE prior == IF session \in KeysIn(pruned.sessions)
                        THEN ValueOf(pruned.sessions, session) ELSE NewLoopSession
               pushed == Push(prior, a)
               s == PruneBefore(pushed, now)
               noted == InsertSession(pruned, session, s)
               resting == session \in DOMAIN noted.cooldown /\ noted.cooldown[session] > now
               reported == [noted EXCEPT !.cooldown =
                               Put(noted.cooldown, session, now + LoopCooldown)]
    <2>2. Counted(prior) /\ (session \notin KeysIn(pruned.sessions) => Len(prior.events) = 0)
      <3>1. CASE session \in KeysIn(pruned.sessions)
        <4>1. PICK i \in DOMAIN pruned.sessions : session = pruned.sessions[i].key
          BY <3>1 DEF KeysIn
        <4>2. prior = pruned.sessions[i].value
          BY <1>1, <3>1, <4>1, ValueIs DEF SessionsKept, SessionsOf
        <4> HIDE DEF prior
        <4> QED BY <1>1, <3>1, <4>2 DEF SessionsKept, SessionsOf
      <3>2. CASE session \notin KeysIn(pruned.sessions)
        <4>1. prior = NewLoopSession
          BY <3>2
        <4>2. NewLoopSession.events = <<>> /\ Len(<<>>) = 0
          BY DEF NewLoopSession
        <4> HIDE DEF prior
        <4> QED BY <4>1, <4>2, NewCounted
      <3> QED BY <3>1, <3>2
    <2> HIDE DEF prior
    <2>3. /\ Counted(pushed) /\ Len(pushed.events) = Len(prior.events) + 1
          /\ Last(pushed.events) = a
      BY <2>1, <2>2, PushCounted
    <2> HIDE DEF pushed
    <2>4. pushed.events # <<>>
      <3>1. Len(prior.events) \in Nat /\ Len(pushed.events) # 0
        BY <2>2, <2>3, SeqFacts DEF Counted
      <3> QED BY <2>3, <3>1, SeqFacts DEF Counted
    <2>5. /\ Counted(s) /\ s.events # <<>> /\ Len(s.events) <= Len(pushed.events)
          /\ Last(s.events) = a
      BY <2>1, <2>3, <2>4, PruneCounted
    <2> HIDE DEF s
    <2>6. all = Touched(act1, session, Last(s.events).ts, n + 1)
      BY <1>0, <1>8, <2>1, <2>5
    <2>7. /\ SessionsKept(noted)
          /\ Tracks(nact, noted.sessions, n + 1)
          /\ session \in Awake(all)
          /\ \A k \in DOMAIN noted.cooldown :
                k \in DOMAIN pruned.cooldown /\ noted.cooldown[k] = pruned.cooldown[k]
          /\ \A k \in DOMAIN pruned.cooldown \cap Awake(all) : k \in DOMAIN noted.cooldown
      <3>1. noted = InsertSession(pruned, session, s)
        OBVIOUS
      <3> HIDE DEF noted, nact
      <3>2. Notes(pruned, all, n + 1, session, noted)
        BY <1>1, <2>5, <2>6, <3>1, InsertKeeps
      <3> QED BY <3>2 DEF nact, Notes
    <2>8. noted = [sessions |-> noted.sessions, cooldown |-> noted.cooldown]
      BY DEF InsertSession
    <2> HIDE DEF noted
    <2>9. \/ r.d = noted /\ r.findings = <<>>
          \/ r.d = reported /\ ~resting /\ Matches(s, repeats)
      <3>1. activities[1] = a
        BY <2>1
      <3>2. \/ r = [d |-> noted, findings |-> <<>>]
            \/ /\ ~resting /\ Matches(s, repeats)
               /\ r = [d |-> reported, findings |-> <<LoopFinding(session, s, repeats, now)>>]
        BY <1>8, <3>1 DEF Deadloop, pruned, prior, pushed, s, noted
      <3> HIDE DEF reported, resting
      <3> QED BY <3>2
    <2>10. \A k \in DOMAIN found \cap live \cap Awake(all) : Kept(noted.cooldown, k)
      BY <1>4, <2>7
    <2>11. ~resting /\ session \in DOMAIN found \cap live => found[session] + LoopCooldown <= later
      BY <1>2, <1>3, <2>7, <2>10
    <2>12. /\ reported.sessions = noted.sessions
           /\ reported.cooldown = Put(noted.cooldown, session, now + LoopCooldown)
      <3> DEFINE x == noted.sessions
                 y == noted.cooldown
                 z == Put(y, session, now + LoopCooldown)
      <3>1. noted = [sessions |-> x, cooldown |-> y]
        BY <2>8
      <3> HIDE DEF x, y, z
      <3>2. [[sessions |-> x, cooldown |-> y] EXCEPT !.cooldown = z] = [sessions |-> x, cooldown |-> z]
        OBVIOUS
      <3>3. reported = [sessions |-> x, cooldown |-> z]
        BY <3>1, <3>2, Zenon DEF z, y
      <3> HIDE DEF reported
      <3> QED BY <3>3 DEF x, y, z
    <2> HIDE DEF reported
    <2>13. /\ DOMAIN reported.cooldown = DOMAIN noted.cooldown \cup {session}
           /\ reported.cooldown[session] = now + LoopCooldown
           /\ \A k \in DOMAIN noted.cooldown :
                 k # session => reported.cooldown[k] = noted.cooldown[k]
           /\ reported.cooldown = [k \in DOMAIN reported.cooldown |-> reported.cooldown[k]]
      BY <2>12 DEF Put
    <2>14. /\ DOMAIN nfound \subseteq Awake(all)
           /\ \A k \in DOMAIN nfound : \/ loop /\ k = session /\ nfound[k] = now
                                       \/ k \in DOMAIN ever /\ nfound[k] = found[k]
      <3>1. CASE loop
        <4>1. nfound = Put(ever, session, now)
          BY <1>0, <3>1
        <4>2. /\ DOMAIN nfound = DOMAIN ever \cup {session}
              /\ \A k \in DOMAIN nfound : nfound[k] = IF k = session THEN now ELSE ever[k]
          BY <4>1 DEF Put
        <4> QED BY <1>6, <2>7, <3>1, <4>2
      <3>2. CASE ~loop
        <4>1. nfound = ever
          BY <1>0, <3>2
        <4> QED BY <1>6, <4>1
      <3> QED BY <3>1, <3>2
    <2>15. /\ SessionsKept(r.d)
           /\ Tracks(nact, r.d.sessions, n + 1)
      <3>1. CASE r.d = noted
        BY <2>7, <3>1
      <3>2. CASE r.d = reported
        <4>1. session \in KeysIn(noted.sessions)
          BY <1>6, <2>7 DEF Tracks
        <4>2. IsMap(reported.cooldown, KeysIn(noted.sessions), Nat)
          <5>1. /\ DOMAIN noted.cooldown \subseteq KeysIn(noted.sessions)
                /\ \A k \in DOMAIN noted.cooldown : noted.cooldown[k] \in Nat
            BY <2>7 DEF SessionsKept, IsMap
          <5>2. DOMAIN reported.cooldown \subseteq KeysIn(noted.sessions)
            BY <2>13, <4>1, <5>1
          <5>3. now + LoopCooldown \in Nat
            BY <1>2
          <5>4. \A k \in DOMAIN reported.cooldown : reported.cooldown[k] \in Nat
            BY <2>13, <5>1, <5>3
          <5>5. reported.cooldown \in [DOMAIN reported.cooldown -> Nat]
            BY <2>13, <5>4
          <5> QED BY <5>2, <5>5 DEF IsMap
        <4>3. SessionsKept(reported)
          BY <2>7, <2>12, <4>2 DEF SessionsKept
        <4> QED BY <2>7, <2>12, <3>2, <4>3
      <3> QED BY <2>9, <3>1, <3>2
    <2>16. \A k \in DOMAIN nfound :
              /\ nfound[k] \in Nat
              /\ \/ nfound[k] + LoopCooldown <= later
                 \/ k \in DOMAIN r.d.cooldown /\ r.d.cooldown[k] = nfound[k] + LoopCooldown
      <3> TAKE k \in DOMAIN nfound
      <3>1. CASE k \in DOMAIN ever /\ nfound[k] = found[k]
        <4>1. k \in DOMAIN found /\ k \in live /\ k \in Awake(all) /\ found[k] \in Nat
              /\ Kept(noted.cooldown, k)
          BY <1>3, <1>6, <2>10, <3>1
        <4>2. CASE r.d = noted
          BY <3>1, <4>1, <4>2
        <4>3. CASE r.d = reported /\ ~resting
          <5>1. CASE k = session
            BY <2>11, <3>1, <4>1, <4>3, <5>1
          <5>2. CASE k # session
            BY <2>13, <3>1, <4>1, <4>3, <5>2
          <5> QED BY <5>1, <5>2
        <4> HIDE DEF Kept, resting
        <4> QED BY <2>9, <4>2, <4>3
      <3>2. CASE loop /\ k = session /\ nfound[k] = now
        <4>1. r.d = reported
          BY <2>9, <3>2
        <4> QED BY <2>13, <3>2, <4>1
      <3> QED BY <2>14, <3>1, <3>2
    <2>17. Rests(r.d, nact, nfound, later)
      BY <1>6, <2>14, <2>16 DEF Rests
    <2>18. ASSUME NEW k \in DOMAIN found \cap DOMAIN nfound, nfound[k] # found[k]
           PROVE  nfound[k] = now /\ found[k] + LoopCooldown <= later
      <3>1. loop /\ k = session /\ nfound[k] = now
        BY <2>14, <2>18
      <3>2. ~resting /\ Matches(s, repeats)
        BY <2>9, <3>1
      <3>3. CASE session \in live
        <4> HIDE DEF resting
        <4> QED BY <2>11, <3>1, <3>2, <3>3
      <3>4. CASE session \notin live
        <4>1. session \in KeysIn(d.sessions)
          BY <1>3, <3>1 DEF Tracks
        <4>2. Len(prior.events) = 0
          BY <1>1, <2>2, <3>4, <4>1
        <4>3. Len(s.events) <= 1
          BY <2>3, <2>5, <4>2
        <4>4. Len(s.events) \in Nat
          BY <2>5, SeqFacts DEF Counted
        <4> QED BY <1>2, <3>2, <4>3, <4>4 DEF Matches
      <3> QED BY <3>1, <3>3, <3>4
    <2> HIDE DEF nact
    <2> QED BY <2>15, <2>17, <2>18 DEF nact, Applied
  <1> QED BY <1>7, <1>8
-----------------------------------------------------------------------------
(* Events.                                                                 *)

\* An event has the fields of its shape, and its number and time.
LEMMA EventFields ==
    ASSUME NEW shape \in Shapes, NEW ts \in Nat, NEW ev, ev = EventOf(shape, ts)
    PROVE  /\ ev.ts = ts /\ ev.id = count + 1
           /\ ev.session = shape.session /\ ev.confirmed = shape.confirmed
           /\ ev.spoofed \in Nat /\ ev.writes \in BOOLEAN /\ ev.inside \in BOOLEAN
           /\ IsSeq(ev.prompts) /\ IsSeq(ev.chains)
  <1>1. /\ DOMAIN shape = {"session", "confirmed", "kind", "object", "shell", "allowed", "failed",
                           "writes", "inside", "sensitive", "resolved", "exe", "spoofed",
                           "prompts", "repeats", "chains"}
        /\ shape.spoofed \in Nat /\ shape.writes \in BOOLEAN /\ shape.inside \in BOOLEAN
        /\ shape.prompts \in Seq([id : {n \in Int : n <= 0}, visibility : Visibilities])
        /\ shape.chains \in Seq([id : Nat, score : Nat, weak : BOOLEAN,
                                 visibility : Visibilities])
    BY DEF Shapes
  <1>2. \A S, s : s \in Seq(S) => IsSeq(s)
    <2> TAKE S, s
    <2> HAVE s \in Seq(S)
    <2>1. Len(s) \in Nat /\ s = [i \in 1 .. Len(s) |-> s[i]]
      OBVIOUS
    <2> QED BY <2>1, SeqByIndex
  <1>3. IsSeq(shape.prompts) /\ IsSeq(shape.chains)
    BY <1>1, <1>2
  <1> DEFINE named == Put(shape, "id", count + 1)
  <1>4. /\ DOMAIN named = DOMAIN shape \cup {"id"}
        /\ named["id"] = count + 1
        /\ \A f \in DOMAIN shape : f # "id" => named[f] = shape[f]
    BY DEF Put
  <1>5. ev = Put(named, "ts", ts)
    BY DEF EventOf
  <1> HIDE DEF named
  <1>6. /\ ev["ts"] = ts
        /\ \A f \in DOMAIN named : f # "ts" => ev[f] = named[f]
    BY <1>5 DEF Put
  <1>7. \A f \in DOMAIN shape : f # "ts" /\ f # "id" => ev[f] = shape[f]
    BY <1>4, <1>6
  <1>8. ev.id = count + 1
    BY <1>4, <1>6
  <1>9. /\ ev.session = shape.session /\ ev.confirmed = shape.confirmed
        /\ ev.spoofed = shape.spoofed /\ ev.writes = shape.writes /\ ev.inside = shape.inside
        /\ ev.prompts = shape.prompts /\ ev.chains = shape.chains
    BY <1>1, <1>7
  <1> QED BY <1>1, <1>3, <1>6, <1>8, <1>9

LEMMA ActivitiesAre ==
    ASSUME NEW ev, ev.ts \in Nat, ev.writes \in BOOLEAN, ev.inside \in BOOLEAN
    PROVE  \/ Activities(ev) = <<>>
           \/ \E a : Activities(ev) = <<a>> /\ IsActivity(a) /\ a.ts = ev.ts
  <1> DEFINE connect == [kind |-> IF ev.object = NoObject THEN "unaddressed" ELSE "net_connect",
                         object |-> ev.object, ts |-> ev.ts, id |-> ev.id, progress |-> FALSE]
             access == [kind |-> "file_access", object |-> ev.object, ts |-> ev.ts,
                        id |-> ev.id, progress |-> ev.writes /\ ev.inside]
  <1>1. /\ IsActivity(connect) /\ connect.ts = ev.ts
        /\ IsActivity(access) /\ access.ts = ev.ts
    BY DEF IsActivity, ActivityKinds
  <1>2. \/ Activities(ev) = <<>>
        \/ Activities(ev) = <<connect>>
        \/ Activities(ev) = <<access>>
    BY DEF Activities
  <1> HIDE DEF connect, access
  <1> QED BY <1>1, <1>2

\* Findings of other detectors than the dead-loop detector.
LoopFree(findings) == \A i \in DOMAIN findings : findings[i].type # "SingleAgentDeadloop"

LEMMA ConcatLoopFree ==
    ASSUME NEW ts, NEW r, AreFindings(r, ts), LoopFree(r), NEW s, AreFindings(s, ts), LoopFree(s)
    PROVE  LoopFree(r \o s)
  <1>1. IsSeq(r) /\ IsSeq(s)
    BY DEF AreFindings
  <1>2. Len(r) \in Nat /\ DOMAIN r = 1 .. Len(r) /\ Len(s) \in Nat /\ DOMAIN s = 1 .. Len(s)
    BY <1>1, SeqFacts
  <1> DEFINE c == r \o s
  <1>3. /\ IsSeq(c) /\ Len(c) = Len(r) + Len(s)
        /\ \A i \in DOMAIN c : c[i] = IF i <= Len(r) THEN r[i] ELSE s[i - Len(r)]
    BY <1>1, ConcatFacts
  <1> HIDE DEF c
  <1>4. DOMAIN c = 1 .. Len(c)
    BY <1>3, SeqFacts
  <1>5. \A i \in DOMAIN c : c[i].type # "SingleAgentDeadloop"
    BY <1>2, <1>3, <1>4 DEF LoopFree
  <1> QED BY <1>5 DEF LoopFree, c

LEMMA WhenLoopFree ==
    ASSUME NEW condition, NEW f, f.type # "SingleAgentDeadloop"
    PROVE  LoopFree(When(condition, f))
  <1>1. \A i \in DOMAIN <<f>> : <<f>>[i] = f
    OBVIOUS
  <1>2. DOMAIN <<>> = {}
    OBVIOUS
  <1>3. LoopFree(<<f>>) /\ LoopFree(<<>>)
    BY <1>1, <1>2 DEF LoopFree
  <1> QED BY <1>3 DEF When

\* A loop is reported only where the dead-loop detector found one.
LEMMA LoopsAreFound ==
    ASSUME NEW d, NEW ev, IsSeq(ev.prompts), ev.spoofed \in Nat, NEW dry_run,
           NEW loop, loop = Deadloop(d, ev.session, Activities(ev), ev.repeats, ev.ts),
           loop.findings = <<>>
    PROVE  LoopFree(Detected(d, ev, dry_run).findings)
  <1> DEFINE found == UnexpectedShell(ev) \o SensitiveFileAccess(ev)
                         \o OutOfWorkspaceDeletion(ev) \o loop.findings \o McpToolSpoofing(ev)
             all == IF found = <<>> /\ dry_run THEN ExecObserved(ev) ELSE found
             linked == [i \in DOMAIN all |-> WithPrompts(all[i], ev.prompts)]
  <1>1. Detected(d, ev, dry_run).findings = linked
    BY DEF Detected
  <1>2. \A type, reason : PathFinding(ev, type, reason).type = type
    BY DEF PathFinding
  <1>3. /\ AreFindings(UnexpectedShell(ev), ev.ts) /\ LoopFree(UnexpectedShell(ev))
        /\ AreFindings(SensitiveFileAccess(ev), ev.ts) /\ LoopFree(SensitiveFileAccess(ev))
        /\ AreFindings(OutOfWorkspaceDeletion(ev), ev.ts) /\ LoopFree(OutOfWorkspaceDeletion(ev))
        /\ AreFindings(ExecObserved(ev), ev.ts) /\ LoopFree(ExecObserved(ev))
    <2>1. AreFindings(UnexpectedShell(ev), ev.ts) /\ LoopFree(UnexpectedShell(ev))
      BY <1>2, PathFindings, WhenFindings, WhenLoopFree DEF UnexpectedShell
    <2>2. AreFindings(SensitiveFileAccess(ev), ev.ts) /\ LoopFree(SensitiveFileAccess(ev))
      BY <1>2, PathFindings, WhenFindings, WhenLoopFree DEF SensitiveFileAccess
    <2>3. AreFindings(OutOfWorkspaceDeletion(ev), ev.ts) /\ LoopFree(OutOfWorkspaceDeletion(ev))
      BY <1>2, PathFindings, WhenFindings, WhenLoopFree DEF OutOfWorkspaceDeletion
    <2>4. AreFindings(ExecObserved(ev), ev.ts) /\ LoopFree(ExecObserved(ev))
      BY <1>2, PathFindings, WhenFindings, WhenLoopFree DEF ExecObserved
    <2> QED BY <2>1, <2>2, <2>3, <2>4
  <1>4. AreFindings(loop.findings, ev.ts) /\ LoopFree(loop.findings)
    <2>1. DOMAIN <<>> = {}
      OBVIOUS
    <2> QED BY <2>1, NoFindings DEF LoopFree
  <1>5. AreFindings(McpToolSpoofing(ev), ev.ts) /\ LoopFree(McpToolSpoofing(ev))
    <2>1. \A i \in DOMAIN McpToolSpoofing(ev) :
             McpToolSpoofing(ev)[i].type = "McpToolSpoofing"
      BY DEF McpToolSpoofing, PathFinding
    <2> QED BY <2>1, McpFindings DEF LoopFree
  <1>6. AreFindings(found, ev.ts) /\ LoopFree(found)
    <2> DEFINE a == UnexpectedShell(ev) \o SensitiveFileAccess(ev)
               b == a \o OutOfWorkspaceDeletion(ev)
               c == b \o loop.findings
    <2>1. AreFindings(a, ev.ts) /\ LoopFree(a)
      BY <1>3, ConcatFindings, ConcatLoopFree
    <2> HIDE DEF a
    <2>2. AreFindings(b, ev.ts) /\ LoopFree(b)
      BY <1>3, <2>1, ConcatFindings, ConcatLoopFree
    <2> HIDE DEF b
    <2>3. AreFindings(c, ev.ts) /\ LoopFree(c)
      BY <1>4, <2>2, ConcatFindings, ConcatLoopFree
    <2> HIDE DEF c
    <2>4. AreFindings(c \o McpToolSpoofing(ev), ev.ts) /\ LoopFree(c \o McpToolSpoofing(ev))
      BY <1>5, <2>3, ConcatFindings, ConcatLoopFree
    <2> QED BY <2>4 DEF a, b, c
  <1> HIDE DEF found
  <1>7. AreFindings(all, ev.ts) /\ LoopFree(all)
    BY <1>3, <1>6
  <1> HIDE DEF all
  <1>8. \A i \in DOMAIN all : WithPrompts(all[i], ev.prompts).type = all[i].type
    <2> TAKE i \in DOMAIN all
    <2>1. IsFinding(all[i], ev.ts)
      BY <1>7 DEF AreFindings
    <2> QED BY <2>1, WithPromptsFindings
  <1>9. LoopFree(linked)
    BY <1>7, <1>8 DEF LoopFree
  <1> QED BY <1>1, <1>9
-----------------------------------------------------------------------------
(* The steps.                                                              *)

\* What LoopAlertsRest says of a step.
Rested == \A s \in DOMAIN loops \cap DOMAIN loops' :
             loops'[s] # loops[s] => loops'[s] + Lag >= loops[s] + LoopCooldown

\* An event's time is within the lag of the clock.
LEMMA TimeOfEvent ==
    ASSUME AlertInv, NEW gap \in scenario.gaps, NEW lag \in scenario.lags, Happens(gap, lag)
    PROVE  /\ gap \in Nat /\ lag \in 0 .. Lag /\ Lag \in Nat
           /\ clock + gap - lag \in Nat
           /\ clock' \in Nat /\ count' = count + 1 /\ count' \in Nat
           /\ clock <= clock' /\ clock + gap - lag <= clock' /\ clock' <= clock + gap - lag + Lag
           /\ scenario' \in Scenarios
  <1>1. /\ Lag \in Nat /\ gap \in Nat /\ lag \in 0 .. Lag
        /\ clock \in Nat /\ count \in Nat /\ scenario \in Scenarios
    BY AlertingAssumption DEF AlertInv
  <1>2. lag <= clock + gap /\ clock' = clock + gap /\ count' = count + 1 /\ scenario' = scenario
    BY DEF Happens
  <1> QED BY <1>1, <1>2

\* More events do not disturb the order of the sessions' activity.
LEMMA TracksLater ==
    ASSUME NEW act, NEW list, NEW n \in Nat, Tracks(act, list, n)
    PROVE  Tracks(act, list, n + 1)
  BY DEF Tracks

LEMMA RestsLater ==
    ASSUME NEW d, NEW act, NEW found, NEW now \in Nat, NEW later \in Nat, now <= later,
           Rests(d, act, found, now)
    PROVE  Rests(d, act, found, later)
  <1>1. LoopCooldown \in Nat
    BY LoopAssumption
  <1>2. \A s \in DOMAIN found : found[s] \in Nat
    BY DEF Rests
  <1>3. \A s \in DOMAIN found :
           found[s] + LoopCooldown <= now => found[s] + LoopCooldown <= later
    BY <1>1, <1>2
  <1> QED BY <1>3 DEF Rests

\* The detector part of an event of a confirmed session.
LEMMA FollowWorks ==
    ASSUME AlertInv, NEW ts \in Nat, ts <= clock', clock <= clock', clock' \in Nat,
           clock' <= ts + Lag, Lag \in Nat,
           NEW ev, ev.ts = ts, ev.id = count + 1, IsSeq(ev.prompts), ev.spoofed \in Nat,
           ev.writes \in BOOLEAN, ev.inside \in BOOLEAN,
           NEW detected, detected = Detected(detector, ev, DryRun), detector' = detected.d,
           count' = count + 1,
           Follow(ev, Activities(ev), \E i \in DOMAIN detected.findings :
                                          detected.findings[i].type = "SingleAgentDeadloop")
    PROVE  /\ SessionsKept(detector')
           /\ Tracks(active', detector'.sessions, count')
           /\ Rests(detector', active', loops', clock')
           /\ Rested
  <1> DEFINE activities == Activities(ev)
             r == Deadloop(detector, ev.session, activities, ev.repeats, ts)
             flag == \E i \in DOMAIN detected.findings :
                         detected.findings[i].type = "SingleAgentDeadloop"
             live == Live(active, ts)
             all == ActiveThen(active, activities, ev.session, ts, count + 1)
             nfound == LoopsThen(loops, live \cap Awake(all), flag, ev.session, ts)
  <1>1. /\ SessionsKept(detector) /\ Tracks(active, detector.sessions, count)
        /\ Rests(detector, active, loops, clock)
        /\ count \in Nat /\ clock \in Nat
    BY DEF AlertInv
  <1>2. activities = <<>> \/ \E a : activities = <<a>> /\ IsActivity(a) /\ a.ts = ts
    BY ActivitiesAre
  <1>3. detector' = r.d
    BY DEF Detected
  <1>4. flag => r.findings # <<>>
    BY LoopsAreFound DEF LoopFree
  <1>5. active' = Keep(all, Awake(all)) /\ loops' = nfound
    BY DEF Follow, Live, Awake, Touched, ActiveThen, LoopsThen
  <1>6. /\ SessionsKept(r.d)
        /\ Tracks(Keep(all, Awake(all)), r.d.sessions, count + 1)
        /\ Rests(r.d, Keep(all, Awake(all)), nfound, clock')
        /\ \A s \in DOMAIN loops \cap DOMAIN nfound : nfound[s] # loops[s] =>
              nfound[s] = ts /\ loops[s] + LoopCooldown <= clock'
    <2> DEFINE later == clock'
    <2>1. flag \in BOOLEAN
      OBVIOUS
    <2>2. /\ r = Deadloop(detector, ev.session, activities, ev.repeats, ts)
          /\ live = Live(active, ts)
          /\ all = ActiveThen(active, activities, ev.session, ts, count + 1)
          /\ nfound = LoopsThen(loops, live \cap Awake(all), flag, ev.session, ts)
      OBVIOUS
    <2>3. later \in Nat /\ ts <= later /\ clock <= later
      OBVIOUS
    <2> HIDE DEF activities, r, flag, live, all, nfound, later
    <2>4. Applied(r.d, all, count + 1, loops, nfound, ts, later)
      BY <1>1, <1>2, <1>4, <2>1, <2>2, <2>3, DeadloopWorks
    <2> QED BY <2>4 DEF Applied, later
  <1> HIDE DEF activities, r, flag, live, all, nfound
  <1>7. Rested
    <2>1. \A s \in DOMAIN loops : loops[s] \in Nat
      BY <1>1 DEF Rests
    <2>2. LoopCooldown \in Nat
      BY LoopAssumption
    <2>3. ASSUME NEW s \in DOMAIN loops \cap DOMAIN loops', loops'[s] # loops[s]
          PROVE  loops'[s] + Lag >= loops[s] + LoopCooldown
      <3>1. loops'[s] = ts /\ loops[s] + LoopCooldown <= clock'
        BY <1>5, <1>6, <2>3
      <3> QED BY <2>1, <2>2, <3>1
    <2> QED BY <2>3 DEF Rested
  <1> QED BY <1>3, <1>5, <1>6, <1>7

\* Telling the findings of the event.
LEMMA ToldWell ==
    ASSUME AlertInv, NEW ts \in Nat, ts <= clock', clock <= clock', clock' \in Nat,
           clock' <= ts + Lag,
           NEW findings, AreFindings(findings, ts), NEW pressure, Tell(findings, pressure)
    PROVE  /\ Throttled(throttle', told', clock')
           /\ AlertsAreApart'
           /\ HeldBackIsListed'
  <1> DEFINE now == clock'
  <1>1. now \in Nat /\ ts <= now /\ now <= ts + Lag
    OBVIOUS
  <1>2. Throttled(throttle, told, now)
    BY ThrottledLater DEF AlertInv
  <1>3. IsSeq(findings) /\ \A i \in DOMAIN findings : IsFinding(findings[i], ts)
    BY DEF AreFindings
  <1> HIDE DEF now
  <1>4. Throttled(throttle', told', now) /\ AlertsAreApart' /\ HeldBackIsListed'
    BY <1>1, <1>2, <1>3, TellWorks
  <1> QED BY <1>4 DEF now

LEMMA ObserveWorks ==
    ASSUME AlertInv, NEW shape \in scenario.shapes, NEW gap \in scenario.gaps,
           NEW lag \in scenario.lags, NEW pressure, Observe(shape, gap, lag, pressure)
    PROVE  AlertInv' /\ Rested
  <1> DEFINE ts == clock + gap - lag
             ev == EventOf(shape, ts)
             detected == IF ev.confirmed THEN Detected(detector, ev, DryRun)
                         ELSE [d |-> detector, findings |-> <<>>]
             findings == detected.findings
             flag == \E i \in DOMAIN findings : findings[i].type = "SingleAgentDeadloop"
  <1>1. /\ Happens(gap, lag)
        /\ detector' = detected.d
        /\ Tell(findings \o ChainFindings(ev, findings), pressure)
        /\ IF ev.confirmed THEN Follow(ev, Activities(ev), flag)
           ELSE UNCHANGED <<active, loops>>
    BY DEF Observe
  <1>2. /\ gap \in Nat /\ lag \in 0 .. Lag /\ Lag \in Nat
        /\ ts \in Nat
        /\ clock' \in Nat /\ count' = count + 1 /\ count' \in Nat
        /\ clock <= clock' /\ ts <= clock' /\ clock' <= ts + Lag
        /\ scenario' \in Scenarios
    BY <1>1, TimeOfEvent
  <1>3. shape \in Shapes
    BY AlertingAssumption DEF AlertInv
  <1> HIDE DEF ts
  <1>4. /\ ev.ts = ts /\ ev.id = count + 1
        /\ ev.confirmed = shape.confirmed /\ ev.spoofed \in Nat
        /\ ev.writes \in BOOLEAN /\ ev.inside \in BOOLEAN
        /\ IsSeq(ev.prompts) /\ IsSeq(ev.chains)
    BY <1>2, <1>3, EventFields
  <1>5. shape.confirmed \in BOOLEAN
    BY <1>3 DEF Shapes
  <1> HIDE DEF ev
  <1>6. AreFindings(findings, ts)
    BY <1>4, DetectedFindings, NoFindings
  <1>7. AreFindings(findings \o ChainFindings(ev, findings), ts)
    <2> HIDE DEF detected
    <2>1. AreFindings(ChainFindings(ev, findings), ts)
      BY <1>4, <1>6, ChainsFindings DEF AreFindings
    <2> QED BY <1>6, <2>1, ConcatFindings
  <1>8. Throttled(throttle', told', clock') /\ AlertsAreApart' /\ HeldBackIsListed'
    <2> HIDE DEF findings
    <2> QED BY <1>1, <1>2, <1>7, ToldWell
  <1>9. /\ SessionsKept(detector')
        /\ Tracks(active', detector'.sessions, count')
        /\ Rests(detector', active', loops', clock')
        /\ Rested
    <2>1. CASE ev.confirmed
      <3>1. detected = Detected(detector, ev, DryRun)
        BY <2>1
      <3> HIDE DEF detected
      <3> QED BY <1>1, <1>2, <1>4, <2>1, <3>1, FollowWorks
    <2>2. CASE ~ev.confirmed
      <3>1. detector' = detector /\ active' = active /\ loops' = loops
        BY <1>1, <2>2
      <3>2. /\ SessionsKept(detector) /\ Tracks(active, detector.sessions, count)
            /\ Rests(detector, active, loops, clock) /\ count \in Nat /\ clock \in Nat
        BY DEF AlertInv
      <3>3. Tracks(active, detector.sessions, count + 1)
        BY <3>2, TracksLater
      <3>4. Rests(detector, active, loops, clock')
        BY <1>2, <3>2, RestsLater
      <3> QED BY <1>2, <3>1, <3>2, <3>3, <3>4 DEF Rested
    <2> QED BY <2>1, <2>2
  <1> QED BY <1>2, <1>8, <1>9 DEF AlertInv

LEMMA ContentWorks ==
    ASSUME AlertInv, NEW shape \in scenario.shapes, NEW gap \in scenario.gaps,
           NEW lag \in scenario.lags, NEW pressure, Content(shape, gap, lag, pressure)
    PROVE  AlertInv' /\ Rested
  <1> DEFINE ts == clock + gap - lag
             ev == EventOf(shape, ts)
  <1>1. /\ Happens(gap, lag)
        /\ Tell(McpToolSpoofing(ev), pressure)
        /\ detector' = detector /\ active' = active /\ loops' = loops
    BY DEF Content
  <1>2. /\ gap \in Nat /\ lag \in 0 .. Lag /\ Lag \in Nat
        /\ ts \in Nat
        /\ clock' \in Nat /\ count' = count + 1 /\ count' \in Nat
        /\ clock <= clock' /\ ts <= clock' /\ clock' <= ts + Lag
        /\ scenario' \in Scenarios
    BY <1>1, TimeOfEvent
  <1>3. shape \in Shapes
    BY AlertingAssumption DEF AlertInv
  <1> HIDE DEF ts
  <1>4. ev.ts = ts /\ ev.spoofed \in Nat
    BY <1>2, <1>3, EventFields
  <1> HIDE DEF ev
  <1>5. AreFindings(McpToolSpoofing(ev), ts)
    BY <1>4, McpFindings
  <1>6. Throttled(throttle', told', clock') /\ AlertsAreApart' /\ HeldBackIsListed'
    BY <1>1, <1>2, <1>5, ToldWell
  <1>7. /\ SessionsKept(detector) /\ Tracks(active, detector.sessions, count)
        /\ Rests(detector, active, loops, clock) /\ count \in Nat /\ clock \in Nat
    BY DEF AlertInv
  <1>8. Tracks(active, detector.sessions, count + 1)
    BY <1>7, TracksLater
  <1>9. Rests(detector, active, loops, clock')
    BY <1>2, <1>7, RestsLater
  <1> QED BY <1>1, <1>2, <1>6, <1>7, <1>8, <1>9 DEF AlertInv, Rested

LEMMA InitWorks ==
    ASSUME Init
    PROVE  AlertInv
  <1>1. /\ IsSeq(<<>>) /\ DOMAIN <<>> = {} /\ Len(<<>>) = 0
        /\ DOMAIN EmptyMap = {}
    BY DEF IsSeq, EmptyMap
  <1>2. LoopCapacity \in Nat /\ MaxThrottleEntries \in Nat
    BY LoopAssumption, ThrottleAssumption
  <1>3. detector.sessions = <<>> /\ detector.cooldown = EmptyMap
    BY DEF Init, NewDetector
  <1>4. SessionsOf(<<>>)
    BY <1>1 DEF SessionsOf, Distinct
  <1>5. KeysIn(<<>>) = {}
    BY <1>1 DEF KeysIn
  <1>6. IsMap(EmptyMap, {}, Nat)
    BY <1>1 DEF IsMap, EmptyMap
  <1>7. SessionsKept(detector)
    <2>1. Len(<<>>) <= LoopCapacity
      BY <1>1, <1>2
    <2> QED BY <1>3, <1>4, <1>5, <1>6, <2>1 DEF SessionsKept
  <1>8. Tracks(active, detector.sessions, count)
    BY <1>1, <1>3, <1>5 DEF Init, Tracks
  <1>9. Rests(detector, active, loops, clock)
    BY <1>1 DEF Init, Rests
  <1>10. Throttled(throttle, told, clock)
    <2>1. IsFiniteSet({}) /\ Cardinality({}) = 0
      BY FS_EmptySet
    <2> QED BY <1>1, <1>2, <2>1 DEF Init, Throttled
  <1>11. AlertsAreApart /\ HeldBackIsListed
    BY <1>1 DEF Init, AlertsAreApart, HeldBackIsListed
  <1> QED BY <1>7, <1>8, <1>9, <1>10, <1>11 DEF AlertInv, Init

LEMMA StepWorks ==
    ASSUME AlertInv, [Next]_vars
    PROVE  AlertInv' /\ Rested
  <1>1. CASE Next
    <2>1. PICK shape \in scenario.shapes, gap \in scenario.gaps, lag \in scenario.lags,
               pressure \in scenario.pressures :
             \/ Observe(shape, gap, lag, pressure)
             \/ Content(shape, gap, lag, pressure)
      BY <1>1 DEF Next
    <2> QED BY <2>1, ObserveWorks, ContentWorks
  <1>2. CASE UNCHANGED vars
    BY <1>2 DEF vars, AlertInv, Rested, AlertsAreApart, HeldBackIsListed
  <1> QED BY <1>1, <1>2

\* The invariant: the counts are those of the events kept, the list of sessions
\* is in the order of their last activity, a session found looping has its
\* cooldown, and the throttler's table agrees with what was told.
THEOREM AlertingInvariant == Spec => []AlertInv
  <1>1. Init => AlertInv
    BY InitWorks
  <1>2. AlertInv /\ [Next]_vars => AlertInv'
    BY StepWorks
  <1> QED BY <1>1, <1>2, PTL DEF Spec

\* Two alerts of one key are ALERT_DEDUP_SECS apart, give or take the lag of an
\* event, unless the throttler's capacity of other keys was alerted meanwhile
\* (AlertThrottler::project_with_health, prune_capacity).
THEOREM AlertsStayApart == Spec => []AlertsAreApart
  <1>1. AlertInv => AlertsAreApart
    BY DEF AlertInv
  <1> QED BY <1>1, AlertingInvariant, PTL

\* An alert whose key still has its entry lists the events held back since the
\* last one (the merged event ids of ThrottleEntry).
THEOREM HeldBackGetsListed == Spec => []HeldBackIsListed
  <1>1. AlertInv => HeldBackIsListed
    BY DEF AlertInv
  <1> QED BY <1>1, AlertingInvariant, PTL

\* A session found looping that stays active is not found looping again before
\* DEADLOOP_ALERT_COOLDOWN_S have passed, give or take the lag of an event
\* (DeadloopDetector::apply).
THEOREM LoopsRest == Spec => LoopAlertsRest
  <1>1. AlertInv /\ [Next]_vars => [Rested]_vars
    BY StepWorks
  <1> QED BY <1>1, AlertingInvariant, PTL DEF Spec, LoopAlertsRest, Rested

\* The counts of a session are those of the events it keeps
\* (DeadloopSession::push, pop_front), only sessions kept rest, and the
\* throttler keeps no more than it may.
THEOREM AlertingTypeCorrect == Spec => []TypeOK
  <1>1. ASSUME AlertInv
        PROVE  TypeOK
    <2>1. ASSUME NEW s, Counted(s)
          PROVE  /\ \A object \in DOMAIN s.connects :
                       s.connects[object] = Cardinality({j \in DOMAIN s.events :
                          s.events[j].kind = "net_connect" /\ s.events[j].object = object})
                 /\ \A object \in DOMAIN s.files :
                       s.files[object] = Cardinality({j \in DOMAIN s.events :
                          s.events[j].kind = "file_access" /\ s.events[j].object = object})
                 /\ \A j \in DOMAIN s.events :
                       \/ s.events[j].kind = "unaddressed"
                       \/ s.events[j].object \in DOMAIN s.connects \cup DOMAIN s.files
                 /\ s.progress = Cardinality({j \in DOMAIN s.events : s.events[j].progress})
      <3>1. /\ s.connects = CountsOf(s.events, "net_connect")
            /\ s.files = CountsOf(s.events, "file_access")
            /\ s.progress = Cardinality(ProgressOf(s.events))
            /\ \A j \in DOMAIN s.events : s.events[j].kind \in ActivityKinds
        BY <2>1 DEF Counted, IsActivity
      <3>2. \A kind : /\ DOMAIN CountsOf(s.events, kind)
                            = {s.events[j].object : j \in OfKind(s.events, kind)}
                      /\ \A object \in DOMAIN CountsOf(s.events, kind) :
                            CountsOf(s.events, kind)[object]
                               = Cardinality(OfObject(s.events, kind, object))
        BY DEF CountsOf
      <3>3. \A j \in DOMAIN s.events :
               \/ s.events[j].kind = "unaddressed"
               \/ j \in OfKind(s.events, "net_connect") \/ j \in OfKind(s.events, "file_access")
        BY <3>1 DEF OfKind, ActivityKinds
      <3>4. \A j \in DOMAIN s.events :
               \/ s.events[j].kind = "unaddressed"
               \/ s.events[j].object \in DOMAIN s.connects \cup DOMAIN s.files
        BY <3>1, <3>2, <3>3
      <3>5. s.progress = Cardinality({j \in DOMAIN s.events : s.events[j].progress})
        BY <3>1 DEF ProgressOf
      <3>6. \A object \in DOMAIN s.connects :
               s.connects[object] = Cardinality({j \in DOMAIN s.events :
                  s.events[j].kind = "net_connect" /\ s.events[j].object = object})
        <4> TAKE object \in DOMAIN s.connects
        <4> DEFINE S == {j \in DOMAIN s.events :
                  s.events[j].kind = "net_connect" /\ s.events[j].object = object}
        <4>1. S = OfObject(s.events, "net_connect", object)
          BY DEF OfObject, OfKind
        <4> HIDE DEF S
        <4>2. s.connects[object] = Cardinality(S)
          BY <3>1, <3>2, <4>1
        <4> QED BY <4>2 DEF S
      <3>7. \A object \in DOMAIN s.files :
               s.files[object] = Cardinality({j \in DOMAIN s.events :
                  s.events[j].kind = "file_access" /\ s.events[j].object = object})
        <4> TAKE object \in DOMAIN s.files
        <4> DEFINE S == {j \in DOMAIN s.events :
                  s.events[j].kind = "file_access" /\ s.events[j].object = object}
        <4>1. S = OfObject(s.events, "file_access", object)
          BY DEF OfObject, OfKind
        <4> HIDE DEF S
        <4>2. s.files[object] = Cardinality(S)
          BY <3>1, <3>2, <4>1
        <4> QED BY <4>2 DEF S
      <3> QED BY <3>4, <3>5, <3>6, <3>7, Zenon
    <2>2. /\ clock \in Nat /\ count \in Nat
          /\ Len(detector.sessions) <= LoopCapacity
          /\ DOMAIN detector.cooldown \subseteq KeysIn(detector.sessions)
          /\ \A i \in DOMAIN detector.sessions : Counted(detector.sessions[i].value)
      BY <1>1 DEF AlertInv, SessionsKept, SessionsOf, IsMap
    <2>3. /\ Cardinality(DOMAIN throttle) <= MaxThrottleEntries
          /\ \A key \in DOMAIN throttle :
                /\ throttle[key].alert.key = key
                /\ IsInjective(throttle[key].merged) /\ Len(throttle[key].merged) <= MaxMerged
      BY <1>1 DEF AlertInv, Throttled, EntryKept
    <2> QED BY <2>1, <2>2, <2>3 DEF TypeOK
  <1> QED BY <1>1, AlertingInvariant, PTL
=============================================================================
