------------------------- MODULE CaptureHostProofs -------------------------
(***************************************************************************)
(* Theorems about the content capture, for any processes, descriptors and  *)
(* times and any whitelist: the whitelist follows the mirror, nothing is   *)
(* captured that should not be, and what should be is, with the exceptions *)
(* the properties name.  A hook's lookup of a policy and its delete are    *)
(* two steps, and whatever comes between them the delete only takes.       *)
(*                                                                         *)
(* Two invariants.  Of the commands under way the last about a key has the *)
(* mirror's policy.  And between the mirror and the kernel's tables stands *)
(* a chain of views of the host, one before each event under way and one   *)
(* after the last: the mirror lies within the first, each event leads from *)
(* one to the next, and the last is the host as it is.                     *)
(***************************************************************************)
EXTENDS CaptureHost, FiniteSetTheorems, SequenceTheorems, TLAPS

Command == [key : Keys, policy : {{}} \cup {{p} : p \in Policy}]

\* What a sequence of commands makes of a key whose policy is base.
Decided(sent, key, base) ==
    IF About(sent, key) = {} THEN base
    ELSE UNION {sent[i].policy : i \in LastAbout(sent, key)}

\* A typed, finite map of policies.
Policies(m) == IsMap(m, Keys, Policy) /\ IsFiniteSet(DOMAIN m)

\* The commands a handler pushes say of every key what its mirror says, or
\* nothing where it leaves the mirror alone.
Accounted(m, done) ==
    /\ Policies(done.mirror)
    /\ done.push \in Seq(Command)
    /\ \A key \in Keys :
          \/ /\ About(done.push, key) = {}
             /\ PolicyOf(done.mirror, key) = PolicyOf(m, key)
          \/ \E i \in LastAbout(done.push, key) :
                done.push[i].policy = PolicyOf(done.mirror, key)
-----------------------------------------------------------------------------
(* Commands under way.                                                     *)

\* SetToSeq lists the elements of a finite set, each once.
LEMMA Listed ==
    ASSUME NEW S, IsFiniteSet(S)
    PROVE  /\ SetToSeq(S) \in Seq(S)
           /\ \A x \in S : \E i \in DOMAIN SetToSeq(S) : SetToSeq(S)[i] = x
           /\ \A i, j \in DOMAIN SetToSeq(S) : SetToSeq(S)[i] = SetToSeq(S)[j] => i = j
  <1> DEFINE n == Cardinality(S)
             list == SetToSeq(S)
  <1>1. n \in Nat /\ \E f \in [1 .. n -> S] : IsInjective(f)
    BY FS_CardinalityType DEF ExistsBijection, Bijection, Injection
  <1>2. list \in [1 .. n -> S] /\ IsInjective(list)
    BY <1>1 DEF SetToSeq
  <1>3. Cardinality(1 .. n) = n
    BY <1>1, FS_Interval
  <1> HIDE DEF list
  <1>4. list \in Injection(1 .. n, S)
    BY <1>2 DEF Injection
  <1>5. list \in Surjection(1 .. n, S)
    BY <1>3, <1>4, FS_Injection
  <1>6. list \in Seq(S)
    BY <1>1, <1>2, SeqDef
  <1>7. \A x \in S : \E i \in DOMAIN list : list[i] = x
    BY <1>2, <1>5 DEF Surjection
  <1>8. \A i, j \in DOMAIN list : list[i] = list[j] => i = j
    BY <1>2 DEF IsInjective
  <1> QED BY <1>6, <1>7, <1>8 DEF list

\* What is pushed after the commands under way decides.
LEMMA PushDecides ==
    ASSUME NEW sent \in Seq(Command), NEW push \in Seq(Command), NEW key, NEW base
    PROVE  /\ About(push, key) = {} =>
                 /\ Decided(sent \o push, key, base) = Decided(sent, key, base)
                 /\ About(sent \o push, key) = About(sent, key)
           /\ \A i \in LastAbout(push, key) : Decided(sent \o push, key, base) = push[i].policy
  <1> DEFINE all == sent \o push
             m == Len(sent)
             n == Len(push)
  <1>1. /\ m \in Nat /\ n \in Nat
        /\ DOMAIN sent = 1 .. m /\ DOMAIN push = 1 .. n
        /\ DOMAIN all = 1 .. (m + n)
        /\ \A i \in 1 .. m : all[i] = sent[i]
        /\ \A i \in 1 .. n : m + i \in 1 .. (m + n) /\ all[m + i] = push[i]
    BY LenProperties, ConcatProperties
  <1> HIDE DEF all, m, n
  <1>2. \A i \in 1 .. (m + n) : i \in 1 .. m \/ (i - m \in 1 .. n /\ i = m + (i - m))
    BY <1>1
  <1>3. \A i : i \in About(all, key)
                  <=> i \in About(sent, key) \/ (i - m \in About(push, key) /\ i \in 1 .. (m + n))
    BY <1>1, <1>2 DEF About
  <1>4. ASSUME About(push, key) = {}
        PROVE  /\ Decided(all, key, base) = Decided(sent, key, base)
               /\ About(all, key) = About(sent, key)
    <2>1. About(all, key) = About(sent, key)
      BY <1>3, <1>4
    <2>2. LastAbout(all, key) = LastAbout(sent, key)
      BY <2>1 DEF LastAbout
    <2>3. \A i \in LastAbout(sent, key) : all[i].policy = sent[i].policy
      BY <1>1 DEF LastAbout, About
    <2> QED BY <2>1, <2>2, <2>3 DEF Decided
  <1>5. ASSUME NEW i \in LastAbout(push, key)
        PROVE  Decided(all, key, base) = push[i].policy
    <2>1. i \in 1 .. n /\ i \in About(push, key) /\ \A j \in About(push, key) : j <= i
      BY <1>1 DEF LastAbout, About
    <2>2. m + i \in About(all, key)
      BY <1>1, <1>3, <2>1
    <2>3. \A j \in About(all, key) : j <= m + i
      <3> SUFFICES ASSUME NEW j \in About(all, key) PROVE j <= m + i
        OBVIOUS
      <3>1. CASE j \in About(sent, key)
        BY <1>1, <2>1, <3>1 DEF About
      <3>2. CASE j - m \in About(push, key) /\ j \in 1 .. (m + n)
        BY <1>1, <2>1, <3>2
      <3> QED BY <1>3, <3>1, <3>2
    <2>4. \A j \in About(all, key) : j \in Nat
      BY <1>1 DEF About
    <2>5. LastAbout(all, key) = {m + i}
      <3>1. m + i \in LastAbout(all, key)
        BY <2>2, <2>3 DEF LastAbout
      <3>2. \A j \in LastAbout(all, key) : j \in Nat /\ m + i <= j /\ j <= m + i
        BY <2>2, <2>3, <2>4 DEF LastAbout
      <3>3. \A j \in LastAbout(all, key) : j = m + i
        BY <1>1, <2>1, <3>2
      <3> QED BY <3>1, <3>3
    <2>6. all[m + i] = push[i]
      BY <1>1, <2>1
    <2> QED BY <2>2, <2>5, <2>6 DEF Decided
  <1> QED BY <1>4, <1>5 DEF all

\* Applying the first command leaves what the commands make of a key.
LEMMA ApplyDecides ==
    ASSUME NEW sent \in Seq(Command), sent # <<>>, NEW key, NEW base
    PROVE  /\ Decided(sent, key, base)
                 = Decided(Tail(sent), key, IF Head(sent).key = key THEN Head(sent).policy ELSE base)
           /\ About(sent, key) = {} => About(Tail(sent), key) = {} /\ Head(sent).key # key
  <1> DEFINE rest == Tail(sent)
             n == Len(rest)
  <1>1. /\ n \in Nat
        /\ DOMAIN sent = 1 .. (n + 1) /\ DOMAIN rest = 1 .. n
        /\ \A i \in 1 .. n : i + 1 \in 1 .. (n + 1) /\ rest[i] = sent[i + 1]
        /\ Head(sent) = sent[1] /\ 1 \in 1 .. (n + 1)
    BY LenProperties, HeadTailProperties
  <1> HIDE DEF rest, n
  <1>2. \A i \in 1 .. (n + 1) : i = 1 \/ (i - 1 \in 1 .. n /\ i = (i - 1) + 1)
    BY <1>1
  <1>3. \A i : i \in About(sent, key)
                  <=> (i = 1 /\ Head(sent).key = key) \/ (i - 1 \in About(rest, key) /\ i \in 1 .. (n + 1))
    BY <1>1, <1>2 DEF About
  <1>4. \A i \in About(rest, key) : i \in 1 .. n /\ i + 1 \in About(sent, key)
    BY <1>1 DEF About
  <1> DEFINE after == IF Head(sent).key = key THEN Head(sent).policy ELSE base
  <1>5. ASSUME About(rest, key) = {}
        PROVE  Decided(sent, key, base) = Decided(rest, key, after)
    <2>1. About(sent, key) = IF Head(sent).key = key THEN {1} ELSE {}
      BY <1>3, <1>5
    <2>2. Head(sent).key = key => LastAbout(sent, key) = {1}
      BY <2>1 DEF LastAbout
    <2>3. Decided(rest, key, after) = after
      BY <1>5 DEF Decided
    <2>4. CASE Head(sent).key = key
      <3>1. {sent[i].policy : i \in LastAbout(sent, key)} = {Head(sent).policy}
        BY <1>1, <2>2, <2>4
      <3>2. Decided(sent, key, base) = UNION {Head(sent).policy}
        BY <2>1, <2>4, <3>1 DEF Decided
      <3>3. after = Head(sent).policy
        BY <2>4
      <3> HIDE DEF after
      <3> QED BY <2>3, <3>2, <3>3
    <2>5. CASE Head(sent).key # key
      BY <2>1, <2>3, <2>5 DEF Decided
    <2> QED BY <2>4, <2>5
  <1>6. ASSUME About(rest, key) # {}
        PROVE  Decided(sent, key, base) = Decided(rest, key, after)
    <2>1. About(sent, key) # {}
      BY <1>4, <1>6
    <2>2. \A i \in LastAbout(rest, key) : i + 1 \in LastAbout(sent, key)
      <3> SUFFICES ASSUME NEW i \in LastAbout(rest, key),
                          NEW j \in About(sent, key)
                   PROVE  j <= i + 1
        <4>1. \A i \in LastAbout(rest, key) : i + 1 \in About(sent, key)
          BY <1>4 DEF LastAbout
        <4> QED BY <4>1 DEF LastAbout
      <3>1. i \in 1 .. n /\ i + 1 \in About(sent, key) /\ \A k \in About(rest, key) : k <= i
        BY <1>4 DEF LastAbout
      <3>2. j \in 1 .. (n + 1) /\ (j = 1 \/ j - 1 \in About(rest, key))
        BY <1>1, <1>3 DEF About
      <3> QED BY <1>1, <3>1, <3>2
    <2>3. \A i \in LastAbout(sent, key) : i - 1 \in LastAbout(rest, key)
      <3> SUFFICES ASSUME NEW i \in LastAbout(sent, key)
                   PROVE  i - 1 \in LastAbout(rest, key)
        OBVIOUS
      <3>1. i \in 1 .. (n + 1) /\ i \in About(sent, key) /\ \A k \in About(sent, key) : k <= i
        BY <1>1 DEF LastAbout, About
      <3>2. PICK k \in About(rest, key) : TRUE
        BY <1>6
      <3>3. k \in 1 .. n /\ k + 1 <= i
        BY <1>4, <3>1, <3>2
      <3>4. i - 1 \in About(rest, key)
        <4>1. i # 1
          BY <1>1, <3>1, <3>3
        <4> QED BY <1>3, <3>1, <4>1
      <3>5. \A j \in About(rest, key) : j <= i - 1
        BY <1>1, <1>4, <3>1
      <3> QED BY <3>4, <3>5 DEF LastAbout
    <2>4. \A i \in LastAbout(rest, key) : i \in 1 .. n /\ sent[i + 1].policy = rest[i].policy
      BY <1>1, <1>4 DEF LastAbout
    <2>5. \A i \in LastAbout(sent, key) : i \in 1 .. (n + 1) /\ i = (i - 1) + 1
      BY <1>1 DEF LastAbout, About
    <2>6. {sent[i].policy : i \in LastAbout(sent, key)}
             = {rest[i].policy : i \in LastAbout(rest, key)}
      <3>1. ASSUME NEW i \in LastAbout(sent, key)
            PROVE  \E j \in LastAbout(rest, key) : sent[i].policy = rest[j].policy
        BY <2>3, <2>4, <2>5
      <3>2. ASSUME NEW j \in LastAbout(rest, key)
            PROVE  \E i \in LastAbout(sent, key) : sent[i].policy = rest[j].policy
        BY <2>2, <2>4
      <3> QED BY <3>1, <3>2
    <2> QED BY <1>6, <2>1, <2>6 DEF Decided
  <1>7. About(sent, key) = {} => About(rest, key) = {} /\ Head(sent).key # key
    BY <1>1, <1>3, <1>4
  <1> QED BY <1>5, <1>6, <1>7 DEF rest
-----------------------------------------------------------------------------
(* The handlers tell the worker what they do.                              *)

\* One command about each key of a finite set.
LEMMA OneEach ==
    ASSUME NEW S \in SUBSET Command, IsFiniteSet(S),
           \A c, d \in S : c.key = d.key => c = d
    PROVE  /\ SetToSeq(S) \in Seq(Command)
           /\ \A key : (\A c \in S : c.key # key) => About(SetToSeq(S), key) = {}
           /\ \A c \in S : \E i \in LastAbout(SetToSeq(S), c.key) : SetToSeq(S)[i] = c
  <1> DEFINE list == SetToSeq(S)
  <1>1. /\ list \in Seq(S)
        /\ \A c \in S : \E i \in DOMAIN list : list[i] = c
        /\ \A i, j \in DOMAIN list : list[i] = list[j] => i = j
    BY Listed
  <1> HIDE DEF list
  <1>2. \A i \in DOMAIN list : i \in Nat /\ list[i] \in S
    BY <1>1, LenProperties, ElementOfSeq
  <1>3. list \in Seq(Command)
    BY <1>1, SeqMonotonic
  <1>4. \A key : (\A c \in S : c.key # key) => About(list, key) = {}
    BY <1>2 DEF About
  <1>5. ASSUME NEW c \in S
        PROVE  \E i \in LastAbout(list, c.key) : list[i] = c
    <2>1. PICK i \in DOMAIN list : list[i] = c
      BY <1>1
    <2>2. \A j \in About(list, c.key) : j = i
      BY <1>1, <1>2, <2>1 DEF About
    <2>3. i \in About(list, c.key)
      BY <2>1 DEF About
    <2> QED BY <1>2, <2>1, <2>2, <2>3 DEF LastAbout
  <1> QED BY <1>3, <1>4, <1>5 DEF list

LEMMA FiniteImage ==
    ASSUME NEW S, IsFiniteSet(S), NEW f, DOMAIN f = S
    PROVE  IsFiniteSet({f[x] : x \in S})
  <1> DEFINE T == {f[x] : x \in S}
             g == [x \in S |-> f[x]]
  <1>1. g \in Surjection(S, T)
    BY DEF Surjection
  <1> QED BY <1>1, FS_Surjection

LEMMA UpsertsAccounted ==
    ASSUME NEW m, Policies(m), NEW new, Policies(new)
    PROVE  /\ Accounted(m, WithUpserts(m, new))
           /\ \A key : PolicyOf(WithUpserts(m, new).mirror, key)
                          = IF key \in DOMAIN new THEN {new[key]} ELSE PolicyOf(m, key)
  <1> DEFINE S == {Upsert(k, new[k]) : k \in DOMAIN new}
             f == [k \in DOMAIN new |-> Upsert(k, new[k])]
             done == WithUpserts(m, new)
  <1>1. done.push = SetToSeq(S)
    BY DEF WithUpserts
  <1>2. /\ DOMAIN done.mirror = DOMAIN m \cup DOMAIN new
        /\ \A k \in DOMAIN m \cup DOMAIN new :
              done.mirror[k] = IF k \in DOMAIN new THEN new[k] ELSE m[k]
        /\ done.mirror = [k \in DOMAIN done.mirror |-> done.mirror[k]]
    BY DEF WithUpserts
  <1> HIDE DEF done
  <1>3. Policies(done.mirror)
    <2>1. IsFiniteSet(DOMAIN done.mirror)
      <3>1. IsFiniteSet(DOMAIN m) /\ IsFiniteSet(DOMAIN new)
        BY DEF Policies
      <3>2. IsFiniteSet(DOMAIN m \cup DOMAIN new)
        BY <3>1, FS_Union
      <3> QED BY <1>2, <3>2
    <2> QED BY <1>2, <2>1 DEF Policies, IsMap
  <1>4. \A k \in DOMAIN new : k \in Keys /\ new[k] \in Policy
    BY DEF Policies, IsMap
  <1>5. S \in SUBSET Command /\ \A c, d \in S : c.key = d.key => c = d
    <2>1. \A k \in DOMAIN new : Upsert(k, new[k]) \in Command /\ Upsert(k, new[k]).key = k
      BY <1>4 DEF Command, Upsert
    <2>2. S \in SUBSET Command
      BY <2>1
    <2>3. ASSUME NEW c \in S, NEW d \in S, c.key = d.key
          PROVE  c = d
      <3>1. PICK k \in DOMAIN new : c = Upsert(k, new[k])
        OBVIOUS
      <3>2. PICK l \in DOMAIN new : d = Upsert(l, new[l])
        OBVIOUS
      <3>3. k = l
        BY <2>1, <2>3, <3>1, <3>2
      <3> QED BY <3>1, <3>2, <3>3
    <2> QED BY <2>2, <2>3
  <1>6. IsFiniteSet(S)
    <2>1. S = {f[k] : k \in DOMAIN new}
      OBVIOUS
    <2> HIDE DEF f, S
    <2>2. DOMAIN f = DOMAIN new
      BY DEF f
    <2> QED BY <2>1, <2>2, FiniteImage DEF Policies
  <1>7. \A key : PolicyOf(done.mirror, key)
                   = IF key \in DOMAIN new THEN {new[key]} ELSE PolicyOf(m, key)
    BY <1>2 DEF PolicyOf
  <1>8. ASSUME NEW key \in Keys, key \notin DOMAIN new
        PROVE  About(done.push, key) = {}
    <2>1. \A c \in S : c.key # key
      BY <1>8 DEF Upsert
    <2> HIDE DEF S
    <2> QED BY <1>1, <1>5, <1>6, <2>1, OneEach
  <1>9. ASSUME NEW key \in DOMAIN new
        PROVE  \E i \in LastAbout(done.push, key) : done.push[i].policy = {new[key]}
    <2> DEFINE c == Upsert(key, new[key])
    <2>1. c \in S /\ c.key = key /\ c.policy = {new[key]}
      BY DEF Upsert
    <2> HIDE DEF S, c
    <2>2. \E i \in LastAbout(SetToSeq(S), c.key) : SetToSeq(S)[i] = c
      BY <1>5, <1>6, <2>1, OneEach
    <2> QED BY <1>1, <2>1, <2>2
  <1>10. done.push \in Seq(Command)
    <2> HIDE DEF S
    <2> QED BY <1>1, <1>5, <1>6, OneEach
  <1> QED BY <1>3, <1>7, <1>8, <1>9, <1>10 DEF Accounted, done

LEMMA DeletesAccounted ==
    ASSUME NEW m, Policies(m), NEW keys \in SUBSET Keys, IsFiniteSet(keys)
    PROVE  /\ Accounted(m, WithDeletes(m, keys))
           /\ \A key : PolicyOf(WithDeletes(m, keys).mirror, key)
                          = IF key \in keys THEN {} ELSE PolicyOf(m, key)
  <1> DEFINE S == {Delete(k) : k \in keys}
             f == [k \in keys |-> Delete(k)]
             done == WithDeletes(m, keys)
  <1>1. done.push = SetToSeq(S)
    BY DEF WithDeletes
  <1>2. /\ DOMAIN done.mirror = DOMAIN m \ keys
        /\ \A k \in DOMAIN m \ keys : done.mirror[k] = m[k]
        /\ done.mirror = [k \in DOMAIN done.mirror |-> done.mirror[k]]
    BY DEF WithDeletes, Keep
  <1> HIDE DEF done
  <1>3. Policies(done.mirror)
    <2>1. IsFiniteSet(DOMAIN done.mirror)
      BY <1>2, FS_Subset DEF Policies
    <2> QED BY <1>2, <2>1 DEF Policies, IsMap
  <1>5. S \in SUBSET Command /\ \A c, d \in S : c.key = d.key => c = d
    BY DEF Command, Delete
  <1>6. IsFiniteSet(S)
    <2>1. S = {f[k] : k \in keys}
      OBVIOUS
    <2>2. DOMAIN f = keys
      OBVIOUS
    <2> HIDE DEF f, S
    <2> QED BY <2>1, <2>2, FiniteImage
  <1>7. \A key : PolicyOf(done.mirror, key) = IF key \in keys THEN {} ELSE PolicyOf(m, key)
    BY <1>2 DEF PolicyOf
  <1>8. ASSUME NEW key \in Keys, key \notin keys
        PROVE  About(done.push, key) = {}
    <2>1. \A c \in S : c.key # key
      BY <1>8 DEF Delete
    <2> HIDE DEF S
    <2> QED BY <1>1, <1>5, <1>6, <2>1, OneEach
  <1>9. ASSUME NEW key \in keys
        PROVE  \E i \in LastAbout(done.push, key) : done.push[i].policy = {}
    <2> DEFINE c == Delete(key)
    <2>1. c \in S /\ c.key = key /\ c.policy = {}
      BY DEF Delete
    <2> HIDE DEF S, c
    <2>2. \E i \in LastAbout(SetToSeq(S), c.key) : SetToSeq(S)[i] = c
      BY <1>5, <1>6, <2>1, OneEach
    <2> QED BY <1>1, <2>1, <2>2
  <1>10. done.push \in Seq(Command)
    <2> HIDE DEF S
    <2> QED BY <1>1, <1>5, <1>6, OneEach
  <1> QED BY <1>3, <1>7, <1>8, <1>9, <1>10 DEF Accounted, done

\* One handler's step after another's.
LEMMA ThenAccounted ==
    ASSUME NEW m, NEW first, NEW second,
           Accounted(m, first), Accounted(first.mirror, second)
    PROVE  Accounted(m, [mirror |-> second.mirror, push |-> first.push \o second.push])
  <1> DEFINE a == first.push
             b == second.push
             n == Len(a)
  <1>1. a \in Seq(Command) /\ b \in Seq(Command)
    BY DEF Accounted
  <1> HIDE DEF a, b
  <1>2. /\ n \in Nat /\ DOMAIN a = 1 .. n /\ DOMAIN b = 1 .. Len(b) /\ Len(b) \in Nat
        /\ a \o b \in Seq(Command)
        /\ DOMAIN (a \o b) = 1 .. (n + Len(b))
        /\ \A i \in 1 .. n : (a \o b)[i] = a[i]
        /\ \A i \in 1 .. Len(b) : n + i \in 1 .. (n + Len(b)) /\ (a \o b)[n + i] = b[i]
    BY <1>1, LenProperties, ConcatProperties
  <1> DEFINE all == a \o b
  <1> HIDE DEF n, all
  <1>3. \A i \in DOMAIN all : (i \in 1 .. n) \/ (i - n \in 1 .. Len(b) /\ i = n + (i - n))
    BY <1>2 DEF all
  <1>4. \A key, i : i \in About(all, key)
                      <=> i \in About(a, key) \/ (i - n \in About(b, key) /\ i \in DOMAIN all)
    BY <1>2, <1>3 DEF About, all
  <1>5. ASSUME NEW key \in Keys
        PROVE  \/ About(all, key) = {} /\ PolicyOf(second.mirror, key) = PolicyOf(m, key)
               \/ \E i \in LastAbout(all, key) : all[i].policy = PolicyOf(second.mirror, key)
    <2>1. CASE About(b, key) = {} /\ PolicyOf(second.mirror, key) = PolicyOf(first.mirror, key)
      <3>1. About(all, key) = About(a, key)
        BY <1>4, <2>1
      <3>2. LastAbout(all, key) = LastAbout(a, key)
        BY <3>1 DEF LastAbout
      <3>3. \A i \in LastAbout(a, key) : all[i] = a[i]
        BY <1>2 DEF LastAbout, About, all
      <3>4. \/ About(a, key) = {} /\ PolicyOf(first.mirror, key) = PolicyOf(m, key)
            \/ \E i \in LastAbout(a, key) : a[i].policy = PolicyOf(first.mirror, key)
        BY DEF Accounted, a
      <3> QED BY <2>1, <3>1, <3>2, <3>3, <3>4
    <2>2. ASSUME NEW i \in LastAbout(b, key), b[i].policy = PolicyOf(second.mirror, key)
          PROVE  \E k \in LastAbout(all, key) : all[k].policy = PolicyOf(second.mirror, key)
      <3>1. i \in 1 .. Len(b) /\ i \in About(b, key) /\ \A j \in About(b, key) : j <= i
        BY <1>2 DEF LastAbout, About
      <3>2. n + i \in DOMAIN all /\ all[n + i] = b[i]
        BY <1>2, <3>1 DEF all
      <3>3. n + i \in About(all, key)
        BY <3>1, <3>2 DEF About
      <3>4. \A j \in About(all, key) : j <= n + i
        <4> SUFFICES ASSUME NEW j \in About(all, key) PROVE j <= n + i
          OBVIOUS
        <4>1. CASE j \in About(a, key)
          BY <1>2, <3>1, <4>1 DEF About
        <4>2. CASE j - n \in About(b, key) /\ j \in DOMAIN all
          BY <1>2, <3>1, <4>2 DEF all
        <4> QED BY <1>4, <4>1, <4>2
      <3> QED BY <2>2, <3>2, <3>3, <3>4 DEF LastAbout
    <2>3. \/ About(b, key) = {} /\ PolicyOf(second.mirror, key) = PolicyOf(first.mirror, key)
          \/ \E i \in LastAbout(b, key) : b[i].policy = PolicyOf(second.mirror, key)
      BY DEF Accounted, b
    <2> QED BY <2>1, <2>2, <2>3
  <1>6. all \in Seq(Command)
    BY <1>2 DEF all
  <1> QED BY <1>5, <1>6 DEF Accounted, all, a, b

\* What observe_content_capture_policy leaves of a key's policy, event by event.
Succeeds(e) == IF e.oldfd = None THEN e.ret = 0 ELSE e.ret # None
Effect(m, e, key) ==
    CASE e.kind = "fork" ->
            IF key[1] = e.child /\ <<e.pid, key[2]>> \in DOMAIN m
            THEN {m[<<e.pid, key[2]>>]} ELSE PolicyOf(m, key)
      [] e.kind = "exec" ->
            IF e.channel # NoChannel /\ key[1] = e.pid /\ key[2] \in StdFds
            THEN {[channel |-> e.channel, expires |-> e.ts + CaptureTime]}
            ELSE PolicyOf(m, key)
      [] e.kind = "exit" -> IF key[1] = e.pid THEN {} ELSE PolicyOf(m, key)
      [] e.kind = "open" -> IF key = <<e.pid, e.ret>> THEN {} ELSE PolicyOf(m, key)
      [] e.kind = "dup" ->
            IF key # <<e.pid, e.newfd>> \/ ~Succeeds(e) THEN PolicyOf(m, key)
            ELSE IF e.oldfd = None \/ e.oldfd = e.newfd THEN {}
            ELSE PolicyOf(m, <<e.pid, e.oldfd>>)

LEMMA ObservedEffect ==
    ASSUME NEW m, Policies(m), NEW e \in Event
    PROVE  /\ Accounted(m, Observed(m, e))
           /\ \A key \in Keys : PolicyOf(Observed(m, e).mirror, key) = Effect(m, e, key)
  <1>1. \A keys \in SUBSET DOMAIN m : keys \in SUBSET Keys /\ IsFiniteSet(keys)
    BY FS_Subset DEF Policies, IsMap
  <1>2. \A key \in Keys : {key} \in SUBSET Keys /\ IsFiniteSet({key})
    BY FS_Singleton
  <1>3. Accounted(m, Unchanged(m)) /\ Unchanged(m).mirror = m
    <2>1. \A key : About(<<>>, key) = {}
      BY DEF About
    <2>2. <<>> \in Seq(Command)
      BY EmptySeq
    <2> QED BY <2>1, <2>2 DEF Accounted, Unchanged
  <1>4. CASE e.kind = "fork"
    <2> DEFINE new == [k \in {<<e.child, key[2]>> : key \in KeysOf(m, e.pid)} |-> m[<<e.pid, k[2]>>]]
               f == [key \in KeysOf(m, e.pid) |-> <<e.child, key[2]>>]
    <2>1. e.pid \in Pids /\ e.child \in Pids
      BY <1>4 DEF Event
    <2>2. \A key \in KeysOf(m, e.pid) : /\ key \in DOMAIN m
                                         /\ key = <<e.pid, key[2]>>
                                         /\ key[2] \in Fds
                                         /\ m[key] \in Policy
      BY DEF KeysOf, Policies, IsMap, Keys
    <2>3. DOMAIN new = {f[key] : key \in KeysOf(m, e.pid)}
      OBVIOUS
    <2>4. IsFiniteSet(KeysOf(m, e.pid))
      BY <1>1 DEF KeysOf
    <2>5. IsFiniteSet(DOMAIN new)
      <3> HIDE DEF new
      <3>1. DOMAIN f = KeysOf(m, e.pid)
        OBVIOUS
      <3> HIDE DEF f
      <3> QED BY <2>3, <2>4, <3>1, FiniteImage
    <2>6. \A k \in DOMAIN new : k \in Keys /\ new[k] \in Policy
      BY <2>1, <2>2 DEF Keys
    <2>7. new = [k \in DOMAIN new |-> new[k]]
      OBVIOUS
    <2>8. Observed(m, e) = WithUpserts(m, new)
      BY <1>4 DEF Observed, Inherited
    <2>9. ASSUME NEW key \in Keys
          PROVE  /\ key \in DOMAIN new <=> key[1] = e.child /\ <<e.pid, key[2]>> \in DOMAIN m
                 /\ key \in DOMAIN new => new[key] = m[<<e.pid, key[2]>>]
      <3>1. key = <<key[1], key[2]>>
        BY DEF Keys
      <3>2. <<e.pid, key[2]>> \in DOMAIN m => <<e.pid, key[2]>> \in KeysOf(m, e.pid)
        BY DEF KeysOf
      <3>3. <<e.pid, key[2]>>[2] = key[2]
        OBVIOUS
      <3>4. ASSUME key[1] = e.child, <<e.pid, key[2]>> \in DOMAIN m
            PROVE  key \in DOMAIN new
        BY <3>1, <3>2, <3>3, <3>4
      <3>5. ASSUME key \in DOMAIN new
            PROVE  key[1] = e.child /\ <<e.pid, key[2]>> \in DOMAIN m
        BY <2>2, <3>5
      <3>6. key \in DOMAIN new => new[key] = m[<<e.pid, key[2]>>]
        OBVIOUS
      <3> QED BY <3>4, <3>5, <3>6
    <2> HIDE DEF new
    <2>10. Policies(new)
      BY <2>5, <2>6, <2>7 DEF Policies, IsMap
    <2>11. \A key : PolicyOf(Observed(m, e).mirror, key)
                      = IF key \in DOMAIN new THEN {new[key]} ELSE PolicyOf(m, key)
      BY <2>8, <2>10, UpsertsAccounted
    <2>12. Accounted(m, Observed(m, e))
      BY <2>8, <2>10, UpsertsAccounted
    <2>13. \A key : Effect(m, e, key) =
              IF key[1] = e.child /\ <<e.pid, key[2]>> \in DOMAIN m
              THEN {m[<<e.pid, key[2]>>]} ELSE PolicyOf(m, key)
      BY <1>4 DEF Effect
    <2>14. ASSUME NEW key \in Keys
           PROVE  PolicyOf(Observed(m, e).mirror, key) = Effect(m, e, key)
      BY <2>9, <2>11, <2>13
    <2> QED BY <2>12, <2>14
  <1>5. CASE e.kind = "exec"
    <2> DEFINE new == [k \in {e.pid} \X StdFds |->
                          [channel |-> e.channel, expires |-> e.ts + CaptureTime]]
    <2>1. CASE e.channel = NoChannel
      BY <1>3, <1>5, <2>1 DEF Observed, Enabled, Effect
    <2>2. CASE e.channel # NoChannel
      <3>1. e.pid \in Pids /\ e.channel \in Channels /\ e.ts \in 0 .. MaxTime
        BY <1>5, <2>2 DEF Event
      <3>2. [channel |-> e.channel, expires |-> e.ts + CaptureTime] \in Policy
        <4>1. e.ts + CaptureTime \in 0 .. MaxTime + CaptureTime
          BY <3>1, CaptureAssumption
        <4> QED BY <3>1, <4>1 DEF Policy
      <3>3. DOMAIN new \subseteq Keys
        BY <3>1, CaptureAssumption DEF Keys
      <3>4. IsFiniteSet(DOMAIN new)
        BY FS_Product, FS_Singleton, CaptureAssumption
      <3>5. Observed(m, e) = WithUpserts(m, new)
        BY <1>5, <2>2 DEF Observed, Enabled
      <3>6. Policies(new)
        BY <3>2, <3>3, <3>4 DEF Policies, IsMap
      <3>7. \A key \in Keys :
               /\ key \in DOMAIN new <=> key[1] = e.pid /\ key[2] \in StdFds
               /\ key \in DOMAIN new =>
                     new[key] = [channel |-> e.channel, expires |-> e.ts + CaptureTime]
        BY DEF Keys
      <3> HIDE DEF new
      <3>8. \A key : PolicyOf(Observed(m, e).mirror, key)
                        = IF key \in DOMAIN new THEN {new[key]} ELSE PolicyOf(m, key)
        BY <3>5, <3>6, UpsertsAccounted
      <3> QED BY <1>5, <2>2, <3>5, <3>6, <3>7, <3>8, UpsertsAccounted DEF Effect
    <2> QED BY <2>1, <2>2
  <1>6. CASE e.kind = "exit"
    <2>1. Observed(m, e) = WithDeletes(m, KeysOf(m, e.pid))
      BY <1>6 DEF Observed
    <2>2. KeysOf(m, e.pid) \in SUBSET DOMAIN m
      BY DEF KeysOf
    <2>3. Accounted(m, Observed(m, e))
      BY <1>1, <2>1, <2>2, DeletesAccounted
    <2>4. \A key : PolicyOf(Observed(m, e).mirror, key)
                      = IF key \in KeysOf(m, e.pid) THEN {} ELSE PolicyOf(m, key)
      BY <1>1, <2>1, <2>2, DeletesAccounted
    <2> QED BY <1>6, <2>3, <2>4 DEF Effect, KeysOf, PolicyOf
  <1>7. CASE e.kind = "open"
    <2>1. e.pid \in Pids /\ e.ret \in Fds /\ e.ret # None
      BY <1>7, CaptureAssumption DEF Event, None
    <2>2. Observed(m, e) = WithDeletes(m, {<<e.pid, e.ret>>})
      BY <1>7, <2>1 DEF Observed
    <2>3. <<e.pid, e.ret>> \in Keys
      BY <2>1 DEF Keys
    <2> QED BY <1>2, <1>7, <2>2, <2>3, DeletesAccounted DEF Effect
  <1>8. CASE e.kind = "dup"
    <2> DEFINE dest == <<e.pid, e.newfd>>
    <2>1. e.pid \in Pids /\ e.newfd \in Fds /\ e.newfd # None
      BY <1>8, CaptureAssumption DEF Event, None
    <2>2. /\ dest \in Keys /\ Destination(e) = dest /\ Source(e) = <<e.pid, e.oldfd>>
          /\ dest = Source(e) <=> e.newfd = e.oldfd
      BY <2>1 DEF Keys, Destination, Source
    <2>3. \A key : Effect(m, e, key) =
              IF key # dest \/ ~Succeeds(e) THEN PolicyOf(m, key)
              ELSE IF e.oldfd = None \/ e.oldfd = e.newfd THEN {} ELSE PolicyOf(m, Source(e))
      BY <1>8, <2>2 DEF Effect
    <2> HIDE DEF dest
    <2>4. CASE e.oldfd = None /\ e.ret = 0
      <3>1. Observed(m, e) = WithDeletes(m, {dest})
        BY <1>8, <2>4 DEF Observed, dest
      <3>2. Succeeds(e)
        BY <2>4 DEF Succeeds
      <3>3. /\ Accounted(m, Observed(m, e))
            /\ \A key : PolicyOf(Observed(m, e).mirror, key)
                           = IF key \in {dest} THEN {} ELSE PolicyOf(m, key)
        BY <1>2, <2>2, <3>1, DeletesAccounted
      <3> QED BY <2>3, <2>4, <3>2, <3>3
    <2>5. CASE e.oldfd # None /\ e.ret # None
      <3> DEFINE cleared == WithDeletes(m, {dest})
                 new == [k \in {dest} |-> cleared.mirror[Source(e)]]
                 copied == WithUpserts(cleared.mirror, new)
      <3>1. Observed(m, e) = Dupped(m, e) /\ Succeeds(e)
        BY <1>8, <2>5 DEF Observed, Succeeds
      <3>2. /\ Accounted(m, cleared)
            /\ \A key : PolicyOf(cleared.mirror, key)
                           = IF key \in {dest} THEN {} ELSE PolicyOf(m, key)
        BY <1>2, <2>2, DeletesAccounted
      <3>3. Dupped(m, e) = IF Source(e) \in DOMAIN cleared.mirror
                           THEN [mirror |-> copied.mirror, push |-> cleared.push \o copied.push]
                           ELSE cleared
        BY <2>2 DEF Dupped
      <3> HIDE DEF cleared
      <3>4. Policies(cleared.mirror)
        BY <3>2 DEF Accounted
      <3>5. CASE Source(e) \in DOMAIN cleared.mirror
        <4>1. cleared.mirror[Source(e)] \in Policy
          BY <3>4, <3>5 DEF Policies, IsMap
        <4>2. Policies(new)
          BY <1>2, <2>2, <4>1 DEF Policies, IsMap
        <4>3. DOMAIN new = {dest} /\ new[dest] = cleared.mirror[Source(e)]
          OBVIOUS
        <4> HIDE DEF new
        <4>4. /\ Accounted(cleared.mirror, copied)
              /\ \A key : PolicyOf(copied.mirror, key)
                             = IF key \in {dest} THEN {new[dest]} ELSE PolicyOf(cleared.mirror, key)
          BY <3>4, <4>2, <4>3, UpsertsAccounted
        <4> HIDE DEF copied
        <4>5. Accounted(m, Observed(m, e)) /\ Observed(m, e).mirror = copied.mirror
          <5>1. Observed(m, e) = [mirror |-> copied.mirror, push |-> cleared.push \o copied.push]
            BY <3>1, <3>3, <3>5
          <5>2. Accounted(m, [mirror |-> copied.mirror, push |-> cleared.push \o copied.push])
            BY <3>2, <4>4, ThenAccounted
          <5> QED BY <5>1, <5>2
        <4>6. PolicyOf(cleared.mirror, Source(e)) = {new[dest]}
          BY <3>5, <4>3 DEF PolicyOf
        <4>7. Source(e) # dest /\ PolicyOf(m, Source(e)) = {new[dest]}
          BY <3>2, <4>6
        <4> QED BY <2>2, <2>3, <2>5, <3>1, <3>2, <4>4, <4>5, <4>7
      <3>6. CASE Source(e) \notin DOMAIN cleared.mirror
        <4>1. PolicyOf(cleared.mirror, Source(e)) = {}
          BY <3>6 DEF PolicyOf
        <4>2. Source(e) # dest => PolicyOf(m, Source(e)) = {}
          BY <3>2, <4>1
        <4> QED BY <2>2, <2>3, <2>5, <3>1, <3>2, <3>3, <3>6, <4>2
      <3> QED BY <3>5, <3>6
    <2>6. CASE ~(e.oldfd = None /\ e.ret = 0) /\ ~(e.oldfd # None /\ e.ret # None)
      <3>1. Observed(m, e) = Unchanged(m) /\ ~Succeeds(e)
        BY <1>8, <2>6 DEF Observed, Succeeds
      <3> QED BY <1>3, <2>3, <3>1
    <2> QED BY <2>4, <2>5, <2>6
  <1>9. e.kind \in {"fork", "exec", "exit", "dup", "open"}
    BY DEF Event
  <1> QED BY <1>4, <1>5, <1>6, <1>7, <1>8, <1>9
-----------------------------------------------------------------------------
(* Views of the host.                                                      *)

\* The policies a key may have, and those it has to have, as the host is: the
\* entries of threads are of no matter, and those that strayed may be missing.
TablePolicies(key) ==
    IF key[1] \in Alive /\ key[2] \in Open(key[1]) THEN table[key[1]][key[2]] ELSE {}
Allowed == [key \in Keys |-> IF key[1] \in DOMAIN threads THEN Policy ELSE TablePolicies(key)]
Required == [key \in Keys |-> IF key \in strayed THEN {} ELSE TablePolicies(key)]
View == [allowed |-> Allowed, required |-> Required]

LEMMA ViewIs ==
    \A key \in Keys :
        /\ View.allowed[key] = IF key[1] \in DOMAIN threads THEN Policy ELSE TablePolicies(key)
        /\ View.required[key] = IF key \in strayed THEN {} ELSE TablePolicies(key)
        /\ (View').allowed[key]
              = IF key[1] \in DOMAIN threads' THEN Policy ELSE TablePolicies(key)'
        /\ (View').required[key] = IF key \in strayed' THEN {} ELSE TablePolicies(key)'
  BY DEF View, Allowed, Required

Under(m, view) == \A key \in Keys : PolicyOf(m, key) \subseteq view.allowed[key]
Over(m, view) == \A key \in Keys : view.required[key] \subseteq PolicyOf(m, key)

\* Processing e takes what lies within one view to what lies within the other.
Leads(view, e, next) ==
    \A m : Policies(m) =>
        /\ Under(m, view) => Under(Observed(m, e).mirror, next)
        /\ Over(m, view) => Over(Observed(m, e).mirror, next)

LEMMA EffectLeads ==
    ASSUME NEW view, NEW next, NEW e \in Event,
           \A m : Policies(m) => \A key \in Keys :
              /\ Under(m, view) => Effect(m, e, key) \subseteq next.allowed[key]
              /\ Over(m, view) => next.required[key] \subseteq Effect(m, e, key)
    PROVE  Leads(view, e, next)
  BY ObservedEffect DEF Leads, Under, Over

DaemonTypes ==
    /\ now \in 0 .. MaxTime
    /\ rings \in [{"proc", "fs"} -> Seq(Event)]
    /\ \A i \in 1 .. Len(rings["fs"]) : rings["fs"][i].kind = "open"
    /\ Policies(mirror)
    /\ commands \in Seq(Command)
    /\ Policies(whitelist)
    /\ Cardinality(DOMAIN whitelist) <= WhitelistCapacity
    /\ worker \in {"running", "failed"}
    /\ IsMap(condemned, Pids, Found)
    /\ \A task \in DOMAIN condemned : condemned[task].found.expires < now
    /\ robbed \subseteq Keys
    /\ overtaken \in BOOLEAN

HostTypes ==
    /\ Alive \subseteq Pids
    /\ \A p \in Alive : IsMap(table[p], Fds, {{}} \cup {{x} : x \in Policy})
    /\ DOMAIN threads \subseteq Pids
    /\ Alive \cap DOMAIN threads = {}
    /\ strayed \subseteq Keys

Chained ==
    \E chain :
        /\ DOMAIN chain = 0 .. Len(rings["proc"])
        /\ chain[Len(rings["proc"])] = View
        /\ \A i \in 1 .. Len(rings["proc"]) : Leads(chain[i - 1], rings["proc"][i], chain[i])
        /\ Under(mirror, chain[0])
        /\ ~overtaken => Over(mirror, chain[0])

CaptureInv == DaemonTypes /\ HostTypes /\ MirrorFollowed /\ Chained
-----------------------------------------------------------------------------
(* System calls.                                                           *)

DaemonRests ==
    UNCHANGED <<now, mirror, commands, whitelist, worker, condemned, robbed, overtaken>>

LEMMA CallKeepsDaemonTypes ==
    ASSUME DaemonTypes, NEW r \in {"proc", "fs"}, NEW e \in Event, Call(r, e),
           r = "fs" => e.kind = "open"
    PROVE  DaemonTypes'
  <1>1. /\ rings' = [rings EXCEPT ![r] = Append(@, e)]
        /\ DaemonRests
    BY DEF Call, DaemonRests
  <1>2. \A q \in {"proc", "fs"} : rings[q] \in Seq(Event) /\ Append(rings[q], e) \in Seq(Event)
    BY AppendProperties DEF DaemonTypes
  <1>3. rings' \in [{"proc", "fs"} -> Seq(Event)]
    BY <1>1, <1>2 DEF DaemonTypes
  <1>4. \A i \in 1 .. Len(rings'["fs"]) : rings'["fs"][i].kind = "open"
    <2>1. CASE r = "fs"
      <3>1. rings'["fs"] = Append(rings["fs"], e)
        BY <1>1, <2>1 DEF DaemonTypes
      <3>2. /\ Len(Append(rings["fs"], e)) = Len(rings["fs"]) + 1
            /\ Len(rings["fs"]) \in Nat
            /\ \A i \in 1 .. Len(rings["fs"]) : Append(rings["fs"], e)[i] = rings["fs"][i]
            /\ Append(rings["fs"], e)[Len(rings["fs"]) + 1] = e
        BY <1>2, AppendProperties, LenProperties
      <3>3. \A i \in 1 .. (Len(rings["fs"]) + 1) : i \in 1 .. Len(rings["fs"]) \/ i = Len(rings["fs"]) + 1
        BY <3>2
      <3> QED BY <2>1, <3>1, <3>2, <3>3 DEF DaemonTypes
    <2>2. CASE r # "fs"
      <3>1. rings'["fs"] = rings["fs"]
        BY <1>1, <2>2 DEF DaemonTypes
      <3> QED BY <3>1 DEF DaemonTypes
    <2> QED BY <2>1, <2>2
  <1> QED BY <1>1, <1>3, <1>4 DEF DaemonTypes, DaemonRests

\* A call reported to the ring of proc adds a view to the chain.
LEMMA CallKeepsChain ==
    ASSUME DaemonTypes, Chained, NEW e \in Event, Call("proc", e), Leads(View, e, View')
    PROVE  Chained'
  <1> DEFINE n == Len(rings["proc"])
  <1>1. PICK chain :
            /\ DOMAIN chain = 0 .. n
            /\ chain[n] = View
            /\ \A i \in 1 .. n : Leads(chain[i - 1], rings["proc"][i], chain[i])
            /\ Under(mirror, chain[0])
            /\ ~overtaken => Over(mirror, chain[0])
    BY DEF Chained
  <1>2. rings["proc"] \in Seq(Event) /\ n \in Nat
    BY LenProperties DEF DaemonTypes
  <1>3. /\ rings'["proc"] = Append(rings["proc"], e)
        /\ mirror' = mirror /\ overtaken' = overtaken
    BY DEF Call, DaemonTypes
  <1>4. /\ Len(rings'["proc"]) = n + 1
        /\ \A i \in 1 .. n : rings'["proc"][i] = rings["proc"][i]
        /\ rings'["proc"][n + 1] = e
    BY <1>2, <1>3, AppendProperties
  <1> DEFINE next == [i \in 0 .. (n + 1) |-> IF i <= n THEN chain[i] ELSE View']
  <1> HIDE DEF n
  <1>5. \A i \in 0 .. n : i \in 0 .. (n + 1) /\ next[i] = chain[i]
    BY <1>2
  <1>6. DOMAIN next = 0 .. (n + 1) /\ next[n + 1] = View'
    BY <1>2
  <1> HIDE DEF next
  <1>7. ASSUME NEW i \in 1 .. (n + 1)
        PROVE  Leads(next[i - 1], rings'["proc"][i], next[i])
    <2>1. CASE i \in 1 .. n
      <3>1. i - 1 \in 0 .. n /\ i \in 0 .. n
        BY <1>2, <2>1
      <3> QED BY <1>1, <1>4, <1>5, <2>1, <3>1
    <2>2. CASE i = n + 1
      <3>1. i - 1 = n /\ n \in 0 .. n
        BY <1>2, <2>2
      <3> QED BY <1>1, <1>4, <1>5, <1>6, <2>2, <3>1
    <2> QED BY <1>2, <2>1, <2>2
  <1>8. next[0] = chain[0]
    BY <1>2, <1>5
  <1>9. Under(mirror', next[0]) /\ (~overtaken' => Over(mirror', next[0]))
    BY <1>1, <1>3, <1>8
  <1>10. \E c : /\ DOMAIN c = 0 .. Len(rings'["proc"])
                /\ c[Len(rings'["proc"])] = View'
                /\ \A i \in 1 .. Len(rings'["proc"]) : Leads(c[i - 1], rings'["proc"][i], c[i])
                /\ Under(mirror', c[0])
                /\ ~overtaken' => Over(mirror', c[0])
    <2> WITNESS next
    <2> QED BY <1>4, <1>6, <1>7, <1>9
  <1> QED BY <1>10 DEF Chained

\* What does not touch that ring, the mirror and the view leaves it alone.
LEMMA RestKeepsChain ==
    ASSUME Chained, rings'["proc"] = rings["proc"], mirror' = mirror,
           overtaken' = overtaken, View' = View
    PROVE  Chained'
  BY DEF Chained

\* Nor does a view that allows more and requires less break the chain.
LEMMA LaxerKeepsChain ==
    ASSUME DaemonTypes, Chained, rings'["proc"] = rings["proc"], mirror' = mirror,
           overtaken' = overtaken,
           \A key \in Keys : /\ View.allowed[key] \subseteq (View').allowed[key]
                            /\ (View').required[key] \subseteq View.required[key]
    PROVE  Chained'
  <1> DEFINE n == Len(rings["proc"])
  <1>1. PICK chain :
            /\ DOMAIN chain = 0 .. n
            /\ chain[n] = View
            /\ \A i \in 1 .. n : Leads(chain[i - 1], rings["proc"][i], chain[i])
            /\ Under(mirror, chain[0])
            /\ ~overtaken => Over(mirror, chain[0])
    BY DEF Chained
  <1>2. n \in Nat
    BY LenProperties DEF DaemonTypes
  <1> DEFINE next == [i \in 0 .. n |-> IF i = n THEN View' ELSE chain[i]]
  <1>3. /\ DOMAIN next = 0 .. n /\ next[n] = View'
        /\ \A i \in 0 .. n : i # n => next[i] = chain[i]
    BY <1>2
  <1>4. \A m : /\ Under(m, View) => Under(m, View')
               /\ Over(m, View) => Over(m, View')
    BY DEF Under, Over
  <1> HIDE DEF n, next
  <1>5. ASSUME NEW i \in 1 .. n
        PROVE  Leads(next[i - 1], rings["proc"][i], next[i])
    <2>1. i - 1 \in 0 .. n /\ i - 1 # n /\ i \in 0 .. n
      BY <1>2
    <2>2. Leads(chain[i - 1], rings["proc"][i], chain[i]) /\ next[i - 1] = chain[i - 1]
      BY <1>1, <1>3, <2>1
    <2>3. CASE i = n
      BY <1>1, <1>3, <1>4, <2>2, <2>3 DEF Leads
    <2>4. CASE i # n
      BY <1>3, <2>1, <2>2, <2>4
    <2> QED BY <2>3, <2>4
  <1>6. Under(mirror', next[0]) /\ (~overtaken' => Over(mirror', next[0]))
    <2>1. CASE n = 0
      BY <1>1, <1>3, <1>4, <2>1
    <2>2. CASE n # 0
      BY <1>1, <1>2, <1>3, <2>2
    <2> QED BY <2>1, <2>2
  <1>7. \E c : /\ DOMAIN c = 0 .. Len(rings'["proc"])
               /\ c[Len(rings'["proc"])] = View'
               /\ \A i \in 1 .. Len(rings'["proc"]) : Leads(c[i - 1], rings'["proc"][i], c[i])
               /\ Under(mirror', c[0])
               /\ ~overtaken' => Over(mirror', c[0])
    <2> WITNESS next
    <2> QED BY <1>3, <1>5, <1>6 DEF n
  <1> QED BY <1>7 DEF Chained

LEMMA RestKeepsMirrorFollowed ==
    ASSUME MirrorFollowed, UNCHANGED <<now, mirror, commands, whitelist, worker, robbed>>
    PROVE  MirrorFollowed'
  BY DEF MirrorFollowed, Prospect, Expired, Robbed

LEMMA ReportKeepsInv ==
    ASSUME CaptureInv, NEW e \in Event, Call("proc", e), HostTypes', Leads(View, e, View')
    PROVE  CaptureInv'
  <1>1. DaemonTypes'
    BY CallKeepsDaemonTypes DEF CaptureInv
  <1>2. Chained'
    BY CallKeepsChain DEF CaptureInv
  <1>3. MirrorFollowed'
    BY RestKeepsMirrorFollowed DEF Call, CaptureInv
  <1> QED BY <1>1, <1>2, <1>3 DEF CaptureInv

LEMMA ForkKeepsInv ==
    ASSUME CaptureInv, NEW p \in Alive, Fork(p)
    PROVE  CaptureInv'
  <1>1. PICK child \in Unused :
            /\ Call("proc", [kind |-> "fork", pid |-> p, child |-> child])
            /\ table' = Put(table, child, table[p])
            /\ strayed' = strayed \cup {<<child, s[2]>> : s \in StrayedOf(p)}
            /\ UNCHANGED <<threads, process_of>>
    BY DEF Fork
  <1> DEFINE e == [kind |-> "fork", pid |-> p, child |-> child]
  <1>2. /\ p \in Pids /\ child \in Pids /\ child # p
        /\ child \notin Alive /\ child \notin DOMAIN threads /\ p \notin DOMAIN threads
        /\ threads' = threads
        /\ e \in Event
    BY <1>1 DEF Unused, Event, CaptureInv, HostTypes, Alive
  <1>3. /\ Alive' = Alive \cup {child}
        /\ table'[child] = table[p]
        /\ \A q \in Alive : table'[q] = table[q]
    BY <1>1, <1>2 DEF Alive, Put
  <1>4. HostTypes'
    <2>1. \A q \in Alive' : IsMap(table'[q], Fds, {{}} \cup {{x} : x \in Policy})
      BY <1>2, <1>3 DEF CaptureInv, HostTypes
    <2>2. strayed' \subseteq Keys
      BY <1>1, <1>2 DEF CaptureInv, HostTypes, StrayedOf, Keys
    <2> QED BY <1>1, <1>2, <1>3, <2>1, <2>2 DEF CaptureInv, HostTypes
  <1>5. \A key \in Keys :
            TablePolicies(key)' = IF key[1] = child THEN TablePolicies(<<p, key[2]>>)
                                  ELSE TablePolicies(key)
    BY <1>2, <1>3 DEF TablePolicies, Open
  <1>6. \A key \in Keys :
            /\ key[1] = child => TablePolicies(key) = {} /\ <<p, key[2]>> \in Keys
            /\ key[1] = child /\ <<p, key[2]>> \in strayed => key \in strayed'
            /\ key \in strayed => key \in strayed'
    BY <1>1, <1>2 DEF TablePolicies, StrayedOf, Keys
  <1>7. Leads(View, e, View')
    <2> SUFFICES ASSUME NEW m, Policies(m), NEW key \in Keys
                 PROVE  /\ Under(m, View) => Effect(m, e, key) \subseteq (View').allowed[key]
                        /\ Over(m, View) => (View').required[key] \subseteq Effect(m, e, key)
      BY <1>2, EffectLeads
    <2>1. Effect(m, e, key) = IF key[1] = child /\ <<p, key[2]>> \in DOMAIN m
                              THEN {m[<<p, key[2]>>]} ELSE PolicyOf(m, key)
      BY DEF Effect
    <2>2. CASE key[1] # child
      <3>1. /\ (View').allowed[key] = View.allowed[key]
            /\ (View').required[key] \subseteq View.required[key]
        <4>1. TablePolicies(key)' = TablePolicies(key)
          BY <1>5, <2>2
        <4>2. key \in strayed => key \in strayed'
          BY <1>6
        <4> QED BY <1>2, <4>1, <4>2, ViewIs
      <3> QED BY <2>1, <2>2, <3>1 DEF Under, Over
    <2>3. CASE key[1] = child
      <3>1. <<p, key[2]>> \in Keys
        BY <1>6, <2>3
      <3>2. View.allowed[key] = {} /\ (View').allowed[key] = View.allowed[<<p, key[2]>>]
        <4>1. TablePolicies(key) = {} /\ TablePolicies(key)' = TablePolicies(<<p, key[2]>>)
          BY <1>5, <1>6, <2>3
        <4>2. View.allowed[<<p, key[2]>>] = TablePolicies(<<p, key[2]>>)
          BY <1>2, <3>1, ViewIs
        <4>3. View.allowed[key] = TablePolicies(key) /\ (View').allowed[key] = TablePolicies(key)'
          BY <1>2, <2>3, ViewIs
        <4> QED BY <4>1, <4>2, <4>3
      <3>3. (View').required[key] \subseteq View.required[<<p, key[2]>>]
        BY <1>1, <1>2, <1>5, <1>6, <2>3, <3>1, ViewIs
      <3> QED BY <2>1, <2>3, <3>1, <3>2, <3>3 DEF Under, Over, PolicyOf
    <2> QED BY <2>2, <2>3
  <1> QED BY <1>1, <1>2, <1>4, <1>7, ReportKeepsInv

LEMMA StartThreadKeepsInv ==
    ASSUME CaptureInv, NEW p \in Alive, StartThread(p)
    PROVE  CaptureInv'
  <1>1. PICK t \in Unused :
            /\ Call("proc", [kind |-> "fork", pid |-> p, child |-> t])
            /\ threads' = Put(threads, t, TRUE)
            /\ UNCHANGED <<table, strayed>>
    BY DEF StartThread
  <1> DEFINE e == [kind |-> "fork", pid |-> p, child |-> t]
  <1>2. p \in Pids /\ t \in Pids /\ t \notin Alive /\ e \in Event
    BY DEF Unused, Event, CaptureInv, HostTypes, Alive
  <1>3. DOMAIN threads' = DOMAIN threads \cup {t} /\ Alive' = Alive
    BY <1>1 DEF Put, Alive
  <1>4. HostTypes'
    BY <1>1, <1>2, <1>3 DEF CaptureInv, HostTypes
  <1>5. \A key \in Keys : TablePolicies(key)' = TablePolicies(key)
    BY <1>1, <1>3 DEF TablePolicies, Open
  <1>6. Leads(View, e, View')
    <2> SUFFICES ASSUME NEW m, Policies(m), NEW key \in Keys
                 PROVE  /\ Under(m, View) => Effect(m, e, key) \subseteq (View').allowed[key]
                        /\ Over(m, View) => (View').required[key] \subseteq Effect(m, e, key)
      BY <1>2, EffectLeads
    <2>1. Effect(m, e, key) = IF key[1] = t /\ <<p, key[2]>> \in DOMAIN m
                              THEN {m[<<p, key[2]>>]} ELSE PolicyOf(m, key)
      BY DEF Effect
    <2>2. CASE key[1] # t
      <3>1. /\ (View').allowed[key] = View.allowed[key]
            /\ (View').required[key] = View.required[key]
        BY <1>1, <1>3, <1>5, <2>2, ViewIs
      <3> QED BY <2>1, <2>2, <3>1 DEF Under, Over
    <2>3. CASE key[1] = t
      <3>1. (View').allowed[key] = Policy
        BY <1>3, <2>3, ViewIs
      <3>2. (View').required[key] = {}
        BY <1>2, <1>5, <2>3, ViewIs DEF TablePolicies
      <3>3. Effect(m, e, key) \subseteq Policy
        BY <2>1 DEF PolicyOf, Policies, IsMap
      <3> QED BY <3>1, <3>2, <3>3
    <2> QED BY <2>2, <2>3
  <1> QED BY <1>1, <1>2, <1>4, <1>6, ReportKeepsInv

LEMMA ExecKeepsInv ==
    ASSUME CaptureInv, NEW p \in Alive, Exec(p)
    PROVE  CaptureInv'
  <1>1. PICK channel \in Channels \cup {NoChannel} :
            /\ StdFds \subseteq Open(p)
            /\ Call("proc", [kind |-> "exec", pid |-> p, channel |-> channel, ts |-> now])
            /\ table' = IF channel = NoChannel THEN table
                        ELSE [table EXCEPT ![p] = [fd \in Open(p) |->
                                IF fd \in StdFds
                                THEN {[channel |-> channel, expires |-> now + CaptureTime]}
                                ELSE table[p][fd]]]
            /\ UNCHANGED <<threads, process_of, strayed>>
    BY DEF Exec
  <1> DEFINE e == [kind |-> "exec", pid |-> p, channel |-> channel, ts |-> now]
             new == [channel |-> channel, expires |-> now + CaptureTime]
  <1>2. p \in Pids /\ e \in Event
    BY DEF Event, CaptureInv, HostTypes, DaemonTypes, Alive
  <1>3. channel # NoChannel => new \in Policy
    <2>1. now + CaptureTime \in 0 .. MaxTime + CaptureTime
      BY CaptureAssumption DEF CaptureInv, DaemonTypes
    <2> QED BY <2>1 DEF Policy
  <1>4. /\ Alive' = Alive
        /\ \A q \in Alive \ {p} : table'[q] = table[q]
        /\ DOMAIN table'[p] = DOMAIN table[p]
        /\ \A fd \in Open(p) : table'[p][fd] = IF channel # NoChannel /\ fd \in StdFds
                                               THEN {new} ELSE table[p][fd]
    BY <1>1 DEF Alive, Open
  <1> HIDE DEF new
  <1>5. HostTypes'
    <2>1. IsMap(table'[p], Fds, {{}} \cup {{x} : x \in Policy})
      <3>1. IsMap(table[p], Fds, {{}} \cup {{x} : x \in Policy})
        BY DEF CaptureInv, HostTypes
      <3>2. table'[p] = [fd \in DOMAIN table'[p] |-> table'[p][fd]]
        <4>1. CASE channel = NoChannel
          BY <1>1, <3>1, <4>1 DEF IsMap
        <4>2. CASE channel # NoChannel
          BY <1>1, <4>2 DEF Alive
        <4> QED BY <4>1, <4>2
      <3> QED BY <1>3, <1>4, <3>1, <3>2 DEF IsMap, Open
    <2> QED BY <1>1, <1>4, <2>1 DEF CaptureInv, HostTypes
  <1>6. \A key \in Keys :
            TablePolicies(key)' = IF channel # NoChannel /\ key[1] = p /\ key[2] \in StdFds
                                  THEN {new} ELSE TablePolicies(key)
    <2> SUFFICES ASSUME NEW key \in Keys
                 PROVE  TablePolicies(key)'
                           = IF channel # NoChannel /\ key[1] = p /\ key[2] \in StdFds
                             THEN {new} ELSE TablePolicies(key)
      OBVIOUS
    <2>1. CASE key[1] = p
      BY <1>1, <1>4, <2>1 DEF TablePolicies, Open
    <2>2. CASE key[1] \in Alive \ {p}
      BY <1>4, <2>2 DEF TablePolicies, Open
    <2>3. CASE key[1] \notin Alive
      BY <1>4, <2>3 DEF TablePolicies
    <2> QED BY <2>1, <2>2, <2>3
  <1>7. Leads(View, e, View')
    <2> SUFFICES ASSUME NEW m, Policies(m), NEW key \in Keys
                 PROVE  /\ Under(m, View) => Effect(m, e, key) \subseteq (View').allowed[key]
                        /\ Over(m, View) => (View').required[key] \subseteq Effect(m, e, key)
      BY <1>2, EffectLeads
    <2>1. Effect(m, e, key) = IF channel # NoChannel /\ key[1] = p /\ key[2] \in StdFds
                              THEN {new} ELSE PolicyOf(m, key)
      BY DEF Effect, new
    <2>2. CASE channel # NoChannel /\ key[1] = p /\ key[2] \in StdFds
      BY <1>3, <1>6, <2>1, <2>2, ViewIs
    <2>3. CASE ~(channel # NoChannel /\ key[1] = p /\ key[2] \in StdFds)
      <3>1. /\ (View').allowed[key] = View.allowed[key]
            /\ (View').required[key] = View.required[key]
        BY <1>1, <1>6, <2>3, ViewIs
      <3> QED BY <2>1, <2>3, <3>1 DEF Under, Over
    <2> QED BY <2>2, <2>3
  <1> QED BY <1>1, <1>2, <1>5, <1>7, ReportKeepsInv

LEMMA DupKeepsInv ==
    ASSUME CaptureInv, NEW p \in Alive, Dup(p)
    PROVE  CaptureInv'
  <1>1. PICK oldfd \in Open(p), newfd \in Fds :
            /\ Call("proc", [kind |-> "dup", pid |-> p, oldfd |-> oldfd,
                             newfd |-> newfd, ret |-> newfd])
            /\ table' = [table EXCEPT ![p] = Put(@, newfd, table[p][oldfd])]
            /\ strayed' = IF newfd = oldfd \/ <<p, oldfd>> \in strayed
                          THEN strayed \cup {<<p, newfd>>} ELSE strayed
            /\ threads' = threads
    BY DEF Dup
  <1> DEFINE e == [kind |-> "dup", pid |-> p, oldfd |-> oldfd, newfd |-> newfd, ret |-> newfd]
  <1>2. /\ p \in Pids /\ oldfd \in Fds
        /\ IsMap(table[p], Fds, {{}} \cup {{x} : x \in Policy})
    BY DEF CaptureInv, HostTypes, IsMap, Open, Alive
  <1>3. e \in Event /\ oldfd # None /\ newfd # None
    BY <1>2, CaptureAssumption DEF Event, None
  <1>4. /\ Alive' = Alive
        /\ \A q \in Alive \ {p} : table'[q] = table[q]
        /\ table'[p] = Put(table[p], newfd, table[p][oldfd])
    BY <1>1 DEF Alive
  <1>5. /\ DOMAIN table'[p] = Open(p) \cup {newfd}
        /\ \A fd \in Open(p) \cup {newfd} :
              table'[p][fd] = IF fd = newfd THEN table[p][oldfd] ELSE table[p][fd]
    BY <1>4 DEF Put, Open
  <1>6. HostTypes'
    <2>1. IsMap(table'[p], Fds, {{}} \cup {{x} : x \in Policy})
      BY <1>2, <1>4 DEF IsMap, Put, Open
    <2>2. strayed' \subseteq Keys
      BY <1>1, <1>2 DEF CaptureInv, HostTypes, Keys
    <2> QED BY <1>1, <1>4, <2>1, <2>2 DEF CaptureInv, HostTypes
  <1>7. \A key \in Keys :
            TablePolicies(key)' = IF key = <<p, newfd>> THEN TablePolicies(<<p, oldfd>>)
                                  ELSE TablePolicies(key)
    <2> SUFFICES ASSUME NEW key \in Keys
                 PROVE  TablePolicies(key)' = IF key = <<p, newfd>> THEN TablePolicies(<<p, oldfd>>)
                                              ELSE TablePolicies(key)
      OBVIOUS
    <2>1. key = <<key[1], key[2]>>
      BY DEF Keys
    <2>2. CASE key[1] = p
      BY <1>4, <1>5, <2>1, <2>2 DEF TablePolicies, Open
    <2>3. CASE key[1] \in Alive \ {p}
      BY <1>4, <2>3 DEF TablePolicies, Open
    <2>4. CASE key[1] \notin Alive
      BY <1>4, <2>4 DEF TablePolicies
    <2> QED BY <2>2, <2>3, <2>4
  <1>8. Leads(View, e, View')
    <2> SUFFICES ASSUME NEW m, Policies(m), NEW key \in Keys
                 PROVE  /\ Under(m, View) => Effect(m, e, key) \subseteq (View').allowed[key]
                        /\ Over(m, View) => (View').required[key] \subseteq Effect(m, e, key)
      BY <1>3, EffectLeads
    <2>1. Effect(m, e, key) = IF key # <<p, newfd>> THEN PolicyOf(m, key)
                              ELSE IF oldfd = newfd THEN {} ELSE PolicyOf(m, <<p, oldfd>>)
      BY <1>3 DEF Effect, Succeeds
    <2>2. CASE key # <<p, newfd>>
      <3>1. TablePolicies(key)' = TablePolicies(key) /\ (key \in strayed => key \in strayed')
        BY <1>1, <1>7, <2>2
      <3>2. /\ (View').allowed[key] = View.allowed[key]
            /\ (View').required[key] \subseteq View.required[key]
        BY <1>1, <3>1, ViewIs
      <3> QED BY <2>1, <2>2, <3>2 DEF Under, Over
    <2>3. CASE key = <<p, newfd>>
      <3>1. <<p, oldfd>> \in Keys /\ key[1] = p
        BY <1>2, <2>3 DEF Keys
      <3>2. TablePolicies(key)' = TablePolicies(<<p, oldfd>>)
        BY <1>7, <2>3
      <3>3. (View').allowed[key] = View.allowed[<<p, oldfd>>]
        BY <1>1, <3>1, <3>2, ViewIs
      <3>4. key \notin strayed' => newfd # oldfd /\ <<p, oldfd>> \notin strayed
        BY <1>1, <2>3
      <3>5. (View').required[key] \subseteq
               IF newfd = oldfd THEN {} ELSE View.required[<<p, oldfd>>]
        BY <3>1, <3>2, <3>4, ViewIs
      <3> QED BY <2>1, <2>3, <3>1, <3>3, <3>5 DEF Under, Over
    <2> QED BY <2>2, <2>3
  <1> QED BY <1>1, <1>3, <1>6, <1>8, ReportKeepsInv

LEMMA DupFailsKeepsInv ==
    ASSUME CaptureInv, NEW p \in Alive, DupFails(p)
    PROVE  CaptureInv'
  <1>1. PICK oldfd \in Fds \ Open(p), newfd \in Fds :
            /\ Call("proc", [kind |-> "dup", pid |-> p, oldfd |-> oldfd,
                             newfd |-> newfd, ret |-> None])
            /\ UNCHANGED <<table, threads, strayed>>
    BY DEF DupFails
  <1> DEFINE e == [kind |-> "dup", pid |-> p, oldfd |-> oldfd, newfd |-> newfd, ret |-> None]
  <1>2. e \in Event /\ oldfd # None
    BY CaptureAssumption DEF Event, None, CaptureInv, HostTypes, Alive
  <1>3. View' = View
    BY <1>1 DEF View, Allowed, Required, TablePolicies, Alive, Open
  <1>4. HostTypes'
    BY <1>1 DEF CaptureInv, HostTypes, Alive
  <1>5. Leads(View, e, View')
    <2>1. \A m, key : Effect(m, e, key) = PolicyOf(m, key)
      BY <1>2 DEF Effect, Succeeds
    <2>2. \A m : Policies(m) => \A key \in Keys :
              /\ Under(m, View) => Effect(m, e, key) \subseteq (View').allowed[key]
              /\ Over(m, View) => (View').required[key] \subseteq Effect(m, e, key)
      BY <1>3, <2>1 DEF Under, Over
    <2> QED BY <1>2, <2>2, EffectLeads
  <1> QED BY <1>1, <1>2, <1>4, <1>5, ReportKeepsInv

LEMMA CloseKeepsInv ==
    ASSUME CaptureInv, NEW p \in Alive, Close(p)
    PROVE  CaptureInv'
  <1>1. PICK fd \in Open(p) :
            /\ Call("proc", [kind |-> "dup", pid |-> p, oldfd |-> None, newfd |-> fd, ret |-> 0])
            /\ table' = [table EXCEPT ![p] = Without(@, fd)]
            /\ UNCHANGED <<threads, strayed>>
    BY DEF Close
  <1> DEFINE e == [kind |-> "dup", pid |-> p, oldfd |-> None, newfd |-> fd, ret |-> 0]
  <1>2. /\ p \in Pids /\ fd \in Fds
        /\ IsMap(table[p], Fds, {{}} \cup {{x} : x \in Policy})
    BY DEF CaptureInv, HostTypes, IsMap, Open, Alive
  <1>3. e \in Event
    BY <1>2 DEF Event
  <1>4. /\ Alive' = Alive
        /\ \A q \in Alive \ {p} : table'[q] = table[q]
        /\ table'[p] = Without(table[p], fd)
    BY <1>1 DEF Alive
  <1>5. /\ DOMAIN table'[p] = Open(p) \ {fd}
        /\ \A f \in Open(p) \ {fd} : table'[p][f] = table[p][f]
    BY <1>4 DEF Without, Keep, Open
  <1>6. HostTypes'
    <2>1. IsMap(table'[p], Fds, {{}} \cup {{x} : x \in Policy})
      BY <1>2, <1>4 DEF IsMap, Without, Keep
    <2> QED BY <1>1, <1>4, <2>1 DEF CaptureInv, HostTypes
  <1>7. \A key \in Keys :
            TablePolicies(key)' = IF key = <<p, fd>> THEN {} ELSE TablePolicies(key)
    <2> SUFFICES ASSUME NEW key \in Keys
                 PROVE  TablePolicies(key)' = IF key = <<p, fd>> THEN {} ELSE TablePolicies(key)
      OBVIOUS
    <2>1. key = <<key[1], key[2]>>
      BY DEF Keys
    <2>2. CASE key[1] = p
      BY <1>4, <1>5, <2>1, <2>2 DEF TablePolicies, Open
    <2>3. CASE key[1] \in Alive \ {p}
      BY <1>4, <2>3 DEF TablePolicies, Open
    <2>4. CASE key[1] \notin Alive
      BY <1>4, <2>4 DEF TablePolicies
    <2> QED BY <2>2, <2>3, <2>4
  <1>8. Leads(View, e, View')
    <2> SUFFICES ASSUME NEW m, Policies(m), NEW key \in Keys
                 PROVE  /\ Under(m, View) => Effect(m, e, key) \subseteq (View').allowed[key]
                        /\ Over(m, View) => (View').required[key] \subseteq Effect(m, e, key)
      BY <1>3, EffectLeads
    <2>1. Effect(m, e, key) = IF key # <<p, fd>> THEN PolicyOf(m, key) ELSE {}
      BY DEF Effect, Succeeds
    <2>2. CASE key # <<p, fd>>
      <3>1. /\ (View').allowed[key] = View.allowed[key]
            /\ (View').required[key] = View.required[key]
        BY <1>1, <1>7, <2>2, ViewIs
      <3> QED BY <2>1, <2>2, <3>1 DEF Under, Over
    <2>3. CASE key = <<p, fd>>
      <3>1. (View').required[key] = {}
        BY <1>7, <2>3, ViewIs
      <3> QED BY <2>1, <2>3, <3>1
    <2> QED BY <2>2, <2>3
  <1> QED BY <1>1, <1>3, <1>6, <1>8, ReportKeepsInv

LEMMA ExitKeepsInv ==
    ASSUME CaptureInv, NEW p \in Alive, Exit(p)
    PROVE  CaptureInv'
  <1> DEFINE e == [kind |-> "exit", pid |-> p]
  <1>1. /\ Call("proc", e)
        /\ table' = Without(table, p)
        /\ UNCHANGED <<threads, strayed>>
    BY DEF Exit
  <1>2. e \in Event
    BY DEF Event, CaptureInv, HostTypes, Alive
  <1>3. Alive' = Alive \ {p} /\ \A q \in Alive \ {p} : table'[q] = table[q]
    BY <1>1 DEF Alive, Without, Keep
  <1>4. HostTypes'
    BY <1>1, <1>3 DEF CaptureInv, HostTypes
  <1>5. \A key \in Keys : TablePolicies(key)' = IF key[1] = p THEN {} ELSE TablePolicies(key)
    BY <1>3 DEF TablePolicies, Open
  <1>6. Leads(View, e, View')
    <2> SUFFICES ASSUME NEW m, Policies(m), NEW key \in Keys
                 PROVE  /\ Under(m, View) => Effect(m, e, key) \subseteq (View').allowed[key]
                        /\ Over(m, View) => (View').required[key] \subseteq Effect(m, e, key)
      BY <1>2, EffectLeads
    <2>1. Effect(m, e, key) = IF key[1] = p THEN {} ELSE PolicyOf(m, key)
      BY DEF Effect
    <2>2. CASE key[1] # p
      <3>1. /\ (View').allowed[key] = View.allowed[key]
            /\ (View').required[key] = View.required[key]
        BY <1>1, <1>5, <2>2, ViewIs
      <3> QED BY <2>1, <2>2, <3>1 DEF Under, Over
    <2>3. CASE key[1] = p
      <3>1. (View').required[key] = {}
        BY <1>5, <2>3, ViewIs
      <3> QED BY <2>1, <2>3, <3>1
    <2> QED BY <2>2, <2>3
  <1> QED BY <1>1, <1>2, <1>4, <1>6, ReportKeepsInv

LEMMA EndThreadKeepsInv ==
    ASSUME CaptureInv, NEW p \in Alive, EndThread(p)
    PROVE  CaptureInv'
  <1> DEFINE e == [kind |-> "exit", pid |-> p]
  <1>1. /\ Call("proc", e)
        /\ DOMAIN threads' = DOMAIN threads
        /\ strayed' = strayed \cup {p} \X Fds
        /\ table' = table
    BY DEF EndThread
  <1>2. e \in Event /\ p \in Pids
    BY DEF Event, CaptureInv, HostTypes, Alive
  <1>3. HostTypes'
    <2>1. strayed' \subseteq Keys
      BY <1>1, <1>2 DEF CaptureInv, HostTypes, Keys
    <2> QED BY <1>1, <2>1 DEF CaptureInv, HostTypes, Alive
  <1>4. \A key \in Keys : TablePolicies(key)' = TablePolicies(key)
    BY <1>1 DEF TablePolicies, Alive, Open
  <1>5. Leads(View, e, View')
    <2> SUFFICES ASSUME NEW m, Policies(m), NEW key \in Keys
                 PROVE  /\ Under(m, View) => Effect(m, e, key) \subseteq (View').allowed[key]
                        /\ Over(m, View) => (View').required[key] \subseteq Effect(m, e, key)
      BY <1>2, EffectLeads
    <2>1. Effect(m, e, key) = IF key[1] = p THEN {} ELSE PolicyOf(m, key)
      BY DEF Effect
    <2>2. key[1] = p => key \in strayed'
      BY <1>1 DEF Keys
    <2>3. key \in strayed => key \in strayed'
      BY <1>1
    <2>4. /\ (View').allowed[key] = View.allowed[key]
          /\ (View').required[key] \subseteq IF key[1] = p THEN {} ELSE View.required[key]
      BY <1>1, <1>4, <2>2, <2>3, ViewIs
    <2> QED BY <2>1, <2>4 DEF Under, Over
  <1> QED BY <1>1, <1>2, <1>3, <1>5, ReportKeepsInv

\* Opening a free descriptor changes no policy.
LEMMA OpeningKeepsHost ==
    ASSUME CaptureInv, NEW p \in Alive, NEW fd \in Fds \ Open(p),
           table' = [table EXCEPT ![p] = Put(@, fd, {})], UNCHANGED <<threads, strayed>>
    PROVE  HostTypes' /\ View' = View
  <1>1. /\ Alive' = Alive
        /\ \A q \in Alive \ {p} : table'[q] = table[q]
        /\ table'[p] = Put(table[p], fd, {})
    BY DEF Alive
  <1>2. /\ DOMAIN table'[p] = Open(p) \cup {fd} /\ table'[p][fd] = {}
        /\ \A f \in Open(p) : table'[p][f] = table[p][f]
    BY <1>1 DEF Put, Open
  <1>3. HostTypes'
    <2>1. IsMap(table[p], Fds, {{}} \cup {{x} : x \in Policy})
      BY DEF CaptureInv, HostTypes
    <2>2. IsMap(table'[p], Fds, {{}} \cup {{x} : x \in Policy})
      BY <1>1, <2>1 DEF IsMap, Put
    <2> QED BY <1>1, <2>2 DEF CaptureInv, HostTypes
  <1>4. ASSUME NEW key \in Keys
        PROVE  TablePolicies(key)' = TablePolicies(key)
    <2>1. CASE key[1] = p
      BY <1>1, <1>2, <2>1 DEF TablePolicies, Open
    <2>2. CASE key[1] \in Alive \ {p}
      BY <1>1, <2>2 DEF TablePolicies, Open
    <2>3. CASE key[1] \notin Alive
      BY <1>1, <2>3 DEF TablePolicies
    <2> QED BY <2>1, <2>2, <2>3
  <1>5. Allowed' = Allowed /\ Required' = Required
    BY <1>4 DEF Allowed, Required
  <1> QED BY <1>3, <1>5 DEF View

LEMMA OpenFileKeepsInv ==
    ASSUME CaptureInv, NEW p \in Alive, OpenFile(p)
    PROVE  CaptureInv'
  <1>1. PICK fd \in Fds \ Open(p) :
            /\ Call("fs", [kind |-> "open", pid |-> p, ret |-> fd])
            /\ table' = [table EXCEPT ![p] = Put(@, fd, {})]
            /\ UNCHANGED <<threads, process_of, strayed>>
    BY DEF OpenFile
  <1> DEFINE e == [kind |-> "open", pid |-> p, ret |-> fd]
  <1>2. e \in Event
    BY DEF Event, CaptureInv, HostTypes, Alive
  <1>3. HostTypes' /\ View' = View
    BY <1>1, OpeningKeepsHost
  <1>4. DaemonTypes'
    BY <1>1, <1>2, CallKeepsDaemonTypes DEF CaptureInv
  <1>5. /\ rings'["proc"] = rings["proc"]
        /\ UNCHANGED <<now, mirror, commands, whitelist, worker, robbed, overtaken>>
    BY <1>1 DEF Call, CaptureInv, DaemonTypes
  <1>6. Chained'
    BY <1>3, <1>5, RestKeepsChain DEF CaptureInv
  <1>7. MirrorFollowed'
    BY <1>5, RestKeepsMirrorFollowed DEF CaptureInv
  <1> QED BY <1>3, <1>4, <1>6, <1>7 DEF CaptureInv

LEMMA OpenOtherKeepsInv ==
    ASSUME CaptureInv, NEW p \in Alive, OpenOther(p)
    PROVE  CaptureInv'
  <1>1. PICK fd \in Fds \ Open(p) :
            /\ table' = [table EXCEPT ![p] = Put(@, fd, {})]
            /\ UNCHANGED <<capture_vars, threads, process_of, strayed, overtaken>>
    BY DEF OpenOther
  <1>2. HostTypes' /\ View' = View
    BY <1>1, OpeningKeepsHost
  <1>3. UNCHANGED <<now, rings, mirror, commands, whitelist, worker, condemned, robbed, overtaken>>
    BY <1>1 DEF capture_vars
  <1>4. DaemonTypes'
    BY <1>3 DEF CaptureInv, DaemonTypes
  <1>5. Chained'
    BY <1>2, <1>3, RestKeepsChain DEF CaptureInv
  <1>6. MirrorFollowed'
    BY <1>3, RestKeepsMirrorFollowed DEF CaptureInv
  <1> QED BY <1>2, <1>4, <1>5, <1>6 DEF CaptureInv

LEMMA DupUnseenKeepsInv ==
    ASSUME CaptureInv, NEW p \in Alive, DupUnseen(p)
    PROVE  CaptureInv'
  <1>1. PICK oldfd \in Open(p), newfd \in Fds \ Open(p) :
            /\ table' = [table EXCEPT ![p] = Put(@, newfd, table[p][oldfd])]
            /\ strayed' = strayed \cup {<<p, newfd>>}
            /\ UNCHANGED <<capture_vars, threads, process_of, overtaken>>
    BY DEF DupUnseen
  <1>2. /\ p \in Pids /\ oldfd \in Fds
        /\ IsMap(table[p], Fds, {{}} \cup {{x} : x \in Policy})
    BY DEF CaptureInv, HostTypes, IsMap, Open, Alive
  <1>3. /\ Alive' = Alive
        /\ \A q \in Alive \ {p} : table'[q] = table[q]
        /\ table'[p] = Put(table[p], newfd, table[p][oldfd])
    BY <1>1 DEF Alive
  <1>4. /\ DOMAIN table'[p] = Open(p) \cup {newfd}
        /\ \A fd \in Open(p) : table'[p][fd] = table[p][fd]
    BY <1>3 DEF Put, Open
  <1>5. HostTypes'
    <2>1. IsMap(table'[p], Fds, {{}} \cup {{x} : x \in Policy})
      BY <1>2, <1>3 DEF IsMap, Put, Open
    <2>2. strayed' \subseteq Keys
      BY <1>1, <1>2 DEF CaptureInv, HostTypes, Keys
    <2> QED BY <1>1, <1>3, <2>1, <2>2 DEF CaptureInv, HostTypes
  <1>6. ASSUME NEW key \in Keys
        PROVE  /\ View.allowed[key] \subseteq (View').allowed[key]
               /\ (View').required[key] \subseteq View.required[key]
    <2>1. key = <<key[1], key[2]>>
      BY DEF Keys
    <2>2. CASE key = <<p, newfd>>
      <3>1. TablePolicies(key) = {} /\ key \in strayed'
        BY <1>1, <2>2 DEF TablePolicies
      <3> QED BY <1>1, <3>1, ViewIs
    <2>3. CASE key # <<p, newfd>>
      <3>1. TablePolicies(key)' = TablePolicies(key)
        <4>1. CASE key[1] = p
          BY <1>3, <1>4, <2>1, <2>3, <4>1 DEF TablePolicies, Open
        <4>2. CASE key[1] \in Alive \ {p}
          BY <1>3, <4>2 DEF TablePolicies, Open
        <4>3. CASE key[1] \notin Alive
          BY <1>3, <4>3 DEF TablePolicies
        <4> QED BY <4>1, <4>2, <4>3
      <3>2. key \in strayed => key \in strayed'
        BY <1>1
      <3> QED BY <1>1, <3>1, <3>2, ViewIs
    <2> QED BY <2>2, <2>3
  <1>7. UNCHANGED <<now, rings, mirror, commands, whitelist, worker, condemned, robbed, overtaken>>
    BY <1>1 DEF capture_vars
  <1>8. DaemonTypes'
    BY <1>7 DEF CaptureInv, DaemonTypes
  <1>9. Chained'
    BY <1>6, <1>7, LaxerKeepsChain DEF CaptureInv
  <1>10. MirrorFollowed'
    BY <1>7, RestKeepsMirrorFollowed DEF CaptureInv
  <1> QED BY <1>5, <1>8, <1>9, <1>10 DEF CaptureInv

LEMMA HostCallKeepsInv ==
    ASSUME CaptureInv, NEW p \in Alive, HostCall(p)
    PROVE  CaptureInv'
  BY ForkKeepsInv, ExecKeepsInv, ExitKeepsInv, DupKeepsInv, DupUnseenKeepsInv, DupFailsKeepsInv,
     CloseKeepsInv, OpenFileKeepsInv, OpenOtherKeepsInv, StartThreadKeepsInv, EndThreadKeepsInv DEF HostCall
-----------------------------------------------------------------------------
(* The daemon.                                                             *)

LEMMA ProspectIs ==
    \A key : /\ Prospect(key) = Decided(commands, key, PolicyOf(whitelist, key))
             /\ Prospect(key)' = Decided(commands', key, PolicyOf(whitelist', key))
  BY DEF Prospect, Decided

LEMMA ProspectIsPolicies ==
    ASSUME DaemonTypes, NEW key
    PROVE  Prospect(key) \subseteq Policy /\ PolicyOf(mirror, key) \subseteq Policy
  <1>1. \A i \in DOMAIN commands : commands[i].policy \subseteq Policy
    <2>1. commands \in Seq(Command)
      BY DEF DaemonTypes
    <2>2. \A i \in DOMAIN commands : commands[i] \in Command
      BY <2>1, LenProperties, ElementOfSeq
    <2>3. \A c \in Command : c.policy \subseteq Policy
      BY DEF Command
    <2> QED BY <2>2, <2>3
  <1>2. PolicyOf(whitelist, key) \subseteq Policy /\ PolicyOf(mirror, key) \subseteq Policy
    BY DEF DaemonTypes, Policies, IsMap, PolicyOf
  <1> QED BY <1>1, <1>2 DEF Prospect, LastAbout, About

\* What MirrorFollowed says of a key.
Told(key) == {p \in Prospect(key) : ~Expired(p)}
Meant(key) == {p \in PolicyOf(mirror, key) : ~Expired(p)}
Followed(key) == Told(key) \subseteq Meant(key) /\ (Told(key) = Meant(key) \/ Robbed(key))

LEMMA FollowedIs ==
    /\ MirrorFollowed <=> (worker = "running" => \A key \in Keys : Followed(key))
    /\ MirrorFollowed' <=> (worker' = "running" => \A key \in Keys : Followed(key)')
  BY DEF MirrorFollowed, Followed, Told, Meant

\* The handler of an event pushes what makes the worker follow.
LEMMA HandlerFollowed ==
    ASSUME DaemonTypes, MirrorFollowed, NEW done, Accounted(mirror, done),
           mirror' = done.mirror, commands' = commands \o done.push,
           UNCHANGED <<now, whitelist, worker, robbed>>
    PROVE  MirrorFollowed'
  <1> SUFFICES ASSUME worker = "running", NEW key \in Keys
               PROVE  Followed(key)'
    BY FollowedIs
  <1>1. commands \in Seq(Command) /\ done.push \in Seq(Command)
    BY DEF DaemonTypes, Accounted
  <1>2. Followed(key)
    BY FollowedIs
  <1>3. CASE About(done.push, key) = {} /\ PolicyOf(done.mirror, key) = PolicyOf(mirror, key)
    <2>1. \A base : Decided(commands', key, base) = Decided(commands, key, base)
      BY <1>1, <1>3, PushDecides
    <2>2. About(commands', key) = About(commands, key)
      BY <1>1, <1>3, PushDecides
    <2>3. Prospect(key)' = Prospect(key)
      BY <2>1, ProspectIs
    <2> QED BY <1>2, <1>3, <2>2, <2>3 DEF Followed, Told, Meant, Expired, Robbed
  <1>4. CASE \E i \in LastAbout(done.push, key) :
                done.push[i].policy = PolicyOf(done.mirror, key)
    <2>1. Prospect(key)' = PolicyOf(mirror', key)
      BY <1>1, <1>4, PushDecides, ProspectIs
    <2> QED BY <2>1 DEF Followed, Told, Meant, Expired
  <1> QED BY <1>3, <1>4 DEF Accounted

LEMMA ProcessKeepsInv ==
    ASSUME CaptureInv, NEW ring \in {"proc", "fs"}, Process(ring),
           overtaken' = (overtaken \/ OutOfTurn(ring)), UNCHANGED <<table, threads, strayed>>
    PROVE  CaptureInv'
  <1> DEFINE e == Head(rings[ring])
             done == Observed(mirror, e)
             n == Len(rings["proc"])
  <1>1. /\ rings[ring] # <<>>
        /\ mirror' = done.mirror
        /\ commands' = commands \o done.push
        /\ rings' = [rings EXCEPT ![ring] = Tail(@)]
        /\ UNCHANGED <<now, whitelist, worker, condemned, robbed>>
    BY DEF Process
  <1>2. /\ rings["proc"] \in Seq(Event) /\ rings["fs"] \in Seq(Event) /\ n \in Nat
        /\ e \in Event
        /\ Tail(rings[ring]) \in Seq(Event)
        /\ Len(Tail(rings[ring])) = Len(rings[ring]) - 1
        /\ \A i \in 1 .. Len(Tail(rings[ring])) : Tail(rings[ring])[i] = rings[ring][i + 1]
    BY <1>1, LenProperties, HeadTailProperties DEF CaptureInv, DaemonTypes
  <1>3. /\ Accounted(mirror, done)
        /\ \A key \in Keys : PolicyOf(done.mirror, key) = Effect(mirror, e, key)
    BY <1>2, ObservedEffect DEF CaptureInv, DaemonTypes
  <1>4. View' = View /\ HostTypes'
    BY DEF CaptureInv, View, Allowed, Required, TablePolicies, Alive, Open, HostTypes
  <1>5. DaemonTypes'
    <2>1. commands' \in Seq(Command)
      BY <1>1, <1>3, ConcatProperties DEF CaptureInv, DaemonTypes, Accounted
    <2>2. rings' \in [{"proc", "fs"} -> Seq(Event)]
      BY <1>1, <1>2 DEF CaptureInv, DaemonTypes
    <2>3. \A i \in 1 .. Len(rings'["fs"]) : rings'["fs"][i].kind = "open"
      <3>1. CASE ring = "fs"
        <4>1. rings'["fs"] = Tail(rings["fs"])
          BY <1>1, <3>1 DEF CaptureInv, DaemonTypes
        <4>2. Len(rings["fs"]) \in Nat
          BY <1>2, LenProperties
        <4>3. \A i \in 1 .. Len(Tail(rings["fs"])) : i + 1 \in 1 .. Len(rings["fs"])
          BY <1>2, <3>1, <4>2
        <4> QED BY <1>2, <3>1, <4>1, <4>3 DEF CaptureInv, DaemonTypes
      <3>2. CASE ring # "fs"
        <4>1. rings'["fs"] = rings["fs"]
          BY <1>1, <3>2 DEF CaptureInv, DaemonTypes
        <4> QED BY <4>1 DEF CaptureInv, DaemonTypes
      <3> QED BY <3>1, <3>2
    <2>4. overtaken' \in BOOLEAN
      BY DEF CaptureInv, DaemonTypes, OutOfTurn
    <2> QED BY <1>1, <1>3, <2>1, <2>2, <2>3, <2>4 DEF CaptureInv, DaemonTypes, Accounted
  <1>6. MirrorFollowed'
    BY <1>1, <1>3, HandlerFollowed DEF CaptureInv
  <1>7. PICK chain :
            /\ DOMAIN chain = 0 .. n
            /\ chain[n] = View
            /\ \A i \in 1 .. n : Leads(chain[i - 1], rings["proc"][i], chain[i])
            /\ Under(mirror, chain[0])
            /\ ~overtaken => Over(mirror, chain[0])
    BY DEF CaptureInv, Chained
  <1>8. Policies(mirror)
    BY DEF CaptureInv, DaemonTypes
  <1>9. CASE ring = "proc"
    <2>1. /\ Len(rings'["proc"]) = n - 1
          /\ \A i \in 1 .. (n - 1) : rings'["proc"][i] = rings["proc"][i + 1]
      BY <1>1, <1>2, <1>9 DEF CaptureInv, DaemonTypes
    <2>2. n > 0 /\ e = rings["proc"][1]
      BY <1>1, <1>2, <1>9, EmptySeq
    <2>3. overtaken' = overtaken
      BY <1>9 DEF OutOfTurn, CaptureInv, DaemonTypes
    <2> DEFINE next == [i \in 0 .. (n - 1) |-> chain[i + 1]]
    <2> HIDE DEF n, e
    <2>4. DOMAIN next = 0 .. (n - 1) /\ next[n - 1] = View /\ next[0] = chain[1]
      BY <1>2, <1>7, <2>2
    <2>5. ASSUME NEW i \in 1 .. (n - 1)
          PROVE  Leads(next[i - 1], rings'["proc"][i], next[i])
      <3>1. i - 1 \in 0 .. (n - 1) /\ i \in 0 .. (n - 1) /\ i + 1 \in 1 .. n /\ (i - 1) + 1 = i
        BY <1>2
      <3>2. next[i - 1] = chain[i] /\ next[i] = chain[i + 1]
        BY <3>1
      <3>3. Leads(chain[(i + 1) - 1], rings["proc"][i + 1], chain[i + 1])
        BY <1>7, <3>1
      <3>4. (i + 1) - 1 = i
        BY <1>2
      <3> QED BY <2>1, <3>2, <3>3, <3>4
    <2>6. Leads(chain[0], e, chain[1])
      <3>1. 1 \in 1 .. n /\ 1 - 1 = 0
        BY <1>2, <2>2
      <3> QED BY <1>7, <2>2, <3>1
    <2>7. Under(mirror', chain[1]) /\ (~overtaken' => Over(mirror', chain[1]))
      BY <1>1, <1>7, <1>8, <2>3, <2>6 DEF Leads
    <2>8. \E c : /\ DOMAIN c = 0 .. Len(rings'["proc"])
                 /\ c[Len(rings'["proc"])] = View'
                 /\ \A i \in 1 .. Len(rings'["proc"]) : Leads(c[i - 1], rings'["proc"][i], c[i])
                 /\ Under(mirror', c[0])
                 /\ ~overtaken' => Over(mirror', c[0])
      <3> HIDE DEF next
      <3> WITNESS next
      <3> QED BY <1>4, <2>1, <2>4, <2>5, <2>7
    <2>9. Chained'
      BY <2>8 DEF Chained
    <2> QED BY <1>4, <1>5, <1>6, <2>9 DEF CaptureInv
  <1>10. CASE ring = "fs"
    <2>1. rings'["proc"] = rings["proc"]
      BY <1>1, <1>10 DEF CaptureInv, DaemonTypes
    <2>2. e.kind = "open"
      <3>1. Len(rings["fs"]) \in Nat /\ Len(rings["fs"]) # 0 /\ e = rings["fs"][1]
        BY <1>1, <1>2, <1>10, EmptySeq
      <3>2. 1 \in 1 .. Len(rings["fs"])
        BY <3>1
      <3> QED BY <3>1, <3>2 DEF CaptureInv, DaemonTypes
    <2>3. \A key \in Keys :
              PolicyOf(mirror', key) = IF key = <<e.pid, e.ret>> THEN {} ELSE PolicyOf(mirror, key)
      BY <1>1, <1>3, <2>2 DEF Effect
    <2>4. ~overtaken' => ~overtaken /\ PolicyOf(mirror, <<e.pid, e.ret>>) = {}
      BY <1>10 DEF OutOfTurn, PolicyOf
    <2> HIDE DEF e
    <2>5. Under(mirror', chain[0]) /\ (~overtaken' => Over(mirror', chain[0]))
      BY <1>7, <2>3, <2>4 DEF Under, Over
    <2>6. Chained'
      BY <1>4, <1>7, <2>1, <2>5 DEF Chained
    <2> QED BY <1>4, <1>5, <1>6, <2>6 DEF CaptureInv
  <1> QED BY <1>9, <1>10

LEMMA ApplyKeepsInv ==
    ASSUME CaptureInv, ApplyCommand, UNCHANGED <<table, threads, strayed, overtaken>>
    PROVE  CaptureInv'
  <1> DEFINE c == Head(commands)
  <1>1. /\ worker = "running" /\ commands # <<>> /\ commands' = Tail(commands)
        /\ IF Refused(c) THEN worker' = "failed" /\ whitelist' = whitelist /\ robbed' = robbed
           ELSE /\ whitelist' = Applied(whitelist, c) /\ worker' = worker
                /\ robbed' = robbed \ {c.key}
        /\ UNCHANGED <<now, rings, mirror, condemned>>
    BY DEF ApplyCommand
  <1>2. commands \in Seq(Command) /\ c \in Command /\ Tail(commands) \in Seq(Command)
    BY <1>1, HeadTailProperties DEF CaptureInv, DaemonTypes
  <1>3. View' = View /\ HostTypes'
    BY DEF CaptureInv, View, Allowed, Required, TablePolicies, Alive, Open, HostTypes
  <1>4. Chained'
    BY <1>1, <1>3, RestKeepsChain DEF CaptureInv
  <1>5. CASE Refused(c)
    <2>1. DaemonTypes'
      BY <1>1, <1>2, <1>5 DEF CaptureInv, DaemonTypes
    <2>2. MirrorFollowed'
      BY <1>1, <1>5 DEF MirrorFollowed
    <2> QED BY <1>3, <1>4, <2>1, <2>2 DEF CaptureInv
  <1>6. CASE ~Refused(c)
    <2> HIDE DEF c
    <2>1. whitelist' = Applied(whitelist, c) /\ worker' = worker /\ robbed' = robbed \ {c.key}
      BY <1>1, <1>6
    <2>2. c.key \in Keys /\ (c.policy = {} \/ \E p \in Policy : c.policy = {p})
      BY <1>2 DEF Command
    <2>3. /\ Policies(whitelist) /\ Cardinality(DOMAIN whitelist) \in Nat
          /\ Cardinality(DOMAIN whitelist) <= WhitelistCapacity
          /\ WhitelistCapacity \in Nat
      BY FS_CardinalityType, CaptureAssumption DEF CaptureInv, DaemonTypes, Policies
    <2>4. /\ Policies(whitelist')
          /\ Cardinality(DOMAIN whitelist') <= WhitelistCapacity
          /\ \A key : PolicyOf(whitelist', key)
                         = IF c.key = key THEN c.policy ELSE PolicyOf(whitelist, key)
      <3>1. CASE c.policy = {}
        <4>1. whitelist' = Without(whitelist, c.key)
          BY <2>1, <3>1 DEF Applied
        <4>2. DOMAIN whitelist' = DOMAIN whitelist \ {c.key} /\ IsMap(whitelist', Keys, Policy)
          BY <2>3, <4>1 DEF Without, Keep, Policies, IsMap
        <4>3. /\ IsFiniteSet(DOMAIN whitelist')
              /\ Cardinality(DOMAIN whitelist') <= Cardinality(DOMAIN whitelist)
              /\ Cardinality(DOMAIN whitelist') \in Nat
          BY <2>3, <4>2, FS_Subset, FS_CardinalityType DEF Policies
        <4>4. \A key : PolicyOf(whitelist', key)
                         = IF c.key = key THEN {} ELSE PolicyOf(whitelist, key)
          BY <4>1 DEF Without, Keep, PolicyOf
        <4> QED BY <2>3, <3>1, <4>2, <4>3, <4>4 DEF Policies
      <3>2. CASE c.policy # {}
        <4>1. PICK p \in Policy : c.policy = {p}
          BY <2>2, <3>2
        <4>2. whitelist' = Put(whitelist, c.key, p)
          BY <2>1, <3>2, <4>1 DEF Applied
        <4>3. DOMAIN whitelist' = DOMAIN whitelist \cup {c.key} /\ IsMap(whitelist', Keys, Policy)
          BY <2>2, <2>3, <4>2 DEF Put, Policies, IsMap
        <4>4. \A key : PolicyOf(whitelist', key)
                         = IF c.key = key THEN {p} ELSE PolicyOf(whitelist, key)
          BY <4>2 DEF Put, PolicyOf
        <4>5. /\ IsFiniteSet(DOMAIN whitelist')
              /\ Cardinality(DOMAIN whitelist')
                    = IF c.key \in DOMAIN whitelist THEN Cardinality(DOMAIN whitelist)
                                                    ELSE Cardinality(DOMAIN whitelist) + 1
          BY <2>3, <4>3, FS_AddElement DEF Policies
        <4>6. c.key \in DOMAIN whitelist \/ ~(Cardinality(DOMAIN whitelist) >= WhitelistCapacity)
          BY <1>6, <3>2 DEF Refused
        <4>7. Cardinality(DOMAIN whitelist') <= WhitelistCapacity
          BY <2>3, <4>5, <4>6
        <4> QED BY <4>1, <4>3, <4>4, <4>5, <4>7 DEF Policies
      <3> QED BY <3>1, <3>2
    <2>5. DaemonTypes'
      BY <1>1, <1>2, <2>1, <2>4 DEF CaptureInv, DaemonTypes
    <2>6. ASSUME NEW key
          PROVE  Prospect(key)' = Prospect(key)
      <3>1. Prospect(key) = Decided(Tail(commands), key,
                               IF c.key = key THEN c.policy ELSE PolicyOf(whitelist, key))
        BY <1>1, <1>2, ApplyDecides, ProspectIs DEF c
      <3>2. Prospect(key)' = Decided(Tail(commands), key, PolicyOf(whitelist', key))
        BY <1>1, ProspectIs
      <3> QED BY <2>4, <3>1, <3>2
    <2>7. ASSUME NEW key, Robbed(key)
          PROVE  Robbed(key)'
      <3>1. About(Tail(commands), key) = {} /\ c.key # key
        BY <1>1, <1>2, <2>7, ApplyDecides DEF Robbed, c
      <3> QED BY <1>1, <2>1, <2>7, <3>1 DEF Robbed
    <2>8. MirrorFollowed'
      BY <1>1, <2>1, <2>6, <2>7 DEF CaptureInv, MirrorFollowed, Expired
    <2> QED BY <1>3, <1>4, <2>5, <2>8 DEF CaptureInv
  <1> QED BY <1>5, <1>6

LEMMA LookupKeepsInv ==
    ASSUME CaptureInv, NEW task \in Pids, NEW key, Lookup(task, key),
           UNCHANGED <<table, threads, strayed, overtaken>>
    PROVE  CaptureInv'
  <1> DEFINE it == [key |-> key, found |-> whitelist[key]]
  <1>1. /\ key \in DOMAIN whitelist /\ whitelist[key].expires < now
        /\ condemned' = Put(condemned, task, it)
        /\ UNCHANGED <<now, rings, mirror, commands, whitelist, worker, robbed>>
    BY DEF Lookup, Expired
  <1>2. View' = View /\ HostTypes'
    BY DEF CaptureInv, View, Allowed, Required, TablePolicies, Alive, Open, HostTypes
  <1>3. Chained' /\ MirrorFollowed'
    BY <1>1, <1>2, RestKeepsChain, RestKeepsMirrorFollowed DEF CaptureInv
  <1>4. it \in Found /\ it.found.expires < now
    BY <1>1 DEF CaptureInv, DaemonTypes, Policies, IsMap, Found
  <1> HIDE DEF it
  <1>5. IsMap(condemned', Pids, Found) /\ \A t \in DOMAIN condemned' : condemned'[t].found.expires < now
    BY <1>1, <1>4 DEF CaptureInv, DaemonTypes, IsMap, Put
  <1>6. DaemonTypes'
    BY <1>1, <1>5 DEF CaptureInv, DaemonTypes
  <1> QED BY <1>2, <1>3, <1>6 DEF CaptureInv

LEMMA DeleteFoundKeepsInv ==
    ASSUME CaptureInv, NEW task, DeleteFound(task),
           UNCHANGED <<table, threads, strayed, overtaken>>
    PROVE  CaptureInv'
  <1> DEFINE key == condemned[task].key
             found == condemned[task].found
  <1>1. /\ task \in DOMAIN condemned
        /\ whitelist' = Without(whitelist, key)
        /\ robbed' = IF PolicyOf(whitelist, key) \subseteq {found} THEN robbed ELSE robbed \cup {key}
        /\ condemned' = Without(condemned, task)
        /\ UNCHANGED <<now, rings, mirror, commands, worker>>
    BY DEF DeleteFound
  <1>2. View' = View /\ HostTypes'
    BY DEF CaptureInv, View, Allowed, Required, TablePolicies, Alive, Open, HostTypes
  <1>3. Chained'
    BY <1>1, <1>2, RestKeepsChain DEF CaptureInv
  <1>4. key \in Keys /\ found.expires < now
    BY <1>1 DEF CaptureInv, DaemonTypes, IsMap, Found
  <1> HIDE DEF key, found
  <1>5. DaemonTypes'
    <2>1. /\ Policies(whitelist) /\ Cardinality(DOMAIN whitelist) \in Nat
          /\ Cardinality(DOMAIN whitelist) <= WhitelistCapacity
          /\ WhitelistCapacity \in Nat
      BY FS_CardinalityType, CaptureAssumption DEF CaptureInv, DaemonTypes, Policies
    <2>2. DOMAIN whitelist' = DOMAIN whitelist \ {key} /\ IsMap(whitelist', Keys, Policy)
      BY <1>1, <2>1 DEF Without, Keep, Policies, IsMap
    <2>3. /\ IsFiniteSet(DOMAIN whitelist')
          /\ Cardinality(DOMAIN whitelist') <= Cardinality(DOMAIN whitelist)
          /\ Cardinality(DOMAIN whitelist') \in Nat
      BY <2>1, <2>2, FS_Subset, FS_CardinalityType DEF Policies
    <2>4. Policies(whitelist') /\ Cardinality(DOMAIN whitelist') <= WhitelistCapacity
      BY <2>1, <2>2, <2>3 DEF Policies
    <2>5. /\ IsMap(condemned', Pids, Found)
          /\ \A t \in DOMAIN condemned' : condemned'[t].found.expires < now
      BY <1>1 DEF CaptureInv, DaemonTypes, IsMap, Without, Keep
    <2>6. robbed' \subseteq Keys
      BY <1>1, <1>4 DEF CaptureInv, DaemonTypes
    <2> QED BY <1>1, <2>4, <2>5, <2>6 DEF CaptureInv, DaemonTypes
  <1>6. MirrorFollowed'
    <2> SUFFICES ASSUME worker = "running", NEW k \in Keys
                 PROVE  Followed(k)'
      BY <1>1, FollowedIs
    <2>1. Followed(k)
      BY FollowedIs DEF CaptureInv
    <2>2. Meant(k)' = Meant(k) /\ (Robbed(k) => Robbed(k)')
      BY <1>1 DEF Meant, Expired, Robbed
    <2>3. PolicyOf(whitelist', k) = IF k = key THEN {} ELSE PolicyOf(whitelist, k)
      BY <1>1 DEF Without, Keep, PolicyOf
    <2>4. CASE k # key \/ About(commands, k) # {}
      <3>1. Prospect(k)' = Prospect(k)
        BY <1>1, <2>3, <2>4 DEF Prospect
      <3>2. Told(k)' = Told(k)
        BY <1>1, <3>1 DEF Told, Expired
      <3> QED BY <2>1, <2>2, <3>2 DEF Followed
    <2>5. CASE k = key /\ About(commands, k) = {}
      <3>1. Told(k)' = {}
        BY <1>1, <2>3, <2>5 DEF Told, Prospect
      <3>2. CASE PolicyOf(whitelist, key) \subseteq {found}
        <4>1. Told(k) = {}
          BY <1>4, <2>5, <3>2 DEF Told, Prospect, Expired
        <4> QED BY <2>1, <2>2, <3>1, <4>1 DEF Followed
      <3>3. CASE ~(PolicyOf(whitelist, key) \subseteq {found})
        <4>1. Robbed(k)'
          BY <1>1, <2>5, <3>3 DEF Robbed
        <4> QED BY <3>1, <4>1 DEF Followed
      <3> QED BY <3>2, <3>3
    <2> QED BY <2>4, <2>5
  <1> QED BY <1>2, <1>3, <1>5, <1>6 DEF CaptureInv

LEMMA PassTimeKeepsInv ==
    ASSUME CaptureInv, PassTime, UNCHANGED <<table, threads, strayed, overtaken>>
    PROVE  CaptureInv'
  <1>1. /\ now < MaxTime /\ now' = now + 1
        /\ UNCHANGED <<rings, mirror, commands, whitelist, worker, condemned, robbed>>
    BY DEF PassTime
  <1>2. View' = View /\ HostTypes'
    BY DEF CaptureInv, View, Allowed, Required, TablePolicies, Alive, Open, HostTypes
  <1>3. Chained'
    BY <1>1, <1>2, RestKeepsChain DEF CaptureInv
  <1>4. now \in Nat /\ now' \in 0 .. MaxTime
    BY <1>1, CaptureAssumption DEF CaptureInv, DaemonTypes
  <1>5. \A p \in Policy : p.expires \in Int
    BY CaptureAssumption DEF Policy
  <1>6. \A p \in Policy : ~(p.expires < now + 1) => ~(p.expires < now)
    BY <1>4, <1>5
  <1>7. DaemonTypes'
    <2>1. \A task \in DOMAIN condemned : condemned[task].found \in Policy
      BY DEF CaptureInv, DaemonTypes, IsMap, Found
    <2>2. \A task \in DOMAIN condemned : condemned[task].found.expires < now'
      BY <1>1, <1>6, <2>1 DEF CaptureInv, DaemonTypes
    <2> QED BY <1>1, <1>4, <2>2 DEF CaptureInv, DaemonTypes
  <1>8. MirrorFollowed'
    <2> SUFFICES ASSUME worker = "running", NEW k \in Keys
                 PROVE  Followed(k)'
      BY <1>1, FollowedIs
    <2>1. Followed(k)
      BY FollowedIs DEF CaptureInv
    <2>2. Prospect(k) \subseteq Policy /\ PolicyOf(mirror, k) \subseteq Policy
      BY ProspectIsPolicies DEF CaptureInv
    <2>3. Told(k)' = {p \in Told(k) : ~(p.expires < now + 1)}
      BY <1>1, <1>6, <2>2 DEF Told, Expired, Prospect
    <2>4. Meant(k)' = {p \in Meant(k) : ~(p.expires < now + 1)}
      BY <1>1, <1>6, <2>2 DEF Meant, Expired
    <2>5. Robbed(k) => Robbed(k)'
      BY <1>1 DEF Robbed
    <2> QED BY <2>1, <2>3, <2>4, <2>5 DEF Followed
  <1> QED BY <1>2, <1>3, <1>7, <1>8 DEF CaptureInv

LEMMA CaptureInvInit == CaptureHostInit => CaptureInv
  <1> SUFFICES ASSUME CaptureHostInit PROVE CaptureInv
    OBVIOUS
  <1>1. /\ now = 0 /\ rings = [r \in {"proc", "fs"} |-> <<>>]
        /\ mirror = EmptyMap /\ commands = <<>> /\ whitelist = EmptyMap /\ worker = "running"
        /\ table = [p \in {First} |-> [fd \in StdFds |-> {}]]
        /\ threads = EmptyMap /\ strayed = {} /\ overtaken = FALSE
        /\ condemned = EmptyMap /\ robbed = {}
    BY DEF CaptureHostInit, CaptureInit
  <1>2. Policies(EmptyMap) /\ DOMAIN EmptyMap = {}
    BY FS_EmptySet DEF Policies, IsMap, EmptyMap
  <1>3. DaemonTypes
    <2>1. now \in 0 .. MaxTime
      BY <1>1, CaptureAssumption
    <2>2. rings \in [{"proc", "fs"} -> Seq(Event)] /\ Len(rings["fs"]) = 0
      BY <1>1, EmptySeq
    <2>3. commands \in Seq(Command)
      BY <1>1, EmptySeq
    <2>4. Cardinality(DOMAIN whitelist) <= WhitelistCapacity
      BY <1>1, <1>2, FS_EmptySet, CaptureAssumption
    <2>5. \A i \in 1 .. Len(rings["fs"]) : rings["fs"][i].kind = "open"
      BY <2>2
    <2>6. overtaken \in BOOLEAN /\ worker \in {"running", "failed"}
      BY <1>1
    <2>7. Policies(mirror) /\ Policies(whitelist)
      BY <1>1, <1>2
    <2>8. /\ IsMap(condemned, Pids, Found) /\ robbed \subseteq Keys
          /\ \A task \in DOMAIN condemned : condemned[task].found.expires < now
      BY <1>1 DEF IsMap, EmptyMap
    <2> QED BY <2>1, <2>2, <2>3, <2>4, <2>5, <2>6, <2>7, <2>8 DEF DaemonTypes
  <1>4. HostTypes
    BY <1>1, <1>2, CaptureAssumption, CaptureHostAssumption DEF HostTypes, Alive, IsMap
  <1>5. MirrorFollowed
    BY <1>1, <1>2 DEF MirrorFollowed, Prospect, About, PolicyOf
  <1>6. \A key \in Keys : TablePolicies(key) = {} /\ PolicyOf(mirror, key) = {}
    BY <1>1, <1>2 DEF TablePolicies, Open, Alive, PolicyOf
  <1>7. Under(mirror, View) /\ Over(mirror, View)
    BY <1>6, ViewIs DEF Under, Over
  <1>8. Chained
    <2> DEFINE chain == [i \in {0} |-> View]
    <2>1. Len(rings["proc"]) = 0
      BY <1>1, EmptySeq
    <2>2. DOMAIN chain = 0 .. 0 /\ chain[0] = View
      OBVIOUS
    <2> HIDE DEF chain
    <2>3. \E c : /\ DOMAIN c = 0 .. Len(rings["proc"])
                 /\ c[Len(rings["proc"])] = View
                 /\ \A i \in 1 .. Len(rings["proc"]) : Leads(c[i - 1], rings["proc"][i], c[i])
                 /\ Under(mirror, c[0])
                 /\ ~overtaken => Over(mirror, c[0])
      <3> WITNESS chain
      <3> QED BY <1>7, <2>1, <2>2
    <2> QED BY <2>3 DEF Chained
  <1> QED BY <1>3, <1>4, <1>5, <1>8 DEF CaptureInv

LEMMA CaptureInvNext ==
    ASSUME CaptureInv, [CaptureHostNext]_vars
    PROVE  CaptureInv'
  <1>1. CASE UNCHANGED vars
    <2>1. /\ UNCHANGED <<now, rings, mirror, commands, whitelist, worker, condemned, robbed>>
          /\ UNCHANGED <<table, threads, strayed, overtaken>>
      BY <1>1 DEF vars, capture_vars, host_vars
    <2>2. View' = View /\ HostTypes'
      BY <2>1 DEF CaptureInv, View, Allowed, Required, TablePolicies, Alive, Open, HostTypes
    <2>3. Chained' /\ MirrorFollowed'
      BY <2>1, <2>2, RestKeepsChain, RestKeepsMirrorFollowed DEF CaptureInv
    <2>4. DaemonTypes'
      BY <2>1 DEF CaptureInv, DaemonTypes
    <2> QED BY <2>2, <2>3, <2>4 DEF CaptureInv
  <1>2. CASE \E p \in Alive : HostCall(p)
    BY <1>2, HostCallKeepsInv
  <1>3. CASE Daemon
    <2>1. CASE \E ring \in DOMAIN rings :
                  Process(ring) /\ overtaken' = (overtaken \/ OutOfTurn(ring))
      <3>1. DOMAIN rings = {"proc", "fs"}
        BY DEF CaptureInv, DaemonTypes
      <3> QED BY <1>3, <2>1, <3>1, ProcessKeepsInv DEF Daemon
    <2>2. CASE /\ \/ ApplyCommand
                  \/ PassTime
                  \/ \E p \in Alive, fd \in Fds : \E task \in TasksOf(p) : Lookup(task, <<p, fd>>)
                  \/ \E task \in DOMAIN condemned : DeleteFound(task)
               /\ UNCHANGED overtaken
      <3>1. \A p \in Alive : TasksOf(p) \subseteq Pids
        BY DEF CaptureInv, HostTypes, TasksOf, RunningThreads
      <3> QED BY <1>3, <2>2, <3>1, ApplyKeepsInv, PassTimeKeepsInv, LookupKeepsInv,
                 DeleteFoundKeepsInv DEF Daemon
    <2> QED BY <1>3, <2>1, <2>2 DEF Daemon
  <1> QED BY <1>1, <1>2, <1>3 DEF CaptureHostNext

\* The inductive invariant of pipeline, worker and host: types, the whitelist
\* behind the commands, and the chain of views from the mirror to the kernel.
THEOREM CaptureInvariant == CaptureHostSpec => []CaptureInv
  BY CaptureInvInit, CaptureInvNext, PTL DEF CaptureHostSpec
-----------------------------------------------------------------------------
\* Rings, mirror, commands, whitelist and the descriptors' policies are
\* well-typed, the whitelist within its capacity, and no policy outlasts the
\* time of the last exec by more than CaptureTime.
THEOREM CaptureTypeCorrect == CaptureHostSpec => []CaptureTypeOK
  <1>1. CaptureInv => CaptureTypeOK
    <2> SUFFICES ASSUME CaptureInv PROVE CaptureTypeOK
      OBVIOUS
    <2>1. \A r \in DOMAIN rings : \A i \in DOMAIN rings[r] : rings[r][i] \in Event
      BY LenProperties, ElementOfSeq DEF CaptureInv, DaemonTypes
    <2>2. \A i \in DOMAIN commands : commands[i] \in Command
      BY LenProperties, ElementOfSeq DEF CaptureInv, DaemonTypes
    <2>3. \A i \in DOMAIN commands :
              /\ commands[i].key \in Keys
              /\ commands[i].policy \in {{}} \cup {{p} : p \in Policy}
      BY <2>2 DEF Command
    <2>4. DOMAIN rings = {"proc", "fs"}
      BY DEF CaptureInv, DaemonTypes
    <2> QED BY <2>1, <2>3, <2>4 DEF CaptureInv, DaemonTypes, HostTypes, Policies, CaptureTypeOK
  <1> QED BY <1>1, CaptureInvariant, PTL

\* Every edit of active_content_capture reaches the kernel's whitelist: with
\* the commands under way applied, nothing is in force that the mirror has not
\* in force, and the two agree but for the keys whose policy a hook deleted
\* after it had looked up an earlier one.
THEOREM WhitelistFollowsMirror == CaptureHostSpec => []MirrorFollowed
  <1>1. CaptureInv => MirrorFollowed
    BY DEF CaptureInv
  <1> QED BY <1>1, CaptureInvariant, PTL

\* Once the daemon has caught up, the mirror lies within the host's view.
LEMMA SettledView ==
    ASSUME CaptureInv, Settled
    PROVE  /\ Under(mirror, View)
           /\ ~overtaken => Over(mirror, View)
           /\ \A key \in Keys :
                 LET told  == {p \in PolicyOf(whitelist, key) : ~Expired(p)}
                     meant == {p \in PolicyOf(mirror, key) : ~Expired(p)}
                 IN  told \subseteq meant /\ (key \notin robbed => told = meant)
  <1>1. rings["proc"] = <<>> /\ commands = <<>> /\ worker = "running"
    BY DEF Settled, CaptureInv, DaemonTypes
  <1>2. Len(rings["proc"]) = 0
    BY <1>1, EmptySeq
  <1>3. Under(mirror, View) /\ (~overtaken => Over(mirror, View))
    BY <1>2 DEF CaptureInv, Chained
  <1>4. \A key : Prospect(key) = PolicyOf(whitelist, key)
    BY <1>1 DEF Prospect, About
  <1> QED BY <1>1, <1>3, <1>4 DEF CaptureInv, MirrorFollowed, Robbed

\* Once the daemon has caught up, what is captured came from a captured
\* descriptor and is still open under its policy: observe_content_capture_policy
\* leaves no policy on a reused descriptor or number.
THEOREM OnlyTheWantedIsCaptured == CaptureHostSpec => []NothingOvercaptured
  <1>1. CaptureInv => NothingOvercaptured
    <2> SUFFICES ASSUME CaptureInv, Settled, NEW k \in DOMAIN InForce(whitelist),
                        k[1] \notin DOMAIN threads
                 PROVE  Wanted(k[1], k[2]) /\ table[k[1]][k[2]] = {whitelist[k]}
      BY DEF NothingOvercaptured
    <2>1. k \in Keys /\ k \in DOMAIN whitelist /\ ~Expired(whitelist[k])
      BY DEF InForce, Keep, CaptureInv, DaemonTypes, Policies, IsMap
    <2>2. whitelist[k] \in PolicyOf(mirror, k)
      BY <2>1, SettledView DEF PolicyOf
    <2>3. whitelist[k] \in TablePolicies(k)
      BY <2>1, <2>2, SettledView, ViewIs DEF Under
    <2>4. k[1] \in Alive /\ k[2] \in Open(k[1]) /\ whitelist[k] \in table[k[1]][k[2]]
      BY <2>3 DEF TablePolicies
    <2>5. table[k[1]][k[2]] \in {{}} \cup {{x} : x \in Policy}
      BY <2>4 DEF CaptureInv, HostTypes, IsMap, Open
    <2> QED BY <2>4, <2>5 DEF Wanted
  <1> QED BY <1>1, CaptureInvariant, PTL

\* Once the daemon has caught up, every descriptor that came from a captured
\* one is captured while its policy is in force, but where it strayed, a hook
\* deleted a policy newer than the one it had looked up, or an open was
\* processed out of its turn (inherit_content_capture, dup_content_capture).
THEOREM TheWantedIsCaptured == CaptureHostSpec => []CaptureKept
  <1>1. CaptureInv => CaptureKept
    <2> SUFFICES ASSUME CaptureInv, Settled, ~overtaken,
                        NEW p \in Alive, NEW fd \in Open(p),
                        <<p, fd>> \notin strayed \cup robbed,
                        Wanted(p, fd), \A policy \in table[p][fd] : ~Expired(policy)
                 PROVE  /\ <<p, fd>> \in DOMAIN whitelist
                        /\ table[p][fd] = {whitelist[<<p, fd>>]}
      BY DEF CaptureKept, CaptureReaches
    <2> DEFINE k == <<p, fd>>
    <2>1. k \in Keys /\ table[p][fd] \in {{}} \cup {{x} : x \in Policy}
      BY DEF CaptureInv, HostTypes, IsMap, Open, Keys
    <2>2. PICK x \in Policy : table[p][fd] = {x} /\ ~Expired(x)
      BY <2>1 DEF Wanted
    <2>3. TablePolicies(k) = {x} /\ k \notin robbed
      BY <2>2 DEF TablePolicies
    <2> HIDE DEF k
    <2>4. x \in PolicyOf(mirror, k)
      BY <2>1, <2>3, SettledView, ViewIs DEF Over, k
    <2>5. x \in PolicyOf(whitelist, k)
      BY <2>1, <2>2, <2>3, <2>4, SettledView
    <2> QED BY <2>2, <2>5 DEF PolicyOf, k
  <1> QED BY <1>1, CaptureInvariant, PTL
=============================================================================
