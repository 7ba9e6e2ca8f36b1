------------------------------ MODULE IpcProofs ------------------------------
(***************************************************************************)
(* Theorems about IpcServer, for any topics, policies, capacities, limits  *)
(* and any number of frames.  The inductive invariant has four parts: the  *)
(* types; what the history knows of the frames sent; where the receivers   *)
(* of the client are; and what its pages have covered.                     *)
(***************************************************************************)
EXTENDS IpcServer, TLAPS, FiniteSetTheorems, SequenceTheorems,
        WellFoundedInduction

Queries == [topic : Topics, after : 0 .. MaxPublished, limit : Limits]

\* The types of the state, stronger than TypeOK in the shape of the functions.
Typed ==
    /\ next_cursor \in 1 .. MaxPublished + 1
    /\ history \in [Topics -> Seq(Cursors)]
    /\ \A t \in Topics : Len(history[t]) <= HistoryCapacity
    /\ sent \in [Topics -> Seq(Cursors)]
    /\ joined \in [Topics -> Nat]
    /\ rx \in [Topics -> Nat]
    /\ reported \in [Topics -> Nat]
    /\ received \in [Topics -> Seq(Cursors)]
    /\ paged \in [Topics -> SUBSET Cursors]
    /\ caught_up \in [Topics -> SUBSET (0 .. MaxPublished)]
    /\ sending \in {<<>>} \cup (Topics \X Cursors)
    /\ phase \in {"absent", "accepted", "serving", "QueueOverflow", "gone", "DecodeError"}
    /\ subscriptions \subseteq Topics
    /\ query \in {NoQuery} \cup Queries
    /\ query = NoQuery => wire = <<>>
-----------------------------------------------------------------------------
\* A set of naturals that is not empty has a least member.
LEMMA LeastNatural ==
    ASSUME NEW S \in SUBSET Nat, S # {}
    PROVE  \E m \in S : \A n \in S : m <= n
  <1> DEFINE R == OpToRel(<, Nat)
  <1>1. PICK m \in S : \A n \in S : ~(<<n, m>> \in R)
    <2> HIDE DEF R
    <2>1. IsWellFoundedOn(R, Nat)
      BY NatLessThanWellFounded DEF R
    <2> QED BY <2>1, WFMin
  <1>2. \A n \in S : m <= n
    <2> TAKE n \in S
    <2>1. ~(n < m)
      BY <1>1 DEF OpToRel
    <2> QED BY <2>1
  <1> QED BY <1>2

\* LastOf finds the greatest of the cursors.
LEMMA LastOfIsGreatest ==
    ASSUME NEW S \in SUBSET Cursors
    PROVE  /\ LastOf(S) \in 0 .. MaxPublished
           /\ \A c \in S : c <= LastOf(S)
           /\ S # {} => LastOf(S) \in S
  <1> USE IpcAssumption DEF Cursors
  <1>0. \A c \in S : c \in Nat /\ 1 <= c /\ c <= MaxPublished
    OBVIOUS
  <1>1. CASE S = {}
    BY <1>1 DEF LastOf
  <1>2. CASE S # {}
    <2> DEFINE below == {MaxPublished - c : c \in S}
    <2>1. below \in SUBSET Nat /\ below # {}
      <3>1. \A c \in S : MaxPublished - c \in Nat
        BY <1>0
      <3> QED BY <1>2, <3>1
    <2>2. PICK m \in below : \A n \in below : m <= n
      BY <2>1, LeastNatural
    <2>3. PICK c \in S : m = MaxPublished - c
      OBVIOUS
    <2>4. \A d \in S : d <= c
      <3> TAKE d \in S
      <3>1. m <= MaxPublished - d
        BY <2>2
      <3> QED BY <1>0, <2>3, <3>1
    <2>5. LastOf(S) = CHOOSE c_1 \in S : \A d \in S : d <= c_1
      BY <1>2 DEF LastOf
    <2>6. LastOf(S) \in S /\ \A d \in S : d <= LastOf(S)
      BY <2>4, <2>5
    <2>7. /\ LastOf(S) \in Nat
          /\ LastOf(S) <= MaxPublished
      BY <1>0, <2>6
    <2>8. LastOf(S) \in 0 .. MaxPublished
      BY <2>7
    <2> QED BY <2>6, <2>8
  <1> QED BY <1>1, <1>2

\* A page lists what was found from its beginning, and when it is short of its
\* limit, all of it.
LEMMA TakeIsInitial ==
    ASSUME NEW found \in SUBSET Nat, IsFiniteSet(found), NEW limit \in Nat,
           NEW i \in Take(found, limit), NEW j \in found, j < i
    PROVE  j \in Take(found, limit)
  <1> DEFINE earlier(x) == {y \in found : y < x}
  <1>1. earlier(i) \in SUBSET found /\ earlier(j) \in SUBSET earlier(i)
    <2>1. i \in Nat /\ j \in Nat /\ \A y \in found : y \in Nat
      BY DEF Take
    <2>2. \A y \in found : y < j => y < i
      BY <2>1
    <2> QED BY <2>2
  <1>2. IsFiniteSet(earlier(i))
    BY <1>1, FS_Subset
  <1>3. Cardinality(earlier(j)) <= Cardinality(earlier(i)) /\ IsFiniteSet(earlier(j))
    BY <1>1, <1>2, FS_Subset
  <1>4. Cardinality(earlier(i)) \in Nat /\ Cardinality(earlier(j)) \in Nat
    BY <1>2, <1>3, FS_CardinalityType
  <1>5. Cardinality(earlier(i)) < limit
    BY DEF Take
  <1>6. Cardinality(earlier(j)) < limit
    BY <1>3, <1>4, <1>5
  <1> QED BY <1>6 DEF Take

LEMMA ShortPageIsWhole ==
    ASSUME NEW found \in SUBSET Nat, IsFiniteSet(found), NEW limit \in Nat,
           Cardinality(Take(found, limit)) < limit
    PROVE  found \subseteq Take(found, limit)
  <1> DEFINE page == Take(found, limit)
             left == found \ page
             earlier(x) == {y \in found : y < x}
  <1> SUFFICES ASSUME left # {} PROVE FALSE
    OBVIOUS
  <1>1. PICK i \in left : \A j \in left : i <= j
    BY LeastNatural
  <1>2. earlier(i) \in SUBSET page
    <2>1. i \in Nat /\ \A y \in found : y \in Nat
      OBVIOUS
    <2>2. \A y \in found : y < i => y \notin left
      BY <1>1, <2>1
    <2> QED BY <2>2
  <1>3. page \in SUBSET found
    BY DEF Take
  <1>4. IsFiniteSet(page)
    BY <1>3, FS_Subset
  <1>5. IsFiniteSet(earlier(i)) /\ Cardinality(earlier(i)) <= Cardinality(page)
    BY <1>2, <1>4, FS_Subset
  <1>6. Cardinality(earlier(i)) \in Nat /\ Cardinality(page) \in Nat
    BY <1>4, <1>5, FS_CardinalityType
  <1>7. ~(Cardinality(earlier(i)) < limit)
    BY <1>1 DEF Take
  <1> QED BY <1>5, <1>6, <1>7
-----------------------------------------------------------------------------
\* push_bounded keeps the order, gives up at most the oldest item, and ends in
\* the new one.
LEMMA PushBoundedKeeps ==
    ASSUME NEW q \in Seq(Cursors), Len(q) <= HistoryCapacity, NEW c \in Cursors
    PROVE  /\ PushBounded(q, c) \in Seq(Cursors)
           /\ Len(PushBounded(q, c)) \in 1 .. HistoryCapacity
           /\ PushBounded(q, c)[Len(PushBounded(q, c))] = c
           /\ \E d \in {0, 1} :
                 /\ Len(PushBounded(q, c)) = Len(q) + 1 - d
                 /\ \A i \in 1 .. Len(q) - d : PushBounded(q, c)[i] = q[i + d]
  <1>1. CASE Len(q) >= HistoryCapacity
    <2>1. q # <<>>
      BY <1>1, IpcAssumption
    <2>2. /\ Tail(q) \in Seq(Cursors)
          /\ Len(Tail(q)) = Len(q) - 1
          /\ \A i \in 1 .. Len(q) - 1 : Tail(q)[i] = q[i + 1]
      BY <2>1, HeadTailProperties
    <2>3. PushBounded(q, c) = Append(Tail(q), c)
      BY <1>1 DEF PushBounded
    <2> HIDE DEF Cursors
    <2> QED BY <1>1, <2>2, <2>3, IpcAssumption
  <1>2. CASE ~(Len(q) >= HistoryCapacity)
    <2>1. PushBounded(q, c) = Append(q, c)
      BY <1>2 DEF PushBounded
    <2> QED BY <1>2, <2>1, IpcAssumption
  <1> QED BY <1>1, <1>2

\* The types are an invariant.
LEMMA TypedInit == Init => Typed
  BY IpcAssumption DEF Init, Typed, Cursors

LEMMA TypedNext ==
    ASSUME Typed, [Next]_vars
    PROVE  Typed'
  <1> USE IpcAssumption DEF Typed
  <1>1. ASSUME NEW t \in Topics, Publish(t)
        PROVE  Typed'
    <2>1. next_cursor \in Cursors /\ next_cursor' \in 1 .. MaxPublished + 1
      BY <1>1 DEF Publish, Cursors
    <2>2. history' = [history EXCEPT ![t] = PushBounded(@, next_cursor)] /\ UNCHANGED sent
      BY <1>1 DEF Publish, PublishStep, PublishOrder
    <2>3. /\ PushBounded(history[t], next_cursor) \in Seq(Cursors)
          /\ Len(PushBounded(history[t], next_cursor)) <= HistoryCapacity
      BY <2>1, PushBoundedKeeps
    <2>4. /\ history' \in [Topics -> Seq(Cursors)]
          /\ \A u \in Topics : Len(history'[u]) <= HistoryCapacity
      BY <2>2, <2>3
    <2>5. sending' \in Topics \X Cursors
      BY <1>1, <2>1 DEF Publish
    <2> QED BY <1>1, <2>1, <2>2, <2>4, <2>5 DEF Publish, channels, requests
  <1>2. CASE FinishPublishing
    <2>1. sent' = [sent EXCEPT ![sending[1]] = Append(@, sending[2])] /\ UNCHANGED history
      BY <1>2 DEF FinishPublishing, PublishStep, PublishOrder
    <2>2. sending[1] \in Topics /\ sending[2] \in Cursors
      BY <1>2 DEF FinishPublishing
    <2>3. sent' \in [Topics -> Seq(Cursors)]
      BY <2>1, <2>2
    <2> QED BY <1>2, <2>1, <2>3 DEF FinishPublishing, channels, requests
  <1>3. CASE Accept
    <2>1. joined' \in [Topics -> Nat] /\ rx' \in [Topics -> Nat]
      BY <1>3 DEF Accept
    <2> QED BY <1>3, <2>1 DEF Accept, published, requests
  <1>4. CASE Hello
    BY <1>4 DEF Hello, published, channels, requests
  <1>5. CASE Disconnect
    BY <1>5 DEF Disconnect, published, channels, requests
  <1>6. ASSUME NEW t \in Topics, Receive(t)
        PROVE  Typed'
    <2>1. rx[t] + 1 \in 1 .. Len(sent[t])
      BY <1>6 DEF Receive, Waiting
    <2>2. sent[t][rx[t] + 1] \in Cursors
      BY <2>1
    <2>3. rx' \in [Topics -> Nat] /\ received' \in [Topics -> Seq(Cursors)]
      BY <1>6, <2>2 DEF Receive
    <2> QED BY <1>6, <2>3 DEF Receive, DropRead, published
  <1>7. ASSUME NEW t \in Topics, Lag(t)
        PROVE  Typed'
    <2>1. Skipped(t) \in Nat
      BY <1>7 DEF Lag, Behind, Skipped
    <2>2. rx' \in [Topics -> Nat]
      BY <1>7, <2>1 DEF Lag
    <2>3. reported' \in [Topics -> Nat] /\ phase' \in {phase, "QueueOverflow"}
      <3>1. CASE phase' = "QueueOverflow" /\ UNCHANGED reported
        BY <3>1
      <3>2. CASE reported' = [reported EXCEPT ![t] = @ + Skipped(t)] /\ UNCHANGED phase
        BY <2>1, <3>2
      <3> QED BY <1>7, <3>1, <3>2 DEF Lag, HandleLagged
    <2> QED BY <1>7, <2>2, <2>3 DEF Lag, DropRead, published
  <1>8. ASSUME NEW t \in Topics, NEW limit \in Limits, WriteQuery(t, limit)
        PROVE  Typed'
    <2>1. LastOf(paged[t]) \in 0 .. MaxPublished
      BY LastOfIsGreatest
    <2>2. query' \in Queries
      BY <1>8, <2>1 DEF WriteQuery, Queries
    <2>3. query' # NoQuery
      BY <1>8 DEF WriteQuery, NoQuery
    <2> QED BY <1>8, <2>2, <2>3 DEF WriteQuery, published, channels
  <1>9. CASE WriteRest
    BY <1>9 DEF WriteRest, published, channels
  <1>10. CASE ReadPart
    BY <1>10 DEF ReadPart, published, channels
  <1>11. CASE ReadLine
    <2>1. query \in Queries /\ wire' = <<>>
      BY <1>11 DEF ReadLine
    <2>2. CASE Reply(HistoryItems(query.topic, query.after, query.limit)) /\ query' = NoQuery
               /\ UNCHANGED phase
      <3> DEFINE page == HistoryItems(query.topic, query.after, query.limit)
                 got == paged[query.topic] \cup {history[query.topic][i] : i \in page}
      <3>1. query.topic \in Topics
        BY <2>1 DEF Queries
      <3>2. page \subseteq DOMAIN history[query.topic]
        BY DEF HistoryItems, Take
      <3>3. \A i \in DOMAIN history[query.topic] : history[query.topic][i] \in Cursors
        BY <3>1
      <3>4. got \in SUBSET Cursors
        BY <3>1, <3>2, <3>3
      <3>5. LastOf(got) \in 0 .. MaxPublished
        BY <3>4, LastOfIsGreatest
      <3>6. paged' \in [Topics -> SUBSET Cursors]
        BY <2>2, <3>1, <3>4 DEF Reply
      <3>7. caught_up' \in [Topics -> SUBSET (0 .. MaxPublished)]
        BY <2>2, <3>1, <3>5 DEF Reply
      <3> QED BY <1>11, <2>1, <2>2, <3>6, <3>7 DEF ReadLine, published, channels
    <2>3. CASE phase' = "DecodeError" /\ UNCHANGED <<query, paged, caught_up>>
      BY <1>11, <2>1, <2>3 DEF ReadLine, published, channels
    <2> QED BY <1>11, <2>2, <2>3 DEF ReadLine
  <1>12. CASE UNCHANGED vars
    BY <1>12 DEF vars, published, channels, requests
  <1> QED BY <1>1, <1>2, <1>3, <1>4, <1>5, <1>6, <1>7, <1>8, <1>9, <1>10, <1>11, <1>12 DEF Next
-----------------------------------------------------------------------------
\* The history of a topic is in order and has reached a frame: its last item is
\* not older.
Ordered(q) == \A i, j \in 1 .. Len(q) : i < j => q[i] < q[j]
Reaches(q, c) == Len(q) > 0 /\ c <= q[Len(q)]

\* Everything that was sent, or is about to be, has been in the history.
Recorded ==
    /\ \A t \in Topics :
          /\ Ordered(history[t])
          /\ \A i \in 1 .. Len(history[t]) : history[t][i] < next_cursor
          /\ \A i \in 1 .. Len(sent[t]) : Reaches(history[t], sent[t][i])
    /\ sending # <<>> => Reaches(history[sending[1]], sending[2])

\* Pushing a cursor that is newer than all there are keeps the order, and the
\* history has reached what it had reached and the new one.
LEMMA PushBoundedOrdered ==
    ASSUME NEW q \in Seq(Cursors), Len(q) <= HistoryCapacity, Ordered(q), NEW c \in Cursors,
           \A i \in 1 .. Len(q) : q[i] < c
    PROVE  /\ Ordered(PushBounded(q, c))
           /\ \A i \in 1 .. Len(PushBounded(q, c)) : PushBounded(q, c)[i] < c + 1
           /\ \A b \in Cursors : Reaches(q, b) \/ b = c => Reaches(PushBounded(q, c), b)
  <1> DEFINE p == PushBounded(q, c)
  <1> USE DEF Cursors
  <1>1. p \in Seq(Cursors) /\ Len(p) \in Nat /\ 1 <= Len(p) /\ p[Len(p)] = c
    BY PushBoundedKeeps, IpcAssumption
  <1>2. PICK d \in {0, 1} : /\ Len(p) = Len(q) + 1 - d
                            /\ \A i \in 1 .. Len(q) - d : p[i] = q[i + d]
    BY PushBoundedKeeps
  <1>3. c \in Nat /\ Len(q) \in Nat /\ \A i \in 1 .. Len(q) : q[i] \in Nat
    BY IpcAssumption
  <1> HIDE DEF p
  <1>4. \A i \in 1 .. Len(p) - 1 : p[i] = q[i + d] /\ i + d \in 1 .. Len(q)
    BY <1>1, <1>2, <1>3
  <1>5. Ordered(p)
    <2> SUFFICES ASSUME NEW i \in 1 .. Len(p), NEW j \in 1 .. Len(p), i < j
                 PROVE  p[i] < p[j]
      BY DEF Ordered
    <2>1. i \in 1 .. Len(p) - 1
      BY <1>1
    <2>2. CASE j = Len(p)
      BY <1>1, <1>4, <2>1, <2>2
    <2>3. CASE j # Len(p)
      <3>1. j \in 1 .. Len(p) - 1
        BY <1>1, <2>3
      <3>2. i + d < j + d
        BY <1>1
      <3> QED BY <1>4, <2>1, <3>1, <3>2 DEF Ordered
    <2> QED BY <2>2, <2>3
  <1>6. \A i \in 1 .. Len(p) : p[i] < c + 1
    <2> SUFFICES ASSUME NEW i \in 1 .. Len(p)
                 PROVE  p[i] < c + 1
      OBVIOUS
    <2>1. CASE i = Len(p)
      BY <1>1, <1>3, <2>1
    <2>2. CASE i # Len(p)
      <3>1. i \in 1 .. Len(p) - 1
        BY <1>1, <2>2
      <3>2. p[i] \in Nat /\ p[i] < c
        BY <1>3, <1>4, <3>1
      <3> QED BY <1>3, <3>2
    <2> QED BY <2>1, <2>2
  <1>7. \A b \in Cursors : Reaches(q, b) \/ b = c => Reaches(p, b)
    <2> SUFFICES ASSUME NEW b \in Cursors, Reaches(q, b) \/ b = c
                 PROVE  b <= c
      BY <1>1 DEF Reaches
    <2>1. CASE b = c
      BY <1>3, <2>1
    <2>2. CASE Reaches(q, b)
      BY <1>3, <2>2 DEF Reaches
    <2> QED BY <2>1, <2>2
  <1> QED BY <1>5, <1>6, <1>7 DEF p

LEMMA RecordedInit == Init => Recorded
  BY DEF Init, Recorded, Ordered

LEMMA RecordedNext ==
    ASSUME Typed, Recorded, [Next]_vars
    PROVE  Recorded'
  <1> USE IpcAssumption
  <1>1. ASSUME NEW t \in Topics, Publish(t)
        PROVE  Recorded'
    <2>1. next_cursor \in Cursors /\ next_cursor' = next_cursor + 1
      BY <1>1 DEF Publish, Typed, Cursors
    <2>2. history' = [history EXCEPT ![t] = PushBounded(@, next_cursor)] /\ UNCHANGED sent
      BY <1>1 DEF Publish, PublishStep, PublishOrder
    <2>3. sending' = <<t, next_cursor>>
      BY <1>1 DEF Publish
    <2>4. history'[t] = PushBounded(history[t], next_cursor)
      BY <2>2 DEF Typed
    <2>5. /\ history[t] \in Seq(Cursors) /\ Len(history[t]) <= HistoryCapacity
          /\ Ordered(history[t]) /\ \A i \in 1 .. Len(history[t]) : history[t][i] < next_cursor
      BY DEF Typed, Recorded
    <2>6. /\ Ordered(history'[t])
          /\ \A i \in 1 .. Len(history'[t]) : history'[t][i] < next_cursor'
          /\ \A b \in Cursors : Reaches(history[t], b) \/ b = next_cursor => Reaches(history'[t], b)
      BY <2>1, <2>4, <2>5, PushBoundedOrdered
    <2>7. ASSUME NEW u \in Topics
          PROVE  /\ Ordered(history'[u])
                 /\ \A i \in 1 .. Len(history'[u]) : history'[u][i] < next_cursor'
                 /\ \A i \in 1 .. Len(sent'[u]) : Reaches(history'[u], sent'[u][i])
      <3>1. CASE u = t
        <4>1. \A i \in 1 .. Len(sent[t]) : sent[t][i] \in Cursors /\ Reaches(history[t], sent[t][i])
          BY DEF Typed, Recorded
        <4> QED BY <2>2, <2>6, <3>1, <4>1
      <3>2. CASE u # t
        <4>1. history'[u] = history[u] /\ sent'[u] = sent[u]
          BY <2>2, <3>2 DEF Typed
        <4>2. \A i \in 1 .. Len(history[u]) : history[u][i] < next_cursor + 1
          <5>1. \A i \in 1 .. Len(history[u]) : history[u][i] \in Nat
            <6>1. history[u] \in Seq(Cursors)
              BY DEF Typed
            <6>2. \A c \in Cursors : c \in Nat
              BY DEF Cursors
            <6> QED BY <6>1, <6>2, ElementOfSeq
          <5>2. \A i \in 1 .. Len(history[u]) : history[u][i] < next_cursor
            BY DEF Recorded
          <5>3. next_cursor \in Nat
            BY DEF Typed
          <5> QED BY <5>1, <5>2, <5>3
        <4> QED BY <2>1, <4>1, <4>2 DEF Recorded
      <3> QED BY <3>1, <3>2
    <2>8. Reaches(history'[sending'[1]], sending'[2])
      BY <2>1, <2>3, <2>6
    <2> QED BY <2>7, <2>8 DEF Recorded
  <1>2. CASE FinishPublishing
    <2>1. sent' = [sent EXCEPT ![sending[1]] = Append(@, sending[2])] /\ UNCHANGED history
      BY <1>2 DEF FinishPublishing, PublishStep, PublishOrder
    <2>2. sending[1] \in Topics /\ sending[2] \in Cursors /\ Reaches(history[sending[1]], sending[2])
      BY <1>2 DEF FinishPublishing, Typed, Recorded
    <2>3. ASSUME NEW u \in Topics, NEW i \in 1 .. Len(sent'[u])
          PROVE  Reaches(history[u], sent'[u][i])
      <3>1. CASE u = sending[1]
        <4>1. sent'[u] = Append(sent[u], sending[2]) /\ sent[u] \in Seq(Cursors)
          BY <2>1, <3>1 DEF Typed
        <4>2. i \in 1 .. Len(sent[u]) \/ sent'[u][i] = sending[2]
          BY <4>1
        <4>3. i \in 1 .. Len(sent[u]) => sent'[u][i] = sent[u][i]
          BY <4>1
        <4> QED BY <2>2, <3>1, <4>2, <4>3 DEF Recorded
      <3>2. CASE u # sending[1]
        BY <2>1, <3>2 DEF Typed, Recorded
      <3> QED BY <3>1, <3>2
    <2>4. next_cursor' = next_cursor /\ sending' = <<>>
      BY <1>2 DEF FinishPublishing
    <2> QED BY <2>1, <2>3, <2>4 DEF Recorded
  <1>3. CASE UNCHANGED published
    BY <1>3 DEF published, Recorded
  <1>4. CASE Accept \/ Hello \/ Disconnect \/ WriteRest \/ ReadPart \/ ReadLine \/ UNCHANGED vars
    BY <1>3, <1>4 DEF Accept, Hello, Disconnect, WriteRest, ReadPart, ReadLine, vars
  <1>5. ASSUME NEW t \in Topics, Receive(t) \/ Lag(t)
        PROVE  Recorded'
    BY <1>3, <1>5 DEF Receive, Lag
  <1>6. ASSUME NEW t \in Topics, NEW limit \in Limits, WriteQuery(t, limit)
        PROVE  Recorded'
    BY <1>3, <1>6 DEF WriteQuery
  <1> QED BY <1>1, <1>2, <1>4, <1>5, <1>6 DEF Next
-----------------------------------------------------------------------------
\* Where the receivers are: nothing is missed in silence while the client is
\* served, and nothing has been taken before that.
Accounted ==
    \A t \in Topics :
        /\ joined[t] <= rx[t] /\ rx[t] <= Len(sent[t])
        /\ phase \in {"absent", "accepted"} =>
              received[t] = <<>> /\ reported[t] = 0 /\ rx[t] = joined[t]
        /\ phase = "serving" =>
              /\ Len(received[t]) + reported[t] = rx[t] - joined[t]
              /\ Overflow[t] = "DropClientOnLag" =>
                    received[t] = SubSeq(sent[t], joined[t] + 1, rx[t])

\* What has been taken from a channel does not change when frames are appended.
LEMMA SubSeqOfAppend ==
    ASSUME NEW s \in Seq(Cursors), NEW c \in Cursors, NEW m \in Nat, NEW n \in Nat, n <= Len(s)
    PROVE  SubSeq(Append(s, c), m + 1, n) = SubSeq(s, m + 1, n)
  <1> DEFINE a == SubSeq(Append(s, c), m + 1, n)
             b == SubSeq(s, m + 1, n)
  <1> HIDE DEF Cursors
  <1>1. \A i \in m + 1 .. n : s[i] \in Cursors /\ Append(s, c)[i] = s[i]
    OBVIOUS
  <1>2. /\ b \in Seq(Cursors)
        /\ Len(b) = IF m + 1 <= n THEN n - (m + 1) + 1 ELSE 0
        /\ \A i \in 1 .. n - (m + 1) + 1 : b[i] = s[(m + 1) + i - 1]
    BY <1>1, SubSeqProperties
  <1>3. /\ a \in Seq(Cursors)
        /\ Len(a) = IF m + 1 <= n THEN n - (m + 1) + 1 ELSE 0
        /\ \A i \in 1 .. n - (m + 1) + 1 : a[i] = Append(s, c)[(m + 1) + i - 1]
    BY <1>1, SubSeqProperties
  <1> HIDE DEF a, b
  <1>4. Len(a) = Len(b) /\ \A i \in 1 .. Len(a) : a[i] = b[i]
    BY <1>1, <1>2, <1>3
  <1>5. a = b
    BY <1>2, <1>3, <1>4, SeqEqual
  <1> QED BY <1>5 DEF a, b

\* Taking the next frame lengthens it by that frame.
LEMMA SubSeqByOne ==
    ASSUME NEW s \in Seq(Cursors), NEW m \in Nat, NEW n \in Nat, m <= n, n + 1 <= Len(s)
    PROVE  SubSeq(s, m + 1, n + 1) = Append(SubSeq(s, m + 1, n), s[n + 1])
  <1> DEFINE a == SubSeq(s, m + 1, n + 1)
             b == SubSeq(s, m + 1, n)
  <1> HIDE DEF Cursors
  <1>1. \A i \in m + 1 .. n + 1 : s[i] \in Cursors
    OBVIOUS
  <1>2. /\ a \in Seq(Cursors)
        /\ Len(a) = n + 1 - m
        /\ \A i \in 1 .. n + 1 - m : a[i] = s[m + i]
    BY <1>1, SubSeqProperties
  <1>3. /\ b \in Seq(Cursors)
        /\ Len(b) = n - m
        /\ \A i \in 1 .. n - m : b[i] = s[m + i]
    BY <1>1, SubSeqProperties
  <1>4. s[n + 1] \in Cursors
    BY <1>1
  <1> HIDE DEF a, b
  <1>5. /\ Append(b, s[n + 1]) \in Seq(Cursors)
        /\ Len(Append(b, s[n + 1])) = Len(a)
        /\ \A i \in 1 .. Len(a) : a[i] = Append(b, s[n + 1])[i]
    BY <1>2, <1>3, <1>4
  <1>6. a = Append(b, s[n + 1])
    BY <1>2, <1>5, SeqEqual
  <1> QED BY <1>6 DEF a, b

LEMMA AccountedInit == Init => Accounted
  BY DEF Init, Accounted

LEMMA AccountedNext ==
    ASSUME Typed, Accounted, [Next]_vars
    PROVE  Accounted'
  <1> USE IpcAssumption
  <1>1. CASE FinishPublishing
    <2>1. sent' = [sent EXCEPT ![sending[1]] = Append(@, sending[2])]
      BY <1>1 DEF FinishPublishing, PublishStep, PublishOrder
    <2>2. sending[1] \in Topics /\ sending[2] \in Cursors
      BY <1>1 DEF FinishPublishing, Typed
    <2>3. UNCHANGED <<phase, joined, rx, received, reported>>
      BY <1>1 DEF FinishPublishing, channels
    <2>4. ASSUME NEW t \in Topics
          PROVE  /\ rx[t] <= Len(sent'[t])
                 /\ SubSeq(sent'[t], joined[t] + 1, rx[t]) = SubSeq(sent[t], joined[t] + 1, rx[t])
      <3>1. joined[t] \in Nat /\ rx[t] \in Nat /\ rx[t] <= Len(sent[t]) /\ sent[t] \in Seq(Cursors)
        BY DEF Typed, Accounted
      <3>2. CASE t = sending[1]
        <4>1. sent'[t] = Append(sent[t], sending[2])
          BY <2>1, <3>2 DEF Typed
        <4>2. Len(sent'[t]) = Len(sent[t]) + 1
          BY <3>1, <4>1
        <4>3. rx[t] <= Len(sent'[t])
          BY <3>1, <4>2
        <4>4. SubSeq(Append(sent[t], sending[2]), joined[t] + 1, rx[t])
                 = SubSeq(sent[t], joined[t] + 1, rx[t])
          BY <2>2, <3>1, SubSeqOfAppend
        <4> QED BY <4>1, <4>3, <4>4
      <3>3. CASE t # sending[1]
        <4>1. sent'[t] = sent[t]
          BY <2>1, <3>3 DEF Typed
        <4> QED BY <3>1, <4>1
      <3> QED BY <3>2, <3>3
    <2> QED BY <2>3, <2>4 DEF Accounted
  <1>2. CASE Accept
    <2>1. /\ phase = "absent" /\ phase' = "accepted"
          /\ joined' = [t \in Topics |-> Len(sent[t])] /\ rx' = joined'
          /\ UNCHANGED <<sent, received, reported>>
      BY <1>2 DEF Accept, published
    <2>2. \A t \in Topics : Len(sent[t]) \in Nat
      BY DEF Typed
    <2> QED BY <2>1, <2>2 DEF Accounted
  <1>3. CASE Hello
    <2>1. /\ phase = "accepted" /\ phase' = "serving"
          /\ UNCHANGED <<sent, joined, rx, received, reported>>
      BY <1>3 DEF Hello, published, channels
    <2>2. ASSUME NEW t \in Topics
          PROVE  /\ Len(received[t]) + reported[t] = rx[t] - joined[t]
                 /\ received[t] = SubSeq(sent[t], joined[t] + 1, rx[t])
      <3>1. received[t] = <<>> /\ reported[t] = 0 /\ rx[t] = joined[t] /\ joined[t] \in Nat
        BY <2>1 DEF Accounted, Typed
      <3>2. SubSeq(sent[t], joined[t] + 1, joined[t]) = <<>>
        BY <3>1, SubSeqEmpty
      <3> QED BY <3>1, <3>2
    <2> QED BY <2>1, <2>2 DEF Accounted
  <1>4. ASSUME NEW t \in Topics, Receive(t)
        PROVE  Accounted'
    <2>1. /\ phase = "serving" /\ phase' = "serving" /\ rx[t] < Len(sent[t])
          /\ rx' = [rx EXCEPT ![t] = @ + 1]
          /\ received' = [received EXCEPT ![t] = Append(@, sent[t][rx[t] + 1])]
          /\ UNCHANGED <<sent, joined, reported>>
      BY <1>4 DEF Receive, Waiting, published
    <2>2. ASSUME NEW u \in Topics
          PROVE  /\ joined[u] <= rx'[u] /\ rx'[u] <= Len(sent[u])
                 /\ Len(received'[u]) + reported[u] = rx'[u] - joined[u]
                 /\ Overflow[u] = "DropClientOnLag" =>
                       received'[u] = SubSeq(sent[u], joined[u] + 1, rx'[u])
      <3>1. /\ joined[u] \in Nat /\ rx[u] \in Nat /\ reported[u] \in Nat
            /\ sent[u] \in Seq(Cursors) /\ received[u] \in Seq(Cursors)
            /\ Len(sent[u]) \in Nat /\ Len(received[u]) \in Nat
        BY DEF Typed
      <3>2. /\ joined[u] <= rx[u] /\ rx[u] <= Len(sent[u])
            /\ Len(received[u]) + reported[u] = rx[u] - joined[u]
            /\ Overflow[u] = "DropClientOnLag" =>
                  received[u] = SubSeq(sent[u], joined[u] + 1, rx[u])
        BY <2>1 DEF Accounted
      <3>3. CASE u = t
        <4>1. rx'[u] = rx[u] + 1 /\ received'[u] = Append(received[u], sent[u][rx[u] + 1])
          BY <2>1, <3>3 DEF Typed
        <4>2. rx[u] + 1 \in 1 .. Len(sent[u])
          BY <2>1, <3>1, <3>3
        <4>3. sent[u][rx[u] + 1] \in Cursors
          BY <3>1, <4>2
        <4>4. Len(received'[u]) = Len(received[u]) + 1
          BY <3>1, <4>1, <4>3
        <4>5. SubSeq(sent[u], joined[u] + 1, rx[u] + 1)
                 = Append(SubSeq(sent[u], joined[u] + 1, rx[u]), sent[u][rx[u] + 1])
          <5>1. rx[u] + 1 <= Len(sent[u]) /\ joined[u] <= rx[u]
            BY <3>2, <4>2
          <5> QED BY <3>1, <5>1, SubSeqByOne
        <4>6. joined[u] <= rx'[u] /\ rx'[u] <= Len(sent[u])
          BY <3>1, <3>2, <4>1, <4>2
        <4>7. Len(received'[u]) + reported[u] = rx'[u] - joined[u]
          <5> DEFINE n == Len(received[u])
                     m == Len(received'[u])
          <5>1. n \in Nat /\ m = n + 1 /\ n + reported[u] = rx[u] - joined[u] /\ rx'[u] = rx[u] + 1
            BY <3>1, <3>2, <4>1, <4>4
          <5>2. reported[u] \in Nat /\ rx[u] \in Nat /\ joined[u] \in Nat
            BY <3>1
          <5> HIDE DEF n, m
          <5>3. m + reported[u] = rx'[u] - joined[u]
            BY <5>1, <5>2
          <5> QED BY <5>3 DEF m
        <4> QED BY <3>2, <4>1, <4>5, <4>6, <4>7
      <3>4. CASE u # t
        <4>1. rx'[u] = rx[u] /\ received'[u] = received[u]
          BY <2>1, <3>4 DEF Typed
        <4> QED BY <3>2, <4>1
      <3> QED BY <3>3, <3>4
    <2> QED BY <2>1, <2>2 DEF Accounted
  <1>5. ASSUME NEW t \in Topics, Lag(t)
        PROVE  Accounted'
    <2>1. /\ phase = "serving" /\ Len(sent[t]) - rx[t] > ChannelCapacity
          /\ rx' = [rx EXCEPT ![t] = @ + Skipped(t)]
          /\ UNCHANGED <<sent, joined, received>>
      BY <1>5 DEF Lag, Waiting, Behind, published
    <2>2. /\ Skipped(t) \in Nat /\ rx[t] \in Nat
          /\ rx[t] + Skipped(t) <= Len(sent[t]) /\ rx[t] <= rx[t] + Skipped(t)
      BY <2>1 DEF Skipped, Typed
    <2>3. \A u \in Topics : joined[u] <= rx'[u] /\ rx'[u] <= Len(sent[u])
      BY <2>1, <2>2 DEF Typed, Accounted
    <2>4. CASE Overflow[t] = "DropClientOnLag"
      <3>1. phase' = "QueueOverflow"
        BY <1>5, <2>4 DEF Lag, HandleLagged
      <3> QED BY <2>1, <2>3, <3>1 DEF Accounted
    <2>5. CASE Overflow[t] # "DropClientOnLag"
      <3>1. phase' = "serving" /\ reported' = [reported EXCEPT ![t] = @ + Skipped(t)]
        BY <1>5, <2>1, <2>5 DEF Lag, HandleLagged
      <3>2. ASSUME NEW u \in Topics
            PROVE  /\ Len(received[u]) + reported'[u] = rx'[u] - joined[u]
                   /\ Overflow[u] = "DropClientOnLag" =>
                         received[u] = SubSeq(sent[u], joined[u] + 1, rx'[u])
        <4>1. /\ Len(received[u]) + reported[u] = rx[u] - joined[u]
              /\ Overflow[u] = "DropClientOnLag" =>
                    received[u] = SubSeq(sent[u], joined[u] + 1, rx[u])
          BY <2>1 DEF Accounted
        <4>2. CASE u = t
          <5>1. /\ reported'[u] = reported[u] + Skipped(t) /\ rx'[u] = rx[u] + Skipped(t)
                /\ reported[u] \in Nat /\ joined[u] \in Nat /\ Len(received[u]) \in Nat
            BY <2>1, <3>1, <4>2 DEF Typed
          <5> DEFINE n == Len(received[u])
                     k == Skipped(t)
          <5>2. n \in Nat /\ k \in Nat /\ n + reported[u] = rx[u] - joined[u]
            BY <2>2, <4>1, <5>1
          <5>3. /\ rx[u] \in Nat /\ reported[u] \in Nat /\ joined[u] \in Nat
                /\ reported'[u] = reported[u] + k /\ rx'[u] = rx[u] + k
            BY <2>2, <4>2, <5>1
          <5> HIDE DEF n, k
          <5>4. n + reported'[u] = rx'[u] - joined[u]
            BY <5>2, <5>3
          <5> QED BY <2>5, <4>2, <5>4 DEF n
        <4>3. CASE u # t
          <5>1. reported'[u] = reported[u] /\ rx'[u] = rx[u]
            BY <2>1, <3>1, <4>3 DEF Typed
          <5> QED BY <4>1, <5>1
        <4> QED BY <4>2, <4>3
      <3> QED BY <2>1, <2>3, <3>1, <3>2 DEF Accounted
    <2> QED BY <2>4, <2>5
  <1>6. CASE /\ UNCHANGED <<sent, channels>>
             /\ phase' \in {phase, "gone", "DecodeError"}
    BY <1>6 DEF channels, Accounted
  <1>7. ASSUME NEW t \in Topics, Publish(t)
        PROVE  Accounted'
    BY <1>6, <1>7 DEF Publish, PublishStep, PublishOrder
  <1>8. CASE Disconnect \/ WriteRest \/ ReadPart \/ ReadLine \/ UNCHANGED vars
    BY <1>6, <1>8 DEF Disconnect, WriteRest, ReadPart, ReadLine, published, vars
  <1>9. ASSUME NEW t \in Topics, NEW limit \in Limits, WriteQuery(t, limit)
        PROVE  Accounted'
    BY <1>6, <1>9 DEF WriteQuery, published
  <1> QED BY <1>1, <1>2, <1>3, <1>4, <1>5, <1>7, <1>8, <1>9 DEF Next
-----------------------------------------------------------------------------
\* What the client's pages have covered.
Covered ==
    /\ \A t \in Topics :
          /\ \A c \in paged[t] : c < next_cursor
          /\ phase = "absent" => caught_up[t] = {}
          /\ \A last \in caught_up[t] : \A i \in 1 .. joined[t] : sent[t][i] <= last
          /\ \A i \in 1 .. Len(history[t]) :
                history[t][i] <= LastOf(paged[t]) => history[t][i] \in paged[t]
    /\ query # NoQuery => query.after <= LastOf(paged[query.topic])

LEMMA CoveredInit == Init => Covered
  BY DEF Init, Covered

\* A page after a cursor the client has: what the history has up to the page's
\* last item has been paged, and if the page is short, that is everything.
Page(q, after, limit) == Take({i \in 1 .. Len(q) : After(q[i], after)}, limit)
Got(P, q, after, limit) == P \cup {q[i] : i \in Page(q, after, limit)}

LEMMA PageCovers ==
    ASSUME NEW q \in Seq(Cursors), Ordered(q), NEW P \in SUBSET Cursors,
           \A i \in 1 .. Len(q) : q[i] <= LastOf(P) => q[i] \in P,
           NEW after \in Nat, after <= LastOf(P), NEW limit \in Nat
    PROVE  LET got == Got(P, q, after, limit)
           IN  /\ got \in SUBSET Cursors
               /\ \A i \in 1 .. Len(q) : q[i] <= LastOf(got) => q[i] \in got
               /\ Cardinality(Page(q, after, limit)) < limit =>
                     \A i \in 1 .. Len(q) : q[i] <= LastOf(got)
  <1> DEFINE found == {i \in 1 .. Len(q) : After(q[i], after)}
             page == Page(q, after, limit)
             got == Got(P, q, after, limit)
  <1>0. page = Take(found, limit) /\ got = P \cup {q[i] : i \in page}
    BY DEF Page, Got
  <1>a. \A i \in 1 .. Len(q) : i \notin found => ~After(q[i], after)
    OBVIOUS
  <1>b. found \subseteq 1 .. Len(q)
    OBVIOUS
  <1> HIDE DEF found, page, got
  <1>1. \A i \in 1 .. Len(q) : q[i] \in Cursors
    BY ElementOfSeq
  <1>2. \A c \in Cursors : c \in Nat
    BY DEF Cursors
  <1>3. page \subseteq found /\ found \subseteq 1 .. Len(q)
    BY <1>0, <1>b DEF Take
  <1>4. got \in SUBSET Cursors
    BY <1>0, <1>1, <1>3
  <1>5. /\ LastOf(got) \in Nat /\ LastOf(P) \in Nat
        /\ \A c \in got : c <= LastOf(got)
        /\ got # {} => LastOf(got) \in got
    <2>1. /\ LastOf(got) \in 0 .. MaxPublished
          /\ \A c \in got : c <= LastOf(got)
          /\ got # {} => LastOf(got) \in got
      BY <1>4, LastOfIsGreatest
    <2>2. LastOf(P) \in 0 .. MaxPublished
      BY LastOfIsGreatest
    <2>3. \A n \in 0 .. MaxPublished : n \in Nat
      BY IpcAssumption
    <2> QED BY <2>1, <2>2, <2>3
  <1>6. found \in SUBSET Nat /\ IsFiniteSet(found)
    <2>1. Len(q) \in Nat
      OBVIOUS
    <2>2. IsFiniteSet(1 .. Len(q))
      BY <2>1, FS_Interval
    <2>3. IsFiniteSet(found)
      BY <1>b, <2>2, FS_Subset
    <2>4. \A i \in 1 .. Len(q) : i \in Nat
      OBVIOUS
    <2> QED BY <1>b, <2>3, <2>4
  <1>7. \A i \in 1 .. Len(q) : i \notin found => q[i] \in P
    <2> SUFFICES ASSUME NEW i \in 1 .. Len(q), i \notin found
                 PROVE  q[i] \in P
      OBVIOUS
    <2>1. q[i] \in Nat /\ ~(q[i] > after)
      BY <1>1, <1>2, <1>a DEF After
    <2>2. q[i] <= LastOf(P)
      BY <2>1, <1>5
    <2> QED BY <2>2
  <1>8. \A i \in 1 .. Len(q) : q[i] <= LastOf(got) => q[i] \in got
    <2> SUFFICES ASSUME NEW i \in 1 .. Len(q), q[i] <= LastOf(got), q[i] \notin got
                 PROVE  FALSE
      OBVIOUS
    <2>1. i \in found /\ i \notin page /\ q[i] \notin P
      BY <1>0, <1>7
    <2>2. CASE got = {}
      <3>1. LastOf(got) = 0
        BY <2>2 DEF LastOf
      <3>2. q[i] \in Nat /\ q[i] >= 1
        BY <1>1 DEF Cursors
      <3>3. q[i] <= LastOf(got)
        OBVIOUS
      <3> QED BY <3>1, <3>2, <3>3
    <2>3. CASE LastOf(got) \in P
      <3>1. LastOf(P) >= LastOf(got)
        BY <2>3, LastOfIsGreatest
      <3>2. q[i] <= LastOf(P)
        BY <1>1, <1>2, <1>5, <3>1
      <3> QED BY <2>1, <3>2
    <2>4. CASE \E j \in page : LastOf(got) = q[j]
      <3>1. PICK j \in page : LastOf(got) = q[j]
        BY <2>4
      <3>2. i \in Nat /\ j \in Nat /\ j \in 1 .. Len(q) /\ q[i] \in Nat /\ q[j] \in Nat
        BY <1>1, <1>2, <1>3
      <3>3. ~(i < j)
        BY <1>0, <1>6, <2>1, TakeIsInitial
      <3>4. i # j
        BY <2>1
      <3>5. j < i
        BY <3>2, <3>3, <3>4
      <3>6. q[j] < q[i]
        BY <3>2, <3>5 DEF Ordered
      <3> QED BY <3>1, <3>2, <3>6
    <2> QED BY <1>0, <1>5, <2>2, <2>3, <2>4
  <1>9. Cardinality(page) < limit => \A i \in 1 .. Len(q) : q[i] <= LastOf(got)
    <2> SUFFICES ASSUME Cardinality(page) < limit, NEW i \in 1 .. Len(q)
                 PROVE  q[i] \in got
      BY <1>5
    <2>1. found \subseteq page
      BY <1>0, <1>6, ShortPageIsWhole
    <2> QED BY <1>0, <1>7, <2>1
  <1> QED BY <1>4, <1>8, <1>9 DEF page, got

LEMMA CoveredNext ==
    ASSUME Typed, Recorded, Accounted, Covered, [Next]_vars
    PROVE  Covered'
  <1> USE IpcAssumption
  <1>1. ASSUME NEW t \in Topics, Publish(t)
        PROVE  Covered'
    <2>1. next_cursor \in Cursors /\ next_cursor' = next_cursor + 1
      BY <1>1 DEF Publish, Typed, Cursors
    <2>2. history' = [history EXCEPT ![t] = PushBounded(@, next_cursor)] /\ UNCHANGED sent
      BY <1>1 DEF Publish, PublishStep, PublishOrder
    <2>3. UNCHANGED <<phase, joined, query, paged, caught_up>>
      BY <1>1 DEF Publish, channels, requests
    <2>4. \A u \in Topics : \A c \in paged[u] : c < next_cursor'
      <3>1. \A u \in Topics : \A c \in paged[u] : c \in Nat
        BY DEF Typed, Cursors
      <3>2. \A u \in Topics : \A c \in paged[u] : c < next_cursor
        BY DEF Covered
      <3>3. next_cursor \in Nat
        BY DEF Typed
      <3> QED BY <2>1, <3>1, <3>2, <3>3
    <2>5. ASSUME NEW u \in Topics, NEW i \in 1 .. Len(history'[u]),
                 history'[u][i] <= LastOf(paged[u])
          PROVE  history'[u][i] \in paged[u]
      <3>1. CASE u = t
        <4> DEFINE q == history[t]
                   p == PushBounded(q, next_cursor)
        <4>1. history'[u] = p
          BY <2>2, <3>1 DEF Typed
        <4>2. q \in Seq(Cursors) /\ Len(q) <= HistoryCapacity
          BY DEF Typed
        <4>3. PICK d \in {0, 1} : /\ Len(p) = Len(q) + 1 - d
                                  /\ \A k \in 1 .. Len(q) - d : p[k] = q[k + d]
          BY <2>1, <4>2, PushBoundedKeeps
        <4>4. p[Len(p)] = next_cursor
          BY <2>1, <4>2, PushBoundedKeeps
        <4>5. LastOf(paged[t]) < next_cursor
          <5>1. paged[t] \in SUBSET Cursors
            BY DEF Typed
          <5>2. CASE paged[t] = {}
            BY <2>1, <5>2 DEF LastOf, Cursors
          <5>3. CASE paged[t] # {}
            BY <5>1, <5>3, LastOfIsGreatest DEF Covered
          <5> QED BY <5>2, <5>3
        <4>6. LastOf(paged[t]) \in Nat /\ next_cursor \in Nat
          BY LastOfIsGreatest DEF Typed
        <4> HIDE DEF p
        <4>7. i # Len(p)
          BY <2>5, <3>1, <4>1, <4>4, <4>5, <4>6
        <4>8. Len(q) \in Nat /\ i \in 1 .. Len(p)
          BY <4>1, <4>2
        <4>9. p[i] = q[i + d] /\ i + d \in 1 .. Len(q)
          BY <4>3, <4>7, <4>8
        <4>10. q[i + d] <= LastOf(paged[t]) => q[i + d] \in paged[t]
          BY <4>9 DEF Covered
        <4> QED BY <2>5, <3>1, <4>1, <4>9, <4>10
      <3>2. CASE u # t
        <4>1. history'[u] = history[u]
          BY <2>2, <3>2 DEF Typed
        <4> QED BY <2>5, <4>1 DEF Covered
      <3> QED BY <3>1, <3>2
    <2>6. /\ \A u \in Topics :
                /\ \A c \in paged'[u] : c < next_cursor'
                /\ \A i \in 1 .. Len(history'[u]) :
                      history'[u][i] <= LastOf(paged'[u]) => history'[u][i] \in paged'[u]
      BY <2>3, <2>4, <2>5
    <2> QED BY <2>2, <2>3, <2>6 DEF Covered
  <1>2. CASE FinishPublishing
    <2>1. sent' = [sent EXCEPT ![sending[1]] = Append(@, sending[2])] /\ UNCHANGED history
      BY <1>2 DEF FinishPublishing, PublishStep, PublishOrder
    <2>2. sending[1] \in Topics /\ sending[2] \in Cursors
      BY <1>2 DEF FinishPublishing, Typed
    <2>3. UNCHANGED <<next_cursor, phase, joined, query, paged, caught_up>>
      BY <1>2 DEF FinishPublishing, channels, requests
    <2>4. \A t \in Topics : \A i \in 1 .. joined[t] : sent'[t][i] = sent[t][i]
      <3> SUFFICES ASSUME NEW t \in Topics, NEW i \in 1 .. joined[t]
                   PROVE  sent'[t][i] = sent[t][i]
        OBVIOUS
      <3>1. /\ sent[t] \in Seq(Cursors) /\ joined[t] \in Nat /\ rx[t] \in Nat
            /\ joined[t] <= rx[t] /\ rx[t] <= Len(sent[t])
        BY DEF Typed, Accounted
      <3>2. i \in 1 .. Len(sent[t])
        BY <3>1
      <3>3. sent'[t] = sent[t] \/ sent'[t] = Append(sent[t], sending[2])
        BY <2>1 DEF Typed
      <3> QED BY <2>2, <3>1, <3>2, <3>3
    <2> QED BY <2>1, <2>3, <2>4 DEF Covered
  <1>3. CASE Accept
    <2>1. phase = "absent" /\ phase' = "accepted"
          /\ UNCHANGED <<next_cursor, history, sent, query, paged, caught_up>>
      BY <1>3 DEF Accept, published, requests
    <2> QED BY <2>1 DEF Covered
  <1>4. CASE ReadLine
    <2>1. /\ phase = "serving" /\ phase' # "absent" /\ query \in Queries
          /\ UNCHANGED <<next_cursor, history, sent, joined>>
      BY <1>4 DEF ReadLine, Typed, published, channels
    <2>2. CASE Reply(HistoryItems(query.topic, query.after, query.limit)) /\ query' = NoQuery
      <3> DEFINE t == query.topic
                 q == history[t]
                 P == paged[t]
                 found == {i \in 1 .. Len(q) : After(q[i], query.after)}
                 page == Take(found, query.limit)
                 got == P \cup {q[i] : i \in page}
      <3>1. t \in Topics /\ query.after \in Nat /\ query.limit \in Nat
        <4>1. t \in Topics /\ query.after \in 0 .. MaxPublished /\ query.limit \in Limits
          BY <2>1 DEF Queries
        <4>2. \A n \in 0 .. MaxPublished : n \in Nat
          OBVIOUS
        <4>3. \A limit \in Limits : limit \in Nat
          OBVIOUS
        <4> QED BY <4>1, <4>2, <4>3
      <3>2. q \in Seq(Cursors) /\ Ordered(q) /\ P \in SUBSET Cursors
        BY <3>1 DEF Typed, Recorded
      <3>3. page = HistoryItems(query.topic, query.after, query.limit)
        <4>1. DOMAIN q = 1 .. Len(q)
          BY <3>2
        <4> QED BY <4>1 DEF HistoryItems
      <3>4. /\ paged' = [paged EXCEPT ![t] = got]
            /\ caught_up' = IF Cardinality(page) < query.limit
                            THEN [caught_up EXCEPT ![t] = {LastOf(got)}] ELSE caught_up
        BY <2>2, <3>3 DEF Reply
      <3>5. query # NoQuery /\ query.after <= LastOf(P)
        <4>1. query # NoQuery
          BY <2>1 DEF Queries, NoQuery
        <4> QED BY <4>1 DEF Covered
      <3>6. \A i \in 1 .. Len(q) : q[i] <= LastOf(P) => q[i] \in P
        BY <3>1 DEF Covered
      <3>7. /\ got \in SUBSET Cursors
            /\ \A i \in 1 .. Len(q) : q[i] <= LastOf(got) => q[i] \in got
            /\ Cardinality(page) < query.limit => \A i \in 1 .. Len(q) : q[i] <= LastOf(got)
        <4> DEFINE after == query.after
                   limit == query.limit
        <4>1. after \in Nat /\ limit \in Nat /\ after <= LastOf(P)
          BY <3>1, <3>5
        <4>2. page = Page(q, after, limit) /\ got = Got(P, q, after, limit)
          BY DEF Page, Got
        <4>3. /\ got \in SUBSET Cursors
              /\ \A i \in 1 .. Len(q) : q[i] <= LastOf(got) => q[i] \in got
              /\ Cardinality(page) < limit => \A i \in 1 .. Len(q) : q[i] <= LastOf(got)
          <5> HIDE DEF t, P, q, after, limit, found, page, got
          <5> QED BY <3>2, <3>6, <4>1, <4>2, PageCovers
        <4> QED BY <4>3
      <3>8. \A c \in got : c < next_cursor
        <4>1. \A i \in page : i \in 1 .. Len(q)
          BY DEF Take
        <4>2. \A c \in P : c < next_cursor
          BY <3>1 DEF Covered
        <4>3. \A i \in 1 .. Len(q) : q[i] < next_cursor
          BY <3>1 DEF Recorded
        <4> HIDE DEF page, P, q
        <4> QED BY <4>1, <4>2, <4>3
      <3>9. Cardinality(page) < query.limit => \A i \in 1 .. Len(sent[t]) : sent[t][i] <= LastOf(got)
        <4> SUFFICES ASSUME Cardinality(page) < query.limit, NEW i \in 1 .. Len(sent[t])
                     PROVE  sent[t][i] <= LastOf(got)
          OBVIOUS
        <4>1. Len(q) > 0 /\ sent[t][i] <= q[Len(q)]
          BY <3>1 DEF Recorded, Reaches
        <4>2. Len(q) \in 1 .. Len(q) /\ q[Len(q)] \in Cursors
          BY <3>2, <4>1
        <4>3. q[Len(q)] <= LastOf(got)
          BY <3>7, <4>2
        <4>4. sent[t][i] \in Nat /\ q[Len(q)] \in Nat /\ LastOf(got) \in Nat
          <5>1. sent[t][i] \in Cursors
            BY <3>1 DEF Typed
          <5>2. \A c \in Cursors : c \in Nat
            BY DEF Cursors
          <5> QED BY <3>7, <4>2, <5>1, <5>2, LastOfIsGreatest
        <4> QED BY <4>1, <4>3, <4>4
      <3> HIDE DEF got, page, found
      <3>10. ASSUME NEW u \in Topics
             PROVE  /\ \A c \in paged'[u] : c < next_cursor
                    /\ \A last \in caught_up'[u] : \A i \in 1 .. joined[u] : sent[u][i] <= last
                    /\ \A i \in 1 .. Len(history[u]) :
                          history[u][i] <= LastOf(paged'[u]) => history[u][i] \in paged'[u]
        <4>1. CASE u = t
          <5>1. paged'[u] = got
            BY <3>4, <4>1 DEF Typed
          <5>2. \/ caught_up'[u] = caught_up[u]
                \/ caught_up'[u] = {LastOf(got)} /\ Cardinality(page) < query.limit
            BY <3>4, <4>1 DEF Typed
          <5>3. \A i \in 1 .. joined[u] : i \in 1 .. Len(sent[u])
            BY DEF Typed, Accounted
          <5>4. \A last \in caught_up'[u] : \A i \in 1 .. joined[u] : sent[u][i] <= last
            <6>1. CASE caught_up'[u] = caught_up[u]
              BY <6>1 DEF Covered
            <6>2. CASE caught_up'[u] = {LastOf(got)} /\ Cardinality(page) < query.limit
              BY <3>9, <4>1, <5>3, <6>2
            <6> QED BY <5>2, <6>1, <6>2
          <5> QED BY <3>7, <3>8, <4>1, <5>1, <5>4
        <4>2. CASE u # t
          <5>1. paged'[u] = paged[u] /\ caught_up'[u] = caught_up[u]
            BY <3>4, <4>2 DEF Typed
          <5> QED BY <5>1 DEF Covered
        <4> QED BY <4>1, <4>2
      <3> QED BY <2>1, <2>2, <3>10 DEF Covered
    <2>3. CASE UNCHANGED <<query, paged, caught_up>>
      BY <2>1, <2>3 DEF Covered
    <2> QED BY <1>4, <2>2, <2>3 DEF ReadLine
  <1>5. ASSUME NEW t \in Topics, NEW limit \in Limits, WriteQuery(t, limit)
        PROVE  Covered'
    <2>1. /\ query' = [topic |-> t, after |-> LastOf(paged[t]), limit |-> limit]
          /\ UNCHANGED <<next_cursor, history, sent, phase, joined, paged, caught_up>>
      BY <1>5 DEF WriteQuery, published, channels
    <2>2. LastOf(paged[t]) \in Nat
      BY LastOfIsGreatest DEF Typed
    <2>3. query'.after <= LastOf(paged'[query'.topic])
      BY <2>1, <2>2
    <2> QED BY <2>1, <2>3 DEF Covered
  <1>6. CASE /\ UNCHANGED <<next_cursor, history, sent, joined, query, paged, caught_up>>
             /\ phase' = "absent" => phase = "absent"
    BY <1>6 DEF Covered
  <1>7. ASSUME NEW t \in Topics, Receive(t) \/ Lag(t)
        PROVE  Covered'
    BY <1>6, <1>7 DEF Receive, Lag, HandleLagged, DropRead, Waiting, published
  <1>8. CASE Hello \/ Disconnect \/ WriteRest \/ ReadPart \/ UNCHANGED vars
    BY <1>6, <1>8 DEF Hello, Disconnect, WriteRest, ReadPart, published, channels, requests, vars
  <1> QED BY <1>1, <1>2, <1>3, <1>4, <1>5, <1>7, <1>8 DEF Next
-----------------------------------------------------------------------------
IpcInv == Typed /\ Recorded /\ Accounted /\ Covered

\* The inductive invariant of the server and its client.
THEOREM IpcInvariant == Spec => []IpcInv
  <1>1. Init => IpcInv
    BY TypedInit, RecordedInit, AccountedInit, CoveredInit DEF IpcInv
  <1>2. IpcInv /\ [Next]_vars => IpcInv'
    BY TypedNext, RecordedNext, AccountedNext, CoveredNext DEF IpcInv
  <1> QED BY <1>1, <1>2, PTL DEF Spec

\* The server and its client keep their state well-typed, the history within
\* its capacity.
THEOREM IpcTypeCorrect == Spec => []TypeOK
  <1>1. IpcInv => TypeOK
    BY DEF IpcInv, Typed, TypeOK
  <1> QED BY <1>1, IpcInvariant, PTL

\* Whatever the interleaving of the driver and the client's task, a client that
\* is served has missed exactly what it has been told of (handle_lagged_topic).
THEOREM ClientsMissNothingSilently == Spec => []NothingIsMissedSilently
  <1>1. IpcInv => NothingIsMissedSilently
    BY DEF IpcInv, Accounted, NothingIsMissedSilently
  <1> QED BY <1>1, IpcInvariant, PTL

\* No frame falls between the history a client has paged and the channel it was
\* subscribed to: the order of publish_* and of accepting.
THEOREM NoGapBetweenHistoryAndChannel == Spec => []HistoryMeetsChannel
  <1>1. IpcInv => HistoryMeetsChannel
    <2> SUFFICES ASSUME IpcInv, NEW t \in Topics, NEW last \in caught_up[t],
                        NEW i \in 1 .. Len(sent[t]), sent[t][i] > last
                 PROVE  i > joined[t]
      BY DEF HistoryMeetsChannel
    <2>1. \A k \in 1 .. joined[t] : sent[t][k] <= last
      BY DEF IpcInv, Covered
    <2>2. joined[t] \in Nat /\ sent[t][i] \in Nat /\ last \in Nat
      <3>1. sent[t][i] \in Cursors /\ joined[t] \in Nat /\ last \in 0 .. MaxPublished
        BY DEF IpcInv, Typed
      <3> QED BY <3>1 DEF Cursors
    <2> QED BY <2>1, <2>2
  <1> QED BY <1>1, IpcInvariant, PTL

\* Paging by the last cursor seen skips no frame the history still holds.
THEOREM PagingIsComplete == Spec => []PagesSkipNothing
  <1>1. IpcInv => PagesSkipNothing
    <2> SUFFICES ASSUME IpcInv, NEW t \in Topics, NEW c \in ToSet(history[t]),
                        c <= LastOf(paged[t])
                 PROVE  c \in paged[t]
      BY DEF PagesSkipNothing
    <2>1. history[t] \in Seq(Cursors)
      BY DEF IpcInv, Typed
    <2>2. PICK i \in 1 .. Len(history[t]) : c = history[t][i]
      BY <2>1 DEF ToSet
    <2> QED BY <2>2 DEF IpcInv, Covered
  <1> QED BY <1>1, IpcInvariant, PTL
=============================================================================
