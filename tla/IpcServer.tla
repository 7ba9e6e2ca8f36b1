------------------------------ MODULE IpcServer ------------------------------
(***************************************************************************)
(* The daemon's local server: the driver publishes frames into a bounded   *)
(* history and then into one broadcast channel per topic; the task of a    *)
(* client (serve_client) selects between its channels and the lines the    *)
(* client writes, which query the history.                                 *)
(*                                                                         *)
(* Frames are named by their cursor, drawn from one counter for all        *)
(* topics.  Clients share nothing but what the driver writes, so there is  *)
(* one here.  Metrics, a watch channel of one frame, are left out.         *)
(***************************************************************************)
EXTENDS Integers, Sequences, FiniteSets, SequencesExt

CONSTANTS
    Topics,              \* of the topics "alert", "events" and "graph"
    Overflow,            \* *_overflow of the queue policy, by topic
    HistoryCapacity,     \* *_capacity of the queue policy, for the history
    ChannelCapacity,     \* the same for the channels, which round it up
    Limits,              \* bound: the limits a client puts on its queries
    MaxPublished         \* bound: how many frames are published

ASSUME IpcAssumption ==
    /\ Overflow \in [Topics -> {"DropClientOnLag", "ReportDropAndContinue"}]
    /\ HistoryCapacity \in Nat \ {0}
    /\ ChannelCapacity \in Nat \ {0}
    /\ Limits \subseteq Nat \ {0}
    /\ MaxPublished \in Nat

VARIABLES
    next_cursor,         \* IpcHistory
    history,             \* topic -> the last frames
    sending,             \* the frame the driver has pushed but not sent, if any
    sent,                \* topic -> every frame ever sent on the channel
    phase,               \* of the client: "absent", "accepted", "serving" or why it closed
    subscriptions,       \* the topics it said hello with
    joined,              \* topic -> Len(sent) when it subscribed
    rx,                  \* topic -> position of its receiver
    received,            \* topic -> frames written to it
    reported,            \* topic -> frames reported to it as dropped
    wire,                \* what it has written and the task has not read
    client_line,         \* what the unfinished read has taken off the wire
    query,               \* the last query it wrote
    paged,               \* topic -> cursors it got in replies
    caught_up            \* topic -> its last cursor when a page came back short

published == <<next_cursor, history, sending, sent>>
channels == <<joined, rx, received, reported>>
requests == <<wire, client_line, query, paged, caught_up>>
vars == <<published, phase, subscriptions, channels, requests>>

Cursors == 1 .. MaxPublished
NoQuery == [topic |-> "none", after |-> 0, limit |-> 0]

Init ==
    /\ next_cursor = 1
    /\ history = [t \in Topics |-> <<>>]
    /\ sending = <<>>
    /\ sent = [t \in Topics |-> <<>>]
    /\ phase = "absent"
    /\ subscriptions = {}
    /\ joined = [t \in Topics |-> 0]
    /\ rx = [t \in Topics |-> 0]
    /\ received = [t \in Topics |-> <<>>]
    /\ reported = [t \in Topics |-> 0]
    /\ wire = <<>>
    /\ client_line = <<>>
    /\ query = NoQuery
    /\ paged = [t \in Topics |-> {}]
    /\ caught_up = [t \in Topics |-> {}]
-----------------------------------------------------------------------------
(* The driver                                                              *)

\* A slip: room is made one frame too late.
PushBoundedLate(queue, c) ==
    Append(IF Len(queue) > HistoryCapacity THEN Tail(queue) ELSE queue, c)

\* push_bounded
PushBounded(queue, c) ==
    Append(IF Len(queue) >= HistoryCapacity THEN Tail(queue) ELSE queue, c)

\* A slip: the channel comes before the history.
SendThenPush == <<"send", "push">>

\* publish_alert, publish_event, publish_graph: first the history, under its
\* lock, then the channel.
PublishOrder == <<"push", "send">>

PublishStep(step, t, c) ==
    \/ /\ step = "push"
       /\ history' = [history EXCEPT ![t] = PushBounded(@, c)]
       /\ UNCHANGED sent
    \/ /\ step = "send"
       /\ sent' = [sent EXCEPT ![t] = Append(@, c)]
       /\ UNCHANGED history

Publish(t) ==
    /\ sending = <<>>
    /\ next_cursor <= MaxPublished
    /\ PublishStep(PublishOrder[1], t, next_cursor)
    /\ next_cursor' = next_cursor + 1
    /\ sending' = <<t, next_cursor>>
    /\ UNCHANGED <<phase, subscriptions, channels, requests>>

FinishPublishing ==
    /\ sending # <<>>
    /\ PublishStep(PublishOrder[2], sending[1], sending[2])
    /\ sending' = <<>>
    /\ UNCHANGED <<next_cursor, phase, subscriptions, channels, requests>>
-----------------------------------------------------------------------------
(* The client's task                                                       *)

\* The accept loop subscribes to every topic before hello is read.
Accept ==
    /\ phase = "absent"
    /\ phase' = "accepted"
    /\ joined' = [t \in Topics |-> Len(sent[t])]
    /\ rx' = joined'
    /\ UNCHANGED <<published, subscriptions, received, reported, requests>>

\* Hello and welcome.
Hello ==
    /\ phase = "accepted"
    /\ subscriptions' \in SUBSET Topics
    /\ phase' = "serving"
    /\ UNCHANGED <<published, channels, requests>>

Waiting(t) ==
    /\ phase = "serving"
    /\ t \in subscriptions
    /\ rx[t] < Len(sent[t])

\* The channel has overwritten frames the receiver has not taken.
Behind(t) == Len(sent[t]) - rx[t] > ChannelCapacity
Skipped(t) == Len(sent[t]) - ChannelCapacity - rx[t]

\* A branch of select! that wins drops the unfinished read; the next read
\* clears client_line.
DropRead == client_line' = <<>> /\ UNCHANGED <<wire, query, paged, caught_up>>

Receive(t) ==
    /\ Waiting(t)
    /\ ~Behind(t)
    /\ rx' = [rx EXCEPT ![t] = @ + 1]
    /\ received' = [received EXCEPT ![t] = Append(@, sent[t][rx[t] + 1])]
    /\ DropRead
    /\ UNCHANGED <<published, phase, subscriptions, joined, reported>>

\* A slip: the drop is not reported.
ContinueSilently(t) == UNCHANGED <<phase, reported>>

\* What handle_lagged_topic tells the client.
HandleLagged(t) ==
    IF Overflow[t] = "DropClientOnLag"
    THEN phase' = "QueueOverflow" /\ UNCHANGED reported
    ELSE reported' = [reported EXCEPT ![t] = @ + Skipped(t)] /\ UNCHANGED phase

Lag(t) ==
    /\ Waiting(t)
    /\ Behind(t)
    /\ rx' = [rx EXCEPT ![t] = @ + Skipped(t)]
    /\ HandleLagged(t)
    /\ DropRead
    /\ UNCHANGED <<published, subscriptions, joined, received>>

\* A write that takes longer than client_slow_timeout_ms, a client that hangs
\* up, the daemon's end.
Disconnect ==
    /\ phase \in {"accepted", "serving"}
    /\ phase' = "gone"
    /\ UNCHANGED <<published, subscriptions, channels, requests>>

\* item_after_cursor: no cursor (0) admits every item.
After(c, after) == after = 0 \/ c > after

\* A slip: a page is the newest of what was found rather than the oldest.
TakeNewest(found, limit) == {i \in found : Cardinality({j \in found : j > i}) < limit}

\* take
Take(found, limit) == {i \in found : Cardinality({j \in found : j < i}) < limit}

\* history_items: the positions in the history of the items of a page.
HistoryItems(t, after, limit) ==
    Take({i \in DOMAIN history[t] : After(history[t][i], after)}, limit)

\* The client asks for the page after the last item it has; its line may reach
\* the server in two pieces.
LastOf(cursors) == IF cursors = {} THEN 0 ELSE CHOOSE c \in cursors : \A d \in cursors : d <= c

WriteQuery(t, limit) ==
    /\ phase = "serving"
    /\ query = NoQuery
    /\ query' = [topic |-> t, after |-> LastOf(paged[t]), limit |-> limit]
    /\ \/ wire' = <<"head", "tail">>
       \/ wire' = <<"head">>
    /\ UNCHANGED <<published, phase, subscriptions, channels, client_line, paged, caught_up>>

WriteRest ==
    /\ phase = "serving"
    /\ query # NoQuery
    /\ wire = <<>> \/ wire = <<"head">>
    /\ client_line # <<"head", "tail">>
    /\ wire' = Append(wire, "tail")
    /\ UNCHANGED <<published, phase, subscriptions, channels, client_line, query, paged, caught_up>>

\* read_bounded_line takes what there is and waits for the rest of the line.
ReadPart ==
    /\ phase = "serving"
    /\ wire = <<"head">>
    /\ wire' = <<>>
    /\ client_line' = <<"head">>
    /\ UNCHANGED <<published, phase, subscriptions, channels, query, paged, caught_up>>

\* What the client makes of a page.
Reply(page) ==
    LET t == query.topic
        got == paged[t] \cup {history[t][i] : i \in page}
    IN  /\ paged' = [paged EXCEPT ![t] = got]
        /\ caught_up' = IF Cardinality(page) < query.limit
                        THEN [caught_up EXCEPT ![t] = {LastOf(got)}] ELSE caught_up

ReadLine ==
    /\ phase = "serving"
    /\ wire # <<>> /\ Last(wire) = "tail"
    /\ wire' = <<>>
    /\ client_line' = <<>>
    /\ \/ /\ client_line \o wire = <<"head", "tail">>
          /\ Reply(HistoryItems(query.topic, query.after, query.limit))
          /\ query' = NoQuery
          /\ UNCHANGED phase
       \/ /\ client_line \o wire # <<"head", "tail">>
          /\ phase' = "DecodeError"
          /\ UNCHANGED <<query, paged, caught_up>>
    /\ UNCHANGED <<published, subscriptions, channels>>

Next ==
    \/ \E t \in Topics : Publish(t) \/ Receive(t) \/ Lag(t)
    \/ FinishPublishing \/ Accept \/ Hello \/ Disconnect
    \/ \E t \in Topics, limit \in Limits : WriteQuery(t, limit)
    \/ WriteRest \/ ReadPart \/ ReadLine

Spec == Init /\ [][Next]_vars
-----------------------------------------------------------------------------
\* The state is well-typed.
TypeOK ==
    /\ next_cursor \in 1 .. MaxPublished + 1
    /\ \A t \in Topics :
          /\ history[t] \in Seq(Cursors) /\ Len(history[t]) <= HistoryCapacity
          /\ sent[t] \in Seq(Cursors)
          /\ joined[t] \in Nat /\ rx[t] \in Nat /\ reported[t] \in Nat
          /\ received[t] \in Seq(Cursors)
          /\ paged[t] \subseteq Cursors
          /\ caught_up[t] \subseteq 0 .. MaxPublished
    /\ sending \in {<<>>} \cup (Topics \X Cursors)
    /\ phase \in {"absent", "accepted", "serving", "QueueOverflow", "gone", "DecodeError"}
    /\ subscriptions \subseteq Topics

\* A client misses nothing in silence: of the frames sent since it was
\* accepted, those it was not written are as many as were reported to it, and
\* on a topic that drops lagging clients there are none as long as it lives.
NothingIsMissedSilently ==
    phase = "serving" =>
        \A t \in Topics :
            /\ Len(received[t]) + reported[t] = rx[t] - joined[t]
            /\ Overflow[t] = "DropClientOnLag" =>
                  received[t] = SubSeq(sent[t], joined[t] + 1, rx[t])

\* History and channel leave no gap between them: once a page has come back
\* short of its limit, every frame later than it comes through the channel,
\* however publishing, accepting and querying overlapped.  (Publishing pushes
\* before it sends, and accepting subscribes before it serves.)
HistoryMeetsChannel ==
    \A t \in Topics : \A last \in caught_up[t] : \A i \in 1 .. Len(sent[t]) :
        sent[t][i] > last => i > joined[t]

\* Paging by the last cursor skips nothing the history still holds.
PagesSkipNothing ==
    \A t \in Topics : \A c \in ToSet(history[t]) :
        c <= LastOf(paged[t]) => c \in paged[t]
=============================================================================
