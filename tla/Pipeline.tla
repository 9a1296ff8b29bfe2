------------------------------ MODULE Pipeline ------------------------------
(***************************************************************************)
(* What goes through Kafka: conversion events, from a request to the       *)
(* consumer that logs them, and log records, from slog through the         *)
(* channel of KafkaHandler and the topic to the logs table.  The parts     *)
(* feed each other: handling an event logs a record, and so does a record  *)
(* that could not be read or inserted, into the very pipeline it is in.    *)
(*                                                                         *)
(* There may be several processes, as during a rolling update.  Each topic *)
(* has a consumer group that all of them are in, and one partition         *)
(* (initKafka), so that it is a sequence and has one owner at a time.      *)
(* Records and events are told apart by the process that made them and a   *)
(* number; what they say is left out.  How a process comes up and shuts    *)
(* down is in module Lifecycle.                                            *)
(***************************************************************************)
EXTENDS Naturals, Sequences

CONSTANTS
  Instances,   \* processes of the server
  BufferSize,  \* capacity of the log handler's channel
  Levels,      \* levels the log handler is enabled for
  MaxMade,     \* bound: records and events made before no more requests come
  MaxTrouble   \* bound: no more faults and rebalances come once there are so many

ASSUME PipelineAssumption ==
  /\ Instances # {} /\ BufferSize \in Nat \ {0}
  /\ Levels \subseteq {"info", "error"}
  /\ MaxMade \in Nat /\ MaxTrouble \in Nat

Amounts == {"number", "not finite", "no number"}
Topics == {"conversions", "app-logs"}

VARIABLES
  made,       \* number of records and events made so far
  channel,    \* records in the channel of each process's log handler
  writing,    \* what each process's writers hold, in the order it came
  retry,      \* the length of the batch a writer tries again, or 0
  topic,      \* what the topics hold
  committed,  \* the group's offset in each topic
  owner,      \* the process each topic's partition is assigned to
  reader,     \* each process's consumers
  handled,    \* offsets whose handler has run
  logs,       \* the rows of the logs table
  faults,     \* faults so far, one for each message of a batch that fails
  moves,      \* rebalances so far that no crash brought about
  disturbed   \* groups rebalanced with a message in a live consumer's hands

kafka == <<topic, committed, owner>>
sources == <<made, channel>>
writers == <<writing, retry>>
groups == <<moves, disturbed>>
vars == <<sources, writers, kafka, reader, handled, logs, faults, groups>>

Message == [by : Instances, n : Nat \ {0}]

\* A consumer reads on from next; it has fetched the message at offset and
\* commits it (ReadMessage), or handles it.
Reader == [at : {"read", "commit", "handle"}, next : Nat, offset : Nat]
Fresh(t) == [at |-> "read", next |-> committed[t], offset |-> 0]

\* The type of every variable; a consumer is at a message the topic holds.
TypeOK ==
  /\ made \in Nat
  /\ channel \in [Instances -> Seq(Message)]
  /\ \A i \in Instances : Len(channel[i]) <= BufferSize
  /\ writing \in [Instances -> [Topics -> Seq(Message)]]
  /\ retry \in [Instances -> [Topics -> Nat]]
  /\ \A i \in Instances, t \in Topics : retry[i][t] <= Len(writing[i][t])
  /\ topic \in [Topics -> Seq(Message)]
  /\ committed \in [Topics -> Nat]
  /\ owner \in [Topics -> Instances]
  /\ reader \in [Instances -> [Topics -> Reader]]
  /\ \A i \in Instances, t \in Topics :
       /\ reader[i][t].next <= Len(topic[t])
       /\ reader[i][t].at # "read" => reader[i][t].offset < Len(topic[t])
  /\ handled \in [Topics -> SUBSET Nat]
  /\ logs \in Seq(Message)
  /\ faults \in Nat /\ moves \in Nat
  /\ disturbed \subseteq Topics

Trouble == faults + moves < MaxTrouble
Faults(n) == Trouble /\ faults' = faults + n
Fault == Faults(1)
NoFault == UNCHANGED faults
Become(i, t, r) == reader' = [reader EXCEPT ![i][t] = r]

-----------------------------------------------------------------------------
(* Producing *)

Make == made' = made + 1
Made(i) == [by |-> i, n |-> made + 1]

\* Mutant of Slog: the channel grows.
SlogUnbounded(i, level) ==
  IF level \in Levels
  THEN Make /\ channel' = [channel EXCEPT ![i] = Append(@, Made(i))]
  ELSE UNCHANGED sources

\* TeeHandler passes a record on to KafkaHandler.Handle if its level is
\* enabled, and a full channel drops it.
Slog(i, level) ==
  IF level \in Levels
  THEN /\ Make
       /\ channel' = IF Len(channel[i]) < BufferSize
                     THEN [channel EXCEPT ![i] = Append(@, Made(i))] ELSE channel
  ELSE UNCHANGED sources

\* A request is logged.
Log(i) ==
  /\ made < MaxMade
  /\ Slog(i, "info")
  /\ UNCHANGED <<writers, kafka, reader, handled, logs, faults, groups>>

\* Mutant of Drain: a goroutine for each record, in no order.
DrainAnyhow(i) ==
  /\ writing[i]["app-logs"] = <<>>
  /\ \E k \in DOMAIN channel[i] :
       /\ writing' = [writing EXCEPT ![i]["app-logs"] = <<channel[i][k]>>]
       /\ channel' = [channel EXCEPT ![i] = SubSeq(@, 1, k - 1) \o SubSeq(@, k + 1, Len(@))]
  /\ UNCHANGED <<made, retry, kafka, reader, handled, logs, faults, groups>>

\* Mutant of Drain: it does not wait for the end of its write.
DrainAsync(i) ==
  /\ channel[i] # <<>>
  /\ writing' = [writing EXCEPT ![i]["app-logs"] = Append(@, Head(channel[i]))]
  /\ channel' = [channel EXCEPT ![i] = Tail(@)]
  /\ UNCHANGED <<made, retry, kafka, reader, handled, logs, faults, groups>>

\* Mutant of Drain: the record leaves the channel when somebody else takes it.
DrainPeeks(i) ==
  /\ writing[i]["app-logs"] = <<>> /\ channel[i] # <<>>
  /\ writing' = [writing EXCEPT ![i]["app-logs"] = <<Head(channel[i])>>]
  /\ UNCHANGED <<sources, retry, kafka, reader, handled, logs, faults, groups>>

\* The drain goroutine takes the next record and publishes it, and waits for
\* the end of that.
Drain(i) ==
  /\ writing[i]["app-logs"] = <<>> /\ channel[i] # <<>>
  /\ writing' = [writing EXCEPT ![i]["app-logs"] = <<Head(channel[i])>>]
  /\ channel' = [channel EXCEPT ![i] = Tail(@)]
  /\ UNCHANGED <<made, retry, kafka, reader, handled, logs, faults, groups>>

\* The service makes an event with a fresh id and publishes it, concurrently
\* with other requests.  What JSON cannot express never gets to the writer: an
\* error is answered.
PublishConversion(i, amount) ==
  /\ amount # "not finite"
  /\ made < MaxMade
  /\ Make
  /\ writing' = [writing EXCEPT ![i]["conversions"] = Append(@, Made(i))]
  /\ UNCHANGED <<channel, retry, kafka, reader, handled, logs, faults, groups>>

\* Over HTTP the payload must hold two strings and a JSON number; the type of
\* the event is ignored.
HttpPublishEvent(i, amount) == amount = "number" /\ PublishConversion(i, amount)

\* Over gRPC all three are strings, and Sscanf must read the amount.
GrpcPublishEvent(i, amount) == amount # "no number" /\ PublishConversion(i, amount)

\* Nothing is checked here, the amount is a double.
GrpcPublishConversion(i, amount) == amount # "no number" /\ PublishConversion(i, amount)

\* What the writer tries next: the batch it has failed on, or a new one.
Batches(i, t) ==
  IF retry[i][t] = 0 THEN 1 .. Len(writing[i][t]) ELSE {retry[i][t]}

\* One attempt of the writer at a batch.  NewProducer asks for no
\* acknowledgement, so that the batch may be lost and reported as written.  Or
\* the attempt fails although the batch was written, and after a pause, in which
\* others write, the writer tries the whole batch again, or gives up.  (An
\* attempt that fails and has written nothing changes nothing.)  Nobody else
\* tries again: the drain goroutine ignores the error, a handler answers it.
Publish(i, t) ==
  /\ \E n \in Batches(i, t) :
       LET written == [topic EXCEPT ![t] = @ \o SubSeq(writing[i][t], 1, n)] IN
       \/ /\ (NoFault /\ topic' = written) \/ (Faults(n) /\ topic' = topic)
          /\ writing' = [writing EXCEPT ![i][t] = SubSeq(@, n + 1, Len(@))]
          /\ retry' = [retry EXCEPT ![i][t] = 0]
       \/ /\ Faults(n)
          /\ topic' = written
          /\ retry' = [retry EXCEPT ![i][t] = n]
          /\ UNCHANGED writing
  /\ UNCHANGED <<sources, committed, owner, reader, handled, logs, groups>>

-----------------------------------------------------------------------------
(* Consuming *)

\* Mutant of Fetch: the reader goes for the newest message.
FetchLatest(i, t) ==
  LET r == reader[i][t] IN
  /\ owner[t] = i /\ r.at = "read" /\ r.next < Len(topic[t])
  /\ Become(i, t, [at |-> "commit", next |-> Len(topic[t]), offset |-> Len(topic[t]) - 1])
  /\ UNCHANGED <<sources, writers, kafka, handled, logs, faults, groups>>

\* ReadMessage fetches a message ...
Fetch(i, t) ==
  LET r == reader[i][t] IN
  /\ owner[t] = i /\ r.at = "read" /\ r.next < Len(topic[t])
  /\ Become(i, t, [at |-> "commit", next |-> r.next + 1, offset |-> r.next])
  /\ UNCHANGED <<sources, writers, kafka, handled, logs, faults, groups>>

\* Mutant of Commit: offsets are committed now and then, in the background.
CommitLater(i, t) ==
  LET r == reader[i][t] IN
  /\ r.at = "commit"
  /\ committed' = committed \/ committed' = [committed EXCEPT ![t] = r.offset + 1]
  /\ Become(i, t, [r EXCEPT !.at = "handle"])
  /\ UNCHANGED <<sources, writers, topic, owner, handled, logs, faults, groups>>

\* ... and commits it before Consume hands it on.  The commit belongs to the
\* group's present generation, not to the one the message was fetched in.
Commit(i, t) ==
  LET r == reader[i][t] IN
  /\ r.at = "commit"
  /\ committed' = [committed EXCEPT ![t] = r.offset + 1]
  /\ Become(i, t, [r EXCEPT !.at = "handle"])
  /\ UNCHANGED <<sources, writers, topic, owner, handled, logs, faults, groups>>

\* ReadMessage fails.  If that was the commit, or its answer was lost, the
\* message is dropped: Consume logs the error and reads on behind it.
ReadFails(i, t) ==
  LET r == reader[i][t] IN
  /\ r.at \in {"read", "commit"}
  /\ Fault
  /\ \/ committed' = committed
     \/ r.at = "commit" /\ committed' = [committed EXCEPT ![t] = r.offset + 1]
  /\ Slog(i, "error")
  /\ Become(i, t, [r EXCEPT !.at = "read"])
  /\ UNCHANGED <<writers, topic, owner, handled, logs, groups>>

Handled(i, t) ==
  /\ reader[i][t].at = "handle"
  /\ handled' = [handled EXCEPT ![t] = @ \cup {reader[i][t].offset}]
  /\ Become(i, t, [reader[i][t] EXCEPT !.at = "read"])

\* handleConversionEvent logs the event.  (Its error is for a message that is no
\* JSON, and none of the program's own is.)
HandleEvent(i) ==
  /\ Handled(i, "conversions")
  /\ Slog(i, "info")
  /\ UNCHANGED <<writers, kafka, logs, faults, groups>>

\* The log handler inserts a row.
Insert(i) ==
  /\ Handled(i, "app-logs")
  /\ logs' = Append(logs, topic["app-logs"][reader[i]["app-logs"].offset + 1])
  /\ UNCHANGED <<sources, writers, kafka, faults, groups>>

\* Mutant of InsertFails: Consume returns the error.
InsertFailsStops(i) ==
  /\ Handled(i, "app-logs")
  /\ Fault
  /\ owner' = [owner EXCEPT !["app-logs"] = "nobody"]
  /\ Slog(i, "error")
  /\ UNCHANGED <<writers, topic, committed, logs, groups>>

\* The INSERT fails, which Consume logs: a new record in place of the old.
InsertFails(i) ==
  /\ Handled(i, "app-logs")
  /\ Fault
  /\ Slog(i, "error")
  /\ UNCHANGED <<writers, kafka, logs, groups>>

-----------------------------------------------------------------------------
(* Outside *)

\* A group of topic t in which the consumers in S hold a message is disturbed
\* by a rebalance.
Holding(t, S) == \E j \in S : reader[j][t].at # "read"

\* A group is rebalanced: a member has come back, was slow, or left in good
\* order.  The partition is assigned anew, maybe to the same process, which
\* reads from the committed offset.  A message in the hands of a consumer stays
\* there.
Rebalance(t, i) ==
  /\ Trouble
  /\ moves' = moves + 1
  /\ owner' = [owner EXCEPT ![t] = i]
  /\ Become(i, t, [reader[i][t] EXCEPT !.next = committed[t]])
  /\ disturbed' = disturbed \cup {u \in {t} : Holding(u, Instances)}
  /\ UNCHANGED <<sources, writers, topic, committed, handled, logs, faults>>

\* A process dies and is restarted.  It was in both groups, whether it owned
\* anything or not, so both are rebalanced: every partition is assigned anew,
\* and read from the committed offset, also by those who keep theirs.
Crash(i) ==
  /\ Fault
  /\ channel' = [channel EXCEPT ![i] = <<>>]
  /\ writing' = [writing EXCEPT ![i] = [t \in Topics |-> <<>>]]
  /\ retry' = [retry EXCEPT ![i] = [t \in Topics |-> 0]]
  /\ owner' \in [Topics -> Instances]
  /\ reader' = [j \in Instances |-> [t \in Topics |->
                 IF j = i THEN Fresh(t) ELSE [reader[j][t] EXCEPT !.next = committed[t]]]]
  /\ disturbed' = disturbed \cup {t \in Topics : Holding(t, Instances \ {i})}
  /\ UNCHANGED <<made, topic, committed, handled, logs, moves>>

-----------------------------------------------------------------------------
Init ==
  /\ made = 0
  /\ channel = [i \in Instances |-> <<>>]
  /\ writing = [i \in Instances |-> [t \in Topics |-> <<>>]]
  /\ retry = [i \in Instances |-> [t \in Topics |-> 0]]
  /\ topic = [t \in Topics |-> <<>>]
  /\ committed = [t \in Topics |-> 0]
  /\ owner \in [Topics -> Instances]
  /\ reader = [i \in Instances |-> [t \in Topics |-> Fresh(t)]]
  /\ handled = [t \in Topics |-> {}]
  /\ logs = <<>>
  /\ faults = 0 /\ moves = 0 /\ disturbed = {}

Consume(i, t) ==
  \/ Fetch(i, t) \/ Commit(i, t)
  \/ t = "conversions" /\ HandleEvent(i)
  \/ t = "app-logs" /\ Insert(i)

Next ==
  \/ \E i \in Instances : Log(i) \/ Drain(i) \/ InsertFails(i) \/ Crash(i)
  \/ \E i \in Instances, a \in Amounts :
       HttpPublishEvent(i, a) \/ GrpcPublishEvent(i, a) \/ GrpcPublishConversion(i, a)
  \/ \E i \in Instances, t \in Topics :
       Publish(i, t) \/ Consume(i, t) \/ ReadFails(i, t) \/ Rebalance(t, i)

Spec == Init /\ [][Next]_vars

\* The drain goroutine and the consumers run, and what they wait for ends.  No
\* fault has to happen.
FairSpec ==
  /\ Spec
  /\ \A i \in Instances :
       /\ WF_vars(Drain(i))
       /\ \A t \in Topics : WF_vars(Publish(i, t)) /\ WF_vars(Consume(i, t))

-----------------------------------------------------------------------------
(* Properties *)

\* Unless a group is rebalanced under a live consumer that holds a message, a
\* message is handled at most once, and after all earlier ones, whatever crashes
\* and fails: it was committed before it was handled.
AtMostOnce ==
  \A i \in Instances, t \in Topics :
    (t \notin disturbed /\ reader[i][t].at = "handle")
      => \A o \in handled[t] : o < reader[i][t].offset

InOrder(s) == \A j, k \in DOMAIN s : (j < k /\ s[j].by = s[k].by) => s[j].n <= s[k].n

\* A process's records are in the topic in the order in which it logged them,
\* however often the writer repeats one and whatever is lost or crashes: the
\* drain goroutine never has two under way.  (Of events this is not true: a
\* batch of two that is repeated puts the first behind the second.)
WrittenInOrder == InOrder(topic["app-logs"])

\* So do the rows of the logs table keep it, until that group is disturbed.
LogsInOrder == "app-logs" \notin disturbed => InOrder(logs)

\* Channels, batches, offsets, consumers and their crashes are invisible: what
\* comes of a message is what Delivery says, under every interleaving.
Pending ==
  [t \in Topics |-> UNION {{writing[i][t][k] : k \in DOMAIN writing[i][t]} : i \in Instances}]
Promise == INSTANCE Delivery WITH LogTopic <- "app-logs", pending <- Pending
ImplementsDelivery == Promise!Spec

\* Until the group is disturbed the logs table is a part of the topic in its
\* order, no offset having made two rows, whatever crashes between a commit, an
\* insert and the next fetch.
LogsFollowTopic == Promise!Follows

\* The loop does not amplify: an event is handled by logging it and a failure
\* logs one more record, into the pipeline that may fail on it again.  Still,
\* until the events' group is disturbed, what is made is at most two for each
\* request and one for each fault, the events a retry repeats included.
NoAmplification == "conversions" \notin disturbed => made <= 2 * MaxMade + faults

\* Without a fault everything that is written reaches its handler, and a
\* record the logs table, through any number of rebalances.
Delivered ==
  \A t \in Topics, n \in 1 .. MaxMade :
    (\E m \in Pending[t] : m.n = n) ~>
      (faults > 0 \/ \E o \in handled[t] : topic[t][o + 1].n = n)

\* Once nothing fails any more the pipeline comes to rest, although failures
\* feed it: every message in a topic has been handled or given up.
Settled ==
  /\ \A i \in Instances :
       /\ channel[i] = <<>>
       /\ \A t \in Topics : writing[i][t] = <<>> /\ reader[i][t].at = "read"
  /\ \A t \in Topics : owner[t] \in Instances /\ reader[owner[t]][t].next = Len(topic[t])
Settles == <>[]Settled
=============================================================================
