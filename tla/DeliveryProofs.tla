--------------------------- MODULE DeliveryProofs ---------------------------
(***************************************************************************)
(* Pipeline implements Delivery, for any number of processes, buffer size, *)
(* faults and rebalances; what that means for the logs table; that the     *)
(* loop of failures that are logged into the pipeline does not amplify;    *)
(* and that without a fault nothing is skipped.                            *)
(***************************************************************************)
EXTENDS PipelineProofs, FiniteSets, FiniteSetTheorems

\* What a process writes is its own, and numbers are given out in order.
FreshInv ==
  /\ \A i \in Instances, t \in Topics : \A w \in 1 .. Len(writing[i][t]) :
       writing[i][t][w].by = i /\ writing[i][t][w].n <= made
  /\ \A t \in Topics : \A o \in 1 .. Len(topic[t]) : topic[t][o].n <= made

\* Slog makes a number or not.
LEMMA SlogMakes ==
  ASSUME SourceInv, NEW i \in Instances, NEW level, Slog(i, level)
  PROVE  made \in Nat /\ made' \in Nat /\ made <= made'
BY DEF SourceInv, SourceTypes, Slog, Make, sources

\* Numbers already given out stay so.
LEMMA FreshKept ==
  ASSUME SourceInv, FreshInv, made' \in Nat, made <= made'
  PROVE  /\ \A i \in Instances, t \in Topics : \A w \in 1 .. Len(writing[i][t]) :
              writing[i][t][w].by = i /\ writing[i][t][w].n <= made'
         /\ \A t \in Topics : \A o \in 1 .. Len(topic[t]) : topic[t][o].n <= made'
<1>1. made \in Nat
  BY DEF SourceInv, SourceTypes
<1>2. ASSUME NEW i \in Instances, NEW t \in Topics, NEW w \in 1 .. Len(writing[i][t])
      PROVE  writing[i][t][w].by = i /\ writing[i][t][w].n <= made'
  <2>1. writing[i][t][w].n \in Nat
    BY <1>2, WritingTypes, MessageTypes
  <2>2. writing[i][t][w].by = i /\ writing[i][t][w].n <= made
    BY <1>2 DEF FreshInv
  <2> QED
    BY <1>1, <2>1, <2>2
<1>3. ASSUME NEW t \in Topics, NEW o \in 1 .. Len(topic[t]) PROVE topic[t][o].n <= made'
  <2>1. topic[t][o].n \in Nat
    BY <1>3, TopicTypes, LenProperties, MessageTypes
  <2>2. topic[t][o].n <= made
    BY <1>3 DEF FreshInv
  <2> QED
    BY <1>1, <2>1, <2>2
<1> QED
  BY <1>2, <1>3

\* A step that neither writes nor publishes.
LEMMA FreshSame ==
  ASSUME SourceInv, FreshInv, made' \in Nat, made <= made', UNCHANGED <<writing, topic>>
  PROVE  FreshInv'
BY FreshKept DEF FreshInv

\* Process i begins to write m, the newest it made or one from its channel.
LEMMA FreshWriting ==
  ASSUME SourceInv, FreshInv, NEW i \in Instances, NEW t \in Topics, NEW m \in Message,
         m.by = i, m.n <= made', made' \in Nat, made <= made',
         writing' = [writing EXCEPT ![i][t] = Append(@, m)], UNCHANGED topic
  PROVE  FreshInv'
<1>1. writing \in [Instances -> [Topics -> Seq(Message)]]
  BY DEF SourceInv, SourceTypes
<1>2. PICK a : a = Append(writing[i][t], m)
  OBVIOUS
<1>3. /\ Len(a) = Len(writing[i][t]) + 1 /\ Len(writing[i][t]) \in Nat
      /\ \A w \in 1 .. Len(writing[i][t]) : a[w] = writing[i][t][w]
      /\ a[Len(writing[i][t]) + 1] = m
  BY <1>2, WritingTypes, AppendProperties
<1>4. /\ writing'[i][t] = a
      /\ \A j \in Instances, u \in Topics : (j # i \/ u # t) => writing'[j][u] = writing[j][u]
  BY <1>1, <1>2
<1>5. ASSUME NEW j \in Instances, NEW u \in Topics, NEW w \in 1 .. Len(writing'[j][u])
      PROVE  writing'[j][u][w].by = j /\ writing'[j][u][w].n <= made'
  <2>1. CASE j = i /\ u = t
    <3>1. CASE w = Len(writing[i][t]) + 1
      BY <1>3, <1>4, <2>1, <3>1
    <3>2. CASE w # Len(writing[i][t]) + 1
      <4>1. w \in 1 .. Len(writing[i][t]) /\ writing'[i][t][w] = writing[i][t][w]
        BY <1>3, <1>4, <1>5, <2>1, <3>2
      <4> QED
        BY <2>1, <4>1, FreshKept
    <3> QED
      BY <3>1, <3>2
  <2>2. CASE j # i \/ u # t
    BY <1>4, <1>5, <2>2, FreshKept
  <2> QED
    BY <2>1, <2>2
<1> QED
  BY <1>5, FreshKept DEF FreshInv

LEMMA FreshPublish ==
  ASSUME SourceInv, FreshInv, NEW i \in Instances, NEW t \in Topics, Publish(i, t)
  PROVE  FreshInv'
<1>1. made' = made
  BY DEF Publish, sources
<1>2. /\ Appends(i, t) /\ Shrinks(i, t)
      /\ \A u \in Topics : u # t => topic'[u] = topic[u]
      /\ \A j \in Instances, u \in Topics : (j # i \/ u # t) => writing'[j][u] = writing[j][u]
  BY PublishAppends, PublishShape
<1>3. ASSUME NEW j \in Instances, NEW u \in Topics, NEW w \in 1 .. Len(writing'[j][u])
      PROVE  writing'[j][u][w].by = j /\ writing'[j][u][w].n <= made'
  <2>1. CASE j = i /\ u = t
    <3>1. PICK v \in 1 .. Len(writing[i][t]) : writing'[i][t][w] = writing[i][t][v]
      BY <1>2, <1>3, <2>1 DEF Shrinks
    <3> QED
      BY <1>1, <2>1, <3>1 DEF FreshInv
  <2>2. CASE j # i \/ u # t
    BY <1>1, <1>2, <1>3, <2>2 DEF FreshInv
  <2> QED
    BY <2>1, <2>2
<1>4. ASSUME NEW u \in Topics, NEW o \in 1 .. Len(topic'[u]) PROVE topic'[u][o].n <= made'
  <2>1. CASE u = t /\ o > Len(topic[t])
    <3>1. PICK v \in 1 .. Len(writing[i][t]) : topic'[t][o] = writing[i][t][v]
      BY <1>2, <1>4, <2>1 DEF Appends
    <3> QED
      BY <1>1, <2>1, <3>1 DEF FreshInv
  <2>2. CASE u = t /\ o <= Len(topic[t])
    <3>1. o \in 1 .. Len(topic[u]) /\ topic'[u][o] = topic[u][o]
      BY <1>2, <1>4, <2>2 DEF Appends
    <3> QED
      BY <1>1, <3>1 DEF FreshInv
  <2>3. CASE u # t
    BY <1>1, <1>2, <1>4, <2>3 DEF FreshInv
  <2>4. o \in Nat /\ Len(topic[t]) \in Nat
    BY <1>2, <1>4 DEF Appends
  <2> QED
    BY <2>1, <2>2, <2>3, <2>4
<1> QED
  BY <1>3, <1>4 DEF FreshInv

\* What a crash does to what is being written.
LEMMA CrashWriting ==
  ASSUME SourceInv, NEW i \in Instances, Crash(i), NEW j \in Instances, NEW t \in Topics
  PROVE  writing'[j][t] = IF j = i THEN <<>> ELSE writing[j][t]
<1>1. /\ writing' = [writing EXCEPT ![i] = [u \in Topics |-> <<>>]]
      /\ writing \in [Instances -> [Topics -> Seq(Message)]]
  BY DEF Crash, SourceInv, SourceTypes
<1> QED
  BY <1>1

LEMMA FreshCrash ==
  ASSUME SourceInv, FreshInv, NEW i \in Instances, Crash(i)
  PROVE  FreshInv'
<1>1. UNCHANGED <<made, topic>>
  BY DEF Crash
<1>2. ASSUME NEW j \in Instances, NEW u \in Topics, NEW w \in 1 .. Len(writing'[j][u])
      PROVE  writing'[j][u] = writing[j][u]
  <2>1. Len(<<>>) = 0
    BY EmptySeq
  <2>2. writing'[j][u] # <<>>
    BY <1>2, <2>1
  <2> QED
    BY <2>2, CrashWriting
<1> QED
  BY <1>1, <1>2 DEF FreshInv

\* The record the drain goroutine takes is its process's own, and newer than
\* all of it that was written.
LEMMA DrainTakes ==
  ASSUME SourceInv, NEW i \in Instances, Drain(i), NEW m, m = Head(channel[i])
  PROVE  /\ m \in Message /\ m.by = i /\ m.n <= made
         /\ \A o \in 1 .. Len(topic[L]) : topic[L][o] # m
         /\ Len(writing[i][L]) = 0 /\ writing' = [writing EXCEPT ![i][L] = Append(@, m)]
         /\ UNCHANGED <<made, topic, handled, logs, disturbed>>
<1> USE TopicIsString
<1>1. channel[i] \in Seq(Message) /\ channel[i] # <<>>
  BY DEF SourceInv, SourceTypes, Drain
<1>2. 1 \in 1 .. Len(channel[i]) /\ m = channel[i][1] /\ m \in Message
  BY <1>1
<1>3. m.by = i /\ m.n <= made
  BY <1>2 DEF SourceInv, ChannelOK
<1>4. ASSUME NEW o \in 1 .. Len(topic[L]), topic[L][o] = m PROVE FALSE
  <2>1. m.n < m.n
    BY <1>2, <1>3, <1>4 DEF SourceInv, WrittenOK
  <2> QED
    BY <1>2, <2>1, MessageTypes
<1>5. /\ writing[i][L] = <<>> /\ writing' = [writing EXCEPT ![i][L] = <<m>>]
      /\ UNCHANGED <<made, topic, handled, logs, disturbed>>
  BY DEF Drain, L, kafka, groups
<1>6. <<m>> = Append(writing[i][L], m) /\ Len(writing[i][L]) = 0
  BY <1>2, <1>5
<1>7. writing' = [writing EXCEPT ![i][L] = Append(@, m)]
  BY <1>5, <1>6
<1> QED
  BY <1>2, <1>3, <1>4, <1>5, <1>6, <1>7

\* The event a request publishes has a number of its own.
LEMMA EventTakes ==
  ASSUME SourceInv, NEW i \in Instances, NEW a, PublishConversion(i, a), NEW m, m = Made(i)
  PROVE  /\ m \in Message /\ m.by = i /\ m.n = made + 1 /\ made' = made + 1 /\ made \in Nat
         /\ made < MaxMade
         /\ "conversions" \in Topics
         /\ writing' = [writing EXCEPT ![i]["conversions"] = Append(@, m)]
         /\ UNCHANGED <<topic, committed, owner, reader, handled, logs, faults, disturbed>>
<1>1. made \in Nat /\ "conversions" \in Topics
  BY DEF SourceInv, SourceTypes, Topics
<1>2. m \in Message /\ m.by = i /\ m.n = made + 1
  BY <1>1 DEF Made, Message
<1> QED
  BY <1>1, <1>2 DEF PublishConversion, Make, kafka, groups

LEMMA FreshStep ==
  ASSUME SourceInv, FreshInv, [Next]_vars
  PROVE  FreshInv'
<1>0. made \in Nat
  BY DEF SourceInv, SourceTypes
<1>1. ASSUME UNCHANGED <<made, writing, topic>> PROVE FreshInv'
  BY <1>0, <1>1, FreshSame
<1>2. ASSUME NEW i \in Instances, NEW level, Slog(i, level), UNCHANGED <<writing, topic>>
      PROVE  FreshInv'
  BY <1>2, SlogMakes, FreshSame
<1>3. ASSUME NEW i \in Instances, Drain(i) PROVE FreshInv'
  <2>1. PICK m : m = Head(channel[i])
    OBVIOUS
  <2>2. /\ m \in Message /\ m.by = i /\ m.n <= made
        /\ writing' = [writing EXCEPT ![i][L] = Append(@, m)] /\ UNCHANGED <<made, topic>>
    BY <1>3, <2>1, DrainTakes
  <2>3. made' \in Nat /\ made <= made' /\ m.n <= made'
    BY <1>0, <2>2
  <2> QED
    BY <2>2, <2>3, FreshWriting, TopicIsString
<1>4. ASSUME NEW i \in Instances, NEW a \in Amounts, PublishConversion(i, a) PROVE FreshInv'
  <2>1. PICK m : m = Made(i)
    OBVIOUS
  <2>2. /\ m \in Message /\ m.by = i /\ m.n = made + 1 /\ made' = made + 1
        /\ "conversions" \in Topics /\ UNCHANGED topic
        /\ writing' = [writing EXCEPT ![i]["conversions"] = Append(@, m)]
    BY <1>4, <2>1, EventTakes
  <2>3. made' \in Nat /\ made <= made' /\ m.n <= made'
    BY <1>0, <2>2
  <2> QED
    BY <2>2, <2>3, FreshWriting
<1>5. ASSUME NEW i \in Instances, NEW t \in Topics, Fetch(i, t) \/ Commit(i, t) \/ Rebalance(t, i)
      PROVE  FreshInv'
  BY <1>1, <1>5 DEF Fetch, Commit, Rebalance, sources, writers, kafka
<1>6. ASSUME NEW i \in Instances, Insert(i) PROVE FreshInv'
  BY <1>1, <1>6 DEF Insert, sources, writers, kafka
<1>7. CASE UNCHANGED vars
  BY <1>1, <1>7 DEF vars, sources, writers, kafka
<1>8. ASSUME NEW i \in Instances, Log(i) \/ HandleEvent(i) \/ InsertFails(i) PROVE FreshInv'
  BY <1>2, <1>8 DEF Log, HandleEvent, InsertFails, writers, kafka
<1>9. ASSUME NEW i \in Instances, NEW t \in Topics, ReadFails(i, t) PROVE FreshInv'
  BY <1>2, <1>9 DEF ReadFails, writers
<1> QED
  BY <1>3, <1>4, <1>5, <1>6, <1>7, <1>8, <1>9, FreshPublish, FreshCrash
  DEF Next, Consume, HttpPublishEvent, GrpcPublishEvent, GrpcPublishConversion

-----------------------------------------------------------------------------
(* The refinement, action by action *)

\* What some process holds for topic t.
LEMMA PendingMember ==
  ASSUME SourceInv, NEW t \in Topics, NEW x
  PROVE  x \in Pending[t] <=>
           \E i \in Instances : \E w \in 1 .. Len(writing[i][t]) : x = writing[i][t][w]
<1>1. \A i \in Instances : DOMAIN writing[i][t] = 1 .. Len(writing[i][t])
  BY WritingTypes
<1>2. Pending[t] = UNION {{writing[i][t][w] : w \in 1 .. Len(writing[i][t])} : i \in Instances}
  BY <1>1 DEF Pending
<1> QED
  BY <1>2

LEMMA PendingMemberNext ==
  ASSUME SourceInv', NEW t \in Topics, NEW x
  PROVE  x \in Pending'[t] <=>
           \E i \in Instances : \E w \in 1 .. Len(writing'[i][t]) : x = writing'[i][t][w]
<1>1. \A i \in Instances : DOMAIN writing'[i][t] = 1 .. Len(writing'[i][t])
  BY LenProperties DEF SourceInv, SourceTypes
<1>2. Pending'[t] = UNION {{writing'[i][t][w] : w \in 1 .. Len(writing'[i][t])} : i \in Instances}
  BY <1>1 DEF Pending
<1> QED
  BY <1>2

\* A topic nobody begins or ends to write to.
LEMMA PendingSame ==
  ASSUME NEW t \in Topics, \A j \in Instances : writing'[j][t] = writing[j][t]
  PROVE  Pending'[t] = Pending[t]
BY DEF Pending

LEMMA PendingFunction ==
  ASSUME NEW f, NEW t \in Topics, Pending'[t] = f, \A u \in Topics : u # t => Pending'[u] = Pending[u]
  PROVE  Pending' = [Pending EXCEPT ![t] = f]
<1>1. Pending' = [u \in Topics |-> Pending'[u]] /\ DOMAIN Pending = Topics
  BY DEF Pending
<1> QED
  BY <1>1

\* One process begins a write: what is pending grows by that message.
LEMMA PendingAccepts ==
  ASSUME SourceInv, SourceInv', NEW i \in Instances, NEW t \in Topics, NEW m \in Message,
         writing' = [writing EXCEPT ![i][t] = Append(@, m)]
  PROVE  Pending' = [Pending EXCEPT ![t] = @ \cup {m}]
<1>1. writing \in [Instances -> [Topics -> Seq(Message)]]
  BY DEF SourceInv, SourceTypes
<1>2. PICK a : a = Append(writing[i][t], m)
  OBVIOUS
<1>3. /\ Len(a) = Len(writing[i][t]) + 1 /\ Len(writing[i][t]) \in Nat
      /\ \A w \in 1 .. Len(writing[i][t]) : a[w] = writing[i][t][w]
      /\ a[Len(writing[i][t]) + 1] = m
  BY <1>2, WritingTypes, AppendProperties
<1>4. /\ writing'[i][t] = a
      /\ \A j \in Instances, u \in Topics : (j # i \/ u # t) => writing'[j][u] = writing[j][u]
  BY <1>1, <1>2
<1>5. ASSUME NEW x \in Pending'[t] PROVE x \in Pending[t] \cup {m}
  <2>1. PICK j \in Instances : \E w \in 1 .. Len(writing'[j][t]) : x = writing'[j][t][w]
    BY <1>5, PendingMemberNext
  <2>2. PICK w \in 1 .. Len(writing'[j][t]) : x = writing'[j][t][w]
    BY <2>1
  <2>3. CASE j = i /\ w = Len(writing[i][t]) + 1
    BY <1>3, <1>4, <2>2, <2>3
  <2>4. CASE j # i \/ w # Len(writing[i][t]) + 1
    <3>1. w \in 1 .. Len(writing[j][t]) /\ x = writing[j][t][w]
      BY <1>3, <1>4, <2>2, <2>4
    <3> QED
      BY <3>1, PendingMember
  <2> QED
    BY <2>3, <2>4
<1>6. ASSUME NEW x \in Pending[t] \cup {m} PROVE x \in Pending'[t]
  <2>1. CASE x = m
    <3>1. Len(writing[i][t]) + 1 \in 1 .. Len(writing'[i][t])
      BY <1>3, <1>4
    <3> QED
      BY <1>3, <1>4, <2>1, <3>1, PendingMemberNext
  <2>2. CASE x \in Pending[t]
    <3>1. PICK j \in Instances : \E w \in 1 .. Len(writing[j][t]) : x = writing[j][t][w]
      BY <2>2, PendingMember
    <3>2. PICK w \in 1 .. Len(writing[j][t]) : x = writing[j][t][w]
      BY <3>1
    <3>3. w \in 1 .. Len(writing'[j][t]) /\ x = writing'[j][t][w]
      BY <1>3, <1>4, <3>2
    <3> QED
      BY <3>3, PendingMemberNext
  <2> QED
    BY <1>6, <2>1, <2>2
<1>7. Pending'[t] = Pending[t] \cup {m}
  BY <1>5, <1>6
<1>8. \A u \in Topics : u # t => Pending'[u] = Pending[u]
  BY <1>4, PendingSame
<1> QED
  BY <1>7, <1>8, PendingFunction

\* Handlers see one message behind another, at most once each, until disturbed.
LEMMA HandledStep ==
  ASSUME SourceInv, GroupInv, NEW i \in Instances, NEW t \in Topics, Handled(i, t),
         UNCHANGED <<writing, topic, disturbed>>,
         UNCHANGED logs \/ (t = L /\ logs' = Append(logs, topic[t][reader[i][t].offset + 1]))
  PROVE  Promise!Next
<1>1. PICK o : o = reader[i][t].offset
  OBVIOUS
<1>2. /\ reader[i][t].at = "handle" /\ o \in Nat /\ o < Len(topic[t]) /\ Len(topic[t]) \in Nat
      /\ topic[t] \in Seq(Message) /\ handled' = [handled EXCEPT ![t] = @ \cup {o}]
  BY <1>1, ReaderTypes, TopicTypes DEF Handled, GroupInv, GroupTypes, PlaceOK
<1>3. o + 1 \in DOMAIN topic[t]
  BY <1>2, LenProperties
<1>4. t \notin disturbed => \A h \in handled[t] : h < o
  BY <1>1, <1>2 DEF GroupInv, ReaderOK
<1>5. Pending' = Pending
  BY DEF Pending
<1>6. o \in handled'[t]
  BY <1>2 DEF GroupInv, GroupTypes
<1>7. Promise!Handle(t, o)
  <2>1. UNCHANGED logs \/ (t = "app-logs" /\ logs' = Append(logs, topic[t][o + 1]))
    BY <1>1 DEF L
  <2>2. handled' = [handled EXCEPT ![t] = @ \cup {o}]
    BY <1>2
  <2> QED
    BY <1>3, <1>4, <1>5, <2>1, <2>2 DEF Promise!Handle
<1> QED
  BY <1>6, <1>7 DEF Promise!Next

\* An attempt of the writer, successful, lost or repeated.
LEMMA PublishStep ==
  ASSUME SourceInv, SourceInv', NEW i \in Instances, NEW t \in Topics, Publish(i, t)
  PROVE  Promise!Next
<1>1. /\ Appends(i, t) /\ Shrinks(i, t) /\ topic' \in [Topics -> Seq(Message)]
      /\ \A u \in Topics : u # t => topic'[u] = topic[u]
      /\ \A j \in Instances, u \in Topics : (j # i \/ u # t) => writing'[j][u] = writing[j][u]
  BY PublishAppends, PublishShape
<1>2. UNCHANGED <<handled, logs, disturbed>>
  BY DEF Publish, groups
<1>3. \A u \in Topics \ {t} : topic'[u] = topic[u] /\ Pending'[u] = Pending[u]
  BY <1>1, PendingSame
<1>4. ASSUME NEW x \in Pending'[t] PROVE x \in Pending[t]
  <2>1. PICK j \in Instances : \E w \in 1 .. Len(writing'[j][t]) : x = writing'[j][t][w]
    BY <1>4, PendingMemberNext
  <2>2. PICK w \in 1 .. Len(writing'[j][t]) : x = writing'[j][t][w]
    BY <2>1
  <2>3. CASE j = i
    <3>1. PICK v \in 1 .. Len(writing[i][t]) : writing'[i][t][w] = writing[i][t][v]
      BY <1>1, <2>2, <2>3 DEF Shrinks
    <3> QED
      BY <2>2, <2>3, <3>1, PendingMember
  <2>4. CASE j # i
    BY <1>1, <2>2, <2>4, PendingMember
  <2> QED
    BY <2>3, <2>4
<1>5. Promise!Extends(topic'[t], topic[t], Pending[t])
  <2>1. /\ DOMAIN topic'[t] = 1 .. Len(topic'[t]) /\ Len(topic[t]) \in Nat
        /\ Len(topic[t]) <= Len(topic'[t]) /\ Len(topic'[t]) \in Nat
    BY <1>1, LenProperties DEF Appends
  <2>2. ASSUME NEW o \in 1 .. Len(topic'[t])
        PROVE  IF o <= Len(topic[t]) THEN topic'[t][o] = topic[t][o] ELSE topic'[t][o] \in Pending[t]
    <3>1. CASE o <= Len(topic[t])
      <4>1. o \in 1 .. Len(topic[t])
        BY <2>1, <2>2, <3>1
      <4> QED
        BY <1>1, <3>1, <4>1 DEF Appends
    <3>2. CASE ~(o <= Len(topic[t]))
      <4>1. PICK w \in 1 .. Len(writing[i][t]) : topic'[t][o] = writing[i][t][w]
        BY <1>1, <2>1, <2>2, <3>2 DEF Appends
      <4> QED
        BY <3>2, <4>1, PendingMember
    <3> QED
      BY <3>1, <3>2
  <2> QED
    BY <2>1, <2>2 DEF Promise!Extends
<1>6. Promise!Write(t)
  BY <1>2, <1>3, <1>4, <1>5 DEF Promise!Write
<1> QED
  BY <1>6 DEF Promise!Next

\* The drain goroutine and the event handlers begin to write a new message.
LEMMA AcceptStep ==
  ASSUME SourceInv, SourceInv', NEW i \in Instances, NEW t \in Topics, NEW m \in Message,
         m \notin Pending[t], \A o \in 1 .. Len(topic[t]) : topic[t][o] # m,
         writing' = [writing EXCEPT ![i][t] = Append(@, m)],
         UNCHANGED <<topic, handled, logs, disturbed>>
  PROVE  Promise!Next
<1>1. Pending' = [Pending EXCEPT ![t] = @ \cup {m}]
  BY PendingAccepts, ZenonT(30)
<1>2. DOMAIN topic[t] = 1 .. Len(topic[t])
  BY TopicTypes, LenProperties
<1>3. Promise!Accept(t, m)
  BY <1>1, <1>2 DEF Promise!Accept, Promise!New
<1>4. m \in Pending'[t]
  BY <1>1 DEF Pending
<1> QED
  BY <1>3, <1>4 DEF Promise!Next

LEMMA CrashStep ==
  ASSUME SourceInv, SourceInv', NEW i \in Instances, Crash(i)
  PROVE  Promise!Next
<1>1. UNCHANGED <<topic, handled, logs>> /\ disturbed \subseteq disturbed'
  BY DEF Crash
<1>2. ASSUME NEW t \in Topics, NEW x \in Pending'[t] PROVE x \in Pending[t]
  <2>1. PICK j \in Instances : \E w \in 1 .. Len(writing'[j][t]) : x = writing'[j][t][w]
    BY <1>2, PendingMemberNext
  <2>2. PICK w \in 1 .. Len(writing'[j][t]) : x = writing'[j][t][w]
    BY <2>1
  <2>3. writing'[j][t] # <<>>
    <3>1. Len(<<>>) = 0
      BY EmptySeq
    <3> QED
      BY <2>2, <3>1
  <2>4. writing'[j][t] = writing[j][t]
    BY <2>3, CrashWriting
  <2> QED
    BY <2>2, <2>4, PendingMember
<1> QED
  BY <1>1, <1>2 DEF Promise!Next, Promise!Disturb

LEMMA DeliveryStep ==
  ASSUME PipelineInv, FreshInv, [Next]_vars
  PROVE  [Promise!Next]_(Promise!dvars)
<1>0. SourceInv /\ GroupInv /\ SourceInv'
  BY PipelineStep DEF PipelineInv
<1>1. ASSUME UNCHANGED <<writing, topic, handled, logs, disturbed>> PROVE UNCHANGED Promise!dvars
  <2>1. Pending' = Pending
    BY <1>1 DEF Pending
  <2> QED
    BY <1>1, <2>1 DEF Promise!dvars
<1>2. ASSUME NEW i \in Instances, Log(i) PROVE UNCHANGED Promise!dvars
  BY <1>1, <1>2 DEF Log, kafka, writers, groups
<1>3. ASSUME NEW i \in Instances, NEW t \in Topics, Fetch(i, t) \/ Commit(i, t) \/ ReadFails(i, t)
      PROVE  UNCHANGED Promise!dvars
  BY <1>1, <1>3 DEF Fetch, Commit, ReadFails, kafka, writers, groups
<1>4. ASSUME NEW i \in Instances, Drain(i) PROVE Promise!Next
  <2>1. PICK m : m = Head(channel[i])
    OBVIOUS
  <2>2. /\ m \in Message /\ m.by = i /\ \A o \in 1 .. Len(topic[L]) : topic[L][o] # m
        /\ Len(writing[i][L]) = 0 /\ writing' = [writing EXCEPT ![i][L] = Append(@, m)]
        /\ UNCHANGED <<topic, handled, logs, disturbed>>
    BY <1>0, <1>4, <2>1, DrainTakes
  <2>3. ASSUME m \in Pending[L] PROVE FALSE
    <3>1. PICK j \in Instances : \E w \in 1 .. Len(writing[j][L]) : m = writing[j][L][w]
      BY <1>0, <2>3, PendingMember, TopicIsString
    <3>2. j = i
      BY <2>2, <3>1, TopicIsString DEF FreshInv
    <3> QED
      BY <2>2, <3>1, <3>2
  <2> QED
    BY <1>0, <2>2, <2>3, AcceptStep, TopicIsString
<1>5. ASSUME NEW i \in Instances, NEW a \in Amounts, PublishConversion(i, a) PROVE Promise!Next
  <2>1. PICK m, c : m = Made(i) /\ c = "conversions"
    OBVIOUS
  <2>2. /\ m \in Message /\ m.n = made + 1 /\ made \in Nat /\ c \in Topics
        /\ writing' = [writing EXCEPT ![i][c] = Append(@, m)]
        /\ UNCHANGED <<topic, handled, logs, disturbed>>
    BY <1>0, <1>5, <2>1, EventTakes
  <2>3. ASSUME NEW o \in 1 .. Len(topic[c]), topic[c][o] = m PROVE FALSE
    BY <2>2, <2>3 DEF FreshInv
  <2>4. ASSUME m \in Pending[c] PROVE FALSE
    <3>1. PICK j \in Instances : \E w \in 1 .. Len(writing[j][c]) : m = writing[j][c][w]
      BY <1>0, <2>2, <2>4, PendingMember
    <3>2. m.n <= made
      BY <2>2, <3>1 DEF FreshInv
    <3> QED
      BY <2>2, <3>2
  <2> QED
    BY <1>0, <2>2, <2>3, <2>4, AcceptStep
<1>6. ASSUME NEW i \in Instances, HandleEvent(i) PROVE Promise!Next
  BY <1>0, <1>6, HandledStep DEF HandleEvent, kafka, writers, groups, Topics
<1>7. ASSUME NEW i \in Instances, Insert(i) PROVE Promise!Next
  BY <1>0, <1>7, HandledStep, TopicIsString DEF Insert, kafka, writers, groups, L
<1>8. ASSUME NEW i \in Instances, InsertFails(i) PROVE Promise!Next
  BY <1>0, <1>8, HandledStep, TopicIsString DEF InsertFails, kafka, writers, groups, L
<1>9. ASSUME NEW i \in Instances, NEW t \in Topics, Rebalance(t, i) PROVE Promise!Next
  <2>1. disturbed \subseteq disturbed' /\ UNCHANGED <<writing, topic, handled, logs>>
    BY <1>9 DEF Rebalance, writers
  <2>2. Pending' = Pending
    BY <2>1 DEF Pending
  <2> QED
    BY <2>1, <2>2 DEF Promise!Next, Promise!Disturb
<1>10. CASE UNCHANGED vars
  BY <1>1, <1>10 DEF vars, sources, kafka, writers, groups
<1> QED
  BY <1>0, <1>2, <1>3, <1>4, <1>5, <1>6, <1>7, <1>8, <1>9, <1>10, PublishStep, CrashStep
  DEF Next, Consume, HttpPublishEvent, GrpcPublishEvent, GrpcPublishConversion

LEMMA FreshAlways == Spec => []FreshInv
<1>1. Init => FreshInv
  <2> SUFFICES ASSUME Init PROVE FreshInv
    OBVIOUS
  <2>1. /\ \A t \in Topics : Len(topic[t]) = 0
        /\ \A i \in Instances, t \in Topics : Len(writing[i][t]) = 0
    BY DEF Init
  <2> QED
    BY <2>1 DEF FreshInv
<1>2. PipelineInv /\ FreshInv /\ [Next]_vars => FreshInv'
  BY FreshStep DEF PipelineInv
<1> QED
  BY <1>1, <1>2, PipelineAlwaysInv, PTL DEF Spec

\* Channels, batches, retries, consumers, commits, crashes and failures never
\* show: the pipeline is a Delivery, for any number of processes, faults and
\* rebalances.
THEOREM PipelineImplementsDelivery == Spec => ImplementsDelivery
<1>1. Init => Promise!Init
  <2> SUFFICES ASSUME Init PROVE Promise!Init
    OBVIOUS
  <2>1. \A i \in Instances, t \in Topics : DOMAIN writing[i][t] = {}
    BY DEF Init
  <2>2. Pending = [t \in Topics |-> {}]
    BY <2>1 DEF Pending
  <2> QED
    BY <2>2 DEF Init, Promise!Init
<1>2. PipelineInv /\ FreshInv /\ [Next]_vars => [Promise!Next]_(Promise!dvars)
  BY DeliveryStep
<1> QED
  BY <1>1, <1>2, PipelineAlwaysInv, FreshAlways, PTL DEF Spec, ImplementsDelivery, Promise!Spec
-----------------------------------------------------------------------------
\* The offsets the rows of table g came from, in the log topic as it is.
Source(f, g) ==
  /\ f \in [DOMAIN g -> handled[L]]
  /\ \A j \in DOMAIN g : /\ g[j] = topic[L][f[j] + 1]
                         /\ \A k \in 1 .. j - 1 : f[k] < f[j]

LEMMA FollowsSource == LogsFollowTopic <=> (L \notin disturbed => \E f : Source(f, logs))
BY DEF LogsFollowTopic, Promise!Follows, Source, L

\* Topics and handled offsets only grow, so that rows keep their offsets.
LEMMA SourceKept ==
  ASSUME PipelineInv, NEW f, Source(f, logs), UNCHANGED logs, handled[L] \subseteq handled'[L],
         \A o \in 1 .. Len(topic[L]) : topic'[L][o] = topic[L][o]
  PROVE  Source(f, logs)'
<1>1. ASSUME NEW j \in DOMAIN logs PROVE topic'[L][f[j] + 1] = topic[L][f[j] + 1]
  <2>1. f[j] \in handled[L]
    BY <1>1 DEF Source
  <2>2. f[j] \in Nat /\ f[j] < Len(topic[L]) /\ Len(topic[L]) \in Nat
    BY <2>1, TopicIsString, TopicTypes DEF PipelineInv, GroupInv, GroupTypes, WithinOK
  <2> QED
    BY <2>2
<1>2. f \in [DOMAIN logs -> handled'[L]]
  BY DEF Source
<1> QED
  BY <1>1, <1>2 DEF Source

\* A new row comes from an offset behind all others.
LEMMA SourceGrows ==
  ASSUME PipelineInv, NEW f, Source(f, logs), NEW o,
         \A h \in handled[L] : h < o, handled'[L] = handled[L] \cup {o}, UNCHANGED topic,
         topic[L][o + 1] \in Message, logs' = Append(logs, topic[L][o + 1])
  PROVE  \E g : Source(g, logs)'
<1>1. logs \in Seq(Message)
  BY DEF PipelineInv, LogsInv
<1>2. PICK n \in Nat : n = Len(logs) + 1 /\ Len(logs) \in Nat
  BY <1>1, LenProperties
<1>3. /\ logs' \in Seq(Message) /\ Len(logs') = n
      /\ \A j \in 1 .. Len(logs) : logs'[j] = logs[j]
      /\ logs'[n] = topic[L][o + 1]
  BY <1>1, <1>2, AppendProperties
<1>4. DOMAIN logs = 1 .. n - 1 /\ DOMAIN logs' = 1 .. n
  BY <1>1, <1>2, <1>3, LenProperties
<1> DEFINE g == [j \in 1 .. n |-> IF j = n THEN o ELSE f[j]]
<1>5. \A j \in 1 .. n - 1 : g[j] = f[j] /\ f[j] \in handled[L]
  BY <1>2, <1>4 DEF Source
<1>6. g[n] = o
  BY <1>2
<1>7. \A j \in 1 .. n : j \in 1 .. n - 1 \/ j = n
  BY <1>2
<1>8. g \in [DOMAIN logs' -> handled'[L]]
  BY <1>4, <1>5, <1>6, <1>7
<1> HIDE DEF g
<1>9. ASSUME NEW j \in DOMAIN logs'
      PROVE  logs'[j] = topic'[L][g[j] + 1] /\ \A k \in 1 .. j - 1 : g[k] < g[j]
  <2>1. CASE j \in 1 .. n - 1
    <3>1. j \in DOMAIN logs /\ logs'[j] = logs[j] /\ g[j] = f[j]
      BY <1>2, <1>3, <1>4, <1>5, <2>1
    <3>2. \A k \in 1 .. j - 1 : k \in 1 .. n - 1 /\ g[k] = f[k]
      BY <1>2, <1>5, <2>1
    <3> QED
      BY <3>1, <3>2 DEF Source
  <2>2. CASE j = n
    <3>1. \A k \in 1 .. n - 1 : g[k] < o
      BY <1>5
    <3> QED
      BY <1>3, <1>6, <2>2, <3>1
  <2> QED
    BY <1>4, <1>7, <1>9, <2>1, <2>2
<1> QED
  BY <1>8, <1>9 DEF Source

LEMMA FollowsStep ==
  ASSUME PipelineInv, FreshInv, LogsFollowTopic, [Next]_vars
  PROVE  LogsFollowTopic'
<1> USE TopicIsString
<1>0. SourceInv /\ GroupInv /\ handled[L] \in SUBSET Nat /\ topic'[L] \in Seq(Message)
  BY PipelineStep DEF PipelineInv, GroupInv, GroupTypes, SourceInv, SourceTypes
<1> SUFFICES ASSUME L \notin disturbed', [Promise!Next]_(Promise!dvars)
             PROVE  \E f : Source(f, logs)'
  BY DeliveryStep, FollowsSource DEF LogsFollowTopic, Promise!Follows, Source, L
<1>1. ASSUME UNCHANGED <<topic, handled, logs>>, disturbed \subseteq disturbed'
      PROVE  \E f : Source(f, logs)'
  <2>1. L \notin disturbed
    BY <1>1
  <2>2. PICK f : Source(f, logs)
    BY <2>1, FollowsSource
  <2> QED
    BY <1>1, <2>2 DEF Source
<1>2. ASSUME NEW t \in Topics, NEW m \in Pending'[t], Promise!Accept(t, m)
      PROVE  \E f : Source(f, logs)'
  BY <1>1, <1>2 DEF Promise!Accept
<1>3. ASSUME NEW t \in Topics, Promise!Write(t) PROVE \E f : Source(f, logs)'
  <2>1. L \notin disturbed /\ UNCHANGED <<handled, logs>>
    BY <1>3 DEF Promise!Write
  <2>2. PICK f : Source(f, logs)
    BY <2>1, FollowsSource
  <2>3. \A o \in 1 .. Len(topic[L]) : topic'[L][o] = topic[L][o]
    <3>1. CASE L # t
      BY <1>3, <3>1 DEF Promise!Write
    <3>2. CASE L = t
      <4>1. Promise!Extends(topic'[L], topic[L], Pending[L])
        BY <1>3, <3>2 DEF Promise!Write
      <4>2. Len(topic[L]) <= Len(topic'[L])
            /\ \A o \in DOMAIN topic'[L] : o <= Len(topic[L]) => topic'[L][o] = topic[L][o]
        BY <4>1 DEF Promise!Extends
      <4>3. DOMAIN topic'[L] = 1 .. Len(topic'[L]) /\ Len(topic'[L]) \in Nat /\ Len(topic[L]) \in Nat
        BY <1>0, LenProperties, TopicTypes
      <4> QED
        BY <4>2, <4>3
    <3> QED
      BY <3>1, <3>2
  <2> QED
    BY <2>1, <2>2, <2>3, SourceKept
<1>4. ASSUME NEW t \in Topics, NEW o \in handled'[t], Promise!Handle(t, o)
      PROVE  \E f : Source(f, logs)'
  <2>1. /\ L \notin disturbed /\ UNCHANGED topic /\ o + 1 \in DOMAIN topic[t]
        /\ t \notin disturbed => \A h \in handled[t] : h < o
        /\ handled' = [handled EXCEPT ![t] = @ \cup {o}]
        /\ UNCHANGED logs \/ (t = L /\ logs' = Append(logs, topic[t][o + 1]))
    BY <1>4 DEF Promise!Handle, L
  <2>2. PICK f : Source(f, logs)
    BY <2>1, FollowsSource
  <2>3. handled[L] \subseteq handled'[L] /\ (t = L => handled'[L] = handled[L] \cup {o})
    BY <1>0, <2>1 DEF GroupInv, GroupTypes
  <2>4. CASE UNCHANGED logs
    BY <2>1, <2>2, <2>3, <2>4, SourceKept
  <2>5. CASE t = L /\ logs' = Append(logs, topic[t][o + 1])
    <3>1. topic[L][o + 1] \in Message
      BY <1>0, <2>1, <2>5, TopicTypes
    <3> QED
      BY <2>1, <2>2, <2>3, <2>5, <3>1, SourceGrows
  <2> QED
    BY <2>1, <2>4, <2>5
<1>5. CASE Promise!Disturb
  BY <1>1, <1>5 DEF Promise!Disturb
<1>6. CASE UNCHANGED Promise!dvars
  BY <1>1, <1>6 DEF Promise!dvars
<1> QED
  BY <1>2, <1>3, <1>4, <1>5, <1>6 DEF Promise!Next

\* Until the group is disturbed no offset of the log topic makes two rows, and
\* rows are in the order of the topic, through any number of crashes, failures
\* and rebalances.
THEOREM LogsAlwaysFollowTopic == Spec => []LogsFollowTopic
<1>1. Init => LogsFollowTopic
  <2> SUFFICES ASSUME Init PROVE Source(<<>>, logs)
    BY FollowsSource
  <2> QED
    BY DEF Init, Source
<1>2. PipelineInv /\ FreshInv /\ LogsFollowTopic /\ [Next]_vars => LogsFollowTopic'
  BY FollowsStep
<1> QED
  BY <1>1, <1>2, PipelineAlwaysInv, FreshAlways, PTL DEF Spec
-----------------------------------------------------------------------------
(* The loop does not amplify *)

C == "conversions"

\* The work that will still log a record without any fault: events being
\* written, events no consumer has committed, and the one being handled.
Writers == {p \in Instances \X (Nat \ {0}) : p[2] <= Len(writing[p[1]][C])}
FiniteWriters == IsFiniteSet(Writers)
Backlog == Len(topic[C]) - committed[C]
Handling == IF \E i \in Instances : reader[i][C].at = "handle" THEN 1 ELSE 0
Load == Cardinality(Writers) + Backlog + Handling

\* Each event makes one record more, and each fault pays for one more.
LoopInv ==
  /\ FiniteWriters
  /\ C \notin disturbed => Load <= made + faults /\ made + Load <= 2 * MaxMade + faults

LEMMA EventTopic == C \in Topics /\ C # L
BY DEF C, L, Topics

LoadTypes ==
  /\ made \in Nat /\ faults \in Nat /\ Load \in Nat
  /\ Cardinality(Writers) \in Nat /\ Backlog \in Nat /\ Handling \in {0, 1}

LEMMA LoadTyped == PipelineInv /\ FiniteWriters => LoadTypes
<1> SUFFICES ASSUME PipelineInv, FiniteWriters PROVE LoadTypes
  OBVIOUS
<1>1. made \in Nat /\ faults \in Nat
  BY DEF PipelineInv, SourceInv, SourceTypes, GroupInv, GroupTypes
<1>2. Cardinality(Writers) \in Nat
  BY FS_CardinalityType DEF FiniteWriters
<1>3. Backlog \in Nat
  <2>1. Len(topic[C]) \in Nat /\ committed[C] \in Nat /\ committed[C] <= Len(topic[C])
    BY EventTopic, TopicTypes DEF PipelineInv, GroupInv, GroupTypes, WithinOK
  <2> QED
    BY <2>1 DEF Backlog
<1>4. Handling \in {0, 1}
  BY DEF Handling
<1> QED
  BY <1>1, <1>2, <1>3, <1>4 DEF Load, LoadTypes

LEMMA LoadTypedNext == PipelineInv' /\ FiniteWriters' => LoadTypes'
<1>1. PipelineInv /\ FiniteWriters => LoadTypes
  BY LoadTyped
<1> QED
  BY <1>1, PTL

\* What a step may add: its load is paid for by what it makes and its faults,
\* and what it makes by the load or a fault, unless it serves a new request.
LEMMA LoopKept ==
  ASSUME PipelineInv, PipelineInv', LoopInv, FiniteWriters',
         C \notin disturbed' =>
           /\ C \notin disturbed /\ made <= made'
           /\ Load' <= Load + (made' - made) + (faults' - faults)
           /\ \/ made' + Load' <= made + Load + (faults' - faults)
              \/ /\ made < MaxMade /\ made' = made + 1
                 /\ Load' <= Load + 1 /\ faults' = faults
  PROVE  LoopInv'
<1>1. made \in Nat /\ faults \in Nat /\ Load \in Nat
  BY LoadTyped DEF LoopInv, LoadTypes
<1>2. made' \in Nat /\ faults' \in Nat /\ Load' \in Nat
  BY LoadTypedNext DEF LoadTypes
<1>3. MaxMade \in Nat
  BY PipelineAssumption
<1>4. ASSUME C \notin disturbed'
      PROVE  Load' <= made' + faults' /\ made' + Load' <= 2 * MaxMade + faults'
  <2>1. Load <= made + faults /\ made + Load <= 2 * MaxMade + faults
    BY <1>4 DEF LoopInv
  <2>2. PICK l \in Nat, k \in Nat, m \in Nat, n \in Nat, f \in Nat, g \in Nat :
          l = Load /\ k = Load' /\ m = made /\ n = made' /\ f = faults /\ g = faults'
    BY <1>1, <1>2
  <2>3. PICK b \in Nat : b = MaxMade
    BY <1>3
  <2>4. /\ l <= m + f /\ m + l <= 2 * b + f /\ m <= n /\ k <= l + (n - m) + (g - f)
        /\ \/ n + k <= m + l + (g - f)
           \/ m < b /\ n = m + 1 /\ k <= l + 1 /\ g = f
    BY <1>4, <2>1, <2>2, <2>3
  <2>5. k <= n + g /\ n + k <= 2 * b + g
    BY <2>4
  <2> QED
    BY <2>2, <2>3, <2>5
<1> QED
  BY <1>4 DEF LoopInv

Paid(l, k, m, n, f, g) ==
  /\ m <= n /\ k <= l + (n - m) + (g - f)
  /\ n + k <= m + l + (g - f) \/ (m < MaxMade /\ n = m + 1 /\ k <= l + 1 /\ g = f)

LEMMA PaidCases ==
  ASSUME NEW l \in Nat, NEW k \in Nat, NEW m \in Nat, NEW n \in Nat, NEW f \in Nat, NEW g \in Nat,
         \/ n = m /\ f <= g /\ k <= l + (g - f)
         \/ n = m + 1 /\ g = f + 1 /\ k <= l
         \/ n = m + 1 /\ m < MaxMade /\ g = f /\ k <= l + 1
         \/ n = m + 1 /\ g = f /\ k <= l - 1
  PROVE  Paid(l, k, m, n, f, g)
BY DEF Paid

LEMMA HandlingFalls ==
  ASSUME \A j \in Instances : reader'[j][C].at = "handle" => reader[j][C].at = "handle"
  PROVE  Handling' <= Handling
BY DEF Handling

LEMMA WritersSame ==
  ASSUME LoopInv, \A j \in Instances : writing'[j][C] = writing[j][C]
  PROVE  FiniteWriters' /\ Cardinality(Writers)' = Cardinality(Writers)
<1>1. Writers' = Writers
  BY DEF Writers
<1> QED
  BY <1>1 DEF LoopInv, FiniteWriters

\* A step that brings no event on its way or further, and may log a record.
LEMMA LoopIdle ==
  ASSUME PipelineInv, PipelineInv', LoopInv, disturbed \subseteq disturbed',
         \A j \in Instances : writing'[j][C] = writing[j][C],
         topic'[C] = topic[C], C \notin disturbed => committed[C] <= committed'[C],
         \A j \in Instances : reader'[j][C].at = "handle" => reader[j][C].at = "handle",
         \/ made' = made /\ faults <= faults'
         \/ made' = made + 1 /\ faults' = faults + 1
         \/ made' = made + 1 /\ made < MaxMade /\ faults' = faults
  PROVE  LoopInv'
<1>1. LoadTypes /\ LoadTypes'
  BY LoadTyped, LoadTypedNext, WritersSame DEF LoopInv
<1>2. FiniteWriters' /\ Cardinality(Writers)' = Cardinality(Writers) /\ Handling' <= Handling
  BY WritersSame, HandlingFalls
<1>3. ASSUME C \notin disturbed PROVE Backlog' <= Backlog
  <2>1. committed[C] \in Nat /\ committed'[C] \in Nat /\ Len(topic[C]) \in Nat
    BY EventTopic, TopicTypes DEF PipelineInv, GroupInv, GroupTypes
  <2> QED
    BY <1>3, <2>1 DEF Backlog
<1>4. ASSUME C \notin disturbed PROVE Load' <= Load
  BY <1>1, <1>2, <1>3, <1>4 DEF Load, LoadTypes
<1>5. ASSUME C \notin disturbed PROVE Paid(Load, Load', made, made', faults, faults')
  <2>1. /\ Load \in Nat /\ Load' \in Nat /\ made \in Nat /\ made' \in Nat
        /\ faults \in Nat /\ faults' \in Nat
    BY <1>1 DEF LoadTypes
  <2>2. CASE made' = made /\ faults <= faults'
    <3>1. Load' <= Load + (faults' - faults)
      BY <1>4, <1>5, <2>1, <2>2
    <3> QED
      BY <2>1, <2>2, <3>1, PaidCases
  <2>3. CASE made' = made + 1 /\ faults' = faults + 1
    BY <1>4, <1>5, <2>1, <2>3, PaidCases
  <2>4. CASE made' = made + 1 /\ made < MaxMade /\ faults' = faults
    <3>1. Load' <= Load + 1
      BY <1>4, <1>5, <2>1
    <3> QED
      BY <2>1, <2>4, <3>1, PaidCases
  <2> QED
    BY <2>2, <2>3, <2>4
<1> QED
  BY <1>2, <1>5, LoopKept DEF Paid

\* While the group is undisturbed a consumer with a message is the only one.
LEMMA OnlyReader ==
  ASSUME PipelineInv, C \notin disturbed, NEW i \in Instances, reader[i][C].at # "read"
  PROVE  \A j \in Instances : j # i => reader[j][C].at = "read"
BY EventTopic DEF PipelineInv, GroupInv, ReaderOK

\* A consumer's place changes, and nobody else's.
LEMMA BecomeReader ==
  ASSUME PipelineInv, NEW i \in Instances, NEW t \in Topics, NEW r, Become(i, t, r)
  PROVE  /\ reader'[i][t] = r
         /\ \A j \in Instances, u \in Topics : (j # i \/ u # t) => reader'[j][u] = reader[j][u]
BY DEF PipelineInv, GroupInv, GroupTypes, Become

LEMMA CommitLoop ==
  ASSUME PipelineInv, PipelineInv', LoopInv, NEW i \in Instances, Commit(i, C)
  PROVE  LoopInv'
<1>1. UNCHANGED <<made, writing, topic, faults, disturbed>>
  BY DEF Commit, sources, writers, groups
<1>2. FiniteWriters' /\ Cardinality(Writers)' = Cardinality(Writers)
  BY <1>1, WritersSame
<1>3. LoadTypes /\ LoadTypes'
  BY <1>2, LoadTyped, LoadTypedNext DEF LoopInv
<1>4. ASSUME C \notin disturbed PROVE Load' <= Load
  <2>1. reader[i][C].at = "commit" /\ committed'[C] = reader[i][C].offset + 1
    BY EventTopic DEF Commit, PipelineInv, GroupInv, GroupTypes
  <2>2. Handling = 0
    <3>1. \A j \in Instances : reader[j][C].at # "handle"
      BY <1>4, <2>1, OnlyReader
    <3> QED
      BY <3>1 DEF Handling
  <2>3. committed[C] <= reader[i][C].offset /\ reader[i][C].offset \in Nat
    BY <1>4, <2>1, EventTopic, ReaderTypes DEF PipelineInv, GroupInv, GroupTypes, ReaderOK
  <2>4. Len(topic[C]) \in Nat /\ committed[C] \in Nat
    BY EventTopic, TopicTypes DEF PipelineInv, GroupInv, GroupTypes
  <2>5. Backlog' <= Backlog - 1
    BY <1>1, <2>1, <2>3, <2>4 DEF Backlog
  <2> QED
    BY <1>2, <1>3, <2>2, <2>5 DEF Load, LoadTypes
<1>5. ASSUME C \notin disturbed PROVE Paid(Load, Load', made, made', faults, faults')
  <2>1. /\ Load \in Nat /\ Load' \in Nat /\ made \in Nat /\ made' \in Nat
        /\ faults \in Nat /\ faults' \in Nat
    BY <1>3 DEF LoadTypes
  <2>2. made' = made /\ faults <= faults' /\ Load' <= Load + (faults' - faults)
    BY <1>1, <1>4, <1>5, <2>1
  <2> QED
    BY <2>1, <2>2, PaidCases
<1> QED
  BY <1>1, <1>2, <1>5, LoopKept DEF Paid

LEMMA HandleLoop ==
  ASSUME PipelineInv, PipelineInv', LoopInv, NEW i \in Instances, HandleEvent(i)
  PROVE  LoopInv'
<1>1. UNCHANGED <<writing, topic, committed, faults, disturbed>>
  BY DEF HandleEvent, kafka, writers, groups
<1>2. FiniteWriters' /\ Cardinality(Writers)' = Cardinality(Writers)
  BY <1>1, WritersSame
<1>3. LoadTypes /\ LoadTypes'
  BY <1>2, LoadTyped, LoadTypedNext DEF LoopInv
<1>4. made' = made \/ made' = made + 1
  BY DEF HandleEvent, Slog, Make, sources
<1>5. ASSUME C \notin disturbed PROVE Load' = Load - 1
  <2>1. reader[i][C].at = "handle"
    BY DEF HandleEvent, Handled, C
  <2>2. Handling = 1
    BY <2>1 DEF Handling
  <2>3. PICK r : r = [reader[i][C] EXCEPT !.at = "read"]
    OBVIOUS
  <2>4. r.at = "read"
    BY <2>3, EventTopic DEF PipelineInv, GroupInv, GroupTypes, Reader
  <2>5. Become(i, C, r)
    BY <2>3 DEF HandleEvent, Handled, C
  <2>6. \A j \in Instances : reader'[j][C].at # "handle"
    BY <1>5, <2>1, <2>4, <2>5, BecomeReader, OnlyReader, EventTopic
  <2>7. Handling' = 0
    BY <2>6 DEF Handling
  <2>8. Backlog' = Backlog
    BY <1>1 DEF Backlog
  <2> QED
    BY <1>2, <1>3, <2>2, <2>7, <2>8 DEF Load, LoadTypes
<1>6. ASSUME C \notin disturbed PROVE Paid(Load, Load', made, made', faults, faults')
  <2>1. /\ Load \in Nat /\ Load' \in Nat /\ made \in Nat /\ made' \in Nat
        /\ faults \in Nat /\ faults' \in Nat
    BY <1>3 DEF LoadTypes
  <2>2. CASE made' = made
    <3>1. faults <= faults' /\ Load' <= Load + (faults' - faults)
      BY <1>1, <1>5, <1>6, <2>1
    <3> QED
      BY <2>1, <2>2, <3>1, PaidCases
  <2>3. CASE made' = made + 1
    <3>1. faults' = faults /\ Load' <= Load - 1
      BY <1>1, <1>5, <1>6, <2>1
    <3> QED
      BY <2>1, <2>3, <3>1, PaidCases
  <2> QED
    BY <1>4, <2>2, <2>3
<1> QED
  BY <1>1, <1>2, <1>6, LoopKept DEF Paid

\* An event more, or a batch of n less.
LEMMA WriterBegins ==
  ASSUME PipelineInv, LoopInv, NEW i \in Instances, NEW m \in Message,
         writing' = [writing EXCEPT ![i][C] = Append(@, m)]
  PROVE  FiniteWriters' /\ Cardinality(Writers)' = Cardinality(Writers) + 1
<1>1. /\ writing \in [Instances -> [Topics -> Seq(Message)]] /\ writing[i][C] \in Seq(Message)
      /\ \A j \in Instances : Len(writing[j][C]) \in Nat
  BY EventTopic, WritingTypes DEF PipelineInv, SourceInv, SourceTypes
<1>2. PICK a, l : a = Append(writing[i][C], m) /\ l = Len(writing[i][C])
  OBVIOUS
<1>3. Len(a) = l + 1 /\ l \in Nat
  BY <1>1, <1>2, AppendProperties
<1>4. writing'[i][C] = a /\ \A j \in Instances : j # i => writing'[j][C] = writing[j][C]
  BY <1>1, <1>2, EventTopic
<1>5. Writers' = Writers \cup {<<i, l + 1>>}
  <2>1. ASSUME NEW p \in Instances \X (Nat \ {0})
        PROVE  p[2] <= Len(writing'[p[1]][C]) <=> p[2] <= Len(writing[p[1]][C]) \/ p = <<i, l + 1>>
    <3>1. p[1] \in Instances /\ p[2] \in Nat /\ p = <<p[1], p[2]>>
      BY <2>1
    <3>2. CASE p[1] = i
      BY <1>2, <1>3, <1>4, <3>1, <3>2
    <3>3. CASE p[1] # i
      BY <1>4, <3>1, <3>3
    <3> QED
      BY <3>2, <3>3
  <2>2. <<i, l + 1>> \in Instances \X (Nat \ {0})
    BY <1>3
  <2> QED
    BY <2>1, <2>2 DEF Writers
<1>6. <<i, l + 1>> \notin Writers
  BY <1>2, <1>3 DEF Writers
<1>7. IsFiniteSet(Writers)
  BY DEF LoopInv, FiniteWriters
<1> QED
  BY <1>5, <1>6, <1>7, FS_AddElement DEF FiniteWriters

\* A column of pairs is as large as its interval.
ColumnOf(i, a, n) == {<<i, w>> : w \in a + 1 .. a + n}

LEMMA Column ==
  ASSUME NEW i, NEW a \in Nat, NEW n \in Nat
  PROVE  Cardinality(ColumnOf(i, a, n)) = n
<1>0. PICK T : T = ColumnOf(i, a, n)
  OBVIOUS
<1>1. PICK S : S = a + 1 .. a + n
  OBVIOUS
<1>2. IsFiniteSet(S) /\ Cardinality(S) = n
  <2>1. a + 1 \in Int /\ a + n \in Int
    OBVIOUS
  <2>2. /\ IsFiniteSet(a + 1 .. a + n)
        /\ Cardinality(a + 1 .. a + n) = IF a + 1 > a + n THEN 0 ELSE (a + n) - (a + 1) + 1
    BY <2>1, FS_Interval
  <2>3. (IF a + 1 > a + n THEN 0 ELSE (a + n) - (a + 1) + 1) = n
    OBVIOUS
  <2> QED
    BY <1>1, <2>2, <2>3
<1>3. PICK f : f = [w \in S |-> <<i, w>>]
  OBVIOUS
<1>4. f \in [S -> T] /\ \A t \in T : \E w \in S : f[w] = t
  BY <1>0, <1>1, <1>3 DEF ColumnOf
<1>5. \A v, w \in S : f[v] = f[w] => v = w
  BY <1>3
<1>6. f \in Bijection(S, T)
  BY <1>4, <1>5 DEF Bijection, Injection, Surjection, IsInjective
<1>7. ExistsBijection(S, T)
  BY <1>6 DEF ExistsBijection
<1> QED
  BY <1>0, <1>2, <1>7, FS_Bijection

LEMMA WriterEnds ==
  ASSUME PipelineInv, LoopInv, NEW i \in Instances, NEW n \in 1 .. Len(writing[i][C]),
         Len(writing'[i][C]) = Len(writing[i][C]) - n,
         \A j \in Instances : j # i => writing'[j][C] = writing[j][C]
  PROVE  FiniteWriters' /\ Cardinality(Writers)' = Cardinality(Writers) - n
<1>1. \A j \in Instances : Len(writing[j][C]) \in Nat
  BY EventTopic, WritingTypes DEF PipelineInv
<1>2. PICK a : a = Len(writing[i][C]) - n
  OBVIOUS
<1>3. a \in Nat /\ n \in Nat /\ Len(writing[i][C]) = a + n /\ Len(writing'[i][C]) = a
  BY <1>1, <1>2
<1>4. PICK T : T = ColumnOf(i, a, n)
  OBVIOUS
<1>5. T \subseteq Writers
  <2>1. \A w \in a + 1 .. a + n : w \in Nat \ {0} /\ w <= Len(writing[i][C])
    BY <1>3
  <2> QED
    BY <1>4, <2>1 DEF Writers, ColumnOf
<1>6. Writers' = Writers \ T
  <2>1. ASSUME NEW p \in Instances \X (Nat \ {0})
        PROVE  p[2] <= Len(writing'[p[1]][C]) <=> p[2] <= Len(writing[p[1]][C]) /\ p \notin T
    <3>1. p[1] \in Instances /\ p[2] \in Nat /\ p = <<p[1], p[2]>>
      BY <2>1
    <3>2. CASE p[1] = i
      <4>1. p \in T <=> p[2] \in a + 1 .. a + n
        BY <1>4, <3>1, <3>2 DEF ColumnOf
      <4> QED
        BY <1>3, <3>1, <3>2, <4>1
    <3>3. CASE p[1] # i
      <4>1. p \notin T
        BY <1>4, <3>1, <3>3 DEF ColumnOf
      <4> QED
        BY <3>1, <3>3, <4>1
    <3> QED
      BY <3>2, <3>3
  <2> QED
    BY <2>1 DEF Writers
<1>7. Cardinality(T) = n
  BY <1>3, <1>4, Column
<1>8. Writers \cap T = T
  BY <1>5
<1>9. IsFiniteSet(Writers)
  BY DEF LoopInv, FiniteWriters
<1>10. /\ IsFiniteSet(Writers \ T)
       /\ Cardinality(Writers \ T) = Cardinality(Writers) - Cardinality(Writers \cap T)
  BY <1>9, FS_Difference, Zenon
<1>11. FiniteWriters' /\ Cardinality(Writers)' = Cardinality(Writers \ T)
  BY <1>6, <1>10 DEF FiniteWriters
<1> QED
  BY <1>7, <1>8, <1>10, <1>11

LEMMA PublishLoop ==
  ASSUME PipelineInv, PipelineInv', LoopInv, NEW i \in Instances, Publish(i, C)
  PROVE  LoopInv'
<1>0. SourceInv /\ C \in Topics
  BY EventTopic DEF PipelineInv
<1>1. UNCHANGED <<made, committed, reader, disturbed>>
  BY DEF Publish, sources, groups
<1>2. Handling' = Handling
  BY <1>1 DEF Handling
<1>3. /\ committed[C] \in Nat /\ Len(topic[C]) \in Nat /\ Len(topic'[C]) \in Nat
      /\ faults \in Nat
  BY <1>0, TopicTypes, LenProperties DEF PipelineInv, GroupInv, GroupTypes, SourceInv, SourceTypes
<1>4. PICK n \in Batches(i, C) :
        \/ /\ \/ NoFault /\ topic'[C] = topic[C] \o SubSeq(writing[i][C], 1, n)
              \/ Faults(n) /\ topic'[C] = topic[C]
           /\ writing'[i][C] = SubSeq(writing[i][C], n + 1, Len(writing[i][C]))
        \/ /\ Faults(n) /\ topic'[C] = topic[C] \o SubSeq(writing[i][C], 1, n)
           /\ writing'[i][C] = writing[i][C]
  BY <1>0, PublishShape
<1>5. \A j \in Instances : j # i => writing'[j][C] = writing[j][C]
  BY <1>0, PublishShape
<1>6. n \in 1 .. Len(writing[i][C]) /\ n \in Nat
  BY <1>0, BatchTypes
<1>7. topic'[C] = topic[C] \o SubSeq(writing[i][C], 1, n) => Len(topic'[C]) = Len(topic[C]) + n
  BY <1>0, WrittenBatch
<1>8. writing'[i][C] = SubSeq(writing[i][C], n + 1, Len(writing[i][C]))
        => FiniteWriters' /\ Cardinality(Writers)' = Cardinality(Writers) - n
  <2>1. Len(SubSeq(writing[i][C], n + 1, Len(writing[i][C]))) = Len(writing[i][C]) - n
    BY <1>0, BatchTypes
  <2> QED
    BY <1>5, <1>6, <2>1, WriterEnds
<1>9. writing'[i][C] = writing[i][C]
        => FiniteWriters' /\ Cardinality(Writers)' = Cardinality(Writers)
  BY <1>5, WritersSame
<1>10. FiniteWriters'
  BY <1>4, <1>8, <1>9
<1>11. LoadTypes /\ LoadTypes'
  BY <1>10, LoadTyped, LoadTypedNext DEF LoopInv
<1>12. /\ Cardinality(Writers) \in Nat /\ Handling \in Nat /\ Backlog \in Int
       /\ Load = Cardinality(Writers) + Backlog + Handling
       /\ Load' = Cardinality(Writers)' + Backlog' + Handling
  BY <1>2, <1>3, FS_CardinalityType DEF Load, Backlog, Handling, LoopInv, FiniteWriters
<1>13. faults <= faults' /\ Load' <= Load + (faults' - faults)
  <2>1. CASE /\ NoFault /\ Len(topic'[C]) = Len(topic[C]) + n
             /\ Cardinality(Writers)' = Cardinality(Writers) - n
    <3>1. Backlog' = Backlog + n
      BY <1>1, <1>3, <1>6, <2>1 DEF Backlog
    <3> QED
      BY <1>3, <1>6, <1>12, <2>1, <3>1 DEF NoFault
  <2>2. CASE /\ Faults(n) /\ topic'[C] = topic[C]
             /\ Cardinality(Writers)' = Cardinality(Writers) - n
    <3>1. Backlog' = Backlog
      BY <1>1, <2>2 DEF Backlog
    <3>2. faults' = faults + n /\ Cardinality(Writers)' = Cardinality(Writers) - n
      BY <2>2 DEF Faults
    <3> QED
      BY <1>3, <1>6, <1>12, <3>1, <3>2
  <2>3. CASE /\ Faults(n) /\ Len(topic'[C]) = Len(topic[C]) + n
             /\ Cardinality(Writers)' = Cardinality(Writers)
    <3>1. Backlog' = Backlog + n
      BY <1>1, <1>3, <1>6, <2>3 DEF Backlog
    <3> QED
      BY <1>3, <1>6, <1>12, <2>3, <3>1 DEF Faults
  <2> QED
    BY <1>4, <1>7, <1>8, <1>9, <2>1, <2>2, <2>3
<1>14. Paid(Load, Load', made, made', faults, faults')
  <2>1. /\ Load \in Nat /\ Load' \in Nat /\ made \in Nat /\ made' \in Nat
        /\ faults \in Nat /\ faults' \in Nat
    BY <1>11 DEF LoadTypes
  <2> QED
    BY <1>1, <1>13, <2>1, PaidCases
<1> QED
  BY <1>1, <1>10, <1>14, LoopKept DEF Paid

LEMMA EventLoop ==
  ASSUME PipelineInv, PipelineInv', LoopInv, NEW i \in Instances, NEW a, PublishConversion(i, a)
  PROVE  LoopInv'
<1>0. PICK m : m = Made(i)
  OBVIOUS
<1>1. /\ UNCHANGED <<topic, committed, reader, faults, disturbed>>
      /\ made' = made + 1 /\ made < MaxMade /\ m \in Message
      /\ writing' = [writing EXCEPT ![i][C] = Append(@, m)]
  BY <1>0, EventTakes DEF PipelineInv, C
<1>2. FiniteWriters' /\ Cardinality(Writers)' = Cardinality(Writers) + 1
  BY <1>1, WriterBegins
<1>3. LoadTypes /\ LoadTypes'
  BY <1>2, LoadTyped, LoadTypedNext DEF LoopInv
<1>4. Handling' = Handling /\ Backlog' = Backlog
  BY <1>1 DEF Handling, Backlog
<1>5. Load' <= Load + 1
  BY <1>2, <1>3, <1>4 DEF Load, LoadTypes
<1>6. Paid(Load, Load', made, made', faults, faults')
  <2>1. /\ Load \in Nat /\ Load' \in Nat /\ made \in Nat /\ made' \in Nat
        /\ faults \in Nat /\ faults' \in Nat
    BY <1>3 DEF LoadTypes
  <2> QED
    BY <1>1, <1>5, <2>1, PaidCases
<1> QED
  BY <1>1, <1>2, <1>6, LoopKept DEF Paid

\* A crash loses an event that is being written or handled, or neither.
LEMMA CrashLoop ==
  ASSUME PipelineInv, PipelineInv', LoopInv, NEW i \in Instances, Crash(i)
  PROVE  LoopInv'
<1>1. UNCHANGED <<made, topic, committed>> /\ faults' = faults + 1 /\ disturbed \subseteq disturbed'
  BY DEF Crash, Fault, Faults
<1>2. Writers' \subseteq Writers
  <2>1. ASSUME NEW p \in Instances \X (Nat \ {0}), p[2] <= Len(writing'[p[1]][C])
        PROVE  p[2] <= Len(writing[p[1]][C])
    <3>1. p[1] \in Instances /\ p[2] \in Nat /\ p[2] # 0 /\ Len(<<>>) = 0
      BY <2>1, EmptySeq
    <3>2. writing'[p[1]][C] # <<>>
      BY <2>1, <3>1
    <3> QED
      BY <2>1, <3>1, <3>2, CrashWriting, EventTopic DEF PipelineInv
  <2> QED
    BY <2>1 DEF Writers
<1>3. FiniteWriters' /\ Cardinality(Writers)' <= Cardinality(Writers)
  BY <1>2, FS_Subset DEF LoopInv, FiniteWriters
<1>4. LoadTypes /\ LoadTypes'
  BY <1>3, LoadTyped, LoadTypedNext DEF LoopInv
<1>5. Handling' <= Handling
  <2>1. ASSUME NEW j \in Instances, reader'[j][C].at = "handle" PROVE reader[j][C].at = "handle"
    BY <2>1, EventTopic DEF PipelineInv, GroupInv, GroupTypes, Reader, Crash, Fresh
  <2> QED
    BY <2>1, HandlingFalls
<1>6. Backlog' = Backlog
  BY <1>1 DEF Backlog
<1>7. Load' <= Load
  BY <1>3, <1>4, <1>5, <1>6 DEF Load, LoadTypes
<1>8. Paid(Load, Load', made, made', faults, faults')
  <2>1. /\ Load \in Nat /\ Load' \in Nat /\ made \in Nat /\ made' \in Nat
        /\ faults \in Nat /\ faults' \in Nat
    BY <1>4 DEF LoadTypes
  <2>2. made' = made /\ faults <= faults' /\ Load' <= Load + (faults' - faults)
    BY <1>1, <1>7, <2>1
  <2> QED
    BY <2>1, <2>2, PaidCases
<1> QED
  BY <1>1, <1>3, <1>8, LoopKept DEF Paid

LEMMA LoopInit == Init => LoopInv
<1> SUFFICES ASSUME Init PROVE LoopInv
  OBVIOUS
<1>1. Writers = {}
  <2>1. \A i \in Instances : Len(writing[i][C]) = 0
    BY EventTopic DEF Init
  <2>2. \A p \in Instances \X (Nat \ {0}) : p[1] \in Instances /\ p[2] \in Nat \ {0}
    OBVIOUS
  <2>3. \A p \in Instances \X (Nat \ {0}) : ~(p[2] <= Len(writing[p[1]][C]))
    BY <2>1, <2>2
  <2> QED
    BY <2>3 DEF Writers
<1>2. Backlog = 0
  BY EventTopic DEF Init, Backlog
<1>3. Handling = 0
  BY EventTopic DEF Init, Handling, Fresh
<1>4. MaxMade \in Nat /\ made = 0 /\ faults = 0
  BY PipelineAssumption DEF Init
<1> QED
  BY <1>1, <1>2, <1>3, <1>4, FS_EmptySet DEF LoopInv, FiniteWriters, Load

\* A failure logs at most one record.
LEMMA FailureLoop ==
  ASSUME PipelineInv, PipelineInv', LoopInv, NEW i \in Instances, NEW t \in Topics, ReadFails(i, t)
  PROVE  LoopInv'
<1>1. UNCHANGED <<writing, topic, disturbed>> /\ faults' = faults + 1
  BY DEF ReadFails, Fault, Faults, writers, groups
<1>2. made' = made \/ made' = made + 1
  BY DEF ReadFails, Slog, Make, sources
<1>3. faults \in Nat
  BY DEF PipelineInv, GroupInv, GroupTypes
<1>4. ASSUME C \notin disturbed PROVE committed[C] <= committed'[C]
  <2>1. committed \in [Topics -> Nat]
    BY DEF PipelineInv, GroupInv, GroupTypes
  <2>2. CASE committed' = committed
    BY <2>1, <2>2, EventTopic
  <2>3. CASE reader[i][t].at = "commit" /\ committed' = [committed EXCEPT ![t] = reader[i][t].offset + 1]
    <3>1. CASE t = C
      <4>1. committed[C] <= reader[i][C].offset /\ reader[i][C].offset \in Nat
        BY <1>4, <2>3, <3>1, ReaderTypes DEF PipelineInv, GroupInv, GroupTypes, ReaderOK
      <4> QED
        BY <2>1, <2>3, <3>1, <4>1, EventTopic
    <3>2. CASE t # C
      BY <2>1, <2>3, <3>2, EventTopic
    <3> QED
      BY <3>1, <3>2
  <2> QED
    BY <2>2, <2>3 DEF ReadFails
<1>5. ASSUME NEW j \in Instances, reader'[j][C].at = "handle" PROVE reader[j][C].at = "handle"
  <2>1. PICK r : r = [reader[i][t] EXCEPT !.at = "read"]
    OBVIOUS
  <2>2. r.at = "read"
    BY <2>1 DEF PipelineInv, GroupInv, GroupTypes, Reader
  <2>3. Become(i, t, r)
    BY <2>1 DEF ReadFails
  <2> QED
    BY <1>5, <2>2, <2>3, BecomeReader, EventTopic
<1>6. \/ made' = made /\ faults <= faults'
      \/ made' = made + 1 /\ faults' = faults + 1
  BY <1>1, <1>2, <1>3
<1> QED
  BY <1>1, <1>4, <1>5, <1>6, LoopIdle

LEMMA LoopStep ==
  ASSUME PipelineInv, PipelineInv', LoopInv, [Next]_vars
  PROVE  LoopInv'
<1>0. /\ faults \in Nat /\ committed[C] \in Nat
      /\ reader \in [Instances -> [Topics -> Reader]]
      /\ writing \in [Instances -> [Topics -> Seq(Message)]]
  BY EventTopic DEF PipelineInv, GroupInv, GroupTypes, SourceInv, SourceTypes
<1>1. ASSUME UNCHANGED <<made, writing, topic, committed, reader, faults, disturbed>> PROVE LoopInv'
  BY <1>0, <1>1, LoopIdle
<1>2. ASSUME NEW i \in Instances, Log(i) PROVE LoopInv'
  <2>1. UNCHANGED <<writing, topic, committed, reader, faults, disturbed>> /\ made < MaxMade
    BY <1>2 DEF Log, kafka, writers, groups
  <2>2. made' = made \/ made' = made + 1
    BY <1>2 DEF Log, Slog, Make, sources
  <2>3. \/ made' = made /\ faults <= faults'
        \/ made' = made + 1 /\ made < MaxMade /\ faults' = faults
    BY <1>0, <2>1, <2>2
  <2> QED
    BY <1>0, <2>1, <2>3, LoopIdle
<1>3. ASSUME NEW i \in Instances, Drain(i) PROVE LoopInv'
  <2>1. UNCHANGED <<made, topic, committed, reader, faults, disturbed>>
    BY <1>3 DEF Drain, kafka, groups
  <2>2. \A j \in Instances : writing'[j][C] = writing[j][C]
    BY <1>0, <1>3, EventTopic DEF Drain, L
  <2> QED
    BY <1>0, <2>1, <2>2, LoopIdle
<1>4. ASSUME NEW i \in Instances, NEW t \in Topics, t # C, Publish(i, t) PROVE LoopInv'
  <2>1. UNCHANGED <<made, committed, reader, disturbed>>
    BY <1>4 DEF Publish, sources, groups
  <2>2. topic'[C] = topic[C] /\ \A j \in Instances : writing'[j][C] = writing[j][C]
    BY <1>4, PublishShape, EventTopic DEF PipelineInv
  <2>3. faults <= faults'
    <3>1. PICK n \in Batches(i, t) : Faults(n) \/ NoFault
      BY <1>4 DEF Publish
    <3>2. n \in Nat
      BY BatchTypes DEF PipelineInv
    <3> QED
      BY <1>0, <3>1, <3>2 DEF Faults, NoFault
  <2> QED
    BY <1>0, <2>1, <2>2, <2>3, LoopIdle
<1>5. ASSUME NEW i \in Instances, NEW t \in Topics, Fetch(i, t) PROVE LoopInv'
  <2>1. UNCHANGED <<made, writing, topic, committed, faults, disturbed>>
    BY <1>5 DEF Fetch, sources, kafka, writers, groups
  <2>2. ASSUME NEW j \in Instances, reader'[j][C].at = "handle" PROVE reader[j][C].at = "handle"
    <3>1. PICK r : Become(i, t, r) /\ r.at = "commit"
      BY <1>5 DEF Fetch
    <3>2. j # i \/ C # t
      BY <1>0, <2>2, <3>1, BecomeReader
    <3> QED
      BY <1>0, <2>2, <3>1, <3>2, BecomeReader, EventTopic
  <2> QED
    BY <1>0, <2>1, <2>2, LoopIdle
<1>6. ASSUME NEW i \in Instances, NEW t \in Topics, t # C, Commit(i, t) PROVE LoopInv'
  <2>1. UNCHANGED <<made, writing, topic, faults, disturbed>> /\ committed'[C] = committed[C]
    BY <1>6, EventTopic DEF Commit, sources, writers, groups, PipelineInv, GroupInv, GroupTypes
  <2>2. \A j \in Instances : reader'[j][C] = reader[j][C]
    BY <1>0, <1>6, BecomeReader, EventTopic DEF Commit
  <2> QED
    BY <1>0, <2>1, <2>2, LoopIdle
<1>7. ASSUME NEW i \in Instances, Insert(i) \/ InsertFails(i) PROVE LoopInv'
  <2>1. UNCHANGED <<writing, topic, committed, disturbed>>
    BY <1>7 DEF Insert, InsertFails, kafka, writers, groups
  <2>2. \A j \in Instances : reader'[j][C] = reader[j][C]
    BY <1>0, <1>7, BecomeReader, EventTopic, TopicIsString DEF Insert, InsertFails, Handled, L
  <2>3. \/ made' = made /\ faults <= faults'
        \/ made' = made + 1 /\ faults' = faults + 1
    BY <1>0, <1>7 DEF Insert, InsertFails, Fault, Faults, Slog, Make, sources
  <2> QED
    BY <1>0, <2>1, <2>2, <2>3, LoopIdle
<1>8. ASSUME NEW i \in Instances, NEW t \in Topics, Rebalance(t, i) PROVE LoopInv'
  <2>1. UNCHANGED <<made, writing, topic, committed, faults>> /\ disturbed \subseteq disturbed'
    BY <1>8 DEF Rebalance, sources, writers
  <2>2. ASSUME NEW j \in Instances, reader'[j][C].at = "handle" PROVE reader[j][C].at = "handle"
    <3>1. PICK r : r = [reader[i][t] EXCEPT !.next = committed[t]]
      OBVIOUS
    <3>2. r.at = reader[i][t].at
      BY <1>0, <3>1 DEF Reader
    <3>3. Become(i, t, r)
      BY <1>8, <3>1 DEF Rebalance
    <3> QED
      BY <2>2, <3>2, <3>3, BecomeReader, EventTopic
  <2> QED
    BY <1>0, <2>1, <2>2, LoopIdle
<1>9. CASE UNCHANGED vars
  BY <1>1, <1>9 DEF vars, sources, writers, groups, kafka
<1> QED
  BY <1>2, <1>3, <1>4, <1>5, <1>6, <1>7, <1>8, <1>9, PublishLoop, EventLoop, CrashLoop,
     CommitLoop, HandleLoop, FailureLoop
  DEF Next, Consume, HttpPublishEvent, GrpcPublishEvent, GrpcPublishConversion

\* Although every failure logs a record into the pipeline that failed, nothing
\* is amplified: for any number of processes, requests and faults, at most two
\* records and events for a request and one record for a fault are made, an
\* event in a batch that is repeated or lost counting as one, until a rebalance
\* lets an event be handled again.
THEOREM LoopNeverAmplifies == Spec => []NoAmplification
<1>1. PipelineInv /\ LoopInv => NoAmplification
  <2> SUFFICES ASSUME PipelineInv, LoopInv, C \notin disturbed PROVE made <= 2 * MaxMade + faults
    BY DEF NoAmplification, C
  <2>1. made \in Nat /\ faults \in Nat /\ Load \in Nat /\ MaxMade \in Nat
    BY LoadTyped, PipelineAssumption DEF LoopInv, LoadTypes
  <2>2. made + Load <= 2 * MaxMade + faults
    BY DEF LoopInv
  <2> QED
    BY <2>1, <2>2
<1>2. PipelineInv /\ PipelineInv' /\ LoopInv /\ [Next]_vars => LoopInv'
  BY LoopStep
<1> QED
  BY <1>1, <1>2, LoopInit, PipelineAlwaysInv, PTL DEF Spec

-----------------------------------------------------------------------------
(* Without a fault nothing is skipped *)

\* The message at offset o of topic t has been handled, or a consumer has it in
\* hand; and the group is past it.
Reached(t, o) ==
  o \in handled[t] \/ \E i \in Instances : reader[i][t].at # "read" /\ reader[i][t].offset = o
Passed(t, o) ==
  \/ o < committed[t]
  \/ o < reader[owner[t]][t].next
  \/ \E i \in Instances : reader[i][t].at # "read" /\ o <= reader[i][t].offset

ReachInv == faults = 0 => \A t \in Topics : \A o \in Nat : Passed(t, o) => Reached(t, o)
RowInv == faults = 0 => \A o \in handled[L] : \E n \in DOMAIN logs : logs[n] = topic[L][o + 1]

LEMMA OtherTopic ==
  ASSUME PipelineInv, NEW u \in Topics, \A j \in Instances : reader'[j][u] = reader[j][u],
         committed'[u] = committed[u], owner'[u] = owner[u], handled'[u] = handled[u]
  PROVE  \A o : (Passed(u, o)' <=> Passed(u, o)) /\ (Reached(u, o)' <=> Reached(u, o))
<1>1. owner[u] \in Instances
  BY DEF PipelineInv, GroupInv, GroupTypes
<1> QED
  BY <1>1 DEF Passed, Reached

LEMMA ReachKept ==
  ASSUME ReachInv, faults' = 0 => faults = 0,
         \A u \in Topics : \A o \in Nat :
           /\ Passed(u, o)' => Passed(u, o) \/ Reached(u, o)'
           /\ Reached(u, o) => Reached(u, o)'
  PROVE  ReachInv'
BY DEF ReachInv

LEMMA FetchReach ==
  ASSUME PipelineInv, ReachInv, NEW i \in Instances, NEW t \in Topics, Fetch(i, t)
  PROVE  ReachInv'
<1>1. PICK r : r = [at |-> "commit", next |-> reader[i][t].next + 1, offset |-> reader[i][t].next]
  OBVIOUS
<1>2. /\ Become(i, t, r) /\ owner[t] = i /\ reader[i][t].at = "read"
      /\ UNCHANGED <<committed, owner, handled, faults>>
  BY <1>1 DEF Fetch, kafka
<1>3. /\ reader'[i][t] = r
      /\ \A j \in Instances, u \in Topics : (j # i \/ u # t) => reader'[j][u] = reader[j][u]
  BY <1>2, BecomeReader
<1>4. reader[i][t].next \in Nat
  BY ReaderTypes DEF PipelineInv, GroupInv, GroupTypes
<1>5. ASSUME NEW o \in Nat, Passed(t, o)' PROVE Passed(t, o) \/ Reached(t, o)'
  <2>1. CASE o = reader[i][t].next
    BY <1>1, <1>3, <2>1 DEF Reached
  <2>2. CASE o < reader[i][t].next
    BY <1>2, <2>2 DEF Passed
  <2>3. CASE o > reader[i][t].next
    <3>1. o < committed[t] \/ \E j \in Instances : reader'[j][t].at # "read" /\ o <= reader'[j][t].offset
      BY <1>1, <1>2, <1>3, <1>4, <1>5, <2>3 DEF Passed
    <3>2. ASSUME NEW j \in Instances, reader'[j][t].at # "read", o <= reader'[j][t].offset
          PROVE  Passed(t, o)
      <4>1. j # i
        BY <1>1, <1>3, <1>4, <2>3, <3>2
      <4> QED
        BY <1>3, <3>2, <4>1 DEF Passed
    <3> QED
      BY <3>1, <3>2 DEF Passed
  <2> QED
    BY <1>4, <2>1, <2>2, <2>3
<1>6. ASSUME NEW o \in Nat, Reached(t, o) PROVE Reached(t, o)'
  BY <1>2, <1>3, <1>6 DEF Reached
<1>7. ASSUME NEW u \in Topics, u # t, NEW o \in Nat
      PROVE  (Passed(u, o)' => Passed(u, o)) /\ (Reached(u, o) => Reached(u, o)')
  BY <1>2, <1>3, <1>7, OtherTopic
<1> QED
  BY <1>2, <1>5, <1>6, <1>7, ReachKept

LEMMA CommitReach ==
  ASSUME PipelineInv, ReachInv, NEW i \in Instances, NEW t \in Topics, Commit(i, t)
  PROVE  ReachInv'
<1>1. PICK r : r = [reader[i][t] EXCEPT !.at = "handle"]
  OBVIOUS
<1>2. /\ Become(i, t, r) /\ reader[i][t].at = "commit"
      /\ committed' = [committed EXCEPT ![t] = reader[i][t].offset + 1]
      /\ UNCHANGED <<owner, handled, faults>>
  BY <1>1 DEF Commit
<1>3. /\ reader'[i][t] = r
      /\ \A j \in Instances, u \in Topics : (j # i \/ u # t) => reader'[j][u] = reader[j][u]
  BY <1>2, BecomeReader
<1>4. /\ reader[i][t] \in Reader /\ reader[i][t].offset \in Nat /\ owner[t] \in Instances
      /\ r.at = "handle" /\ r.next = reader[i][t].next /\ r.offset = reader[i][t].offset
  BY <1>1, ReaderTypes DEF PipelineInv, GroupInv, GroupTypes, Reader
<1>5. committed'[t] = reader[i][t].offset + 1 /\ \A u \in Topics : u # t => committed'[u] = committed[u]
  BY <1>2 DEF PipelineInv, GroupInv, GroupTypes
<1>6. \A j \in Instances : /\ reader'[j][t].next = reader[j][t].next
                           /\ reader'[j][t].offset = reader[j][t].offset
                           /\ reader'[j][t].at # "read" <=> reader[j][t].at # "read"
  BY <1>2, <1>3, <1>4
<1>7. ASSUME NEW o \in Nat PROVE (Passed(t, o)' => Passed(t, o)) /\ (Reached(t, o) => Reached(t, o)')
  <2>1. o < committed'[t] => o <= reader[i][t].offset
    BY <1>4, <1>5
  <2>2. Passed(t, o)' => Passed(t, o)
    BY <1>2, <1>4, <1>6, <2>1 DEF Passed
  <2> QED
    BY <1>2, <1>6, <2>2 DEF Reached
<1>8. ASSUME NEW u \in Topics, u # t, NEW o \in Nat
      PROVE  (Passed(u, o)' => Passed(u, o)) /\ (Reached(u, o) => Reached(u, o)')
  BY <1>2, <1>3, <1>5, <1>8, OtherTopic
<1> QED
  BY <1>2, <1>7, <1>8, ReachKept

LEMMA HandledReach ==
  ASSUME PipelineInv, ReachInv, NEW i \in Instances, NEW t \in Topics, Handled(i, t),
         UNCHANGED <<committed, owner>>, faults' = 0 => faults = 0
  PROVE  ReachInv'
<1>1. PICK r : r = [reader[i][t] EXCEPT !.at = "read"]
  OBVIOUS
<1>2. /\ Become(i, t, r) /\ reader[i][t].at = "handle"
      /\ handled' = [handled EXCEPT ![t] = @ \cup {reader[i][t].offset}]
  BY <1>1 DEF Handled
<1>3. /\ reader'[i][t] = r
      /\ \A j \in Instances, u \in Topics : (j # i \/ u # t) => reader'[j][u] = reader[j][u]
  BY <1>2, BecomeReader
<1>4. /\ reader[i][t] \in Reader /\ owner[t] \in Instances
      /\ r.at = "read" /\ r.next = reader[i][t].next
  BY <1>1 DEF PipelineInv, GroupInv, GroupTypes, Reader
<1>5. /\ handled'[t] = handled[t] \cup {reader[i][t].offset}
      /\ \A u \in Topics : u # t => handled'[u] = handled[u]
  BY <1>2 DEF PipelineInv, GroupInv, GroupTypes
<1>6. ASSUME NEW o \in Nat PROVE (Passed(t, o)' => Passed(t, o)) /\ (Reached(t, o) => Reached(t, o)')
  <2>1. \A j \in Instances : /\ reader'[j][t].next = reader[j][t].next
                             /\ reader'[j][t].at # "read" => reader'[j][t] = reader[j][t]
    BY <1>3, <1>4
  <2>2. Passed(t, o)' => Passed(t, o)
    BY <1>4, <2>1 DEF Passed
  <2>3. Reached(t, o) => Reached(t, o)'
    BY <1>3, <1>5 DEF Reached
  <2> QED
    BY <2>2, <2>3
<1>7. ASSUME NEW u \in Topics, u # t, NEW o \in Nat
      PROVE  (Passed(u, o)' => Passed(u, o)) /\ (Reached(u, o) => Reached(u, o)')
  BY <1>3, <1>5, <1>7, OtherTopic
<1> QED
  BY <1>6, <1>7, ReachKept

\* The new owner begins where the group has committed: nothing before that is
\* lost, though the old one may still have its message in hand.
LEMMA RebalanceReach ==
  ASSUME PipelineInv, ReachInv, NEW i \in Instances, NEW t \in Topics, Rebalance(t, i)
  PROVE  ReachInv'
<1>1. PICK r : r = [reader[i][t] EXCEPT !.next = committed[t]]
  OBVIOUS
<1>2. /\ Become(i, t, r) /\ owner' = [owner EXCEPT ![t] = i]
      /\ UNCHANGED <<committed, handled, faults>>
  BY <1>1 DEF Rebalance
<1>3. /\ reader'[i][t] = r
      /\ \A j \in Instances, u \in Topics : (j # i \/ u # t) => reader'[j][u] = reader[j][u]
  BY <1>2, BecomeReader
<1>4. /\ reader[i][t] \in Reader
      /\ r.next = committed[t] /\ r.at = reader[i][t].at /\ r.offset = reader[i][t].offset
  BY <1>1 DEF PipelineInv, GroupInv, GroupTypes, Reader
<1>5. owner'[t] = i /\ \A u \in Topics : u # t => owner'[u] = owner[u]
  BY <1>2 DEF PipelineInv, GroupInv, GroupTypes
<1>6. ASSUME NEW o \in Nat PROVE (Passed(t, o)' => Passed(t, o)) /\ (Reached(t, o) => Reached(t, o)')
  <2>1. \A j \in Instances : /\ reader'[j][t].at = reader[j][t].at
                             /\ reader'[j][t].offset = reader[j][t].offset
    BY <1>3, <1>4
  <2>2. Passed(t, o)' => Passed(t, o)
    BY <1>2, <1>3, <1>4, <1>5, <2>1 DEF Passed
  <2>3. Reached(t, o) => Reached(t, o)'
    BY <1>2, <2>1 DEF Reached
  <2> QED
    BY <2>2, <2>3
<1>7. ASSUME NEW u \in Topics, u # t, NEW o \in Nat
      PROVE  (Passed(u, o)' => Passed(u, o)) /\ (Reached(u, o) => Reached(u, o)')
  BY <1>2, <1>3, <1>5, <1>7, OtherTopic
<1> QED
  BY <1>2, <1>6, <1>7, ReachKept

LEMMA FaultEnds ==
  ASSUME PipelineInv, NEW n \in Nat \ {0}, Faults(n)
  PROVE  ReachInv' /\ RowInv'
<1>1. faults' # 0
  BY DEF PipelineInv, GroupInv, GroupTypes, Faults
<1> QED
  BY <1>1 DEF ReachInv, RowInv

LEMMA ReachSame ==
  ASSUME PipelineInv, ReachInv, UNCHANGED <<committed, owner, reader, handled, faults>>
  PROVE  ReachInv'
BY OtherTopic, ReachKept

\* A row once inserted stays, and so does what the topic holds.
LEMMA RowSame ==
  ASSUME PipelineInv, RowInv, UNCHANGED <<handled, logs, faults>>,
         \A o \in 1 .. Len(topic[L]) : topic'[L][o] = topic[L][o]
  PROVE  RowInv'
<1>1. \A o \in handled[L] : o + 1 \in 1 .. Len(topic[L])
  BY TopicIsString, TopicTypes DEF PipelineInv, GroupInv, GroupTypes, WithinOK
<1> QED
  BY <1>1 DEF RowInv

LEMMA InsertRow ==
  ASSUME PipelineInv, RowInv, NEW i \in Instances, Insert(i)
  PROVE  RowInv'
<1>1. PICK q : q = reader[i][L].offset
  OBVIOUS
<1>2. PICK m : m = topic[L][q + 1]
  OBVIOUS
<1>3. /\ handled'[L] = handled[L] \cup {q} /\ logs' = Append(logs, m)
      /\ UNCHANGED <<topic, faults>>
  BY <1>1, <1>2, TopicIsString DEF Insert, Handled, L, kafka, PipelineInv, GroupInv, GroupTypes
<1>4. logs \in Seq(Message) /\ Len(logs) \in Nat
  BY LenProperties DEF PipelineInv, LogsInv
<1>5. m \in Message
  <2>1. reader[i][L].at = "handle"
    BY DEF Insert, Handled, L
  <2>2. q \in Nat /\ q < Len(topic[L])
    BY <1>1, <2>1, TopicIsString, ReaderTypes DEF PipelineInv, GroupInv, GroupTypes, PlaceOK
  <2>3. topic[L] \in Seq(Message) /\ Len(topic[L]) \in Nat
    BY TopicIsString, TopicTypes DEF PipelineInv
  <2> QED
    BY <1>2, <2>2, <2>3
<1>6. /\ DOMAIN logs = 1 .. Len(logs) /\ DOMAIN logs' = 1 .. Len(logs) + 1
      /\ logs'[Len(logs) + 1] = m /\ \A n \in 1 .. Len(logs) : logs'[n] = logs[n]
  BY <1>3, <1>4, <1>5, AppendProperties, LenProperties
<1>7. ASSUME faults = 0, NEW o \in handled'[L] PROVE \E n \in DOMAIN logs' : logs'[n] = topic[L][o + 1]
  <2>1. CASE o = q
    BY <1>2, <1>4, <1>6, <2>1
  <2>2. CASE o \in handled[L]
    <3>1. PICK n \in DOMAIN logs : logs[n] = topic[L][o + 1]
      BY <1>7, <2>2 DEF RowInv
    <3>2. n \in DOMAIN logs' /\ logs'[n] = logs[n]
      BY <1>4, <1>6, <3>1
    <3> QED
      BY <3>1, <3>2
  <2> QED
    BY <1>3, <1>7, <2>1, <2>2
<1> QED
  BY <1>3, <1>7 DEF RowInv

LEMMA SkipStep ==
  ASSUME PipelineInv, ReachInv, RowInv, [Next]_vars
  PROVE  ReachInv' /\ RowInv'
<1>1. ASSUME UNCHANGED <<topic, committed, owner, reader, handled, logs, faults>>
      PROVE  ReachInv' /\ RowInv'
  BY <1>1, ReachSame, RowSame
<1>2. ASSUME NEW i \in Instances, Log(i) \/ Drain(i) PROVE ReachInv' /\ RowInv'
  BY <1>1, <1>2 DEF Log, Drain, kafka
<1>3. ASSUME NEW i \in Instances, NEW a \in Amounts, PublishConversion(i, a) PROVE ReachInv' /\ RowInv'
  BY <1>1, <1>3 DEF PublishConversion, kafka
<1>4. ASSUME NEW i \in Instances, InsertFails(i) \/ Crash(i) PROVE ReachInv' /\ RowInv'
  BY <1>4, FaultEnds DEF InsertFails, Crash, Fault
<1>5. ASSUME NEW i \in Instances, NEW t \in Topics, ReadFails(i, t) PROVE ReachInv' /\ RowInv'
  BY <1>5, FaultEnds DEF ReadFails, Fault
<1>6. ASSUME NEW i \in Instances, NEW t \in Topics, Publish(i, t) PROVE ReachInv' /\ RowInv'
  <2>1. PICK n \in Batches(i, t) : Faults(n) \/ NoFault
    BY <1>6 DEF Publish
  <2>2. CASE Faults(n)
    <3>1. n \in Nat \ {0}
      BY BatchTypes DEF PipelineInv
    <3> QED
      BY <2>2, <3>1, FaultEnds
  <2>3. CASE NoFault
    <3>1. UNCHANGED <<committed, owner, reader, handled, logs, faults>>
      BY <1>6, <2>3 DEF Publish, NoFault
    <3>2. \A o \in 1 .. Len(topic[L]) : topic'[L][o] = topic[L][o]
      <4>1. Appends(i, t) /\ \A u \in Topics : u # t => topic'[u] = topic[u]
        BY <1>6, PublishAppends, PublishShape DEF PipelineInv
      <4> QED
        BY <4>1, TopicIsString DEF Appends
    <3> QED
      BY <3>1, <3>2, ReachSame, RowSame
  <2> QED
    BY <2>1, <2>2, <2>3
<1>7. ASSUME NEW i \in Instances, NEW t \in Topics, Fetch(i, t) \/ Commit(i, t) \/ Rebalance(t, i)
      PROVE  ReachInv' /\ RowInv'
  <2>1. UNCHANGED <<topic, handled, logs, faults>>
    BY <1>7 DEF Fetch, Commit, Rebalance, kafka
  <2>2. RowInv'
    BY <2>1, RowSame
  <2> QED
    BY <1>7, <2>2, FetchReach, CommitReach, RebalanceReach
<1>8. ASSUME NEW i \in Instances, HandleEvent(i) PROVE ReachInv' /\ RowInv'
  <2>1. Handled(i, C) /\ UNCHANGED <<topic, committed, owner, logs, faults>>
    BY <1>8 DEF HandleEvent, kafka, C
  <2>2. ReachInv'
    BY <2>1, HandledReach, EventTopic
  <2>3. handled'[L] = handled[L]
    BY <2>1, EventTopic, TopicIsString DEF Handled, PipelineInv, GroupInv, GroupTypes
  <2>4. RowInv'
    BY <2>1, <2>3 DEF RowInv
  <2> QED
    BY <2>2, <2>4
<1>9. ASSUME NEW i \in Instances, Insert(i) PROVE ReachInv' /\ RowInv'
  <2>1. Handled(i, L) /\ UNCHANGED <<committed, owner, faults>>
    BY <1>9 DEF Insert, kafka, L
  <2> QED
    BY <1>9, <2>1, HandledReach, InsertRow, TopicIsString
<1>10. CASE UNCHANGED vars
  BY <1>1, <1>10 DEF vars, kafka
<1> QED
  BY <1>2, <1>3, <1>4, <1>5, <1>6, <1>7, <1>8, <1>9, <1>10
  DEF Next, Consume, HttpPublishEvent, GrpcPublishEvent, GrpcPublishConversion

\* Nothing gets lost without a fault, through any number of rebalances and with
\* any number of processes: what the group is past has been handled or is in
\* the hands of a consumer, and what was handled of the log topic is a row.  So
\* when the pipeline is at rest every message was handled and every record is
\* in the logs table.  It is the safety half of Delivered.
THEOREM NothingSkipped ==
  Spec => [](faults = 0 =>
    /\ \A t \in Topics : \A o \in Nat : Passed(t, o) => Reached(t, o)
    /\ \A o \in handled[L] : \E n \in DOMAIN logs : logs[n] = topic[L][o + 1]
    /\ Settled => \A t \in Topics : \A o \in Nat : o < Len(topic[t]) => o \in handled[t])
<1>1. Init => ReachInv /\ RowInv
  <2> SUFFICES ASSUME Init PROVE ReachInv /\ RowInv
    OBVIOUS
  <2>1. ASSUME NEW t \in Topics, NEW o \in Nat PROVE ~Passed(t, o)
    BY DEF Init, Passed, Fresh
  <2>2. handled[L] = {}
    BY TopicIsString DEF Init
  <2> QED
    BY <2>1, <2>2 DEF ReachInv, RowInv
<1>2. PipelineInv /\ ReachInv /\ RowInv /\ [Next]_vars => ReachInv' /\ RowInv'
  BY SkipStep
<1>3. ASSUME ReachInv, RowInv, faults = 0
      PROVE  /\ \A t \in Topics : \A o \in Nat : Passed(t, o) => Reached(t, o)
             /\ \A o \in handled[L] : \E n \in DOMAIN logs : logs[n] = topic[L][o + 1]
             /\ Settled => \A t \in Topics : \A o \in Nat : o < Len(topic[t]) => o \in handled[t]
  <2>1. ASSUME Settled, NEW t \in Topics, NEW o \in Nat, o < Len(topic[t]) PROVE o \in handled[t]
    <3>1. Passed(t, o)
      BY <2>1 DEF Settled, Passed
    <3>2. Reached(t, o)
      BY <1>3, <3>1 DEF ReachInv
    <3> QED
      BY <2>1, <3>2 DEF Reached, Settled
  <2> QED
    BY <1>3, <2>1 DEF ReachInv, RowInv
<1>4. ReachInv /\ RowInv =>
        (faults = 0 =>
          /\ \A t \in Topics : \A o \in Nat : Passed(t, o) => Reached(t, o)
          /\ \A o \in handled[L] : \E n \in DOMAIN logs : logs[n] = topic[L][o + 1]
          /\ Settled => \A t \in Topics : \A o \in Nat : o < Len(topic[t]) => o \in handled[t])
  BY <1>3
<1>5. Spec => [](ReachInv /\ RowInv)
  BY <1>1, <1>2, PipelineAlwaysInv, PTL DEF Spec
<1> QED
  BY <1>4, <1>5, PTL
=============================================================================
