--------------------------- MODULE PipelineProofs ---------------------------
(***************************************************************************)
(* What module Pipeline promises, for any number of processes, buffer      *)
(* size, faults and rebalances.  The invariant has three parts: what the   *)
(* processes make and write, in order (SourceInv); what the consumers have *)
(* read, committed and handled (GroupInv); and where the rows of the logs  *)
(* table come from (LogsInv).                                              *)
(***************************************************************************)
EXTENDS Pipeline, SequenceTheorems, TLAPS

L == "app-logs"

SourceTypes ==
  /\ made \in Nat
  /\ channel \in [Instances -> Seq(Message)]
  /\ \A i \in Instances : Len(channel[i]) <= BufferSize
  /\ writing \in [Instances -> [Topics -> Seq(Message)]]
  /\ retry \in [Instances -> [Topics -> Nat]]
  /\ \A i \in Instances, t \in Topics : retry[i][t] <= Len(writing[i][t])
  /\ topic \in [Topics -> Seq(Message)]

\* The channel holds records of its own process, in the order they were made.
ChannelOK(i) ==
  /\ \A k \in 1 .. Len(channel[i]) : channel[i][k].by = i /\ channel[i][k].n <= made
  /\ \A j, k \in 1 .. Len(channel[i]) : j < k => channel[i][j].n < channel[i][k].n

\* The drain goroutine writes one record at a time, and it was made before
\* those in the channel.
WritingOK(i) ==
  /\ Len(writing[i][L]) <= 1
  /\ \A w \in 1 .. Len(writing[i][L]) :
       /\ writing[i][L][w].by = i /\ writing[i][L][w].n <= made
       /\ \A k \in 1 .. Len(channel[i]) : writing[i][L][w].n < channel[i][k].n

\* What is written was made before what its process has still to write.
WrittenOK(i, o) ==
  topic[L][o].by = i =>
    /\ topic[L][o].n <= made
    /\ \A w \in 1 .. Len(writing[i][L]) : topic[L][o].n <= writing[i][L][w].n
    /\ \A k \in 1 .. Len(channel[i]) : topic[L][o].n < channel[i][k].n

TopicInOrder ==
  \A o, q \in 1 .. Len(topic[L]) :
    (o < q /\ topic[L][o].by = topic[L][q].by) => topic[L][o].n <= topic[L][q].n

SourceInv ==
  /\ SourceTypes
  /\ \A i \in Instances : ChannelOK(i) /\ WritingOK(i)
  /\ \A i \in Instances, o \in 1 .. Len(topic[L]) : WrittenOK(i, o)
  /\ TopicInOrder

-----------------------------------------------------------------------------
LEMMA TopicIsString == L \in Topics
BY DEF L, Topics

LEMMA MessageTypes ==
  ASSUME NEW m \in Message PROVE m.by \in Instances /\ m.n \in Nat
BY DEF Message

\* What the writers hold are messages.
LEMMA WritingTypes ==
  ASSUME SourceInv, NEW i \in Instances, NEW t \in Topics
  PROVE  /\ writing[i][t] \in Seq(Message) /\ Len(writing[i][t]) \in Nat
         /\ DOMAIN writing[i][t] = 1 .. Len(writing[i][t])
         /\ \A w \in 1 .. Len(writing[i][t]) : writing[i][t][w] \in Message
<1>1. writing[i][t] \in Seq(Message)
  BY DEF SourceInv, SourceTypes
<1> QED
  BY <1>1, LenProperties

\* Process j has as much to write as before.
LEMMA ProcessKept ==
  ASSUME SourceInv, NEW j \in Instances, made' \in Nat, made <= made',
         writing'[j][L] = writing[j][L], channel'[j] = channel[j]
  PROVE  /\ ChannelOK(j)' /\ WritingOK(j)'
         /\ \A o \in 1 .. Len(topic[L]) : topic'[L][o] = topic[L][o] => WrittenOK(j, o)'
<1>1. made \in Nat /\ topic[L] \in Seq(Message) /\ WritingOK(j)
  BY TopicIsString DEF SourceInv, SourceTypes
<1>2. \A w \in 1 .. Len(writing[j][L]) : writing[j][L][w] \in Message
  BY TopicIsString, WritingTypes
<1>3. WritingOK(j)'
  <2>1. ASSUME NEW w \in 1 .. Len(writing[j][L]) PROVE writing[j][L][w].n <= made'
    <3>1. writing[j][L][w].n \in Nat /\ writing[j][L][w].n <= made
      BY <1>1, <1>2, <2>1, MessageTypes DEF WritingOK
    <3> QED
      BY <1>1, <3>1
  <2> QED
    BY <1>1, <2>1 DEF WritingOK
<1>4. ASSUME NEW o \in 1 .. Len(topic[L]), topic'[L][o] = topic[L][o] PROVE WrittenOK(j, o)'
  <2>1. WrittenOK(j, o) /\ topic[L][o].n \in Nat
    BY <1>1, <1>4, LenProperties, MessageTypes DEF SourceInv
  <2>2. topic[L][o].by = j => topic[L][o].n <= made'
    BY <1>1, <2>1 DEF WrittenOK
  <2> QED
    BY <1>4, <2>1, <2>2 DEF WrittenOK
<1>5. ChannelOK(j)'
  <2>1. ChannelOK(j) /\ channel[j] \in Seq(Message)
    BY DEF SourceInv, SourceTypes
  <2>2. ASSUME NEW k \in 1 .. Len(channel[j]) PROVE channel[j][k].n <= made'
    <3>1. channel[j][k].n \in Nat /\ channel[j][k].n <= made
      BY <2>1, <2>2, LenProperties, MessageTypes DEF ChannelOK
    <3> QED
      BY <1>1, <3>1
  <2> QED
    BY <2>1, <2>2 DEF ChannelOK
<1> QED
  BY <1>3, <1>4, <1>5

\* A step that makes no record and writes none.
LEMMA SourceSame ==
  ASSUME SourceInv, UNCHANGED <<made, channel, writing, retry, topic>>
  PROVE  SourceInv'
BY DEF SourceInv, SourceTypes, ChannelOK, WritingOK, WrittenOK, TopicInOrder

\* Slog gives the record the highest number so far.
LEMMA SlogSource ==
  ASSUME SourceInv, NEW i \in Instances, NEW level, Slog(i, level),
         UNCHANGED <<writing, retry, topic>>
  PROVE  SourceInv'
<1> USE PipelineAssumption, TopicIsString
<1>1. SourceTypes /\ made \in Nat
  BY DEF SourceInv, SourceTypes
<1>2. CASE UNCHANGED sources
  BY <1>2, SourceSame DEF sources
<1>3. CASE made' = made + 1 /\ UNCHANGED channel
  <2>1. SourceTypes'
    BY <1>1, <1>3 DEF SourceTypes
  <2>3. ASSUME NEW j \in Instances PROVE ChannelOK(j)' /\ WritingOK(j)'
    BY <1>1, <1>3, ProcessKept
  <2>4. ASSUME NEW j \in Instances, NEW o \in 1 .. Len(topic[L])' PROVE WrittenOK(j, o)'
    BY <1>1, <1>3, <2>4, ProcessKept
  <2>5. TopicInOrder'
    BY DEF SourceInv, TopicInOrder
  <2> QED
    BY <2>1, <2>3, <2>4, <2>5 DEF SourceInv
<1>4. CASE /\ made' = made + 1 /\ Len(channel[i]) < BufferSize
           /\ channel' = [channel EXCEPT ![i] = Append(@, Made(i))]
  <2>1. PICK m : m = Made(i)
    OBVIOUS
  <2>2. m \in Message /\ m.by = i /\ m.n = made + 1
    BY <1>1, <2>1 DEF Made, Message
  <2>3. /\ channel'[i] \in Seq(Message) /\ Len(channel'[i]) = Len(channel[i]) + 1
        /\ \A k \in 1 .. Len(channel[i]) : channel'[i][k] = channel[i][k]
        /\ channel'[i][Len(channel[i]) + 1] = m
    BY <1>1, <1>4, <2>1, <2>2, AppendProperties DEF SourceTypes
  <2>4. \A j \in Instances : j # i => channel'[j] = channel[j]
    BY <1>1, <1>4 DEF SourceTypes
  <2>5. \A j \in Instances : Len(channel[j]) \in Nat /\ \A k \in 1 .. Len(channel[j]) : channel[j][k] \in Message
    BY <1>1 DEF SourceTypes
  <2>6. SourceTypes'
    BY <1>1, <1>4, <2>3, <2>4, <2>5 DEF SourceTypes
  <2>7. ASSUME NEW j \in Instances PROVE ChannelOK(j)'
    <3>1. CASE j = i
      <4>1. ASSUME NEW k \in 1 .. Len(channel'[i]) PROVE channel'[i][k].by = i /\ channel'[i][k].n <= made'
        BY <1>1, <1>4, <2>2, <2>3, <2>5, <4>1, MessageTypes DEF SourceInv, ChannelOK
      <4>2. ASSUME NEW h \in 1 .. Len(channel'[i]), NEW k \in 1 .. Len(channel'[i]), h < k
            PROVE  channel'[i][h].n < channel'[i][k].n
        <5>1. h \in 1 .. Len(channel[i]) /\ channel'[i][h] = channel[i][h]
          BY <2>3, <2>5, <4>2
        <5>2. CASE k \in 1 .. Len(channel[i])
          BY <2>3, <4>2, <5>1, <5>2 DEF SourceInv, ChannelOK
        <5>3. CASE k = Len(channel[i]) + 1
          <6>1. channel[i][h].n <= made /\ channel[i][h].n \in Nat
            BY <2>5, <5>1, MessageTypes DEF SourceInv, ChannelOK
          <6> QED
            BY <1>1, <2>2, <2>3, <5>1, <5>3, <6>1
        <5> QED
          BY <2>3, <2>5, <4>2, <5>2, <5>3
      <4> QED
        BY <3>1, <4>1, <4>2 DEF ChannelOK
    <3>2. CASE j # i
      BY <1>1, <1>4, <2>4, <2>5, <3>2, MessageTypes DEF SourceInv, ChannelOK
    <3> QED
      BY <3>1, <3>2
  <2>8. ASSUME NEW j \in Instances PROVE WritingOK(j)'
    <3>1. \A w \in 1 .. Len(writing[j][L]) : writing[j][L][w] \in Message
      BY WritingTypes
    <3>2. CASE j = i
      <4> SUFFICES ASSUME NEW w \in 1 .. Len(writing[i][L])
                   PROVE  /\ writing[i][L][w].by = i /\ writing[i][L][w].n <= made'
                          /\ \A k \in 1 .. Len(channel'[i]) : writing[i][L][w].n < channel'[i][k].n
        BY <3>2 DEF SourceInv, WritingOK
      <4>1. /\ writing[i][L][w].by = i /\ writing[i][L][w].n <= made /\ writing[i][L][w].n \in Nat
            /\ \A k \in 1 .. Len(channel[i]) : writing[i][L][w].n < channel[i][k].n
        BY <3>1, <3>2, MessageTypes DEF SourceInv, WritingOK
      <4>2. ASSUME NEW k \in 1 .. Len(channel'[i]) PROVE writing[i][L][w].n < channel'[i][k].n
        <5>1. k \in 1 .. Len(channel[i]) \/ k = Len(channel[i]) + 1
          BY <2>3, <2>5, <4>2
        <5>2. CASE k \in 1 .. Len(channel[i])
          BY <2>3, <4>1, <5>2
        <5>3. CASE k = Len(channel[i]) + 1
          <6>1. channel'[i][k].n = made + 1
            BY <2>2, <2>3, <5>3
          <6> QED
            BY <1>1, <4>1, <6>1
        <5> QED
          BY <5>1, <5>2, <5>3
      <4> QED
        BY <1>1, <1>4, <4>1, <4>2
    <3>3. CASE j # i
      BY <1>1, <1>4, <2>4, <3>3, ProcessKept
    <3> QED
      BY <3>2, <3>3
  <2>9. ASSUME NEW j \in Instances, NEW o \in 1 .. Len(topic[L])' PROVE WrittenOK(j, o)'
    <3>1. topic[L][o] \in Message
      BY <1>1, <2>9 DEF SourceTypes
    <3>2. CASE j = i
      <4> SUFFICES ASSUME topic[L][o].by = i
                   PROVE  /\ topic[L][o].n <= made'
                          /\ \A w \in 1 .. Len(writing[i][L]) : topic[L][o].n <= writing[i][L][w].n
                          /\ \A k \in 1 .. Len(channel'[i]) : topic[L][o].n < channel'[i][k].n
        BY <3>2 DEF WrittenOK
      <4>1. /\ topic[L][o].n <= made /\ topic[L][o].n \in Nat
            /\ \A w \in 1 .. Len(writing[i][L]) : topic[L][o].n <= writing[i][L][w].n
            /\ \A k \in 1 .. Len(channel[i]) : topic[L][o].n < channel[i][k].n
        BY <2>9, <3>1, MessageTypes DEF SourceInv, WrittenOK
      <4>2. ASSUME NEW k \in 1 .. Len(channel'[i]) PROVE topic[L][o].n < channel'[i][k].n
        <5>1. k \in 1 .. Len(channel[i]) \/ k = Len(channel[i]) + 1
          BY <2>3, <2>5, <4>2
        <5>2. CASE k \in 1 .. Len(channel[i])
          BY <2>3, <4>1, <5>2
        <5>3. CASE k = Len(channel[i]) + 1
          <6>1. channel'[i][k].n = made + 1
            BY <2>2, <2>3, <5>3
          <6> QED
            BY <1>1, <4>1, <6>1
        <5> QED
          BY <5>1, <5>2, <5>3
      <4> QED
        BY <1>1, <1>4, <4>1, <4>2
    <3>3. CASE j # i
      BY <1>1, <1>4, <2>4, <2>9, <3>3, ProcessKept
    <3> QED
      BY <3>2, <3>3
  <2>10. TopicInOrder'
    BY DEF SourceInv, TopicInOrder
  <2> QED
    BY <2>6, <2>7, <2>8, <2>9, <2>10 DEF SourceInv
<1> QED
  BY <1>2, <1>3, <1>4 DEF Slog, Make

LEMMA DrainSource ==
  ASSUME SourceInv, NEW i \in Instances, Drain(i)
  PROVE  SourceInv'
<1> USE TopicIsString
<1>1. SourceTypes /\ channel[i] \in Seq(Message) /\ channel[i] # <<>>
  BY DEF SourceInv, SourceTypes, Drain
<1>2. PICK m : m = Head(channel[i])
  OBVIOUS
<1>3. /\ m \in Message /\ Len(channel[i]) \in Nat \ {0} /\ m = channel[i][1]
      /\ Tail(channel[i]) \in Seq(Message) /\ Len(Tail(channel[i])) = Len(channel[i]) - 1
      /\ \A k \in 1 .. Len(channel[i]) - 1 : Tail(channel[i])[k] = channel[i][k + 1]
  BY <1>1, <1>2, HeadTailProperties, EmptySeq
<1>4. /\ channel'[i] = Tail(channel[i]) /\ \A j \in Instances : j # i => channel'[j] = channel[j]
      /\ channel' \in [Instances -> Seq(Message)] /\ UNCHANGED <<made, topic>>
  <2>1. channel' = [channel EXCEPT ![i] = Tail(channel[i])] /\ UNCHANGED <<made, topic>>
    BY DEF Drain, kafka
  <2> QED
    BY <1>1, <1>3, <2>1 DEF SourceTypes
<1>5. /\ writing' \in [Instances -> [Topics -> Seq(Message)]]
      /\ Len(writing'[i][L]) = 1 /\ writing'[i][L][1] = m
      /\ \A j \in Instances : j # i => writing'[j] = writing[j]
      /\ retry' = retry /\ \A j \in Instances, t \in Topics : retry[j][t] <= Len(writing'[j][t])
  <2>1. /\ writing' = [writing EXCEPT ![i][L] = <<m>>] /\ writing[i][L] = <<>> /\ retry' = retry
        /\ writing \in [Instances -> [Topics -> Seq(Message)]]
    BY <1>1, <1>2 DEF Drain, L, SourceTypes
  <2>2. <<m>> \in Seq(Message) /\ Len(<<m>>) = 1 /\ <<m>>[1] = m
    BY <1>3
  <2>3. /\ writing' \in [Instances -> [Topics -> Seq(Message)]] /\ writing'[i][L] = <<m>>
        /\ \A j \in Instances, t \in Topics : (j # i \/ t # L) => writing'[j][t] = writing[j][t]
        /\ \A j \in Instances : j # i => writing'[j] = writing[j]
    BY <2>1, <2>2
  <2>4. retry[i][L] <= 0 /\ retry[i][L] \in Nat
    BY <1>1, <2>1, EmptySeq DEF SourceTypes
  <2>5. ASSUME NEW j \in Instances, NEW t \in Topics PROVE retry[j][t] <= Len(writing'[j][t])
    <3>1. CASE j = i /\ t = L
      BY <2>2, <2>3, <2>4, <3>1
    <3>2. CASE j # i \/ t # L
      BY <1>1, <2>3, <3>2 DEF SourceTypes
    <3> QED
      BY <3>1, <3>2
  <2> QED
    BY <2>1, <2>2, <2>3, <2>5
<1>6. \A j \in Instances : Len(channel[j]) \in Nat /\ \A k \in 1 .. Len(channel[j]) : channel[j][k] \in Message
  BY <1>1 DEF SourceTypes
<1>7. SourceTypes'
  <2>1. \A j \in Instances : Len(channel'[j]) <= BufferSize
    <3>1. Len(channel[i]) <= BufferSize /\ BufferSize \in Nat
      BY <1>1, PipelineAssumption DEF SourceTypes
    <3>2. Len(channel'[i]) <= BufferSize
      BY <1>3, <1>4, <3>1
    <3> QED
      BY <1>1, <1>4, <3>2 DEF SourceTypes
  <2> QED
    BY <1>1, <1>4, <1>5, <2>1 DEF SourceTypes
<1>8. ASSUME NEW j \in Instances PROVE ChannelOK(j)' /\ WritingOK(j)'
  <2>1. CASE j = i
    <3>0. /\ Len(channel'[i]) = Len(channel[i]) - 1
          /\ \A k \in 1 .. Len(channel'[i]) :
               k + 1 \in 1 .. Len(channel[i]) /\ channel'[i][k] = channel[i][k + 1]
      BY <1>3, <1>4
    <3>1. ChannelOK(i)'
      <4>1. ChannelOK(i)
        BY DEF SourceInv
      <4>2. \A k \in 1 .. Len(channel'[i]) : channel'[i][k].by = i /\ channel'[i][k].n <= made
        BY <3>0, <4>1 DEF ChannelOK
      <4>3. ASSUME NEW k \in 1 .. Len(channel'[i]), NEW l \in 1 .. Len(channel'[i]), k < l
            PROVE  channel'[i][k].n < channel'[i][l].n
        <5>1. k + 1 < l + 1
          BY <4>3
        <5> QED
          BY <3>0, <4>1, <5>1 DEF ChannelOK
      <4> QED
        BY <1>4, <4>2, <4>3 DEF ChannelOK
    <3>2. WritingOK(i)'
      <4>1. /\ Len(writing'[i][L]) <= 1
            /\ \A w \in 1 .. Len(writing'[i][L]) : writing'[i][L][w] = m
        BY <1>5
      <4>2. m.by = i /\ m.n <= made
        BY <1>3, <1>6 DEF SourceInv, ChannelOK
      <4>3. \A k \in 1 .. Len(channel'[i]) : m.n < channel'[i][k].n
        <5>1. \A k \in 1 .. Len(channel[i]) : 1 < k => m.n < channel[i][k].n
          BY <1>3, <1>6 DEF SourceInv, ChannelOK
        <5> QED
          BY <1>6, <3>0, <5>1
      <4> QED
        BY <1>4, <4>1, <4>2, <4>3 DEF WritingOK
    <3> QED
      BY <2>1, <3>1, <3>2
  <2>2. CASE j # i
    BY <1>4, <1>5, <2>2 DEF SourceInv, ChannelOK, WritingOK
  <2> QED
    BY <2>1, <2>2
<1>9. ASSUME NEW j \in Instances, NEW o \in 1 .. Len(topic[L])' PROVE WrittenOK(j, o)'
  <2>0. o \in 1 .. Len(topic[L]) /\ topic[L][o] \in Message
    BY <1>1, <1>4, <1>9 DEF SourceTypes
  <2>1. CASE j = i
    <3>1. topic[L][o].by = i => topic[L][o].n < m.n
      BY <1>3, <2>0 DEF SourceInv, WrittenOK
    <3> QED
      <4> SUFFICES ASSUME topic[L][o].by = i
                   PROVE  /\ topic[L][o].n <= made /\ topic[L][o].n <= m.n
                          /\ \A k \in 1 .. Len(channel'[i]) : topic[L][o].n < channel'[i][k].n
        <5>1. \A w \in 1 .. Len(writing'[i][L]) : writing'[i][L][w] = m
          BY <1>5
        <5> QED
          BY <1>4, <2>1, <5>1 DEF WrittenOK
      <4>1. /\ topic[L][o].n <= made
            /\ \A k \in 1 .. Len(channel[i]) : topic[L][o].n < channel[i][k].n
        BY <2>0 DEF SourceInv, WrittenOK
      <4> QED
        BY <1>3, <1>4, <2>0, <3>1, <4>1, MessageTypes
  <2>2. CASE j # i
    BY <1>4, <1>5, <2>0, <2>2 DEF SourceInv, WrittenOK
  <2> QED
    BY <2>1, <2>2
<1> QED
  BY <1>4, <1>7, <1>8, <1>9 DEF SourceInv, TopicInOrder

\* What process i's writer holds for topic t goes to its end.
Appends(i, t) ==
  /\ topic'[t] \in Seq(Message) /\ Len(topic[t]) \in Nat /\ Len(topic[t]) <= Len(topic'[t])
  /\ \A o \in 1 .. Len(topic[t]) : topic'[t][o] = topic[t][o]
  /\ \A o \in 1 .. Len(topic'[t]) :
       o > Len(topic[t]) => \E w \in 1 .. Len(writing[i][t]) : topic'[t][o] = writing[i][t][w]

\* The writer is done with some of it.
Shrinks(i, t) ==
  /\ writing'[i][t] \in Seq(Message) /\ Len(writing'[i][t]) <= Len(writing[i][t])
  /\ \A v \in 1 .. Len(writing'[i][t]) :
       \E w \in 1 .. Len(writing[i][t]) : writing'[i][t][v] = writing[i][t][w]

\* A batch is the front of what the writer holds.
LEMMA BatchTypes ==
  ASSUME SourceInv, NEW i \in Instances, NEW t \in Topics, NEW n \in Batches(i, t)
  PROVE  /\ n \in 1 .. Len(writing[i][t]) /\ n \in Nat
         /\ SubSeq(writing[i][t], 1, n) \in Seq(Message) /\ Len(SubSeq(writing[i][t], 1, n)) = n
         /\ \A k \in 1 .. n : SubSeq(writing[i][t], 1, n)[k] = writing[i][t][k]
         /\ SubSeq(writing[i][t], n + 1, Len(writing[i][t])) \in Seq(Message)
         /\ Len(SubSeq(writing[i][t], n + 1, Len(writing[i][t]))) = Len(writing[i][t]) - n
         /\ \A k \in 1 .. Len(writing[i][t]) - n :
              SubSeq(writing[i][t], n + 1, Len(writing[i][t]))[k] = writing[i][t][n + k]
<1>1. /\ Len(writing[i][t]) \in Nat /\ retry[i][t] \in Nat /\ retry[i][t] <= Len(writing[i][t])
      /\ \A k \in 1 .. Len(writing[i][t]) : writing[i][t][k] \in Message
  BY WritingTypes DEF SourceInv, SourceTypes
<1>2. n \in 1 .. Len(writing[i][t]) /\ n \in Nat
  BY <1>1 DEF Batches
<1>3. /\ SubSeq(writing[i][t], 1, n) \in Seq(Message) /\ Len(SubSeq(writing[i][t], 1, n)) = n
      /\ \A k \in 1 .. n : SubSeq(writing[i][t], 1, n)[k] = writing[i][t][k]
  <2>1. 1 \in Int /\ n \in Int /\ 1 <= n /\ \A k \in 1 .. n : writing[i][t][k] \in Message
    BY <1>1, <1>2
  <2>2. /\ SubSeq(writing[i][t], 1, n) \in Seq(Message)
        /\ Len(SubSeq(writing[i][t], 1, n)) = IF 1 <= n THEN n - 1 + 1 ELSE 0
        /\ \A k \in 1 .. n - 1 + 1 : SubSeq(writing[i][t], 1, n)[k] = writing[i][t][1 + k - 1]
    BY <2>1, SubSeqProperties
  <2> QED
    BY <1>2, <2>2
<1>4. /\ SubSeq(writing[i][t], n + 1, Len(writing[i][t])) \in Seq(Message)
      /\ Len(SubSeq(writing[i][t], n + 1, Len(writing[i][t]))) = Len(writing[i][t]) - n
      /\ \A k \in 1 .. Len(writing[i][t]) - n :
           SubSeq(writing[i][t], n + 1, Len(writing[i][t]))[k] = writing[i][t][n + k]
  <2>1. PICK l : l = Len(writing[i][t])
    OBVIOUS
  <2>2. /\ n + 1 \in Int /\ l \in Int /\ \A k \in n + 1 .. l : writing[i][t][k] \in Message
    BY <1>1, <1>2, <2>1
  <2>3. /\ SubSeq(writing[i][t], n + 1, l) \in Seq(Message)
        /\ Len(SubSeq(writing[i][t], n + 1, l)) = IF n + 1 <= l THEN l - (n + 1) + 1 ELSE 0
        /\ \A k \in 1 .. l - (n + 1) + 1 :
             SubSeq(writing[i][t], n + 1, l)[k] = writing[i][t][(n + 1) + k - 1]
    BY <2>2, SubSeqProperties
  <2>4. Len(SubSeq(writing[i][t], n + 1, l)) = l - n
    BY <1>1, <1>2, <2>1, <2>3
  <2>5. ASSUME NEW k \in 1 .. l - n PROVE SubSeq(writing[i][t], n + 1, l)[k] = writing[i][t][n + k]
    <3>1. k \in 1 .. l - (n + 1) + 1 /\ (n + 1) + k - 1 = n + k
      BY <1>1, <1>2, <2>1, <2>5
    <3> QED
      BY <2>3, <3>1
  <2> QED
    BY <2>1, <2>3, <2>4, <2>5
<1> QED
  BY <1>2, <1>3, <1>4

\* The topic behind a batch.
LEMMA WrittenBatch ==
  ASSUME SourceInv, NEW i \in Instances, NEW t \in Topics, NEW n \in Batches(i, t),
         topic'[t] = topic[t] \o SubSeq(writing[i][t], 1, n)
  PROVE  /\ Appends(i, t) /\ Len(topic'[t]) = Len(topic[t]) + n
         /\ \A k \in 1 .. n : topic'[t][Len(topic[t]) + k] = writing[i][t][k]
<1>1. PICK b : b = SubSeq(writing[i][t], 1, n)
  OBVIOUS
<1>2. /\ b \in Seq(Message) /\ Len(b) = n /\ \A k \in 1 .. n : b[k] = writing[i][t][k]
      /\ n \in 1 .. Len(writing[i][t]) /\ n \in Nat
  BY <1>1, BatchTypes
<1>3. topic[t] \in Seq(Message) /\ Len(topic[t]) \in Nat /\ Len(writing[i][t]) \in Nat
  BY WritingTypes, LenProperties DEF SourceInv, SourceTypes
<1>4. /\ topic'[t] \in Seq(Message) /\ Len(topic'[t]) = Len(topic[t]) + n
      /\ \A o \in 1 .. Len(topic[t]) + n :
           topic'[t][o] = IF o <= Len(topic[t]) THEN topic[t][o] ELSE b[o - Len(topic[t])]
  BY <1>1, <1>2, <1>3, ConcatProperties
<1>5. \A k \in 1 .. n : topic'[t][Len(topic[t]) + k] = writing[i][t][k]
  <2>1. ASSUME NEW k \in 1 .. n PROVE topic'[t][Len(topic[t]) + k] = writing[i][t][k]
    <3>1. PICK o : o = Len(topic[t]) + k
      OBVIOUS
    <3>2. o \in 1 .. Len(topic[t]) + n /\ ~(o <= Len(topic[t])) /\ o - Len(topic[t]) = k
      BY <1>2, <1>3, <2>1, <3>1
    <3> QED
      BY <1>2, <1>4, <3>1, <3>2
  <2> QED
    BY <2>1
<1>6. ASSUME NEW o \in 1 .. Len(topic'[t]), o > Len(topic[t])
      PROVE  \E w \in 1 .. Len(writing[i][t]) : topic'[t][o] = writing[i][t][w]
  <2>1. PICK k : k = o - Len(topic[t])
    OBVIOUS
  <2>2. k \in 1 .. n /\ k \in 1 .. Len(writing[i][t]) /\ o = Len(topic[t]) + k
    BY <1>2, <1>3, <1>4, <1>6, <2>1
  <2> QED
    BY <1>5, <2>2
<1>7. \A o \in 1 .. Len(topic[t]) : topic'[t][o] = topic[t][o]
  BY <1>2, <1>3, <1>4
<1>8. Len(topic[t]) <= Len(topic'[t])
  BY <1>2, <1>3, <1>4
<1>9. Appends(i, t)
  BY <1>3, <1>4, <1>6, <1>7, <1>8 DEF Appends
<1> QED
  BY <1>4, <1>5, <1>9

\* Publish in terms of its topic and its writer.
LEMMA PublishShape ==
  ASSUME SourceInv, NEW i \in Instances, NEW t \in Topics, Publish(i, t)
  PROVE  /\ topic' \in [Topics -> Seq(Message)] /\ \A u \in Topics : u # t => topic'[u] = topic[u]
         /\ writing' \in [Instances -> [Topics -> Seq(Message)]]
         /\ \A j \in Instances, u \in Topics : (j # i \/ u # t) => writing'[j][u] = writing[j][u]
         /\ \E n \in Batches(i, t) :
              \/ /\ \/ NoFault /\ topic'[t] = topic[t] \o SubSeq(writing[i][t], 1, n)
                    \/ Faults(n) /\ topic'[t] = topic[t]
                 /\ writing'[i][t] = SubSeq(writing[i][t], n + 1, Len(writing[i][t]))
              \/ /\ Faults(n) /\ topic'[t] = topic[t] \o SubSeq(writing[i][t], 1, n)
                 /\ writing'[i][t] = writing[i][t]
         /\ retry' \in [Instances -> [Topics -> Nat]]
         /\ \A j \in Instances, u \in Topics : retry'[j][u] <= Len(writing'[j][u])
<1>1. /\ topic \in [Topics -> Seq(Message)] /\ writing \in [Instances -> [Topics -> Seq(Message)]]
      /\ retry \in [Instances -> [Topics -> Nat]]
      /\ \A j \in Instances, u \in Topics : retry[j][u] <= Len(writing[j][u])
      /\ \A j \in Instances, u \in Topics : Len(writing[j][u]) \in Nat
  BY WritingTypes DEF SourceInv, SourceTypes
<1>2. PICK n \in Batches(i, t) :
        \/ /\ \/ NoFault /\ topic' = [topic EXCEPT ![t] = @ \o SubSeq(writing[i][t], 1, n)]
              \/ Faults(n) /\ topic' = topic
           /\ writing' = [writing EXCEPT ![i][t] = SubSeq(@, n + 1, Len(@))]
           /\ retry' = [retry EXCEPT ![i][t] = 0]
        \/ /\ Faults(n)
           /\ topic' = [topic EXCEPT ![t] = @ \o SubSeq(writing[i][t], 1, n)]
           /\ retry' = [retry EXCEPT ![i][t] = n]
           /\ writing' = writing
  BY DEF Publish
<1>3. PICK b, e : /\ b = topic[t] \o SubSeq(writing[i][t], 1, n)
                  /\ e = SubSeq(writing[i][t], n + 1, Len(writing[i][t]))
  OBVIOUS
<1>4. /\ e \in Seq(Message) /\ Len(e) \in Nat /\ n \in Nat /\ n <= Len(writing[i][t])
      /\ SubSeq(writing[i][t], 1, n) \in Seq(Message)
  BY <1>1, <1>3, BatchTypes, LenProperties
<1>5. b \in Seq(Message)
  BY <1>1, <1>3, <1>4, ConcatProperties
<1>6. CASE /\ \/ NoFault /\ topic' = [topic EXCEPT ![t] = b]
              \/ Faults(n) /\ topic' = topic
           /\ writing' = [writing EXCEPT ![i][t] = e]
           /\ retry' = [retry EXCEPT ![i][t] = 0]
  <2>1. /\ topic' \in [Topics -> Seq(Message)] /\ \A u \in Topics : u # t => topic'[u] = topic[u]
        /\ (NoFault /\ topic'[t] = b) \/ (Faults(n) /\ topic'[t] = topic[t])
    BY <1>1, <1>5, <1>6
  <2>2. /\ writing' \in [Instances -> [Topics -> Seq(Message)]] /\ writing'[i][t] = e
        /\ \A j \in Instances, u \in Topics : (j # i \/ u # t) => writing'[j][u] = writing[j][u]
    BY <1>1, <1>4, <1>6
  <2>3. /\ retry' \in [Instances -> [Topics -> Nat]] /\ retry'[i][t] = 0
        /\ \A j \in Instances, u \in Topics : (j # i \/ u # t) => retry'[j][u] = retry[j][u]
    BY <1>1, <1>6
  <2>4. ASSUME NEW j \in Instances, NEW u \in Topics PROVE retry'[j][u] <= Len(writing'[j][u])
    <3>1. CASE j = i /\ u = t
      BY <1>4, <2>2, <2>3, <3>1
    <3>2. CASE j # i \/ u # t
      BY <1>1, <2>2, <2>3, <3>2
    <3> QED
      BY <3>1, <3>2
  <2> QED
    BY <1>3, <2>1, <2>2, <2>3, <2>4
<1>7. CASE /\ Faults(n) /\ topic' = [topic EXCEPT ![t] = b]
           /\ retry' = [retry EXCEPT ![i][t] = n] /\ writing' = writing
  <2>1. /\ topic' \in [Topics -> Seq(Message)] /\ \A u \in Topics : u # t => topic'[u] = topic[u]
        /\ topic'[t] = b
    BY <1>1, <1>5, <1>7
  <2>2. /\ retry' \in [Instances -> [Topics -> Nat]] /\ retry'[i][t] = n
        /\ \A j \in Instances, u \in Topics : (j # i \/ u # t) => retry'[j][u] = retry[j][u]
    BY <1>1, <1>4, <1>7
  <2>3. ASSUME NEW j \in Instances, NEW u \in Topics PROVE retry'[j][u] <= Len(writing'[j][u])
    <3>1. CASE j = i /\ u = t
      BY <1>4, <1>7, <2>2, <3>1
    <3>2. CASE j # i \/ u # t
      BY <1>1, <1>7, <2>2, <3>2
    <3> QED
      BY <3>1, <3>2
  <2> QED
    BY <1>1, <1>3, <1>7, <2>1, <2>2, <2>3
<1> QED
  BY <1>2, <1>3, <1>6, <1>7

\* Publish appends what its writer holds, if anything, to its own topic.
LEMMA PublishAppends ==
  ASSUME SourceInv, NEW i \in Instances, NEW t \in Topics, Publish(i, t)
  PROVE  Appends(i, t) /\ Shrinks(i, t)
<1>1. /\ topic[t] \in Seq(Message) /\ Len(topic[t]) \in Nat
      /\ writing[i][t] \in Seq(Message) /\ Len(writing[i][t]) \in Nat
  BY WritingTypes, LenProperties DEF SourceInv, SourceTypes
<1>2. PICK n \in Batches(i, t) :
        /\ \/ topic'[t] = topic[t] \o SubSeq(writing[i][t], 1, n)
           \/ topic'[t] = topic[t]
        /\ \/ writing'[i][t] = SubSeq(writing[i][t], n + 1, Len(writing[i][t]))
           \/ writing'[i][t] = writing[i][t]
  BY PublishShape
<1>3. Appends(i, t)
  <2>1. CASE topic'[t] = topic[t]
    BY <1>1, <2>1 DEF Appends
  <2> QED
    BY <1>2, <2>1, WrittenBatch
<1>4. Shrinks(i, t)
  <2>1. CASE writing'[i][t] = writing[i][t]
    BY <1>1, <2>1 DEF Shrinks
  <2>2. CASE writing'[i][t] = SubSeq(writing[i][t], n + 1, Len(writing[i][t]))
    <3>1. /\ writing'[i][t] \in Seq(Message) /\ Len(writing'[i][t]) = Len(writing[i][t]) - n
          /\ n \in 1 .. Len(writing[i][t])
          /\ \A k \in 1 .. Len(writing[i][t]) - n : writing'[i][t][k] = writing[i][t][n + k]
      BY <2>2, BatchTypes
    <3>2. ASSUME NEW v \in 1 .. Len(writing'[i][t])
          PROVE  \E w \in 1 .. Len(writing[i][t]) : writing'[i][t][v] = writing[i][t][w]
      <4>1. v \in 1 .. Len(writing[i][t]) - n /\ n + v \in 1 .. Len(writing[i][t])
        BY <1>1, <3>1, <3>2
      <4> QED
        BY <3>1, <4>1
    <3> QED
      BY <1>1, <3>1, <3>2 DEF Shrinks
  <2> QED
    BY <1>2, <2>1, <2>2
<1> QED
  BY <1>3, <1>4

LEMMA PublishSource ==
  ASSUME SourceInv, NEW i \in Instances, NEW t \in Topics, Publish(i, t)
  PROVE  SourceInv'
<1> USE TopicIsString
<1>1. SourceTypes
  BY DEF SourceInv
<1>2. Appends(i, t) /\ Shrinks(i, t)
  BY PublishAppends
<1>3. /\ topic' \in [Topics -> Seq(Message)] /\ \A u \in Topics : u # t => topic'[u] = topic[u]
      /\ writing' \in [Instances -> [Topics -> Seq(Message)]]
      /\ \A j \in Instances, u \in Topics : (j # i \/ u # t) => writing'[j][u] = writing[j][u]
      /\ retry' \in [Instances -> [Topics -> Nat]]
      /\ \A j \in Instances, u \in Topics : retry'[j][u] <= Len(writing'[j][u])
  BY PublishShape
<1>4. UNCHANGED <<made, channel>>
  BY DEF Publish, sources
<1>5. SourceTypes'
  BY <1>1, <1>3, <1>4 DEF SourceTypes
<1>6. \A j \in Instances : ChannelOK(j)'
  BY <1>4 DEF SourceInv, ChannelOK
<1>7. CASE t # L
  <2>1. /\ UNCHANGED <<made, channel>> /\ made' \in Nat /\ made <= made'
        /\ \A j \in Instances : writing'[j][L] = writing[j][L]
        /\ topic'[L] = topic[L]
    BY <1>1, <1>3, <1>4, <1>7 DEF SourceTypes
  <2>2. ASSUME NEW j \in Instances
        PROVE  WritingOK(j)' /\ \A o \in 1 .. Len(topic'[L]) : WrittenOK(j, o)'
    BY <2>1, ProcessKept
  <2>3. TopicInOrder'
    BY <2>1 DEF SourceInv, TopicInOrder
  <2> QED
    BY <1>5, <1>6, <2>2, <2>3 DEF SourceInv
<1>8. CASE t = L
  <2>0. Len(writing[i][L]) \in Nat /\ Len(writing[i][L]) <= 1 /\ Len(writing'[i][L]) \in Nat
        /\ Len(writing'[i][L]) <= Len(writing[i][L])
    BY <1>2, <1>3, <1>8, WritingTypes, LenProperties DEF SourceInv, WritingOK, Shrinks
  <2>1. ASSUME NEW v \in 1 .. Len(writing'[i][L])
        PROVE  v \in 1 .. Len(writing[i][L]) /\ writing'[i][L][v] = writing[i][L][v]
    BY <1>2, <1>8, <2>0, <2>1 DEF Shrinks
  <2>2. ASSUME NEW j \in Instances PROVE WritingOK(j)'
    <3>1. CASE j = i
      <4>1. WritingOK(i) /\ Len(writing'[i][L]) <= 1
        BY <2>0 DEF SourceInv
      <4> QED
        BY <1>4, <2>1, <3>1, <4>1 DEF WritingOK
    <3>2. CASE j # i
      <4>1. made' \in Nat /\ made <= made' /\ writing'[j][L] = writing[j][L] /\ channel'[j] = channel[j]
        BY <1>1, <1>3, <1>4, <3>2 DEF SourceTypes
      <4> QED
        BY <4>1, ProcessKept
    <3> QED
      BY <3>1, <3>2
  <2>3. ASSUME NEW o \in 1 .. Len(topic'[L])
        PROVE  \/ o \in 1 .. Len(topic[L]) /\ topic'[L][o] = topic[L][o]
               \/ 1 \in 1 .. Len(writing[i][L]) /\ topic'[L][o] = writing[i][L][1]
    BY <1>2, <1>8, <2>0, <2>3 DEF Appends
  <2>4. ASSUME 1 \in 1 .. Len(writing[i][L])
        PROVE  /\ writing[i][L][1].by = i /\ writing[i][L][1].n <= made
               /\ writing[i][L][1].n \in Nat
               /\ \A k \in 1 .. Len(channel[i]) : writing[i][L][1].n < channel[i][k].n
    BY <2>4, WritingTypes, MessageTypes DEF SourceInv, WritingOK
  <2>5. ASSUME NEW j \in Instances, NEW o \in 1 .. Len(topic'[L]) PROVE WrittenOK(j, o)'
    <3>1. CASE 1 \in 1 .. Len(writing[i][L]) /\ topic'[L][o] = writing[i][L][1]
      <4>1. \A v \in 1 .. Len(writing'[i][L]) : v = 1 /\ writing'[i][L][v] = writing[i][L][1]
        BY <2>0, <2>1
      <4> QED
        BY <1>4, <2>4, <3>1, <4>1 DEF WrittenOK
    <3>2. CASE o \in 1 .. Len(topic[L]) /\ topic'[L][o] = topic[L][o]
      <4>1. CASE j = i
        BY <1>4, <2>1, <3>2, <4>1 DEF SourceInv, WrittenOK
      <4>2. CASE j # i
        BY <1>3, <1>4, <3>2, <4>2 DEF SourceInv, WrittenOK
      <4> QED
        BY <4>1, <4>2
    <3> QED
      BY <2>3, <2>5, <3>1, <3>2
  <2>6. ASSUME NEW o \in 1 .. Len(topic'[L]), NEW q \in 1 .. Len(topic'[L]), o < q,
               topic'[L][o].by = topic'[L][q].by
        PROVE  topic'[L][o].n <= topic'[L][q].n
    <3>0. Len(topic[L]) \in Nat /\ Len(topic'[L]) \in Nat
      BY <1>2, <1>8, LenProperties DEF Appends
    <3>1. CASE q \in 1 .. Len(topic[L])
      <4>1. o \in 1 .. Len(topic[L])
        BY <2>6, <3>0, <3>1
      <4>2. topic'[L][o] = topic[L][o] /\ topic'[L][q] = topic[L][q]
        BY <1>2, <1>8, <3>1, <4>1 DEF Appends
      <4> QED
        BY <2>6, <3>1, <4>1, <4>2 DEF SourceInv, TopicInOrder
    <3>2. CASE 1 \in 1 .. Len(writing[i][L]) /\ topic'[L][q] = writing[i][L][1]
      <4>1. CASE topic'[L][o] = writing[i][L][1]
        BY <2>4, <3>2, <4>1
      <4>2. CASE o \in 1 .. Len(topic[L]) /\ topic'[L][o] = topic[L][o]
        <5>1. topic[L][o].by = i
          BY <2>4, <2>6, <3>2, <4>2
        <5> QED
          BY <3>2, <4>2, <5>1 DEF SourceInv, WrittenOK
      <4> QED
        BY <2>3, <2>6, <4>1, <4>2
    <3> QED
      BY <2>3, <2>6, <3>1, <3>2
  <2> QED
    BY <1>5, <1>6, <2>2, <2>5, <2>6 DEF SourceInv, TopicInOrder
<1> QED
  BY <1>7, <1>8

LEMMA CrashSource ==
  ASSUME SourceInv, NEW i \in Instances, Crash(i)
  PROVE  SourceInv'
<1> USE TopicIsString
<1>1. SourceTypes
  BY DEF SourceInv
<1>2. /\ channel' \in [Instances -> Seq(Message)] /\ channel'[i] = <<>>
      /\ \A j \in Instances : j # i => channel'[j] = channel[j]
  <2>1. channel' = [channel EXCEPT ![i] = <<>>] /\ <<>> \in Seq(Message)
    BY EmptySeq DEF Crash
  <2> QED
    BY <1>1, <2>1 DEF SourceTypes
<1>3. /\ writing' \in [Instances -> [Topics -> Seq(Message)]] /\ Len(writing'[i][L]) = 0
      /\ \A j \in Instances : j # i => writing'[j] = writing[j]
      /\ retry' \in [Instances -> [Topics -> Nat]]
      /\ \A j \in Instances, t \in Topics : retry'[j][t] <= Len(writing'[j][t])
  <2>1. /\ writing' = [writing EXCEPT ![i] = [t \in Topics |-> <<>>]]
        /\ retry' = [retry EXCEPT ![i] = [t \in Topics |-> 0]]
        /\ <<>> \in Seq(Message) /\ Len(<<>>) = 0
    BY EmptySeq DEF Crash
  <2>2. /\ writing' \in [Instances -> [Topics -> Seq(Message)]]
        /\ \A t \in Topics : writing'[i][t] = <<>>
        /\ \A j \in Instances : j # i => writing'[j] = writing[j]
    BY <1>1, <2>1 DEF SourceTypes
  <2>3. /\ retry' \in [Instances -> [Topics -> Nat]]
        /\ \A t \in Topics : retry'[i][t] = 0
        /\ \A j \in Instances : j # i => retry'[j] = retry[j]
    BY <1>1, <2>1 DEF SourceTypes
  <2>4. ASSUME NEW j \in Instances, NEW t \in Topics PROVE retry'[j][t] <= Len(writing'[j][t])
    <3>1. CASE j = i
      BY <2>1, <2>2, <2>3, <3>1
    <3>2. CASE j # i
      BY <1>1, <2>2, <2>3, <3>2 DEF SourceTypes
    <3> QED
      BY <3>1, <3>2
  <2> QED
    BY <2>1, <2>2, <2>3, <2>4
<1>4. UNCHANGED <<made, topic>>
  BY DEF Crash
<1>5. Len(channel'[i]) = 0
  BY <1>2, EmptySeq
<1>6. SourceTypes'
  <2>1. Len(channel'[i]) <= BufferSize
    BY <1>5, PipelineAssumption
  <2>2. \A j \in Instances : j # i => Len(channel'[j]) <= BufferSize
    BY <1>1, <1>2 DEF SourceTypes
  <2> QED
    BY <1>1, <1>2, <1>3, <2>2, <1>4, <2>1 DEF SourceTypes
<1>7. ASSUME NEW j \in Instances PROVE ChannelOK(j)' /\ WritingOK(j)'
  <2>1. CASE j = i
    <3>1. \A k \in 1 .. Len(channel'[i]) : FALSE
      BY <1>5
    <3> QED
      BY <1>3, <2>1, <3>1 DEF ChannelOK, WritingOK
  <2>2. CASE j # i
    <3>1. channel'[j] = channel[j] /\ writing'[j] = writing[j] /\ made' = made
      BY <1>2, <1>3, <1>4, <2>2
    <3>2. ChannelOK(j) /\ WritingOK(j)
      BY DEF SourceInv
    <3> QED
      BY <3>1, <3>2 DEF ChannelOK, WritingOK
  <2> QED
    BY <2>1, <2>2
<1>8. ASSUME NEW j \in Instances, NEW o \in 1 .. Len(topic[L])' PROVE WrittenOK(j, o)'
  <2>0. o \in 1 .. Len(topic[L]) /\ topic[L][o] \in Message
    BY <1>1, <1>4, <1>8 DEF SourceTypes
  <2>1. CASE j = i
    <3>1. topic[L][o].by = i => topic[L][o].n <= made
      BY <2>0 DEF SourceInv, WrittenOK
    <3> QED
      BY <1>3, <1>4, <1>5, <2>1, <3>1 DEF WrittenOK
  <2>2. CASE j # i
    BY <1>2, <1>3, <1>4, <2>0, <2>2 DEF SourceInv, WrittenOK
  <2> QED
    BY <2>1, <2>2
<1> QED
  BY <1>4, <1>6, <1>7, <1>8 DEF SourceInv, TopicInOrder

LEMMA PublishConversionSource ==
  ASSUME SourceInv, NEW i \in Instances, NEW amount, PublishConversion(i, amount)
  PROVE  SourceInv'
<1> USE TopicIsString
<1>1. SourceTypes /\ made \in Nat /\ Made(i) \in Message
  <2>1. SourceTypes /\ made \in Nat /\ made + 1 \in Nat \ {0}
    BY DEF SourceInv, SourceTypes
  <2> QED
    BY <2>1 DEF Made, Message
<1>2. /\ writing' \in [Instances -> [Topics -> Seq(Message)]]
      /\ \A j \in Instances : writing'[j][L] = writing[j][L]
      /\ retry' = retry /\ \A j \in Instances, t \in Topics : retry[j][t] <= Len(writing'[j][t])
  <2>1. PICK c : c = "conversions"
    OBVIOUS
  <2>2. PICK a : a = Append(writing[i][c], Made(i))
    OBVIOUS
  <2>3. /\ c \in Topics /\ c # L /\ retry' = retry
        /\ writing' = [writing EXCEPT ![i][c] = a]
    BY <2>1, <2>2 DEF PublishConversion, L, Topics
  <2>4. a \in Seq(Message) /\ Len(a) = Len(writing[i][c]) + 1
    BY <1>1, <2>2, <2>3, WritingTypes, AppendProperties
  <2>5. /\ writing' \in [Instances -> [Topics -> Seq(Message)]] /\ writing'[i][c] = a
        /\ \A j \in Instances, t \in Topics : (j # i \/ t # c) => writing'[j][t] = writing[j][t]
    BY <1>1, <2>3, <2>4 DEF SourceTypes
  <2>6. ASSUME NEW j \in Instances, NEW t \in Topics PROVE retry[j][t] <= Len(writing'[j][t])
    <3>0. retry[j][t] \in Nat /\ Len(writing[j][t]) \in Nat /\ retry[j][t] <= Len(writing[j][t])
      BY <1>1, WritingTypes DEF SourceTypes
    <3>1. CASE j = i /\ t = c
      BY <2>4, <2>5, <3>0, <3>1
    <3>2. CASE j # i \/ t # c
      BY <2>5, <3>0, <3>2
    <3> QED
      BY <3>1, <3>2
  <2> QED
    BY <2>3, <2>5, <2>6
<1>3. UNCHANGED <<channel, topic>> /\ made' = made + 1
  BY DEF PublishConversion, kafka, Make
<1>4. SourceTypes'
  BY <1>1, <1>2, <1>3 DEF SourceTypes
<1>5. ASSUME NEW j \in Instances PROVE ChannelOK(j)' /\ WritingOK(j)'
  BY <1>1, <1>2, <1>3, ProcessKept
<1>6. ASSUME NEW j \in Instances, NEW o \in 1 .. Len(topic[L])' PROVE WrittenOK(j, o)'
  BY <1>1, <1>2, <1>3, <1>6, ProcessKept
<1> QED
  BY <1>3, <1>4, <1>5, <1>6 DEF SourceInv, TopicInOrder
-----------------------------------------------------------------------------
GroupTypes ==
  /\ committed \in [Topics -> Nat]
  /\ owner \in [Topics -> Instances]
  /\ reader \in [Instances -> [Topics -> Reader]]
  /\ handled \in [Topics -> SUBSET Nat]
  /\ faults \in Nat /\ moves \in Nat
  /\ disturbed \subseteq Topics

\* Consumers, offsets and what was handled are within the topic.
PlaceOK(i, t) ==
  /\ reader[i][t].next <= Len(topic[t])
  /\ reader[i][t].at # "read" => reader[i][t].offset < Len(topic[t])
WithinOK(t) ==
  /\ committed[t] <= Len(topic[t])
  /\ \A o \in handled[t] : o < Len(topic[t])

\* While the group is undisturbed: only the owner has a message; it commits one beyond
\* the committed offset, and handles one below it and beyond all handled ones.
ReaderOK(i, t) ==
  /\ reader[i][t].at # "read" => owner[t] = i
  /\ owner[t] = i => committed[t] <= reader[i][t].next
  /\ reader[i][t].at = "commit" => /\ committed[t] <= reader[i][t].offset
                                  /\ reader[i][t].next = reader[i][t].offset + 1
  /\ reader[i][t].at = "handle" => /\ reader[i][t].offset < committed[t]
                                  /\ \A o \in handled[t] : o < reader[i][t].offset
HandledOK(t) == \A o \in handled[t] : o < committed[t]

GroupInv ==
  /\ GroupTypes
  /\ \A t \in Topics : WithinOK(t) /\ \A i \in Instances : PlaceOK(i, t)
  /\ \A t \in Topics : t \notin disturbed => HandledOK(t) /\ \A i \in Instances : ReaderOK(i, t)

LEMMA ReaderTypes ==
  ASSUME NEW r \in Reader
  PROVE  r.at \in {"read", "commit", "handle"} /\ r.next \in Nat /\ r.offset \in Nat
BY DEF Reader

LEMMA TopicTypes ==
  ASSUME SourceInv, NEW t \in Topics
  PROVE  topic[t] \in Seq(Message) /\ Len(topic[t]) \in Nat
BY LenProperties DEF SourceInv, SourceTypes

LEMMA GroupSame ==
  ASSUME GroupInv, UNCHANGED <<committed, owner, reader, handled, groups, topic>>, faults' \in Nat
  PROVE  GroupInv'
BY DEF GroupInv, GroupTypes, WithinOK, PlaceOK, ReaderOK, HandledOK, groups

\* Faults are counted.
LEMMA FaultTypes ==
  ASSUME GroupInv, NEW n \in Nat, Faults(n) \/ Fault \/ NoFault
  PROVE  faults' \in Nat
BY DEF GroupInv, GroupTypes, Fault, Faults, NoFault

\* A longer topic.
LEMMA PublishGroup ==
  ASSUME SourceInv, GroupInv, NEW i \in Instances, NEW t \in Topics, Publish(i, t)
  PROVE  GroupInv'
<1>1. UNCHANGED <<committed, owner, reader, handled, moves, disturbed>>
  BY DEF Publish, groups
<1>2. faults' \in Nat
  <2>1. PICK n \in Batches(i, t) : Faults(n) \/ NoFault
    BY DEF Publish
  <2>2. n \in Nat
    BY BatchTypes
  <2> QED
    BY <2>1, <2>2, FaultTypes
<1>3. \A u \in Topics : Len(topic[u]) \in Nat /\ Len(topic'[u]) \in Nat /\ Len(topic[u]) <= Len(topic'[u])
  <2>1. Appends(i, t) /\ topic' \in [Topics -> Seq(Message)] /\ \A u \in Topics : u # t => topic'[u] = topic[u]
    BY PublishAppends, PublishShape
  <2>2. \A u \in Topics : Len(topic'[u]) \in Nat
    BY <2>1, LenProperties
  <2>3. Len(topic[t]) <= Len(topic'[t])
    BY <2>1 DEF Appends
  <2>4. \A u \in Topics : Len(topic[u]) \in Nat
    BY TopicTypes
  <2> QED
    BY <2>1, <2>2, <2>3, <2>4
<1>4. ASSUME NEW u \in Topics PROVE WithinOK(u)' /\ \A j \in Instances : PlaceOK(j, u)'
  <2>1. WithinOK(u)'
    <3>1. committed[u] \in Nat /\ \A o \in handled[u] : o \in Nat
      BY DEF GroupInv, GroupTypes
    <3> QED
      BY <1>1, <1>3, <3>1 DEF GroupInv, WithinOK
  <2>2. ASSUME NEW j \in Instances PROVE PlaceOK(j, u)'
    <3>1. reader[j][u].next \in Nat /\ reader[j][u].offset \in Nat
      BY ReaderTypes DEF GroupInv, GroupTypes
    <3> QED
      BY <1>1, <1>3, <3>1 DEF GroupInv, PlaceOK
  <2> QED
    BY <2>1, <2>2
<1> QED
  BY <1>1, <1>2, <1>4 DEF GroupInv, GroupTypes, HandledOK, ReaderOK

\* A consumer i of topic t moves on.
LEMMA ConsumerGroup ==
  ASSUME SourceInv, GroupInv, NEW i \in Instances, NEW t \in Topics, NEW r \in Reader,
         Become(i, t, r), UNCHANGED <<topic, owner, moves, disturbed>>, faults' \in Nat,
         committed' \in [Topics -> Nat], handled' \in [Topics -> SUBSET Nat],
         \A u \in Topics : u # t => committed'[u] = committed[u] /\ handled'[u] = handled[u],
         WithinOK(t)', r.next <= Len(topic[t]), r.at # "read" => r.offset < Len(topic[t]),
         t \notin disturbed =>
           /\ owner[t] = i
           /\ HandledOK(t)'
           /\ committed'[t] <= r.next
           /\ r.at = "commit" => committed'[t] <= r.offset /\ r.next = r.offset + 1
           /\ r.at = "handle" => r.offset < committed'[t] /\ \A o \in handled'[t] : o < r.offset
  PROVE  GroupInv'
<1>1. /\ reader' \in [Instances -> [Topics -> Reader]] /\ reader'[i][t] = r
      /\ \A j \in Instances, u \in Topics : (j # i \/ u # t) => reader'[j][u] = reader[j][u]
  BY DEF GroupInv, GroupTypes, Become
<1>2. GroupTypes'
  BY <1>1 DEF GroupInv, GroupTypes
<1>3. ASSUME NEW u \in Topics PROVE WithinOK(u)'
  BY DEF GroupInv, WithinOK
<1>4. ASSUME NEW j \in Instances, NEW u \in Topics PROVE PlaceOK(j, u)'
  <2>1. CASE j = i /\ u = t
    BY <1>1, <2>1 DEF PlaceOK
  <2>2. CASE j # i \/ u # t
    BY <1>1, <2>2 DEF GroupInv, PlaceOK
  <2> QED
    BY <2>1, <2>2
<1>5. ASSUME NEW u \in Topics, u \notin disturbed PROVE HandledOK(u)'
  BY <1>5 DEF GroupInv, HandledOK
<1>6. ASSUME NEW j \in Instances, NEW u \in Topics, u \notin disturbed PROVE ReaderOK(j, u)'
  <2>1. CASE j = i /\ u = t
    BY <1>1, <1>6, <2>1 DEF ReaderOK
  <2>2. CASE u # t
    <3>1. ReaderOK(j, u)
      BY <1>6 DEF GroupInv
    <3>2. /\ reader'[j][u] = reader[j][u] /\ owner' = owner
          /\ committed'[u] = committed[u] /\ handled'[u] = handled[u]
      BY <1>1, <2>2
    <3> QED
      BY <3>1, <3>2 DEF ReaderOK
  <2>3. CASE j # i /\ u = t
    <3>1. reader[j][t].at = "read"
      BY <1>6, <2>3 DEF GroupInv, ReaderOK
    <3> QED
      BY <1>1, <1>6, <2>3, <3>1 DEF ReaderOK
  <2> QED
    BY <2>1, <2>2, <2>3
<1> QED
  BY <1>2, <1>3, <1>4, <1>5, <1>6 DEF GroupInv

LEMMA FetchGroup ==
  ASSUME SourceInv, GroupInv, NEW i \in Instances, NEW t \in Topics, Fetch(i, t)
  PROVE  GroupInv'
<1>1. PICK r : r = [at |-> "commit", next |-> reader[i][t].next + 1, offset |-> reader[i][t].next]
  OBVIOUS
<1>2. reader[i][t].next \in Nat /\ Len(topic[t]) \in Nat
  BY ReaderTypes, TopicTypes DEF GroupInv, GroupTypes
<1>3. r \in Reader /\ r.at = "commit" /\ r.next = reader[i][t].next + 1 /\ r.offset = reader[i][t].next
  BY <1>1, <1>2 DEF Reader
<1>4. Become(i, t, r) /\ UNCHANGED <<topic, owner, moves, disturbed, committed, handled, faults>>
      /\ owner[t] = i /\ reader[i][t].next < Len(topic[t])
  BY <1>1 DEF Fetch, kafka, groups
<1>5. WithinOK(t)' /\ GroupTypes /\ (t \notin disturbed => HandledOK(t)' /\ committed[t] <= reader[i][t].next)
  BY <1>4 DEF GroupInv, WithinOK, HandledOK, ReaderOK
<1>6. committed[t] \in Nat /\ faults \in Nat /\ committed \in [Topics -> Nat] /\ handled \in [Topics -> SUBSET Nat]
  BY <1>5 DEF GroupTypes
<1> QED
  BY <1>2, <1>3, <1>4, <1>5, <1>6, ConsumerGroup

\* Commit, and a ReadFails whose commit was made.
LEMMA CommitGroup ==
  ASSUME SourceInv, GroupInv, NEW i \in Instances, NEW t \in Topics, NEW at \in {"read", "handle"},
         reader[i][t].at = "commit", committed' = [committed EXCEPT ![t] = reader[i][t].offset + 1],
         Become(i, t, [reader[i][t] EXCEPT !.at = at]),
         UNCHANGED <<topic, owner, handled, moves, disturbed>>, faults' \in Nat
  PROVE  GroupInv'
<1>1. PICK r : r = [reader[i][t] EXCEPT !.at = at]
  OBVIOUS
<1>2. reader[i][t] \in Reader /\ Len(topic[t]) \in Nat /\ GroupTypes
  BY TopicTypes DEF GroupInv, GroupTypes
<1>3. /\ r \in Reader /\ r.at = at /\ r.next = reader[i][t].next /\ r.offset = reader[i][t].offset
      /\ r.next \in Nat /\ r.offset \in Nat
  BY <1>1, <1>2 DEF Reader
<1>4. committed' \in [Topics -> Nat] /\ committed'[t] = r.offset + 1
      /\ \A u \in Topics : u # t => committed'[u] = committed[u]
  BY <1>2, <1>3 DEF GroupTypes
<1>5. r.offset < Len(topic[t]) /\ r.next <= Len(topic[t])
  BY <1>3 DEF GroupInv, PlaceOK
<1>6. \A o \in handled[t] : o \in Nat /\ o < Len(topic[t])
  BY <1>2 DEF GroupInv, GroupTypes, WithinOK
<1>7. WithinOK(t)'
  BY <1>2, <1>3, <1>4, <1>5, <1>6 DEF WithinOK
<1>8. ASSUME t \notin disturbed
      PROVE  /\ owner[t] = i /\ HandledOK(t)' /\ committed'[t] <= r.next
             /\ r.offset < committed'[t] /\ \A o \in handled'[t] : o < r.offset
  <2>1. owner[t] = i /\ committed[t] <= r.offset /\ r.next = r.offset + 1 /\ committed[t] \in Nat
    BY <1>2, <1>3, <1>8 DEF GroupInv, ReaderOK, GroupTypes
  <2>2. \A o \in handled[t] : o < committed[t]
    BY <1>8 DEF GroupInv, HandledOK
  <2>3. \A o \in handled[t] : o < r.offset
    BY <1>3, <1>6, <2>1, <2>2
  <2> QED
    BY <1>3, <1>4, <1>6, <2>1, <2>3 DEF HandledOK
<1>9. handled' \in [Topics -> SUBSET Nat] /\ Become(i, t, r)
  BY <1>1, <1>2 DEF GroupTypes
<1> QED
  BY <1>3, <1>4, <1>5, <1>7, <1>8, <1>9, ConsumerGroup

LEMMA ReadFailsGroup ==
  ASSUME SourceInv, GroupInv, NEW i \in Instances, NEW t \in Topics, ReadFails(i, t)
  PROVE  GroupInv'
<1>1. /\ reader[i][t] \in Reader /\ GroupTypes /\ reader[i][t].next \in Nat
      /\ committed[t] \in Nat /\ \A o \in handled[t] : o \in Nat
  BY ReaderTypes DEF GroupInv, GroupTypes
<1>2. faults' \in Nat /\ UNCHANGED <<topic, owner, handled, moves, disturbed>>
      /\ Become(i, t, [reader[i][t] EXCEPT !.at = "read"])
  BY FaultTypes DEF ReadFails, groups
<1>3. CASE reader[i][t].at = "read"
  <2>1. [reader[i][t] EXCEPT !.at = "read"] = reader[i][t]
    BY <1>1, <1>3 DEF Reader
  <2>2. UNCHANGED <<reader, committed>>
    BY <1>1, <1>2, <1>3, <2>1 DEF ReadFails, Become, GroupTypes
  <2> QED
    BY <1>2, <2>2, GroupSame DEF groups
<1>4. CASE reader[i][t].at = "commit" /\ committed' = [committed EXCEPT ![t] = reader[i][t].offset + 1]
  BY <1>2, <1>4, CommitGroup
<1>5. CASE reader[i][t].at = "commit" /\ committed' = committed
  <2>1. PICK r : r = [reader[i][t] EXCEPT !.at = "read"]
    OBVIOUS
  <2>2. r \in Reader /\ r.at = "read" /\ r.next = reader[i][t].next
    BY <1>1, <2>1 DEF Reader
  <2>3. WithinOK(t)' /\ r.next <= Len(topic[t])
    BY <1>2, <1>5, <2>2 DEF GroupInv, WithinOK, PlaceOK
  <2>4. t \notin disturbed => owner[t] = i /\ HandledOK(t)' /\ committed[t] <= r.next
    BY <1>2, <1>5, <2>2 DEF GroupInv, HandledOK, ReaderOK
  <2>5. Become(i, t, r) /\ committed' \in [Topics -> Nat] /\ handled' \in [Topics -> SUBSET Nat]
    BY <1>1, <1>2, <1>5, <2>1 DEF GroupTypes
  <2> QED
    BY <1>2, <1>5, <2>2, <2>3, <2>4, <2>5, ConsumerGroup
<1> QED
  BY <1>3, <1>4, <1>5 DEF ReadFails
LEMMA HandledGroup ==
  ASSUME SourceInv, GroupInv, NEW i \in Instances, NEW t \in Topics, Handled(i, t),
         UNCHANGED <<topic, committed, owner, moves, disturbed>>, faults' \in Nat
  PROVE  GroupInv'
<1>1. PICK r : r = [reader[i][t] EXCEPT !.at = "read"]
  OBVIOUS
<1>2. /\ reader[i][t] \in Reader /\ GroupTypes /\ reader[i][t].offset \in Nat
      /\ reader[i][t].at = "handle" /\ handled' = [handled EXCEPT ![t] = @ \cup {reader[i][t].offset}]
      /\ Become(i, t, r)
  BY <1>1, ReaderTypes DEF GroupInv, GroupTypes, Handled
<1>3. r \in Reader /\ r.at = "read" /\ r.next = reader[i][t].next
  BY <1>1, <1>2 DEF Reader
<1>4. /\ handled' \in [Topics -> SUBSET Nat] /\ handled'[t] = handled[t] \cup {reader[i][t].offset}
      /\ \A u \in Topics : u # t => handled'[u] = handled[u]
  BY <1>2 DEF GroupTypes
<1>5. WithinOK(t)' /\ r.next <= Len(topic[t])
  BY <1>2, <1>3, <1>4 DEF GroupInv, WithinOK, PlaceOK
<1>6. t \notin disturbed => owner[t] = i /\ HandledOK(t)' /\ committed'[t] <= r.next
  BY <1>2, <1>3, <1>4 DEF GroupInv, HandledOK, ReaderOK
<1>7. committed' \in [Topics -> Nat]
  BY <1>2 DEF GroupTypes
<1> QED
  BY <1>2, <1>3, <1>4, <1>5, <1>6, <1>7, ConsumerGroup


\* Where no consumer holds a message, a rebalance leaves the group undisturbed.
LEMMA RebalanceGroup ==
  ASSUME SourceInv, GroupInv, NEW i \in Instances, NEW t \in Topics, Rebalance(t, i)
  PROVE  GroupInv'
<1>1. PICK r : r = [reader[i][t] EXCEPT !.next = committed[t]]
  OBVIOUS
<1>2. /\ GroupTypes /\ reader[i][t] \in Reader /\ committed[t] \in Nat /\ Become(i, t, r)
      /\ moves' = moves + 1 /\ owner' = [owner EXCEPT ![t] = i]
      /\ disturbed' = disturbed \cup {u \in {t} : Holding(u, Instances)}
      /\ UNCHANGED <<topic, committed, handled, faults>>
  BY <1>1 DEF GroupInv, GroupTypes, Rebalance
<1>3. r \in Reader /\ r.at = reader[i][t].at /\ r.next = committed[t] /\ r.offset = reader[i][t].offset
  BY <1>1, <1>2 DEF Reader
<1>4. /\ reader' \in [Instances -> [Topics -> Reader]] /\ reader'[i][t] = r
      /\ \A j \in Instances, u \in Topics : (j # i \/ u # t) => reader'[j][u] = reader[j][u]
  BY <1>2, <1>3 DEF GroupTypes, Become
<1>5. GroupTypes'
  BY <1>2, <1>4 DEF GroupTypes
<1>6. ASSUME NEW u \in Topics PROVE WithinOK(u)'
  BY <1>2 DEF GroupInv, WithinOK
<1>7. ASSUME NEW j \in Instances, NEW u \in Topics PROVE PlaceOK(j, u)'
  <2>1. CASE j = i /\ u = t
    BY <1>2, <1>3, <1>4, <2>1 DEF GroupInv, PlaceOK, WithinOK
  <2>2. CASE j # i \/ u # t
    BY <1>2, <1>4, <2>2 DEF GroupInv, PlaceOK
  <2> QED
    BY <2>1, <2>2
<1>8. ASSUME NEW u \in Topics, u \notin disturbed' PROVE HandledOK(u)'
  BY <1>2, <1>8 DEF GroupInv, HandledOK
<1>9. ASSUME NEW j \in Instances, NEW u \in Topics, u \notin disturbed' PROVE ReaderOK(j, u)'
  <2>0. u \notin disturbed /\ ReaderOK(j, u)
    BY <1>2, <1>9 DEF GroupInv
  <2>1. CASE u # t
    <3>1. reader'[j][u] = reader[j][u] /\ owner'[u] = owner[u] /\ UNCHANGED <<committed, handled>>
      BY <1>2, <1>4, <2>1 DEF GroupTypes
    <3> QED
      BY <2>0, <3>1 DEF ReaderOK
  <2>2. CASE u = t
    <3>1. reader[j][t].at = "read" /\ reader[i][t].at = "read"
      BY <1>2, <1>9, <2>2 DEF Holding
    <3>2. CASE j = i
      BY <1>2, <1>3, <1>4, <2>2, <3>1, <3>2 DEF ReaderOK
    <3>3. CASE j # i
      <4>1. reader'[j][t] = reader[j][t] /\ owner'[t] = i
        BY <1>2, <1>4, <3>3 DEF GroupTypes
      <4> QED
        BY <2>2, <3>1, <3>3, <4>1 DEF ReaderOK
    <3> QED
      BY <3>2, <3>3
  <2> QED
    BY <2>1, <2>2
<1> QED
  BY <1>5, <1>6, <1>7, <1>8, <1>9 DEF GroupInv

\* A crash leaves a group undisturbed if only the dead held messages of it.
LEMMA CrashGroup ==
  ASSUME SourceInv, GroupInv, NEW i \in Instances, Crash(i)
  PROVE  GroupInv'
<1>1. /\ GroupTypes /\ faults' \in Nat /\ UNCHANGED <<topic, committed, handled, moves>>
      /\ owner' \in [Topics -> Instances]
      /\ disturbed' = disturbed \cup {t \in Topics : Holding(t, Instances \ {i})}
  BY FaultTypes DEF GroupInv, Crash
<1>3. ASSUME NEW j \in Instances, NEW t \in Topics
      PROVE  /\ reader'[j][t] \in Reader /\ reader'[j][t].next = committed[t]
             /\ j = i => reader'[j][t].at = "read"
             /\ j # i => /\ reader'[j][t].at = reader[j][t].at
                         /\ reader'[j][t].offset = reader[j][t].offset
  <2>1. reader'[j][t] = IF j = i THEN Fresh(t) ELSE [reader[j][t] EXCEPT !.next = committed[t]]
    BY DEF Crash
  <2>2. reader[j][t] \in Reader /\ committed[t] \in Nat
    BY <1>1 DEF GroupTypes
  <2> QED
    BY <2>1, <2>2 DEF Reader, Fresh
<1>4. reader' \in [Instances -> [Topics -> Reader]]
  <2>1. reader' = [j \in Instances |-> [t \in Topics |-> reader'[j][t]]]
    BY DEF Crash
  <2> QED
    BY <1>3, <2>1
<1>5. GroupTypes'
  BY <1>1, <1>4 DEF GroupTypes
<1>6. ASSUME NEW t \in Topics PROVE WithinOK(t)'
  BY <1>1 DEF GroupInv, WithinOK
<1>7. ASSUME NEW j \in Instances, NEW t \in Topics PROVE PlaceOK(j, t)'
  BY <1>1, <1>3 DEF GroupInv, PlaceOK, WithinOK
<1>8. ASSUME NEW t \in Topics, t \notin disturbed' PROVE HandledOK(t)'
  BY <1>1, <1>8 DEF GroupInv, HandledOK
<1>9. ASSUME NEW j \in Instances, NEW t \in Topics, t \notin disturbed' PROVE ReaderOK(j, t)'
  <2>0. committed[t] \in Nat
    BY <1>1 DEF GroupTypes
  <2>1. reader'[j][t].at = "read" /\ reader'[j][t].next = committed[t]
    BY <1>1, <1>3, <1>9 DEF Holding
  <2> QED
    BY <1>1, <2>0, <2>1 DEF ReaderOK
<1> QED
  BY <1>1, <1>5, <1>6, <1>7, <1>8, <1>9 DEF GroupInv

-----------------------------------------------------------------------------
\* Every row was handled, from a message of the topic.
LogsInv ==
  /\ logs \in Seq(Message)
  /\ \A j \in 1 .. Len(logs) : \E o \in handled[L] : o < Len(topic[L]) /\ logs[j] = topic[L][o + 1]
  /\ LogsInOrder

\* A step that inserts no row, and forgets no message.
LEMMA LogsSame ==
  ASSUME GroupInv, LogsInv, UNCHANGED logs, disturbed \subseteq disturbed',
         handled[L] \subseteq handled'[L], Len(topic[L]) \in Nat, Len(topic'[L]) \in Nat,
         Len(topic[L]) <= Len(topic'[L]),
         \A o \in 1 .. Len(topic[L]) : topic'[L][o] = topic[L][o]
  PROVE  LogsInv'
<1>1. \A o \in handled[L] : o \in Nat
  BY TopicIsString DEF GroupInv, GroupTypes
<1>2. ASSUME NEW j \in 1 .. Len(logs)
      PROVE  \E o \in handled'[L] : o < Len(topic'[L]) /\ logs[j] = topic'[L][o + 1]
  <2>1. PICK o \in handled[L] : o < Len(topic[L]) /\ logs[j] = topic[L][o + 1]
    BY <1>2 DEF LogsInv
  <2>2. o + 1 \in 1 .. Len(topic[L]) /\ o < Len(topic'[L]) /\ o \in handled'[L]
    BY <1>1, <2>1
  <2> QED
    BY <2>1, <2>2
<1> QED
  BY <1>2 DEF LogsInv, LogsInOrder, InOrder, L

LEMMA InsertLogs ==
  ASSUME SourceInv, GroupInv, LogsInv, NEW i \in Instances, Insert(i)
  PROVE  LogsInv'
<1> USE TopicIsString
<1>1. PICK q : q = reader[i][L].offset
  OBVIOUS
<1>2. /\ reader[i][L].at = "handle" /\ q \in Nat /\ q < Len(topic[L]) /\ Len(topic[L]) \in Nat
      /\ topic[L] \in Seq(Message)
  BY <1>1, ReaderTypes, TopicTypes DEF Insert, Handled, GroupInv, GroupTypes, PlaceOK, L
<1>3. PICK m : m = topic[L][q + 1]
  OBVIOUS
<1>4. m \in Message /\ logs' = Append(logs, m) /\ UNCHANGED <<topic, disturbed>>
  BY <1>1, <1>2, <1>3 DEF Insert, L, kafka, groups
<1>5. handled'[L] = handled[L] \cup {q} /\ \A o \in handled[L] : o \in Nat
  BY <1>1 DEF Insert, Handled, L, GroupInv, GroupTypes
<1>6. /\ logs' \in Seq(Message) /\ Len(logs') = Len(logs) + 1 /\ Len(logs) \in Nat
      /\ \A j \in 1 .. Len(logs) : logs'[j] = logs[j]
      /\ logs'[Len(logs) + 1] = m
  BY <1>4, AppendProperties, LenProperties DEF LogsInv
<1>7. ASSUME NEW j \in 1 .. Len(logs')
      PROVE  \E o \in handled'[L] : o < Len(topic[L]) /\ logs'[j] = topic[L][o + 1]
  <2>1. CASE j \in 1 .. Len(logs)
    BY <1>5, <1>6, <2>1 DEF LogsInv
  <2>2. CASE j = Len(logs) + 1
    BY <1>2, <1>3, <1>5, <1>6, <2>2
  <2> QED
    BY <1>6, <1>7, <2>1, <2>2
<1>8. ASSUME L \notin disturbed, NEW j \in 1 .. Len(logs'), NEW k \in 1 .. Len(logs'),
             j < k, logs'[j].by = logs'[k].by
      PROVE  logs'[j].n <= logs'[k].n
  <2>1. j \in 1 .. Len(logs) /\ logs'[j] = logs[j]
    BY <1>6, <1>8
  <2>2. CASE k \in 1 .. Len(logs)
    <3>1. DOMAIN logs = 1 .. Len(logs)
      BY LenProperties DEF LogsInv
    <3> QED
      BY <1>6, <1>8, <2>1, <2>2, <3>1 DEF LogsInv, LogsInOrder, InOrder, L
  <2>3. CASE k = Len(logs) + 1
    <3>1. PICK o \in handled[L] : o < Len(topic[L]) /\ logs[j] = topic[L][o + 1]
      BY <2>1 DEF LogsInv
    <3>2. o < q
      BY <1>1, <1>2, <1>8, <3>1 DEF GroupInv, ReaderOK
    <3>3. o + 1 \in 1 .. Len(topic[L]) /\ q + 1 \in 1 .. Len(topic[L]) /\ o + 1 < q + 1
      BY <1>2, <1>5, <3>1, <3>2
    <3>4. topic[L][o + 1].by = topic[L][q + 1].by => topic[L][o + 1].n <= topic[L][q + 1].n
      BY <3>3 DEF SourceInv, TopicInOrder
    <3>5. logs'[j] = topic[L][o + 1] /\ logs'[k] = topic[L][q + 1]
      BY <1>3, <1>6, <2>1, <2>3, <3>1
    <3> QED
      BY <1>8, <3>4, <3>5
  <2> QED
    BY <1>6, <1>8, <2>2, <2>3
<1>9. DOMAIN logs' = 1 .. Len(logs')
  BY <1>6, LenProperties
<1> QED
  BY <1>4, <1>6, <1>7, <1>8, <1>9 DEF LogsInv, LogsInOrder, InOrder, L

-----------------------------------------------------------------------------
PipelineInv == SourceInv /\ GroupInv /\ LogsInv

LEMMA PipelineInit == Init => PipelineInv
<1> SUFFICES ASSUME Init PROVE PipelineInv
  OBVIOUS
<1> USE TopicIsString
<1>1. <<>> \in Seq(Message) /\ Len(<<>>) = 0
  BY EmptySeq
<1>2. /\ \A i \in Instances : Len(channel[i]) = 0 /\ Len(writing[i][L]) = 0
      /\ \A t \in Topics : Len(topic[t]) = 0
      /\ Len(logs) = 0
  BY <1>1 DEF Init
<1>3. SourceTypes
  <2>1. \A i \in Instances : Len(channel[i]) <= BufferSize
    <3>1. 0 <= BufferSize
      BY PipelineAssumption
    <3> QED
      BY <1>2, <3>1
  <2> QED
    BY <1>1, <2>1 DEF Init, SourceTypes
<1>4. SourceInv
  BY <1>2, <1>3 DEF SourceInv, ChannelOK, WritingOK, WrittenOK, TopicInOrder
<1>5. \A i \in Instances, t \in Topics :
        /\ reader[i][t] \in Reader /\ reader[i][t].at = "read" /\ reader[i][t].next = 0
        /\ committed[t] = 0 /\ handled[t] = {}
  BY DEF Init, Fresh, Reader
<1>6. GroupTypes
  BY DEF Init, GroupTypes, Fresh, Reader
<1>7. GroupInv
  BY <1>2, <1>5, <1>6 DEF GroupInv, WithinOK, PlaceOK, HandledOK, ReaderOK, GroupTypes
<1>8. LogsInv
  BY <1>1, <1>2 DEF Init, LogsInv, LogsInOrder, InOrder
<1> QED
  BY <1>4, <1>7, <1>8 DEF PipelineInv

LEMMA PipelineStep == PipelineInv /\ [Next]_vars => PipelineInv'
<1> SUFFICES ASSUME PipelineInv, [Next]_vars PROVE PipelineInv'
  OBVIOUS
<1> USE TopicIsString
<1>0. SourceInv /\ GroupInv /\ LogsInv /\ faults \in Nat /\ moves \in Nat
  BY DEF PipelineInv, GroupInv, GroupTypes
<1>a. Len(topic[L]) \in Nat
  BY <1>0, TopicTypes
<1>1. ASSUME SourceInv', GroupInv', UNCHANGED <<logs, topic>>, disturbed \subseteq disturbed',
             handled[L] \subseteq handled'[L]
      PROVE  PipelineInv'
  BY <1>0, <1>a, <1>1, LogsSame DEF PipelineInv
<1>2. ASSUME NEW i \in Instances, Log(i) PROVE PipelineInv'
  BY <1>0, <1>1, <1>2, SlogSource, GroupSame DEF Log, kafka, writers, groups
<1>3. ASSUME NEW i \in Instances, Drain(i) PROVE PipelineInv'
  BY <1>0, <1>1, <1>3, DrainSource, GroupSame DEF Drain, kafka, groups
<1>4. ASSUME NEW i \in Instances, NEW a \in Amounts, PublishConversion(i, a) PROVE PipelineInv'
  <2>1. UNCHANGED <<topic, committed, owner, reader, handled, logs, faults, groups>>
    BY <1>4 DEF PublishConversion, kafka
  <2>2. SourceInv'
    BY <1>0, <1>4, PublishConversionSource
  <2>3. GroupInv'
    BY <1>0, <2>1, GroupSame
  <2> QED
    BY <1>1, <2>1, <2>2, <2>3 DEF groups
<1>5. ASSUME NEW i \in Instances, NEW t \in Topics, Publish(i, t) PROVE PipelineInv'
  <2>1. SourceInv' /\ GroupInv'
    BY <1>0, <1>5, PublishSource, PublishGroup
  <2>2. UNCHANGED <<logs, disturbed, handled>>
    BY <1>5 DEF Publish, groups
  <2>3. Appends(i, t) /\ \A u \in Topics : u # t => topic'[u] = topic[u]
    BY <1>0, <1>5, PublishAppends, PublishShape
  <2>4. Len(topic'[L]) \in Nat
    BY <2>1, LenProperties DEF SourceInv, SourceTypes
  <2>5. Len(topic[L]) <= Len(topic'[L]) /\ \A o \in 1 .. Len(topic[L]) : topic'[L][o] = topic[L][o]
    BY <1>a, <2>3 DEF Appends
  <2> QED
    BY <1>0, <1>a, <2>1, <2>2, <2>4, <2>5, LogsSame DEF PipelineInv
<1>6. ASSUME NEW i \in Instances, NEW t \in Topics, Fetch(i, t) PROVE PipelineInv'
  BY <1>0, <1>1, <1>6, SourceSame, FetchGroup DEF Fetch, sources, writers, groups, kafka
<1>7. ASSUME NEW i \in Instances, NEW t \in Topics, Commit(i, t) PROVE PipelineInv'
  BY <1>0, <1>1, <1>7, SourceSame, CommitGroup DEF Commit, sources, writers, groups
<1>8. ASSUME NEW i \in Instances, NEW t \in Topics, ReadFails(i, t) PROVE PipelineInv'
  BY <1>0, <1>1, <1>8, SlogSource, ReadFailsGroup DEF ReadFails, writers, groups
<1>9. ASSUME NEW i \in Instances, NEW t \in Topics, Handled(i, t) PROVE handled[L] \subseteq handled'[L]
  BY <1>0, <1>9 DEF Handled, GroupInv, GroupTypes
<1>10. ASSUME NEW i \in Instances, HandleEvent(i) PROVE PipelineInv'
  <2>1. "conversions" \in Topics
    BY DEF Topics
  <2>2. /\ Handled(i, "conversions") /\ Slog(i, "info")
        /\ UNCHANGED <<writing, retry, topic, committed, owner, logs, faults, moves, disturbed>>
    BY <1>10 DEF HandleEvent, kafka, writers, groups
  <2>3. SourceInv' /\ GroupInv'
    BY <1>0, <2>1, <2>2, SlogSource, HandledGroup
  <2> QED
    BY <1>1, <1>9, <2>1, <2>2, <2>3
<1>11. ASSUME NEW i \in Instances, Insert(i) PROVE PipelineInv'
  <2>1. /\ Handled(i, L)
        /\ UNCHANGED <<made, channel, writing, retry, topic, committed, owner, faults, moves, disturbed>>
    BY <1>11 DEF Insert, L, kafka, sources, writers, groups
  <2>2. SourceInv' /\ GroupInv'
    BY <1>0, <2>1, SourceSame, HandledGroup
  <2> QED
    BY <1>0, <1>11, <2>2, InsertLogs DEF PipelineInv
<1>12. ASSUME NEW i \in Instances, InsertFails(i) PROVE PipelineInv'
  <2>1. /\ Handled(i, L) /\ Slog(i, "error") /\ Fault
        /\ UNCHANGED <<writing, retry, topic, committed, owner, logs, moves, disturbed>>
    BY <1>12 DEF InsertFails, L, kafka, writers, groups
  <2>2. SourceInv' /\ GroupInv'
    BY <1>0, <2>1, SlogSource, HandledGroup, FaultTypes
  <2> QED
    BY <1>1, <1>9, <2>1, <2>2
<1>13. ASSUME NEW i \in Instances, NEW t \in Topics, Rebalance(t, i) PROVE PipelineInv'
  <2>1. SourceInv' /\ GroupInv'
    BY <1>0, <1>13, SourceSame, RebalanceGroup DEF Rebalance, sources, writers
  <2> QED
    BY <1>0, <1>1, <1>13, <2>1 DEF Rebalance
<1>14. ASSUME NEW i \in Instances, Crash(i) PROVE PipelineInv'
  <2>1. SourceInv' /\ GroupInv'
    BY <1>0, <1>14, CrashSource, CrashGroup
  <2> QED
    BY <1>1, <1>14, <2>1 DEF Crash
<1>15. CASE UNCHANGED vars
  BY <1>0, <1>1, <1>15, SourceSame, GroupSame DEF vars, sources, writers, groups, kafka
<1> QED
  BY <1>2, <1>3, <1>4, <1>5, <1>6, <1>7, <1>8, <1>10, <1>11, <1>12, <1>13, <1>14, <1>15
  DEF Next, Consume, HttpPublishEvent, GrpcPublishEvent, GrpcPublishConversion

LEMMA PipelineAlwaysInv == Spec => []PipelineInv
BY PipelineInit, PipelineStep, PTL DEF Spec

\* The channel of KafkaHandler stays within its buffer, and consumers and
\* offsets within their topics.
THEOREM PipelineTypeCorrect == Spec => []TypeOK
<1>1. PipelineInv => TypeOK
  BY DEF PipelineInv, SourceInv, SourceTypes, GroupInv, GroupTypes, PlaceOK, LogsInv, TypeOK
<1> QED
  BY <1>1, PipelineAlwaysInv, PTL

\* Consume hands a message to its handler at most once, and in order, through
\* crashes, failing commits and rebalances, until the group is rebalanced while
\* a live consumer holds a message it has fetched.
THEOREM HandledAtMostOnce == Spec => []AtMostOnce
<1>1. PipelineInv => AtMostOnce
  BY DEF PipelineInv, GroupInv, ReaderOK, AtMostOnce
<1> QED
  BY <1>1, PipelineAlwaysInv, PTL

\* However often a writer repeats a batch, and whatever crashes, the topic keeps
\* the order in which a process logged: drain has one record under way.
THEOREM AlwaysWrittenInOrder == Spec => []WrittenInOrder
<1>1. PipelineInv => WrittenInOrder
  <2>1. PipelineInv => DOMAIN topic[L] = 1 .. Len(topic[L])
    BY TopicIsString, TopicTypes, LenProperties DEF PipelineInv
  <2> QED
    BY <2>1 DEF PipelineInv, SourceInv, TopicInOrder, WrittenInOrder, InOrder, L
<1> QED
  BY <1>1, PipelineAlwaysInv, PTL

\* The logs table keeps the order in which a process logged, from slog to the
\* INSERT, under the same condition.
THEOREM LogsAlwaysInOrder == Spec => []LogsInOrder
<1>1. PipelineInv => LogsInOrder
  BY DEF PipelineInv, LogsInv
<1> QED
  BY <1>1, PipelineAlwaysInv, PTL

\* Nothing is invented: every row of the logs table was a message of the topic
\* that a consumer handled, whatever is rebalanced.
THEOREM LogsComeFromTopic ==
  Spec => [](\A j \in 1 .. Len(logs) : \E o \in handled[L] : logs[j] = topic[L][o + 1])
<1>1. PipelineInv => \A j \in 1 .. Len(logs) : \E o \in handled[L] : logs[j] = topic[L][o + 1]
  BY DEF PipelineInv, LogsInv
<1> QED
  BY <1>1, PipelineAlwaysInv, PTL
=============================================================================
