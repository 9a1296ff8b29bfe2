------------------------------ MODULE Delivery ------------------------------
(***************************************************************************)
(* What the Kafka pipeline promises to someone who sees what is given to   *)
(* it, what the topics hold and what the handlers did, whatever processes  *)
(* crash and whatever fails.  A message is written any number of times,    *)
(* perhaps never, while the writer has it, and not before or after that;   *)
(* messages are handled in the order of their topic, each offset at most   *)
(* once, until a rebalance disturbs the topic's consumer group; and a row  *)
(* of the logs table is the message handled when it was inserted.          *)
(***************************************************************************)
EXTENDS Naturals, Sequences

CONSTANTS
  Topics,    \* the topics
  LogTopic,  \* the one whose handler inserts rows
  Message    \* the possible messages

VARIABLES
  pending,   \* messages a writer has, by topic
  topic,     \* messages written, by topic
  handled,   \* offsets whose handler has run, by topic
  logs,      \* the rows of the logs table
  disturbed  \* topics whose order of handling is no longer promised

dvars == <<pending, topic, handled, logs, disturbed>>

Init ==
  /\ pending = [t \in Topics |-> {}]
  /\ topic = [t \in Topics |-> <<>>]
  /\ handled = [t \in Topics |-> {}]
  /\ logs = <<>>
  /\ disturbed = {}

New(t, m) == m \notin pending[t] /\ \A o \in DOMAIN topic[t] : topic[t][o] # m

Accept(t, m) ==
  /\ m \in Message /\ New(t, m)
  /\ pending' = [pending EXCEPT ![t] = @ \cup {m}]
  /\ UNCHANGED <<topic, handled, logs, disturbed>>

\* Sequence v is u with members of S behind it.
Extends(v, u, S) ==
  /\ Len(u) <= Len(v)
  /\ \A o \in DOMAIN v : IF o <= Len(u) THEN v[o] = u[o] ELSE v[o] \in S

\* Messages a writer has are written, and it may be done with some.
Write(t) ==
  /\ Extends(topic'[t], topic[t], pending[t])
  /\ pending'[t] \subseteq pending[t]
  /\ \A u \in Topics \ {t} : topic'[u] = topic[u] /\ pending'[u] = pending[u]
  /\ UNCHANGED <<handled, logs, disturbed>>

\* A process dies with what it was writing, or a group is rebalanced.
Disturb ==
  /\ \A t \in Topics : pending'[t] \subseteq pending[t]
  /\ disturbed \subseteq disturbed'
  /\ UNCHANGED <<topic, handled, logs>>

Handle(t, o) ==
  /\ o + 1 \in DOMAIN topic[t]
  /\ t \notin disturbed => \A h \in handled[t] : h < o
  /\ handled' = [handled EXCEPT ![t] = @ \cup {o}]
  /\ \/ UNCHANGED logs
     \/ t = LogTopic /\ logs' = Append(logs, topic[t][o + 1])
  /\ UNCHANGED <<pending, topic, disturbed>>

Next ==
  \/ \E t \in Topics : \/ \E m \in pending'[t] : Accept(t, m)
                       \/ Write(t)
                       \/ \E o \in handled'[t] : Handle(t, o)
  \/ Disturb

Spec == Init /\ [][Next]_dvars

-----------------------------------------------------------------------------
\* The logs table is a part of the topic, in its order: each row comes from an
\* offset of its own, behind those of all rows before it.
Follows ==
  LogTopic \notin disturbed =>
    \E offset \in [DOMAIN logs -> handled[LogTopic]] :
      \A j \in DOMAIN logs :
        /\ logs[j] = topic[LogTopic][offset[j] + 1]
        /\ \A k \in 1 .. j - 1 : offset[k] < offset[j]
=============================================================================
