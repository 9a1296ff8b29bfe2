--------------------------- MODULE UserDirectory ---------------------------
(***************************************************************************)
(* What the accounts component promises of the users table, whatever the   *)
(* requests in flight, the cache, the bloom filter and the read standbys   *)
(* do: rows appear one at a time under an id never used before, two rows   *)
(* never share an email or a username, a row only changes while it exists, *)
(* and a removed row never comes back.                                     *)
(***************************************************************************)
EXTENDS Naturals

CONSTANTS
  Kinds,     \* the unique columns of a row
  Row,       \* the possible rows, functions from Kinds to strings
  MaxUsers,  \* bound on the rows ever inserted
  NoRow      \* no row under this id

VARIABLES
  table,     \* id -> row or NoRow
  next       \* the next id the BIGSERIAL column hands out

dvars == <<table, next>>

Ids == 1 .. MaxUsers

\* Another row than i holds the email or the username of row.
Clash(t, row, i) ==
  \E j \in Ids \ {i} : t[j] # NoRow /\ \E k \in Kinds : t[j][k] = row[k]

Init ==
  /\ table = [i \in Ids |-> NoRow]
  /\ next = 1

Insert(row) ==
  /\ next \in Ids
  /\ ~Clash(table, row, next)
  /\ table' = [table EXCEPT ![next] = row]
  /\ next' = next + 1

Change(i, row) ==
  /\ table[i] # NoRow
  /\ ~Clash(table, row, i)
  /\ table' = [table EXCEPT ![i] = row]
  /\ UNCHANGED next

Remove(i) ==
  /\ table[i] # NoRow
  /\ table' = [table EXCEPT ![i] = NoRow]
  /\ UNCHANGED next

Next ==
  \/ \E row \in Row : Insert(row)
  \/ \E i \in Ids : Remove(i) \/ \E row \in Row : Change(i, row)

Spec == Init /\ [][Next]_dvars

-----------------------------------------------------------------------------
\* No two rows share an email or a username.
Unique ==
  \A i, j \in Ids :
    (table[i] # NoRow /\ table[j] # NoRow /\ i # j)
      => \A k \in Kinds : table[i][k] # table[j][k]

\* An id that has not been handed out names no row.
FreshIdsEmpty == \A i \in Ids : i >= next => table[i] = NoRow

\* A deleted row stays deleted: its id never comes to name another one.
NoRevival ==
  [][\A i \in Ids : (i < next /\ table[i] = NoRow) => table'[i] = NoRow]_dvars
=============================================================================
