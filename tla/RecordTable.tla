----------------------------- MODULE RecordTable -----------------------------
(***************************************************************************)
(* What a collection of the in-memory store promises to the services: a    *)
(* table of records under positive ids, with no indexes.  An automatic id  *)
(* is one no record has had since the table was last emptied or replaced,  *)
(* and a lookup finds the records a scan of the whole table would find.    *)
(* The module Collection implements this specification.                    *)
(***************************************************************************)
EXTENDS Integers

CONSTANTS Fields,     \* the fields of a record that the model tells apart
          Values,     \* the values a field can hold
          Keys,       \* the printed forms of values
          NIL,        \* a field that is absent or nil
          KeyOf       \* the printed form of each value, and of nil

VARIABLES rows,       \* the table, a partial function from ids to records
          floor,      \* every id in use, or used before, is below the floor
          reply       \* the ids the last call returned

table == <<rows, floor, reply>>

AnyValue == Values \cup {NIL}
Row == [Fields -> AnyValue]
Empty == [i \in {} |-> NIL]
Occupied == DOMAIN rows

TableInit == rows = Empty /\ floor = 1 /\ reply = {}

(* A lookup may leave out only records that lack the field.                *)
Matching(f, v) == {i \in Occupied : KeyOf[rows[i][f]] = KeyOf[v]}
Find(f, v) ==
  /\ reply' \in {Matching(f, v), {i \in Matching(f, v) : rows[i][f] # NIL}}
  /\ UNCHANGED <<rows, floor>>

(* An automatic id is never below the floor; an explicit one may be.       *)
Put(i, row) ==
  /\ rows' = [j \in Occupied \cup {i} |-> IF j = i THEN row ELSE rows[j]]
  /\ floor' > i /\ floor' >= floor
  /\ reply' = {i}
AddFresh(row) == Put(floor, row)
AddAt(i, row) == i > 0 /\ Put(i, row)

Look(i) == i \in Occupied /\ reply' = {i} /\ UNCHANGED <<rows, floor>>

Change(i, row) ==
  /\ i \in Occupied
  /\ rows' = [rows EXCEPT ![i] = row]
  /\ reply' = {i} /\ UNCHANGED floor

Remove(i) ==
  /\ i \in Occupied
  /\ rows' = [j \in Occupied \ {i} |-> rows[j]]
  /\ reply' = {i} /\ UNCHANGED floor

Decline == reply' = {} /\ UNCHANGED <<rows, floor>>

(* Emptying or replacing the table is the only way the floor comes down,   *)
(* and it never comes down to an id the new contents use.                  *)
Replace ==
  /\ DOMAIN rows' \subseteq Nat \ {0}
  /\ \A i \in DOMAIN rows' : rows'[i] \in Row /\ i < floor'
  /\ floor' >= 1
  /\ reply' = {}

TableNext ==
  \/ \E f \in Fields, v \in AnyValue : Find(f, v)
  \/ \E row \in Row : AddFresh(row)
  \/ \E row \in Row : \E i \in reply' : AddAt(i, row)
  \/ \E i \in Occupied : Look(i)
  \/ \E i \in Occupied, row \in Row : Change(i, row)
  \/ \E i \in Occupied : Remove(i)
  \/ Decline
  \/ Replace

TableSpec == TableInit /\ [][TableNext]_table
=============================================================================
