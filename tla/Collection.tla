----------------------------- MODULE Collection ------------------------------
(***************************************************************************)
(* One Collection of internal/core/store: the records, the secondary       *)
(* indexes and the id counter that every emulated service keeps its state  *)
(* in.  Each method takes the collection's lock for its whole body, so     *)
(* each is one action.  Timestamps are left out: no property is about      *)
(* them.  An entry of an index map is removed in the code when its id set  *)
(* becomes empty; here the inner map is total and such a key has the empty *)
(* set, which every reader of the map sees the same way.                   *)
(***************************************************************************)
EXTENDS Integers

CONSTANTS Fields,     \* the fields of a record that the model tells apart
          Values,     \* the values a field can hold
          Keys,       \* the strings fmt.Sprint prints values as
          NIL,        \* a field that is absent or nil
          KeyOf,      \* indexKey: what fmt.Sprint prints, for values and nil
          Snapshots,  \* the snapshots Restore may be handed from outside
          MaxId       \* bound on record ids

AnyValue == Values \cup {NIL}
Record == [Fields -> AnyValue]
Patch == UNION {[S -> AnyValue] : S \in SUBSET Fields}

(* The items of a snapshot are a list in the code, entries with their place*)
(* in it here: two may name one id, be they otherwise alike or not.        *)
Entry == [at : Int, id : Int, rec : Record]
Snapshot == [entries : SUBSET Entry, autoID : Int, fields : SUBSET Fields]

ASSUME KeyAssumption == NIL \notin Values /\ KeyOf \in [AnyValue -> Keys]
ASSUME SnapshotAssumption == Snapshots \subseteq Snapshot
ASSUME MaxIdAssumption == MaxId \in Nat

VARIABLES items,        \* the records, a partial function from ids
          indexes,      \* per indexed field, the ids under each key
          indexFields,  \* the indexed fields
          autoID,       \* the next automatic id
          reply         \* the ids the last call returned

vars == <<items, indexes, indexFields, autoID, reply>>

Ids == DOMAIN items
NoItems == [i \in {} |-> NIL]

-----------------------------------------------------------------------------
(* Index maintenance.                                                      *)

Under(rec, f, k) == rec[f] # NIL /\ KeyOf[rec[f]] = k

NoEntries(fields) == [f \in fields |-> [k \in Keys |-> {}]]

Indexed(ix, id, rec) ==
  [f \in DOMAIN ix |-> [k \in Keys |->
     IF Under(rec, f, k) THEN ix[f][k] \cup {id} ELSE ix[f][k]]]

StillIndexed(ix, id, rec) == ix

Unindexed(ix, id, rec) ==
  [f \in DOMAIN ix |-> [k \in Keys |->
     IF Under(rec, f, k) THEN ix[f][k] \ {id} ELSE ix[f][k]]]

Patched(rec, patch) ==
  [f \in Fields |-> IF f \in DOMAIN patch THEN patch[f] ELSE rec[f]]

-----------------------------------------------------------------------------
Init ==
  /\ items = NoItems
  /\ indexFields \in SUBSET Fields
  /\ indexes = NoEntries(indexFields)
  /\ autoID = 1
  /\ reply = {}

(* A record with no positive id of its own gets the next automatic one; a  *)
(* record with one overwrites whatever is stored there.                    *)
IdAsGiven(requested) == requested
IdFor(requested) == IF requested <= 0 THEN autoID ELSE requested

CounterKept(id) == autoID
CounterAfter(id) == IF id >= autoID THEN id + 1 ELSE autoID

Insert(requested, rec) ==
  LET id   == IdFor(requested)
      base == IF id \in Ids THEN Unindexed(indexes, id, items[id]) ELSE indexes
  IN  /\ id <= MaxId
      /\ autoID' = CounterAfter(id)
      /\ items' = [i \in Ids \cup {id} |-> IF i = id THEN rec ELSE items[i]]
      /\ indexes' = Indexed(base, id, rec)
      /\ reply' = {id}
      /\ UNCHANGED indexFields

Missing == reply' = {} /\ UNCHANGED <<items, indexes, indexFields, autoID>>

Rewrite(id, rec) ==
  /\ items' = [items EXCEPT ![id] = rec]
  /\ indexes' = Indexed(Unindexed(indexes, id, items[id]), id, rec)
  /\ reply' = {id}
  /\ UNCHANGED <<indexFields, autoID>>

(* A patch never changes the id, which is not one of the model's Fields.   *)
Update(id, patch) ==
  \/ id \in Ids /\ Rewrite(id, Patched(items[id], patch))
  \/ id \notin Ids /\ Missing

(* The callback sees the current record under the lock and either gives a  *)
(* patch or refuses.                                                       *)
UpdateFunc(id, accept, patch) ==
  \/ id \in Ids /\ accept /\ Rewrite(id, Patched(items[id], patch))
  \/ (id \notin Ids \/ ~accept) /\ Missing

Delete(id) ==
  \/ /\ id \in Ids
     /\ indexes' = Unindexed(indexes, id, items[id])
     /\ items' = [i \in Ids \ {id} |-> items[i]]
     /\ reply' = {id}
     /\ UNCHANGED <<indexFields, autoID>>
  \/ id \notin Ids /\ Missing

(* A lookup on an indexed field answers from the index, on any other field *)
(* by comparing printed values, where a missing field prints like nil.     *)
ScanValues(f, v) == {i \in Ids : items[i][f] = v}
Scan(f, v) == {i \in Ids : KeyOf[items[i][f]] = KeyOf[v]}
Lookup(f, v) ==
  IF f \in indexFields THEN indexes[f][KeyOf[v]] \cap Ids ELSE Scan(f, v)

FindBy(f, v) ==
  reply' = Lookup(f, v) /\ UNCHANGED <<items, indexes, indexFields, autoID>>

Get(id) ==
  reply' = {id} \cap Ids /\ UNCHANGED <<items, indexes, indexFields, autoID>>

Clear ==
  /\ items' = NoItems
  /\ indexes' = NoEntries(indexFields)
  /\ autoID' = 1
  /\ reply' = {}
  /\ UNCHANGED indexFields

-----------------------------------------------------------------------------
(* Snapshot, which lists the records by their ids, and Restore.            *)

Live ==
  [entries |-> {[at |-> i, id |-> i, rec |-> items[i]] : i \in Ids},
   autoID |-> autoID, fields |-> indexFields]

Valid(snap) ==
  /\ \A e \in snap.entries : e.id > 0
  /\ \A d, e \in snap.entries : d.id = e.id => d = e

EntryIds(snap) == {e.id : e \in snap.entries}

RestoredItems(snap) ==
  [i \in EntryIds(snap) |-> (CHOOSE e \in snap.entries : e.id = i).rec]

RestoredWithNil(snap) ==
  [f \in snap.fields |-> [k \in Keys |->
     {e.id : e \in {d \in snap.entries : KeyOf[d.rec[f]] = k}}]]

RestoredIndexes(snap) ==
  [f \in snap.fields |-> [k \in Keys |->
     {e.id : e \in {d \in snap.entries : Under(d.rec, f, k)}}]]

(* The restored counter is the largest of these.                           *)
SavedCounter(snap) == {1, snap.autoID}
CounterFloors(snap) == {1, snap.autoID} \cup {e.id + 1 : e \in snap.entries}

(* All entries are validated before anything is touched.                   *)
Restore(snap) ==
  \/ /\ Valid(snap)
     /\ items' = RestoredItems(snap)
     /\ indexFields' = snap.fields
     /\ indexes' = RestoredIndexes(snap)
     /\ autoID' \in CounterFloors(snap)
     /\ \A c \in CounterFloors(snap) : c <= autoID'
     /\ reply' = {}
  \/ ~Valid(snap) /\ Missing

-----------------------------------------------------------------------------
Next ==
  \/ \E n \in 0..MaxId, rec \in Record : Insert(n, rec)
  \/ \E id \in 1..MaxId, patch \in Patch : Update(id, patch)
  \/ \E id \in 1..MaxId, ok \in BOOLEAN, patch \in Patch :
       UpdateFunc(id, ok, patch)
  \/ \E id \in 1..MaxId : Delete(id)
  \/ \E f \in Fields, v \in AnyValue : FindBy(f, v)
  \/ \E id \in 1..MaxId : Get(id)
  \/ Clear
  \/ \E snap \in Snapshots : Restore(snap)

Spec == Init /\ [][Next]_vars

-----------------------------------------------------------------------------
(* The types of the variables: items is a table under positive ids, and    *)
(* every indexed field has one id set per key.                             *)
TypeOK ==
  /\ Ids \subseteq Nat \ {0}
  /\ items \in [Ids -> Record]
  /\ indexFields \in SUBSET Fields
  /\ indexes \in [indexFields -> [Keys -> SUBSET Nat]]
  /\ autoID \in Nat \ {0}
  /\ reply \in SUBSET Nat

(* The indexes hold exactly the ids of the records whose field prints as   *)
(* the key: no call leaves a stale or a missing index entry behind, not an *)
(* insert over an existing id and not a restore with other index fields    *)
(* (addToIndexes, removeFromIndexes).                                      *)
IndexExact ==
  \A f \in indexFields, k \in Keys :
    indexes[f][k] = {i \in Ids : Under(items[i], f, k)}

(* The next automatic id is above every id in the collection, so an        *)
(* automatic insert never overwrites a record, whatever explicit ids were  *)
(* inserted and whatever counter a snapshot carried.                       *)
AutoIDFresh == \A i \in Ids : i < autoID

(* A lookup gives the same records with an index as without, for every     *)
(* value that does not print like nil: adding an index to a collection     *)
(* changes no answer (FindBy's two branches).                              *)
LookupAgrees ==
  \A f \in Fields, v \in Values :
    KeyOf[v] # KeyOf[NIL] => Lookup(f, v) = Scan(f, v)

(* Restoring a snapshot taken now would give back this state: the records, *)
(* the indexes and the counter.                                            *)
RoundTrip ==
  /\ Valid(Live)
  /\ RestoredItems(Live) = items
  /\ RestoredIndexes(Live) = indexes
  /\ \A c \in CounterFloors(Live) : c <= autoID

(* The collection implements the plain table of RecordTable: the indexes   *)
(* are invisible to callers.                                               *)
Table == INSTANCE RecordTable WITH rows <- items, floor <- autoID
ImplementsTable == Table!TableSpec
=============================================================================
