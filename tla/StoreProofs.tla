----------------------------- MODULE StoreProofs -----------------------------
(***************************************************************************)
(* Proofs about the store in memory, Collection, and about what a Vercel   *)
(* Function saves of one, VercelRuntime.                                   *)
(*                                                                         *)
(* Collection: for every set of fields, values and snapshots and every     *)
(* bound on the ids, the inductive invariant is the conjunction of TypeOK, *)
(* IndexExact and AutoIDFresh: Insert preserves AutoIDFresh only because   *)
(* the counter was above every id before, and the index is exact after     *)
(* Rewrite only because it was exact before, since only the keys of the    *)
(* old and of the new record are touched.                                  *)
(*                                                                         *)
(* VercelRuntime: for every set of requests, instances, origins and        *)
(* changes, and any number of parts, a request at work has a warm server   *)
(* that keeps what reached it (WarmStateKept), so what the request put in, *)
(* and what was acknowledged when it began to marshal, is in each part it  *)
(* reads (Sound).  As long as mutating requests come in turn there is at   *)
(* most one of them, and its server and the saved snapshot both have       *)
(* everything that was acknowledged (InTurn).                              *)
(***************************************************************************)
EXTENDS Collection, VercelRuntime, TLAPS

IInv == TypeOK /\ IndexExact /\ AutoIDFresh

-----------------------------------------------------------------------------
(* Adding an id to the indexes, and taking it out, keeps their shape.      *)
LEMMA IndexShape ==
  ASSUME NEW F \in SUBSET Fields, NEW ix \in [F -> [Keys -> SUBSET Nat]],
         NEW id \in Nat, NEW rec \in Record
  PROVE  /\ Indexed(ix, id, rec) \in [F -> [Keys -> SUBSET Nat]]
         /\ Unindexed(ix, id, rec) \in [F -> [Keys -> SUBSET Nat]]
  BY DEF Indexed, Unindexed

(* A patched record is a record.                                           *)
LEMMA PatchedType ==
  ASSUME NEW rec \in Record, NEW patch \in Patch
  PROVE  Patched(rec, patch) \in Record
  <1>1. PICK S \in SUBSET Fields : patch \in [S -> AnyValue]
    BY DEF Patch
  <1>2. \A f \in Fields :
          (IF f \in DOMAIN patch THEN patch[f] ELSE rec[f]) \in AnyValue
    BY <1>1 DEF Record
  <1> QED  BY <1>2 DEF Patched, Record

-----------------------------------------------------------------------------
(* An empty collection satisfies the invariant.                            *)
LEMMA InitInvariant == Init => IInv
  BY DEF Init, IInv, TypeOK, IndexExact, AutoIDFresh, Ids, NoItems, NoEntries

(* A call that finds nothing keeps the invariant.                          *)
LEMMA MissingInvariant == IInv /\ Missing => IInv'
  BY DEF IInv, TypeOK, IndexExact, AutoIDFresh, Ids, Missing, Under

(* Insert keeps the invariant, at a fresh id and over an existing record.  *)
LEMMA InsertInvariant ==
  ASSUME IInv, NEW n \in Nat, NEW rec \in Record, Insert(n, rec)
  PROVE  IInv'
  <1> DEFINE id == IdFor(n)
             base == IF id \in Ids THEN Unindexed(indexes, id, items[id])
                                   ELSE indexes
  <1> USE DEF IInv
  <1>0. id \in Nat \ {0}
    BY DEF IdFor, TypeOK
  <1>1. /\ autoID' = CounterAfter(id)
        /\ items' = [i \in Ids \cup {id} |-> IF i = id THEN rec ELSE items[i]]
        /\ indexes' = Indexed(base, id, rec)
        /\ reply' = {id}
        /\ indexFields' = indexFields
    BY DEF Insert
  <1>2. /\ autoID' \in Nat \ {0} /\ autoID' > id /\ autoID' >= autoID
    BY <1>0, <1>1 DEF CounterAfter, TypeOK
  <1>3. Ids' = Ids \cup {id}
    BY <1>1 DEF Ids
  <1>4. id \in Ids => items[id] \in Record
    BY DEF TypeOK
  <1>5. base \in [indexFields -> [Keys -> SUBSET Nat]]
    BY <1>0, <1>4, IndexShape DEF TypeOK
  <1> HIDE DEF id
  <1>6. TypeOK'
    <2>1. items' \in [Ids' -> Record]
      BY <1>1, <1>3 DEF TypeOK
    <2>2. indexes' \in [indexFields' -> [Keys -> SUBSET Nat]]
      BY <1>0, <1>1, <1>5, IndexShape DEF TypeOK
    <2> QED  BY <1>0, <1>1, <1>2, <1>3, <2>1, <2>2 DEF TypeOK
  <1>7. IndexExact'
    <2> SUFFICES ASSUME NEW f \in indexFields, NEW k \in Keys
                 PROVE  indexes'[f][k] = {i \in Ids' : Under(items'[i], f, k)}
      BY <1>1 DEF IndexExact
    <2>1. indexes[f][k] = {i \in Ids : Under(items[i], f, k)}
      BY DEF IndexExact
    <2>2. base[f][k] = indexes[f][k] \ {id}
      <3>1. CASE id \in Ids
        <4>1. base = Unindexed(indexes, id, items[id])
          BY <3>1
        <4>2. f \in DOMAIN indexes
          BY DEF TypeOK
        <4>3. Unindexed(indexes, id, items[id])[f][k]
                = IF Under(items[id], f, k) THEN indexes[f][k] \ {id}
                                            ELSE indexes[f][k]
          BY <4>2 DEF Unindexed
        <4> QED  BY <2>1, <4>1, <4>3
      <3>2. CASE id \notin Ids
        BY <2>1, <3>2
      <3> QED  BY <3>1, <3>2
    <2>3. indexes'[f][k] = IF Under(rec, f, k) THEN base[f][k] \cup {id}
                                               ELSE base[f][k]
      <3>1. f \in DOMAIN base
        BY <1>5
      <3> HIDE DEF base
      <3> QED  BY <1>1, <3>1 DEF Indexed
    <2>4. \A i \in Ids' : items'[i] = IF i = id THEN rec ELSE items[i]
      BY <1>1, <1>3
    <2> HIDE DEF base
    <2> QED  BY <1>3, <2>1, <2>2, <2>3, <2>4
  <1>8. AutoIDFresh'
    BY <1>0, <1>2, <1>3 DEF AutoIDFresh, TypeOK
  <1> QED  BY <1>6, <1>7, <1>8

(* Replacing the record of an existing id keeps the invariant.             *)
LEMMA RewriteInvariant ==
  ASSUME IInv, NEW id \in Ids, NEW rec \in Record, Rewrite(id, rec)
  PROVE  IInv'
  <1> DEFINE base == Unindexed(indexes, id, items[id])
  <1> USE DEF IInv
  <1>0. id \in Nat \ {0} /\ items[id] \in Record
    BY DEF TypeOK
  <1>1. /\ items' = [items EXCEPT ![id] = rec]
        /\ indexes' = Indexed(base, id, rec)
        /\ reply' = {id} /\ indexFields' = indexFields /\ autoID' = autoID
    BY DEF Rewrite
  <1>2. Ids' = Ids
    BY <1>1 DEF Ids
  <1>3. base \in [indexFields -> [Keys -> SUBSET Nat]]
    BY <1>0, IndexShape DEF TypeOK
  <1>4. TypeOK'
    <2>1. items' \in [Ids -> Record]
      BY <1>1 DEF TypeOK
    <2>2. indexes' \in [indexFields' -> [Keys -> SUBSET Nat]]
      BY <1>0, <1>1, <1>3, IndexShape DEF TypeOK
    <2> QED  BY <1>0, <1>1, <1>2, <2>1, <2>2 DEF TypeOK
  <1>5. IndexExact'
    <2> SUFFICES ASSUME NEW f \in indexFields, NEW k \in Keys
                 PROVE  indexes'[f][k] = {i \in Ids : Under(items'[i], f, k)}
      BY <1>1, <1>2 DEF IndexExact
    <2>1. indexes[f][k] = {i \in Ids : Under(items[i], f, k)}
      BY DEF IndexExact
    <2>2. base[f][k] = IF Under(items[id], f, k) THEN indexes[f][k] \ {id}
                                                 ELSE indexes[f][k]
      <3>1. f \in DOMAIN indexes
        BY DEF TypeOK
      <3> QED  BY <3>1 DEF Unindexed
    <2>3. indexes'[f][k] = IF Under(rec, f, k) THEN base[f][k] \cup {id}
                                               ELSE base[f][k]
      <3>1. f \in DOMAIN base
        BY <1>3
      <3> HIDE DEF base
      <3> QED  BY <1>1, <3>1 DEF Indexed
    <2>4. \A i \in Ids : items'[i] = IF i = id THEN rec ELSE items[i]
      BY <1>1 DEF TypeOK
    <2> HIDE DEF base
    <2> QED  BY <2>1, <2>2, <2>3, <2>4
  <1>6. AutoIDFresh'
    BY <1>1, <1>2 DEF AutoIDFresh
  <1> QED  BY <1>4, <1>5, <1>6

(* Deleting a record keeps the invariant.                                  *)
LEMMA DeleteInvariant ==
  ASSUME IInv, NEW id \in Nat, Delete(id)
  PROVE  IInv'
  <1> USE DEF IInv
  <1>1. CASE id \notin Ids
    BY <1>1, MissingInvariant DEF Delete
  <1>2. CASE id \in Ids
    <2>1. /\ indexes' = Unindexed(indexes, id, items[id])
          /\ items' = [i \in Ids \ {id} |-> items[i]]
          /\ reply' = {id} /\ indexFields' = indexFields /\ autoID' = autoID
      BY <1>2 DEF Delete
    <2>2. Ids' = Ids \ {id}
      BY <2>1 DEF Ids
    <2>3. items[id] \in Record
      BY <1>2 DEF TypeOK
    <2>4. TypeOK'
      <3>1. items' \in [Ids' -> Record]
        BY <2>1, <2>2 DEF TypeOK
      <3>2. indexes' \in [indexFields' -> [Keys -> SUBSET Nat]]
        BY <2>1, <2>3, IndexShape DEF TypeOK
      <3> QED  BY <2>1, <2>2, <3>1, <3>2 DEF TypeOK
    <2>5. IndexExact'
      <3> SUFFICES ASSUME NEW f \in indexFields, NEW k \in Keys
                   PROVE  indexes'[f][k]
                            = {i \in Ids' : Under(items'[i], f, k)}
        BY <2>1 DEF IndexExact
      <3>1. indexes[f][k] = {i \in Ids : Under(items[i], f, k)}
        BY DEF IndexExact
      <3>2. indexes'[f][k] = IF Under(items[id], f, k)
                               THEN indexes[f][k] \ {id} ELSE indexes[f][k]
        <4>1. f \in DOMAIN indexes
          BY DEF TypeOK
        <4> QED  BY <2>1, <4>1 DEF Unindexed
      <3>3. \A i \in Ids' : items'[i] = items[i]
        BY <2>1, <2>2
      <3> QED  BY <2>2, <3>1, <3>2, <3>3
    <2>6. AutoIDFresh'
      BY <2>1, <2>2 DEF AutoIDFresh
    <2> QED  BY <2>4, <2>5, <2>6
  <1> QED  BY <1>1, <1>2

(* Emptying the collection keeps the invariant.                            *)
LEMMA ClearInvariant == IInv /\ Clear => IInv'
  BY DEF IInv, TypeOK, IndexExact, AutoIDFresh, Ids, NoItems, NoEntries, Clear

(* Restore keeps the invariant whatever counter and index fields the       *)
(* snapshot carries: the counter is raised above the restored ids and the  *)
(* indexes are rebuilt from the restored records.                          *)
LEMMA RestoreInvariant ==
  ASSUME IInv, NEW snap \in Snapshots, Restore(snap)
  PROVE  IInv'
  <1>1. CASE Valid(snap)
    <2>0. /\ snap \in Snapshot
          /\ snap.entries \subseteq Entry
          /\ snap.autoID \in Int /\ snap.fields \in SUBSET Fields
      BY SnapshotAssumption DEF Snapshot
    <2>1. /\ items' = RestoredItems(snap)
          /\ indexFields' = snap.fields
          /\ indexes' = RestoredIndexes(snap)
          /\ autoID' \in CounterFloors(snap)
          /\ \A c \in CounterFloors(snap) : c <= autoID'
          /\ reply' = {}
      BY <1>1 DEF Restore
    <2>2. Ids' = EntryIds(snap)
      BY <2>1 DEF Ids, RestoredItems
    <2>3. EntryIds(snap) \subseteq Nat \ {0}
      BY <2>0, <1>1 DEF EntryIds, Valid, Entry
    <2>4. \A e \in snap.entries : items'[e.id] = e.rec
      <3>1. SUFFICES ASSUME NEW e \in snap.entries
                     PROVE  items'[e.id] = e.rec
        OBVIOUS
      <3>2. e.id \in EntryIds(snap)
        BY DEF EntryIds
      <3>3. (CHOOSE d \in snap.entries : d.id = e.id) = e
        BY <1>1 DEF Valid
      <3> QED  BY <2>1, <3>2, <3>3 DEF RestoredItems
    <2>5. TypeOK'
      <3>1. items' \in [Ids' -> Record]
        <4>1. \A i \in Ids' : items'[i] \in Record
          <5>1. SUFFICES ASSUME NEW i \in Ids' PROVE items'[i] \in Record
            OBVIOUS
          <5>2. PICK e \in snap.entries : e.id = i
            BY <2>2 DEF EntryIds
          <5> QED  BY <2>0, <2>4, <5>2 DEF Entry
        <4> QED  BY <2>1, <2>2, <4>1 DEF RestoredItems
      <3>2. autoID' \in Nat \ {0}
        <4>1. \A c \in CounterFloors(snap) : c \in Int
          BY <2>0 DEF CounterFloors
        <4>2. 1 <= autoID'
          BY <2>1 DEF CounterFloors
        <4> QED  BY <2>1, <4>1, <4>2
      <3>3. indexes' \in [indexFields' -> [Keys -> SUBSET Nat]]
        <4>1. \A f \in snap.fields, k \in Keys :
                {e.id : e \in {d \in snap.entries : Under(d.rec, f, k)}}
                  \in SUBSET Nat
          BY <2>3 DEF EntryIds
        <4> QED  BY <2>1, <4>1 DEF RestoredIndexes
      <3> QED  BY <2>0, <2>1, <2>2, <2>3, <3>1, <3>2, <3>3 DEF TypeOK
    <2>6. IndexExact'
      <3>1. SUFFICES ASSUME NEW f \in snap.fields, NEW k \in Keys
                     PROVE  indexes'[f][k]
                              = {i \in Ids' : Under(items'[i], f, k)}
        BY <2>1 DEF IndexExact
      <3>2. indexes'[f][k]
              = {e.id : e \in {d \in snap.entries : Under(d.rec, f, k)}}
        BY <2>1 DEF RestoredIndexes
      <3>3. ASSUME NEW i \in indexes'[f][k]
            PROVE  i \in Ids' /\ Under(items'[i], f, k)
        <4>1. PICK e \in snap.entries : Under(e.rec, f, k) /\ e.id = i
          BY <3>2, <3>3
        <4> QED  BY <2>2, <2>4, <4>1 DEF EntryIds
      <3>4. ASSUME NEW i \in Ids', Under(items'[i], f, k)
            PROVE  i \in indexes'[f][k]
        <4>1. PICK e \in snap.entries : e.id = i
          BY <2>2 DEF EntryIds
        <4>2. Under(e.rec, f, k)
          BY <2>4, <3>4, <4>1
        <4> QED  BY <3>2, <4>1, <4>2
      <3> QED  BY <3>3, <3>4
    <2>7. AutoIDFresh'
      <3>1. SUFFICES ASSUME NEW i \in Ids' PROVE i < autoID'
        BY DEF AutoIDFresh
      <3>2. PICK e \in snap.entries : e.id = i
        BY <2>2 DEF EntryIds
      <3>3. i + 1 <= autoID'
        BY <2>1, <3>2 DEF CounterFloors
      <3> QED  BY <2>2, <2>3, <2>5, <3>3 DEF TypeOK
    <2> QED  BY <2>5, <2>6, <2>7 DEF IInv
  <1>2. CASE ~Valid(snap)
    BY <1>2, MissingInvariant DEF Restore
  <1> QED  BY <1>1, <1>2

(* Every step keeps the inductive invariant.                               *)
LEMMA NextInvariant == IInv /\ [Next]_vars => IInv'
  <1> SUFFICES ASSUME IInv, [Next]_vars PROVE IInv'
    OBVIOUS
  <1>1. ASSUME NEW n \in 0..MaxId, NEW rec \in Record, Insert(n, rec)
        PROVE  IInv'
    BY <1>1, InsertInvariant, MaxIdAssumption
  <1>2. ASSUME NEW id \in 1..MaxId, NEW patch \in Patch, Update(id, patch)
        PROVE  IInv'
    <2>1. CASE id \in Ids /\ Rewrite(id, Patched(items[id], patch))
      BY <2>1, PatchedType, RewriteInvariant DEF IInv, TypeOK
    <2>2. CASE Missing
      BY <2>2, MissingInvariant
    <2> QED  BY <1>2, <2>1, <2>2 DEF Update
  <1>3. ASSUME NEW id \in 1..MaxId, NEW ok \in BOOLEAN, NEW patch \in Patch,
               UpdateFunc(id, ok, patch)
        PROVE  IInv'
    <2>1. CASE id \in Ids /\ Rewrite(id, Patched(items[id], patch))
      BY <2>1, PatchedType, RewriteInvariant DEF IInv, TypeOK
    <2>2. CASE Missing
      BY <2>2, MissingInvariant
    <2> QED  BY <1>3, <2>1, <2>2 DEF UpdateFunc
  <1>4. ASSUME NEW id \in 1..MaxId, Delete(id) PROVE IInv'
    BY <1>4, DeleteInvariant, MaxIdAssumption
  <1>5. ASSUME NEW f \in Fields, NEW v \in AnyValue, FindBy(f, v) PROVE IInv'
    <2>1. reply' \in SUBSET Nat
      BY <1>5 DEF FindBy, Lookup, Scan, IInv, TypeOK
    <2> QED  BY <1>5, <2>1
             DEF FindBy, IInv, TypeOK, IndexExact, AutoIDFresh, Ids, Under
  <1>6. ASSUME NEW id \in 1..MaxId, Get(id) PROVE IInv'
    BY <1>6 DEF Get, IInv, TypeOK, IndexExact, AutoIDFresh, Ids, Under
  <1>7. CASE Clear
    BY <1>7, ClearInvariant
  <1>8. ASSUME NEW snap \in Snapshots, Restore(snap) PROVE IInv'
    BY <1>8, RestoreInvariant
  <1>9. CASE UNCHANGED vars
    BY <1>9 DEF vars, IInv, TypeOK, IndexExact, AutoIDFresh, Ids, Under
  <1> QED
    BY <1>1, <1>2, <1>3, <1>4, <1>5, <1>6, <1>7, <1>8, <1>9 DEF Next

-----------------------------------------------------------------------------
(* The types, the exact indexes and the fresh counter hold in every        *)
(* reachable state.                                                        *)
LEMMA Invariance == Spec => []IInv
  BY InitInvariant, NextInvariant, PTL DEF Spec

(* The store's variables always have their types (Collection, store.go).   *)
THEOREM TypeCorrect == Spec => []TypeOK
  <1>1. IInv => TypeOK
    BY DEF IInv
  <1> QED  BY <1>1, Invariance, PTL

(* Every index always holds exactly the ids of the records under each key: *)
(* addToIndexes and removeFromIndexes never get out of step with items.    *)
THEOREM IndexesExact == Spec => []IndexExact
  <1>1. IInv => IndexExact
    BY DEF IInv
  <1> QED  BY <1>1, Invariance, PTL

(* The automatic id is always above every id in use, so an automatic       *)
(* insert never overwrites a record.                                       *)
THEOREM AutoIDIsFresh == Spec => []AutoIDFresh
  <1>1. IInv => AutoIDFresh
    BY DEF IInv
  <1> QED  BY <1>1, Invariance, PTL

(* FindBy answers the same from an index as from a scan.                   *)
THEOREM LookupsAgree == Spec => []LookupAgrees
  <1>1. IInv => LookupAgrees
    <2> SUFFICES ASSUME IInv, NEW f \in Fields, NEW v \in Values,
                        KeyOf[v] # KeyOf[NIL]
                 PROVE  Lookup(f, v) = Scan(f, v)
      BY DEF LookupAgrees
    <2>1. CASE f \in indexFields
      <3>1. KeyOf[v] \in Keys
        BY KeyAssumption DEF AnyValue
      <3>2. indexes[f][KeyOf[v]] = {i \in Ids : Under(items[i], f, KeyOf[v])}
        BY <2>1, <3>1 DEF IInv, IndexExact
      <3> QED  BY <2>1, <3>2 DEF Lookup, Scan, Under
    <2>2. CASE f \notin indexFields
      BY <2>2 DEF Lookup
    <2> QED  BY <2>1, <2>2
  <1> QED  BY <1>1, Invariance, PTL

(* Restore gives back what Snapshot took: records, indexes and counter.    *)
THEOREM SnapshotRoundTrips == Spec => []RoundTrip
  <1>1. IInv => RoundTrip
    <2> SUFFICES ASSUME IInv PROVE RoundTrip
      OBVIOUS
    <2> DEFINE E == {[at |-> i, id |-> i, rec |-> items[i]] : i \in Ids}
    <2>1. Live.entries = E /\ Live.autoID = autoID /\ Live.fields = indexFields
      BY DEF Live
    <2>2. \A e \in E : e.id \in Ids /\ e.rec = items[e.id]
      OBVIOUS
    <2>3. \A d, e \in E : d.id = e.id => d = e
      OBVIOUS
    <2>4. \A i \in Ids : [at |-> i, id |-> i, rec |-> items[i]] \in E
      OBVIOUS
    <2>5. EntryIds(Live) = Ids
      <3>1. ASSUME NEW i \in Ids PROVE i \in {e.id : e \in E}
        <4>1. [at |-> i, id |-> i, rec |-> items[i]].id = i
          OBVIOUS
        <4> HIDE DEF E
        <4> QED  BY <2>4, <4>1
      <3>2. {e.id : e \in E} \subseteq Ids
        BY <2>2
      <3> HIDE DEF E
      <3> QED  BY <2>1, <3>1, <3>2 DEF EntryIds
    <2>6. Valid(Live)
      BY <2>1, <2>2, <2>3 DEF Valid, IInv, TypeOK
    <2>7. RestoredItems(Live) = items
      <3>1. \A i \in Ids : (CHOOSE e \in E : e.id = i).rec = items[i]
        BY <2>2, <2>4
      <3>2. items = [i \in Ids |-> items[i]]
        BY DEF IInv, TypeOK
      <3> QED  BY <2>1, <2>5, <3>1, <3>2 DEF RestoredItems
    <2>8. RestoredIndexes(Live) = indexes
      <3>1. ASSUME NEW f \in indexFields, NEW k \in Keys
            PROVE  {e.id : e \in {d \in E : Under(d.rec, f, k)}}
                     = indexes[f][k]
        <4>1. indexes[f][k] = {i \in Ids : Under(items[i], f, k)}
          BY DEF IInv, IndexExact
        <4>2. ASSUME NEW i \in {e.id : e \in {d \in E : Under(d.rec, f, k)}}
              PROVE  i \in indexes[f][k]
          <5>1. PICK e \in E : Under(e.rec, f, k) /\ e.id = i
            OBVIOUS
          <5> QED  BY <2>2, <4>1, <5>1
        <4>3. ASSUME NEW i \in indexes[f][k]
              PROVE  i \in {e.id : e \in {d \in E : Under(d.rec, f, k)}}
          <5>1. i \in Ids /\ Under(items[i], f, k)
            BY <4>1
          <5>2. [at |-> i, id |-> i, rec |-> items[i]]
                  \in {d \in E : Under(d.rec, f, k)}
            BY <2>4, <5>1
          <5>3. [at |-> i, id |-> i, rec |-> items[i]].id = i
            OBVIOUS
          <5> HIDE DEF E
          <5> QED  BY <5>2, <5>3
        <4> QED  BY <4>2, <4>3
      <3>2. indexes = [f \in indexFields |-> [k \in Keys |-> indexes[f][k]]]
        BY DEF IInv, TypeOK
      <3> HIDE DEF E
      <3> QED  BY <2>1, <3>1, <3>2 DEF RestoredIndexes
    <2>9. \A c \in CounterFloors(Live) : c <= autoID
      BY <2>1, <2>2 DEF CounterFloors, IInv, TypeOK, AutoIDFresh
    <2> QED  BY <2>6, <2>7, <2>8, <2>9 DEF RoundTrip
  <1> QED  BY <1>1, Invariance, PTL

-----------------------------------------------------------------------------
(* The collection implements RecordTable: every call is a call of the      *)
(* table, so no caller can see the indexes (Collection against the         *)
(* index-free promise).                                                    *)
LEMMA FindImplements ==
  ASSUME IInv, NEW f \in Fields, NEW v \in AnyValue, FindBy(f, v)
  PROVE  Table!Find(f, v)
  <1>1. Table!Matching(f, v) = Scan(f, v)
    BY DEF Table!Matching, Table!Occupied, Scan, Ids
  <1>2. CASE f \notin indexFields
    BY <1>1, <1>2 DEF FindBy, Lookup, Table!Find
  <1>3. CASE f \in indexFields
    <2>1. KeyOf[v] \in Keys
      BY KeyAssumption
    <2>2. indexes[f][KeyOf[v]] = {i \in Ids : Under(items[i], f, KeyOf[v])}
      BY <1>3, <2>1 DEF IInv, IndexExact
    <2>3. reply' = {i \in Table!Matching(f, v) : items[i][f] # NIL}
      BY <1>1, <1>3, <2>2 DEF FindBy, Lookup, Scan, Under
    <2> QED  BY <2>3 DEF FindBy, Table!Find
  <1> QED  BY <1>2, <1>3

(* Insert, at a fresh or a given id, is the table's AddFresh or AddAt.     *)
LEMMA PutImplements ==
  ASSUME IInv, NEW n \in Nat, NEW rec \in Record, Insert(n, rec)
  PROVE  \/ Table!AddFresh(rec)
         \/ \E i \in reply' : Table!AddAt(i, rec)
  <1> DEFINE id == IdFor(n)
  <1>1. id \in Nat \ {0} /\ autoID \in Nat
    BY DEF IdFor, IInv, TypeOK
  <1>2. autoID' > id /\ autoID' >= autoID
    BY <1>1 DEF Insert, CounterAfter
  <1>3. Table!Put(id, rec)
    BY <1>2 DEF Insert, Table!Put, Table!Occupied, Ids
  <1>4. reply' = {id}
    BY DEF Insert
  <1> QED  BY <1>1, <1>3, <1>4 DEF Table!AddAt

(* Update and UpdateFunc on a stored record are the table's Change.        *)
LEMMA RewriteImplements ==
  ASSUME NEW id \in Ids, NEW rec \in Record, Rewrite(id, rec)
  PROVE  Table!Change(id, rec)
  BY DEF Rewrite, Table!Change, Table!Occupied, Ids

(* A call that finds nothing is the table's Decline.                       *)
LEMMA MissingImplements == Missing => Table!Decline
  BY DEF Missing, Table!Decline

(* Clear and Restore, which answer no ids, are the table's Replace.        *)
LEMMA ReplaceImplements == IInv' /\ reply' = {} => Table!Replace
  <1> SUFFICES ASSUME IInv', reply' = {} PROVE Table!Replace
    OBVIOUS
  <1>1. /\ Ids' \subseteq Nat \ {0}
        /\ items' \in [Ids' -> Record]
        /\ autoID' \in Nat \ {0}
        /\ \A i \in Ids' : i < autoID'
    BY DEF IInv, TypeOK, AutoIDFresh
  <1>2. Ids' = DOMAIN items'
    BY DEF Ids
  <1>3. Record = Table!Row
    BY DEF Record, Table!Row, AnyValue, Table!AnyValue
  <1>4. autoID' >= 1
    BY <1>1
  <1> QED  BY <1>1, <1>2, <1>3, <1>4 DEF Table!Replace

(* Every step of the collection is a step of the table or a stutter.       *)
LEMMA StepImplements == IInv /\ IInv' /\ [Next]_vars
                          => [Table!TableNext]_(Table!table)
  <1> SUFFICES ASSUME IInv, IInv', [Next]_vars
               PROVE  Table!TableNext \/ UNCHANGED Table!table
    OBVIOUS
  <1> USE DEF Table!TableNext
  <1>0. Record = Table!Row /\ AnyValue = Table!AnyValue /\ Ids = Table!Occupied
    BY DEF Record, Table!Row, AnyValue, Table!AnyValue, Ids, Table!Occupied
  <1>a. ASSUME Missing PROVE Table!TableNext
    BY <1>a, MissingImplements
  <1>b. ASSUME NEW id \in Ids, NEW patch \in Patch,
               Rewrite(id, Patched(items[id], patch))
        PROVE  Table!TableNext
    <2>1. Patched(items[id], patch) \in Record
      BY PatchedType DEF IInv, TypeOK
    <2> QED  BY <1>0, <1>b, <2>1, RewriteImplements
  <1>1. ASSUME NEW n \in 0..MaxId, NEW rec \in Record, Insert(n, rec)
        PROVE  Table!TableNext
    <2>1. \/ Table!AddFresh(rec)
          \/ \E i \in reply' : Table!AddAt(i, rec)
      BY <1>1, PutImplements, MaxIdAssumption
    <2> QED  BY <1>0, <2>1
  <1>2. ASSUME NEW id \in 1..MaxId, NEW patch \in Patch, Update(id, patch)
        PROVE  Table!TableNext
    BY <1>2, <1>a, <1>b DEF Update
  <1>3. ASSUME NEW id \in 1..MaxId, NEW ok \in BOOLEAN, NEW patch \in Patch,
               UpdateFunc(id, ok, patch)
        PROVE  Table!TableNext
    BY <1>3, <1>a, <1>b DEF UpdateFunc
  <1>4. ASSUME NEW id \in 1..MaxId, Delete(id) PROVE Table!TableNext
    <2>1. CASE id \in Ids /\ ~Missing
      <3>1. Table!Remove(id)
        BY <1>4, <2>1 DEF Delete, Table!Remove, Table!Occupied, Ids
      <3> QED  BY <1>0, <2>1, <3>1
    <2> QED  BY <1>4, <1>a, <2>1 DEF Delete
  <1>5. ASSUME NEW f \in Fields, NEW v \in AnyValue, FindBy(f, v)
        PROVE  Table!TableNext
    BY <1>0, <1>5, FindImplements
  <1>6. ASSUME NEW id \in 1..MaxId, Get(id) PROVE Table!TableNext
    <2>1. CASE id \in Ids
      <3>1. Table!Look(id)
        BY <1>6, <2>1 DEF Get, Table!Look, Table!Occupied, Ids
      <3> QED  BY <1>0, <2>1, <3>1
    <2>2. CASE id \notin Ids
      BY <1>6, <2>2 DEF Get, Table!Decline
    <2> QED  BY <2>1, <2>2
  <1>7. CASE Clear
    BY <1>7, ReplaceImplements DEF Clear
  <1>8. ASSUME NEW snap \in Snapshots, Restore(snap) PROVE Table!TableNext
    BY <1>8, ReplaceImplements DEF Restore, Missing
  <1>9. CASE UNCHANGED vars
    BY <1>9 DEF vars, Table!table
  <1> QED
    BY <1>1, <1>2, <1>3, <1>4, <1>5, <1>6, <1>7, <1>8, <1>9 DEF Next

(* Every behaviour of the collection is a behaviour of the plain table.    *)
THEOREM CollectionImplementsTable == Spec => ImplementsTable
  <1>1. Init => Table!TableInit
    BY DEF Init, NoItems, Table!TableInit, Table!Empty
  <1> QED
    BY <1>1, StepImplements, Invariance, PTL
    DEF Spec, ImplementsTable, Table!TableSpec

-----------------------------------------------------------------------------
(* VercelRuntime.                                                          *)

AtWork == {"handle", "marshal", "save"}
ServerOf(r) == servers[r.instance][r.origin]

(* What a request at work may count on.                                    *)
Sound(r) ==
  /\ r.step \in AtWork => ServerOf(r) # Cold /\ r.change # NoChange
  /\ r.step = "handle" =>
       \A k \in PartIds \ r.todo : r.change \in ServerOf(r)[k]
  /\ r.step \in {"marshal", "save"} =>
       /\ \A k \in PartIds : r.base \cup {r.change} \subseteq ServerOf(r)[k]
       /\ \A k \in 1..r.part : r.base \cup {r.change} \subseteq r.snapshot[k]
  /\ r.step \in {"serve", "handle"} => r.part = 0
  /\ r.step = "serve" /\ r.change # NoChange => r.todo = PartIds
  /\ r.step = "marshal" => r.part < Parts
  /\ r.step = "save" => r.part = Parts

(* Requests in turn: one at most that changes something, on a server that  *)
(* has, like the snapshot, all that was acknowledged.                      *)
InTurn ==
  /\ \A p, q \in Procs : Mutating(p) /\ Mutating(q) => p = q
  /\ Contains(saved, acked)
  /\ \A p \in Procs : Mutating(p) =>
       /\ Contains(Server(p), acked)
       /\ req[p].step \in {"marshal", "save"} => acked \subseteq req[p].base

RuntimeInv ==
  /\ RuntimeTypeOK
  /\ \A p \in Procs : Sound(req[p])
  /\ crossed \/ InTurn

-----------------------------------------------------------------------------
(* Lemmas about the operators of the model.                                *)

LEMMA StoreFacts ==
  /\ Cold \notin Store /\ Empty \in Store
  /\ \A s \in Store : DOMAIN s = PartIds
  /\ \A C : Contains(Cold, C)
  /\ \A C : \A s \in Store : Contains(s, C) <=> \A k \in PartIds : C \subseteq s[k]
  <1>1. DOMAIN Cold = {} /\ 1 \in PartIds
    BY PartAssumption DEF Cold, PartIds
  <1>2. \A s \in Store : DOMAIN s = PartIds
    BY DEF Store
  <1>3. Cold \notin Store
    BY <1>1, <1>2
  <1> QED  BY <1>1, <1>2, <1>3 DEF Contains, Empty, Store

LEMMA IdleFacts ==
  /\ Idle \in Request /\ Idle.step = "idle" /\ Idle.change = NoChange
  /\ Idle.part = 0 /\ Sound(Idle)
  <1>1. /\ (CHOOSE i \in Instances : TRUE) \in Instances
        /\ (CHOOSE o \in Origins : TRUE) \in Origins
    BY PlaceAssumption
  <1>2. 0 \in 0..Parts
    BY PartAssumption
  <1>3. Idle \in Request
    BY <1>1, <1>2, StoreFacts DEF Idle, Request, Steps
  <1> QED  BY <1>3 DEF Idle, Sound, AtWork

-----------------------------------------------------------------------------
(* How the requests stay sound.                                            *)

LEMMA RequestsSound ==
  ASSUME RuntimeTypeOK, NEW p \in Procs, NEW r \in Request, Goto(p, r), Sound(r)',
         \A q \in Procs, s \in Request :
           q # p /\ s = req[q] => Sound(s)'
  PROVE  req' \in [Procs -> Request] /\ \A q \in Procs : Sound(req[q])'
  <1>1. req' \in [Procs -> Request]
    BY DEF Goto, RuntimeTypeOK
  <1>2. ASSUME NEW q \in Procs PROVE Sound(req[q])'
    <2>1. PICK s \in Request : s = req'[q]
      BY <1>1
    <2>2. Sound(s)'
      <3>1. CASE q = p
        BY <2>1, <3>1 DEF Goto, RuntimeTypeOK
      <3>2. CASE q # p
        BY <2>1, <3>2 DEF Goto, RuntimeTypeOK
      <3> QED  BY <3>1, <3>2
    <2> QED  BY <2>1, <2>2 DEF Sound, ServerOf
  <1> QED  BY <1>1, <1>2

(* A request stays sound while its server stays warm and keeps its state.  *)
LEMMA KeepsSound ==
  ASSUME NEW s \in Request, Sound(s),
         s.step \in AtWork =>
           /\ ServerOf(s)' # Cold
           /\ \A k \in PartIds : ServerOf(s)[k] \subseteq ServerOf(s)'[k]
  PROVE  Sound(s)'
  BY DEF Sound, AtWork, ServerOf

(* A step that leaves the servers alone disturbs no other request.         *)
LEMMA QuietSound ==
  ASSUME RuntimeTypeOK, \A q \in Procs : Sound(req[q]),
         NEW p \in Procs, NEW r \in Request, Goto(p, r), Sound(r),
         UNCHANGED servers
  PROVE  req' \in [Procs -> Request] /\ \A q \in Procs : Sound(req[q])'
  <1>1. \A s \in Request : Sound(s) => Sound(s)'
    BY DEF Sound, ServerOf
  <1> QED  BY <1>1, RequestsSound

(* Requests stay in turn when one of them goes on, or ends.                *)
LEMMA KeepsTurn ==
  ASSUME RuntimeInv, NEW p \in Procs, NEW r \in Request, Goto(p, r),
         UNCHANGED <<saved, acked, crossed>>,
         \/ r.change = NoChange
         \/ /\ r.change = req[p].change /\ r.instance = req[p].instance
            /\ r.origin = req[p].origin,
         r.step \in {"marshal", "save"} /\ Mutating(p) /\ InTurn
           => acked \subseteq r.base,
         \A i \in Instances, o \in Origins :
           Contains(saved, acked) /\ Contains(servers[i][o], acked)
             => Contains(servers[i][o], acked)'
  PROVE  (crossed \/ InTurn)'
  <1> SUFFICES ASSUME InTurn PROVE InTurn'
    BY DEF RuntimeInv
  <1>1. /\ req' = [req EXCEPT ![p] = r] /\ req \in [Procs -> Request]
        /\ saved' = saved /\ acked' = acked
    BY DEF Goto, RuntimeInv, RuntimeTypeOK
  <1>2. req'[p] = r /\ \A q \in Procs : q # p => req'[q] = req[q]
    BY <1>1
  <1>3. \A q \in Procs : Mutating(q)' => Mutating(q)
    BY <1>2 DEF Mutating
  <1>4. Contains(saved, acked)'
    BY <1>1 DEF InTurn, Contains
  <1>5. ASSUME NEW q \in Procs, Mutating(q)'
        PROVE  /\ Contains(Server(q), acked)'
               /\ req'[q].step \in {"marshal", "save"} => acked' \subseteq req'[q].base
    <2>1. Mutating(q) /\ Contains(Server(q), acked)
      BY <1>3, <1>5 DEF InTurn
    <2>2. req'[q].instance = req[q].instance /\ req'[q].origin = req[q].origin
      BY <1>2, <1>5 DEF Mutating
    <2>3. req[q].instance \in Instances /\ req[q].origin \in Origins
      BY <1>1 DEF Request
    <2>4. Contains(Server(q), acked)'
      BY <2>1, <2>2, <2>3 DEF InTurn, Server, Contains
    <2>5. req'[q].step \in {"marshal", "save"} => acked' \subseteq req'[q].base
      <3>1. CASE q = p
        BY <1>1, <1>2, <2>1, <3>1
      <3>2. CASE q # p
        BY <1>1, <1>2, <2>1, <3>2 DEF InTurn
      <3> QED  BY <3>1, <3>2
    <2> QED  BY <2>4, <2>5
  <1> QED  BY <1>3, <1>4, <1>5 DEF InTurn

(* The same for a step that changes only the locals of a request.          *)
LEMMA LocalStep ==
  ASSUME RuntimeInv, NEW p \in Procs, NEW r \in Request, Goto(p, r), Sound(r),
         UNCHANGED <<servers, saved, made, stops, acked, crossed>>,
         \/ r.change = NoChange
         \/ /\ r.change = req[p].change /\ r.instance = req[p].instance
            /\ r.origin = req[p].origin,
         r.step \in {"marshal", "save"} /\ Mutating(p) /\ InTurn
           => acked \subseteq r.base,
         r.step \in AtWork => ServerOf(r) # Cold
  PROVE  RuntimeInv'
  <1>1. req' \in [Procs -> Request] /\ \A q \in Procs : Sound(req[q])'
    BY QuietSound DEF RuntimeInv
  <1>2. (crossed \/ InTurn)'
    BY KeepsTurn DEF Contains
  <1>3. RuntimeTypeOK'
    <2>1. \A q \in Procs : req'[q].step \in AtWork => Server(q)' # Cold
      BY <1>1 DEF Sound, Server, ServerOf
    <2> QED  BY <1>1, <2>1 DEF RuntimeInv, RuntimeTypeOK, AtWork
  <1> QED  BY <1>1, <1>2, <1>3 DEF RuntimeInv

-----------------------------------------------------------------------------
(* The steps.                                                              *)

LEMMA EndsInvariant ==
  ASSUME RuntimeInv, NEW p \in Procs, Goto(p, Idle),
         UNCHANGED <<servers, saved, made, stops, acked, crossed>>
  PROVE  RuntimeInv'
  <1>1. PICK r \in Request : r = Idle /\ Sound(r)
    BY IdleFacts
  <1>2. r.step = "idle" /\ r.change = NoChange
    BY <1>1, IdleFacts
  <1> QED  BY <1>1, <1>2, LocalStep DEF AtWork

LEMMA ArriveInvariant ==
  ASSUME RuntimeInv, NEW p \in Procs, NEW i \in Instances, NEW o \in Origins,
         NEW c \in Changes \cup {NoChange}, Arrive(p, i, o, c)
  PROVE  RuntimeInv'
  <1>1. PICK t \in SUBSET PartIds : t = IF c = NoChange THEN {} ELSE PartIds
    OBVIOUS
  <1>2. PICK r : r = [Idle EXCEPT !.step = "serve", !.instance = i,
                        !.origin = o, !.change = c, !.todo = t]
    OBVIOUS
  <1>3. r \in Request
    BY <1>1, <1>2, IdleFacts DEF Request, Steps
  <1>4. /\ r.step = "serve" /\ r.instance = i /\ r.origin = o /\ r.change = c
        /\ r.part = 0 /\ r.todo = t
    BY <1>2, IdleFacts DEF Request
  <1>5. Sound(r)
    BY <1>1, <1>4 DEF Sound, AtWork
  <1>6. /\ Goto(p, r)
        /\ UNCHANGED <<servers, saved, stops, acked>>
        /\ made' = made \cup ({c} \ {NoChange})
        /\ crossed' = \/ crossed
                      \/ c # NoChange /\ \/ \E q \in Procs : Mutating(q)
                                         \/ ~Contains(servers[i][o], acked)
    BY <1>1, <1>2 DEF Arrive
  <1>7. req' \in [Procs -> Request] /\ \A q \in Procs : Sound(req[q])'
    BY <1>3, <1>5, <1>6, QuietSound DEF RuntimeInv
  <1>8. RuntimeTypeOK'
    <2>1. \A q \in Procs : req'[q].step \in AtWork => Server(q)' # Cold
      BY <1>7 DEF Sound, Server, ServerOf
    <2>2. made' \subseteq Changes
      BY <1>6 DEF RuntimeInv, RuntimeTypeOK
    <2>3. crossed' \in BOOLEAN
      BY <1>6 DEF RuntimeInv, RuntimeTypeOK
    <2> QED  BY <1>6, <1>7, <2>1, <2>2, <2>3 DEF RuntimeInv, RuntimeTypeOK, AtWork
  <1>9. (crossed \/ InTurn)'
    <2> SUFFICES ASSUME ~crossed' PROVE InTurn'
      OBVIOUS
    <2>1. InTurn
      BY <1>6 DEF RuntimeInv
    <2>2. req'[p] = r /\ \A q \in Procs : q # p => req'[q] = req[q]
      BY <1>6 DEF Goto, RuntimeInv, RuntimeTypeOK
    <2>3. Contains(saved, acked)'
      BY <1>6, <2>1 DEF InTurn, Contains
    <2>4. CASE c = NoChange
      <3>1. \A q \in Procs : Mutating(q)' => q # p /\ Mutating(q)
        BY <1>4, <2>2, <2>4 DEF Mutating
      <3>2. ASSUME NEW q \in Procs, Mutating(q)'
            PROVE  /\ Contains(Server(q), acked)'
                   /\ req'[q].step \in {"marshal", "save"}
                        => acked' \subseteq req'[q].base
        <4>1. req'[q] = req[q] /\ Mutating(q)
          BY <2>2, <3>1, <3>2
        <4> QED  BY <1>6, <2>1, <4>1 DEF InTurn, Server, Contains
      <3> QED  BY <2>1, <2>3, <3>1, <3>2 DEF InTurn
    <2>5. CASE c # NoChange
      <3>1. (\A q \in Procs : ~Mutating(q)) /\ Contains(servers[i][o], acked)
        BY <1>6, <2>5
      <3>2. \A q \in Procs : Mutating(q)' => q = p
        BY <2>2, <3>1 DEF Mutating
      <3>3. Contains(Server(p), acked)'
        BY <1>4, <1>6, <2>2, <3>1 DEF Server, Contains
      <3> QED  BY <1>4, <2>2, <2>3, <3>2, <3>3 DEF InTurn
    <2> QED  BY <2>4, <2>5
  <1> QED  BY <1>7, <1>8, <1>9 DEF RuntimeInv

(* A step of p that replaces the state of its own server by one that is    *)
(* warm and keeps what a warm server had; a cold one starts from saved.    *)
LEMMA ServerStep ==
  ASSUME RuntimeInv, NEW p \in Procs, NEW r \in Request, Goto(p, r),
         NEW st \in Store,
         servers' = [servers EXCEPT ![req[p].instance][req[p].origin] = st],
         UNCHANGED <<saved, made, stops, acked, crossed>>,
         \/ Server(p) = Cold /\ st = saved
         \/ Server(p) # Cold /\ \A k \in PartIds : Server(p)[k] \subseteq st[k],
         \/ r.change = NoChange
         \/ /\ r.change = req[p].change /\ r.instance = req[p].instance
            /\ r.origin = req[p].origin,
         r.step \notin {"marshal", "save"}, Sound(r)'
  PROVE  RuntimeInv'
  <1>1. /\ servers \in [Instances -> [Origins -> Store \cup {Cold}]]
        /\ req[p].instance \in Instances /\ req[p].origin \in Origins
    BY DEF RuntimeInv, RuntimeTypeOK, Request
  <1>2. /\ servers' \in [Instances -> [Origins -> Store \cup {Cold}]]
        /\ servers'[req[p].instance][req[p].origin] = st
        /\ \A i \in Instances, o \in Origins :
             i # req[p].instance \/ o # req[p].origin
               => servers'[i][o] = servers[i][o]
    BY <1>1
  <1>3. st # Cold /\ Server(p) = servers[req[p].instance][req[p].origin]
    BY StoreFacts DEF Server
  <1>4. ASSUME NEW i \in Instances, NEW o \in Origins, servers[i][o] # Cold
        PROVE  /\ servers'[i][o] # Cold
               /\ \A k \in PartIds : servers[i][o][k] \subseteq servers'[i][o][k]
    BY <1>2, <1>3, <1>4
  <1>5. ASSUME NEW s \in Request, Sound(s) PROVE Sound(s)'
    <2>1. s.instance \in Instances /\ s.origin \in Origins
      BY DEF Request
    <2>2. s.step \in AtWork =>
            /\ ServerOf(s)' # Cold
            /\ \A k \in PartIds : ServerOf(s)[k] \subseteq ServerOf(s)'[k]
      BY <1>4, <1>5, <2>1 DEF ServerOf, Sound
    <2> QED  BY <1>5, <2>2, KeepsSound
  <1>6. req' \in [Procs -> Request] /\ \A q \in Procs : Sound(req[q])'
    BY <1>5, RequestsSound DEF RuntimeInv
  <1>7. RuntimeTypeOK'
    <2>1. \A q \in Procs : req'[q].step \in AtWork => Server(q)' # Cold
      BY <1>6 DEF Sound, Server, ServerOf
    <2> QED  BY <1>2, <1>6, <2>1 DEF RuntimeInv, RuntimeTypeOK, AtWork
  <1>8. (crossed \/ InTurn)'
    <2>1. ASSUME NEW i \in Instances, NEW o \in Origins,
                 Contains(saved, acked), Contains(servers[i][o], acked)
          PROVE  Contains(servers[i][o], acked)'
      <3>1. CASE servers[i][o] = Cold
        <4>1. servers'[i][o] \in {Cold, saved}
          BY <1>2, <1>3, <3>1
        <4>2. Contains(Cold, acked)
          BY StoreFacts
        <4> QED  BY <2>1, <4>1, <4>2 DEF Contains
      <3>2. CASE servers[i][o] # Cold
        <4>1. servers[i][o] \in Store /\ servers'[i][o] \in Store
          BY <1>1, <1>2, <1>4, <3>2
        <4>2. \A k \in PartIds : acked \subseteq servers[i][o][k]
          BY <2>1, <4>1, StoreFacts
        <4>3. \A k \in PartIds : acked \subseteq servers'[i][o][k]
          BY <1>4, <3>2, <4>2
        <4>4. DOMAIN servers'[i][o] = PartIds
          BY <4>1, StoreFacts
        <4> QED  BY <4>3, <4>4 DEF Contains
      <3> QED  BY <3>1, <3>2
    <2> QED  BY <2>1, KeepsTurn
  <1> QED  BY <1>6, <1>7, <1>8 DEF RuntimeInv

LEMMA serverForInvariant ==
  ASSUME RuntimeInv, NEW p \in Procs, serverFor(p)
  PROVE  RuntimeInv'
  <1>1. PICK o \in Request : o = req[p] /\ Sound(o)
    BY DEF RuntimeInv, RuntimeTypeOK
  <1>2. PICK st : st = Served(Server(p))
    OBVIOUS
  <1>3. /\ Server(p) \in Store \cup {Cold} /\ saved \in Store
        /\ servers[o.instance][o.origin] = Server(p)
        /\ o.instance \in Instances /\ o.origin \in Origins
    BY <1>1 DEF RuntimeInv, RuntimeTypeOK, Server, Request
  <1>4. st \in Store
    BY <1>2, <1>3 DEF Served
  <1>5. servers' = [servers EXCEPT ![o.instance][o.origin] = st]
    BY <1>1, <1>2, <1>3 DEF serverFor
  <1>6. \/ Server(p) = Cold /\ st = saved
        \/ Server(p) # Cold /\ \A k \in PartIds : Server(p)[k] \subseteq st[k]
    BY <1>2 DEF Served
  <1>7. PICK r : r = IF Mutating(p) THEN [o EXCEPT !.step = "handle"] ELSE Idle
    OBVIOUS
  <1>8. Goto(p, r) /\ o.step = "serve"
    BY <1>1, <1>7 DEF serverFor
  <1>9. CASE Mutating(p)
    <2>1. r = [o EXCEPT !.step = "handle"]
      BY <1>7, <1>9, PartAssumption
    <2>2. r \in Request
      BY <2>1 DEF Request, Steps
    <2>3. /\ r.step = "handle" /\ r.change = o.change /\ r.part = o.part
          /\ r.instance = o.instance /\ r.origin = o.origin
          /\ r.todo = o.todo
      BY <2>1 DEF Request
    <2>4. servers'[r.instance][r.origin] = st
      BY <1>3, <1>5, <2>3 DEF RuntimeInv, RuntimeTypeOK
    <2>5. o.todo = PartIds
      BY <1>1, <1>8, <1>9 DEF Sound, Mutating
    <2>6. Sound(r)'
      BY <1>4, <1>8, <1>9, <2>3, <2>4, <2>5, StoreFacts, <1>1
      DEF Sound, ServerOf, Mutating, AtWork
    <2> QED
      BY <1>1, <1>4, <1>5, <1>6, <1>8, <2>2, <2>3, <2>6, ServerStep
      DEF serverFor
  <1>10. CASE ~Mutating(p)
    <2>1. /\ r \in Request /\ r.step = "idle" /\ r.change = NoChange
      BY <1>7, <1>10, IdleFacts
    <2>2. Sound(r)'
      BY <2>1 DEF Sound, AtWork
    <2> QED
      BY <1>1, <1>4, <1>5, <1>6, <1>8, <2>1, <2>2, ServerStep DEF serverFor
  <1> QED  BY <1>9, <1>10

LEMMA ChangePartInvariant ==
  ASSUME RuntimeInv, NEW p \in Procs, NEW i \in PartIds, ChangePart(p, i)
  PROVE  RuntimeInv'
  <1>1. PICK o \in Request : o = req[p] /\ Sound(o)
    BY DEF RuntimeInv, RuntimeTypeOK
  <1>2. o.step = "handle" /\ i \in o.todo
    BY <1>1 DEF ChangePart
  <1>3. /\ Server(p) # Cold /\ o.change # NoChange
        /\ ServerOf(o) = Server(p)
        /\ o.instance \in Instances /\ o.origin \in Origins
    BY <1>1, <1>2 DEF Sound, AtWork, ServerOf, Server, Request
  <1>4. Server(p) \in Store /\ o.change \in Changes
    BY <1>1, <1>3 DEF RuntimeInv, RuntimeTypeOK, Request, Server
  <1>5. PICK st : st = [Server(p) EXCEPT ![i] = @ \cup {o.change}]
    OBVIOUS
  <1>6. /\ st \in Store
        /\ \A k \in PartIds : Server(p)[k] \subseteq st[k]
        /\ o.change \in st[i]
    BY <1>4, <1>5 DEF Store
  <1>7. servers' = [servers EXCEPT ![o.instance][o.origin] = st]
    BY <1>1, <1>3, <1>5 DEF ChangePart, Server
  <1>8. servers'[o.instance][o.origin] = st
    BY <1>3, <1>7 DEF RuntimeInv, RuntimeTypeOK
  <1>9. PICK r : r = [o EXCEPT !.todo = o.todo \ {i}]
    OBVIOUS
  <1>10. r \in Request
    BY <1>9 DEF Request
  <1>11. /\ r.step = "handle" /\ r.change = o.change /\ r.part = o.part
         /\ r.instance = o.instance /\ r.origin = o.origin
         /\ r.todo = o.todo \ {i}
    BY <1>2, <1>9 DEF Request
  <1>12. \A k \in PartIds \ r.todo : r.change \in st[k]
    BY <1>1, <1>2, <1>3, <1>6, <1>11 DEF Sound
  <1>13. Sound(r)'
    <2>1. r.part = 0
      BY <1>1, <1>2, <1>11 DEF Sound
    <2> QED  BY <1>3, <1>6, <1>8, <1>11, <1>12, <2>1, StoreFacts
             DEF Sound, ServerOf, AtWork
  <1>14. Goto(p, r)
    <2>1. [o EXCEPT !.todo = @ \ {i}] = r
      BY <1>9
    <2> QED  BY <1>1, <2>1 DEF ChangePart
  <1> QED
    BY <1>1, <1>3, <1>6, <1>7, <1>10, <1>11, <1>13, <1>14, ServerStep
    DEF ChangePart

LEMMA HandlerEndsInvariant ==
  ASSUME RuntimeInv, NEW p \in Procs, HandlerEnds(p)
  PROVE  RuntimeInv'
  <1>1. PICK o \in Request : o = req[p] /\ Sound(o)
    BY DEF RuntimeInv, RuntimeTypeOK
  <1>2. o.step = "handle" /\ o.todo = {} /\ o.part = 0
    BY <1>1 DEF HandlerEnds, HandlerDone, Sound
  <1>3. ServerOf(o) = Server(p) /\ Server(p) \in Store /\ o.change # NoChange
    BY <1>1, <1>2 DEF Sound, AtWork, ServerOf, Server, Request, RuntimeInv, RuntimeTypeOK
  <1>4. PICK B : B = {c \in acked : Contains(Server(p), {c})}
    OBVIOUS
  <1>5. B \subseteq Changes /\ \A k \in PartIds : B \subseteq Server(p)[k]
    <2>1. \A c \in B : \A k \in PartIds : {c} \subseteq Server(p)[k]
      BY <1>3, <1>4, StoreFacts
    <2> QED  BY <1>4, <2>1 DEF RuntimeInv, RuntimeTypeOK
  <1>6. PICK r : r = [o EXCEPT !.step = "marshal", !.base = B]
    OBVIOUS
  <1>7. r \in Request
    BY <1>5, <1>6 DEF Request, Steps
  <1>8. /\ r.step = "marshal" /\ r.base = B /\ r.part = 0
        /\ r.change = o.change /\ r.instance = o.instance
        /\ r.origin = o.origin
    BY <1>2, <1>6 DEF Request
  <1>9. ServerOf(r) = Server(p)
    BY <1>3, <1>8 DEF ServerOf
  <1>10. Sound(r)
    <2>1. \A k \in PartIds : r.base \cup {r.change} \subseteq ServerOf(r)[k]
      BY <1>1, <1>2, <1>3, <1>5, <1>8, <1>9 DEF Sound
    <2> QED  BY <1>3, <1>8, <1>9, <2>1, StoreFacts, PartAssumption DEF Sound
  <1>11. Goto(p, r)
    BY <1>1, <1>4, <1>6 DEF HandlerEnds
  <1>12. Mutating(p) /\ InTurn => acked \subseteq r.base
    <2> SUFFICES ASSUME Mutating(p), InTurn, NEW c \in acked PROVE c \in B
      BY <1>8
    <2>1. \A k \in PartIds : acked \subseteq Server(p)[k]
      BY <1>3, StoreFacts DEF InTurn
    <2>2. Contains(Server(p), {c})
      BY <1>3, <2>1, StoreFacts
    <2> QED  BY <1>4, <2>2
  <1> QED
    BY <1>1, <1>3, <1>7, <1>8, <1>9, <1>10, <1>11, <1>12, StoreFacts, LocalStep
    DEF HandlerEnds

LEMMA MarshalInvariant ==
  ASSUME RuntimeInv, NEW p \in Procs, marshalPersistentSnapshot(p)
  PROVE  RuntimeInv'
  <1>1. PICK o \in Request : o = req[p] /\ Sound(o)
    BY DEF RuntimeInv, RuntimeTypeOK
  <1>2. o.step = "marshal" /\ o.part \in Nat /\ o.part < Parts
    BY <1>1 DEF marshalPersistentSnapshot, Sound, Request
  <1>3. PICK i \in PartIds : i = o.part + 1
    BY <1>2, PartAssumption DEF PartIds
  <1>4. ServerOf(o) = Server(p) /\ Server(p) \in Store /\ o.change # NoChange
    BY <1>1, <1>2 DEF Sound, AtWork, ServerOf, Server, Request, RuntimeInv, RuntimeTypeOK
  <1>5. PICK sn : sn = [o.snapshot EXCEPT ![i] = Server(p)[i]]
    OBVIOUS
  <1>6. /\ sn \in Store /\ sn[i] = Server(p)[i]
        /\ \A k \in PartIds : k # i => sn[k] = o.snapshot[k]
    BY <1>4, <1>5 DEF Store, Request
  <1>7. PICK s \in Steps : s = IF i = Parts THEN "save" ELSE "marshal"
    BY DEF Steps
  <1>8. PICK r : r = [o EXCEPT !.part = i, !.snapshot = sn, !.step = s]
    OBVIOUS
  <1>9. i \in 0..Parts
    BY PartAssumption DEF PartIds
  <1>10. r \in Request
    BY <1>6, <1>7, <1>8, <1>9 DEF Request
  <1>11. /\ r.step = s /\ r.base = o.base /\ r.part = i /\ r.snapshot = sn
         /\ r.change = o.change /\ r.instance = o.instance
         /\ r.origin = o.origin
    BY <1>8 DEF Request
  <1>12. ServerOf(r) = Server(p)
    BY <1>4, <1>11 DEF ServerOf
  <1>13. Sound(r)
    <2>1. \A k \in PartIds : r.base \cup {r.change} \subseteq ServerOf(r)[k]
      BY <1>1, <1>2, <1>4, <1>11, <1>12 DEF Sound
    <2>2. ASSUME NEW k \in 1..r.part
          PROVE  r.base \cup {r.change} \subseteq r.snapshot[k]
      <3>1. k \in PartIds
        BY <1>9, <1>11, PartAssumption DEF PartIds
      <3>2. CASE k = i
        BY <1>6, <1>11, <1>12, <2>1, <3>2
      <3>3. CASE k # i
        <4>1. k \in 1..o.part
          BY <1>2, <1>3, <1>11, <3>3
        <4> QED  BY <1>1, <1>2, <1>6, <1>11, <3>1, <3>3, <4>1 DEF Sound
      <3> QED  BY <3>2, <3>3
    <2>3. (s = "marshal" => i < Parts) /\ (s = "save" => i = Parts)
      BY <1>7, <1>9, PartAssumption
    <2>4. s \in {"marshal", "save"} /\ ServerOf(r) # Cold
      BY <1>4, <1>7, <1>12, StoreFacts
    <2> QED  BY <1>4, <1>11, <2>1, <2>2, <2>3, <2>4 DEF Sound
  <1>14. Goto(p, r)
    <2>1. [o EXCEPT !.part = i, !.snapshot[i] = Server(p)[i],
                    !.step = IF i = Parts THEN "save" ELSE @] = r
      BY <1>2, <1>5, <1>7, <1>8 DEF Request
    <2> QED  BY <1>1, <1>3, <2>1 DEF marshalPersistentSnapshot
  <1>15. Mutating(p) /\ InTurn => acked \subseteq r.base
    BY <1>1, <1>2, <1>11 DEF InTurn
  <1> QED
    BY <1>1, <1>4, <1>10, <1>11, <1>12, <1>13, <1>14, <1>15, StoreFacts, LocalStep
    DEF marshalPersistentSnapshot

LEMMA SaveInvariant ==
  ASSUME RuntimeInv, NEW p \in Procs, NEW stored \in BOOLEAN, Save(p, stored)
  PROVE  RuntimeInv'
  <1>1. PICK o \in Request : o = req[p] /\ Sound(o)
    BY DEF RuntimeInv, RuntimeTypeOK
  <1>2. o.step = "save" /\ o.change # NoChange
    BY <1>1 DEF Save, Sound, AtWork
  <1>3. CASE ~stored
    <2>1. UNCHANGED <<servers, saved, made, stops, acked, crossed>>
      BY <1>3 DEF Save, Successful
    <2> QED  BY <2>1, EndsInvariant DEF Save
  <1>4. CASE stored
    <2>1. /\ saved' = o.snapshot /\ acked' = acked \cup {o.change}
          /\ UNCHANGED <<servers, made, stops, crossed>>
      BY <1>1, <1>4 DEF Save, Successful
    <2>2. PICK r \in Request : r = Idle /\ Sound(r)
      BY IdleFacts
    <2>3. Goto(p, r) /\ r.change = NoChange
      BY <2>2, IdleFacts DEF Save
    <2>4. req' \in [Procs -> Request] /\ \A q \in Procs : Sound(req[q])'
      BY <2>1, <2>2, <2>3, QuietSound DEF RuntimeInv
    <2>5. RuntimeTypeOK'
      <3>1. \A q \in Procs : req'[q].step \in AtWork => Server(q)' # Cold
        BY <2>4 DEF Sound, Server, ServerOf
      <3>2. saved' \in Store /\ acked' \subseteq Changes
        BY <1>2, <2>1 DEF Request, RuntimeInv, RuntimeTypeOK
      <3> QED  BY <2>1, <2>4, <3>1, <3>2 DEF RuntimeInv, RuntimeTypeOK, AtWork
    <2>6. ASSUME InTurn PROVE InTurn'
      <3>1. req'[p] = r /\ \A q \in Procs : q # p => req'[q] = req[q]
        BY <2>3 DEF Goto, RuntimeInv, RuntimeTypeOK
      <3>2. \A q \in Procs : ~Mutating(q)'
        BY <1>1, <1>2, <2>3, <2>6, <3>1 DEF Mutating, InTurn
      <3>3. acked \subseteq o.base
        BY <1>1, <1>2, <2>6 DEF InTurn, Mutating
      <3>4. \A k \in PartIds : o.base \cup {o.change} \subseteq o.snapshot[k]
        BY <1>1, <1>2 DEF Sound, PartIds
      <3>5. \A k \in PartIds : acked' \subseteq saved'[k]
        BY <2>1, <3>3, <3>4
      <3>6. Contains(saved, acked)'
        BY <2>1, <3>5, StoreFacts DEF Request, Contains
      <3> QED  BY <3>2, <3>6 DEF InTurn
    <2> QED  BY <2>1, <2>4, <2>5, <2>6 DEF RuntimeInv
  <1> QED  BY <1>3, <1>4

LEMMA StopInvariant ==
  ASSUME RuntimeInv, NEW i \in Instances, Stop(i)
  PROVE  RuntimeInv'
  <1>1. /\ servers' = [servers EXCEPT ![i] = [o \in Origins |-> Cold]]
        /\ req' = [p \in Procs |-> IF req[p].instance = i THEN Idle ELSE req[p]]
        /\ stops' = stops + 1
        /\ UNCHANGED <<saved, made, acked, crossed>>
    BY DEF Stop
  <1>2. /\ servers' \in [Instances -> [Origins -> Store \cup {Cold}]]
        /\ \A j \in Instances : j # i => servers'[j] = servers[j]
    BY <1>1 DEF RuntimeInv, RuntimeTypeOK
  <1>3. req' \in [Procs -> Request]
    BY <1>1, IdleFacts DEF RuntimeInv, RuntimeTypeOK
  <1>4. ASSUME NEW q \in Procs
        PROVE  \/ req'[q] = Idle
               \/ /\ req'[q] = req[q] /\ req[q].instance \in Instances \ {i}
                  /\ servers'[req[q].instance] = servers[req[q].instance]
    BY <1>1, <1>2 DEF RuntimeInv, RuntimeTypeOK, Request
  <1>5. ASSUME NEW q \in Procs PROVE Sound(req[q])'
    <2>1. CASE req'[q] = Idle
      BY <2>1, IdleFacts DEF Sound, AtWork
    <2>2. CASE /\ req'[q] = req[q]
               /\ servers'[req[q].instance] = servers[req[q].instance]
      <3>1. Sound(req[q])
        BY DEF RuntimeInv
      <3> QED  BY <2>2, <3>1 DEF Sound, ServerOf
    <2> QED  BY <1>4, <2>1, <2>2
  <1>6. RuntimeTypeOK'
    <2>1. \A q \in Procs : req'[q].step \in AtWork => Server(q)' # Cold
      BY <1>5 DEF Sound, Server, ServerOf
    <2>2. stops' \in Nat
      BY <1>1 DEF RuntimeInv, RuntimeTypeOK
    <2> QED  BY <1>1, <1>2, <1>3, <2>1, <2>2 DEF RuntimeInv, RuntimeTypeOK, AtWork
  <1>7. ASSUME InTurn PROVE InTurn'
    <2>1. ASSUME NEW q \in Procs, Mutating(q)'
          PROVE  /\ Mutating(q) /\ req'[q] = req[q]
                 /\ servers'[req[q].instance] = servers[req[q].instance]
      BY <1>4, <2>1, IdleFacts DEF Mutating
    <2>2. Contains(saved, acked)'
      BY <1>1, <1>7 DEF InTurn, Contains
    <2>3. ASSUME NEW q \in Procs, Mutating(q)'
          PROVE  /\ Contains(Server(q), acked)'
                 /\ req'[q].step \in {"marshal", "save"}
                      => acked' \subseteq req'[q].base
      BY <1>1, <1>7, <2>1, <2>3 DEF InTurn, Server, Contains
    <2> QED  BY <1>7, <2>1, <2>2, <2>3 DEF InTurn
  <1> QED  BY <1>1, <1>5, <1>6, <1>7 DEF RuntimeInv

-----------------------------------------------------------------------------
(* The invariant, and what it says of every behaviour.                     *)

LEMMA RuntimeInitInvariant == RuntimeInit => RuntimeInv
  <1> SUFFICES ASSUME RuntimeInit PROVE RuntimeInv
    OBVIOUS
  <1>1. \A q \in Procs : req[q] = Idle
    BY DEF RuntimeInit
  <1>2. RuntimeTypeOK
    BY <1>1, IdleFacts, StoreFacts DEF RuntimeInit, RuntimeTypeOK
  <1>3. \A q \in Procs : Sound(req[q])
    BY <1>1, IdleFacts
  <1>4. InTurn
    <2>1. \A q \in Procs : ~Mutating(q)
      BY <1>1, IdleFacts DEF Mutating
    <2>2. Contains(saved, acked)
      BY DEF RuntimeInit, Contains
    <2> QED  BY <2>1, <2>2 DEF InTurn
  <1> QED  BY <1>2, <1>3, <1>4 DEF RuntimeInv

LEMMA StutterInvariant ==
  ASSUME RuntimeInv, UNCHANGED runtimeVars
  PROVE  RuntimeInv'
  <1>1. UNCHANGED <<servers, saved, req, made, stops, acked, crossed>>
    BY DEF runtimeVars
  <1>2. \A q \in Procs : Sound(req[q])'
    <2> SUFFICES ASSUME NEW q \in Procs PROVE Sound(req[q])'
      OBVIOUS
    <2>1. Sound(req[q])
      BY DEF RuntimeInv
    <2> QED  BY <1>1, <2>1 DEF Sound, ServerOf
  <1>3. InTurn => InTurn'
    BY <1>1 DEF InTurn, Contains, Mutating, Server
  <1> QED  BY <1>1, <1>2, <1>3 DEF RuntimeInv, RuntimeTypeOK, Server

LEMMA StepInvariant == RuntimeInv /\ [RuntimeNext]_runtimeVars => RuntimeInv'
  <1> SUFFICES ASSUME RuntimeInv, [RuntimeNext]_runtimeVars PROVE RuntimeInv'
    OBVIOUS
  <1>1. CASE UNCHANGED runtimeVars
    BY <1>1, StutterInvariant
  <1>2. ASSUME NEW p \in Procs, LoadFails(p) \/ HandlerFails(p) PROVE RuntimeInv'
    BY <1>2, EndsInvariant DEF LoadFails, HandlerFails
  <1> QED
    BY <1>1, <1>2, ArriveInvariant, serverForInvariant, ChangePartInvariant,
       HandlerEndsInvariant, MarshalInvariant, SaveInvariant, StopInvariant
    DEF RuntimeNext

(* What the theorems below rest on holds in every reachable state: types,   *)
(* and what each request, server and saved snapshot cover.                 *)
THEOREM RuntimeInvariant == RuntimeSpec => []RuntimeInv
  BY RuntimeInitInvariant, StepInvariant, PTL DEF RuntimeSpec

(* The variables keep their types, and a request at work a warm server.    *)
THEOREM RuntimeTypeCorrect == RuntimeSpec => []RuntimeTypeOK
  <1>1. RuntimeInv => RuntimeTypeOK
    BY DEF RuntimeInv
  <1> QED  BY <1>1, RuntimeInvariant, PTL

(* A snapshot about to be saved has the request's own change and all that  *)
(* its server had acknowledged when the marshalling began.                 *)
THEOREM SnapshotsCover == RuntimeSpec => []SnapshotCoversAcked
  <1>1. RuntimeInv => SnapshotCoversAcked
    <2> SUFFICES ASSUME RuntimeInv, NEW p \in Procs, req[p].step = "save"
                 PROVE  Contains(req[p].snapshot, req[p].base \cup {req[p].change})
      BY DEF SnapshotCoversAcked
    <2>1. req[p] \in Request /\ Sound(req[p])
      BY DEF RuntimeInv, RuntimeTypeOK
    <2>2. \A k \in PartIds : req[p].base \cup {req[p].change}
                               \subseteq req[p].snapshot[k]
      BY <2>1 DEF Sound, PartIds
    <2> QED  BY <2>1, <2>2, StoreFacts DEF Request
  <1> QED  BY <1>1, RuntimeInvariant, PTL

(* What was answered with success is in the saved snapshot, whatever       *)
(* stops or fails, as long as mutating requests come in turn.              *)
THEOREM AckedIsDurableInTurn == RuntimeSpec => []AckedSurvivesInTurn
  <1>1. RuntimeInv => AckedSurvivesInTurn
    BY DEF RuntimeInv, InTurn, AckedSurvivesInTurn
  <1> QED  BY <1>1, RuntimeInvariant, PTL

(* A step leaves a warm server warm, with all it had, or stops it.         *)
THEOREM WarmServersKeep == RuntimeSpec => WarmStateKept
  <1> DEFINE Kept == \A i \in Instances, o \in Origins :
       servers[i][o] # Cold /\ servers'[i][o] # Cold
         => \A k \in PartIds : servers[i][o][k] \subseteq servers'[i][o][k]
  <1>1. ASSUME RuntimeInv, RuntimeNext PROVE Kept
    <2> SUFFICES ASSUME NEW i \in Instances, NEW o \in Origins,
                        servers[i][o] # Cold, servers'[i][o] # Cold,
                        NEW k \in PartIds
                 PROVE  servers[i][o][k] \subseteq servers'[i][o][k]
      OBVIOUS
    <2>1. servers \in [Instances -> [Origins -> Store \cup {Cold}]]
      BY <1>1 DEF RuntimeInv, RuntimeTypeOK
    <2>2. servers[i][o] \in Store
      BY <2>1
    <2>3. CASE UNCHANGED servers
      BY <2>3
    <2>4. ASSUME NEW p \in Procs, serverFor(p)
          PROVE  servers'[i][o] = servers[i][o]
      <3>1. servers' = [servers EXCEPT ![req[p].instance][req[p].origin] =
                                         Served(@)]
        BY <2>4 DEF serverFor
      <3> QED  BY <2>1, <3>1 DEF Served
    <2>5. ASSUME NEW p \in Procs, NEW j \in PartIds, ChangePart(p, j)
          PROVE  servers[i][o][k] \subseteq servers'[i][o][k]
      <3>1. servers' = [servers EXCEPT ![req[p].instance][req[p].origin][j] =
                                         @ \cup {req[p].change}]
        BY <2>5 DEF ChangePart
      <3>2. CASE i = req[p].instance /\ o = req[p].origin
        <4>1. servers'[i][o] = [servers[i][o] EXCEPT ![j] = @ \cup {req[p].change}]
          BY <2>1, <3>1, <3>2
        <4> QED  BY <2>2, <4>1 DEF Store
      <3>3. CASE ~(i = req[p].instance /\ o = req[p].origin)
        BY <2>1, <3>1, <3>3
      <3> QED  BY <3>2, <3>3
    <2>6. ASSUME NEW j \in Instances, Stop(j)
          PROVE  servers'[i][o] = servers[i][o]
      <3>1. servers' = [servers EXCEPT ![j] = [x \in Origins |-> Cold]]
        BY <2>6 DEF Stop
      <3> QED  BY <2>1, <3>1
    <2>7. \/ UNCHANGED servers
          \/ \E p \in Procs : \/ serverFor(p)
                              \/ \E j \in PartIds : ChangePart(p, j)
          \/ \E j \in Instances : Stop(j)
      BY <1>1 DEF RuntimeNext, Arrive, LoadFails, HandlerFails, HandlerEnds,
                  marshalPersistentSnapshot, Save
    <2> QED  BY <2>3, <2>4, <2>5, <2>6, <2>7
  <1>2. RuntimeInv /\ [RuntimeNext]_runtimeVars => [Kept]_runtimeVars
    BY <1>1
  <1> QED  BY <1>2, RuntimeInvariant, PTL DEF RuntimeSpec, WarmStateKept

=============================================================================
