----------------------------------- MODULE S3 -----------------------------------
(***************************************************************************)
(* The S3 service of internal/services/aws/s3.  An object is kept in two   *)
(* places: a record with its ETag in the collection aws.s3_objects, and    *)
(* its bytes in the asset store (internal/core/assets) under an id made    *)
(* from bucket and key.  A request runs in a goroutine of its own, holds   *)
(* no lock of its own, and is a sequence of atomic calls to these stores.  *)
(*                                                                         *)
(* A body is a model value and its ETag is the body itself; content types, *)
(* metadata, encryption headers and conditional reads are left out.        *)
(***************************************************************************)
EXTENDS Integers, FiniteSets

CONSTANTS Procs,       \* requests that can be in flight together
          Names,       \* bucket names, none of them a pair
          Keys,        \* object keys
          Bodies,      \* object bodies
          NoBody,      \* stands for no body
          Ops,         \* the operations the clients use
          MaxBuckets,  \* bound on bucket records ever inserted
          MaxObjects   \* bound on object records ever inserted

AllOps == {"createBucket", "deleteBucket", "put", "copy", "delete", "get"}

ASSUME OpsAssumption == Ops \subseteq AllOps
ASSUME NameAssumption ==
  Names # {} /\ Keys # {} /\ Names \cap (Names \X Keys) = {}
ASSUME BodyAssumption == NoBody \notin Bodies
ASSUME BoundAssumption == {MaxBuckets, MaxObjects} \subseteq Nat

VARIABLES buckets,     \* aws.s3_buckets: id -> name
          objects,     \* aws.s3_objects: id -> record
          assets,      \* the asset store: place -> body
          nextBucket,  \* automatic id of the next bucket
          nextObject,  \* automatic id of the next object
          req,         \* the requests
          want,        \* bodies had the requests been atomic (history)
          crossed      \* places and buckets whose writers overlapped (history)

vars == <<buckets, objects, assets, nextBucket, nextObject, req, want, crossed>>
stored == <<buckets, objects, assets, nextBucket, nextObject>>

Place == Names \X Keys   \* S3ObjectID, and the bucket and key of a record
Object == [place : Place, etag : Bodies]
Steps == {"idle", "insert", "check", "remove", "source", "read", "asset",
          "find", "store", "lookup", "drop", "body", "fetch"}

(* The locals of a request: its place, the source of a copy, the id of the *)
(* record found (0 for none), and the body it stores or the ETag it read.  *)
Request == [op : AllOps \cup {"none"}, step : Steps, place : Place,
            source : Place, id : Nat, body : Bodies \cup {NoBody}]

SomePlace == CHOOSE x \in Place : TRUE
Idle == [op |-> "none", step |-> "idle", place |-> SomePlace,
         source |-> SomePlace, id |-> 0, body |-> NoBody]
Nothing == [i \in {} |-> 0]

Init ==
  /\ buckets = Nothing /\ objects = Nothing /\ assets = Nothing
  /\ nextBucket = 1 /\ nextObject = 1
  /\ req = [p \in Procs |-> Idle]
  /\ want = [x \in Place |-> NoBody]
  /\ crossed = {}

-----------------------------------------------------------------------------
BucketIds == DOMAIN buckets
ObjectIds == DOMAIN objects
Named(n) == {i \in BucketIds : buckets[i] = n}
In(n) == {i \in ObjectIds : objects[i].place[1] = n}
Records(x) == {i \in ObjectIds : objects[i].place = x}
Least(S) == CHOOSE i \in S : \A j \in S : i <= j

(* findBucket, findObject: the lowest id, 0 for none.                      *)
findObject(x) == IF Records(x) = {} THEN 0 ELSE Least(Records(x))
assetBytes(x) == IF x \in DOMAIN assets THEN assets[x] ELSE NoBody

With(f, i, v) == [j \in DOMAIN f \cup {i} |-> IF j = i THEN v ELSE f[j]]
Without(f, i) == [j \in DOMAIN f \ {i} |-> f[j]]

At(p, step) == req[p].step = step
Goto(p, r) == req' = [req EXCEPT ![p] = r]
Step(p, step) == Goto(p, [req[p] EXCEPT !.step = step])
Finish(p) == Goto(p, Idle)

(* What a request writes: a place, or a bucket when it deletes one.        *)
Writes(r) == IF r.op = "deleteBucket" THEN {r.place[1]}
             ELSE IF r.op \in {"put", "copy", "delete"}
             THEN {r.place, r.place[1]} ELSE {}
Meets(r, s) ==
  {w \in Writes(r) \cap Writes(s) :
     w \in Names => "deleteBucket" \in {r.op, s.op}}

(* Every operation on a bucket starts by finding it.                       *)
Begin(p, op, x, r) ==
  /\ op \in Ops /\ req[p] = Idle /\ Named(x[1]) # {}
  /\ LET new == [r EXCEPT !.op = op, !.place = x]
     IN  /\ Goto(p, new)
         /\ crossed' = crossed \cup UNION {Meets(new, req[q]) : q \in Procs}
  /\ UNCHANGED <<stored, want>>

-----------------------------------------------------------------------------
(* CreateBucket: find, then insert.  DeleteBucket: find, look for objects, *)
(* then delete the record found.                                           *)

CreateBucket(p, x) ==
  /\ "createBucket" \in Ops /\ req[p] = Idle /\ Named(x[1]) = {}
  /\ Goto(p, [Idle EXCEPT !.op = "createBucket", !.step = "insert", !.place = x])
  /\ UNCHANGED <<stored, want, crossed>>

CreateInsert(p) ==
  /\ At(p, "insert") /\ nextBucket <= MaxBuckets
  /\ buckets' = With(buckets, nextBucket, req[p].place[1])
  /\ nextBucket' = nextBucket + 1
  /\ Finish(p)
  /\ UNCHANGED <<objects, assets, nextObject, want, crossed>>

DeleteBucket(p, x) ==
  Begin(p, "deleteBucket", x,
        [Idle EXCEPT !.step = "check", !.id = Least(Named(x[1]))])

DeletableAnyway(n) == TRUE
Deletable(n) == In(n) = {}

DeleteBucketCheck(p) ==
  /\ At(p, "check")
  /\ IF Deletable(req[p].place[1]) THEN Step(p, "remove") ELSE Finish(p)
  /\ UNCHANGED <<stored, want, crossed>>

DeleteBucketRemove(p) ==
  /\ At(p, "remove")
  /\ buckets' = Without(buckets, req[p].id)
  /\ Finish(p)
  /\ UNCHANGED <<objects, assets, nextBucket, nextObject, want, crossed>>

-----------------------------------------------------------------------------
(* PutObject and the browser's POST give a body; CopyObject finds the      *)
(* source's record and reads its bytes.  Then storeObject: the bytes go to *)
(* the asset store, the record is looked up, and updated or inserted.      *)

PutObject(p, x, b) ==
  Begin(p, "put", x, [Idle EXCEPT !.step = "asset", !.body = b])

CopyObject(p, x, source) ==
  Begin(p, "copy", x, [Idle EXCEPT !.step = "source", !.source = source])

CopySource(p) ==
  /\ At(p, "source")
  /\ IF findObject(req[p].source) = 0 THEN Finish(p) ELSE Step(p, "read")
  /\ UNCHANGED <<stored, want, crossed>>

readable(b) == b # NoBody

CopyRead(p) ==
  /\ At(p, "read")
  /\ LET b == assetBytes(req[p].source)
     IN  IF ~readable(b) THEN Finish(p)
         ELSE Goto(p, [req[p] EXCEPT !.step = "asset", !.body = b])
  /\ UNCHANGED <<stored, want, crossed>>

StoreAsset(p) ==
  /\ At(p, "asset")
  /\ assets' = With(assets, req[p].place, req[p].body)
  /\ Step(p, "find")
  /\ UNCHANGED <<buckets, objects, nextBucket, nextObject, want, crossed>>


StoreFind(p) ==
  /\ At(p, "find")
  /\ Goto(p, [req[p] EXCEPT !.step = "store", !.id = findObject(req[p].place)])
  /\ UNCHANGED <<stored, want, crossed>>

StoreRecord(p) ==
  LET r == req[p]  record == [place |-> r.place, etag |-> r.body]
  IN  /\ At(p, "store")
      /\ \/ /\ r.id # 0
            /\ objects' = IF r.id \in ObjectIds THEN With(objects, r.id, record)
                                                ELSE objects
            /\ nextObject' = nextObject
         \/ /\ r.id = 0 /\ nextObject <= MaxObjects
            /\ objects' = With(objects, nextObject, record)
            /\ nextObject' = nextObject + 1
      /\ want' = [want EXCEPT ![r.place] = r.body]
      /\ Finish(p)
      /\ UNCHANGED <<buckets, assets, nextBucket, crossed>>

-----------------------------------------------------------------------------
(* DeleteObject: find the record, delete it, then delete the bytes.        *)

DeleteObject(p, x) == Begin(p, "delete", x, [Idle EXCEPT !.step = "lookup"])

DeleteLookup(p) ==
  /\ At(p, "lookup") /\ req[p].op = "delete"
  /\ LET i == findObject(req[p].place)
     IN  IF i = 0 THEN Finish(p)
         ELSE Goto(p, [req[p] EXCEPT !.step = "drop", !.id = i])
  /\ UNCHANGED <<stored, want, crossed>>

DeleteRecord(p) ==
  /\ At(p, "drop")
  /\ objects' = Without(objects, req[p].id)
  /\ Step(p, "body")
  /\ UNCHANGED <<buckets, assets, nextBucket, nextObject, want, crossed>>

keptAsset(x) == assets
droppedAsset(x) == Without(assets, x)

DeleteAsset(p) ==
  /\ At(p, "body")
  /\ assets' = droppedAsset(req[p].place)
  /\ want' = [want EXCEPT ![req[p].place] = NoBody]
  /\ Finish(p)
  /\ UNCHANGED <<buckets, objects, nextBucket, nextObject, crossed>>

(* GetObject: the record gives the ETag, then the asset store the bytes.   *)
GetObject(p, x) == Begin(p, "get", x, [Idle EXCEPT !.step = "lookup"])

GetLookup(p) ==
  /\ At(p, "lookup") /\ req[p].op = "get"
  /\ LET i == findObject(req[p].place)
     IN  IF i = 0 THEN Finish(p)
         ELSE Goto(p, [req[p] EXCEPT !.step = "fetch", !.body = objects[i].etag])
  /\ UNCHANGED <<stored, want, crossed>>

GetFetch(p) ==
  /\ At(p, "fetch")
  /\ Finish(p)
  /\ UNCHANGED <<stored, want, crossed>>

-----------------------------------------------------------------------------
Next ==
  \E p \in Procs :
    \/ \E x \in Place :
         \/ CreateBucket(p, x) \/ DeleteBucket(p, x)
         \/ \E b \in Bodies : PutObject(p, x, b)
         \/ \E source \in Place : CopyObject(p, x, source)
         \/ DeleteObject(p, x) \/ GetObject(p, x)
    \/ CreateInsert(p) \/ DeleteBucketCheck(p) \/ DeleteBucketRemove(p)
    \/ CopySource(p) \/ CopyRead(p)
    \/ StoreAsset(p) \/ StoreFind(p) \/ StoreRecord(p)
    \/ DeleteLookup(p) \/ DeleteRecord(p) \/ DeleteAsset(p)
    \/ GetLookup(p) \/ GetFetch(p)

Spec == Init /\ [][Next]_vars

-----------------------------------------------------------------------------
(* The types of the variables.                                             *)
TypeOK ==
  /\ BucketIds \subseteq 1..MaxBuckets /\ \A i \in BucketIds : buckets[i] \in Names
  /\ ObjectIds \subseteq 1..MaxObjects /\ \A i \in ObjectIds : objects[i] \in Object
  /\ DOMAIN assets \subseteq Place /\ \A x \in DOMAIN assets : assets[x] \in Bodies
  /\ nextBucket \in Nat /\ nextObject \in Nat
  /\ req \in [Procs -> Request]
  /\ want \in [Place -> Bodies \cup {NoBody}]
  /\ crossed \subseteq Place \cup Names

Quiet(x) == \A p \in Procs : x \notin Writes(req[p])

(* While the writers of a place come one after the other, the record and   *)
(* the bytes are what the last of them made of the place: both there, one  *)
(* record, with the ETag of the bytes, or both gone; copies from places    *)
(* that are being written and deletions of the bucket change nothing.      *)
PlacesFollowWrites ==
  \A x \in Place \ crossed : Quiet(x) =>
    /\ {objects[i].etag : i \in Records(x)} = {want[x]} \ {NoBody}
    /\ Cardinality(Records(x)) <= 1
    /\ assetBytes(x) = want[x]

(* An object without its bucket can only come from a write that met the    *)
(* deletion of the bucket (deleteBucket checks, then deletes).             *)
OrphansOnlyFromRaces ==
  \A n \in Names \ crossed : In(n) # {} => Named(n) # {}

=============================================================================
