------------------------------- MODULE S3Proofs -------------------------------
(***************************************************************************)
(* Proofs about S3, for every set of requests, buckets, keys and bodies    *)
(* and every bound.  An id that a request found still means the place it   *)
(* was found for or nothing (Sound), so a step changes no place but its    *)
(* own.  A place whose writers never overlapped has one writer at most,    *)
(* and what the record and the bytes are is known at each of its steps     *)
(* (Written); between writers they are what the last one made of them      *)
(* (Clean).  A bucket whose deletion met no write stays while something is *)
(* written into it (BucketsSound).                                         *)
(***************************************************************************)
EXTENDS S3, FiniteSetTheorems, WellFoundedInduction, TLAPS

Numbered ==
  /\ nextBucket # 0 /\ \A i \in BucketIds : i < nextBucket
  /\ nextObject # 0 /\ \A i \in ObjectIds : i < nextObject

Storing == {"put", "copy"}

(* What the locals of a request mean, whatever others do.                  *)
Sound(r) ==
  /\ r.step = "idle" => r = Idle
  /\ r.step = "insert" => r.op = "createBucket"
  /\ r.step \in {"check", "remove"} =>
       /\ r.op = "deleteBucket" /\ r.id < nextBucket
       /\ r.id \in BucketIds => buckets[r.id] = r.place[1]
  /\ r.step \in {"source", "read"} => r.op \in Storing
  /\ r.step \in {"asset", "find", "store"} => r.op \in Storing /\ r.body # NoBody
  /\ r.step = "lookup" => r.op \in {"delete", "get"}
  /\ r.step = "fetch" => r.op = "get"
  /\ r.step \in {"drop", "body"} => r.op = "delete"
  /\ r.step \in {"store", "drop"} =>
       /\ r.id < nextObject
       /\ r.id \in ObjectIds => objects[r.id].place = r.place

(* A request that writes nothing.                                          *)
Silent(r) == Writes(r) = {}

(* The records of a place are what body b makes of them.                   *)
RecordsAre(x, b) ==
  IF b = NoBody THEN Records(x) = {}
  ELSE \E i \in ObjectIds : Records(x) = {i} /\ objects[i].etag = b

Clean(x) == RecordsAre(x, want[x]) /\ assetBytes(x) = want[x]

(* What the only writer of a place knows of it at each of its steps.       *)
Written(r) ==
  /\ r.step \in {"source", "read", "asset", "lookup", "drop"} => Clean(r.place)
  /\ r.step \in {"find", "store"} =>
       RecordsAre(r.place, want[r.place]) /\ assetBytes(r.place) = r.body
  /\ r.step = "store" => Records(r.place) = {r.id} \ {0}
  /\ r.step = "drop" => Records(r.place) = {r.id}
  /\ r.step = "body" => Records(r.place) = {}

PlacesSound ==
  \A x \in Place \ crossed :
    /\ Quiet(x) => Clean(x)
    /\ \A p, q \in Procs :
         x \in Writes(req[p]) /\ x \in Writes(req[q]) => p = q
    /\ \A p \in Procs : x \in Writes(req[p]) => Written(req[p])

(* A bucket that is written into exists; one about to be deleted is empty, *)
(* and nothing else is at work on it.                                      *)
Deleting(r, n) == r.op = "deleteBucket" /\ r.place[1] = n

BucketsSound ==
  \A n \in Names \ crossed :
    /\ In(n) # {} => Named(n) # {}
    /\ \A p, q \in Procs :
         Deleting(req[p], n) /\ n \in Writes(req[q]) => p = q
    /\ \A p \in Procs :
         /\ n \in Writes(req[p]) /\ ~Deleting(req[p], n) => Named(n) # {}
         /\ Deleting(req[p], n) /\ req[p].step = "remove" => In(n) = {}

IInv == /\ TypeOK /\ Numbered
        /\ \A p \in Procs : Sound(req[p])
        /\ PlacesSound /\ BucketsSound

-----------------------------------------------------------------------------
(* Lemmas about the operators of the model.                                *)

(* A set of naturals that is not empty has a least element, the one Least  *)
(* takes: the intervals up to its members are finite, so one of them holds *)
(* no other.                                                               *)
LEMMA LeastExists ==
  ASSUME NEW S \in SUBSET Nat, S # {}
  PROVE  Least(S) \in S /\ \A j \in S : Least(S) <= j
  <1> DEFINE Below == {1..n : n \in S}
  <1>1. Below \subseteq FiniteSubsetsOf(Nat)
    <2>1. \A n \in S : IsFiniteSet(1..n) /\ 1..n \subseteq Nat
      BY FS_Interval
    <2> QED  BY <2>1 DEF FiniteSubsetsOf
  <1>2. \E x \in Below : TRUE
    OBVIOUS
  <1>3. PICK m \in S : \A y \in Below :
                         ~(<<y, 1..m>> \in StrictSubsetOrdering(Nat))
    <2> HIDE DEF Below
    <2>1. \E x \in Below : \A y \in Below :
                             ~(<<y, x>> \in StrictSubsetOrdering(Nat))
      BY <1>1, <1>2, WFMin, FS_StrictSubsetOrderingWellFounded
    <2> QED  BY <2>1 DEF Below
  <1>4. \A j \in S : m <= j
    <2> SUFFICES ASSUME NEW j \in S, j < m PROVE FALSE
      OBVIOUS
    <2>1. 1..j \in Below /\ 1..m \in Below
      OBVIOUS
    <2>2. 1..j \subseteq 1..m /\ 1..j # 1..m
      <3>1. m \in 1..m /\ m \notin 1..j
        OBVIOUS
      <3> QED  BY <3>1
    <2>3. <<1..j, 1..m>> \in StrictSubsetOrdering(Nat)
      BY <1>1, <2>1, <2>2 DEF StrictSubsetOrdering, FiniteSubsetsOf
    <2> QED  BY <1>3, <2>1, <2>3
  <1> QED  BY <1>4 DEF Least

(* findObject gives a record of the place, and 0 exactly when there is     *)
(* none.                                                                   *)
LEMMA FoundObject ==
  ASSUME TypeOK, NEW x
  PROVE  /\ findObject(x) \in Nat
         /\ findObject(x) = 0 <=> Records(x) = {}
         /\ findObject(x) # 0 => findObject(x) \in Records(x)
  <1>1. Records(x) \subseteq ObjectIds
    BY DEF Records
  <1>2. Records(x) \subseteq Nat /\ 0 \notin Records(x)
    <2>1. MaxObjects \in Nat
      BY BoundAssumption
    <2>2. \A i \in 1..MaxObjects : i \in Nat /\ i # 0
      BY <2>1
    <2>3. \A i \in ObjectIds : i \in 1..MaxObjects
      BY DEF TypeOK
    <2> QED  BY <1>1, <2>2, <2>3
  <1>3. Records(x) # {} => Least(Records(x)) \in Records(x)
    BY <1>2, LeastExists
  <1> QED  BY <1>2, <1>3 DEF findObject

LEMMA IdleFacts ==
  /\ Idle \in Request /\ Idle.op = "none" /\ Idle.step = "idle"
  /\ SomePlace \in Place
  <1>1. SomePlace \in Place
    <2>1. PICK n \in Names, k \in Keys : TRUE
      BY NameAssumption
    <2>2. <<n, k>> \in Place
      BY DEF Place
    <2> QED  BY <2>2 DEF SomePlace
  <1> QED  BY <1>1 DEF Idle, Request, Steps

(* What a request writes: a place, when it stores or deletes an object     *)
(* there, and a bucket, when it deletes it or writes into it.              *)
LEMMA WritesFacts ==
  ASSUME NEW r \in Request
  PROVE  /\ r.place[1] \in Names
         /\ \A x \in Place :
              x \in Writes(r) <=> x = r.place /\ r.op \in {"put", "copy", "delete"}
         /\ \A n \in Names :
              n \in Writes(r) <=>
                /\ n = r.place[1]
                /\ r.op \in {"put", "copy", "delete", "deleteBucket"}
  <1>1. r.place \in Place /\ r.place[1] \in Names
    BY DEF Request, Place
  <1>2. Names \cap Place = {}
    BY NameAssumption DEF Place
  <1> QED  BY <1>1, <1>2 DEF Writes

LEMMA IdleWrites == Silent(Idle)
  BY IdleFacts DEF Silent, Writes

(* A request that writes nothing has no place or bucket of its own.        *)
LEMMA SilentFacts ==
  ASSUME NEW r \in Request, Silent(r)
  PROVE  (\A x : x \notin Writes(r)) /\ \A n : ~Deleting(r, n)
  BY DEF Silent, Writes, Deleting

-----------------------------------------------------------------------------
(* How the parts of the invariant are kept.                                *)

LEMMA RequestsSound ==
  ASSUME TypeOK, \A q \in Procs : Sound(req[q]),
         NEW p \in Procs, NEW r \in Request, Goto(p, r), Sound(r)',
         \A s \in Request : Sound(s) => Sound(s)'
  PROVE  /\ req' \in [Procs -> Request] /\ \A q \in Procs : Sound(req[q])'
         /\ req'[p] = r /\ \A q \in Procs : q # p => req'[q] = req[q]
  <1>1. /\ req' \in [Procs -> Request]
        /\ req'[p] = r /\ \A q \in Procs : q # p => req'[q] = req[q]
    BY DEF Goto, TypeOK
  <1>2. ASSUME NEW q \in Procs PROVE Sound(req[q])'
    <2>1. PICK s \in Request : s = req'[q] /\ Sound(s)'
      <3>1. CASE q = p
        BY <1>1, <3>1
      <3>2. CASE q # p
        <4>1. PICK s \in Request : s = req[q] /\ Sound(s)
          BY DEF TypeOK
        <4> QED  BY <1>1, <3>2, <4>1
      <3> QED  BY <3>1, <3>2
    <2> QED  BY <2>1 DEF Sound, BucketIds, ObjectIds
  <1> QED  BY <1>1, <1>2

(* A place that a step does not touch.                                     *)
Untouched(x) ==
  /\ Records(x)' = Records(x)
  /\ \A i \in Records(x) : i \in ObjectIds' /\ objects'[i].etag = objects[i].etag
  /\ assetBytes(x)' = assetBytes(x) /\ want'[x] = want[x]

LEMMA UntouchedKeeps ==
  ASSUME NEW x, Untouched(x)
  PROVE  /\ Clean(x) => Clean(x)'
         /\ \A r \in Request : r.place = x /\ Written(r) => Written(r)'
  <1>1. ASSUME NEW b, RecordsAre(x, b) PROVE RecordsAre(x, b)'
    BY <1>1 DEF Untouched, RecordsAre
  <1>2. Clean(x) => Clean(x)'
    BY <1>1 DEF Untouched, Clean, RecordsAre
  <1>3. ASSUME NEW r \in Request, r.place = x, Written(r) PROVE Written(r)'
    <2>1. RecordsAre(x, want[x]) => RecordsAre(x, want[x])'
      BY <1>1 DEF Untouched, RecordsAre
    <2> QED  BY <1>2, <1>3, <2>1 DEF Written, Untouched
  <1> QED  BY <1>2, <1>3

(* A step that touches one place at most, as the writer of it.             *)
LEMMA PlaceStep ==
  ASSUME TypeOK, PlacesSound, NEW p \in Procs, NEW r \in Request,
         NEW o \in Request, o = req[p],
         req'[p] = r, \A q \in Procs : q # p => req'[q] = req[q],
         crossed' = crossed,
         Silent(r) \/ (r.op = o.op /\ r.place = o.place),
         \A x \in Place : x \notin Writes(o) => Untouched(x),
         o.place \in Writes(o) \ crossed /\ Written(o)
           => IF Silent(r) THEN Clean(o.place)' ELSE Written(r)'
  PROVE  PlacesSound'
  <1> SUFFICES ASSUME NEW x \in Place \ crossed
               PROVE  /\ Quiet(x)' => Clean(x)'
                      /\ \A q, s \in Procs : x \in Writes(req'[q]) /\ x \in Writes(req'[s])
                                        => q = s
                      /\ \A q \in Procs : x \in Writes(req'[q]) => Written(req[q])'
    BY DEF PlacesSound, Writes
  <1>1. \A q \in Procs : x \in Writes(req'[q]) => x \in Writes(req[q])
    BY SilentFacts DEF Writes
  <1>2. \A q, s \in Procs : x \in Writes(req'[q]) /\ x \in Writes(req'[s]) => q = s
    BY <1>1 DEF PlacesSound
  <1>3. CASE x \notin Writes(o)
    <2>1. Untouched(x)
      BY <1>3
    <2>2. Quiet(x)' => Quiet(x)
      BY <1>3 DEF Quiet, Writes
    <2>3. ASSUME NEW q \in Procs, x \in Writes(req'[q]) PROVE Written(req[q])'
      <3>1. q # p
        BY <1>1, <1>3, <2>3
      <3>2. PICK s \in Request : s = req[q] /\ s = req'[q]
        BY <3>1 DEF TypeOK
      <3>3. x \in Writes(s) /\ s.place = x
        BY <2>3, <3>2, WritesFacts
      <3>4. Written(s)'
        BY <2>1, <3>2, <3>3, UntouchedKeeps DEF PlacesSound
      <3> QED  BY <3>2, <3>4 DEF Written, Clean, RecordsAre, Records, assetBytes
    <2> QED  BY <1>2, <2>1, <2>2, <2>3, UntouchedKeeps DEF PlacesSound
  <1>4. CASE x \in Writes(o)
    <2>1. o.place = x /\ Written(o)
      BY <1>4, WritesFacts DEF PlacesSound
    <2>2. IF Silent(r) THEN Clean(x)' ELSE Written(r)'
      BY <1>4, <2>1
    <2>3. \A q \in Procs : x \in Writes(req'[q]) => q = p
      BY <1>1, <1>4 DEF PlacesSound
    <2>4. CASE Silent(r)
      BY <1>2, <2>2, <2>3, <2>4, SilentFacts
    <2>5. CASE ~Silent(r)
      <3>1. x \in Writes(r)
        BY <1>4, <2>5 DEF Writes
      <3>2. ~Quiet(x)'
        BY <3>1 DEF Quiet, Writes
      <3>3. \A q \in Procs : x \in Writes(req'[q]) => Written(req[q])'
        BY <2>2, <2>3, <2>5 DEF Written, Clean, RecordsAre, Records, assetBytes
      <3> QED  BY <1>2, <3>2, <3>3
    <2> QED  BY <2>4, <2>5
  <1> QED  BY <1>3, <1>4

(* A step that takes no bucket away and adds objects only to the one it    *)
(* writes into.                                                            *)
LEMMA BucketStep ==
  ASSUME TypeOK, BucketsSound, NEW p \in Procs, NEW r \in Request,
         NEW o \in Request, o = req[p],
         req'[p] = r, \A q \in Procs : q # p => req'[q] = req[q],
         crossed' = crossed,
         Silent(r) \/ (r.op = o.op /\ r.place = o.place),
         \A n \in Names : Named(n) # {} => Named(n)' # {},
         \A n \in Names : In(n) = {} /\ In(n)' # {}
           => n \in Writes(o) /\ ~Deleting(o, n),
         \A n \in Names : Deleting(r, n) /\ r.step = "remove" => In(n)' = {}
  PROVE  BucketsSound'
  <1> SUFFICES ASSUME NEW n \in Names \ crossed
               PROVE  /\ In(n)' # {} => Named(n)' # {}
                      /\ \A q, s \in Procs :
                           Deleting(req'[q], n) /\ n \in Writes(req'[s]) => q = s
                      /\ \A q \in Procs :
                           /\ n \in Writes(req'[q]) /\ ~Deleting(req'[q], n)
                                => Named(n)' # {}
                           /\ Deleting(req'[q], n) /\ req'[q].step = "remove"
                                => In(n)' = {}
    BY DEF BucketsSound, Writes, Deleting
  <1>1. \A q \in Procs : /\ n \in Writes(req'[q]) => n \in Writes(req[q])
                         /\ Deleting(req'[q], n) => Deleting(req[q], n)
                         /\ n \in Writes(req'[q]) /\ ~Deleting(req'[q], n)
                              => ~Deleting(req[q], n)
    BY SilentFacts DEF Writes, Deleting
  <1>2. In(n)' # {} => Named(n)' # {}
    BY DEF BucketsSound
  <1>3. \A q, s \in Procs : Deleting(req'[q], n) /\ n \in Writes(req'[s]) => q = s
    BY <1>1 DEF BucketsSound
  <1>4. \A q \in Procs : n \in Writes(req'[q]) /\ ~Deleting(req'[q], n)
                           => Named(n)' # {}
    BY <1>1 DEF BucketsSound
  <1>5. ASSUME NEW q \in Procs, Deleting(req'[q], n), req'[q].step = "remove"
        PROVE  In(n)' = {}
    <2>1. CASE q = p
      BY <1>5, <2>1
    <2>2. CASE q # p
      <3>1. Deleting(req[q], n) /\ In(n) = {}
        BY <1>5, <2>2 DEF BucketsSound
      <3>2. ~(n \in Writes(o) /\ ~Deleting(o, n))
        BY <2>2, <3>1 DEF BucketsSound
      <3> QED  BY <3>1, <3>2
    <2> QED  BY <2>1, <2>2
  <1> QED  BY <1>2, <1>3, <1>4, <1>5

-----------------------------------------------------------------------------
(* A step that changes only the locals of its request.                     *)
LEMMA LocalStep ==
  ASSUME IInv, NEW p \in Procs, NEW r \in Request,
         NEW o \in Request, o = req[p],
         Goto(p, r), Sound(r), UNCHANGED <<stored, want, crossed>>,
         Silent(r) \/ (r.op = o.op /\ r.place = o.place),
         o.place \in Writes(o) \ crossed /\ Written(o)
           => IF Silent(r) THEN Clean(o.place) ELSE Written(r),
         \A n \in Names : Deleting(r, n) /\ r.step = "remove" => In(n) = {}
  PROVE  IInv'
  <1> USE DEF IInv, stored
  <1>1. \A s \in Request : Sound(s) => Sound(s)'
    BY DEF Sound, BucketIds, ObjectIds
  <1>2. /\ req' \in [Procs -> Request] /\ \A q \in Procs : Sound(req[q])'
        /\ req'[p] = r /\ \A q \in Procs : q # p => req'[q] = req[q]
    BY <1>1, RequestsSound
  <1>3. \A x \in Place : Untouched(x)
    BY DEF Untouched, Records, ObjectIds, assetBytes
  <1>4. /\ Clean(o.place) => Clean(o.place)'
        /\ Written(r) => Written(r)'
    BY DEF Clean, Written, RecordsAre, Records, ObjectIds, assetBytes
  <1>5. PlacesSound'
    BY <1>2, <1>3, <1>4, PlaceStep
  <1>6. \A n \in Names : Named(n)' = Named(n) /\ In(n)' = In(n)
    BY DEF Named, BucketIds, In, ObjectIds
  <1>7. BucketsSound'
    BY <1>2, <1>6, BucketStep
  <1> QED  BY <1>2, <1>5, <1>7 DEF TypeOK, Numbered, BucketIds, ObjectIds

LEMMA LocalFinish ==
  ASSUME IInv, NEW p \in Procs, NEW o \in Request, o = req[p],
         Goto(p, Idle), UNCHANGED <<stored, want, crossed>>,
         o.place \in Writes(o) \ crossed /\ Written(o) => Clean(o.place)
  PROVE  IInv'
  <1>1. PICK r \in Request : r = Idle /\ r.step = "idle"
    BY IdleFacts
  <1>2. Sound(r)
    BY <1>1 DEF Sound, Storing
  <1>3. Silent(r)
    BY <1>1, IdleWrites
  <1>4. Goto(p, r)
    BY <1>1
  <1>5. \A n \in Names : Deleting(r, n) /\ r.step = "remove" => In(n) = {}
    BY <1>1
  <1>6. o.place \in Writes(o) \ crossed /\ Written(o)
           => IF Silent(r) THEN Clean(o.place) ELSE Written(r)
    BY <1>3
  <1> QED  BY <1>2, <1>3, <1>4, <1>5, <1>6, LocalStep

-----------------------------------------------------------------------------
(* Beginning an operation: when it meets another writer of its place, or   *)
(* the deletion of its bucket, these count as crossed from now on.         *)
LEMMA BeginInvariant ==
  ASSUME IInv, NEW p \in Procs, NEW op \in AllOps, NEW x \in Place,
         NEW l \in Request, Begin(p, op, x, l),
         NEW r \in Request, r = [l EXCEPT !.op = op, !.place = x], Sound(r),
         r.step \in {"check", "source", "asset", "lookup"}
  PROVE  IInv'
  <1>1. /\ req[p] = Idle /\ Named(x[1]) # {} /\ Goto(p, r)
        /\ UNCHANGED <<stored, want>>
        /\ crossed' = crossed \cup UNION {Meets(r, req[q]) : q \in Procs}
    BY DEF Begin
  <1>2. r.op = op /\ r.place = x /\ x[1] \in Names
    BY DEF Request, Place
  <1> USE DEF IInv, stored
  <1>3. \A s \in Request : Sound(s) => Sound(s)'
    BY <1>1 DEF Sound, BucketIds, ObjectIds
  <1>4. /\ req' \in [Procs -> Request] /\ \A q \in Procs : Sound(req[q])'
        /\ req'[p] = r /\ \A q \in Procs : q # p => req'[q] = req[q]
    BY <1>1, <1>3, RequestsSound
  <1>5. \A y : Untouched(y)
    BY <1>1 DEF Untouched, Records, ObjectIds, assetBytes
  <1>6. \A n : Named(n)' = Named(n) /\ In(n)' = In(n)
    BY <1>1 DEF Named, BucketIds, In, ObjectIds
  <1>7. TypeOK'
    <2>1. crossed' \subseteq Place \cup Names
      <3>1. Writes(r) \subseteq Place \cup Names
        BY <1>2 DEF Writes
      <3>2. \A q \in Procs : Meets(r, req[q]) \subseteq Writes(r)
        BY DEF Meets
      <3> QED  BY <1>1, <3>1, <3>2 DEF TypeOK
    <2> QED  BY <1>1, <1>4, <2>1 DEF TypeOK, BucketIds, ObjectIds
  <1>8. PlacesSound'
    <2> SUFFICES ASSUME NEW y \in Place \ crossed'
                 PROVE  /\ Quiet(y)' => Clean(y)'
                        /\ \A q, s \in Procs :
                             y \in Writes(req'[q]) /\ y \in Writes(req'[s]) => q = s
                        /\ \A q \in Procs : y \in Writes(req'[q]) => Written(req[q])'
      BY DEF PlacesSound, Writes
    <2>0. y \in Place \ crossed /\ y \notin Names
      BY <1>1, NameAssumption DEF Place
    <2>1. Quiet(y)' => Quiet(y)
      BY <1>1, <1>4, IdleWrites DEF Quiet, Silent, Writes
    <2>2. Quiet(y)' => Clean(y)'
      BY <1>5, <2>0, <2>1, UntouchedKeeps DEF PlacesSound
    <2>3. ASSUME y \in Writes(r) PROVE Quiet(y)
      <3> SUFFICES ASSUME NEW q \in Procs, y \in Writes(req[q]) PROVE FALSE
        BY DEF Quiet
      <3>1. y \in Meets(r, req[q])
        BY <2>0, <2>3 DEF Meets
      <3> QED  BY <1>1, <3>1
    <2>4. \A q, s \in Procs : y \in Writes(req'[q]) /\ y \in Writes(req'[s]) => q = s
      BY <1>4, <2>0, <2>3 DEF PlacesSound, Quiet
    <2>5. ASSUME NEW q \in Procs, y \in Writes(req'[q]) PROVE Written(req[q])'
      <3>1. CASE q = p
        <4>1. y \in Writes(r) /\ y = r.place
          BY <1>4, <2>5, <3>1, WritesFacts
        <4>2. Clean(y)'
          BY <1>5, <2>0, <2>3, <4>1, UntouchedKeeps DEF PlacesSound
        <4>3. Written(r)'
          BY <4>1, <4>2 DEF Written
        <4>4. req'[q] = r
          BY <1>4, <3>1
        <4> QED  BY <4>3, <4>4
                 DEF Written, Clean, RecordsAre, Records, assetBytes
      <3>2. CASE q # p
        <4>1. PICK s \in Request : s = req[q] /\ s = req'[q]
          BY <1>4, <3>2 DEF TypeOK
        <4>2. y \in Writes(s) /\ s.place = y
          BY <2>5, <4>1, WritesFacts
        <4>3. Written(s)'
          BY <1>5, <2>0, <4>1, <4>2, UntouchedKeeps DEF PlacesSound
        <4> QED  BY <4>1, <4>3 DEF Written, Clean, RecordsAre, Records, assetBytes
      <3> QED  BY <3>1, <3>2
    <2> QED  BY <2>2, <2>4, <2>5
  <1>9. BucketsSound'
    <2> SUFFICES ASSUME NEW n \in Names \ crossed'
                 PROVE  /\ In(n) # {} => Named(n) # {}
                        /\ \A q, s \in Procs :
                             Deleting(req'[q], n) /\ n \in Writes(req'[s]) => q = s
                        /\ \A q \in Procs :
                             /\ n \in Writes(req'[q]) /\ ~Deleting(req'[q], n)
                                  => Named(n) # {}
                             /\ Deleting(req'[q], n) /\ req'[q].step = "remove"
                                  => In(n) = {}
      BY <1>6 DEF BucketsSound, Writes, Deleting
    <2>0. n \in Names \ crossed
      BY <1>1
    <2>1. In(n) # {} => Named(n) # {}
      BY <2>0 DEF BucketsSound
    <2>2. ASSUME NEW q \in Procs, n \in Writes(r), n \in Writes(req[q])
          PROVE  ~Deleting(r, n) /\ ~Deleting(req[q], n)
      <3>1. n \notin Meets(r, req[q])
        BY <1>1
      <3> QED  BY <2>2, <3>1 DEF Meets, Deleting
    <2>3. \A q \in Procs : Deleting(req[q], n) => n \in Writes(req[q])
      BY DEF Deleting, Writes
    <2>4. Deleting(r, n) => n \in Writes(r)
      BY DEF Deleting, Writes
    <2>5. \A q, s \in Procs : Deleting(req'[q], n) /\ n \in Writes(req'[s]) => q = s
      BY <1>4, <2>0, <2>2, <2>3, <2>4 DEF BucketsSound
    <2>6. ASSUME NEW q \in Procs
          PROVE  /\ n \in Writes(req'[q]) /\ ~Deleting(req'[q], n) => Named(n) # {}
                 /\ Deleting(req'[q], n) /\ req'[q].step = "remove" => In(n) = {}
      <3>1. CASE q = p
        <4>1. n \in Writes(r) => n = x[1]
          BY <1>2, WritesFacts
        <4> QED  BY <1>1, <1>4, <3>1, <4>1
      <3>2. CASE q # p
        BY <1>4, <2>0, <3>2 DEF BucketsSound
      <3> QED  BY <3>1, <3>2
    <2> QED  BY <2>1, <2>5, <2>6
  <1> QED  BY <1>1, <1>4, <1>7, <1>8, <1>9 DEF Numbered, BucketIds, ObjectIds

LEMMA BeginningsInvariant ==
  ASSUME IInv, NEW p \in Procs, NEW x \in Place,
         \/ CreateBucket(p, x) \/ DeleteBucket(p, x)
         \/ \E b \in Bodies : PutObject(p, x, b)
         \/ \E source \in Place : CopyObject(p, x, source)
         \/ DeleteObject(p, x) \/ GetObject(p, x)
  PROVE  IInv'
  <1>1. CASE CreateBucket(p, x)
    <2>1. PICK o \in Request : o = req[p] /\ o = Idle
      BY <1>1 DEF CreateBucket, IInv, TypeOK
    <2>2. PICK r : r = [o EXCEPT !.op = "createBucket", !.step = "insert",
                                 !.place = x]
      OBVIOUS
    <2>3. r \in Request
      BY <2>2 DEF Request, AllOps, Steps
    <2>4. r.op = "createBucket" /\ r.step = "insert" /\ r.place = x
      BY <2>2 DEF Request
    <2>5. Sound(r) /\ Silent(r)
      BY <2>4 DEF Sound, Silent, Writes, Storing
    <2>6. Goto(p, r) /\ UNCHANGED <<stored, want, crossed>>
      BY <1>1, <2>1, <2>2 DEF CreateBucket
    <2>7. o.place \notin Writes(o)
      BY <2>1, IdleWrites, SilentFacts
    <2>8. \A n \in Names : Deleting(r, n) /\ r.step = "remove" => In(n) = {}
      BY <2>4
    <2> QED  BY <2>1, <2>3, <2>4, <2>5, <2>6, <2>7, <2>8, LocalStep
  <1>2. CASE DeleteBucket(p, x)
    <2>1. PICK i : i = Least(Named(x[1]))
      OBVIOUS
    <2>2. /\ i \in Named(x[1]) /\ i \in Nat
      <3>1. Named(x[1]) \subseteq Nat /\ Named(x[1]) # {}
        <4>1. MaxBuckets \in Nat
          BY BoundAssumption
        <4>2. \A j \in 1..MaxBuckets : j \in Nat
          BY <4>1
        <4>3. \A j \in BucketIds : j \in Nat
          BY <4>2 DEF IInv, TypeOK
        <4>4. Named(x[1]) \subseteq BucketIds
          BY DEF Named
        <4>5. Named(x[1]) # {}
          BY <1>2 DEF DeleteBucket, Begin
        <4> QED  BY <4>3, <4>4, <4>5
      <3> QED  BY <2>1, <3>1, LeastExists
    <2>3. PICK l : l = [Idle EXCEPT !.step = "check", !.id = i]
      OBVIOUS
    <2>4. l \in Request /\ l.step = "check" /\ l.id = i
      BY <2>2, <2>3, IdleFacts DEF Request, Steps
    <2>5. PICK r : r = [l EXCEPT !.op = "deleteBucket", !.place = x]
      OBVIOUS
    <2>6. r \in Request
      BY <2>4, <2>5 DEF Request, AllOps
    <2>7. /\ r.step = "check" /\ r.op = "deleteBucket" /\ r.id = i
          /\ r.place = x
      BY <2>4, <2>5 DEF Request
    <2>8. Sound(r)
      BY <2>2, <2>7 DEF Sound, Named, IInv, Numbered
    <2> QED  BY <1>2, <2>1, <2>3, <2>4, <2>5, <2>6, <2>7, <2>8, BeginInvariant
             DEF DeleteBucket, AllOps
  <1>3. ASSUME NEW b \in Bodies, PutObject(p, x, b) PROVE IInv'
    <2>3. PICK l : l = [Idle EXCEPT !.step = "asset", !.body = b]
      OBVIOUS
    <2>4. l \in Request /\ l.step = "asset" /\ l.body = b
      BY <2>3, IdleFacts DEF Request, Steps
    <2>5. PICK r : r = [l EXCEPT !.op = "put", !.place = x]
      OBVIOUS
    <2>6. r \in Request
      BY <2>4, <2>5 DEF Request, AllOps
    <2>7. r.step = "asset" /\ r.op = "put" /\ r.body = b
      BY <2>4, <2>5 DEF Request
    <2>8. Sound(r)
      BY <2>7, BodyAssumption DEF Sound, Storing
    <2> QED  BY <1>3, <2>3, <2>4, <2>5, <2>6, <2>7, <2>8, BeginInvariant
             DEF PutObject, AllOps
  <1>4. ASSUME NEW source \in Place, CopyObject(p, x, source) PROVE IInv'
    <2>3. PICK l : l = [Idle EXCEPT !.step = "source", !.source = source]
      OBVIOUS
    <2>4. l \in Request /\ l.step = "source"
      BY <2>3, IdleFacts DEF Request, Steps
    <2>5. PICK r : r = [l EXCEPT !.op = "copy", !.place = x]
      OBVIOUS
    <2>6. r \in Request
      BY <2>4, <2>5 DEF Request, AllOps
    <2>7. r.step = "source" /\ r.op = "copy"
      BY <2>4, <2>5 DEF Request
    <2>8. Sound(r)
      BY <2>7 DEF Sound, Storing
    <2> QED  BY <1>4, <2>3, <2>4, <2>5, <2>6, <2>7, <2>8, BeginInvariant
             DEF CopyObject, AllOps
  <1>5. ASSUME NEW op \in {"delete", "get"},
               Begin(p, op, x, [Idle EXCEPT !.step = "lookup"])
        PROVE  IInv'
    <2>3. PICK l : l = [Idle EXCEPT !.step = "lookup"]
      OBVIOUS
    <2>4. l \in Request /\ l.step = "lookup"
      BY <2>3, IdleFacts DEF Request, Steps
    <2>5. PICK r : r = [l EXCEPT !.op = op, !.place = x]
      OBVIOUS
    <2>6. r \in Request
      BY <2>4, <2>5 DEF Request, AllOps
    <2>7. r.step = "lookup" /\ r.op = op
      BY <2>4, <2>5 DEF Request
    <2>8. Sound(r)
      BY <2>7 DEF Sound, Storing
    <2> QED  BY <1>5, <2>3, <2>4, <2>5, <2>6, <2>7, <2>8, BeginInvariant
             DEF AllOps
  <1> QED  BY <1>1, <1>2, <1>3, <1>4, <1>5 DEF DeleteObject, GetObject

-----------------------------------------------------------------------------
(* The steps that only read: CopyObject's, the lookups and GetObject.      *)

LEMMA ReadsInvariant ==
  ASSUME IInv, NEW p \in Procs,
         \/ CopySource(p) \/ CopyRead(p) \/ StoreFind(p) \/ DeleteLookup(p)
         \/ GetLookup(p) \/ GetFetch(p) \/ DeleteBucketCheck(p)
  PROVE  IInv'
  <1>1. PICK o \in Request : o = req[p] /\ Sound(o)
    BY DEF IInv, TypeOK
  <1>2. CASE GetFetch(p)
    <2>1. o.place \notin Writes(o)
      BY <1>1, <1>2, WritesFacts DEF GetFetch, At, Sound, Request
    <2> QED  BY <1>1, <1>2, <2>1, LocalFinish DEF GetFetch, Finish
  <1>3. CASE DeleteBucketCheck(p)
    <2>1. o.step = "check" /\ o.op = "deleteBucket" /\ o.place \notin Writes(o)
      BY <1>1, <1>3, WritesFacts DEF DeleteBucketCheck, At, Sound, Request
    <2>2. CASE In(o.place[1]) # {}
      BY <1>1, <1>3, <2>1, <2>2, LocalFinish
      DEF DeleteBucketCheck, Deletable, Finish
    <2>3. CASE In(o.place[1]) = {}
      <3>1. PICK r : r = [o EXCEPT !.step = "remove"]
        OBVIOUS
      <3>2. r \in Request
        BY <3>1 DEF Request, Steps
      <3>3. /\ r.step = "remove" /\ r.op = o.op /\ r.place = o.place
            /\ r.id = o.id
        BY <3>1 DEF Request
      <3>4. Sound(r)
        BY <1>1, <2>1, <3>3 DEF Sound
      <3>5. Goto(p, r) /\ UNCHANGED <<stored, want, crossed>>
        BY <1>1, <1>3, <2>3, <3>1 DEF DeleteBucketCheck, Deletable, Step
      <3>6. \A n \in Names : Deleting(r, n) /\ r.step = "remove" => In(n) = {}
        BY <2>3, <3>3 DEF Deleting
      <3> QED  BY <1>1, <2>1, <3>2, <3>3, <3>4, <3>5, <3>6, LocalStep
    <2> QED  BY <2>2, <2>3
  <1>4. CASE CopySource(p)
    <2>1. o.step = "source" /\ o.op \in Storing
      BY <1>1, <1>4 DEF CopySource, At, Sound
    <2>2. CASE findObject(o.source) = 0
      BY <1>1, <1>4, <2>1, <2>2, LocalFinish DEF CopySource, Finish, Written
    <2>3. CASE findObject(o.source) # 0
      <3>1. PICK r : r = [o EXCEPT !.step = "read"]
        OBVIOUS
      <3>2. r \in Request
        BY <3>1 DEF Request, Steps
      <3>3. r.step = "read" /\ r.op = o.op /\ r.place = o.place
        BY <3>1 DEF Request
      <3>4. Sound(r) /\ ~Silent(r)
        BY <2>1, <3>3 DEF Sound, Silent, Writes, Storing
      <3>5. Goto(p, r) /\ UNCHANGED <<stored, want, crossed>>
        BY <1>1, <1>4, <2>3, <3>1 DEF CopySource, Step
      <3>6. Written(o) => Written(r)
        BY <2>1, <3>3 DEF Written
      <3> QED  BY <1>1, <3>2, <3>3, <3>4, <3>5, <3>6, LocalStep
    <2> QED  BY <2>2, <2>3
  <1>5. CASE CopyRead(p)
    <2>1. o.step = "read" /\ o.op \in Storing
      BY <1>1, <1>5 DEF CopyRead, At, Sound
    <2>2. PICK b : b = assetBytes(o.source)
      OBVIOUS
    <2>3. CASE b = NoBody
      BY <1>1, <1>5, <2>1, <2>2, <2>3, LocalFinish
      DEF CopyRead, readable, Finish, Written
    <2>4. CASE b # NoBody
      <3>1. PICK r : r = [o EXCEPT !.step = "asset", !.body = b]
        OBVIOUS
      <3>2. b \in Bodies
        BY <2>2, <2>4 DEF assetBytes, IInv, TypeOK
      <3>3. r \in Request
        BY <3>1, <3>2 DEF Request, Steps
      <3>4. /\ r.step = "asset" /\ r.op = o.op /\ r.place = o.place
            /\ r.body = b
        BY <3>1 DEF Request
      <3>5. Sound(r) /\ ~Silent(r)
        BY <2>1, <2>4, <3>4 DEF Sound, Silent, Writes, Storing
      <3>6. Goto(p, r) /\ UNCHANGED <<stored, want, crossed>>
        BY <1>1, <1>5, <2>2, <2>4, <3>1 DEF CopyRead, readable
      <3>7. Written(o) => Written(r)
        BY <2>1, <3>4 DEF Written
      <3> QED  BY <1>1, <3>3, <3>4, <3>5, <3>6, <3>7, LocalStep
    <2> QED  BY <2>3, <2>4
  <1>6. CASE StoreFind(p)
    <2>1. o.step = "find" /\ o.op \in Storing /\ o.body # NoBody
      BY <1>1, <1>6 DEF StoreFind, At, Sound
    <2>2. PICK i \in Nat : i = findObject(o.place)
      BY FoundObject DEF IInv
    <2>3. PICK r : r = [o EXCEPT !.step = "store", !.id = i]
      OBVIOUS
    <2>4. r \in Request
      BY <2>3 DEF Request, Steps
    <2>5. /\ r.step = "store" /\ r.op = o.op /\ r.place = o.place
          /\ r.id = i /\ r.body = o.body
      BY <2>3 DEF Request
    <2>6. /\ i = 0 <=> Records(o.place) = {}
          /\ i # 0 => i \in Records(o.place)
      BY <2>2, FoundObject DEF IInv
    <2>7. 0 \notin ObjectIds /\ 0 < nextObject /\ \A j \in ObjectIds : j < nextObject
      <3>1. \A j \in 1..MaxObjects : j # 0
        BY BoundAssumption
      <3> QED  BY <3>1 DEF IInv, TypeOK, Numbered
    <2>8. Sound(r) /\ ~Silent(r)
      BY <2>1, <2>5, <2>6, <2>7
      DEF Sound, Silent, Writes, Storing, Records
    <2>9. Goto(p, r) /\ UNCHANGED <<stored, want, crossed>>
      BY <1>1, <1>6, <2>2, <2>3 DEF StoreFind
    <2>10. Written(o) => Written(r)
      <3> SUFFICES ASSUME Written(o) PROVE Written(r)
        OBVIOUS
      <3>1. /\ RecordsAre(o.place, want[o.place])
            /\ assetBytes(o.place) = o.body
        BY <2>1 DEF Written
      <3>2. Records(o.place) = {i} \ {0}
        BY <2>6, <3>1 DEF RecordsAre
      <3> QED  BY <2>5, <3>1, <3>2 DEF Written
    <2> QED  BY <1>1, <2>4, <2>5, <2>8, <2>9, <2>10, LocalStep
  <1>7. CASE DeleteLookup(p)
    <2>1. o.step = "lookup" /\ o.op = "delete"
      BY <1>1, <1>7 DEF DeleteLookup, At
    <2>2. PICK i \in Nat : i = findObject(o.place)
      BY FoundObject DEF IInv
    <2>3. CASE i = 0
      BY <1>1, <1>7, <2>1, <2>2, <2>3, LocalFinish
      DEF DeleteLookup, Finish, Written
    <2>4. CASE i # 0
      <3>1. PICK r : r = [o EXCEPT !.step = "drop", !.id = i]
        OBVIOUS
      <3>2. r \in Request
        BY <3>1 DEF Request, Steps
      <3>3. /\ r.step = "drop" /\ r.op = o.op /\ r.place = o.place
            /\ r.id = i
        BY <3>1 DEF Request
      <3>4. i \in Records(o.place)
        BY <2>2, <2>4, FoundObject DEF IInv
      <3>5. Sound(r) /\ ~Silent(r)
        BY <2>1, <3>3, <3>4
        DEF Sound, Silent, Writes, Storing, Records, IInv, Numbered
      <3>6. Goto(p, r) /\ UNCHANGED <<stored, want, crossed>>
        BY <1>1, <1>7, <2>2, <2>4, <3>1 DEF DeleteLookup
      <3>7. Written(o) => Written(r)
        BY <2>1, <3>3, <3>4 DEF Written, Clean, RecordsAre
      <3> QED  BY <1>1, <3>2, <3>3, <3>5, <3>6, <3>7, LocalStep
    <2> QED  BY <2>3, <2>4
  <1>8. CASE GetLookup(p)
    <2>1. o.step = "lookup" /\ o.op = "get" /\ o.place \notin Writes(o)
      BY <1>1, <1>8, WritesFacts DEF GetLookup, At, Request
    <2>2. PICK i \in Nat : i = findObject(o.place)
      BY FoundObject DEF IInv
    <2>3. CASE i = 0
      BY <1>1, <1>8, <2>1, <2>2, <2>3, LocalFinish DEF GetLookup, Finish
    <2>4. CASE i # 0
      <3>1. PICK b : b = objects[i].etag
        OBVIOUS
      <3>2. b \in Bodies
        <4>1. i \in ObjectIds
          BY <2>2, <2>4, FoundObject DEF IInv, Records
        <4> QED  BY <3>1, <4>1 DEF IInv, TypeOK, Object
      <3>3. PICK r : r = [o EXCEPT !.step = "fetch", !.body = b]
        OBVIOUS
      <3>4. r \in Request
        BY <3>2, <3>3 DEF Request, Steps
      <3>5. r.step = "fetch" /\ r.op = o.op /\ r.place = o.place
        BY <3>3 DEF Request
      <3>6. Sound(r)
        BY <2>1, <3>5 DEF Sound
      <3>7. Goto(p, r) /\ UNCHANGED <<stored, want, crossed>>
        BY <1>1, <1>8, <2>2, <2>4, <3>1, <3>3 DEF GetLookup
      <3> QED  BY <1>1, <2>1, <3>4, <3>5, <3>6, <3>7, LocalStep
    <2> QED  BY <2>3, <2>4
  <1> QED  BY <1>2, <1>3, <1>4, <1>5, <1>6, <1>7, <1>8

-----------------------------------------------------------------------------
(* The steps that write.                                                   *)

(* A step that only writes to its own place: what it leaves of the parts   *)
(* of the invariant but PlacesSound.                                       *)
LEMMA WriteStep ==
  ASSUME IInv, NEW p \in Procs, NEW r \in Request,
         NEW o \in Request, o = req[p], Goto(p, r), Sound(r)',
         Silent(r) \/ (r.op = o.op /\ r.place = o.place),
         o.place \in Writes(o), r.step # "remove",
         nextObject' \in Nat, nextObject' >= nextObject,
         \A i \in ObjectIds' : /\ i \in 1..MaxObjects /\ i < nextObject'
                               /\ objects'[i] \in Object
                               /\ i \in ObjectIds \/ i >= nextObject
                               /\ i \in ObjectIds =>
                                    objects'[i].place = objects[i].place
                               /\ i \notin ObjectIds =>
                                    objects'[i].place = o.place,
         DOMAIN assets' \subseteq Place,
         \A x \in DOMAIN assets' : assets'[x] \in Bodies,
         want' \in [Place -> Bodies \cup {NoBody}],
         UNCHANGED <<buckets, nextBucket, crossed>>,
         \A x \in Place : x # o.place => Untouched(x),
         o.place \notin crossed /\ Written(o)
           => IF Silent(r) THEN Clean(o.place)' ELSE Written(r)'
  PROVE  IInv'
  <1>1. ASSUME NEW s \in Request, Sound(s) PROVE Sound(s)'
    <2>1. BucketIds' = BucketIds
      BY DEF BucketIds
    <2>2. s.step \in {"store", "drop"} =>
            /\ s.id < nextObject'
            /\ s.id \in ObjectIds' => objects'[s.id].place = s.place
      <3> SUFFICES ASSUME s.step \in {"store", "drop"}
                   PROVE  /\ s.id < nextObject'
                          /\ s.id \in ObjectIds' => objects'[s.id].place = s.place
        OBVIOUS
      <3>1. /\ s.id \in Nat /\ nextObject \in Nat /\ s.id < nextObject
            /\ s.id \in ObjectIds => objects[s.id].place = s.place
        BY <1>1 DEF Sound, Request, IInv, TypeOK
      <3> QED  BY <3>1
    <2> QED  BY <1>1, <2>1, <2>2 DEF Sound
  <1>2. /\ req' \in [Procs -> Request] /\ \A q \in Procs : Sound(req[q])'
        /\ req'[p] = r /\ \A q \in Procs : q # p => req'[q] = req[q]
    BY <1>1, RequestsSound DEF IInv
  <1>3. BucketIds' = BucketIds /\ \A n : Named(n)' = Named(n)
    BY DEF Named, BucketIds
  <1>4. TypeOK'
    BY <1>2, <1>3 DEF IInv, TypeOK
  <1>5. Numbered'
    <2>1. nextObject \in Nat /\ nextObject # 0
      BY DEF IInv, TypeOK, Numbered
    <2> QED  BY <1>3, <2>1 DEF IInv, Numbered
  <1>6. PlacesSound'
    <2>1. o.place \in Writes(o) \ crossed /\ Written(o)
            => IF Silent(r) THEN Clean(o.place)' ELSE Written(r)'
      OBVIOUS
    <2>2. \A x \in Place : x \notin Writes(o) => Untouched(x)
      OBVIOUS
    <2> QED  BY <1>2, <2>1, <2>2, PlaceStep DEF IInv
  <1>7. BucketsSound'
    <2>1. \A n \in Names : Named(n) # {} => Named(n)' # {}
      BY <1>3
    <2>2. ASSUME NEW n \in Names, In(n) = {}, In(n)' # {}
          PROVE  n \in Writes(o) /\ ~Deleting(o, n)
      <3>1. PICK i \in ObjectIds' : objects'[i].place[1] = n
        BY <2>2 DEF In
      <3>2. i \notin ObjectIds
        BY <2>2, <3>1 DEF In
      <3>3. o.place[1] = n
        BY <3>1, <3>2
      <3>4. o.op \in {"put", "copy", "delete"}
        BY WritesFacts DEF Request
      <3> QED  BY <3>3, <3>4, WritesFacts DEF Deleting
    <2>3. \A n \in Names : Deleting(r, n) /\ r.step = "remove" => In(n)' = {}
      OBVIOUS
    <2> QED  BY <1>2, <2>1, <2>2, <2>3, BucketStep DEF IInv
  <1> QED  BY <1>2, <1>4, <1>5, <1>6, <1>7 DEF IInv

LEMMA StoreAssetInvariant ==
  ASSUME IInv, NEW p \in Procs, StoreAsset(p)
  PROVE  IInv'
  <1>1. PICK o \in Request : o = req[p] /\ Sound(o)
    BY DEF IInv, TypeOK
  <1>2. o.step = "asset" /\ o.op \in Storing /\ o.body \in Bodies
    BY <1>1 DEF StoreAsset, At, Sound, Request
  <1>3. PICK r : r = [o EXCEPT !.step = "find"]
    OBVIOUS
  <1>4. r \in Request
    BY <1>3 DEF Request, Steps
  <1>5. /\ r.step = "find" /\ r.op = o.op /\ r.place = o.place
        /\ r.body = o.body
    BY <1>3 DEF Request
  <1>6. Goto(p, r) /\ assets' = With(assets, o.place, o.body)
        /\ UNCHANGED <<buckets, objects, nextBucket, nextObject, want, crossed>>
    BY <1>1, <1>3 DEF StoreAsset, Step
  <1>7. Sound(r)' /\ ~Silent(r) /\ o.place \in Writes(o) /\ o.place \in Place
    <2>1. o.body # NoBody
      BY <1>2, BodyAssumption
    <2> QED  BY <1>2, <1>5, <2>1 DEF Sound, Silent, Writes, Storing, Request
  <1>8. /\ DOMAIN assets' = DOMAIN assets \cup {o.place}
        /\ assets'[o.place] = o.body
        /\ \A x \in DOMAIN assets : x # o.place => assets'[x] = assets[x]
    BY <1>6 DEF With
  <1>9. \A x \in Place : x # o.place => Untouched(x)
    BY <1>6, <1>8 DEF Untouched, Records, ObjectIds, assetBytes
  <1>10. DOMAIN assets' \subseteq Place /\ \A x \in DOMAIN assets' : assets'[x] \in Bodies
    BY <1>2, <1>7, <1>8 DEF IInv, TypeOK
  <1>11. Written(o) => Written(r)'
    <2> SUFFICES ASSUME Written(o) PROVE Written(r)'
      OBVIOUS
    <2>1. RecordsAre(o.place, want[o.place])
      BY <1>2 DEF Written, Clean
    <2>2. RecordsAre(o.place, want[o.place])'
      BY <1>6, <2>1 DEF RecordsAre, Records, ObjectIds
    <2>3. assetBytes(o.place)' = o.body
      BY <1>8 DEF assetBytes
    <2> QED  BY <1>5, <2>2, <2>3 DEF Written
  <1>12. /\ nextObject' \in Nat /\ nextObject' >= nextObject
         /\ want' \in [Place -> Bodies \cup {NoBody}]
         /\ ObjectIds' = ObjectIds
         /\ \A i \in ObjectIds : /\ i \in 1..MaxObjects /\ i < nextObject'
                                 /\ objects'[i] = objects[i]
                                 /\ objects[i] \in Object
    BY <1>6 DEF IInv, TypeOK, Numbered, ObjectIds
  <1> QED
    BY <1>1, <1>4, <1>5, <1>6, <1>7, <1>9, <1>10, <1>11, <1>12, WriteStep

LEMMA StoreRecordInvariant ==
  ASSUME IInv, NEW p \in Procs, StoreRecord(p)
  PROVE  IInv'
  <1>1. PICK o \in Request : o = req[p] /\ Sound(o)
    BY DEF IInv, TypeOK
  <1>2. /\ o.step = "store" /\ o.op \in Storing /\ o.body \in Bodies
        /\ o.body # NoBody /\ o.place \in Place
    BY <1>1, BodyAssumption DEF StoreRecord, At, Sound, Request
  <1>3. PICK rec \in Object : rec = [place |-> o.place, etag |-> o.body]
    BY <1>2 DEF Object
  <1>4. PICK r \in Request : r = Idle /\ r.step = "idle"
    BY IdleFacts
  <1>5. /\ Goto(p, r) /\ want' = [want EXCEPT ![o.place] = o.body]
        /\ UNCHANGED <<buckets, assets, nextBucket, crossed>>
        /\ \/ /\ o.id # 0 /\ nextObject' = nextObject
              /\ objects' = IF o.id \in ObjectIds THEN With(objects, o.id, rec)
                                                  ELSE objects
           \/ /\ o.id = 0 /\ nextObject <= MaxObjects
              /\ nextObject' = nextObject + 1
              /\ objects' = With(objects, nextObject, rec)
    BY <1>1, <1>3, <1>4 DEF StoreRecord, Finish
  <1>6. Sound(r)' /\ Silent(r) /\ o.place \in Writes(o)
    BY <1>2, <1>4, IdleWrites DEF Sound, Silent, Writes, Storing
  <1>7. /\ nextObject \in Nat \ {0} /\ MaxObjects \in Nat
        /\ \A i \in ObjectIds : /\ i \in 1..MaxObjects /\ i < nextObject
                                /\ objects[i] \in Object
        /\ o.id \in Nat /\ o.id < nextObject
        /\ o.id \in ObjectIds => objects[o.id].place = o.place
    BY <1>1, <1>2, BoundAssumption DEF IInv, TypeOK, Numbered, Sound, Request
  <1>8. rec.place = o.place /\ rec.etag = o.body
    BY <1>3
  <1>9. PICK i \in Nat : i = IF o.id = 0 THEN nextObject ELSE o.id
    BY <1>7
  (* The record written is i, the one found or a new one, or none at all.  *)
  <1>10. \/ objects' = objects /\ i \notin ObjectIds /\ o.id # 0
         \/ /\ ObjectIds' = ObjectIds \cup {i} /\ objects'[i] = rec
            /\ \A j \in ObjectIds : j # i => objects'[j] = objects[j]
            /\ i \in ObjectIds => objects[i].place = o.place
            /\ i \in 1..MaxObjects
    <2>1. CASE o.id = 0
      BY <1>5, <1>7, <1>9, <2>1 DEF With, ObjectIds
    <2>2. CASE o.id # 0 /\ o.id \notin ObjectIds
      BY <1>5, <1>9, <2>2
    <2>3. CASE o.id # 0 /\ o.id \in ObjectIds
      BY <1>5, <1>7, <1>9, <2>3 DEF With, ObjectIds
    <2> QED  BY <2>1, <2>2, <2>3
  <1>11. nextObject' \in Nat /\ nextObject' >= nextObject /\ i < nextObject'
    BY <1>5, <1>7, <1>9
  <1>12. ASSUME NEW j \in ObjectIds'
         PROVE  /\ j \in 1..MaxObjects /\ j < nextObject'
                /\ objects'[j] \in Object
                /\ j \in ObjectIds \/ j >= nextObject
                /\ j \in ObjectIds => objects'[j].place = objects[j].place
                /\ j \notin ObjectIds => objects'[j].place = o.place
    <2>1. CASE objects' = objects
      BY <1>7, <1>11, <2>1 DEF ObjectIds
    <2>2. CASE objects' # objects /\ j = i
      <3>1. i \in ObjectIds \/ i >= nextObject
        BY <1>5, <1>7, <1>9, <2>2
      <3> QED  BY <1>8, <1>10, <1>11, <2>2, <3>1
    <2>3. CASE objects' # objects /\ j # i
      BY <1>7, <1>10, <1>11, <2>3
    <2> QED  BY <2>1, <2>2, <2>3
  <1>13. ASSUME NEW x \in Place, x # o.place PROVE Untouched(x)
    <2>1. Records(x)' = Records(x)
          /\ \A j \in Records(x) : j \in ObjectIds' /\ objects'[j].etag = objects[j].etag
      <3>1. CASE objects' = objects
        BY <3>1 DEF Records, ObjectIds
      <3>2. CASE objects' # objects
        <4>1. i \notin Records(x)
          BY <1>10, <1>13, <3>2 DEF Records
        <4>2. \A j \in ObjectIds' : j \in ObjectIds \/ j = i
          BY <1>10, <3>2
        <4>3. objects'[i].place # x
          BY <1>8, <1>10, <1>13, <3>2
        <4> QED  BY <1>10, <3>2, <4>1, <4>2, <4>3 DEF Records
      <3> QED  BY <3>1, <3>2
    <2>2. assetBytes(x)' = assetBytes(x)
      BY <1>5 DEF assetBytes
    <2>3. want'[x] = want[x]
      BY <1>5, <1>13 DEF IInv, TypeOK
    <2> QED  BY <2>1, <2>2, <2>3 DEF Untouched
  <1>14. Written(o) => Clean(o.place)'
    <2> SUFFICES ASSUME Written(o) PROVE Clean(o.place)'
      OBVIOUS
    <2>1. /\ assetBytes(o.place) = o.body
          /\ Records(o.place) = {o.id} \ {0}
      BY <1>2 DEF Written
    <2>2. want'[o.place] = o.body
      BY <1>2, <1>5 DEF IInv, TypeOK
    <2>3. assetBytes(o.place)' = o.body
      BY <1>5, <2>1 DEF assetBytes
    <2>4. /\ ObjectIds' = ObjectIds \cup {i} /\ objects'[i] = rec
          /\ \A j \in ObjectIds : j # i => objects'[j] = objects[j]
      <3>1. o.id # 0 => o.id \in ObjectIds
        BY <2>1 DEF Records
      <3>2. o.id # 0 => i = o.id
        BY <1>9
      <3> QED  BY <1>10, <3>1, <3>2
    <2>5. i \in ObjectIds' /\ objects'[i].place = o.place /\ objects'[i].etag = o.body
      BY <1>8, <2>4
    <2>6. Records(o.place)' = {i}
      <3>1. ASSUME NEW j \in ObjectIds', objects'[j].place = o.place PROVE j = i
        <4>1. CASE j \in ObjectIds /\ j # i
          <5>1. j \in Records(o.place)
            BY <2>4, <3>1, <4>1 DEF Records
          <5> QED  BY <1>9, <2>1, <4>1, <5>1
        <4> QED  BY <2>4, <3>1, <4>1
      <3> QED  BY <2>5, <3>1 DEF Records
    <2> QED  BY <1>2, <2>2, <2>3, <2>5, <2>6 DEF Clean, RecordsAre
  <1>15. /\ DOMAIN assets' \subseteq Place /\ \A x \in DOMAIN assets' : assets'[x] \in Bodies
         /\ want' \in [Place -> Bodies \cup {NoBody}]
    BY <1>2, <1>5 DEF IInv, TypeOK
  <1>16. r.step # "remove"
    BY <1>4
  <1> QED
    BY <1>1, <1>5, <1>6, <1>11, <1>12, <1>13, <1>14, <1>15, <1>16, WriteStep

LEMMA DeleteRecordInvariant ==
  ASSUME IInv, NEW p \in Procs, DeleteRecord(p)
  PROVE  IInv'
  <1>1. PICK o \in Request : o = req[p] /\ Sound(o)
    BY DEF IInv, TypeOK
  <1>2. o.step = "drop" /\ o.op = "delete" /\ o.place \in Place
    BY <1>1 DEF DeleteRecord, At, Sound, Request
  <1>3. PICK r : r = [o EXCEPT !.step = "body"]
    OBVIOUS
  <1>4. r \in Request
    BY <1>3 DEF Request, Steps
  <1>5. r.step = "body" /\ r.op = o.op /\ r.place = o.place
    BY <1>3 DEF Request
  <1>6. Goto(p, r) /\ objects' = Without(objects, o.id)
        /\ UNCHANGED <<buckets, assets, nextBucket, nextObject, want, crossed>>
    BY <1>1, <1>3 DEF DeleteRecord, Step
  <1>7. Sound(r)' /\ ~Silent(r) /\ o.place \in Writes(o)
    BY <1>2, <1>5 DEF Sound, Silent, Writes, Storing
  <1>8. ObjectIds' = ObjectIds \ {o.id} /\ \A i \in ObjectIds' : objects'[i] = objects[i]
    BY <1>6 DEF Without, ObjectIds
  <1>9. ASSUME NEW x \in Place, x # o.place PROVE Untouched(x)
    <2>1. o.id \notin Records(x)
      BY <1>1, <1>2, <1>9 DEF Sound, Records
    <2>2. /\ Records(x)' = Records(x)
          /\ \A i \in Records(x) : i \in ObjectIds' /\ objects'[i].etag = objects[i].etag
      BY <1>8, <2>1 DEF Records
    <2> QED  BY <1>6, <2>2 DEF Untouched, assetBytes
  <1>10. Written(o) => Written(r)'
    <2> SUFFICES ASSUME Written(o) PROVE Written(r)'
      OBVIOUS
    <2>1. Records(o.place) = {o.id}
      BY <1>2 DEF Written
    <2>2. Records(o.place)' = {}
      BY <1>8, <2>1 DEF Records
    <2> QED  BY <1>5, <2>2 DEF Written
  <1>11. /\ nextObject' \in Nat /\ nextObject' >= nextObject
    BY <1>6 DEF IInv, TypeOK
  <1>12. /\ DOMAIN assets' \subseteq Place
         /\ \A x \in DOMAIN assets' : assets'[x] \in Bodies
         /\ want' \in [Place -> Bodies \cup {NoBody}]
    BY <1>6 DEF IInv, TypeOK
  <1>13. \A i \in ObjectIds : /\ i \in 1..MaxObjects /\ i < nextObject'
                              /\ objects[i] \in Object
    BY <1>6 DEF IInv, TypeOK, Numbered
  <1>14. r.step # "remove"
    BY <1>5
  <1> QED
    BY <1>1, <1>4, <1>5, <1>6, <1>7, <1>8, <1>9, <1>10, <1>11, <1>12, <1>13, <1>14,
       WriteStep

LEMMA DeleteAssetInvariant ==
  ASSUME IInv, NEW p \in Procs, DeleteAsset(p)
  PROVE  IInv'
  <1>1. PICK o \in Request : o = req[p] /\ Sound(o)
    BY DEF IInv, TypeOK
  <1>2. o.step = "body" /\ o.op = "delete" /\ o.place \in Place
    BY <1>1 DEF DeleteAsset, At, Sound, Request
  <1>3. PICK r \in Request : r = Idle /\ r.step = "idle"
    BY IdleFacts
  <1>4. /\ Goto(p, r) /\ assets' = Without(assets, o.place)
        /\ want' = [want EXCEPT ![o.place] = NoBody]
        /\ UNCHANGED <<buckets, objects, nextBucket, nextObject, crossed>>
    BY <1>1, <1>3 DEF DeleteAsset, Finish, droppedAsset
  <1>5. Sound(r)' /\ Silent(r) /\ o.place \in Writes(o)
    BY <1>2, <1>3, IdleWrites DEF Sound, Silent, Writes, Storing
  <1>6. /\ DOMAIN assets' = DOMAIN assets \ {o.place}
        /\ \A x \in DOMAIN assets' : assets'[x] = assets[x]
    BY <1>4 DEF Without
  <1>7. \A x \in Place : x # o.place => Untouched(x)
    BY <1>4, <1>6 DEF Untouched, Records, ObjectIds, assetBytes, IInv, TypeOK
  <1>8. Written(o) => Clean(o.place)'
    <2> SUFFICES ASSUME Written(o) PROVE Clean(o.place)'
      OBVIOUS
    <2>1. Records(o.place) = {}
      BY <1>2 DEF Written
    <2>2. Records(o.place)' = {}
      BY <1>4, <2>1 DEF Records, ObjectIds
    <2>3. want'[o.place] = NoBody
      BY <1>2, <1>4 DEF IInv, TypeOK
    <2>4. assetBytes(o.place)' = NoBody
      BY <1>6 DEF assetBytes
    <2> QED  BY <2>2, <2>3, <2>4 DEF Clean, RecordsAre
  <1>9. nextObject' \in Nat /\ nextObject' >= nextObject
    BY <1>4 DEF IInv, TypeOK
  <1>10. DOMAIN assets' \subseteq Place /\ \A x \in DOMAIN assets' : assets'[x] \in Bodies
    BY <1>6 DEF IInv, TypeOK
  <1>11. want' \in [Place -> Bodies \cup {NoBody}]
    BY <1>2, <1>4 DEF IInv, TypeOK
  <1>12. /\ ObjectIds' = ObjectIds
         /\ \A i \in ObjectIds : /\ i \in 1..MaxObjects /\ i < nextObject'
                                 /\ objects'[i] = objects[i]
                                 /\ objects[i] \in Object
    BY <1>4 DEF IInv, TypeOK, Numbered, ObjectIds
  <1>13. r.step # "remove"
    BY <1>3
  <1> QED
    BY <1>1, <1>4, <1>5, <1>7, <1>8, <1>9, <1>10, <1>11, <1>12, <1>13,
       WriteStep

-----------------------------------------------------------------------------
(* The steps that insert and delete buckets.                               *)

LEMMA CreateInsertInvariant ==
  ASSUME IInv, NEW p \in Procs, CreateInsert(p)
  PROVE  IInv'
  <1>1. PICK o \in Request : o = req[p] /\ Sound(o)
    BY DEF IInv, TypeOK
  <1>2. o.op = "createBucket" /\ o.place[1] \in Names /\ o.place \notin Writes(o)
    BY <1>1, WritesFacts DEF CreateInsert, At, Sound, Request
  <1>3. PICK r \in Request : r = Idle /\ r.step = "idle"
    BY IdleFacts
  <1>4. /\ Goto(p, r) /\ nextBucket <= MaxBuckets
        /\ buckets' = With(buckets, nextBucket, o.place[1])
        /\ nextBucket' = nextBucket + 1
        /\ UNCHANGED <<objects, assets, nextObject, want, crossed>>
    BY <1>1, <1>3 DEF CreateInsert, Finish
  <1>5. /\ nextBucket \in Nat \ {0} /\ MaxBuckets \in Nat
        /\ \A i \in BucketIds : /\ i \in 1..MaxBuckets /\ i < nextBucket
                                /\ buckets[i] \in Names
    BY BoundAssumption DEF IInv, TypeOK, Numbered
  <1>6. /\ BucketIds' = BucketIds \cup {nextBucket}
        /\ buckets'[nextBucket] = o.place[1]
        /\ \A i \in BucketIds : i # nextBucket => buckets'[i] = buckets[i]
    BY <1>4 DEF With, BucketIds
  <1>7. nextBucket \notin BucketIds
    BY <1>5
  <1>8. ASSUME NEW s \in Request, Sound(s) PROVE Sound(s)'
    <2>1. ObjectIds' = ObjectIds
      BY <1>4 DEF ObjectIds
    <2>2. s.step \in {"check", "remove"} =>
            /\ s.op = "deleteBucket" /\ s.id < nextBucket'
            /\ s.id \in BucketIds' => buckets'[s.id] = s.place[1]
      <3> SUFFICES ASSUME s.step \in {"check", "remove"}
                   PROVE  /\ s.op = "deleteBucket" /\ s.id < nextBucket'
                          /\ s.id \in BucketIds' => buckets'[s.id] = s.place[1]
        OBVIOUS
      <3>1. /\ s.id \in Nat /\ s.id < nextBucket /\ s.op = "deleteBucket"
            /\ s.id \in BucketIds => buckets[s.id] = s.place[1]
        BY <1>8 DEF Sound, Request
      <3>2. s.id < nextBucket' /\ s.id # nextBucket
        BY <1>4, <1>5, <3>1
      <3> QED  BY <1>6, <3>1, <3>2
    <2> QED  BY <1>4, <1>8, <2>1, <2>2 DEF Sound
  <1>9. Sound(r)
    BY <1>3 DEF Sound, Storing
  <1>10. Sound(r)' /\ Silent(r)
    BY <1>3, <1>8, <1>9, IdleWrites
  <1>11. /\ req' \in [Procs -> Request] /\ \A q \in Procs : Sound(req[q])'
         /\ req'[p] = r /\ \A q \in Procs : q # p => req'[q] = req[q]
    BY <1>4, <1>8, <1>10, RequestsSound DEF IInv
  <1>12. \A i \in BucketIds' : i \in 1..MaxBuckets /\ buckets'[i] \in Names
    BY <1>2, <1>4, <1>5, <1>6, <1>7
  <1>13. TypeOK'
    <2>1. nextBucket' \in Nat
      BY <1>4, <1>5
    <2> QED  BY <1>4, <1>11, <1>12, <2>1 DEF IInv, TypeOK, ObjectIds
  <1>14. Numbered'
    <2>1. nextBucket' # 0 /\ \A i \in BucketIds' : i < nextBucket'
      <3>1. \A i \in BucketIds : i \in Nat /\ i < nextBucket
        BY <1>5
      <3> QED  BY <1>4, <1>5, <1>6, <3>1
    <2> QED  BY <1>4, <2>1 DEF IInv, Numbered, ObjectIds
  <1>15. \A x \in Place : Untouched(x)
    BY <1>4 DEF Untouched, Records, ObjectIds, assetBytes
  <1>16. PlacesSound'
    BY <1>1, <1>2, <1>4, <1>10, <1>11, <1>15, PlaceStep DEF IInv
  <1>17. \A n \in Names : Named(n) # {} => Named(n)' # {}
    BY <1>6, <1>7 DEF Named
  <1>18. \A n \in Names : In(n)' = In(n)
    BY <1>4 DEF In, ObjectIds
  <1>19. BucketsSound'
    BY <1>1, <1>3, <1>4, <1>10, <1>11, <1>17, <1>18, BucketStep DEF IInv
  <1> QED  BY <1>11, <1>13, <1>14, <1>16, <1>19 DEF IInv

LEMMA DeleteBucketRemoveInvariant ==
  ASSUME IInv, NEW p \in Procs, DeleteBucketRemove(p)
  PROVE  IInv'
  <1>1. PICK o \in Request : o = req[p] /\ Sound(o)
    BY DEF IInv, TypeOK
  <1>2. /\ o.op = "deleteBucket" /\ o.step = "remove"
        /\ o.id \in BucketIds => buckets[o.id] = o.place[1]
        /\ o.place \notin Writes(o)
    BY <1>1, WritesFacts DEF DeleteBucketRemove, At, Sound, Request
  <1>3. PICK r \in Request : r = Idle /\ r.step = "idle"
    BY IdleFacts
  <1>4. /\ Goto(p, r) /\ buckets' = Without(buckets, o.id)
        /\ UNCHANGED <<objects, assets, nextBucket, nextObject, want, crossed>>
    BY <1>1, <1>3 DEF DeleteBucketRemove, Finish
  <1>5. BucketIds' = BucketIds \ {o.id} /\ \A i \in BucketIds' : buckets'[i] = buckets[i]
    BY <1>4 DEF Without, BucketIds
  <1>6. ASSUME NEW s \in Request, Sound(s) PROVE Sound(s)'
    BY <1>4, <1>5, <1>6 DEF Sound, ObjectIds
  <1>7. Sound(r)
    BY <1>3 DEF Sound, Storing
  <1>8. Sound(r)' /\ Silent(r)
    BY <1>3, <1>6, <1>7, IdleWrites
  <1>9. /\ req' \in [Procs -> Request] /\ \A q \in Procs : Sound(req[q])'
        /\ req'[p] = r /\ \A q \in Procs : q # p => req'[q] = req[q]
    BY <1>4, <1>6, <1>8, RequestsSound DEF IInv
  <1>10. TypeOK' /\ Numbered'
    <2>1. \A i \in BucketIds' : /\ i \in 1..MaxBuckets /\ buckets'[i] \in Names
                                /\ i < nextBucket
      BY <1>5 DEF IInv, TypeOK, Numbered
    <2>2. TypeOK'
      BY <1>4, <1>9, <2>1 DEF IInv, TypeOK, ObjectIds
    <2>3. Numbered'
      BY <1>4, <2>1 DEF IInv, Numbered, ObjectIds
    <2> QED  BY <2>2, <2>3
  <1>11. \A x \in Place : Untouched(x)
    BY <1>4 DEF Untouched, Records, ObjectIds, assetBytes
  <1>12. PlacesSound'
    BY <1>1, <1>2, <1>4, <1>8, <1>9, <1>11, PlaceStep DEF IInv
  <1>13. BucketsSound'
    <2> SUFFICES ASSUME NEW n \in Names \ crossed
                 PROVE  /\ In(n) # {} => Named(n)' # {}
                        /\ \A q, s \in Procs :
                             Deleting(req'[q], n) /\ n \in Writes(req'[s]) => q = s
                        /\ \A q \in Procs :
                             /\ n \in Writes(req'[q]) /\ ~Deleting(req'[q], n)
                                  => Named(n)' # {}
                             /\ Deleting(req'[q], n) /\ req'[q].step = "remove"
                                  => In(n) = {}
      BY <1>4 DEF BucketsSound, Writes, Deleting, In, ObjectIds
    <2>1. n \notin Writes(r) /\ ~Deleting(r, n)
      BY <1>8, SilentFacts
    <2>2. \A q, s \in Procs : Deleting(req'[q], n) /\ n \in Writes(req'[s]) => q = s
      BY <1>9, <2>1 DEF BucketsSound, IInv
    <2>3. \A q \in Procs : Deleting(req'[q], n) /\ req'[q].step = "remove"
                             => In(n) = {}
      BY <1>9, <2>1 DEF BucketsSound, IInv
    <2>4. CASE n = o.place[1]
      <3>1. Deleting(req[p], n) /\ In(n) = {}
        BY <1>1, <1>2, <2>4 DEF BucketsSound, IInv, Deleting
      <3>2. \A q \in Procs : n \notin Writes(req'[q])
        BY <1>9, <2>1, <3>1 DEF BucketsSound, IInv
      <3> QED  BY <2>2, <2>3, <3>1, <3>2
    <2>5. CASE n # o.place[1]
      <3>1. Named(n)' = Named(n)
        BY <1>2, <1>5, <2>5 DEF Named
      <3>2. \A q \in Procs : n \in Writes(req'[q]) /\ ~Deleting(req'[q], n)
                               => Named(n) # {}
        BY <1>9, <2>1 DEF BucketsSound, IInv
      <3>3. In(n) # {} => Named(n) # {}
        BY DEF BucketsSound, IInv
      <3> QED  BY <2>2, <2>3, <3>1, <3>2, <3>3
    <2> QED  BY <2>4, <2>5
  <1> QED  BY <1>9, <1>10, <1>12, <1>13 DEF IInv

-----------------------------------------------------------------------------
LEMMA InitInvariant ==
  ASSUME Init PROVE IInv
  <1>1. /\ BucketIds = {} /\ ObjectIds = {} /\ DOMAIN assets = {}
    BY DEF Init, Nothing, BucketIds, ObjectIds
  <1>2. \A p \in Procs : req[p] = Idle
    BY DEF Init
  <1>3. TypeOK
    BY <1>1, IdleFacts DEF Init, TypeOK
  <1>4. Numbered
    BY <1>1 DEF Init, Numbered
  <1>5. \A p \in Procs : Sound(req[p])
    BY <1>2, IdleFacts DEF Sound, Storing
  <1>6. \A p \in Procs : /\ \A x : x \notin Writes(req[p])
                         /\ \A n : ~Deleting(req[p], n)
    BY <1>2, IdleFacts, IdleWrites, SilentFacts
  <1>7. \A x \in Place : Clean(x)
    BY <1>1 DEF Init, Clean, RecordsAre, Records, assetBytes
  <1>8. PlacesSound
    BY <1>6, <1>7 DEF PlacesSound
  <1>9. BucketsSound
    BY <1>1, <1>6 DEF BucketsSound, In
  <1> QED  BY <1>3, <1>4, <1>5, <1>8, <1>9 DEF IInv

LEMMA StutterInvariant ==
  ASSUME IInv, UNCHANGED vars PROVE IInv'
  <1> USE DEF vars
  <1>1. TypeOK' /\ Numbered'
    BY DEF IInv, TypeOK, Numbered, BucketIds, ObjectIds
  <1>2. \A p \in Procs : Sound(req[p])'
    BY DEF IInv, Sound, BucketIds, ObjectIds
  <1>3. PlacesSound'
    BY DEF IInv, PlacesSound, Quiet, Writes, Clean, Written, RecordsAre,
           Records, ObjectIds, assetBytes
  <1>4. BucketsSound'
    BY DEF IInv, BucketsSound, In, Named, BucketIds, ObjectIds, Deleting, Writes
  <1> QED  BY <1>1, <1>2, <1>3, <1>4 DEF IInv

LEMMA StepInvariant ==
  ASSUME IInv, Next PROVE IInv'
  <1>1. PICK p \in Procs :
          \/ \E x \in Place :
               \/ CreateBucket(p, x) \/ DeleteBucket(p, x)
               \/ \E b \in Bodies : PutObject(p, x, b)
               \/ \E source \in Place : CopyObject(p, x, source)
               \/ DeleteObject(p, x) \/ GetObject(p, x)
          \/ CreateInsert(p) \/ DeleteBucketCheck(p) \/ DeleteBucketRemove(p)
          \/ CopySource(p) \/ CopyRead(p)
          \/ StoreAsset(p) \/ StoreFind(p) \/ StoreRecord(p)
          \/ DeleteLookup(p) \/ DeleteRecord(p) \/ DeleteAsset(p)
          \/ GetLookup(p) \/ GetFetch(p)
    BY DEF Next
  <1> QED
    BY <1>1, BeginningsInvariant, ReadsInvariant, CreateInsertInvariant,
       DeleteBucketRemoveInvariant, StoreAssetInvariant, StoreRecordInvariant,
       DeleteRecordInvariant, DeleteAssetInvariant

(* The invariant that the theorems below rest on.                          *)
THEOREM Invariant == Spec => []IInv
  <1>1. IInv /\ [Next]_vars => IInv'
    BY StepInvariant, StutterInvariant
  <1> QED  BY <1>1, InitInvariant, PTL DEF Spec

(* The stores hold what their types say, and no id exceeds its bound.      *)
THEOREM TypeCorrect == Spec => []TypeOK
  BY Invariant, PTL DEF IInv

(* A place whose writers came one after the other holds what the last of   *)
(* them made of it: one record with the ETag of the stored bytes, or       *)
(* neither record nor bytes, whatever was copied from it meanwhile.        *)
THEOREM PlacesAgree == Spec => []PlacesFollowWrites
  <1>1. ASSUME IInv PROVE PlacesFollowWrites
    <2> SUFFICES ASSUME NEW x \in Place \ crossed, Quiet(x)
                 PROVE  /\ {objects[i].etag : i \in Records(x)} = {want[x]} \ {NoBody}
                        /\ Cardinality(Records(x)) <= 1
                        /\ assetBytes(x) = want[x]
      BY DEF PlacesFollowWrites
    <2>1. RecordsAre(x, want[x]) /\ assetBytes(x) = want[x]
      BY <1>1 DEF IInv, PlacesSound, Clean
    <2>2. CASE want[x] = NoBody
      <3>1. Records(x) = {}
        BY <2>1, <2>2 DEF RecordsAre
      <3>2. Cardinality(Records(x)) = 0
        BY <3>1, FS_EmptySet
      <3> QED  BY <2>1, <2>2, <3>1, <3>2
    <2>3. CASE want[x] # NoBody
      <3>1. PICK i \in ObjectIds : Records(x) = {i} /\ objects[i].etag = want[x]
        BY <2>1, <2>3 DEF RecordsAre
      <3>2. Cardinality(Records(x)) = 1
        BY <3>1, FS_Singleton
      <3>3. {objects[j].etag : j \in Records(x)} = {want[x]}
        BY <3>1
      <3> QED  BY <2>1, <2>3, <3>2, <3>3
    <2> QED  BY <2>2, <2>3
  <1> QED  BY <1>1, Invariant, PTL

(* An object is left without its bucket only when a write met the deletion *)
(* of the bucket.                                                          *)
THEOREM OrphansComeFromRaces == Spec => []OrphansOnlyFromRaces
  <1>1. IInv => OrphansOnlyFromRaces
    BY DEF IInv, BucketsSound, OrphansOnlyFromRaces
  <1> QED  BY <1>1, Invariant, PTL

=============================================================================
