------------------------------ MODULE SQSProofs -------------------------------
(***************************************************************************)
(* Proofs about SQS, for every set of requests, queue names and operations *)
(* and every bound.  The properties are about what a request does with a   *)
(* record it looked up in an earlier step, so the inductive invariant says *)
(* what stays true of the locals of a request while others run (Sound):    *)
(* its clock is not ahead, its queue id still means the queue of its name  *)
(* or no queue at all, the message it is about to delete was delivered,    *)
(* and the messages a purge has still to visit cover the old ones of the   *)
(* queue.  Around it stand the numbering of the records and the receipt    *)
(* handles, one for each receive.                                          *)
(***************************************************************************)
EXTENDS SQS, FiniteSetTheorems, SequenceTheorems,
        WellFoundedInduction, TLAPS

(* Ids are given out in order, and only given ids are in use.              *)
Numbered ==
  /\ \A i \in MsgIds : i < nextMsg
  /\ \A i \in QueueIds : i \in 1..(nextQueue - 1)
  /\ nextMsg \in 1..(MaxMessages + 1) /\ nextQueue # 0
  /\ late \subseteq 1..(nextMsg - 1)

(* The handles given for a message are the first ones, as many as it was   *)
(* received, and the last of them is the one it carries.                   *)
Receipts ==
  /\ \A i \in MsgIds :
       /\ messages[i].receipt = <<i, messages[i].count>>
       /\ \A k \in 0..MaxReceives :
            <<i, k>> \in given <=> k \in 1..messages[i].count
  /\ \A h \in given : h[1] < nextMsg

(* Message i was received, or is gone.                                     *)
Delivered(i) == i < nextMsg /\ (i \in MsgIds => messages[i].count > 0)

(* A purge or deletion has still to visit every message of its queue that  *)
(* was there when it listed them; the ones of a queue being deleted that   *)
(* came later were sent late.                                              *)
Emptying(r) ==
  /\ r.mark <= nextMsg
  /\ \A i \in r.todo :
       i < nextMsg /\ (i \in MsgIds => messages[i].queue = r.name)
  /\ \A i \in InQueue(r.name) :
       /\ i < r.mark => i \in r.todo
       /\ i >= r.mark /\ r.op = "destroy" => i \in late

(* A creation that is to insert was overtaken by the queues of its name:   *)
(* their ids are given out since it looked the name up.                    *)
Overtaken(r) ==
  r.mark <= nextQueue /\ \A i \in Named(r.name) : i >= r.mark

(* What the locals of a request still mean while other requests run.       *)
Sound(r) ==
  /\ r.now <= clock
  /\ r.qid < nextQueue
  /\ r.qid \in QueueIds => queues[r.qid].name = r.name
  /\ r.step \in {"send", "scan", "reserve"} => r.left > 0
  /\ r.step = "reserve" => r.todo # {}
  /\ r.step \in {"match", "apply"} =>
       r.handles # <<>> /\ \A k \in DOMAIN r.handles : r.handles[k] \in given
  /\ r.step = "apply" => Delivered(r.target)
  /\ r.step = "merge" => r.names \subseteq TagKeys
  /\ r.step \in {"list", "drop"} => r.op \in {"destroy", "purge"}
  /\ r.step = "drop" => Emptying(r)
  /\ r.step = "insert" => Overtaken(r)

IInv == /\ TypeOK /\ Numbered /\ Receipts
        /\ \A p \in Procs : Sound(req[p])
        /\ OrphansOnlyFromRaces

-----------------------------------------------------------------------------
(* Lemmas about the operators of the model.                                *)

(* A set of naturals that is not empty has a least element, the one Least  *)
(* takes: the intervals up to its members are finite, so one of them holds *)
(* no other.                                                               *)
LEMMA LeastExists ==
  ASSUME NEW S \in SUBSET Nat, S # {}
  PROVE  Least(S) \in S /\ \A j \in S : Least(S) <= j
  <1> DEFINE Below == {1..n : n \in S}
  <1>1. Below \subseteq FiniteSubsetsOf(Nat)
    <2>1. \A n \in S : IsFiniteSet(1..n) /\ 1..n \subseteq Nat
      BY FS_Interval
    <2> QED  BY <2>1 DEF FiniteSubsetsOf
  <1>2. \E x \in Below : TRUE
    OBVIOUS
  <1>3. PICK m \in S : \A y \in Below :
                         ~(<<y, 1..m>> \in StrictSubsetOrdering(Nat))
    <2> HIDE DEF Below
    <2>1. \E x \in Below : \A y \in Below :
                             ~(<<y, x>> \in StrictSubsetOrdering(Nat))
      BY <1>1, <1>2, WFMin, FS_StrictSubsetOrderingWellFounded
    <2> QED  BY <2>1 DEF Below
  <1>4. \A j \in S : m <= j
    <2> SUFFICES ASSUME NEW j \in S, j < m PROVE FALSE
      OBVIOUS
    <2>1. 1..j \in Below /\ 1..m \in Below
      OBVIOUS
    <2>2. 1..j \subseteq 1..m /\ 1..j # 1..m
      <3>1. m \in 1..m /\ m \notin 1..j
        OBVIOUS
      <3> QED  BY <3>1
    <2>3. <<1..j, 1..m>> \in StrictSubsetOrdering(Nat)
      BY <1>1, <2>1, <2>2 DEF StrictSubsetOrdering, FiniteSubsetsOf
    <2> QED  BY <1>3, <2>1, <2>3
  <1> QED  BY <1>4 DEF Least

LEMMA NamedIds ==
  ASSUME TypeOK, NEW n
  PROVE  Named(n) \subseteq Nat
  BY DEF TypeOK, Named

(* The handles given for a message are as many as it was received.         *)
LEMMA IssuedCount ==
  ASSUME TypeOK, Receipts, NEW i \in MsgIds
  PROVE  Issued(i) = messages[i].count
  <1> DEFINE n == messages[i].count
             Hs == {h \in given : h[1] = i}
             f == [k \in 1..n |-> <<i, k>>]
  <1>1. n \in Nat /\ i \in 1..MaxMessages /\ n \in 0..MaxReceives
    BY DEF TypeOK, Message, Receipts, Handle
  <1>2. Hs = {<<i, k>> : k \in 1..n}
    <2>1. \A k \in 0..MaxReceives : <<i, k>> \in given <=> k \in 1..n
      BY DEF Receipts
    <2>2. \A h \in Hs : \E k \in 0..MaxReceives : h = <<i, k>>
      BY DEF TypeOK, Handle
    <2>3. 1..n \subseteq 0..MaxReceives
      BY <1>1, BoundAssumption
    <2>4. ASSUME NEW h \in Hs PROVE h \in {<<i, k>> : k \in 1..n}
      BY <2>1, <2>2
    <2>5. ASSUME NEW k \in 1..n PROVE <<i, k>> \in Hs
      BY <2>1, <2>3
    <2> QED  BY <2>4, <2>5
  <1> HIDE DEF Hs, n
  <1>3. f \in Bijection(1..n, Hs)
    BY <1>2 DEF Bijection, Injection, Surjection, IsInjective
  <1>4. IsFiniteSet(1..n) /\ Cardinality(1..n) = n
    BY <1>1, FS_Interval
  <1>5. Cardinality(1..n) = Cardinality(Hs)
    BY <1>3, <1>4, FS_Bijection DEF ExistsBijection
  <1> QED  BY <1>4, <1>5 DEF Issued, Hs, n

LEMMA IdleSound ==
  ASSUME TypeOK, Numbered
  PROVE  Idle \in Request /\ Sound(Idle)
  <1>1. SomeName \in QNames
    BY NameAssumption DEF SomeName
  <1>2. Idle \in Request
    BY <1>1 DEF Idle, Request, Steps
  <1>3. 0 < nextQueue /\ 0 <= clock
    BY DEF TypeOK, Numbered
  <1>4. 0 \notin QueueIds
    BY DEF TypeOK, Numbered
  <1> QED  BY <1>2, <1>3, <1>4 DEF Sound, Idle

-----------------------------------------------------------------------------
(* How the locals of the requests keep their meaning.                      *)

(* A step of request p, which goes on with locals r, keeps every request   *)
(* sound when r is sound after it and it disturbs none of the others.      *)
LEMMA RequestsSound ==
  ASSUME TypeOK, \A q \in Procs : Sound(req[q]),
         NEW p \in Procs, NEW r \in Request, Goto(p, r), Sound(r)',
         \A q \in Procs, s \in Request : s = req[q] /\ Sound(s) => Sound(s)'
  PROVE  req' \in [Procs -> Request] /\ \A q \in Procs : Sound(req[q])'
  <1>1. req' \in [Procs -> Request]
    BY DEF Goto, TypeOK
  <1>2. ASSUME NEW q \in Procs PROVE Sound(req[q])'
    <2>1. PICK s \in Request : s = req'[q]
      BY <1>1
    <2>2. Sound(s)'
      <3>1. CASE q = p
        <4>1. s = r
          BY <2>1, <3>1 DEF Goto, TypeOK
        <4> QED  BY <4>1
      <3>2. CASE q # p
        <4>1. s = req[q]
          BY <2>1, <3>2 DEF Goto, TypeOK
        <4> QED  BY <4>1
      <3> QED  BY <3>1, <3>2
    <2> QED  BY <2>1, <2>2 DEF Sound, Emptying, Delivered, InQueue,
                               Overtaken, Named
  <1> QED  BY <1>1, <1>2

(* A step that touches no record, handle or clock disturbs no request.     *)
LEMMA LocalStep ==
  ASSUME IInv, NEW p \in Procs, NEW r \in Request, Sound(r), Goto(p, r),
         UNCHANGED <<stored, clock, history>>
  PROVE  IInv'
  <1> USE DEF IInv, stored, history, MsgIds, QueueIds, InQueue, Named
  <1>1. \A s \in Request : Sound(s) => Sound(s)'
    BY DEF Sound, Emptying, Delivered, Overtaken
  <1>2. req' \in [Procs -> Request] /\ \A q \in Procs : Sound(req[q])'
    BY <1>1, RequestsSound
  <1> QED  BY <1>2 DEF TypeOK, Numbered, Receipts, OrphansOnlyFromRaces

(* What the steps that receive, retime and delete messages have in common: *)
(* no message appears, moves or loses receives.                            *)
MessagesMayGo ==
  /\ MsgIds' \subseteq MsgIds
  /\ \A i \in MsgIds' : /\ messages'[i].queue = messages[i].queue
                        /\ messages'[i].count >= messages[i].count
  /\ given \subseteq given'
  /\ UNCHANGED <<queues, nextQueue, nextMsg, clock, late>>

LEMMA MessagesMayGoStep ==
  ASSUME IInv, NEW p \in Procs, NEW r \in Request, Goto(p, r), Sound(r)',
         MessagesMayGo, \A i \in MsgIds' : messages'[i] \in Message,
         given' \subseteq Handle, Receipts'
  PROVE  IInv'
  <1> USE DEF IInv, MessagesMayGo
  <1>1. ASSUME NEW s \in Request, Sound(s) PROVE Sound(s)'
    <2>1. s.step = "drop" => Emptying(s)'
      BY <1>1 DEF Sound, Emptying, InQueue
    <2>2. s.step = "apply" => Delivered(s.target)'
      <3>1. \A i \in MsgIds' : messages[i].count \in Nat
                               /\ messages'[i].count \in Nat
        BY DEF TypeOK, Message
      <3> QED  BY <1>1, <3>1 DEF Sound, Delivered
    <2> QED  BY <1>1, <2>1, <2>2 DEF Sound, QueueIds, Overtaken, Named
  <1>2. req' \in [Procs -> Request] /\ \A q \in Procs : Sound(req[q])'
    BY <1>1, RequestsSound
  <1>3. TypeOK'
    BY <1>2 DEF TypeOK, QueueIds
  <1>4. Numbered'
    BY DEF Numbered, QueueIds
  <1>5. OrphansOnlyFromRaces'
    BY DEF OrphansOnlyFromRaces, Named, QueueIds
  <1> QED  BY <1>2, <1>3, <1>4, <1>5

(* What the steps that insert, change and delete queue records have in     *)
(* common: a new record has a new id, an old one keeps its name.           *)
QueuesMayChange ==
  /\ nextQueue' \in Nat /\ nextQueue' >= nextQueue
  /\ \A i \in QueueIds' : /\ i \in 1..(nextQueue' - 1)
                          /\ queues'[i] \in Queue
                          /\ i \in QueueIds \/ i >= nextQueue
                          /\ i \in QueueIds => queues'[i].name = queues[i].name
  /\ UNCHANGED <<messages, nextMsg, clock, history>>

LEMMA QueuesMayChangeStep ==
  ASSUME IInv, NEW p \in Procs, Finish(p), QueuesMayChange,
         \A i \in MsgIds : Named(messages[i].queue)' = {}
                             => Named(messages[i].queue) = {} \/ i \in late
  PROVE  IInv'
  <1> USE DEF IInv, QueuesMayChange, history
  <1>1. ASSUME NEW s \in Request, Sound(s) PROVE Sound(s)'
    <2>1. s.qid \in Nat /\ nextQueue \in Nat
      BY DEF Request, TypeOK
    <2>2. s.qid < nextQueue'
      BY <1>1, <2>1 DEF Sound
    <2>3. s.qid \in QueueIds' => queues'[s.qid].name = s.name
      BY <1>1, <2>1 DEF Sound
    <2>4. s.step = "drop" => Emptying(s)'
      BY <1>1 DEF Sound, Emptying, InQueue, MsgIds
    <2>5. s.step = "apply" => Delivered(s.target)'
      BY <1>1 DEF Sound, Delivered, MsgIds
    <2>6. s.step = "insert" => Overtaken(s)'
      <3> SUFFICES ASSUME s.step = "insert" PROVE Overtaken(s)'
        OBVIOUS
      <3>1. s.mark \in Nat /\ Overtaken(s)
        BY <1>1 DEF Sound, Request
      <3>2. \A i \in QueueIds' : i \in Nat
        OBVIOUS
      <3> QED  BY <2>1, <3>1, <3>2 DEF Overtaken, Named
    <2> QED  BY <1>1, <2>2, <2>3, <2>4, <2>5, <2>6 DEF Sound
  <1>2. TypeOK' /\ \A q \in Procs : Sound(req[q])'
    <2>1. PICK r \in Request : r = Idle /\ Sound(r)
      BY IdleSound
    <2>2. Goto(p, r) /\ Sound(r)'
      BY <1>1, <2>1 DEF Finish
    <2>3. req' \in [Procs -> Request] /\ \A q \in Procs : Sound(req[q])'
      BY <1>1, <2>2, RequestsSound
    <2> QED  BY <2>3 DEF TypeOK, MsgIds
  <1>3. Numbered'
    BY DEF Numbered, MsgIds, TypeOK
  <1>4. Receipts'
    BY DEF Receipts, MsgIds
  <1>5. OrphansOnlyFromRaces'
    BY DEF OrphansOnlyFromRaces, MsgIds
  <1> QED  BY <1>2, <1>3, <1>4, <1>5

-----------------------------------------------------------------------------
(* The steps that only read: each one leaves sound locals behind.          *)

LEMMA OpenedRequest ==
  ASSUME IInv, NEW n \in QNames, Named(n) # {},
         NEW op \in AllOps, NEW step \in Steps
  PROVE  /\ Opened(op, n, step) \in Request
         /\ Opened(op, n, step).op = op
         /\ Opened(op, n, step).step = step
         /\ Opened(op, n, step).name = n
         /\ Opened(op, n, step).qid = Least(Named(n))
         /\ Opened(op, n, step).now = 0
  <1>1. Idle \in Request
    BY IdleSound DEF IInv
  <1>2. Least(Named(n)) \in Nat
    BY NamedIds, LeastExists DEF IInv
  <1>3. Opened(op, n, step) \in Request
    BY <1>1, <1>2 DEF Opened, Request
  <1> QED  BY <1>3 DEF Opened, Idle

(* An operation that has just looked its queue up is sound.                *)
LEMMA BegunSound ==
  ASSUME IInv, NEW r \in Request, Named(r.name) # {},
         r.qid = Least(Named(r.name)), r.now = 0,
         r.step \in {"list", "send", "scan", "match", "patch", "merge"},
         r.step = "list" => r.op \in {"destroy", "purge"},
         r.step \in {"send", "scan"} => r.left > 0,
         r.step = "merge" => r.names \subseteq TagKeys,
         r.step = "match" => /\ r.handles # <<>>
                             /\ \A j \in DOMAIN r.handles : r.handles[j] \in given
  PROVE  Sound(r)
  <1>1. r.qid \in Named(r.name)
    BY NamedIds, LeastExists DEF IInv
  <1>2. r.qid < nextQueue /\ queues[r.qid].name = r.name
    <2>1. r.qid \in QueueIds /\ queues[r.qid].name = r.name
      BY <1>1 DEF Named
    <2>2. r.qid \in 1..(nextQueue - 1)
      BY <2>1 DEF IInv, Numbered
    <2>3. nextQueue \in Nat
      BY DEF IInv, TypeOK
    <2> QED  BY <2>1, <2>2, <2>3
  <1>3. r.now <= clock
    BY DEF IInv, TypeOK
  <1> QED  BY <1>2, <1>3 DEF Sound

LEMMA BatchHandles ==
  ASSUME TypeOK, NEW hs \in Batches
  PROVE  hs \in Seq(Handle) /\ hs # <<>> /\ \A j \in DOMAIN hs : hs[j] \in given
  <1>1. PICK k \in 1..MaxBatch : hs \in [1..k -> given]
    BY DEF Batches
  <1>2. k \in Nat /\ k > 0 /\ given \subseteq Handle
    BY BoundAssumption DEF TypeOK
  <1>3. hs \in Seq(given)
    BY <1>1, <1>2
  <1> QED  BY <1>1, <1>2, <1>3

(* Beginning an operation keeps the invariant.                             *)
LEMMA BeginInvariant ==
  ASSUME IInv, NEW p \in Procs, Begin(p)
  PROVE  IInv'
  <1>0. /\ Timeouts \subseteq Nat /\ Ops \subseteq AllOps
        /\ \A k \in 1..MaxBatch : k \in Nat /\ k > 0
    BY TimeAssumption, BoundAssumption, OpsAssumption
  <1>1. PICK n \in QNames :
          \/ CreateFind(p, n)
          \/ \E op \in Ops : EmptyBegin(p, op, n)
          \/ \E k \in 1..MaxBatch : SendBegin(p, n, k)
          \/ \E k \in 1..MaxBatch, t \in Timeouts : ReceiveBegin(p, n, k, t)
          \/ \E hs \in Batches :
               \/ HandlesBegin(p, "delete", n, hs, 0)
               \/ \E t \in Timeouts : HandlesBegin(p, "change", n, hs, t)
          \/ \E names \in SUBSET (Extra \cup {"timeout", "delay"}) :
               SetBegin(p, n, names)
          \/ \E op \in Ops, keys \in SUBSET TagKeys : TagBegin(p, op, n, keys)
    BY DEF Begin
  <1>2. CASE CreateFind(p, n)
    <2>1. PICK o \in Request : o = Idle /\ Sound(o)
      BY IdleSound DEF IInv
    <2>2. PICK r : r = [o EXCEPT !.op = "create", !.step = "insert",
                                 !.name = n, !.mark = nextQueue]
      OBVIOUS
    <2>3. r \in Request
      BY <2>1, <2>2 DEF Request, AllOps, Steps, IInv, TypeOK
    <2>4. /\ r.step = "insert" /\ r.qid = 0 /\ r.now = 0
          /\ r.name = n /\ r.mark = nextQueue
      BY <2>1, <2>2 DEF Idle
    <2>5. 0 \notin QueueIds /\ 0 < nextQueue /\ 0 <= clock
      BY DEF IInv, TypeOK, Numbered
    <2>6. Sound(r)
      <3>1. Named(n) = {} /\ nextQueue \in Nat
        BY <1>2 DEF CreateFind, Absent, IInv, TypeOK
      <3> QED  BY <2>4, <2>5, <3>1 DEF Sound, Overtaken
    <2> QED  BY <1>2, <2>1, <2>2, <2>3, <2>6, LocalStep DEF CreateFind
  <1>3. ASSUME NEW op \in Ops, EmptyBegin(p, op, n)
        PROVE  IInv'
    <2>1. op \in AllOps /\ "list" \in Steps /\ Named(n) # {}
      BY <1>0, <1>3 DEF EmptyBegin, Open, AllOps, Steps
    <2>2. PICK o : o = Opened(op, n, "list")
      OBVIOUS
    <2>3. /\ o \in Request /\ o.op = op /\ o.step = "list"
          /\ o.name = n /\ o.qid = Least(Named(n)) /\ o.now = 0
      BY <2>1, <2>2, OpenedRequest
    <2>5. PICK r : r = o
      OBVIOUS
    <2>6. r \in Request
      BY <1>0, <2>3, <2>5 DEF Request
    <2>7. /\ r.op = op /\ r.step = "list" /\ r.name = n
          /\ r.qid = Least(Named(n)) /\ r.now = 0
      BY <2>3, <2>5 DEF Request
    <2>8. Sound(r)
      BY <1>0, <1>3, <2>1, <2>6, <2>7, BegunSound DEF EmptyBegin
    <2> QED  BY <1>3, <2>2, <2>5, <2>6, <2>8, LocalStep DEF EmptyBegin, Open
  <1>4. ASSUME NEW k \in 1..MaxBatch, SendBegin(p, n, k)
        PROVE  IInv'
    <2>1. "send" \in AllOps /\ "send" \in Steps /\ Named(n) # {}
      BY <1>0, <1>4 DEF SendBegin, Open, AllOps, Steps
    <2>2. PICK o : o = Opened("send", n, "send")
      OBVIOUS
    <2>3. /\ o \in Request /\ o.op = "send" /\ o.step = "send"
          /\ o.name = n /\ o.qid = Least(Named(n)) /\ o.now = 0
      BY <2>1, <2>2, OpenedRequest
    <2>5. PICK r : r = [o EXCEPT !.left = k]
      OBVIOUS
    <2>6. r \in Request
      BY <1>0, <2>3, <2>5 DEF Request
    <2>7. /\ r.op = "send" /\ r.step = "send" /\ r.name = n
          /\ r.qid = Least(Named(n)) /\ r.now = 0 /\ r.left = k
      BY <2>3, <2>5 DEF Request
    <2>8. Sound(r)
      BY <1>0, <1>4, <2>1, <2>6, <2>7, BegunSound
    <2> QED  BY <1>4, <2>2, <2>5, <2>6, <2>8, LocalStep DEF SendBegin, Open
  <1>5. ASSUME NEW k \in 1..MaxBatch, NEW t \in Timeouts,
               ReceiveBegin(p, n, k, t)
        PROVE  IInv'
    <2>1. "receive" \in AllOps /\ "scan" \in Steps /\ Named(n) # {}
      BY <1>0, <1>5 DEF ReceiveBegin, Open, AllOps, Steps
    <2>2. PICK o : o = Opened("receive", n, "scan")
      OBVIOUS
    <2>3. /\ o \in Request /\ o.op = "receive" /\ o.step = "scan"
          /\ o.name = n /\ o.qid = Least(Named(n)) /\ o.now = 0
      BY <2>1, <2>2, OpenedRequest
    <2>5. PICK r : r = [o EXCEPT !.left = k, !.timeout = t]
      OBVIOUS
    <2>6. r \in Request
      BY <1>0, <2>3, <2>5 DEF Request
    <2>7. /\ r.op = "receive" /\ r.step = "scan" /\ r.name = n
          /\ r.qid = Least(Named(n)) /\ r.now = 0 /\ r.left = k
      BY <2>3, <2>5 DEF Request
    <2>8. Sound(r)
      BY <1>0, <1>5, <2>1, <2>6, <2>7, BegunSound
    <2> QED  BY <1>5, <2>2, <2>5, <2>6, <2>8, LocalStep DEF ReceiveBegin, Open
  <1>6. ASSUME NEW op \in {"delete", "change"}, NEW hs \in Batches,
               NEW t \in Nat, HandlesBegin(p, op, n, hs, t)
        PROVE  IInv'
    <2>1. op \in AllOps /\ "match" \in Steps /\ Named(n) # {}
      BY <1>0, <1>6 DEF HandlesBegin, Open, AllOps, Steps
    <2>2. PICK o : o = Opened(op, n, "match")
      OBVIOUS
    <2>3. /\ o \in Request /\ o.op = op /\ o.step = "match"
          /\ o.name = n /\ o.qid = Least(Named(n)) /\ o.now = 0
      BY <2>1, <2>2, OpenedRequest
    <2>4. hs \in Seq(Handle) /\ hs # <<>> /\ \A j \in DOMAIN hs : hs[j] \in given
      BY BatchHandles DEF IInv
    <2>5. PICK r : r = [o EXCEPT !.handles = hs, !.timeout = t]
      OBVIOUS
    <2>6. r \in Request
      BY <1>0, <2>3, <2>4, <2>5 DEF Request
    <2>7. /\ r.op = op /\ r.step = "match" /\ r.name = n
          /\ r.qid = Least(Named(n)) /\ r.now = 0 /\ r.handles = hs
      BY <2>3, <2>5 DEF Request
    <2>8. Sound(r)
      BY <1>0, <1>6, <2>1, <2>6, <2>7, <2>4, BegunSound
    <2> QED  BY <1>6, <2>2, <2>5, <2>6, <2>8, LocalStep DEF HandlesBegin, Open
  <1>7. ASSUME NEW names \in SUBSET (Extra \cup {"timeout", "delay"}),
               SetBegin(p, n, names)
        PROVE  IInv'
    <2>1. "set" \in AllOps /\ "patch" \in Steps /\ Named(n) # {}
      BY <1>0, <1>7 DEF SetBegin, Open, AllOps, Steps
    <2>2. PICK o : o = Opened("set", n, "patch")
      OBVIOUS
    <2>3. /\ o \in Request /\ o.op = "set" /\ o.step = "patch"
          /\ o.name = n /\ o.qid = Least(Named(n)) /\ o.now = 0
      BY <2>1, <2>2, OpenedRequest
    <2>4. Found(n).extra \in SUBSET Extra
      BY <2>1, NamedIds, LeastExists DEF IInv, TypeOK, Found, Named, Queue
    <2>5. PICK r : r = [o EXCEPT !.names = names, !.base = Found(n).extra]
      OBVIOUS
    <2>6. r \in Request
      BY <1>0, <2>3, <2>4, <2>5 DEF Request
    <2>7. /\ r.op = "set" /\ r.step = "patch" /\ r.name = n
          /\ r.qid = Least(Named(n)) /\ r.now = 0
      BY <2>3, <2>5 DEF Request
    <2>8. Sound(r)
      BY <1>0, <1>7, <2>1, <2>6, <2>7, <2>4, BegunSound
    <2> QED  BY <1>7, <2>2, <2>5, <2>6, <2>8, LocalStep DEF SetBegin, Open
  <1>8. ASSUME NEW op \in Ops, NEW keys \in SUBSET TagKeys,
               TagBegin(p, op, n, keys)
        PROVE  IInv'
    <2>1. op \in AllOps /\ "merge" \in Steps /\ Named(n) # {}
      BY <1>0, <1>8 DEF TagBegin, Open, AllOps, Steps
    <2>2. PICK o : o = Opened(op, n, "merge")
      OBVIOUS
    <2>3. /\ o \in Request /\ o.op = op /\ o.step = "merge"
          /\ o.name = n /\ o.qid = Least(Named(n)) /\ o.now = 0
      BY <2>1, <2>2, OpenedRequest
    <2>5. PICK r : r = [o EXCEPT !.names = keys]
      OBVIOUS
    <2>6. r \in Request
      BY <1>0, <2>3, <2>5 DEF Request
    <2>7. /\ r.op = op /\ r.step = "merge" /\ r.name = n
          /\ r.qid = Least(Named(n)) /\ r.now = 0 /\ r.names = keys
      BY <2>3, <2>5 DEF Request
    <2>8. Sound(r)
      BY <1>0, <1>8, <2>1, <2>6, <2>7, BegunSound
    <2> QED  BY <1>8, <2>2, <2>5, <2>6, <2>8, LocalStep DEF TagBegin, Open
  <1> QED  BY <1>0, <1>1, <1>2, <1>3, <1>4, <1>5, <1>6, <1>7, <1>8

-----------------------------------------------------------------------------
(* Continuing one.  First CreateQueue and the emptying of a queue.         *)

LEMMA CreateInsertInvariant ==
  ASSUME IInv, NEW p \in Procs, NEW t \in Defaults, NEW d \in Defaults,
         CreateInsert(p, t, d)
  PROVE  IInv'
  <1> DEFINE q == [name |-> req[p].name, timeout |-> t, delay |-> d,
                   extra |-> {}, tags |-> {}]
  <1>1. queues' = With(queues, nextQueue, q) /\ nextQueue' = nextQueue + 1
    BY DEF CreateInsert
  <1>2. q \in Queue
    BY TimeAssumption DEF IInv, TypeOK, Request, Queue
  <1>3. nextQueue \in Nat \ {0} /\ \A i \in QueueIds : i \in 1..(nextQueue - 1)
    BY DEF IInv, TypeOK, Numbered
  <1> HIDE DEF q
  <1>4. /\ QueueIds' = QueueIds \cup {nextQueue} /\ queues'[nextQueue] = q
        /\ \A i \in QueueIds : queues'[i] = queues[i]
    BY <1>1, <1>3 DEF With, QueueIds
  <1>5. QueuesMayChange
    <2>1. nextQueue' \in Nat /\ nextQueue' >= nextQueue
      BY <1>1, <1>3
    <2>2. ASSUME NEW i \in QueueIds'
          PROVE  /\ i \in 1..(nextQueue' - 1) /\ queues'[i] \in Queue
                 /\ i \in QueueIds \/ i >= nextQueue
                 /\ i \in QueueIds => queues'[i].name = queues[i].name
      <3>1. CASE i = nextQueue
        BY <1>1, <1>2, <1>3, <1>4, <3>1
      <3>2. CASE i \in QueueIds
        BY <1>1, <1>3, <1>4, <3>2 DEF IInv, TypeOK
      <3> QED  BY <1>4, <3>1, <3>2
    <2>3. UNCHANGED <<messages, nextMsg, clock, history>>
      BY DEF CreateInsert
    <2> QED  BY <2>1, <2>2, <2>3 DEF QueuesMayChange
  <1>6. \A i \in MsgIds : messages'[i] = messages[i]
    BY DEF CreateInsert
  <1> QED
    <2>1. \A i \in MsgIds : Named(messages[i].queue)' = {}
                               => Named(messages[i].queue) = {} \/ i \in late
      BY <1>4, <1>6 DEF Named, QueueIds
    <2> QED  BY <1>5, <2>1, QueuesMayChangeStep DEF CreateInsert

LEMMA EmptyListInvariant ==
  ASSUME IInv, NEW p \in Procs, EmptyList(p)
  PROVE  IInv'
  <1>1. PICK o \in Request : o = req[p] /\ Sound(o)
    BY DEF IInv, TypeOK
  <1>2. PICK r : r = [o EXCEPT !.step = "drop", !.todo = Listed(o.name),
                               !.mark = nextMsg]
    OBVIOUS
  <1>3. Listed(o.name) = InQueue(o.name) /\ InQueue(o.name) \subseteq MsgIds
    BY DEF Listed, InQueue
  <1>4. r \in Request
    BY <1>2, <1>3 DEF Request, Steps, IInv, TypeOK
  <1>5. /\ r.step = "drop" /\ r.todo = InQueue(o.name) /\ r.mark = nextMsg
        /\ r.name = o.name /\ r.op = o.op /\ r.now = o.now /\ r.qid = o.qid
    BY <1>2, <1>3 DEF Request
  <1>6. o.step = "list"
    BY <1>1 DEF EmptyList
  <1>7. Emptying(r)
    <2>1. \A i \in MsgIds : i \in Nat /\ i < nextMsg
      BY DEF IInv, TypeOK, Numbered
    <2>2. nextMsg \in Nat
      BY DEF IInv, TypeOK
    <2> QED  BY <1>5, <2>1, <2>2 DEF Emptying, InQueue
  <1>8. Sound(r)
    BY <1>1, <1>5, <1>6, <1>7 DEF Sound
  <1> QED  BY <1>1, <1>2, <1>4, <1>8, LocalStep DEF EmptyList

LEMMA EmptyDropInvariant ==
  ASSUME IInv, NEW p \in Procs, EmptyDrop(p)
  PROVE  IInv'
  <1>1. PICK o \in Request : o = req[p] /\ Sound(o)
    BY DEF IInv, TypeOK
  <1>2. PICK i : i = Least(o.todo)
    OBVIOUS
  <1>3. o.todo # {} /\ o.step = "drop" /\ o.todo \subseteq 1..MaxMessages
    BY <1>1 DEF EmptyDrop, Request
  <1>4. i \in o.todo
    <2>1. o.todo \subseteq Nat
      BY <1>3
    <2> QED  BY <1>2, <1>3, <2>1, LeastExists
  <1>5. PICK r : r = [o EXCEPT !.todo = @ \ {i}]
    OBVIOUS
  <1>6. r \in Request
    BY <1>5 DEF Request
  <1>7. /\ r.step = o.step /\ r.todo = o.todo \ {i} /\ r.mark = o.mark
        /\ r.name = o.name /\ r.op = o.op /\ r.now = o.now /\ r.qid = o.qid
    BY <1>5 DEF Request
  <1>8. messages' = Without(messages, i)
    BY <1>1, <1>2 DEF EmptyDrop
  <1>9. MsgIds' = MsgIds \ {i} /\ \A j \in MsgIds' : messages'[j] = messages[j]
    BY <1>8 DEF Without, MsgIds
  <1>10. MessagesMayGo
    <2>1. \A j \in MsgIds : messages[j].count \in Nat
      BY DEF IInv, TypeOK, Message
    <2> QED  BY <1>9, <2>1 DEF MessagesMayGo, EmptyDrop, history
  <1>11. Receipts'
    BY <1>9 DEF IInv, Receipts, EmptyDrop, history
  <1>12. Emptying(r)'
    BY <1>1, <1>3, <1>7, <1>9, <1>10
    DEF Sound, Emptying, InQueue, MessagesMayGo
  <1>13. Sound(r)'
    BY <1>1, <1>3, <1>7, <1>10, <1>12 DEF Sound, MessagesMayGo, QueueIds
  <1>14. Goto(p, r)
    BY <1>1, <1>2, <1>5 DEF EmptyDrop
  <1>15. (\A j \in MsgIds' : messages'[j] \in Message) /\ given' \subseteq Handle
    BY <1>9 DEF IInv, TypeOK, EmptyDrop, history
  <1> QED
    BY <1>6, <1>10, <1>11, <1>13, <1>14, <1>15, MessagesMayGoStep

LEMMA EmptyEndInvariant ==
  ASSUME IInv, NEW p \in Procs, EmptyEnd(p)
  PROVE  IInv'
  <1>1. PICK o \in Request : o = req[p] /\ Sound(o)
    BY DEF IInv, TypeOK
  <1>2. o.step = "drop" /\ o.todo = {} /\ o.op \in {"destroy", "purge"}
    BY <1>1 DEF EmptyEnd, Sound
  <1>3. /\ QueueIds' = IF o.op = "destroy" THEN QueueIds \ {o.qid} ELSE QueueIds
        /\ \A i \in QueueIds' : queues'[i] = queues[i]
    BY <1>1 DEF EmptyEnd, Without, QueueIds
  <1>4. QueuesMayChange
    BY <1>3
    DEF QueuesMayChange, EmptyEnd, IInv, TypeOK, Numbered
  <1>5. ASSUME NEW i \in MsgIds, Named(messages[i].queue)' = {}
        PROVE  Named(messages[i].queue) = {} \/ i \in late
    <2>1. messages'[i] = messages[i]
      BY DEF EmptyEnd
    <2>2. ASSUME NEW k \in Named(messages[i].queue) PROVE i \in late
      <3>1. k \in QueueIds /\ queues[k].name = messages[i].queue
        BY DEF Named
      <3>2. k \notin QueueIds'
        BY <1>3, <1>5, <2>1, <3>1 DEF Named, QueueIds
      <3>3. k = o.qid /\ o.op = "destroy"
        BY <1>3, <3>1, <3>2
      <3>4. i \in InQueue(o.name)
        BY <1>1, <3>1, <3>3 DEF Sound, InQueue
      <3>5. i \in Nat /\ o.mark \in Nat
        BY DEF IInv, TypeOK, Request
      <3> QED  BY <1>1, <1>2, <3>3, <3>4, <3>5 DEF Sound, Emptying
    <2> QED  BY <2>2
  <1> QED  BY <1>4, <1>5, QueuesMayChangeStep DEF EmptyEnd

-----------------------------------------------------------------------------
(* SendMessage: the one step that adds a message.  A deletion that listed  *)
(* the queue before finds the new message late.                            *)

LEMMA SendInvariant ==
  ASSUME IInv, NEW p \in Procs, NEW d \in Timeouts, enqueueMessage(p, d)
  PROVE  IInv'
  <1> DEFINE m == [queue |-> req[p].name, receipt |-> <<nextMsg, 0>>,
                   after |-> clock + d, count |-> 0, first |-> 0]
  <1>1. PICK o \in Request : o = req[p] /\ Sound(o)
    BY DEF IInv, TypeOK
  <1>2. /\ o.op = "send" /\ o.step = "send" /\ nextMsg <= MaxMessages
        /\ messages' = With(messages, nextMsg, m) /\ nextMsg' = nextMsg + 1
        /\ late' = IF BeingDeleted(p) THEN late \cup {nextMsg} ELSE late
        /\ UNCHANGED <<queues, nextQueue, clock, given>>
    BY <1>1 DEF enqueueMessage, FreshId, At
  <1>3. nextMsg \in 1..MaxMessages /\ MaxMessages \in Nat
    BY <1>2, BoundAssumption DEF IInv, Numbered, TypeOK
  <1>4. m \in Message
    <2>1. clock + d \in Nat
      BY TimeAssumption DEF IInv, TypeOK
    <2>2. <<nextMsg, 0>> \in Handle
      BY <1>3, BoundAssumption DEF Handle
    <2> QED  BY <1>1, <2>1, <2>2 DEF Message, Request
  <1>5. m.queue = o.name /\ m.receipt = <<nextMsg, 0>> /\ m.count = 0
    BY <1>1
  <1> HIDE DEF m
  <1>6. nextMsg \notin MsgIds /\ \A i \in MsgIds : i \in Nat /\ i < nextMsg
    BY DEF IInv, Numbered, TypeOK
  <1>7. /\ MsgIds' = MsgIds \cup {nextMsg} /\ messages'[nextMsg] = m
        /\ \A i \in MsgIds : messages'[i] = messages[i]
    BY <1>2, <1>6 DEF With, MsgIds
  <1>8. late \subseteq late' /\ late' \subseteq late \cup {nextMsg}
    BY <1>2
  <1>9. ASSUME NEW q \in Procs, NEW s \in Request, s = req[q], Sound(s)
        PROVE  Sound(s)'
    <2>1. s.step = "drop" => Emptying(s)'
      <3> SUFFICES ASSUME s.step = "drop" PROVE Emptying(s)'
        OBVIOUS
      <3>1. /\ Emptying(s) /\ s.mark \in Nat /\ s.op \in {"destroy", "purge"}
            /\ s.todo \subseteq Nat
        BY <1>9 DEF Sound, Request
      <3>2. s.op = "destroy" /\ s.name = o.name => nextMsg \in late'
        <4> SUFFICES ASSUME s.op = "destroy", s.name = o.name
                     PROVE  BeingDeleted(p)
          BY <1>2
        <4> QED  BY <1>1, <1>9 DEF BeingDeleted
      <3>3. s.mark <= nextMsg' /\ \A i \in s.todo : i < nextMsg'
        BY <1>2, <1>3, <3>1 DEF Emptying
      <3>4. \A i \in s.todo : i \in MsgIds' => messages'[i].queue = s.name
        BY <1>3, <1>7, <3>1 DEF Emptying
      <3>5. ASSUME NEW i \in InQueue(s.name)'
            PROVE  /\ i < s.mark => i \in s.todo
                   /\ i >= s.mark /\ s.op = "destroy" => i \in late'
        <4>1. CASE i = nextMsg
          BY <1>3, <1>5, <1>7, <3>1, <3>2, <4>1 DEF Emptying, InQueue
        <4>2. CASE i \in InQueue(s.name)
          BY <1>8, <3>1, <4>2 DEF Emptying
        <4>3. i \in MsgIds' /\ messages'[i].queue = s.name
          BY DEF InQueue
        <4> QED  BY <1>7, <4>1, <4>2, <4>3 DEF InQueue
      <3> QED  BY <3>3, <3>4, <3>5 DEF Emptying
    <2>2. s.step = "apply" => Delivered(s.target)'
      <3> SUFFICES ASSUME s.step = "apply" PROVE Delivered(s.target)'
        OBVIOUS
      <3>1. s.target \in Nat /\ Delivered(s.target)
        BY <1>9 DEF Sound, Request
      <3>2. s.target < nextMsg' /\ s.target # nextMsg
        BY <1>2, <1>3, <3>1 DEF Delivered
      <3> QED  BY <1>7, <3>1, <3>2 DEF Delivered
    <2> QED  BY <1>2, <1>9, <2>1, <2>2 DEF Sound, QueueIds, Overtaken, Named
  <1>10. PICK r : r = IF o.left = 1 THEN Idle ELSE [o EXCEPT !.left = @ - 1]
    OBVIOUS
  <1>11. r \in Request /\ Sound(r)
    <2>1. CASE o.left = 1
      BY <1>10, <2>1, IdleSound DEF IInv
    <2>2. CASE o.left # 1
      <3>1. o.left \in Nat /\ o.left > 1
        BY <1>1, <1>2, <2>2 DEF Sound, Request
      <3>2. r = [o EXCEPT !.left = o.left - 1]
        BY <1>10, <2>2 DEF Request
      <3>3. r \in Request
        BY <3>1, <3>2 DEF Request
      <3>4. /\ r.left > 0 /\ r.step = "send" /\ r.qid = o.qid /\ r.now = o.now
            /\ r.name = o.name
        BY <1>2, <3>1, <3>2 DEF Request
      <3> QED  BY <1>1, <3>3, <3>4 DEF Sound
    <2> QED  BY <2>1, <2>2
  <1>12. Sound(r)'
    <2>1. r.step \in {"idle", "send"}
      BY <1>2, <1>10 DEF Request, Idle
    <2> QED  BY <1>2, <1>11, <2>1 DEF Sound, QueueIds
  <1>13. Goto(p, r)
    BY <1>1, <1>10 DEF enqueueMessage
  <1>14. req' \in [Procs -> Request] /\ \A q \in Procs : Sound(req[q])'
    BY <1>9, <1>11, <1>12, <1>13, RequestsSound DEF IInv
  <1>15. TypeOK'
    <2>1. QueueIds' = QueueIds
      BY <1>2 DEF QueueIds
    <2>2. MsgIds' \subseteq 1..MaxMessages
      BY <1>3, <1>7 DEF IInv, TypeOK
    <2>3. \A i \in MsgIds' : messages'[i] \in Message
      BY <1>4, <1>7 DEF IInv, TypeOK
    <2>4. late' \subseteq 1..MaxMessages
      BY <1>3, <1>8 DEF IInv, TypeOK
    <2> QED  BY <1>2, <1>3, <1>14, <2>1, <2>2, <2>3, <2>4 DEF IInv, TypeOK
  <1>16. Numbered'
    <2>1. \A i \in MsgIds' : i < nextMsg'
      BY <1>2, <1>3, <1>6, <1>7
    <2>2. late' \subseteq 1..(nextMsg' - 1)
      BY <1>2, <1>3, <1>8 DEF IInv, Numbered
    <2> QED  BY <1>2, <1>3, <2>1, <2>2 DEF IInv, Numbered, QueueIds
  <1>17. Receipts'
    <2>1. ASSUME NEW i \in MsgIds'
          PROVE  /\ messages'[i].receipt = <<i, messages'[i].count>>
                 /\ \A k \in 0..MaxReceives :
                      <<i, k>> \in given' <=> k \in 1..messages'[i].count
      <3>1. CASE i = nextMsg
        <4>1. \A k \in 0..MaxReceives : <<i, k>> \notin given
          BY <3>1, <1>3 DEF IInv, Receipts
        <4> QED  BY <1>2, <1>5, <1>7, <3>1, <4>1
      <3>2. CASE i \in MsgIds
        BY <1>2, <1>7, <3>2 DEF IInv, Receipts
      <3> QED  BY <1>7, <3>1, <3>2
    <2>2. \A h \in given' : h[1] < nextMsg'
      <3>1. \A h \in given : h[1] \in Nat /\ h[1] < nextMsg
        BY DEF IInv, Receipts, TypeOK, Handle
      <3> QED  BY <1>2, <1>3, <3>1
    <2> QED  BY <2>1, <2>2 DEF Receipts
  <1>18. OrphansOnlyFromRaces'
    <2> SUFFICES ASSUME NEW i \in MsgIds', Named(messages[i].queue)' = {}
                 PROVE  i \in late'
      BY DEF OrphansOnlyFromRaces
    <2>1. CASE i = nextMsg
      <3>1. o.qid \notin QueueIds
        <4>1. messages'[i].queue = o.name /\ queues' = queues
          BY <1>2, <1>5, <1>7, <2>1
        <4> QED  BY <1>1, <4>1 DEF Named, QueueIds, Sound
      <3> QED  BY <1>1, <1>2, <2>1, <3>1 DEF BeingDeleted
    <2>2. CASE i \in MsgIds
      <3>1. Named(messages[i].queue) = {}
        BY <1>2, <1>7, <2>2 DEF Named, QueueIds
      <3> QED  BY <1>8, <2>2, <3>1 DEF IInv, OrphansOnlyFromRaces
    <2> QED  BY <1>7, <2>1, <2>2
  <1> QED  BY <1>14, <1>15, <1>16, <1>17, <1>18 DEF IInv

-----------------------------------------------------------------------------
(* ReceiveMessage: reserving gives a new handle out.                       *)

LEMMA ReceiveScanInvariant ==
  ASSUME IInv, NEW p \in Procs, ReceiveScan(p)
  PROVE  IInv'
  <1>1. PICK o \in Request : o = req[p] /\ Sound(o)
    BY DEF IInv, TypeOK
  <1>2. o.op = "receive" /\ o.step = "scan"
    BY <1>1 DEF ReceiveScan, At
  <1>3. PICK r : r = IF Visible(o.name) = {} THEN Idle
                     ELSE [o EXCEPT !.step = "reserve", !.now = clock,
                                    !.todo = Visible(o.name)]
    OBVIOUS
  <1>4. Visible(o.name) \subseteq 1..MaxMessages
    BY DEF Visible, InQueue, IInv, TypeOK
  <1>5. r \in Request /\ Sound(r)
    <2>1. CASE Visible(o.name) = {}
      BY <1>3, <2>1, IdleSound DEF IInv
    <2>2. CASE Visible(o.name) # {}
      <3>1. r = [o EXCEPT !.step = "reserve", !.now = clock,
                          !.todo = Visible(o.name)]
        BY <1>3, <2>2
      <3>2. clock \in Nat
        BY DEF IInv, TypeOK
      <3>3. r \in Request
        BY <1>4, <3>1, <3>2 DEF Request, Steps
      <3>4. /\ r.step = "reserve" /\ r.now = clock /\ r.todo # {}
            /\ r.qid = o.qid /\ r.name = o.name /\ r.left = o.left
        BY <2>2, <3>1 DEF Request
      <3> QED  BY <1>1, <1>2, <3>2, <3>3, <3>4 DEF Sound
    <2> QED  BY <2>1, <2>2
  <1>6. Goto(p, r)
    BY <1>1, <1>3 DEF ReceiveScan
  <1> QED  BY <1>5, <1>6, LocalStep DEF ReceiveScan

(* The locals that NextMessage leaves behind.                              *)
Onward(o, i, took) ==
  LET r == [o EXCEPT !.todo = @ \ {i}, !.left = IF took THEN @ - 1 ELSE @]
  IN  IF r.left = 0 \/ r.todo = {} THEN Idle ELSE r

LEMMA OnwardSound ==
  ASSUME IInv, NEW o \in Request, Sound(o), o.step = "reserve",
         NEW i, NEW took \in BOOLEAN
  PROVE  /\ Onward(o, i, took) \in Request /\ Sound(Onward(o, i, took))
         /\ Onward(o, i, took).step \in {"idle", "reserve"}
  <1>1. PICK r : r = [o EXCEPT !.todo = o.todo \ {i},
                               !.left = IF took THEN o.left - 1 ELSE o.left]
    OBVIOUS
  <1>2. Onward(o, i, took) = IF r.left = 0 \/ r.todo = {} THEN Idle ELSE r
    BY <1>1 DEF Onward, Request
  <1>3. o.left \in Nat /\ o.left > 0
    BY DEF Sound, Request
  <1>4. r \in Request
    <2>1. PICK n \in Nat : n = IF took THEN o.left - 1 ELSE o.left
      BY <1>3
    <2>2. r = [o EXCEPT !.todo = o.todo \ {i}, !.left = n]
      BY <1>1, <2>1
    <2> QED  BY <2>1, <2>2 DEF Request
  <1>5. /\ r.step = "reserve" /\ r.now = o.now /\ r.qid = o.qid
        /\ r.name = o.name
    BY <1>1 DEF Request
  <1>6. CASE r.left = 0 \/ r.todo = {}
    BY <1>2, <1>6, IdleSound DEF IInv, Idle
  <1>7. CASE r.left # 0 /\ r.todo # {}
    <2>1. r.left > 0
      BY <1>4, <1>7 DEF Request
    <2>2. Sound(r)
      BY <1>5, <1>7, <2>1 DEF Sound
    <2> QED  BY <1>2, <1>4, <1>5, <1>7, <2>2
  <1> QED  BY <1>6, <1>7

(* What reserving a message does: it gets the handle after its last one,   *)
(* which nobody holds yet.                                                 *)
LEMMA ReserveEffect ==
  ASSUME IInv, NEW p \in Procs, reserveVisibleMessage(p),
         NEW i, i = Least(req[p].todo), Reservable(p, i)
  PROVE  /\ i \in MsgIds /\ messages[i].after <= req[p].now
         /\ messages[i].count \in Nat /\ messages[i].count < MaxReceives
         /\ MsgIds' = MsgIds
         /\ \A j \in MsgIds : j # i => messages'[j] = messages[j]
         /\ messages'[i] = Reserved(p, i)
         /\ messages'[i] \in Message
         /\ messages'[i].queue = messages[i].queue
         /\ messages'[i].count = messages[i].count + 1
         /\ messages'[i].receipt = <<i, messages[i].count + 1>>
         /\ given' = given \cup {<<i, messages[i].count + 1>>}
  <1>1. i \in MsgIds /\ messages[i].after <= req[p].now
    BY DEF Reservable
  <1>2. /\ messages[i].count < MaxReceives
        /\ messages' = With(messages, i, Reserved(p, i))
        /\ given' = given \cup {messages'[i].receipt}
    BY DEF reserveVisibleMessage
  <1>3. /\ MsgIds' = MsgIds /\ messages'[i] = Reserved(p, i)
        /\ \A j \in MsgIds : j # i => messages'[j] = messages[j]
    BY <1>1, <1>2 DEF With, MsgIds
  <1>4. PICK m \in Message : m = messages[i]
    BY <1>1 DEF IInv, TypeOK
  <1>5. Issued(i) = m.count
    BY <1>1, <1>4, IssuedCount DEF IInv
  <1>6. Reserved(p, i) = [m EXCEPT !.receipt = <<i, m.count + 1>>,
                            !.after = req[p].now + req[p].timeout,
                            !.count = m.count + 1,
                            !.first = IF m.first = 0 THEN req[p].now ELSE m.first]
    BY <1>4, <1>5 DEF Reserved, Message
  <1>7. m.count \in Nat /\ <<i, m.count + 1>> \in Handle
    <2>1. m.count \in Nat /\ m.count < MaxReceives
      BY <1>2, <1>4 DEF Message
    <2>2. i \in 1..MaxMessages
      BY <1>1 DEF IInv, TypeOK
    <2> QED  BY <2>1, <2>2, BoundAssumption DEF Handle
  <1>8. req[p].now \in Nat /\ req[p].timeout \in Nat
    BY DEF IInv, TypeOK, Request
  <1>9. Reserved(p, i) \in Message
    <2>1. PICK h \in Handle : h = <<i, m.count + 1>>
      BY <1>7
    <2>2. PICK a \in Nat : a = req[p].now + req[p].timeout
      BY <1>8
    <2>3. PICK f \in Nat : f = IF m.first = 0 THEN req[p].now ELSE m.first
      BY <1>8 DEF Message
    <2>4. PICK n \in Nat : n = m.count + 1
      BY <1>7
    <2>5. Reserved(p, i) = [m EXCEPT !.receipt = h, !.after = a,
                                     !.count = n, !.first = f]
      BY <1>6, <2>1, <2>2, <2>3, <2>4
    <2> QED  BY <2>5 DEF Message
  <1>10. /\ Reserved(p, i).queue = m.queue
         /\ Reserved(p, i).count = m.count + 1
         /\ Reserved(p, i).receipt = <<i, m.count + 1>>
    BY <1>6 DEF Message
  <1> QED  BY <1>1, <1>2, <1>3, <1>4, <1>7, <1>9, <1>10

LEMMA ReserveInvariant ==
  ASSUME IInv, NEW p \in Procs, reserveVisibleMessage(p)
  PROVE  IInv'
  <1>1. PICK o \in Request : o = req[p] /\ Sound(o)
    BY DEF IInv, TypeOK
  <1>2. o.op = "receive" /\ o.step = "reserve"
    BY <1>1 DEF reserveVisibleMessage, At
  <1>3. PICK i : i = Least(o.todo)
    OBVIOUS
  <1>4. CASE Reservable(p, i)
    <2>1. PICK r : r = Onward(o, i, TRUE)
      OBVIOUS
    <2>2. r \in Request /\ Sound(r) /\ r.step \in {"idle", "reserve"}
      BY <1>1, <1>2, <2>1, OnwardSound
    <2>3. Goto(p, r)
      BY <1>1, <1>3, <1>4, <2>1 DEF reserveVisibleMessage, NextMessage, Onward
    <2>4. /\ i \in MsgIds /\ messages[i].count \in Nat
          /\ messages[i].count < MaxReceives
          /\ MsgIds' = MsgIds
          /\ \A j \in MsgIds : j # i => messages'[j] = messages[j]
          /\ messages'[i] \in Message
          /\ messages'[i].queue = messages[i].queue
          /\ messages'[i].count = messages[i].count + 1
          /\ messages'[i].receipt = <<i, messages[i].count + 1>>
          /\ given' = given \cup {<<i, messages[i].count + 1>>}
      BY <1>1, <1>3, <1>4, ReserveEffect
    <2>5. UNCHANGED <<queues, nextQueue, nextMsg, clock, late>>
      BY DEF reserveVisibleMessage
    <2>6. MessagesMayGo
      <3>1. \A j \in MsgIds : messages[j].count \in Nat
        BY DEF IInv, TypeOK, Message
      <3> QED  BY <2>4, <2>5, <3>1 DEF MessagesMayGo
    <2>7. /\ \A j \in MsgIds' : messages'[j] \in Message
          /\ given' \subseteq Handle
      <3>1. messages'[i].receipt \in Handle
        BY <2>4 DEF Message
      <3> QED  BY <2>4, <3>1 DEF IInv, TypeOK
    <2>8. Receipts'
      <3>1. ASSUME NEW j \in MsgIds'
            PROVE  /\ messages'[j].receipt = <<j, messages'[j].count>>
                   /\ \A k \in 0..MaxReceives :
                        <<j, k>> \in given' <=> k \in 1..messages'[j].count
        <4>1. CASE j = i
          <5>1. \A k \in 0..MaxReceives :
                  <<i, k>> \in given <=> k \in 1..messages[i].count
            BY <2>4 DEF IInv, Receipts
          <5> QED  BY <2>4, <4>1, <5>1
        <4>2. CASE j # i
          BY <2>4, <4>2 DEF IInv, Receipts
        <4> QED  BY <4>1, <4>2
      <3>2. \A h \in given' : h[1] < nextMsg'
        BY <2>4, <2>5 DEF IInv, Receipts, Numbered
      <3> QED  BY <3>1, <3>2 DEF Receipts
    <2>9. Sound(r)'
      BY <2>2, <2>5 DEF Sound, QueueIds
    <2> QED  BY <2>2, <2>3, <2>6, <2>7, <2>8, <2>9, MessagesMayGoStep
  <1>5. CASE ~Reservable(p, i)
    <2>1. PICK r : r = Onward(o, i, FALSE)
      OBVIOUS
    <2>2. r \in Request /\ Sound(r)
      BY <1>1, <1>2, <2>1, OnwardSound
    <2>3. Goto(p, r)
      BY <1>1, <1>3, <1>5, <2>1 DEF reserveVisibleMessage, NextMessage, Onward
    <2>4. UNCHANGED <<stored, clock, history>>
      BY <1>1, <1>3, <1>5 DEF reserveVisibleMessage, stored, history
    <2> QED  BY <2>2, <2>3, <2>4, LocalStep
  <1> QED  BY <1>4, <1>5

-----------------------------------------------------------------------------
(* DeleteMessage and ChangeMessageVisibility: between the step that finds  *)
(* the message and the one that takes it by its id, the message can only   *)
(* have gone or have been received again.                                  *)

LEMMA NextHandleSound ==
  ASSUME IInv, NEW p \in Procs, req[p].step \in {"match", "apply"}
  PROVE  /\ NextHandle(p) \in Request /\ Sound(NextHandle(p))
         /\ NextHandle(p).step \in {"idle", "match"}
         /\ NextHandle(p).step = "match" =>
              \A j \in DOMAIN NextHandle(p).handles :
                NextHandle(p).handles[j] \in given
  <1>1. PICK o \in Request : o = req[p] /\ Sound(o)
    BY DEF IInv, TypeOK
  <1>2. /\ o.handles \in Seq(Handle) /\ o.handles # <<>>
        /\ \A j \in DOMAIN o.handles : o.handles[j] \in given
    BY <1>1 DEF Sound, Request
  <1>3. CASE Len(o.handles) = 1
    BY <1>1, <1>3, IdleSound DEF NextHandle, IInv, Idle
  <1>4. CASE Len(o.handles) # 1
    <2>1. PICK hs \in Seq(Handle) : hs = Tail(o.handles)
      BY <1>2, HeadTailProperties
    <2>2. hs # <<>> /\ \A j \in DOMAIN hs : hs[j] \in given
      <3>1. /\ Len(hs) = Len(o.handles) - 1
            /\ \A j \in 1..Len(hs) : hs[j] = o.handles[j + 1]
        BY <1>2, <2>1, HeadTailProperties
      <3>2. PICK n \in Nat : n = Len(o.handles) /\ n # 0
        BY <1>2, EmptySeq
      <3>3. n > 1 /\ Len(hs) = n - 1 /\ DOMAIN o.handles = 1..n
        <4>1. n # 1
          BY <1>4, <3>2
        <4>2. DOMAIN o.handles = 1..n
          BY <1>2, <3>2
        <4>3. n > 1
          <5>1. n # 0
            BY <3>2
          <5> QED  BY <4>1, <5>1
        <4> QED  BY <3>1, <3>2, <4>2, <4>3
      <3>4. DOMAIN hs = 1..Len(hs)
        OBVIOUS
      <3> QED  BY <1>2, <2>1, <3>1, <3>3, <3>4
    <2>3. PICK r : r = [o EXCEPT !.handles = hs, !.step = "match",
                                 !.target = 0]
      OBVIOUS
    <2>4. r \in Request
      BY <2>1, <2>3 DEF Request, Steps
    <2>5. /\ r.handles = hs /\ r.step = "match" /\ r.now = o.now
          /\ r.qid = o.qid /\ r.name = o.name
      BY <2>3 DEF Request
    <2>6. Sound(r)
      BY <1>1, <2>2, <2>5 DEF Sound
    <2>7. NextHandle(p) = r
      BY <1>1, <1>4, <2>1, <2>3 DEF NextHandle, Request
    <2> QED  BY <2>2, <2>4, <2>5, <2>6, <2>7
  <1> QED  BY <1>3, <1>4

LEMMA MatchHandleInvariant ==
  ASSUME IInv, NEW p \in Procs, MatchHandle(p)
  PROVE  IInv'
  <1>1. PICK o \in Request : o = req[p] /\ Sound(o)
    BY DEF IInv, TypeOK
  <1>2. o.step = "match"
    BY <1>1 DEF MatchHandle
  <1>3. PICK hit : hit = Carrying(o.name, Head(o.handles))
    OBVIOUS
  <1>4. CASE hit = {}
    <2>1. PICK r : r = NextHandle(p)
      OBVIOUS
    <2>2. r \in Request /\ Sound(r)
      BY <1>1, <1>2, <2>1, NextHandleSound
    <2> QED  BY <1>1, <1>3, <1>4, <2>1, <2>2, LocalStep DEF MatchHandle
  <1>5. CASE hit # {}
    <2>1. PICK i : i = Least(hit)
      OBVIOUS
    <2>2. hit \subseteq Nat
      <3>1. hit \subseteq MsgIds
        BY <1>3 DEF Carrying, InQueue
      <3> QED  BY <3>1 DEF IInv, TypeOK
    <2>3. i \in MsgIds /\ messages[i].receipt = Head(o.handles)
      BY <1>3, <1>5, <2>1, <2>2, LeastExists DEF Carrying, InQueue
    <2>4. Head(o.handles) \in given
      BY <1>1, <1>2 DEF Sound, Request
    <2>5. Delivered(i)
      <3>1. <<i, messages[i].count>> \in given
        BY <2>3, <2>4 DEF IInv, Receipts
      <3>2. messages[i].count \in 0..MaxReceives
        <4>1. messages[i].receipt \in Handle
          BY <2>3 DEF IInv, TypeOK, Message
        <4>2. messages[i].receipt = <<i, messages[i].count>>
          BY <2>3 DEF IInv, Receipts
        <4> QED  BY <4>1, <4>2 DEF Handle
      <3>3. messages[i].count \in 1..messages[i].count
        BY <2>3, <3>1, <3>2 DEF IInv, Receipts
      <3> QED  BY <2>3, <3>2, <3>3 DEF Delivered, IInv, Numbered
    <2>6. PICK t \in Nat : t = IF o.op = "change" THEN clock ELSE 0
      BY DEF IInv, TypeOK
    <2>7. PICK r : r = [o EXCEPT !.step = "apply", !.target = i, !.now = t]
      OBVIOUS
    <2>8. r \in Request
      <3>1. i \in Nat
        BY <2>3 DEF IInv, TypeOK
      <3> QED  BY <2>6, <2>7, <3>1 DEF Request, Steps
    <2>9. /\ r.step = "apply" /\ r.target = i /\ r.now = t
          /\ r.qid = o.qid /\ r.name = o.name /\ r.handles = o.handles
      BY <2>7 DEF Request
    <2>10. t <= clock
      BY <2>6 DEF IInv, TypeOK
    <2>11. Sound(r)
      BY <1>1, <1>2, <2>5, <2>9, <2>10 DEF Sound
    <2>12. Goto(p, r)
      BY <1>1, <1>3, <1>5, <2>1, <2>6, <2>7 DEF MatchHandle
    <2> QED  BY <2>8, <2>11, <2>12, LocalStep DEF MatchHandle
  <1> QED  BY <1>4, <1>5

LEMMA AfterApply ==
  ASSUME IInv, NEW p \in Procs, req[p].step = "apply", MessagesMayGo,
         given' = given, Goto(p, NextHandle(p)),
         \A i \in MsgIds' : /\ messages'[i] \in Message
                            /\ messages'[i].receipt = messages[i].receipt
                            /\ messages'[i].count = messages[i].count
  PROVE  IInv'
  <1>1. PICK r : r = NextHandle(p)
    OBVIOUS
  <1>2. /\ r \in Request /\ Sound(r) /\ r.step \in {"idle", "match"}
        /\ r.step = "match" => \A j \in DOMAIN r.handles : r.handles[j] \in given
    BY <1>1, NextHandleSound
  <1>3. Sound(r)'
    BY <1>2 DEF Sound, MessagesMayGo, QueueIds
  <1>4. Receipts'
    BY DEF IInv, Receipts, MessagesMayGo
  <1>5. given' \subseteq Handle
    BY DEF IInv, TypeOK
  <1> QED  BY <1>1, <1>2, <1>3, <1>4, <1>5, MessagesMayGoStep

LEMMA DeleteInvariant ==
  ASSUME IInv, NEW p \in Procs, deleteReceiptHandle(p)
  PROVE  IInv'
  <1>1. /\ MsgIds' = MsgIds \ {req[p].target}
        /\ \A i \in MsgIds' : messages'[i] = messages[i]
    BY DEF deleteReceiptHandle, Without, MsgIds
  <1>2. \A i \in MsgIds : messages[i] \in Message /\ messages[i].count \in Nat
    BY DEF IInv, TypeOK, Message
  <1>3. MessagesMayGo
    BY <1>1, <1>2 DEF MessagesMayGo, deleteReceiptHandle, history
  <1> QED  BY <1>1, <1>2, <1>3, AfterApply
           DEF deleteReceiptHandle, At, history

LEMMA ChangeInvariant ==
  ASSUME IInv, NEW p \in Procs, changeReceiptVisibility(p)
  PROVE  IInv'
  <1>1. PICK a \in Nat : a = req[p].now + req[p].timeout
    BY DEF IInv, TypeOK, Request
  <1>2. messages' = IF req[p].target \in MsgIds
                    THEN [messages EXCEPT ![req[p].target].after = a]
                    ELSE messages
    BY <1>1 DEF changeReceiptVisibility
  <1>3. \A i \in MsgIds : messages[i] \in Message /\ messages[i].count \in Nat
    BY DEF IInv, TypeOK, Message
  <1>4. MsgIds' = MsgIds
    BY <1>2 DEF MsgIds
  <1>5. ASSUME NEW i \in MsgIds
        PROVE  /\ messages'[i] \in Message
               /\ messages'[i].receipt = messages[i].receipt
               /\ messages'[i].count = messages[i].count
               /\ messages'[i].queue = messages[i].queue
    <2>1. messages'[i] = IF i = req[p].target THEN [messages[i] EXCEPT !.after = a]
                                              ELSE messages[i]
      BY <1>2 DEF MsgIds
    <2>2. PICK m \in Message : m = messages[i]
      BY <1>3
    <2>3. [m EXCEPT !.after = a] \in Message
      BY <2>2 DEF Message
    <2>4. /\ [m EXCEPT !.after = a].receipt = m.receipt
          /\ [m EXCEPT !.after = a].count = m.count
          /\ [m EXCEPT !.after = a].queue = m.queue
      BY DEF Message
    <2> QED  BY <2>1, <2>2, <2>3, <2>4
  <1>6. MessagesMayGo
    BY <1>3, <1>4, <1>5 DEF MessagesMayGo, changeReceiptVisibility, history
  <1> QED  BY <1>4, <1>5, <1>6, AfterApply
           DEF changeReceiptVisibility, At, history

-----------------------------------------------------------------------------
(* SetQueueAttributes and the tag operations change a record in place.     *)

LEMMA RecordChangeInvariant ==
  ASSUME IInv, NEW p \in Procs, Finish(p), NEW q,
         req[p].qid \in QueueIds => /\ q \in Queue
                                    /\ q.name = queues[req[p].qid].name,
         queues' = IF req[p].qid \in QueueIds
                   THEN [queues EXCEPT ![req[p].qid] = q] ELSE queues,
         UNCHANGED <<messages, nextQueue, nextMsg, clock, history>>
  PROVE  IInv'
  <1>1. QueueIds' = QueueIds
    BY DEF QueueIds
  <1>2. \A i \in QueueIds : queues'[i] \in Queue
                            /\ queues'[i].name = queues[i].name
    BY DEF QueueIds, IInv, TypeOK
  <1>3. nextQueue \in Nat /\ \A i \in QueueIds : i \in 1..(nextQueue - 1)
    BY DEF IInv, TypeOK, Numbered
  <1>4. QueuesMayChange
    BY <1>1, <1>2, <1>3 DEF QueuesMayChange
  <1>5. \A i \in MsgIds : Named(messages[i].queue)' = {}
                            => Named(messages[i].queue) = {} \/ i \in late
    BY <1>1, <1>2 DEF Named, QueueIds
  <1> QED  BY <1>4, <1>5, QueuesMayChangeStep

LEMMA SetApplyInvariant ==
  ASSUME IInv, NEW p \in Procs, NEW t \in Timeouts, SetApply(p, t)
  PROVE  IInv'
  <1>1. PICK o \in Request : o = req[p]
    BY DEF IInv, TypeOK
  <1>2. PICK q : q = queueAttributePatch(queues[o.qid], p, t)
    OBVIOUS
  <1>3. ASSUME o.qid \in QueueIds
        PROVE  q \in Queue /\ q.name = queues[o.qid].name
    <2>1. PICK c \in Queue : c = queues[o.qid]
      BY <1>3 DEF IInv, TypeOK
    <2>2. PICK vt \in Timeouts :
                 vt = IF "timeout" \in o.names THEN t ELSE c.timeout
      BY DEF Queue
    <2>3. PICK dl \in Timeouts : dl = IF "delay" \in o.names THEN t ELSE c.delay
      BY DEF Queue
    <2>4. PICK ex \in SUBSET Extra :
                 ex = IF o.base \cup (o.names \cap Extra) = {} THEN c.extra
                      ELSE o.base \cup (o.names \cap Extra)
      BY DEF Queue, Request
    <2>5. q = [c EXCEPT !.timeout = vt, !.delay = dl, !.extra = ex]
      BY <1>1, <1>2, <2>1, <2>2, <2>3, <2>4 DEF queueAttributePatch, Queue
    <2> QED  BY <2>1, <2>5 DEF Queue
  <1>4. queues' = IF o.qid \in QueueIds THEN [queues EXCEPT ![o.qid] = q]
                                        ELSE queues
    BY <1>1, <1>2 DEF SetApply, QueueIds
  <1> QED  BY <1>1, <1>3, <1>4, RecordChangeInvariant DEF SetApply

LEMMA TagApplyInvariant ==
  ASSUME IInv, NEW p \in Procs, TagApply(p)
  PROVE  IInv'
  <1>1. PICK o \in Request : o = req[p]
    BY DEF IInv, TypeOK
  <1>2. PICK q : q = [queues[o.qid] EXCEPT
                        !.tags = mergedTags(p, queues[o.qid].tags)]
    OBVIOUS
  <1>3. ASSUME o.qid \in QueueIds
        PROVE  q \in Queue /\ q.name = queues[o.qid].name
    <2>1. PICK c \in Queue : c = queues[o.qid]
      BY <1>3 DEF IInv, TypeOK
    <2>2. mergedTags(p, c.tags) \subseteq TagKeys
      <3>1. o.names \subseteq TagKeys
        BY <1>1 DEF IInv, Sound, TagApply
      <3> QED  BY <1>1, <3>1 DEF mergedTags, Queue
    <2> QED  BY <1>2, <2>1, <2>2 DEF Queue
  <1>4. queues' = IF o.qid \in QueueIds THEN [queues EXCEPT ![o.qid] = q]
                                        ELSE queues
    BY <1>1, <1>2 DEF TagApply, QueueIds
  <1> QED  BY <1>1, <1>3, <1>4, RecordChangeInvariant DEF TagApply

-----------------------------------------------------------------------------
(* The invariant, and what it says of every behaviour.                     *)

LEMMA InitInvariant == Init => IInv
  <1> SUFFICES ASSUME Init PROVE IInv
    OBVIOUS
  <1>1. QueueIds = {} /\ MsgIds = {}
    BY DEF Init, Nothing, QueueIds, MsgIds
  <1>2. SomeName \in QNames
    BY NameAssumption DEF SomeName
  <1>3. Idle \in Request
    BY <1>2 DEF Idle, Request, Steps
  <1>4. TypeOK
    BY <1>1, <1>3 DEF Init, TypeOK
  <1>5. Numbered
    BY <1>1, BoundAssumption DEF Init, Numbered
  <1>6. Receipts /\ OrphansOnlyFromRaces
    BY <1>1 DEF Init, Receipts, OrphansOnlyFromRaces
  <1>7. \A p \in Procs : Sound(req[p])
    BY <1>4, <1>5, IdleSound DEF Init
  <1> QED  BY <1>4, <1>5, <1>6, <1>7 DEF IInv

(* Time only grows, so the times that requests read stay in the past.      *)
LEMMA TickInvariant ==
  ASSUME IInv, Tick
  PROVE  IInv'
  <1>1. clock \in Nat /\ clock' = clock + 1
    BY DEF IInv, TypeOK, Tick
  <1>2. UNCHANGED <<queues, messages, nextQueue, nextMsg, req, given, late>>
    BY DEF Tick, stored, history
  <1>3. ASSUME NEW q \in Procs PROVE Sound(req[q])'
    <2>1. PICK s \in Request : s = req[q] /\ Sound(s)
      BY DEF IInv, TypeOK
    <2>2. s.now \in Nat
      BY DEF Request
    <2>3. s.now <= clock'
      BY <1>1, <2>1, <2>2 DEF Sound
    <2>4. s = req'[q] /\ Sound(s)'
      BY <1>2, <2>1, <2>3
      DEF Sound, Emptying, Delivered, InQueue, QueueIds, MsgIds, Overtaken,
          Named
    <2> QED  BY <2>4 DEF Sound, Emptying, Delivered, InQueue, Overtaken, Named
  <1>4. TypeOK'
    BY <1>1, <1>2 DEF IInv, TypeOK, QueueIds, MsgIds
  <1>5. Numbered' /\ Receipts' /\ OrphansOnlyFromRaces'
    BY <1>2 DEF IInv, Numbered, Receipts, OrphansOnlyFromRaces, Named,
                QueueIds, MsgIds
  <1> QED  BY <1>3, <1>4, <1>5 DEF IInv

LEMMA StutterInvariant ==
  ASSUME IInv, UNCHANGED vars
  PROVE  IInv'
  <1>1. UNCHANGED <<queues, messages, nextQueue, nextMsg, req, clock, given, late>>
    BY DEF vars
  <1>2. ASSUME NEW q \in Procs PROVE Sound(req[q])'
    <2>1. Sound(req[q])
      BY DEF IInv
    <2> QED  BY <1>1, <2>1
             DEF Sound, Emptying, Delivered, InQueue, QueueIds, MsgIds,
                 Overtaken, Named
  <1>3. TypeOK' /\ Numbered' /\ Receipts' /\ OrphansOnlyFromRaces'
    BY <1>1 DEF IInv, TypeOK, Numbered, Receipts, OrphansOnlyFromRaces, Named,
                QueueIds, MsgIds
  <1> QED  BY <1>2, <1>3 DEF IInv

LEMMA StepInvariant == IInv /\ [Next]_vars => IInv'
  <1> SUFFICES ASSUME IInv, [Next]_vars PROVE IInv'
    OBVIOUS
  <1>1. CASE UNCHANGED vars
    BY <1>1, StutterInvariant
  <1>2. CASE Tick
    BY <1>2, TickInvariant
  <1>3. ASSUME NEW p \in Procs, Begin(p) PROVE IInv'
    BY <1>3, BeginInvariant
  <1>4. ASSUME NEW p \in Procs, Continue(p) PROVE IInv'
    BY <1>4, CreateInsertInvariant, EmptyListInvariant, EmptyDropInvariant,
       EmptyEndInvariant, SendInvariant, ReceiveScanInvariant,
       ReserveInvariant, MatchHandleInvariant, DeleteInvariant,
       ChangeInvariant, SetApplyInvariant, TagApplyInvariant
    DEF Continue
  <1> QED  BY <1>1, <1>2, <1>3, <1>4 DEF Next

(* What the theorems below rest on holds in every reachable state: types,   *)
(* receipts, and what each request's stale locals still say of the tables. *)
THEOREM Invariant == Spec => []IInv
  BY InitInvariant, StepInvariant, PTL DEF Spec

(* The variables keep their types.                                         *)
THEOREM TypeCorrect == Spec => []TypeOK
  <1>1. IInv => TypeOK
    BY DEF IInv
  <1> QED  BY <1>1, Invariant, PTL

(* The handle a message carries is the one its last receive gave out, and  *)
(* its count is the number of its receives, however requests interleave.   *)
THEOREM LatestHandleStands == Spec => []LatestHandleOnly
  <1>1. IInv => LatestHandleOnly
    BY IssuedCount DEF IInv, Receipts, LatestHandleOnly
  <1> QED  BY <1>1, Invariant, PTL

(* PurgeQueue and DeleteQueue miss no message that was in the queue when   *)
(* they listed it.                                                         *)
THEOREM PurgeReachesAll == Spec => []PurgeComplete
  <1>1. IInv => PurgeComplete
    BY DEF IInv, Sound, Emptying, PurgeComplete
  <1> QED  BY <1>1, Invariant, PTL

(* A message whose queue is gone was sent while the queue was deleted, and *)
(* queues of one name come only from creations that overlapped: one about  *)
(* to insert is overtaken by nothing but queues newer than its lookup.     *)
THEOREM NamesMeanOneQueue == Spec => []NameMeansOneQueue
  <1>1. IInv => DuplicatesOnlyFromRaces
    BY DEF IInv, Sound, Overtaken, At, DuplicatesOnlyFromRaces
  <1>2. IInv => NameMeansOneQueue
    BY <1>1 DEF IInv, NameMeansOneQueue
  <1> QED  BY <1>2, Invariant, PTL

-----------------------------------------------------------------------------
(* The action properties: only reserving changes a handle, and only the    *)
(* deletion of a handle, a purge and the deletion of a queue take a        *)
(* message away.                                                           *)

LEMMA MessageSteps ==
  ASSUME [Next]_vars
  PROVE  \/ messages' = messages
         \/ \E p \in Procs : \/ \E d \in Timeouts : enqueueMessage(p, d)
                             \/ EmptyDrop(p)
                             \/ reserveVisibleMessage(p)
                             \/ deleteReceiptHandle(p)
                             \/ changeReceiptVisibility(p)
  <1>1. CASE Tick \/ UNCHANGED vars
    BY <1>1 DEF Tick, vars, stored
  <1>2. ASSUME NEW p \in Procs, Begin(p) PROVE messages' = messages
    BY <1>2 DEF Begin, CreateFind, EmptyBegin, SendBegin, ReceiveBegin,
                HandlesBegin, SetBegin, TagBegin, Open, stored
  <1>3. ASSUME NEW p \in Procs, Continue(p)
        PROVE  \/ messages' = messages
               \/ \E d \in Timeouts : enqueueMessage(p, d)
               \/ EmptyDrop(p) \/ reserveVisibleMessage(p)
               \/ deleteReceiptHandle(p) \/ changeReceiptVisibility(p)
    BY <1>3 DEF Continue, CreateInsert, EmptyList, EmptyEnd, ReceiveScan,
                MatchHandle, SetApply, TagApply, stored
  <1> QED  BY <1>1, <1>2, <1>3 DEF Next

(* Sending and retiming change no handle and lose no message.              *)
LEMMA SendingKeepsMessages ==
  ASSUME IInv, NEW p \in Procs, NEW d \in Timeouts, enqueueMessage(p, d),
         NEW i \in MsgIds
  PROVE  i \in MsgIds' /\ messages'[i] = messages[i]
  <1>1. i # nextMsg
    BY DEF IInv, Numbered, TypeOK
  <1> QED  BY <1>1 DEF enqueueMessage, With, FreshId, MsgIds

LEMMA RetimingKeepsHandles ==
  ASSUME IInv, NEW p \in Procs, changeReceiptVisibility(p), NEW i \in MsgIds
  PROVE  i \in MsgIds' /\ messages'[i].receipt = messages[i].receipt
  <1>1. PICK a : a = req[p].now + req[p].timeout
    OBVIOUS
  <1>2. messages' = IF req[p].target \in MsgIds
                    THEN [messages EXCEPT ![req[p].target].after = a]
                    ELSE messages
    BY <1>1 DEF changeReceiptVisibility
  <1>3. MsgIds' = MsgIds
    BY <1>2 DEF MsgIds
  <1>4. messages'[i] = IF i = req[p].target THEN [messages[i] EXCEPT !.after = a]
                                            ELSE messages[i]
    BY <1>2 DEF MsgIds
  <1>5. PICK m \in Message : m = messages[i]
    BY DEF IInv, TypeOK
  <1>6. [m EXCEPT !.after = a].receipt = m.receipt
    BY DEF Message
  <1> QED  BY <1>3, <1>4, <1>5, <1>6

(* A receive takes a message over from another one only after its timeout: *)
(* the time it read before is not ahead of the clock.                      *)
THEOREM RedeliveryIsTimely == Spec => NoEarlyRedelivery
  <1> DEFINE Timely == \A i \in MsgIds \cap MsgIds' :
                         messages'[i].receipt # messages[i].receipt
                           => messages[i].after <= clock
  <1>1. IInv /\ [Next]_vars => Timely
    <2> SUFFICES ASSUME IInv, [Next]_vars, NEW i \in MsgIds \cap MsgIds',
                        messages'[i].receipt # messages[i].receipt
                 PROVE  messages[i].after <= clock
      OBVIOUS
    <2>1. ASSUME NEW p \in Procs, NEW d \in Timeouts, enqueueMessage(p, d)
          PROVE  FALSE
      BY <2>1, SendingKeepsMessages
    <2>2. ASSUME NEW p \in Procs, EmptyDrop(p) PROVE FALSE
      BY <2>2 DEF EmptyDrop, Without, MsgIds
    <2>3. ASSUME NEW p \in Procs, deleteReceiptHandle(p) PROVE FALSE
      BY <2>3 DEF deleteReceiptHandle, Without, MsgIds
    <2>4. ASSUME NEW p \in Procs, changeReceiptVisibility(p) PROVE FALSE
      BY <2>4, RetimingKeepsHandles
    <2>5. ASSUME NEW p \in Procs, reserveVisibleMessage(p)
          PROVE  messages[i].after <= clock
      <3>1. PICK k : k = Least(req[p].todo)
        OBVIOUS
      <3>2. Reservable(p, k) /\ i = k
        <4>1. CASE Reservable(p, k)
          BY <2>5, <3>1, <4>1, ReserveEffect
        <4>2. CASE ~Reservable(p, k)
          BY <2>5, <3>1, <4>2 DEF reserveVisibleMessage
        <4> QED  BY <4>1, <4>2
      <3>3. messages[i].after <= req[p].now /\ messages[i] \in Message
        BY <2>5, <3>1, <3>2, ReserveEffect DEF IInv, TypeOK
      <3>4. req[p].now <= clock /\ req[p].now \in Nat /\ clock \in Nat
        BY DEF IInv, Sound, TypeOK, Request
      <3> QED  BY <3>3, <3>4 DEF Message
    <2> QED  BY <2>1, <2>2, <2>3, <2>4, <2>5, MessageSteps
  <1>2. IInv /\ [Next]_vars => [Timely]_vars
    BY <1>1
  <1> QED  BY <1>2, Invariant, PTL DEF Spec, NoEarlyRedelivery

(* A message that was never received leaves only with its queue: a late    *)
(* DeleteMessage takes the message its handle was for, which was received. *)
THEOREM UndeliveredStay == Spec => NoLossBeforeDelivery
  <1> DEFINE Justified == \A i \in MsgIds \ MsgIds' :
               messages[i].count = 0
                 => \E p \in Procs : /\ req[p].op \in {"purge", "destroy"}
                                     /\ req[p].name = messages[i].queue
  <1>1. IInv /\ [Next]_vars => Justified
    <2> SUFFICES ASSUME IInv, [Next]_vars, NEW i \in MsgIds, i \notin MsgIds',
                        messages[i].count = 0
                 PROVE  \E p \in Procs : /\ req[p].op \in {"purge", "destroy"}
                                         /\ req[p].name = messages[i].queue
      OBVIOUS
    <2>1. ASSUME NEW p \in Procs, NEW d \in Timeouts, enqueueMessage(p, d)
          PROVE  FALSE
      BY <2>1, SendingKeepsMessages
    <2>2. ASSUME NEW p \in Procs, changeReceiptVisibility(p) PROVE FALSE
      BY <2>2, RetimingKeepsHandles
    <2>3. ASSUME NEW p \in Procs, reserveVisibleMessage(p) PROVE FALSE
      <3>1. PICK k : k = Least(req[p].todo)
        OBVIOUS
      <3>2. CASE Reservable(p, k)
        BY <2>3, <3>1, <3>2, ReserveEffect
      <3>3. CASE ~Reservable(p, k)
        BY <2>3, <3>1, <3>3 DEF reserveVisibleMessage, MsgIds
      <3> QED  BY <3>2, <3>3
    <2>4. ASSUME NEW p \in Procs, deleteReceiptHandle(p) PROVE FALSE
      <3>1. i = req[p].target
        BY <2>4 DEF deleteReceiptHandle, Without, MsgIds
      <3>2. Delivered(req[p].target)
        BY <2>4 DEF IInv, Sound, deleteReceiptHandle, At
      <3> QED  BY <3>1, <3>2 DEF Delivered
    <2>5. ASSUME NEW p \in Procs, EmptyDrop(p)
          PROVE  /\ req[p].op \in {"purge", "destroy"}
                 /\ req[p].name = messages[i].queue
      <3>1. PICK o \in Request : o = req[p] /\ Sound(o)
        BY DEF IInv, TypeOK
      <3>2. o.todo # {} /\ o.step = "drop" /\ o.todo \subseteq Nat
        BY <2>5, <3>1 DEF EmptyDrop, Request
      <3>3. i = Least(o.todo)
        BY <2>5, <3>1 DEF EmptyDrop, Without, MsgIds
      <3>4. i \in o.todo
        BY <3>2, <3>3, LeastExists
      <3> QED  BY <3>1, <3>2, <3>4 DEF Sound, Emptying
    <2>6. messages' # messages
      BY DEF MsgIds
    <2> QED  BY <2>1, <2>2, <2>3, <2>4, <2>5, <2>6, MessageSteps
  <1>2. IInv /\ [Next]_vars => [Justified]_vars
    BY <1>1
  <1> QED  BY <1>2, Invariant, PTL DEF Spec, NoLossBeforeDelivery

=============================================================================
