--------------------------------- MODULE SQS ---------------------------------
(***************************************************************************)
(* The SQS service of internal/services/aws/sqs.  The net/http server runs *)
(* every request in a goroutine of its own and the handlers hold no lock   *)
(* of theirs: a request is a sequence of atomic calls to the collections   *)
(* aws.sqs_queues and aws.sqs_messages (see Collection), and what one call *)
(* read may be stale when the next one uses it.  A request is therefore a  *)
(* process p with a step and locals, and each collection call is one       *)
(* action.  The Query and the JSON front ends make the same calls and      *)
(* share the actions.  Message bodies, attributes and digests are left out,*)
(* and so are batch entries that fail validation: they touch no record.    *)
(***************************************************************************)
EXTENDS Integers, Sequences, FiniteSets

CONSTANTS Procs,        \* requests that can be in flight together
          QNames,       \* queue names; a queue's URL is a function of its name
          Timeouts,     \* timeouts and delays, in ticks of the clock
          Defaults,     \* those of them that queues are created with
          Extra,        \* names of attributes the service only stores
          TagKeys,      \* queue tags
          Ops,          \* the operations the clients use
          MaxBatch,     \* bound on the entries of a batch
          MaxQueues,    \* bound on queue records ever inserted
          MaxMessages,  \* bound on messages ever sent
          MaxReceives,  \* bound on how often one message is received
          MaxClock      \* bound on the clock

AllOps == {"create", "destroy", "purge", "send", "receive", "delete",
           "change", "set", "tag", "untag"}

ASSUME NameAssumption == QNames # {}
ASSUME OpsAssumption == Ops \subseteq AllOps
ASSUME TimeAssumption ==
  Timeouts \subseteq Nat /\ Defaults \subseteq Timeouts /\ MaxClock \in Nat
ASSUME BoundAssumption ==
  {MaxBatch, MaxQueues, MaxMessages, MaxReceives} \subseteq Nat \ {0}

VARIABLES queues,     \* aws.sqs_queues: id -> record
          messages,   \* aws.sqs_messages: id -> record
          nextQueue,  \* automatic id of the next queue record
          nextMsg,    \* automatic id of the next message
          req,        \* the requests
          clock,      \* the time, as nowMillis reads it
          given,      \* receipt handles clients were handed (history)
          late        \* messages sent into a queue being deleted (history)

vars == <<queues, messages, nextQueue, nextMsg, req, clock, given, late>>
stored == <<queues, messages, nextQueue, nextMsg>>
history == <<given, late>>

(* A receipt handle is random text, so it is new; the n-th handle of       *)
(* message i stands for it.  The handle made by a send is <<i, 0>>.        *)
Handle == (1..MaxMessages) \X (0..MaxReceives)

Queue == [name : QNames, timeout : Timeouts, delay : Timeouts,
          extra : SUBSET Extra, tags : SUBSET TagKeys]

Message == [queue : QNames, receipt : Handle, after : Nat,
            count : Nat, first : Nat]

Steps == {"idle", "insert", "list", "drop", "send", "scan", "reserve",
          "match", "apply", "patch", "merge"}

(* The locals of a request: the queue found first, the timeout in use, the *)
(* messages still to visit, the number taken or to send, the time read,    *)
(* the handles of the batch, the record matched, the names of the patch;   *)
(* mark is history: the next message id when the messages were listed, or  *)
(* the next queue id when a creation looked its name up.                   *)
Request == [op : AllOps \cup {"none"}, step : Steps, qid : Nat,
            name : QNames, timeout : Nat, todo : SUBSET (1..MaxMessages),
            left : Nat, now : Nat, handles : Seq(Handle), target : Nat,
            names : SUBSET (Extra \cup TagKeys \cup {"timeout", "delay"}),
            base : SUBSET Extra, mark : Nat]

SomeName == CHOOSE n \in QNames : TRUE
Idle == [op |-> "none", step |-> "idle", qid |-> 0, name |-> SomeName,
         timeout |-> 0, todo |-> {}, left |-> 0, now |-> 0, handles |-> <<>>,
         target |-> 0, names |-> {}, base |-> {}, mark |-> 0]

Nothing == [i \in {} |-> 0]
QueueIds == DOMAIN queues
MsgIds == DOMAIN messages
Least(S) == CHOOSE i \in S : \A j \in S : i <= j

Init ==
  /\ queues = Nothing /\ messages = Nothing
  /\ nextQueue = 1 /\ nextMsg = 1
  /\ req = [p \in Procs |-> Idle]
  /\ clock = 0
  /\ given = {} /\ late = {}

-----------------------------------------------------------------------------
(* Helpers: the two collections, lookups, and the life of a request.       *)

Named(n) == {i \in QueueIds : queues[i].name = n}
InQueue(n) == {i \in MsgIds : messages[i].queue = n}
Visible(n) == {i \in InQueue(n) : messages[i].after <= clock}
With(f, i, v) == [j \in DOMAIN f \cup {i} |-> IF j = i THEN v ELSE f[j]]
Without(f, i) == [j \in DOMAIN f \ {i} |-> f[j]]

At(p, op, step) == req[p].op = op /\ req[p].step = step
Goto(p, r) == req' = [req EXCEPT ![p] = r]
Finish(p) == Goto(p, Idle)

(* Every operation but CreateQueue first looks up its queue by URL, the    *)
(* lowest id of the ones stored; without one it answers an error.          *)
Open(p, op, n, step) ==
  /\ op \in Ops /\ req[p].step = "idle" /\ Named(n) # {}
  /\ UNCHANGED <<stored, clock, history>>

Opened(op, n, step) ==
  [Idle EXCEPT !.op = op, !.step = step, !.name = n, !.qid = Least(Named(n))]

Found(n) == queues[Least(Named(n))]

-----------------------------------------------------------------------------
(* CreateQueue: look the name up, and insert when no queue has it.         *)

Unchecked(n) == TRUE
Absent(n) == Named(n) = {}

CreateFind(p, n) ==
  /\ "create" \in Ops /\ req[p].step = "idle" /\ Absent(n)
  /\ Goto(p, [Idle EXCEPT !.op = "create", !.step = "insert", !.name = n,
                          !.mark = nextQueue])
  /\ UNCHANGED <<stored, clock, history>>

CreateInsert(p, t, d) ==
  /\ At(p, "create", "insert") /\ nextQueue <= MaxQueues
  /\ queues' = With(queues, nextQueue,
                    [name |-> req[p].name, timeout |-> t, delay |-> d,
                     extra |-> {}, tags |-> {}])
  /\ nextQueue' = nextQueue + 1
  /\ Finish(p)
  /\ UNCHANGED <<messages, nextMsg, clock, history>>

(* DeleteQueue and PurgeQueue: list the messages, delete them one by one,  *)
(* and, for DeleteQueue, delete the queue record found at the start.       *)
EmptyBegin(p, op, n) ==
  /\ op \in {"destroy", "purge"} /\ Open(p, op, n, "list")
  /\ Goto(p, Opened(op, n, "list"))

VisibleOnly(n) == Visible(n)
Listed(n) == InQueue(n)

EmptyList(p) ==
  /\ req[p].step = "list"
  /\ Goto(p, [req[p] EXCEPT !.step = "drop", !.todo = Listed(req[p].name),
                           !.mark = nextMsg])
  /\ UNCHANGED <<stored, clock, history>>

EmptyDrop(p) ==
  /\ req[p].step = "drop" /\ req[p].todo # {}
  /\ LET i == Least(req[p].todo)
     IN  /\ messages' = Without(messages, i)
         /\ Goto(p, [req[p] EXCEPT !.todo = @ \ {i}])
  /\ UNCHANGED <<queues, nextQueue, nextMsg, clock, history>>

EmptyEnd(p) ==
  /\ req[p].step = "drop" /\ req[p].todo = {}
  /\ queues' = IF req[p].op = "destroy" THEN Without(queues, req[p].qid)
                                        ELSE queues
  /\ Finish(p)
  /\ UNCHANGED <<messages, nextQueue, nextMsg, clock, history>>

-----------------------------------------------------------------------------
(* SendMessage is a batch of one: each entry is one insert.  A delay or a  *)
(* timeout is the request's own or the queue's default, so any of Timeouts.*)

SendBegin(p, n, k) ==
  /\ Open(p, "send", n, "send")
  /\ Goto(p, [Opened("send", n, "send") EXCEPT !.left = k])

BeingDeleted(p) ==
  \/ req[p].qid \notin QueueIds
  \/ \E q \in Procs : /\ req[q].op = "destroy" /\ req[q].step = "drop"
                      /\ req[q].name = req[p].name

LowestFreeId == Least({i \in 1..(MaxMessages + 1) : i \notin MsgIds})
FreshId == nextMsg

enqueueMessage(p, d) ==
  /\ At(p, "send", "send") /\ nextMsg <= MaxMessages
  /\ messages' = With(messages, FreshId,
                      [queue |-> req[p].name, receipt |-> <<FreshId, 0>>,
                       after |-> clock + d, count |-> 0, first |-> 0])
  /\ nextMsg' = nextMsg + 1
  /\ late' = IF BeingDeleted(p) THEN late \cup {FreshId} ELSE late
  /\ Goto(p, IF req[p].left = 1 THEN Idle
                                ELSE [req[p] EXCEPT !.left = @ - 1])
  /\ UNCHANGED <<queues, nextQueue, clock, given>>

-----------------------------------------------------------------------------
(* ReceiveMessage: read the time, list the visible messages, then reserve  *)
(* them one by one; each reservation checks again, under the collection's  *)
(* lock, that the message is still visible at the time read before.        *)

ReceiveBegin(p, n, k, t) ==
  /\ Open(p, "receive", n, "scan")
  /\ Goto(p, [Opened("receive", n, "scan") EXCEPT !.left = k, !.timeout = t])

ReceiveScan(p) ==
  /\ At(p, "receive", "scan")
  /\ LET seen == Visible(req[p].name)
     IN  Goto(p, IF seen = {} THEN Idle
                 ELSE [req[p] EXCEPT !.step = "reserve", !.now = clock,
                                     !.todo = seen])
  /\ UNCHANGED <<stored, clock, history>>

(* The request goes on to the next message until it has enough or no more. *)
NextMessage(p, i, took) ==
  LET r == [req[p] EXCEPT !.todo = @ \ {i},
                          !.left = IF took THEN @ - 1 ELSE @]
  IN  Goto(p, IF r.left = 0 \/ r.todo = {} THEN Idle ELSE r)

ReservableAsListed(p, i) == i \in MsgIds
Reservable(p, i) == i \in MsgIds /\ messages[i].after <= req[p].now

Issued(i) == Cardinality({h \in given : h[1] = i})

ReservedSameHandle(p, i) ==
  [messages[i] EXCEPT !.count = @ + 1, !.after = req[p].now + req[p].timeout]

Reserved(p, i) ==
  LET m == messages[i]
  IN  [m EXCEPT !.receipt = <<i, Issued(i) + 1>>,
                !.after = req[p].now + req[p].timeout,
                !.count = @ + 1,
                !.first = IF @ = 0 THEN req[p].now ELSE @]

reserveVisibleMessage(p) ==
  /\ At(p, "receive", "reserve")
  /\ LET i == Least(req[p].todo)
     IN  IF Reservable(p, i)
         THEN /\ messages[i].count < MaxReceives
              /\ messages' = With(messages, i, Reserved(p, i))
              /\ given' = given \cup {messages'[i].receipt}
              /\ NextMessage(p, i, TRUE)
         ELSE UNCHANGED <<messages, given>> /\ NextMessage(p, i, FALSE)
  /\ UNCHANGED <<queues, nextQueue, nextMsg, clock, late>>

-----------------------------------------------------------------------------
(* DeleteMessage and ChangeMessageVisibility, one handle or a batch: find  *)
(* the message that carries the handle, then delete or retime it by id.    *)

HandlesBegin(p, op, n, hs, t) ==
  /\ Open(p, op, n, "match")
  /\ Goto(p, [Opened(op, n, "match") EXCEPT !.handles = hs, !.timeout = t])

NextHandle(p) ==
  IF Len(req[p].handles) = 1 THEN Idle
  ELSE [req[p] EXCEPT !.handles = Tail(@), !.step = "match", !.target = 0]

Carrying(n, h) == {i \in InQueue(n) : messages[i].receipt = h}

MatchHandle(p) ==
  /\ req[p].step = "match"
  /\ LET hit == Carrying(req[p].name, Head(req[p].handles))
     IN  Goto(p, IF hit = {} THEN NextHandle(p)
                 ELSE [req[p] EXCEPT !.step = "apply", !.target = Least(hit),
                          !.now = IF req[p].op = "change" THEN clock ELSE 0])
  /\ UNCHANGED <<stored, clock, history>>

deleteReceiptHandle(p) ==
  /\ At(p, "delete", "apply")
  /\ messages' = Without(messages, req[p].target)
  /\ Goto(p, NextHandle(p))
  /\ UNCHANGED <<queues, nextQueue, nextMsg, clock, history>>

changeReceiptVisibility(p) ==
  /\ At(p, "change", "apply")
  /\ messages' = IF req[p].target \in MsgIds
                 THEN [messages EXCEPT ![req[p].target].after =
                                         req[p].now + req[p].timeout]
                 ELSE messages
  /\ Goto(p, NextHandle(p))
  /\ UNCHANGED <<queues, nextQueue, nextMsg, clock, history>>

-----------------------------------------------------------------------------
(* SetQueueAttributes computes its patch from the record read at the start *)
(* and then stores it; the tag operations merge under the lock.            *)

SetBegin(p, n, names) ==
  /\ Open(p, "set", n, "patch")
  /\ names \subseteq Extra \cup {"timeout", "delay"}
  /\ Goto(p, [Opened("set", n, "patch") EXCEPT !.names = names,
                                               !.base = Found(n).extra])

queueAttributePatch(q, p, t) ==
  [q EXCEPT !.timeout = IF "timeout" \in req[p].names THEN t ELSE @,
            !.delay = IF "delay" \in req[p].names THEN t ELSE @,
            !.extra = IF req[p].base \cup (req[p].names \cap Extra) = {} THEN @
                      ELSE req[p].base \cup (req[p].names \cap Extra)]

SetApply(p, t) ==
  /\ At(p, "set", "patch")
  /\ queues' = IF req[p].qid \in QueueIds
               THEN [queues EXCEPT ![req[p].qid] =
                       queueAttributePatch(@, p, t)]
               ELSE queues
  /\ Finish(p)
  /\ UNCHANGED <<messages, nextQueue, nextMsg, clock, history>>

TagBegin(p, op, n, keys) ==
  /\ op \in {"tag", "untag"} /\ Open(p, op, n, "merge")
  /\ keys \subseteq TagKeys
  /\ Goto(p, [Opened(op, n, "merge") EXCEPT !.names = keys])

mergedTags(p, tags) ==
  IF req[p].op = "tag" THEN tags \cup req[p].names ELSE tags \ req[p].names

TagApply(p) ==
  /\ req[p].step = "merge"
  /\ queues' = IF req[p].qid \in QueueIds
               THEN [queues EXCEPT ![req[p].qid].tags = mergedTags(p, @)]
               ELSE queues
  /\ Finish(p)
  /\ UNCHANGED <<messages, nextQueue, nextMsg, clock, history>>

-----------------------------------------------------------------------------
Tick ==
  /\ clock < MaxClock /\ clock' = clock + 1
  /\ UNCHANGED <<stored, req, history>>

Batches == UNION {[1..k -> given] : k \in 1..MaxBatch}

Begin(p) ==
  \E n \in QNames :
    \/ CreateFind(p, n)
    \/ \E op \in Ops : EmptyBegin(p, op, n)
    \/ \E k \in 1..MaxBatch : SendBegin(p, n, k)
    \/ \E k \in 1..MaxBatch, t \in Timeouts : ReceiveBegin(p, n, k, t)
    \/ \E hs \in Batches :
         \/ HandlesBegin(p, "delete", n, hs, 0)
         \/ \E t \in Timeouts : HandlesBegin(p, "change", n, hs, t)
    \/ \E names \in SUBSET (Extra \cup {"timeout", "delay"}) :
         SetBegin(p, n, names)
    \/ \E op \in Ops, keys \in SUBSET TagKeys : TagBegin(p, op, n, keys)

Continue(p) ==
  \/ \E t, d \in Defaults : CreateInsert(p, t, d)
  \/ EmptyList(p) \/ EmptyDrop(p) \/ EmptyEnd(p)
  \/ \E d \in Timeouts : enqueueMessage(p, d)
  \/ ReceiveScan(p) \/ reserveVisibleMessage(p)
  \/ MatchHandle(p) \/ deleteReceiptHandle(p) \/ changeReceiptVisibility(p)
  \/ \E t \in Timeouts : SetApply(p, t)
  \/ TagApply(p)

Next == Tick \/ \E p \in Procs : Begin(p) \/ Continue(p)

Spec == Init /\ [][Next]_vars

-----------------------------------------------------------------------------
(* The types of the variables.                                             *)
TypeOK ==
  /\ QueueIds \subseteq Nat /\ \A i \in QueueIds : queues[i] \in Queue
  /\ MsgIds \subseteq 1..MaxMessages /\ \A i \in MsgIds : messages[i] \in Message
  /\ nextQueue \in Nat /\ nextMsg \in Nat /\ clock \in Nat
  /\ req \in [Procs -> Request]
  /\ given \subseteq Handle /\ late \subseteq 1..MaxMessages

(* A message already handed to a client is handed to another one only when *)
(* its visibility timeout has run out, however the requests interleave:    *)
(* the recheck in reserveVisibleMessage, against a clock read earlier, is  *)
(* enough.                                                                 *)
NoEarlyRedelivery ==
  [][\A i \in MsgIds \cap MsgIds' :
       messages'[i].receipt # messages[i].receipt
         => messages[i].after <= clock]_vars

(* No message is lost before it was delivered once: one that was never     *)
(* received disappears only when its queue is purged or deleted, so a late *)
(* DeleteMessage never takes a message other than the one its handle was   *)
(* for (deleteReceiptHandle deletes by an id it looked up earlier).        *)
NoLossBeforeDelivery ==
  [][\A i \in MsgIds \ MsgIds' :
       messages[i].count = 0
         => \E p \in Procs : /\ req[p].op \in {"purge", "destroy"}
                             /\ req[p].name = messages[i].queue]_vars

(* A handle that was given out and is still a message's handle is the      *)
(* latest one given for it: each receive takes the message away from every *)
(* earlier receiver, and what the count reports is the number of receives. *)
LatestHandleOnly ==
  \A i \in MsgIds :
    /\ messages[i].count = Issued(i)
    /\ messages[i].receipt = <<i, messages[i].count>>

(* Purging and deleting a queue reach every message that was in it when    *)
(* they listed it, those in flight or delayed as well (purgeQueue,         *)
(* deleteQueue).                                                           *)
PurgeComplete ==
  \A p \in Procs : \A i \in InQueue(req[p].name) :
    req[p].step = "drop" /\ i < req[p].mark => i \in req[p].todo

(* A message without a queue can only come from a send that overlapped the *)
(* deletion of that queue; requests one after the other never leave one.   *)
OrphansOnlyFromRaces ==
  \A i \in MsgIds : Named(messages[i].queue) = {} => i \in late

(* Two queues of one name can only come from creations that                *)
(* overlapped: a creation about to insert finds no record of its name that *)
(* was there when it looked the name up, none but newer ones (createQueue  *)
(* inserts in a second step, whatever came in between).                    *)
DuplicatesOnlyFromRaces ==
  \A p \in Procs : At(p, "create", "insert") =>
    \A i \in Named(req[p].name) : i >= req[p].mark

(* Messages know their queue by its name alone, and that name means one    *)
(* queue: none is missing and none is double, but for what requests that   *)
(* overlapped did, a send with a deletion or two creations.                *)
NameMeansOneQueue == OrphansOnlyFromRaces /\ DuplicatesOnlyFromRaces

=============================================================================
