-------------------------------- MODULE Fanout --------------------------------
(***************************************************************************)
(* What SNS, EventBridge and SQS of internal/services/aws do together: a   *)
(* message published to a topic goes to its subscriptions, an event put on *)
(* the bus to the targets of the rules that match it, and both end as      *)
(* messages of queues.  A request makes one call on the store after        *)
(* another, and subscriptions, topics, rules, targets and queues come and  *)
(* go between them.                                                        *)
(*                                                                         *)
(* There is one bus, every event matches every rule, and the subscribers   *)
(* that are no queues are one word.  The modules of the services have the  *)
(* rest of their handlers; messages are received in SQS.                   *)
(***************************************************************************)
EXTENDS Integers, SequencesExt

CONSTANTS Procs,      \* requests in flight
          Queues,     \* queues that can be there
          Small,      \* those whose maximum size is less than a message's
          Topics,     \* topics that can be there
          Rules,      \* rules of the bus
          Subscribed, \* what is subscribed at first: pairs of topic and endpoint
          Targeted,   \* what is targeted at first: pairs of rule and target
          MaxAccepted,\* bound on publications and events
          MaxChanges  \* bound on changes of who gets them

Other == "other"     \* an endpoint or a target that is no queue and no topic

ASSUME FanoutAssumption ==
  /\ Small \subseteq Queues
  /\ Other \notin Queues \cup Topics /\ Queues \cap Topics = {}
  /\ Subscribed \subseteq Topics \X (Queues \cup {Other})
  /\ Targeted \subseteq Rules \X (Queues \cup Topics \cup {Other})
  /\ IsFiniteSet(Rules) /\ IsFiniteSet(Subscribed) /\ IsFiniteSet(Targeted)

VARIABLES queues, topics, \* those that are there
          subs,           \* subscriptions: a number, a topic and an endpoint
          enabled,        \* the rules that are there and not DISABLED
          targets,        \* targets: a number, a rule and what it names
          req,            \* requests in flight
          messages,       \* every message ever put in a queue (history)
          events,         \* the log of EventBridge
          accepted,       \* how many publications and events there were
          changes,        \* how many changes of subscriptions and so on
          standing        \* ways a request found that still stand (history)

vars == <<queues, topics, subs, enabled, targets, req, messages, events,
          accepted, changes, standing>>
config == <<queues, topics, subs, enabled, targets>>

(* A request has the number of what it publishes, 0 if it publishes        *)
(* nothing, and what it has still to do.                                   *)
Idle == [busy |-> FALSE, of |-> 0, event |-> FALSE, todo |-> <<>>, sent |-> 0]

Numbered(pairs) == LET s == SetToSeq(pairs)
                   IN  {<<k, s[k][1], s[k][2]>> : k \in DOMAIN s}
Subs(S) == {[n |-> x[1], topic |-> x[2], to |-> x[3]] : x \in S}
Targets(S) == {[n |-> x[1], rule |-> x[2], to |-> x[3]] : x \in S}

Init ==
  /\ queues = Queues /\ topics = Topics /\ enabled = Rules
  /\ subs = Subs(Numbered(Subscribed)) /\ targets = Targets(Numbered(Targeted))
  /\ req = [p \in Procs |-> Idle]
  /\ messages = {} /\ events = {} /\ accepted = 0 /\ changes = 0
  /\ standing = [p \in Procs |-> {}]

-----------------------------------------------------------------------------
(* Ways: from a topic by a subscription, or from the bus by a target, and  *)
(* the subscription of its topic if it is one, to a queue.                 *)
Way(target, sub, queue) == [target |-> target, sub |-> sub, queue |-> queue]
Fits == queues \ Small
WaysOfTopic(t) ==
  {Way({}, {s}, s.to) : s \in {s \in subs : s.topic = t /\ s.to \in Fits}}
ActiveTargets == {g \in targets : g.rule \in enabled}
WaysOfBus ==
  {Way({g}, {}, g.to) : g \in {g \in ActiveTargets : g.to \in Fits}} \cup
  UNION {{Way({g}, w.sub, w.queue) : w \in WaysOfTopic(g.to)} :
         g \in {g \in ActiveTargets : g.to \in topics}}
Ways == WaysOfBus \cup UNION {WaysOfTopic(t) : t \in topics}

(* What a request found when it began stands while nothing on the way goes.*)
Standing == standing' = [p \in Procs |-> standing[p] \cap Ways']

-----------------------------------------------------------------------------
(* Requests.                                                               *)

(* By their numbers: the k-th is the one that has k of them up to itself.   *)
InOrder(S) ==
  [k \in 1..Cardinality(S) |->
     CHOOSE x \in S : Cardinality({y \in S : y.n <= x.n}) = k]
Job(job, x) == [do |-> job, x |-> x, via |-> {}, to |-> Other]
Jobs(job, S) == [k \in 1..Cardinality(S) |-> Job(job, InOrder(S)[k])]
Doing(p, job) == req[p].todo # <<>> /\ Head(req[p].todo).do = job
The(p) == Head(req[p].todo)
Do(p, jobs) == req' = [req EXCEPT ![p].todo = jobs \o Tail(@)]

Accept(p, event, ways, jobs) ==
  /\ ~req[p].busy /\ accepted < MaxAccepted
  /\ accepted' = accepted + 1
  /\ req' = [req EXCEPT ![p] = [Idle EXCEPT !.busy = TRUE, !.of = accepted',
                                            !.event = event, !.todo = jobs]]
  /\ standing' = [standing EXCEPT ![p] = ways]
  /\ UNCHANGED <<config, messages, events, changes>>
publish(p, t) ==
  t \in topics /\ Accept(p, FALSE, WaysOfTopic(t), <<Job("subscriptions", t)>>)
putEvents(p) == Accept(p, TRUE, WaysOfBus, <<Job("rules", Other)>>)

Answer(p) ==
  /\ req[p].busy /\ req[p].todo = <<>>
  /\ req' = [req EXCEPT ![p] = Idle]
  /\ standing' = [standing EXCEPT ![p] = {}]
  /\ UNCHANGED <<config, messages, events, accepted, changes>>

-----------------------------------------------------------------------------
(* The listings of a publication and of an event.  Each goes over what     *)
(* there was when it was made.                                             *)

KeepOthers ==
  UNCHANGED <<config, messages, events, accepted, changes, standing>>

SubsOf(t) == {s \in subs : s.topic = t}
listSubscriptions(p) ==
  /\ Doing(p, "subscriptions")
  /\ Do(p, Jobs("deliver", SubsOf(The(p).x)))
  /\ KeepOthers

(* A subscription of something else than a queue is only written down.     *)
StopAtNoQueue(rest) == <<>>
NoQueue(rest) == rest
RetryLater(p) == req' = [req EXCEPT ![p].todo = Append(Tail(@), Head(@))]
Skip(p) == req' = [req EXCEPT ![p].todo = NoQueue(Tail(@))]
deliverToSubscription(p) ==
  LET s == The(p).x
  IN  /\ Doing(p, "deliver")
      /\ IF s.to \in Fits THEN Do(p, <<[Job("insert", s) EXCEPT !.to = s.to]>>)
         ELSE Skip(p)
      /\ KeepOthers

(* The rules are listed once, the targets of a rule when its turn comes.   *)
listRules(p) ==
  /\ Doing(p, "rules")
  /\ Do(p, LET rules == SetToSeq(enabled)
           IN  [k \in DOMAIN rules |-> Job("targets", rules[k])])
  /\ KeepOthers
TargetsOf(r) == {g \in targets : g.rule = r}
listTargets(p) ==
  /\ Doing(p, "targets")
  /\ Do(p, Jobs("sqs", TargetsOf(The(p).x)))
  /\ KeepOthers

(* A target is tried as a queue, then as a topic; the log says whether a   *)
(* message came of it.  What the request has sent to the target so far is  *)
(* counted from zero.                                                      *)
Log(g) == <<Job("log", g)>>
Carried(sent) == sent
FromZero(sent) == 0
deliverToSQS(p) ==
  LET g == The(p).x
  IN  /\ Doing(p, "sqs")
      /\ req' = [req EXCEPT ![p].sent = FromZero(@), ![p].todo =
           (IF g.to \in Fits
            THEN <<[Job("insert", g) EXCEPT !.via = {g}, !.to = g.to]>>
            ELSE <<Job("sns", g)>>) \o Log(g) \o Tail(@)]
      /\ KeepOthers
deliverToSNS(p) ==
  /\ Doing(p, "sns")
  /\ Do(p, IF The(p).x.to \in topics THEN <<Job("forward", The(p).x)>> ELSE <<>>)
  /\ KeepOthers
forward(p) ==
  LET g == The(p).x  listed == Jobs("deliver", SubsOf(g.to))
  IN  /\ Doing(p, "forward")
      /\ Do(p, [k \in DOMAIN listed |-> [listed[k] EXCEPT !.do = "relay",
                                                          !.via = {g}]])
      /\ KeepOthers
relay(p) ==
  LET j == The(p)
  IN  /\ Doing(p, "relay")
      /\ IF j.x.to \in Fits
         THEN Do(p, <<[j EXCEPT !.do = "insert", !.to = j.x.to]>>)
         ELSE Skip(p)
      /\ KeepOthers

(* The queue was found before; it may be gone.                             *)
Sub(j) == IF j.via = {} \/ j.x \notin j.via THEN {j.x} ELSE {}
insertMessage(p) ==
  LET j == The(p)
  IN  /\ Doing(p, "insert")
      /\ messages' = messages \cup
           {[n |-> Cardinality(messages) + 1, of |-> req[p].of,
             way |-> Way(j.via, Sub(j), j.to)]}
      /\ req' = [req EXCEPT ![p].sent = @ + 1, ![p].todo = Tail(@)]
      /\ UNCHANGED <<config, events, accepted, changes, standing>>

Status(sent) == IF sent > 0 THEN "DELIVERED" ELSE "NO_TARGET"
logEvent(p) ==
  /\ Doing(p, "log")
  /\ events' = events \cup {[of |-> req[p].of, target |-> The(p).x,
                             status |-> Status(req[p].sent)]}
  /\ Do(p, <<>>)
  /\ UNCHANGED <<config, messages, accepted, changes, standing>>

-----------------------------------------------------------------------------
(* Changes of who gets what.  One that is a single call on the store after *)
(* its lookups is a step; the others go on as requests of their own.       *)

Change(p) ==
  /\ ~req[p].busy /\ changes < MaxChanges /\ changes' = changes + 1
  /\ UNCHANGED <<messages, events, accepted>> /\ Standing
AtOnce(p) == Change(p) /\ UNCHANGED req
GoOn(p, jobs) ==
  /\ UNCHANGED config /\ Change(p)
  /\ req' = [req EXCEPT ![p] = [Idle EXCEPT !.busy = TRUE, !.todo = jobs]]

createQueue(p, q) ==
  /\ q \notin queues /\ queues' = queues \cup {q}
  /\ UNCHANGED <<topics, subs, enabled, targets>> /\ AtOnce(p)
deleteQueue(p, q) ==
  /\ q \in queues /\ queues' = queues \ {q}
  /\ UNCHANGED <<topics, subs, enabled, targets>> /\ AtOnce(p)
createTopic(p, t) ==
  /\ t \notin topics /\ topics' = topics \cup {t}
  /\ UNCHANGED <<queues, subs, enabled, targets>> /\ AtOnce(p)
unsubscribe(p, s) ==
  /\ subs' = subs \ {s}
  /\ UNCHANGED <<queues, topics, enabled, targets>> /\ AtOnce(p)
(* A delivery passes over a rule that is DISABLED as over one that is not  *)
(* there: putRule, enableRule and disableRule write the state, and putRule *)
(* inserts and deleteRule deletes the rule.                                *)
setRuleState(p, r) ==
  /\ \/ enabled' = enabled \cup {r}
     \/ enabled' = enabled \ {r}
  /\ enabled' # enabled
  /\ UNCHANGED <<queues, topics, subs, targets>> /\ AtOnce(p)
removeTargets(p, g) ==
  /\ targets' = targets \ {g}
  /\ UNCHANGED <<queues, topics, subs, enabled>> /\ AtOnce(p)

(* Subscribing looks the topic and the subscription up and inserts then,   *)
(* and so does putting a target: one that is made to name something else   *)
(* is one removed and another put.  A deletion of a topic deletes the      *)
(* subscriptions it listed one by one, and the topic last.                 *)
NewNumber == Cardinality(Subscribed) + Cardinality(Targeted) + changes + 1
subscribe(p, t, e) ==
  /\ t \in topics
  /\ ~\E s \in subs : s.topic = t /\ s.to = e
  /\ GoOn(p, <<Job("subscribe", [n |-> NewNumber, topic |-> t, to |-> e])>>)
putTargets(p, r, e) ==
  /\ ~\E g \in targets : g.rule = r /\ g.to = e
  /\ GoOn(p, <<Job("target", [n |-> NewNumber, rule |-> r, to |-> e])>>)
deleteTopic(p, t) ==
  t \in topics /\ GoOn(p, Jobs("unsubscribe", SubsOf(t)) \o <<Job("drop", t)>>)

insertSubscription(p) ==
  /\ Doing(p, "subscribe")
  /\ subs' = subs \cup {The(p).x} /\ Do(p, <<>>)
  /\ UNCHANGED <<queues, topics, enabled, targets, messages, events, accepted,
                 changes>>
  /\ Standing
insertTarget(p) ==
  /\ Doing(p, "target")
  /\ targets' = targets \cup {The(p).x} /\ Do(p, <<>>)
  /\ UNCHANGED <<queues, topics, subs, enabled, messages, events, accepted,
                 changes>>
  /\ Standing
deleteSubscription(p) ==
  /\ Doing(p, "unsubscribe")
  /\ subs' = subs \ {The(p).x} /\ Do(p, <<>>)
  /\ UNCHANGED <<queues, topics, enabled, targets, messages, events, accepted,
                 changes>>
  /\ Standing
dropTopic(p) ==
  /\ Doing(p, "drop")
  /\ topics' = topics \ {The(p).x} /\ Do(p, <<>>)
  /\ UNCHANGED <<queues, subs, enabled, targets, messages, events, accepted,
                 changes>>
  /\ Standing

-----------------------------------------------------------------------------
Changes(p) ==
  \/ \E q \in Queues : createQueue(p, q) \/ deleteQueue(p, q)
  \/ \E t \in Topics : createTopic(p, t) \/ deleteTopic(p, t)
                        \/ \E e \in Queues : subscribe(p, t, e)
  \/ \E s \in subs : unsubscribe(p, s)
  \/ \E g \in targets : removeTargets(p, g)
  \/ \E r \in Rules : setRuleState(p, r)
                      \/ \E e \in Queues \cup Topics : putTargets(p, r, e)
GoesOn(p) ==
  \/ listSubscriptions(p) \/ deliverToSubscription(p)
  \/ listRules(p) \/ listTargets(p)
  \/ deliverToSQS(p) \/ deliverToSNS(p) \/ forward(p) \/ relay(p)
  \/ insertMessage(p) \/ logEvent(p)
  \/ insertSubscription(p) \/ insertTarget(p)
  \/ deleteSubscription(p) \/ dropTopic(p) \/ Answer(p)
Next ==
  \E p \in Procs : \/ \E t \in Topics : publish(p, t)
                   \/ putEvents(p) \/ Changes(p) \/ GoesOn(p)

(* A request that has begun goes on: it runs in a goroutine of its own and *)
(* waits for nothing.                                                      *)
Fairness == \A p \in Procs : WF_vars(GoesOn(p))
Spec == Init /\ [][Next]_vars /\ Fairness

-----------------------------------------------------------------------------
(* When a publication or an event is answered, every way that stood all    *)
(* along put one message in its queue.                                     *)
Sent(n, way) == {m \in messages : m.of = n /\ m.way = way}
StandingIsServed ==
  \A p \in Procs :
    req[p].of # 0 /\ req[p].todo = <<>> =>
      \A way \in standing[p] : Cardinality(Sent(req[p].of, way)) = 1

(* The log of EventBridge says DELIVERED of a target for which a message   *)
(* was put in some queue, and NO_TARGET of one that none was put for.      *)
LogTellsTruth ==
  \A e \in events :
    e.status = "DELIVERED"
      <=> \E m \in messages : m.of = e.of /\ m.way.target = {e.target}

(* Every publication and every event is answered, whatever comes and goes  *)
(* while it is delivered.                                                  *)
EventuallyAnswered ==
  \A p \in Procs : req[p].busy ~> ~req[p].busy
=============================================================================
