------------------------------ MODULE SNSService ------------------------------
(***************************************************************************)
(* internal/services/aws/sns: topics, their subscriptions and the log of   *)
(* deliveries.  A topic is known by its name, of which its ARN is made, so *)
(* a topic created again has the ARN of the old one.  The queues and their *)
(* messages are those of SQS; Fanout says what a publish promises.         *)
(***************************************************************************)
EXTENDS StoreCalls

findTopicByARN == FindBy("t", "topic", [name |-> "n"])
OfTopic(args, calls) ==
  Handler([n |-> "name"] @@ args, <<findTopicByARN>> \o calls)

createTopic ==
  Handler([n |-> "name"], <<Ensure("t", "topic", [name |-> "n"], [name |-> "n"])>>)
DeletingTopic(cascade) ==
  Handler([n |-> "name"],
          <<IfAny("t", "topic", [name |-> "n"], cascade \o <<Drop("t")>>)>>)
deleteTopicOnly == DeletingTopic(<<DropAll("delivery", [topic |-> "n"])>>)
deleteTopic ==
  DeletingTopic(<<DropAll("subscription", [topic |-> "n"]),
                  DropAll("delivery", [topic |-> "n"])>>)
listTopics == Reads("topic")

(* The attributes, tags and permissions are left out of the models: each   *)
(* is written whole, from what was read.                                   *)
getTopicAttributes == OfTopic(None, <<Look("subscription")>>)
setTopicAttributes == OfTopic(None, <<Patch("t")>>)
tagResource == OfTopic(None, <<Patch("t")>>)
untagResource == OfTopic(None, <<Patch("t")>>)
listTagsForResource == OfTopic(None, <<>>)
addPermission == OfTopic(None, <<Patch("t")>>)
removePermission == OfTopic(None, <<Patch("t")>>)

subscribe ==
  OfTopic([e |-> "endpoint"],
    <<Ensure("s", "subscription", [topic |-> "n", endpoint |-> "e"],
             [topic |-> "n", endpoint |-> "e", confirmed |-> "YES"])>>)
unsubscribe ==
  Handler([s |-> "subscription"],
          <<IfAny("s", "subscription", [id |-> "s"], <<Drop("s")>>)>>)
listSubscriptions == Reads("subscription")
listSubscriptionsByTopic == OfTopic(None, <<Look("subscription")>>)
confirmSubscription ==
  OfTopic([s |-> "subscription"],
    <<FindBy("s", "subscription", [id |-> "s", topic |-> "n"]),
      Set("s", [confirmed |-> "YES"])>>)

(* The queue of the endpoint may be gone, or the body too large for it.    *)
Delivery == Add("d", "delivery", [topic |-> "n"])
deliverToSubscription ==
  <<If("endpoint", {"EMAIL"}, <<Delivery>>,
       <<IfAny("k", "queue", [name |-> "endpoint"],
               <<If("size", {}, <<>>,
                    <<Add("m", "message", [queue |-> "endpoint"]), Delivery>>)>>)>>)>>
publish ==
  OfTopic(None,
    <<Reading(Each("s", "subscription", [topic |-> "n", confirmed |-> "YES"],
                   deliverToSubscription), "endpoint"),
      Delivery>>)

(* Of SQS: the messages of a queue go before the queue.                    *)
deleteQueue ==
  Handler([q |-> "queueName"],
    <<FindBy("k", "queue", [name |-> "q"]), DropAll("message", [queue |-> "q"]),
      Drop("k")>>)
-----------------------------------------------------------------------------
Topics ==
  Part({"topic", "subscription", "delivery", "queue", "message"},
    createTopic \o deleteTopic \o listTopics \o getTopicAttributes
      \o setTopicAttributes \o tagResource \o untagResource
      \o listTagsForResource \o addPermission \o removePermission
      \o subscribe \o unsubscribe \o listSubscriptions
      \o listSubscriptionsByTopic \o confirmSubscription \o publish
      \o deleteQueue,
    [config |-> <<Add("k", "queue", [name |-> "q1"])>>,
     parents |-> [subscription |-> [topic |-> Key("topic", "name")],
                  delivery |-> [topic |-> Key("topic", "name")],
                  message |-> [queue |-> Key("queue", "name")]],
     unique |-> [topic |-> {"name"}, subscription |-> {"topic", "endpoint"}],
     words |-> [name |-> {"t1"}, endpoint |-> {"q1", "EMAIL"},
                queueName |-> {"q1"}],
     requests |-> 3])
=============================================================================
