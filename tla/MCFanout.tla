------------------------------- MODULE MCFanout -------------------------------
(* A topic with a subscription of each queue, of which one takes no such   *)
(* message, and of an endpoint that is no queue; and a rule with a         *)
(* queue and that topic as its targets.                                    *)
EXTENDS Fanout

TopicOf == CHOOSE t \in Topics : TRUE
RuleOf == CHOOSE r \in Rules : TRUE
SubscribedAtFirst == {<<TopicOf, q>> : q \in Queues} \cup {<<TopicOf, Other>>}
TargetedAtFirst ==
  {<<RuleOf, CHOOSE q \in Queues \ Small : TRUE>>, <<RuleOf, TopicOf>>}
=============================================================================
