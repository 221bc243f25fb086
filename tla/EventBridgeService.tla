-------------------------- MODULE EventBridgeService --------------------------
(***************************************************************************)
(* internal/services/aws/eventbridge: buses, rules and their targets, and  *)
(* the log of deliveries.  A bus is known by its name, a rule by its bus   *)
(* and name, a target by its rule and id; the default bus is made whenever *)
(* a request needs it and there is none.  Events are delivered in Fanout.  *)
(***************************************************************************)
EXTENDS StoreCalls

insertDefaultBus == Add("k", "bus", [name |-> "default"])
ensureDefaultBus ==
  Seek("k", "bus", [name |-> "default"], <<>>, <<insertDefaultBus>>)
findBus == FindBy("k", "bus", [name |-> "b"])
requireBus ==
  Seek("k", "bus", [name |-> "b"], <<>>,
       <<If("b", {"default"}, <<insertDefaultBus>>, <<Refuse>>)>>)
OtherThanDefault == If("b", {"default"}, <<Refuse>>, <<>>)
OfBus(args, calls) == Handler([b |-> "bus name"] @@ args, calls)

findRule == [bus |-> "b", name |-> "n"]
requireRule == FindBy("r", "rule", findRule)
OfRule(args, calls) ==
  OfBus([n |-> "name"] @@ args, <<requireRule>> \o calls)
ofThisRule == [bus |-> "b", rule |-> "n"]
findTarget(t) == [target |-> t] @@ ofThisRule

createEventBus ==
  OfBus(None, <<OtherThanDefault, Free("bus", [name |-> "b"]),
                Add("k", "bus", [name |-> "b"])>>)
deleteRuleTargets == <<DropAll("target", ofThisRule)>>
deleteEventBus ==
  OfBus(None,
    <<OtherThanDefault, findBus,
      ReadingAs(Each("r", "rule", [bus |-> "b"], deleteRuleTargets \o <<Drop("r")>>),
                "n", "name"),
      Drop("k")>>)
listEventBuses == Handler(None, <<ensureDefaultBus>>)

putRule ==
  OfBus([n |-> "name", state |-> "state"],
    <<requireBus,
      Seek("r", "rule", findRule, <<Set("r", [state |-> "state"])>>,
           <<Add("r", "rule", [state |-> "state"] @@ findRule)>>)>>)
describeRule == OfRule(None, <<>>)
listRules == OfBus(None, <<requireBus, Look("rule")>>)
deleteRule ==
  OfRule(None, <<IfAny("t", "target", ofThisRule, <<Refuse>>), Drop("r")>>)
setRuleState == OfRule([state |-> "state"], <<Set("r", [state |-> "state"])>>)

(* A target that is refused leaves those before it in place.               *)
putTarget(t) ==
  Seek("t", "target", findTarget(t), <<Patch("t")>>,
       <<Add("t", "target", findTarget(t))>>)
putTargets ==
  OfRule([x |-> "target name", y |-> "target name"],
         <<putTarget("x"), putTarget("y")>>)
  \o OfRule([x |-> "target name"], <<putTarget("x"), Refuse>>)
listTargetsByRule == OfRule(None, <<Look("target")>>)
removeTargets ==
  OfRule([x |-> "target name"],
         <<IfAny("t", "target", findTarget("x"), <<Drop("t")>>)>>)

(* Each target of each rule of the listing that is not disabled and whose  *)
(* pattern matches.                                                        *)
deliverEvent ==
  <<ReadingAll(Each("r", "rule", [bus |-> "b"],
      <<If("state", {"DISABLED"}, <<>>,
           <<If("pattern", {}, <<>>,
                <<Each("t", "target", [bus |-> "b", rule |-> "name"],
                       <<Add("d", "delivery", None)>>)>>)>>)>>),
      {"name", "state"})>>
putEvents ==
  OfBus(None, <<If("b", {"default"}, <<ensureDefaultBus>>, <<>>), findBus>>
              \o deliverEvent)

requireTaggableResource ==
  Handler([k |-> "bus"], <<Find("bus", "k"), Patch("k")>>)
  \o Handler([r |-> "rule"], <<Find("rule", "r"), Patch("r")>>)
  \o Handler(None, <<ensureDefaultBus, Patch("k")>>)
tagResource == requireTaggableResource
untagResource == requireTaggableResource
listTagsForResource ==
  Handler([k |-> "bus"], <<Find("bus", "k")>>)
  \o Handler([r |-> "rule"], <<Find("rule", "r")>>)
  \o Handler(None, <<ensureDefaultBus>>)

seedEventBridgeDefaults == <<ensureDefaultBus>>
-----------------------------------------------------------------------------
Buses ==
  Part({"bus", "rule", "target", "delivery"},
    createEventBus \o deleteEventBus \o listEventBuses \o putRule
      \o describeRule \o listRules \o deleteRule \o setRuleState
      \o putTargets \o listTargetsByRule \o removeTargets \o putEvents
      \o tagResource \o untagResource \o listTagsForResource,
    [defaults |-> seedEventBridgeDefaults,
     config |-> <<Add("k", "bus", [name |-> "b1"]),
                  Add("r", "rule", [bus |-> "b1", name |-> "n1",
                                    state |-> "ENABLED"])>>,
     parents |-> [rule |-> [bus |-> Key("bus", "name")],
                  target |-> [bus |-> Key("bus", "name"),
                              rule |-> Key("rule", "name")]],
     unique |-> [bus |-> {"name"}, rule |-> {"bus", "name"},
                 target |-> {"bus", "rule", "target"}],
     copies |-> {[table |-> "target", of |-> "rule", fields |-> {},
                  by |-> [bus |-> "bus", name |-> "rule"]]},
     words |-> ("bus name" :> {"default", "b1"}) @@ ("target name" :> {"x1", "x2"})
               @@ [name |-> {"n1"}, state |-> {"ENABLED", "DISABLED"}]])
=============================================================================
