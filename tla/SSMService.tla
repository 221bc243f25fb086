------------------------------ MODULE SSMService ------------------------------
(***************************************************************************)
(* internal/services/aws/ssm: parameters and their versions, both known by *)
(* the name.  The version of a parameter is a number, written from what    *)
(* was read; here it is the number of versions there should be.            *)
(*                                                                         *)
(* A parameter is found by its name, with or without a leading slash, or   *)
(* by its ARN.  One that is put under an ARN is looked for under the name  *)
(* in it, an ARN of another account nowhere, and both are stored as sent   *)
(* and found by their own ARNs only: here that of p2 and a foreign one.    *)
(***************************************************************************)
EXTENDS Integers, StoreCalls

Arn == "ARN of p2"
Foreign == "ARN of another account"

findParameter == Reading(FindBy("p", "parameter", [name |-> "n"]), "version")
requireParameter(args, calls) ==
  Handler([n |-> "own ARN"] @@ args, <<findParameter>> \o calls)

insertVersion(name) == <<Add("v", "version", [name |-> name])>>
insertParameter == Add("p", "parameter", [name |-> "n", version |-> "one"])
overwrite(name, no) ==
  ReadingAll(Seek("p", "parameter", [name |-> name],
                  <<Bump("p", "version", 1)>> \o insertVersion(name), no),
             {"version"})
putParameter ==
  LET new == <<insertParameter>> \o insertVersion("n")
      unsought == <<Unsought(insertParameter)>> \o insertVersion("n")
      Put(n, calls) == Handler([n |-> n], calls)
      PutArn(calls) == Handler([n |-> "ARN", x |-> "name in ARN"], calls)
  IN  Put("name", <<Free("parameter", [name |-> "n"])>> \o new)
      \o Put("name", <<overwrite("n", new)>>)
      \o Put("own ARN", <<overwrite("n", <<Refuse>>)>>)
      \o PutArn(<<Free("parameter", [name |-> "x"])>> \o unsought)
      \o PutArn(<<overwrite("x", unsought)>>)
      \o Put("foreign ARN", unsought)

accessed == Patch("p")
findVersion == FindBy("v", "version", [name |-> "n"])
getParameter ==
  requireParameter(None, <<accessed>>)
  \o Handler([n |-> "name"], <<findParameter, findVersion, accessed>>)
getParameters ==
  Handler([n |-> "own ARN"],
          <<IfAny("p", "parameter", [name |-> "n"], <<accessed>>)>>)
getParametersByPath ==
  Handler(None, <<Each("p", "parameter", None, <<accessed>>)>>)

deleteParameterRecord == <<DropAll("version", [name |-> "n"]), Drop("p")>>
deleteParameter == requireParameter(None, deleteParameterRecord)
deleteParameters ==
  Handler([n |-> "own ARN"],
          <<IfAny("p", "parameter", [name |-> "n"], deleteParameterRecord)>>)

describeParameters == Reads("parameter")
requireTaggedParameter(calls) == requireParameter(None, calls)
addTagsToResource == requireTaggedParameter(<<Patch("p")>>)
removeTagsFromResource == requireTaggedParameter(<<Patch("p")>>)
listTagsForResource == requireTaggedParameter(<<>>)

seedSSMFromConfig ==
  <<IfNone("parameter", [name |-> "p1"],
           <<Add("p", "parameter", [name |-> "p1", version |-> "one"]),
             Add("v", "version", [name |-> "p1"])>>)>>
-----------------------------------------------------------------------------
Parameters ==
  Part({"parameter", "version"},
    putParameter \o getParameter \o getParameters \o getParametersByPath
      \o deleteParameter \o deleteParameters \o describeParameters
      \o addTagsToResource \o removeTagsFromResource \o listTagsForResource,
    [config |-> seedSSMFromConfig,
     parents |-> [version |-> [name |-> Key("parameter", "name")]],
     unique |-> [parameter |-> {"name"}],
     counts |-> {[table |-> "parameter", field |-> "version", of |-> "version",
                  by |-> [name |-> "name"], where |-> None]},
     words |-> [name |-> {"p1", "p2"}, ARN |-> {Arn}]
               @@ ("name in ARN" :> {"p2"}) @@ ("foreign ARN" :> {Foreign})
               @@ ("own ARN" :> {"p1", "p2", Arn, Foreign}),
     requests |-> 3])
=============================================================================
