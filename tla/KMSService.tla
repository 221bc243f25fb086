------------------------------ MODULE KMSService ------------------------------
(***************************************************************************)
(* internal/services/aws/kms: keys, which nothing deletes or disables but  *)
(* the configuration, and their aliases.  A ciphertext carries the id of   *)
(* its key and the plaintext, so encrypting and decrypting only read.      *)
(*                                                                         *)
(* A key or an alias is stored under the name that was sent, but a name    *)
(* that is an ARN, or for a key an alias, is looked up as what it stands   *)
(* for.  Of such names there are those that stand for k2 and a2, and one   *)
(* ARN that stands for nothing here: it is of another account, or kind.  A *)
(* key stored under any of them but the ARN of an alias is found by its own*)
(* ARN; an alias stored under an ARN is not found.                         *)
(***************************************************************************)
EXTENDS StoreCalls

ArnOf(name) == "ARN of " \o name
Foreign == "foreign ARN"

(* A request names a key directly, by id or ARN, or by an alias, whose     *)
(* target is then looked up like an id that was sent.                      *)
key(name, yes, no) ==
  ReadingAll(Seek("k", "key", [name |-> name], yes, no), {"name", "state"})
findAlias(name, yes, no) ==
  Reading(Seek("s", "alias", [name |-> name], yes, no), "key")
findKeyByAlias(name, yes, no) ==
  findAlias(name,
    <<If("key", {Foreign}, no,
         <<If("key", {ArnOf("k2")}, <<key("k2", yes, no)>>,
              <<key("key", yes, no)>>)>>)>>,
    no)
findKey(args, before, calls) ==
  Handler([n |-> "own ARN"] @@ args, before \o <<key("n", calls, <<Refuse>>)>>)
  \o Handler([n |-> "alias name"] @@ args,
             before \o <<findKeyByAlias("n", calls, <<Refuse>>)>>)
requireKey(calls) == findKey(None, <<>>, calls)
requireEnabledKey == requireKey(<<Needs("state", {"ENABLED"})>>)

NewKey(name) == Add("k", "key", [name |-> name, state |-> "ENABLED"])
createKey ==
  LET Named(n, free) == Handler([n |-> n], free \o <<Unsought(NewKey("n"))>>)
      ByAlias(n) == Named(n, <<findKeyByAlias("a2", <<Refuse>>, <<>>)>>)
  IN  Handler([n |-> "key name"], <<Free("key", [name |-> "n"]), NewKey("n")>>)
      \o Handler(None, <<NewKey("k")>>)
      \o Named(ArnOf("k2"), <<Free("key", [name |-> "k2"])>>)
      \o ByAlias("alias/a2") \o ByAlias(ArnOf("alias/a2")) \o Named(Foreign, <<>>)
describeKey == requireKey(<<>>)
listKeys == Reads("key")

NewAlias == Add("s", "alias", [name |-> "a", key |-> "name"])
Aliasing(a, free, new) == findKey([a |-> a], free, <<new>>)
AliasingArns ==
  Aliasing(ArnOf("alias/a2"), <<Free("alias", [name |-> "a2"])>>,
           Unsought(NewAlias))
  \o Aliasing(Foreign, <<>>, Unsought(NewAlias))
createAliasAgain == Aliasing("alias name", <<>>, NewAlias) \o AliasingArns
createAlias ==
  Aliasing("alias name", <<Free("alias", [name |-> "a"])>>, NewAlias)
  \o AliasingArns
listAliases == Reads("alias") \o requireKey(<<Look("alias")>>)
encrypt == requireEnabledKey
decrypt == requireEnabledKey
generateDataKey == requireEnabledKey

seedKMSAlias(name, alias) ==
  Ensure("s", "alias", [name |-> alias], [name |-> alias, key |-> name])
seedKMSKey(name, state, alias) ==
  <<Ensure("k", "key", [name |-> name], [name |-> name, state |-> state]),
    seedKMSAlias(name, alias)>>
seedKMSDefaults == seedKMSKey("k0", "ENABLED", "local")
seedKMSFromConfig == seedKMSKey("k1", "DISABLED", "a1")
-----------------------------------------------------------------------------
Keys ==
  LET arns == {ArnOf("k2"), ArnOf("alias/a2"), "alias/a2", Foreign}
  IN  Part({"key", "alias"},
    createKey \o describeKey \o listKeys \o createAlias \o listAliases
      \o encrypt \o decrypt \o generateDataKey,
    [defaults |-> seedKMSDefaults, config |-> seedKMSFromConfig,
     parents |-> [alias |-> [key |-> Key("key", "name")]],
     unique |-> [key |-> {"name"}, alias |-> {"name"}],
     words |-> [arn \in arns |-> {arn}]
               @@ ("key name" :> {"k1", "k2"}) @@ ("alias name" :> {"a1", "a2"})
               @@ ("own ARN" :> {"k1", "k2", ArnOf("k2"), "alias/a2", Foreign})])
=============================================================================
