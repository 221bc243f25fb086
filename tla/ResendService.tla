---------------------------- MODULE ResendService ----------------------------
(***************************************************************************)
(* internal/services/resend: emails (nothing sends the scheduled ones      *)
(* later), domains, API keys, and audiences with their contacts, which     *)
(* stay when the audience is deleted.                                      *)
(***************************************************************************)
EXTENDS StoreCalls

findEmail(field) == Reading(Find("email", "e"), field)
findDomain == Find("domain", "d")
OfEmail(calls) == Handler([e |-> "email"], <<findEmail("status")>> \o calls)
OfDomain(calls) == Handler([d |-> "domain"], <<findDomain>> \o calls)
OfAudience(args, calls) ==
  Handler([a |-> "audience"] @@ args, <<Find("audience", "a")>> \o calls)

insertEmail(status) == <<Add("e", "email", [status |-> status])>>
CreateEmail ==
  Handler(None, insertEmail("DELIVERED")) \o Handler(None, insertEmail("SCHEDULED"))
CreateBatchEmails ==
  Handler(None, insertEmail("DELIVERED") \o insertEmail("SCHEDULED"))
ListEmails == Reads("email")
GetEmail == OfEmail(<<>>)
CancelEmail ==
  OfEmail(<<Needs("status", {"SCHEDULED"}), Set("e", [status |-> "CANCELED"])>>)
Inbox == Reads("email")
InboxEmail == OfEmail(<<>>)

CreateDomain == Handler([n |-> "name"], <<Add("d", "domain", [name |-> "n"])>>)
ListDomains == Reads("domain")
GetDomain == OfDomain(<<>>)
DeleteDomain == OfDomain(<<Drop("d")>>)
VerifyDomain == OfDomain(<<Patch("d")>>)

CreateAPIKey == Handler(None, <<Add("k", "key", None)>>)
ListAPIKeys == Reads("key")
DeleteAPIKey == Handler([k |-> "key"], <<Find("key", "k"), Drop("k")>>)

CreateAudience == Handler([n |-> "name"], <<Add("a", "audience", [name |-> "n"])>>)
ListAudiences == Reads("audience")
DeleteAudience == OfAudience(None, <<Drop("a")>>)
CreateContact == OfAudience(None, <<Add("c", "contact", [audience |-> "a"])>>)
ListContacts == OfAudience(None, <<Look("contact")>>)
DeleteContact ==
  Handler([a |-> "audience", c |-> "contact"],
    <<Reading(Find("contact", "c"), "audience"), Needs("audience", {"a"}),
      Drop("c")>>)

findAudienceByName(name) ==
  Seek("a", "audience", [name |-> name], <<>>,
       <<Add("a", "audience", [name |-> name])>>)
SeedFromConfig ==
  <<Ensure("d", "domain", [name |-> "example"], [name |-> "example"]),
    findAudienceByName("Default"), Add("c", "contact", [audience |-> "a"]),
    findAudienceByName("News"), Add("c", "contact", [audience |-> "a"])>>
-----------------------------------------------------------------------------
Everything ==
  Part({"email", "domain", "key", "audience", "contact"},
    CreateEmail \o CreateBatchEmails \o ListEmails \o GetEmail \o CancelEmail
      \o Inbox \o InboxEmail \o CreateDomain \o ListDomains \o GetDomain
      \o DeleteDomain \o VerifyDomain \o CreateAPIKey \o ListAPIKeys
      \o DeleteAPIKey \o CreateAudience \o ListAudiences \o DeleteAudience
      \o CreateContact \o ListContacts \o DeleteContact,
    [config |-> SeedFromConfig,
     parents |-> [contact |-> [audience |-> Id("audience")]],
     outlive |-> {"audience"}, words |-> [name |-> {"n1"}]])
=============================================================================
