------------------------------ MODULE ClerkService ------------------------------
(***************************************************************************)
(* internal/services/clerk: users and their email addresses, organizations,*)
(* memberships and invitations.  Sessions are in OAuth.                    *)
(***************************************************************************)
EXTENDS StoreCalls, Integers

findUser == Find("user", "u")
findOrg == Find("org", "o")
findEmail == Find("email", "e")

-----------------------------------------------------------------------------
(* Users.                                                                  *)
User == [u |-> "user"]
NewUser == Add("u", "user", [primary |-> "none"])
NewEmail(x, address, primary) ==
  Add(x, "email", [user |-> "u", address |-> address, primary |-> primary])

ListUsers == Reads("user")
CountUsers == Reads("user")
GetUser == Handler(User, <<findUser, Look("email")>>)
CreateUser ==
  Handler(None, <<NewUser>>) \o
  Handler(None, <<NewUser, NewEmail("e", "other", "yes"),
                  NewEmail("second", "other", "no"), Set("u", [primary |-> "e"])>>)
PatchUser ==
  Handler(User @@ [e |-> "email"], <<findUser, Set("u", [primary |-> "e"])>>)
DeleteUser ==
  Handler(User,
    <<findUser, DropAll("email", [user |-> "u"]),
      Reading(Each("m", "membership", [user |-> "u"],
        <<Drop("m"),
          Reading(IfAny("o", "org", [id |-> "org"],
                        <<Bump("o", "members", -1)>>), "members")>>), "org"),
      Drop("u")>>)
setUserFlag == Handler(User, <<findUser, Patch("u"), Look("email")>>)
PatchUserMetadata == Handler(User, <<findUser, Patch("u"), Look("email")>>)
VerifyPassword == Handler(User, <<findUser>>)

-----------------------------------------------------------------------------
(* Email addresses.                                                        *)
Email == [e |-> "email"]

makePrimaryEmail ==
  <<EachBut("e", "other", "email", [user |-> "u", primary |-> "yes"],
            <<Set("other", [primary |-> "no"])>>),
    Set("u", [primary |-> "e"])>>

GetEmailAddress == Handler(Email, <<findEmail>>)
CreateEmailAddress ==
  Handler(User, <<findUser, NewEmail("e", "other", "no")>>) \o
  Handler(User, <<findUser, NewEmail("e", "other", "yes")>> \o makePrimaryEmail)
PatchEmailAddress ==
  Handler(Email, <<findEmail, Patch("e")>>) \o
  Handler(Email,
    <<Reading(findEmail, "user"),
      IfAny("u", "user", [id |-> "user"], makePrimaryEmail),
      Set("e", [primary |-> "yes"])>>)
DeleteEmailAddress ==
  LET OfUser(calls) == <<IfAny("u", "user", [id |-> "user"], calls)>>
  IN  Handler(Email,
        <<Reading(Reading(findEmail, "primary"), "user"), Drop("e"),
          If("primary", {"yes"},
             <<Seek("next", "email", [user |-> "user"],
                 OfUser(<<Set("next", [primary |-> "yes"]),
                          Set("u", [primary |-> "next"])>>),
                 OfUser(<<Set("u", [primary |-> "none"])>>))>>,
             <<>>)>>)

-----------------------------------------------------------------------------
(* Organizations.  They keep how many members they have, and how many      *)
(* invitations are pending.                                                *)
Org == [o |-> "org"]
NewOrg(slug) ==
  Add("o", "org", [slug |-> slug, members |-> "zero", pending |-> "zero"])
NewMembership == Add("m", "membership", [org |-> "o", user |-> "u"])

ListOrganizations == Reads("org")
GetOrganization == Handler(Org, <<findOrg>>)
CreateOrganization ==
  Handler(None, <<NewOrg("other")>>) \o
  Handler(User, <<NewOrg("other"),
                  IfAny("u", "user", [id |-> "u"],
                        <<NewMembership, Set("o", [members |-> "one"])>>)>>)
PatchOrganization == Handler(Org, <<findOrg, Patch("o")>>)
DeleteOrganization ==
  Handler(Org, <<findOrg, DropAll("membership", [org |-> "o"]),
                 DropAll("invitation", [org |-> "o"]), Drop("o")>>)
PatchOrganizationMetadata == Handler(Org, <<findOrg, Patch("o")>>)

-----------------------------------------------------------------------------
(* Memberships.                                                            *)
Member == [o |-> "org", u |-> "user"]
membershipForUser == FindBy("m", "membership", [org |-> "o", user |-> "u"])

ListMemberships == Handler(Org, <<findOrg, Look("membership"), Look("user")>>)
CreateMembership ==
  Handler(Member,
    <<Reading(findOrg, "members"), findUser,
      Free("membership", [org |-> "o", user |-> "u"]), NewMembership,
      Bump("o", "members", 1)>>)
PatchMembership == Handler(Member, <<findOrg, membershipForUser, Patch("m")>>)
DeleteMembership ==
  Handler(Member, <<Reading(findOrg, "members"), membershipForUser, Drop("m"),
                    Bump("o", "members", -1)>>)
PatchMembershipMetadata ==
  Handler(Member, <<findOrg, membershipForUser, Patch("m")>>)

-----------------------------------------------------------------------------
(* Invitations.                                                            *)
Invitation == Org @@ [i |-> "invitation"]
findInvitation == FindBy("i", "invitation", [id |-> "i", org |-> "o"])
createInvitation ==
  <<Add("i", "invitation", [org |-> "o", status |-> "PENDING"]),
    Reading(IfAny("o", "org", [id |-> "o"], <<>>), "pending"),
    Bump("o", "pending", 1)>>

ListInvitations == Handler(Org, <<findOrg, Look("invitation")>>)
GetInvitation == Handler(Invitation, <<findOrg, findInvitation>>)
CreateInvitation ==
  Handler(Org, <<Reading(findOrg, "pending")>> \o createInvitation)
CreateBulkInvitations ==
  Handler(Org, <<Reading(findOrg, "pending")>> \o createInvitation
                 \o createInvitation)
RevokeInvitation ==
  Handler(Invitation,
    <<Reading(findOrg, "pending"), Reading(findInvitation, "status"),
      Needs("status", {"PENDING"}), Set("i", [status |-> "REVOKED"]),
      Bump("o", "pending", -1)>>)

-----------------------------------------------------------------------------
(* Seeding: the defaults only into a service without users.                *)
SeedDefaults ==
  <<Seek("u", "user", None, <<>>,
         <<NewUser, NewEmail("e", "default", "yes"),
           Set("u", [primary |-> "e"])>>)>>
SeedFromConfig ==
  <<Seek("e", "email", [address |-> "seeded"], <<>>,
         <<NewUser, NewEmail("e", "seeded", "yes"),
           Set("u", [primary |-> "e"])>>),
    Seek("o", "org", [slug |-> "seeded"], <<>>,
         <<NewOrg("seeded"), NewMembership, Set("o", [members |-> "one"])>>)>>

-----------------------------------------------------------------------------
Users ==
  Part({"user", "email"},
       ListUsers \o CountUsers \o GetUser \o CreateUser \o PatchUser \o DeleteUser \o setUserFlag
         \o PatchUserMetadata \o VerifyPassword \o GetEmailAddress
         \o CreateEmailAddress \o PatchEmailAddress \o DeleteEmailAddress,
       [defaults |-> SeedDefaults, config |-> SeedFromConfig,
        parents |-> [email |-> [user |-> Id("user")]],
        chosen |-> [email |-> [mark |-> [primary |-> "yes"], by |-> "user"]]])
Organizations ==
  Part({"user", "org", "membership", "invitation"},
       GetUser \o CreateUser \o DeleteUser \o ListOrganizations \o GetOrganization
         \o CreateOrganization \o PatchOrganization
         \o DeleteOrganization \o PatchOrganizationMetadata
         \o ListMemberships \o CreateMembership \o PatchMembership
         \o DeleteMembership \o PatchMembershipMetadata
         \o ListInvitations \o GetInvitation \o CreateInvitation
         \o CreateBulkInvitations \o RevokeInvitation,
       [defaults |-> SeedDefaults, config |-> SeedFromConfig,
        parents |-> [membership |-> [org |-> Id("org"), user |-> Id("user")],
                     invitation |-> [org |-> Id("org")]],
        unique |-> [membership |-> {"org", "user"}],
        counts |->
          {[table |-> "org", field |-> "members", of |-> "membership",
            by |-> [org |-> "id"], where |-> None],
           [table |-> "org", field |-> "pending", of |-> "invitation",
            by |-> [org |-> "id"], where |-> [status |-> "PENDING"]]}])
=============================================================================
