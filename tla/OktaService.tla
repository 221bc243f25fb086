------------------------------ MODULE OktaService ------------------------------
(***************************************************************************)
(* internal/services/okta: users, groups, applications, authorization      *)
(* servers and their clients.  A user's login and email are one name: the  *)
(* email defaults to the login, and both are looked for.  The default group*)
(* is the one with a fixed okta id; other groups have random ones, and the *)
(* type of a group, which a client may choose and change, decides nothing. *)
(***************************************************************************)
EXTENDS StoreCalls

findUser == Find("user", "u")
findGroup == Reading(Find("group", "g"), "okta")
findApp == Find("app", "a")

ensureMembership(g) ==
  LET member == [group |-> g, user |-> "u"]
  IN  Ensure("member", "membership", member, member)
ensureAppAssignment ==
  LET assigned == [app |-> "a", user |-> "u"]
  IN  Ensure("assigned", "assignment", assigned, assigned)

-----------------------------------------------------------------------------
(* Users.  Of the statuses only DEPROVISIONED makes a difference here; any *)
(* other one is ACTIVE.                                                    *)
User == [u |-> "user"]
updateUserLifecycle(status) == Set("u", [status |-> status])

ListUsers == Reads("user")
CreateUser ==
  Handler([n |-> "name"],
    <<Free("user", [login |-> "n"]),
      Add("u", "user", [login |-> "n", status |-> "ACTIVE"]),
      Reading(IfAny("g", "group", [okta |-> "00g_everyone"],
                    <<ensureMembership("okta")>>), "okta")>>)
CurrentUser == Handler([n |-> "name"], <<FindBy("u", "user", [login |-> "n"])>>)
GetUser == Handler(User, <<findUser>>)
UserGroups == Handler(User, <<findUser, Look("membership"), Look("group")>>)
UserLifecycle ==
  LET To(status) == Handler(User, <<findUser, updateUserLifecycle(status)>>)
  IN  To("ACTIVE") \o To("DEPROVISIONED")
UpdateUser ==
  LET found == Reading(findUser, "login")
  IN  Handler(User, <<found, Set("u", [login |-> "login"])>>) \o
      Handler(User @@ [n |-> "name"],
        <<found, FreeFor("nobody", "user", [login |-> "n"]),
          Set("u", [login |-> "n"])>>)
DeleteUser ==
  Handler(User,
    <<Reading(findUser, "status"),
      If("status", {"DEPROVISIONED"},
         <<DropAll("membership", [user |-> "u"]),
           DropAll("assignment", [user |-> "u"]), Drop("u")>>,
         <<updateUserLifecycle("DEPROVISIONED")>>)>>)

-----------------------------------------------------------------------------
(* Groups.                                                                 *)
Group == [g |-> "group"]
GroupUser == Group @@ User

ListGroups == Reads("group")
CreateGroup ==
  Handler([n |-> "name"],
    <<Free("group", [name |-> "n"]),
      Add("g", "group", [name |-> "n", okta |-> "g"])>>)
GetGroup == Handler(Group, <<findGroup>>)
GroupUsers == Handler(Group, <<findGroup, Look("membership"), Look("user")>>)
AddGroupUser ==
  Handler(GroupUser, <<findGroup, findUser, ensureMembership("okta")>>)
RemoveGroupUser ==
  Handler(GroupUser,
    <<findGroup, findUser,
      DropAll("membership", [group |-> "okta", user |-> "u"])>>)
UpdateGroup ==
  LET found == Reading(findGroup, "name")
  IN  Handler(Group, <<found, Set("g", [name |-> "name"])>>) \o
      Handler(Group @@ [n |-> "name"],
        <<found, FreeFor("g", "group", [name |-> "n"]),
          Set("g", [name |-> "n"])>>)
DeleteGroup ==
  Handler(Group,
    <<findGroup, DropAll("membership", [group |-> "okta"]), Drop("g")>>)

-----------------------------------------------------------------------------
(* Applications.                                                           *)
App == [a |-> "app"]
AppUser == App @@ User

ListApps == Reads("app")
CreateApp ==
  LET Create(status) == Handler(None, <<Add("a", "app", [status |-> status])>>)
  IN  Create("ACTIVE") \o Create("INACTIVE")
GetApp == Handler(App, <<findApp>>)
AppUsers == Handler(App, <<findApp, Look("assignment"), Look("user")>>)
AssignAppUser == Handler(AppUser, <<findApp, findUser, ensureAppAssignment>>)
UnassignAppUser ==
  Handler(AppUser,
    <<findApp, findUser, DropAll("assignment", [app |-> "a", user |-> "u"])>>)
AppLifecycle ==
  LET To(status) == Handler(App, <<findApp, Set("a", [status |-> status])>>)
  IN  To("ACTIVE") \o To("INACTIVE")
UpdateApp ==
  Handler(App, <<Reading(findApp, "status"), Set("a", [status |-> "status"])>>)
DeleteApp ==
  Handler(App,
    <<Reading(findApp, "status"), Needs("status", {"INACTIVE"}),
      DropAll("assignment", [app |-> "a"]), Drop("a")>>)

-----------------------------------------------------------------------------
(* Authorization servers.  The server is named by its server id; a client  *)
(* keeps that name.                                                        *)
Server == [n |-> "name"]
findServer == FindBy("s", "server", [name |-> "n"])

ListServers == Reads("server")
CreateServer ==
  Handler(Server, <<Free("server", [name |-> "n"]),
                    Add("s", "server", [name |-> "n", status |-> "ACTIVE"])>>)
ServerLifecycle ==
  LET To(status) == Handler(Server, <<findServer, Set("s", [status |-> status])>>)
  IN  To("ACTIVE") \o To("INACTIVE")
GetServer == Handler(Server, <<findServer>>)
UpdateServer ==
  Handler(Server, <<Reading(findServer, "status"), Set("s", [status |-> "status"])>>)
DeleteServer ==
  Handler(Server, <<findServer, DropAll("client", [server |-> "n"]), Drop("s")>>)

-----------------------------------------------------------------------------
(* Seeding, when the service starts, of what is not there yet.  A service  *)
(* with a configuration seeds that too, after the defaults, once.  The     *)
(* default group is looked for by its okta id, not by its name.            *)
SeedDefaults ==
  <<Ensure("s", "server", [name |-> "default"],
           [name |-> "default", status |-> "ACTIVE"]),
    IfNone("group", [okta |-> "00g_everyone"],
           <<Unsought(Add("g", "group", [name |-> "Everyone",
                                         okta |-> "00g_everyone"]))>>),
    Ensure("u", "user", [login |-> "testuser"],
           [login |-> "testuser", status |-> "ACTIVE"]),
    Ensure("c", "client", [server |-> "default"], [server |-> "default"]),
    Ensure("a", "app", None, [status |-> "ACTIVE"]),
    ensureMembership("00g_everyone")>>
SeedFromConfig ==
  <<Ensure("s", "server", [name |-> "seeded"],
           [name |-> "seeded", status |-> "ACTIVE"]),
    Ensure("u", "user", [login |-> "seeded"],
           [login |-> "seeded", status |-> "ACTIVE"]),
    Ensure("g", "group", [name |-> "seeded"],
           [name |-> "seeded", okta |-> "seeded"]),
    ensureMembership("seeded"), ensureAppAssignment>>

-----------------------------------------------------------------------------
(* What runs together: the tables, the handlers about them, what seeding   *)
(* inserts, the fields that name what a row belongs to, the fields that no *)
(* two rows share, and the bound on requests.                              *)
Directory ==
  Part({"user", "group", "membership"},
       ListUsers \o CreateUser \o CurrentUser \o GetUser \o UserGroups
         \o UserLifecycle \o UpdateUser \o DeleteUser
         \o ListGroups \o CreateGroup \o GetGroup \o GroupUsers \o AddGroupUser
         \o RemoveGroupUser \o UpdateGroup \o DeleteGroup,
       [defaults |-> SeedDefaults,
        parents |-> [group |-> [okta |-> Key("group", "okta")],
                     membership |-> [group |-> Key("group", "okta"),
                                     user |-> Id("user")]],
        unique |-> [user |-> {"login"}, group |-> {"name"},
                    membership |-> {"group", "user"}]])
Groups ==
  Part({"group"},
       ListGroups \o CreateGroup \o GetGroup \o UpdateGroup \o DeleteGroup,
       [defaults |-> SeedDefaults, unique |-> [group |-> {"name"}],
        words |-> [name |-> {"other", "Everyone"}], requests |-> 4])
Applications ==
  Part({"user", "app", "assignment"},
       CreateUser \o UserLifecycle \o DeleteUser \o ListApps
         \o CreateApp \o GetApp \o AppUsers \o AssignAppUser
         \o UnassignAppUser \o AppLifecycle \o UpdateApp \o DeleteApp,
       [defaults |-> SeedDefaults,
        parents |-> [assignment |-> [app |-> Id("app"), user |-> Id("user")]],
        unique |-> [user |-> {"login"}, assignment |-> {"app", "user"}]])
Servers ==
  Part({"server", "client"},
       ListServers \o CreateServer \o ServerLifecycle \o GetServer
         \o UpdateServer \o DeleteServer,
       [defaults |-> SeedDefaults, config |-> SeedFromConfig,
        parents |-> [client |-> [server |-> Key("server", "name")]],
        unique |-> [server |-> {"name"}], words |-> [name |-> {"default", "other"}]])
=============================================================================
