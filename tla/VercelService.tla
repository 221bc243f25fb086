------------------------------ MODULE VercelService ------------------------------
(***************************************************************************)
(* internal/services/vercel: users, teams and API keys; projects with their*)
(* environment variables, domains, protection bypasses and deployments.    *)
(* A project keeps copies of its bypasses and of its deployments: here, how*)
(* many.  Environment variables of a key are taken to share a target, so   *)
(* that an upsert that widens the targets of one is left out.              *)
(***************************************************************************)
EXTENDS StoreCalls, Integers

currentUser == Look("user")
resolveScope == Look("team")
Signed(args, calls) == Handler(args, <<currentUser, resolveScope>> \o calls)

-----------------------------------------------------------------------------
(* Users, teams and API keys.                                              *)
User == [w |-> "user"]
Team == User @@ [t |-> "team"]
findTeamByIDOrSlug == Find("team", "t")
getTeamMember(user) == FindBy("m", "member", [team |-> "t", user |-> user])
Owner == FindBy("m", "member", [team |-> "t", user |-> "w", role |-> "OWNER"])
NewMember(user, role) ==
  Add("m", "member", [team |-> "t", user |-> user, role |-> role])

GetUser == Handler(User, <<Find("user", "w")>>)
PatchUser == Handler(User, <<Find("user", "w"), Patch("w")>>)
ListTeams == Handler(User, <<Look("member"), Look("team")>>)
CreateTeam ==
  Handler(User @@ [n |-> "name"],
    <<Find("user", "w"), Free("team", [slug |-> "n"]),
      Add("t", "team", [slug |-> "n"]), NewMember("w", "OWNER")>>)
GetTeam == Handler(Team, <<Find("user", "w"), findTeamByIDOrSlug>>)
PatchTeam ==
  LET found == Reading(findTeamByIDOrSlug, "slug")
  IN  Handler(Team, <<found, Owner, Patch("t")>>) \o
      Handler(Team @@ [n |-> "name"],
        <<found, Owner, FreeFor("t", "team", [slug |-> "n"]),
          Set("t", [slug |-> "n"])>>)
ListMembers == Handler(Team, <<findTeamByIDOrSlug, getTeamMember("w")>>)
AddMember(role) ==
  Handler(Team @@ [target |-> "user"],
    <<findTeamByIDOrSlug, Owner, Find("user", "target"),
      Free("member", [team |-> "t", user |-> "target"]),
      NewMember("target", role)>>)

CreateKey == Handler(User, <<Find("user", "w"), Add("k", "key", [user |-> "w"])>>)
ListKeys == Handler(User, <<Find("user", "w"), Look("key")>>)
DeleteKey ==
  Handler(User @@ [k |-> "key"],
    <<Find("user", "w"), Reading(Find("key", "k"), "user"),
      FindBy("k", "key", [id |-> "k", user |-> "w"]), Drop("k")>>)

-----------------------------------------------------------------------------
(* Projects.                                                               *)
Project == [p |-> "project"]
lookupProject == Find("project", "p")
NewProject ==
  Add("p", "project", [name |-> "n", latest |-> "zero", bypasses |-> "zero"])
NewEnv(key) == Add("e", "env", [project |-> "p", key |-> key])

(* The environment variables that come with a project, which two may share *)
(* a key, and a project's new name are written without a look.             *)
CreateProject ==
  LET create == <<Free("project", [name |-> "n"]), NewProject>>
      insertProjectEnvFromBody == <<NewEnv("n"), Unsought(NewEnv("n2"))>>
  IN  Signed([n |-> "name"], create) \o
      Signed([n |-> "name", n2 |-> "name"], create \o insertProjectEnvFromBody)
ListProjects == Reads("project")
GetProject == Signed(Project, <<lookupProject, Look("env")>>)
PatchProject ==
  Signed(Project, <<lookupProject, Patch("p")>>) \o
  Signed(Project @@ [n |-> "name"],
         <<lookupProject, Unsought(Set("p", [name |-> "n"]))>>)
PromoteAliases ==
  Signed(Project, <<lookupProject, Look("deployment"), Look("alias")>>)

syncProtectionRecord ==
  <<Tally("bypasses", "bypass", [project |-> "p"]),
    Set("p", [bypasses |-> "bypasses"])>>
PatchProtection ==
  LET new == Add("b", "bypass", [project |-> "p"])
      Each1(calls) == Each("b", "bypass", [project |-> "p", id |-> "b"], calls)
      Secret == Project @@ [b |-> "bypass"]
  IN  Signed(Project, <<lookupProject, new>> \o syncProtectionRecord) \o
      Signed(Secret, <<lookupProject, Each1(<<Drop("b")>>)>>
                     \o syncProtectionRecord) \o
      Signed(Secret, <<lookupProject, Each1(<<Drop("b"), new>>)>>
                     \o syncProtectionRecord)

-----------------------------------------------------------------------------
(* Deployments, in DeploymentService's order of calls.                     *)
Deployment == [d |-> "deployment"]
findDeployment == Reading(Find("deployment", "d"), "project")
assertDeploymentAccess == FindBy("p", "project", [id |-> "project"])
NewAlias == Add("l", "alias", [deployment |-> "d", project |-> "p"])
insertDeploymentEvent == Add("v", "event", [deployment |-> "d"])
resolveOrCreateProject ==
  Reading(Seek("p", "project", [name |-> "n"], <<>>, <<NewProject>>), "latest")
upsertProjectDeploymentRefs == Bump("p", "latest", 1)
NewFile(x) ==
  <<IfNone("file", [digest |-> x], <<Add("f", "file", [digest |-> x])>>)>>
insertDeploymentFiles ==
  NewFile("n") \o <<Add("df", "deploymentFile", [deployment |-> "d"])>>

CreateDeployment ==
  LET Create(aliases) ==
        Signed([n |-> "name"],
          <<resolveOrCreateProject,
            Add("d", "deployment", [project |-> "p", state |-> "READY"])>>
          \o aliases
          \o <<upsertProjectDeploymentRefs,
               Add("b", "build", [deployment |-> "d"]),
               insertDeploymentEvent, insertDeploymentEvent,
               insertDeploymentEvent>> \o insertDeploymentFiles)
  IN  Create(<<NewAlias>>) \o Create(<<NewAlias, NewAlias>>)
CancelDeployment ==
  Signed(Deployment,
    <<Reading(findDeployment, "state"), assertDeploymentAccess,
      Needs("state", {"QUEUED", "BUILDING"}), Set("d", [state |-> "CANCELED"]),
      insertDeploymentEvent>>)
GetDeployment == Signed(Deployment, <<findDeployment, assertDeploymentAccess>>)
DeploymentAliases ==
  Signed(Deployment, <<findDeployment, assertDeploymentAccess, Look("alias")>>)
DeploymentEvents ==
  Signed(Deployment, <<findDeployment, assertDeploymentAccess, Look("event")>>)
DeploymentFiles ==
  Signed(Deployment,
    <<findDeployment, assertDeploymentAccess, Look("deploymentFile")>>)
ListDeployments == Reads("deployment")

OfDeployment == [deployment |-> "d"]
deleteDeploymentCascade ==
  <<DropAll("build", OfDeployment), DropAll("event", OfDeployment),
    DropAll("deploymentFile", OfDeployment), DropAll("alias", OfDeployment),
    Drop("d"),
    Reading(IfAny("p", "project", [id |-> "project"],
                  <<Bump("p", "latest", -1)>>), "latest")>>
DeleteDeployment ==
  Signed(Deployment,
    <<findDeployment, assertDeploymentAccess>> \o deleteDeploymentCascade)
UploadFile == Signed([n |-> "name"], NewFile("n"))

OfProject == [project |-> "p"]
deleteProjectCascade ==
  <<Reading(Each("d", "deployment", OfProject, deleteDeploymentCascade),
            "project"),
    DropAll("domain", OfProject), DropAll("env", OfProject),
    DropAll("bypass", OfProject), Drop("p")>>
DeleteProject == Signed(Project, <<lookupProject>> \o deleteProjectCascade)

-----------------------------------------------------------------------------
(* Domains and environment variables of a project.                         *)
Named == Project @@ [n |-> "name"]
findDomainInProject == FindBy("m", "domain", [project |-> "p", name |-> "n"])

CreateDomain ==
  Signed(Named,
    <<lookupProject, Free("domain", [project |-> "p", name |-> "n"]),
      Add("m", "domain", [project |-> "p", name |-> "n"])>>)
ListDomains == Signed(Project, <<lookupProject, Look("domain")>>)
GetDomain == Signed(Named, <<lookupProject, findDomainInProject>>)
VerifyDomain ==
  Signed(Named, <<lookupProject, findDomainInProject, Patch("m")>>)
PatchDomain ==
  Signed(Named, <<lookupProject, findDomainInProject, Patch("m")>>)
DeleteDomain ==
  Signed(Named, <<lookupProject, findDomainInProject, Drop("m")>>)

OneEnv == Project @@ [e |-> "env"]
OfKey(k) == [project |-> "p", key |-> k]
findEnvByUIDInProject == FindBy("e", "env", [id |-> "e", project |-> "p"])

ListEnv == Signed(Project, <<lookupProject, Look("env")>>)
CreateEnv ==
  LET Create(n) == <<Free("env", OfKey(n)), NewEnv(n)>>
      Upsert == Seek("e", "env", OfKey("n"), <<Patch("e")>>, <<NewEnv("n")>>)
  IN  Signed(Named, <<lookupProject>> \o Create("n")) \o
      Signed(Named @@ [n2 |-> "name"],
             <<lookupProject>> \o Create("n") \o Create("n2")) \o
      Signed(Named, <<lookupProject, Upsert>>)
GetEnv == Signed(OneEnv, <<lookupProject, findEnvByUIDInProject>>)
PatchEnv ==
  LET found == Reading(findEnvByUIDInProject, "key")
      PatchKey(k) == <<FreeBut("e", "env", OfKey(k)), Set("e", [key |-> k])>>
  IN  Signed(OneEnv, <<lookupProject, found, FreeBut("e", "env", OfKey("key")),
                       Patch("e")>>) \o
      Signed(OneEnv @@ [n |-> "name"],
             <<lookupProject, found>> \o PatchKey("n"))
DeleteEnv ==
  Signed(OneEnv, <<lookupProject, findEnvByUIDInProject, Drop("e")>>)

-----------------------------------------------------------------------------
SeedDefaults ==
  <<IfNone("user", [name |-> "admin"], <<Add("w", "user", [name |-> "admin"])>>)>>
SeedFromConfig ==
  <<IfNone("user", [name |-> "seeded"],
           <<Add("w", "user", [name |-> "seeded"])>>),
    Seek("w", "user", [name |-> "seeded"],
         <<Add("k", "key", [user |-> "w"])>>, <<>>),
    IfNone("team", [slug |-> "seeded"],
           <<Add("t", "team", [slug |-> "seeded"]),
             Seek("w", "user", None, <<NewMember("w", "OWNER")>>, <<>>),
             EachBut("w", "other", "user", None,
                     <<NewMember("other", "MEMBER")>>)>>),
    IfNone("project", [name |-> "seeded"],
           <<Add("p", "project", [name |-> "seeded", latest |-> "zero",
                                  bypasses |-> "zero"]),
             Add("e", "env", [project |-> "p", key |-> "seeded"])>>)>>

-----------------------------------------------------------------------------
Starting == [defaults |-> SeedDefaults, config |-> SeedFromConfig]
OfProjects(table, field) ==
  [table |-> "project", field |-> field, of |-> table,
   by |-> [project |-> "id"], where |-> None]
Accounts ==
  Part({"user", "team", "member", "key"},
       GetUser \o PatchUser \o ListTeams \o CreateTeam \o GetTeam \o PatchTeam
         \o ListMembers \o AddMember("OWNER") \o AddMember("MEMBER")
         \o CreateKey \o ListKeys \o DeleteKey,
       Starting @@
       [unique |-> [team |-> {"slug"}, member |-> {"team", "user"}],
        parents |-> [member |-> [team |-> Id("team"), user |-> Id("user")]]])
Settings ==
  Part({"project", "domain", "env"},
       ListProjects \o CreateProject \o GetProject \o PatchProject
         \o DeleteProject \o ListDomains \o CreateDomain \o GetDomain \o VerifyDomain
         \o PatchDomain \o DeleteDomain \o ListEnv \o CreateEnv \o GetEnv \o PatchEnv
         \o DeleteEnv,
       Starting @@
       [unique |-> [project |-> {"name"}, domain |-> {"project", "name"},
                    env |-> {"project", "key"}],
        parents |-> [domain |-> [project |-> Id("project")],
                     env |-> [project |-> Id("project")]]])
Protection ==
  Part({"project", "bypass"},
       CreateProject \o GetProject \o PatchProject \o PatchProtection
         \o DeleteProject,
       Starting @@
       [counts |-> {OfProjects("bypass", "bypasses")},
        unique |-> [project |-> {"name"}],
        parents |-> [bypass |-> [project |-> Id("project")]]])
Deployments ==
  Part({"project", "deployment", "alias"},
       CreateProject \o PatchProject \o CreateDeployment \o CancelDeployment \o ListDeployments
         \o GetDeployment
         \o DeploymentAliases \o DeleteDeployment \o PromoteAliases
         \o DeleteProject,
       Starting @@
       [counts |-> {OfProjects("deployment", "latest")},
        unique |-> [project |-> {"name"}],
        parents |-> [deployment |-> [project |-> Id("project")],
                     alias |-> [deployment |-> Id("deployment")]]])
Builds ==
  Part({"deployment", "event", "deploymentFile", "file"},
       CreateDeployment \o CancelDeployment \o DeploymentEvents
         \o DeploymentFiles \o DeleteDeployment \o UploadFile,
       Starting @@
       [unique |-> [file |-> {"digest"}],
        parents |-> [event |-> [deployment |-> Id("deployment")],
                     deploymentFile |-> [deployment |-> Id("deployment")]]])
=============================================================================
