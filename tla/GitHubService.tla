--------------------------- MODULE GitHubService ---------------------------
(***************************************************************************)
(* internal/services/github: repositories of users, with their issues,     *)
(* pull requests, comments, and git data.  An issue and its pull request   *)
(* are two rows with one number; a branch and its ref are two rows with    *)
(* one sha.  The sha of a commit, tree or blob that the service makes is   *)
(* random: here, the id of its row.  Who asks is taken to be allowed to:   *)
(* tokens, collaborators and teams are only read.                          *)
(***************************************************************************)
EXTENDS StoreCalls, Integers

authUser == Look("token")
currentAuthUser == Look("user")
canAccessRepo == Look("collaborator")
isOrgMember == Look("teamMember")
assertRepoRead == authUser
assertRepoWrite == currentAuthUser
assertRepoAdmin == currentAuthUser
assertIssueParticipant == currentAuthUser
assertPullBaseAccess == canAccessRepo
assertPullHeadAccess == canAccessRepo

Repo == [n |-> "name"]
Word == Repo @@ [w |-> "word"]
lookupRepo == FindBy("r", "repo", [name |-> "n"])
OfRepo == [repo |-> "r"]

-----------------------------------------------------------------------------
(* Users, and the lists of repositories and organizations.                 *)
GetUser == Reads("user")
PatchCurrentUser == Handler([o |-> "user"], <<currentAuthUser, Patch("o")>>)
orgsForUser == <<Look("teamMember"), Look("team"), Look("org")>>
reposForUser == <<Look("repo"), Look("collaborator"), Look("repo")>>
ListUserRepos == Handler(None, <<currentAuthUser>> \o reposForUser)
ListUserOrgs == Handler(None, <<currentAuthUser>> \o orgsForUser)

-----------------------------------------------------------------------------
(* Repositories.                                                           *)
bumpPublicRepos(by) ==
  Reading(IfAny("o", "user", [id |-> "owner"], <<Bump("o", "public", by)>>),
          "public")
NewRow(x, table, fields) == <<Add(x, table, fields), Patch(x)>>
createRepoRecord(name, private) ==
  <<Free("repo", [name |-> name])>>
  \o NewRow("r", "repo", [name |-> name, owner |-> "owner",
                          private |-> private, open |-> "zero"])
  \o (IF private = "NO" THEN <<bumpPublicRepos(1)>> ELSE <<>>)
NewCommit(tree) == NewRow("c", "commit", [repo |-> "r", sha |-> "c", tree |-> tree])
NewRef(name, sha) == NewRow("f", "ref", [repo |-> "r", name |-> name, sha |-> sha])
seedInitialGit ==
  NewRow("b", "blob", [repo |-> "r", sha |-> "b"])
  \o NewRow("t", "tree", [repo |-> "r", sha |-> "t", blob |-> "b"])
  \o NewCommit("t")
  \o <<Add("h", "branch", [repo |-> "r", name |-> "main", sha |-> "c"])>>
  \o NewRef("main", "c") \o <<Patch("r")>>

createRepoFromBody ==
  LET Create(private, git) ==
        Handler(Repo @@ [owner |-> "user"],
          <<currentAuthUser, isOrgMember>> \o createRepoRecord("n", private)
          \o git)
  IN  Create("NO", <<>>) \o Create("NO", seedInitialGit) \o Create("YES", <<>>)

GetRepo == Handler(Repo, <<lookupRepo, assertRepoRead>>)
ListContributors ==
  Handler(Repo, <<lookupRepo, assertRepoRead, Look("user"), Look("collaborator")>>)

PatchRepo ==
  LET found == Reading(Reading(lookupRepo, "private"), "owner")
      SetPrivate(private, by) ==
        SetThen("r", [private |-> private],
                <<If("private", {private}, <<>>, <<bumpPublicRepos(by)>>)>>, <<>>)
  IN  Handler(Repo, <<found, assertRepoAdmin, SetPrivate("YES", -1)>>) \o
      Handler(Repo, <<found, assertRepoAdmin, SetPrivate("NO", 1)>>) \o
      Handler(Repo @@ [m |-> "name"],
              <<found, assertRepoAdmin, FreeOrOwn("r", "repo", [name |-> "m"]),
                Set("r", [name |-> "m"])>>)
PutRepoTopics == Handler(Repo, <<lookupRepo, assertRepoAdmin, Patch("r")>>)

DeleteRepo ==
  LET tables == <<"collaborator", "issue", "pull", "label", "milestone",
                  "comment", "branch", "ref", "commit", "tree", "blob",
                  "webhook">>
  IN  Handler(Repo,
        <<Reading(Reading(lookupRepo, "private"), "owner"), assertRepoAdmin>>
        \o [k \in DOMAIN tables |-> DropAll(tables[k], OfRepo)]
        \o <<Drop("r"), If("private", {"NO"}, <<bumpPublicRepos(-1)>>, <<>>)>>)

-----------------------------------------------------------------------------
(* Issues.                                                                 *)
Issue == Repo @@ [number |-> "number"]
OfNumber == [repo |-> "r", number |-> "number"]
issueFromRequest(calls) == <<lookupRepo, FindBy("i", "issue", OfNumber)>> \o calls
issueReading(fields) ==
  <<lookupRepo, ReadingAll(FindBy("i", "issue", OfNumber), fields)>>
nextIssueNumber ==
  <<Above("number", "issue", OfRepo), Above("number", "pull", OfRepo)>>
adjustOpenIssues(by) ==
  Reading(IfAny("r", "repo", [id |-> "r"], <<Bump("r", "open", by)>>), "open")
resolveLabelIDs ==
  Seek("l", "label", [repo |-> "r", name |-> "w"], <<>>,
       NewRow("l", "label", [repo |-> "r", name |-> "w"]))
NewIssue(pull) ==
  NewRow("i", "issue", [repo |-> "r", number |-> "number", state |-> "OPEN",
                        pull |-> pull, comments |-> "zero"])

ListIssues ==
  Handler(Repo, <<lookupRepo, assertRepoRead, Look("issue"), Look("label"),
                  Look("milestone"), Look("user")>>)
GetIssue == Handler(Issue, issueFromRequest(<<assertRepoRead>>))
CreateIssue ==
  LET Create(labels) ==
        <<lookupRepo, assertIssueParticipant>> \o labels \o nextIssueNumber
        \o NewIssue("NO") \o <<adjustOpenIssues(1)>>
  IN  Handler(Repo, Create(<<>>)) \o
      Handler(Word, Create(<<resolveLabelIDs>>))

(* syncPullFromIssuePatch copies a state to the pull request of the issue. *)
syncPullFromIssuePatch(state) ==
  If("pull", {"YES"},
     <<IfAny("p", "pull", OfNumber, <<Set("p", [state |-> state])>>)>>, <<>>)
PatchIssue ==
  LET found == issueReading({"state", "pull"})
      From(old, by) == If("state", {old}, <<adjustOpenIssues(by)>>, <<>>)
      Patching(args, calls) == Handler(args, found \o <<assertRepoWrite>> \o calls)
      unmerged ==
        If("pull", {"YES"},
           <<Reading(IfAny("p", "pull", OfNumber, <<Needs("merged", {"NO"})>>),
                     "merged")>>, <<>>)
  IN  Patching(Issue, <<Set("i", [state |-> "CLOSED"]),
                        syncPullFromIssuePatch("CLOSED"), From("OPEN", -1)>>) \o
      Patching(Issue, <<unmerged, Set("i", [state |-> "OPEN"]),
                        syncPullFromIssuePatch("OPEN"), From("CLOSED", 1)>>) \o
      Patching(Issue @@ [w |-> "word"], <<resolveLabelIDs, Patch("i")>>)

-----------------------------------------------------------------------------
(* Comments of an issue, counted in it and in its pull request.            *)
Comment == Repo @@ [m |-> "comment"]
issueCommentFromRequest ==
  <<lookupRepo, FindBy("m", "comment", [id |-> "m", repo |-> "r"])>>
adjustPullIssueCommentCount(by) ==
  If("pull", {"YES"},
     <<Reading(IfAny("p", "pull", OfNumber, <<Bump("p", "comments", by)>>),
               "comments")>>, <<>>)

ListIssueComments ==
  Handler(Issue, issueFromRequest(<<assertRepoRead, Look("comment")>>))
ListRepoIssueComments ==
  Handler(Repo, <<lookupRepo, assertRepoRead, Look("comment")>>)
CreateIssueComment ==
  Handler(Issue,
    issueReading({"pull", "comments"}) \o <<assertIssueParticipant>>
    \o NewRow("m", "comment", [repo |-> "r", number |-> "number"])
    \o <<Bump("i", "comments", 1), adjustPullIssueCommentCount(1)>>)
GetIssueComment == Handler(Comment, issueCommentFromRequest \o <<assertRepoRead>>)
PatchIssueComment ==
  Handler(Comment, issueCommentFromRequest \o <<assertRepoWrite, Patch("m")>>)
DeleteIssueComment ==
  Handler(Comment,
    <<lookupRepo,
      Reading(FindBy("m", "comment", [id |-> "m", repo |-> "r"]), "number"),
      assertRepoWrite, Drop("m"),
      Reading(Reading(Each("i", "issue", OfNumber,
                           <<Bump("i", "comments", -1),
                             adjustPullIssueCommentCount(-1)>>),
                      "comments"), "pull")>>)

-----------------------------------------------------------------------------
(* Branches and refs.                                                      *)
Of(x) == [repo |-> "r", name |-> x]
findBranch(x) == FindBy("h", "branch", Of(x))
findRef(x) == FindBy("f", "ref", Of(x))
findCommitExact == FindBy("c", "commit", [repo |-> "r", sha |-> "sha"])
findCommit == findCommitExact
findTreeExact == Look("tree")
isDescendantOf == Look("commit")

createBranch(x, sha) ==
  <<Add("h", "branch", [repo |-> "r", name |-> x, sha |-> sha]),
    IfNone("ref", Of(x), NewRef(x, sha))>>
updateBranchSha(x, sha) ==
  <<IfAny("h", "branch", Of(x), <<Set("h", [sha |-> sha])>>),
    IfAny("f", "ref", Of(x), <<Set("f", [sha |-> sha])>>)>>
syncBranchFromRef(x, sha) ==
  <<Seek("h", "branch", Of(x), <<Set("h", [sha |-> sha])>>, createBranch(x, sha))>>

ListBranches == Handler(Repo, <<lookupRepo, assertRepoRead, Look("branch")>>)
GetBranch == Handler(Word, <<lookupRepo, assertRepoRead, findBranch("w")>>)
GetRef == Handler(Word, <<lookupRepo, assertRepoRead, findRef("w")>>)
MatchingRefs == Handler(Repo, <<lookupRepo, assertRepoRead, Look("ref")>>)
GetCommit ==
  Handler(Repo @@ [sha |-> "commit"], <<lookupRepo, assertRepoRead, findCommit>>)
GetTree == Handler(Repo, <<lookupRepo, assertRepoRead, findTreeExact>>)

OneRef == Word @@ [sha |-> "commit"]
CreateRef ==
  Handler(OneRef,
    <<lookupRepo, assertRepoWrite, findCommitExact, Free("ref", Of("w"))>>
    \o NewRef("w", "sha") \o syncBranchFromRef("w", "sha"))
PatchRef ==
  Handler(OneRef,
    <<lookupRepo, assertRepoWrite, findRef("w"), findCommitExact,
      isDescendantOf,
      SetThen("f", [sha |-> "sha"], syncBranchFromRef("w", "sha"), <<>>)>>)
DeleteRef ==
  Handler(Word,
    <<lookupRepo, assertRepoWrite, findRef("w"), Drop("f"),
      IfAny("h", "branch", Of("w"), <<Drop("h")>>)>>)

-----------------------------------------------------------------------------
(* Pull requests, of a head repository h into r.                           *)
pullFromRequest(fields) ==
  <<lookupRepo, ReadingAll(FindBy("p", "pull", OfNumber), fields)>>
findPullIssue(calls) == IfAny("i", "issue", OfNumber @@ [pull |-> "YES"], calls)
resolvePullHead == FindBy("h", "repo", [name |-> "m"])
HeadSha == ReadingAs(FindBy("hb", "branch", [repo |-> "h", name |-> "w"]),
                     "headSha", "sha")
BaseSha == ReadingAs(FindBy("bb", "branch", Of("main")), "baseSha", "sha")

ListPulls ==
  Handler(Repo, <<lookupRepo, assertRepoRead, Look("pull"), Look("repo")>>)
GetPull == Handler(Issue, pullFromRequest({}) \o <<assertRepoRead>>)
PullCommits ==
  Handler(Issue, pullFromRequest({"head"}) \o
                 <<assertRepoRead, FindBy("h", "repo", [id |-> "head"]),
                    Look("commit")>>)
CreatePull ==
  Handler(Word @@ [m |-> "head"],
    <<lookupRepo, currentAuthUser, assertPullBaseAccess, resolvePullHead,
      assertPullHeadAccess,
      If("h", {"r"}, <<If("w", {"main"}, <<Refuse>>, <<>>)>>, <<>>),
      HeadSha, BaseSha>>
    \o nextIssueNumber \o NewIssue("YES")
    \o NewRow("p", "pull",
         [repo |-> "r", number |-> "number", state |-> "OPEN", merged |-> "NO",
          head |-> "h", headRef |-> "w", base |-> "main",
          headSha |-> "headSha", baseSha |-> "baseSha", comments |-> "zero"])
    \o <<adjustOpenIssues(1)>>)

PatchingPull(reopened) ==
  LET To(new, old, by) ==
        <<Set("p", [state |-> new]), findPullIssue(<<Set("i", [state |-> new])>>),
          If("state", {old}, <<adjustOpenIssues(by)>>, <<>>)>>
      Patching(calls) ==
        Handler(Issue, pullFromRequest({"merged", "state"}) \o
                       <<assertRepoWrite>> \o calls)
  IN  Patching(To("CLOSED", "OPEN", -1)) \o
      Patching(<<Needs("merged", reopened)>> \o To("OPEN", "CLOSED", 1)) \o
      Patching(<<BaseSha, Set("p", [base |-> "main", baseSha |-> "baseSha"])>>)
PatchAnyPull == PatchingPull({"NO", "YES"})
PatchPull == PatchingPull({"NO"})

(* A merge copies the head commit with its tree and blob to r, unless they *)
(* are there; the parents of the commit are copied in the same way.        *)
InBase(sha) == [repo |-> "r", sha |-> sha]
InHead(sha) == [repo |-> "h", sha |-> sha]
materializeBlob ==
  <<IfNone("blob", InBase("blob"),
      <<IfAny("source", "blob", InHead("blob"),
              NewRow("b", "blob", InBase("blob")))>>)>>
materializeTree ==
  <<IfNone("tree", InBase("tree"),
      <<Reading(IfAny("source", "tree", InHead("tree"),
                      materializeBlob \o
                      NewRow("t", "tree", InBase("tree") @@ [blob |-> "blob"])),
                "blob")>>)>>
materializeCommitGraph ==
  <<IfNone("commit", InBase("headSha"),
      <<Reading(IfAny("source", "commit", InHead("headSha"),
                      materializeTree \o
                      NewRow("c", "commit", InBase("headSha") @@ [tree |-> "tree"])),
                "tree")>>)>>
insertCommit == NewCommit("headTree")

deleteBranchByName ==
  <<IfAny("hb", "branch", [repo |-> "h", name |-> "headRef"], <<Drop("hb")>>),
    IfAny("hf", "ref", [repo |-> "h", name |-> "headRef"], <<Drop("hf")>>)>>
MergePull ==
  LET Merge(deleting) ==
        Handler(Issue,
          pullFromRequest({"merged", "state", "head", "headRef", "base",
                           "headSha", "baseSha"})
          \o <<assertRepoWrite, Needs("merged", {"NO"}), Needs("state", {"OPEN"}),
               Find("repo", "r"), FindBy("h", "repo", [id |-> "head"]),
               FindBy("c", "commit", InBase("baseSha")),
               ReadingAs(FindBy("c", "commit", InHead("headSha")),
                         "headTree", "tree")>>
          \o materializeCommitGraph \o insertCommit
          \o <<Set("p", [merged |-> "YES", state |-> "CLOSED"]),
               findPullIssue(<<Set("i", [state |-> "CLOSED"])>>)>>
          \o updateBranchSha("base", "c") \o deleting \o <<adjustOpenIssues(-1)>>)
  IN  Merge(<<>>) \o Merge(deleteBranchByName)

-----------------------------------------------------------------------------
(* Seeding: a configuration may seed repositories, here the named ones.    *)
ensureUser(x) ==
  <<IfNone("user", [login |-> x],
           NewRow("o", "user", [login |-> x, public |-> "zero"]))>>
SeedDefaults == ensureUser("ghost") \o ensureUser("admin")
SeedDefaultTokens ==
  <<IfNone("token", [login |-> "admin"], <<Add("k", "token", [login |-> "admin"])>>),
    IfNone("token", [login |-> "octocat"],
           ensureUser("octocat") \o <<Add("k", "token", [login |-> "octocat"])>>)>>
SeedFromConfig(names) ==
  LET Repo1(x) == <<IfNone("repo", [name |-> x],
                           createRepoRecord(x, "NO") \o seedInitialGit)>>
      one == Repo1(names[1])
  IN  ensureUser("seeded")
      \o <<Look("org"), FindBy("owner", "user", [login |-> "seeded"])>>
      \o (IF Len(names) = 1 THEN one ELSE one \o Repo1(names[2]))

-----------------------------------------------------------------------------
Starting(names, words) ==
  [defaults |-> SeedDefaults \o SeedDefaultTokens,
   config |-> SeedFromConfig(names),
   words |-> words @@ [name |-> {"seeded"}, head |-> {names[Len(names)]}]]
OfRepos == [repo |-> Id("repo")]
Open == [table |-> "repo", field |-> "open", of |-> "issue",
         by |-> [repo |-> "id"], where |-> [state |-> "OPEN"]]
Copies(t, of, key, field) ==
  [table |-> t, of |-> of, by |-> [repo |-> "repo"] @@ (key :> key),
   fields |-> {field}]
Repos ==
  Part({"user", "repo"},
       GetUser \o ListUserRepos \o ListUserOrgs \o PatchCurrentUser
         \o createRepoFromBody \o GetRepo \o ListContributors \o PatchRepo
         \o PutRepoTopics \o DeleteRepo,
       [defaults |-> SeedDefaults,
        unique |-> [user |-> {"login"}, repo |-> {"name"}],
        parents |-> [repo |-> [owner |-> Id("user")]],
        counts |-> {[table |-> "user", field |-> "public", of |-> "repo",
                     by |-> [owner |-> "id"], where |-> [private |-> "NO"]]}])
Issues ==
  Part({"repo", "issue", "label"},
       CreateIssue \o ListIssues \o GetIssue \o PatchIssue \o DeleteRepo,
       Starting(<<"seeded">>, [word |-> {"topic"}]) @@
       [unique |-> [issue |-> {"repo", "number"}, label |-> {"repo", "name"}],
        parents |-> [issue |-> OfRepos, label |-> OfRepos],
        counts |-> {Open}, requests |-> 3])
Pulls ==
  Part({"repo", "issue", "pull"},
       CreatePull \o ListPulls \o PullCommits \o GetPull \o PatchPull
         \o PatchIssue \o MergePull \o DeleteRepo,
       Starting(<<"seeded">>, [word |-> {"topic"}]) @@
       [unique |-> [issue |-> {"repo", "number"}, pull |-> {"repo", "number"}],
        parents |-> [issue |-> OfRepos, pull |-> OfRepos],
        counts |-> {Open}, requests |-> 3,
        copies |-> {Copies("pull", "issue", "number", "state")},
        final |-> {[table |-> "pull", given |-> [merged |-> "YES"],
                    holds |-> [state |-> "CLOSED"]]}])
Comments ==
  Part({"repo", "issue", "pull", "comment"},
       CreateIssue \o CreatePull \o CreateIssueComment \o GetIssueComment
         \o ListIssueComments \o ListRepoIssueComments \o PatchIssueComment
         \o DeleteIssueComment,
       Starting(<<"seeded">>, [word |-> {"topic"}]) @@
       [parents |-> [issue |-> OfRepos, pull |-> OfRepos, comment |-> OfRepos],
        counts |-> {[table |-> "issue", field |-> "comments", of |-> "comment",
                     by |-> [repo |-> "repo", number |-> "number"],
                     where |-> None]},
        requests |-> 3,
        copies |-> {Copies("pull", "issue", "number", "comments")}])
Git ==
  Part({"repo", "branch", "ref", "commit", "pull"},
       ListBranches \o GetBranch \o MatchingRefs \o GetRef \o GetCommit
         \o GetTree \o CreateRef \o PatchRef \o DeleteRef
         \o CreatePull \o MergePull,
       Starting(<<"seeded", "fork">>, [word |-> {"main"}]) @@
       [unique |-> [branch |-> {"repo", "name"}, ref |-> {"repo", "name"}],
        parents |-> [branch |-> OfRepos, ref |-> OfRepos, commit |-> OfRepos],
        copies |-> {Copies("branch", "ref", "name", "sha"),
                    Copies("ref", "branch", "name", "sha")},
        requests |-> 3])
Merges ==
  Part({"repo", "pull", "commit", "tree", "blob"},
       CreatePull \o MergePull \o DeleteRepo,
       Starting(<<"seeded", "fork">>, [word |-> {"main"}]) @@
       [unique |-> [commit |-> {"repo", "sha"}, tree |-> {"repo", "sha"},
                    blob |-> {"repo", "sha"}],
        parents |-> [pull |-> OfRepos, commit |-> OfRepos, tree |-> OfRepos,
                     blob |-> OfRepos],
        requests |-> 3])
=============================================================================
