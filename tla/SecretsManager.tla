---------------------------- MODULE SecretsManager ----------------------------
(***************************************************************************)
(* The Secrets Manager service of internal/services/aws/secretsmanager:    *)
(* secrets, their versions, and the staging labels (AWSCURRENT, ...) that  *)
(* move from version to version.  As in SQS, a request runs in a goroutine *)
(* of its own and is a sequence of atomic calls to two collections.        *)
(*                                                                         *)
(* A secret's id stands for its ARN, which has a random suffix.  Payloads  *)
(* are left out: they decide only which answer a replayed token gets.  A   *)
(* version id generated by the service is a token nobody used before, so   *)
(* any of Tokens.                                                          *)
(***************************************************************************)
EXTENDS Integers, FiniteSets

CONSTANTS Procs,        \* requests that can be in flight together
          Names,        \* secret names
          Tokens,       \* version ids, ordered as the code orders strings
          Custom,       \* staging labels other than the two of AWS
          TagKeys,      \* tags
          Moves,        \* sets of labels a PutSecretValue may ask for
          Ops,          \* the operations the clients use
          MaxSecrets,   \* bound on secrets ever created
          MaxVersions,  \* bound on versions ever inserted
          MaxClock      \* bound on the clock, in seconds

AllOps == {"create", "put", "delete", "destroy", "restore", "tag", "untag"}
Labels == {"AWSCURRENT", "AWSPREVIOUS"} \cup Custom

ASSUME OpsAssumption == Ops \subseteq AllOps
ASSUME NameAssumption == Names # {}
ASSUME TokenAssumption == Tokens \subseteq Nat \ {0}
ASSUME MoveAssumption == Moves \subseteq (SUBSET Labels) \ {{}}
ASSUME BoundAssumption == {MaxSecrets, MaxVersions, MaxClock} \subseteq Nat

VARIABLES secrets,      \* aws.secretsmanager_secrets: id -> record
          versions,     \* aws.secretsmanager_versions: id -> record
          nextSecret,   \* automatic id of the next secret
          nextVersion,  \* automatic id of the next version
          req,          \* the requests
          clock,        \* the time, in seconds
          want,         \* the versions that carry each label had the
                        \* requests been atomic (history)
          raced         \* secrets whose writers overlapped (history)

vars == <<secrets, versions, nextSecret, nextVersion, req, clock, want, raced>>
stored == <<secrets, versions, nextSecret, nextVersion>>
history == <<want, raced>>

Ids == 1..MaxSecrets
VIds == 1..MaxVersions
Secret == [name : Names, deleted : BOOLEAN, tags : SUBSET TagKeys]
Version == [secret : Ids, token : Tokens, stages : SUBSET Labels, created : Nat]

Nothing == [i \in {} |-> 0]
Steps == {"idle", "secret", "version", "check", "list", "move", "drop",
          "mark", "tags"}

Blank == [secret |-> 0, token |-> 0, stages |-> {}, created |-> 0]
Unlisted == [v \in VIds |-> Blank]

(* The locals of a request: the secret and its tags as read at the start,  *)
(* the version to add and the labels to move, the time read, the versions  *)
(* as they were listed and those of them still to visit.                   *)
Request == [op : AllOps \cup {"none"}, step : Steps, secret : Nat,
            name : Names, token : Tokens \cup {0}, stages : SUBSET Labels,
            tags : SUBSET TagKeys, keys : SUBSET TagKeys, now : Nat,
            listed : [VIds -> Version \cup {Blank}], todo : SUBSET VIds]

SomeName == CHOOSE n \in Names : TRUE
Idle == [op |-> "none", step |-> "idle", secret |-> 0, name |-> SomeName,
         token |-> 0, stages |-> {}, tags |-> {}, keys |-> {}, now |-> 0,
         listed |-> Unlisted, todo |-> {}]

Unlabelled == [l \in Labels |-> {}]

Init ==
  /\ secrets = Nothing /\ versions = Nothing
  /\ nextSecret = 1 /\ nextVersion = 1
  /\ req = [p \in Procs |-> Idle]
  /\ clock = 0
  /\ want = [s \in Ids |-> Unlabelled]
  /\ raced = {}

-----------------------------------------------------------------------------
SecretIds == DOMAIN secrets
VersionIds == DOMAIN versions
Of(s) == {v \in VersionIds : versions[v].secret = s}
WithToken(s, t) == {v \in Of(s) : versions[v].token = t}
Carrying(s, l) == {v \in Of(s) : l \in versions[v].stages}

With(f, i, r) == [j \in DOMAIN f \cup {i} |-> IF j = i THEN r ELSE f[j]]
Without(f, i) == [j \in DOMAIN f \ {i} |-> f[j]]

At(p, op, step) == req[p].op = op /\ req[p].step = step
Goto(p, r) == req' = [req EXCEPT ![p] = r]
Finish(p) == Goto(p, Idle)

(* A request has a secret by its name or its ARN; the ARN reaches every    *)
(* stored secret.  Writers of one kind that meet on a secret are recorded. *)
Kind(op) == IF op \in {"tag", "untag"} THEN "tags"
            ELSE IF op \in {"create", "put", "destroy"} THEN "labels" ELSE "flag"
Busy(k, s) == \E q \in Procs : req[q].secret = s /\ Kind(req[q].op) = k

Begin(p, op, s, step, r) ==
  /\ op \in Ops /\ req[p].step = "idle" /\ s \in SecretIds
  /\ Goto(p, [r EXCEPT !.op = op, !.step = step, !.secret = s])
  /\ raced' = IF Busy(Kind(op), s) THEN raced \cup {<<Kind(op), s>>} ELSE raced
  /\ UNCHANGED <<stored, clock, want>>

-----------------------------------------------------------------------------
(* CreateSecret: look the name up, insert the secret, insert its version.  *)

CreateFind(p, n, t) ==
  /\ "create" \in Ops /\ req[p].step = "idle"
  /\ \A s \in SecretIds : secrets[s].name # n
  /\ Goto(p, [Idle EXCEPT !.op = "create", !.step = "secret", !.name = n,
                          !.token = t])
  /\ UNCHANGED <<stored, clock, history>>

HasPayload(t) == t # 0

CreateInsert(p, tags) ==
  /\ At(p, "create", "secret") /\ nextSecret <= MaxSecrets
  /\ secrets' = With(secrets, nextSecret,
                     [name |-> req[p].name, deleted |-> FALSE, tags |-> tags])
  /\ nextSecret' = nextSecret + 1
  /\ Goto(p, IF ~HasPayload(req[p].token) THEN Idle
             ELSE [req[p] EXCEPT !.step = "version", !.secret = nextSecret,
                                 !.stages = {"AWSCURRENT"}, !.now = clock])
  /\ UNCHANGED <<versions, nextVersion, clock, history>>

-----------------------------------------------------------------------------
(* PutSecretValue, and UpdateSecret with a payload, which moves AWSCURRENT:*)
(* a replayed token changes nothing; a new one adds a version without      *)
(* labels, and then the labels move.                                       *)

PutBegin(p, s, t, stages) ==
  /\ s \in SecretIds /\ ~secrets[s].deleted
  /\ Begin(p, "put", s, "check", [Idle EXCEPT !.token = t, !.stages = stages])

findNoVersion(s, t) == {}
findVersionByID(s, t) == WithToken(s, t)

PutCheck(p) ==
  /\ req[p].step = "check"
  /\ Goto(p, IF findVersionByID(req[p].secret, req[p].token) # {} THEN Idle
             ELSE [req[p] EXCEPT !.step = "version", !.now = clock])
  /\ UNCHANGED <<stored, clock, history>>

insertVersion(p) ==
  LET r == req[p]
  IN  /\ r.step = "version" /\ nextVersion <= MaxVersions
      /\ versions' = With(versions, nextVersion,
           [secret |-> r.secret, token |-> r.token, created |-> r.now,
            stages |-> IF r.op = "create" THEN r.stages ELSE {}])
      /\ nextVersion' = nextVersion + 1
      /\ IF r.op = "create"
         THEN /\ want' = [want EXCEPT ![r.secret] =
                            [Unlabelled EXCEPT !["AWSCURRENT"] = {r.token}]]
              /\ Finish(p)
         ELSE want' = want /\ Goto(p, [r EXCEPT !.step = "list"])
      /\ UNCHANGED <<secrets, nextSecret, clock, raced>>

(* moveVersionStages lists the versions, computes every new set of labels  *)
(* from that listing, and stores them one by one, oldest first.            *)
movedOnlyCurrent(v, r) ==
  (v.stages \ r.stages) \cup IF v.token = r.token THEN r.stages ELSE {}

moved(v, r) ==
  LET current == "AWSCURRENT" \in r.stages
  IN  (v.stages \ (r.stages \cup IF current THEN {"AWSPREVIOUS"} ELSE {}))
        \cup (IF current /\ "AWSCURRENT" \in v.stages /\ v.token # r.token
              THEN {"AWSPREVIOUS"} ELSE {})
        \cup IF v.token = r.token THEN r.stages ELSE {}

Before(v, w) ==
  \/ v.created < w.created
  \/ v.created = w.created /\ v.token < w.token
First(p) == CHOOSE v \in req[p].todo : \A w \in req[p].todo \ {v} :
              LET a == req[p].listed[v]  b == req[p].listed[w]
              IN  Before(a, b) \/ (~Before(b, a) /\ v < w)

labelledVersions(s) == {v \in Of(s) : versions[v].stages # {}}
secretVersions(s) == Of(s)

ListVersions(p) ==
  /\ req[p].step = "list"
  /\ LET s == req[p].secret
     IN  Goto(p, [req[p] EXCEPT
                    !.step = IF req[p].op = "put" THEN "move" ELSE "drop",
                    !.listed = [v \in VIds |-> IF v \in secretVersions(s)
                                            THEN versions[v] ELSE Blank],
                    !.todo = secretVersions(s)])
  /\ UNCHANGED <<stored, clock, history>>

MoveOne(p) ==
  /\ req[p].step = "move" /\ req[p].todo # {}
  /\ LET v == First(p)
     IN  /\ versions' = IF v \in VersionIds
                        THEN [versions EXCEPT ![v].stages =
                                moved(req[p].listed[v], req[p])]
                        ELSE versions
         /\ Goto(p, [req[p] EXCEPT !.todo = @ \ {v}])
  /\ UNCHANGED <<secrets, nextSecret, nextVersion, clock, history>>

(* The labels as one atomic move leaves them, for the history.  A move of  *)
(* AWSCURRENT takes AWSPREVIOUS to the version that had it, and to the new *)
(* one as well if the client asks for both.                                *)
Relabelled(f, r) ==
  LET previous == IF "AWSCURRENT" \in r.stages THEN {"AWSPREVIOUS"} ELSE {}
  IN  [l \in Labels |->
         (IF l \in r.stages THEN {r.token}
          ELSE IF l \in previous THEN {} ELSE f[l])
           \cup (IF l \in previous THEN f["AWSCURRENT"] ELSE {})]

MoveEnd(p) ==
  /\ req[p].step = "move" /\ req[p].todo = {}
  /\ want' = [want EXCEPT ![req[p].secret] = Relabelled(@, req[p])]
  /\ Finish(p)
  /\ UNCHANGED <<stored, clock, raced>>

-----------------------------------------------------------------------------
(* DeleteSecret schedules the deletion or, when forced, lists the versions,*)
(* deletes them one by one and then the secret; RestoreSecret takes a      *)
(* scheduled deletion back.                                                *)

DeleteBegin(p, s) ==
  /\ s \in SecretIds /\ ~secrets[s].deleted
  /\ Begin(p, "delete", s, "mark", Idle)

RestoreBegin(p, s) ==
  /\ s \in SecretIds /\ secrets[s].deleted
  /\ Begin(p, "restore", s, "mark", Idle)

Mark(p) ==
  /\ req[p].step = "mark"
  /\ secrets' = IF req[p].secret \in SecretIds
                THEN [secrets EXCEPT ![req[p].secret].deleted =
                                       (req[p].op = "delete")]
                ELSE secrets
  /\ Finish(p)
  /\ UNCHANGED <<versions, nextSecret, nextVersion, clock, history>>

ForceBegin(p, s) == Begin(p, "destroy", s, "list", Idle)

DropOne(p) ==
  /\ req[p].step = "drop" /\ req[p].todo # {}
  /\ LET v == CHOOSE w \in req[p].todo : \A x \in req[p].todo : w <= x
     IN  versions' = Without(versions, v)
         /\ Goto(p, [req[p] EXCEPT !.todo = @ \ {v}])
  /\ UNCHANGED <<secrets, nextSecret, nextVersion, clock, history>>

ForceEnd(p) ==
  /\ req[p].step = "drop" /\ req[p].todo = {}
  /\ secrets' = Without(secrets, req[p].secret)
  /\ Finish(p)
  /\ UNCHANGED <<versions, nextSecret, nextVersion, clock, history>>

-----------------------------------------------------------------------------
(* TagResource and UntagResource merge into the tags they read first.      *)

TagBegin(p, op, s, keys) ==
  /\ op \in {"tag", "untag"} /\ s \in SecretIds
  /\ Begin(p, op, s, "tags", [Idle EXCEPT !.tags = secrets[s].tags, !.keys = keys])

mergeTags(tags, r) == IF r.op = "tag" THEN tags \cup r.keys ELSE tags \ r.keys

TagApply(p) ==
  LET r == req[p]
  IN  /\ r.step = "tags"
      /\ secrets' = IF r.secret \in SecretIds
                    THEN [secrets EXCEPT ![r.secret].tags = mergeTags(r.tags, r)]
                    ELSE secrets
      /\ Finish(p)
      /\ UNCHANGED <<versions, nextSecret, nextVersion, clock, history>>

-----------------------------------------------------------------------------
Tick ==
  /\ clock < MaxClock /\ clock' = clock + 1
  /\ UNCHANGED <<stored, req, history>>

Handle(p) ==
  \/ \E n \in Names, t \in Tokens \cup {0} : CreateFind(p, n, t)
  \/ \E s \in Ids :
       \/ \E t \in Tokens, stages \in Moves : PutBegin(p, s, t, stages)
       \/ DeleteBegin(p, s) \/ RestoreBegin(p, s) \/ ForceBegin(p, s)
       \/ \E op \in Ops, keys \in SUBSET TagKeys : TagBegin(p, op, s, keys)

Continue(p) ==
  \/ \E tags \in SUBSET TagKeys : CreateInsert(p, tags)
  \/ PutCheck(p) \/ insertVersion(p)
  \/ ListVersions(p) \/ MoveOne(p) \/ MoveEnd(p)
  \/ Mark(p) \/ DropOne(p) \/ ForceEnd(p)
  \/ TagApply(p)

Next == Tick \/ \E p \in Procs : Handle(p) \/ Continue(p)

Spec == Init /\ [][Next]_vars

-----------------------------------------------------------------------------
(* The types of the variables.                                             *)
TypeOK ==
  /\ SecretIds \subseteq Ids /\ \A s \in SecretIds : secrets[s] \in Secret
  /\ VersionIds \subseteq VIds /\ \A v \in VersionIds : versions[v] \in Version
  /\ nextSecret \in Nat /\ nextVersion \in Nat /\ clock \in Nat
  /\ req \in [Procs -> Request]
  /\ want \in [Ids -> [Labels -> SUBSET Tokens]]
  /\ raced \subseteq {"labels", "tags", "flag"} \X Ids

Settled(k, s) == s \in SecretIds /\ <<k, s>> \notin raced /\ ~Busy(k, s)

TokensOf(S) == {versions[v].token : v \in S}

(* While the writers of a secret come one after the other, every label is  *)
(* on the version that asked for it last and on no other one, AWSPREVIOUS  *)
(* on the version that AWSCURRENT leaves, too, whatever deletes, restores  *)
(* and tags interleave with them (putSecretValue, updateSecret,            *)
(* moveVersionStages).                                                     *)
LabelsFollowPuts ==
  \A s \in SecretIds : Settled("labels", s) =>
    \A l \in Labels : TokensOf(Carrying(s, l)) = want[s][l]

(* Then a client token also names one version: replaying a request adds    *)
(* none (the idempotency check of putSecretValue and updateSecret).        *)
TokenIsIdempotent ==
  \A s \in SecretIds : Settled("labels", s) =>
    \A v, w \in Of(s) : versions[v].token = versions[w].token => v = w

(* A forced deletion that met no other writer of the secret leaves none of *)
(* its versions behind (deleteSecretAndVersions).                          *)
ForcedDeleteTakesVersions ==
  \A v \in VersionIds : LET s == versions[v].secret
                        IN  s \in SecretIds \/ <<"labels", s>> \in raced

=============================================================================
