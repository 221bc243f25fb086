-------------------------- MODULE SecretsManagerProofs --------------------------
(***************************************************************************)
(* Proofs about SecretsManager, for every set of requests, names, tokens,  *)
(* labels and moves and every bound.  A secret whose writers never         *)
(* overlapped has one writer at most, and what its versions are is known   *)
(* at each of that writer's steps (Known); between writers the labels are  *)
(* where the last move put them and every token names one version          *)
(* (LabelsSound).  Ids are never used again, so what a request listed is a *)
(* version of its secret or gone (Sound): the steps of others leave the    *)
(* secret alone.                                                           *)
(***************************************************************************)
EXTENDS SecretsManager, FiniteSetTheorems, WellFoundedInduction, TLAPS

Writer(r, s) == r.op \in {"create", "put", "destroy"} /\ r.secret = s

Numbered ==
  /\ nextSecret # 0 /\ \A s \in SecretIds : s < nextSecret
  /\ nextVersion # 0
  /\ \A v \in VersionIds : v < nextVersion /\ versions[v].secret < nextSecret
  /\ \A s \in Ids : s >= nextSecret => want[s] = Unlabelled

(* What the locals of a request mean, whatever others do.                  *)
Sound(r) ==
  /\ r.step = "idle" => r = Idle
  /\ r.secret < nextSecret
  /\ r.step = "secret" => r.op = "create" /\ r.secret = 0
  /\ r.step \notin {"idle", "secret"} => r.secret \in Ids
  /\ r.step = "version" => /\ r.op \in {"create", "put"} /\ r.token # 0
                           /\ r.op = "create" => r.stages = {"AWSCURRENT"}
  /\ r.step \in {"check", "move"} => r.op = "put" /\ r.token # 0
  /\ r.step = "list" => r.op \in {"put", "destroy"} /\ (r.op = "put" => r.token # 0)
  /\ r.step = "drop" => r.op = "destroy"
  /\ r.step = "mark" => r.op \in {"delete", "restore"}
  /\ r.step = "tags" => r.op \in {"tag", "untag"}
  /\ r.step \in {"move", "drop"} =>
       \A v \in r.todo : /\ v < nextVersion
                         /\ v \in VersionIds => versions[v].secret = r.secret

LabelsAgree(s) == \A l \in Labels : TokensOf(Carrying(s, l)) = want[s][l]
TokensDiffer(s) ==
  \A v, w \in Of(s) : versions[v].token = versions[w].token => v = w

(* Half way through a move: what is visited carries its new labels, what   *)
(* is not still carries the listed ones, and these agree with the history. *)
Moving(r, s) ==
  /\ r.todo \subseteq Of(s) /\ WithToken(s, r.token) # {}
  /\ \A v \in Of(s) :
       /\ r.listed[v].token = versions[v].token
       /\ versions[v].token = r.token => r.listed[v].stages = {}
       /\ versions[v].stages = IF v \in r.todo THEN r.listed[v].stages
                               ELSE moved(r.listed[v], r)
  /\ \A l \in Labels :
       TokensOf({v \in Of(s) : l \in r.listed[v].stages}) = want[s][l]

(* What the only writer of a secret knows of it at each of its steps.      *)
Known(r) ==
  /\ r.op = "create" => Of(r.secret) = {}
  /\ r.op = "put" => TokensDiffer(r.secret)
  /\ r.op = "put" /\ r.step \in {"check", "version", "list"}
       => LabelsAgree(r.secret)
  /\ r.op = "put" /\ r.step = "version" => WithToken(r.secret, r.token) = {}
  /\ r.op = "put" /\ r.step = "list" =>
       /\ WithToken(r.secret, r.token) # {}
       /\ \A v \in WithToken(r.secret, r.token) : versions[v].stages = {}
  /\ r.step = "move" => Moving(r, r.secret)
  /\ r.step = "drop" => Of(r.secret) \subseteq r.todo

LabelsSound ==
  \A s \in Ids : <<"labels", s>> \notin raced =>
    /\ Of(s) # {} => s \in SecretIds
    /\ \A p, q \in Procs : Writer(req[p], s) /\ Writer(req[q], s) => p = q
    /\ \A p \in Procs : Writer(req[p], s) => s \in SecretIds /\ Known(req[p])
    /\ s \in SecretIds /\ (\A p \in Procs : ~Writer(req[p], s))
         => LabelsAgree(s) /\ TokensDiffer(s)

IInv == /\ TypeOK /\ Numbered
        /\ \A p \in Procs : Sound(req[p])
        /\ LabelsSound

-----------------------------------------------------------------------------
(* Lemmas about the operators of the model.                                *)

(* A set of naturals that is not empty has a least element: the intervals  *)
(* up to its members are finite, so one of them holds no other.            *)
LEMMA LeastExists ==
  ASSUME NEW S \in SUBSET Nat, S # {}
  PROVE  \E m \in S : \A j \in S : m <= j
  <1> DEFINE Below == {1..n : n \in S}
  <1>1. Below \subseteq FiniteSubsetsOf(Nat)
    <2>1. \A n \in S : IsFiniteSet(1..n) /\ 1..n \subseteq Nat
      BY FS_Interval
    <2> QED  BY <2>1 DEF FiniteSubsetsOf
  <1>2. \E x \in Below : TRUE
    OBVIOUS
  <1>3. PICK m \in S : \A y \in Below :
                         ~(<<y, 1..m>> \in StrictSubsetOrdering(Nat))
    <2> HIDE DEF Below
    <2>1. \E x \in Below : \A y \in Below :
                             ~(<<y, x>> \in StrictSubsetOrdering(Nat))
      BY <1>1, <1>2, WFMin, FS_StrictSubsetOrderingWellFounded
    <2> QED  BY <2>1 DEF Below
  <1>4. \A j \in S : m <= j
    <2> SUFFICES ASSUME NEW j \in S, j < m PROVE FALSE
      OBVIOUS
    <2>1. 1..j \in Below /\ 1..m \in Below
      OBVIOUS
    <2>2. 1..j \subseteq 1..m /\ 1..j # 1..m
      <3>1. m \in 1..m /\ m \notin 1..j
        OBVIOUS
      <3> QED  BY <3>1
    <2>3. <<1..j, 1..m>> \in StrictSubsetOrdering(Nat)
      BY <1>1, <2>1, <2>2 DEF StrictSubsetOrdering, FiniteSubsetsOf
    <2> QED  BY <1>3, <2>1, <2>3
  <1> QED  BY <1>4

LEMMA Naturals ==
  /\ MaxSecrets \in Nat /\ MaxVersions \in Nat
  /\ \A s \in Ids : s \in Nat /\ s # 0
  /\ \A v \in VIds : v \in Nat /\ v # 0
  BY BoundAssumption DEF Ids, VIds

LEMMA IdleFacts ==
  /\ Idle \in Request /\ Idle.op = "none" /\ Idle.step = "idle"
  /\ Idle.secret = 0
  <1>1. SomeName \in Names
    BY NameAssumption DEF SomeName
  <1>2. Unlisted \in [VIds -> Version \cup {Blank}]
    BY DEF Unlisted
  <1> QED  BY <1>1, <1>2 DEF Idle, Request, Steps

(* The oldest version still to visit, as moveVersionStages sorts them, is  *)
(* one of those: among the oldest there is a least token, and among those  *)
(* that have both a least id.                                              *)
LEMMA FirstIsToVisit ==
  ASSUME TypeOK, NEW p \in Procs, req[p].todo # {}
  PROVE  First(p) \in req[p].todo
  <1>1. PICK r \in Request : r = req[p]
    BY DEF TypeOK
  <1>2. r.todo \subseteq VIds /\ r.todo \subseteq Nat /\ r.todo # {}
    BY <1>1, Naturals DEF Request
  <1>3. \A v \in r.todo : r.listed[v].created \in Nat /\ r.listed[v].token \in Nat
    <2>1. \A v \in VIds : r.listed[v] \in Version \cup {Blank}
      BY DEF Request
    <2> QED  BY <1>2, <2>1, TokenAssumption DEF Version, Blank
  <1> DEFINE Created == {r.listed[v].created : v \in r.todo}
  <1>4. PICK c \in Created : \A d \in Created : c <= d
    <2>1. Created \in SUBSET Nat /\ Created # {}
      BY <1>2, <1>3
    <2> HIDE DEF Created
    <2> QED  BY <2>1, LeastExists
  <1> DEFINE Oldest == {v \in r.todo : r.listed[v].created = c}
             Tokens1 == {r.listed[v].token : v \in Oldest}
  <1>5. PICK t \in Tokens1 : \A u \in Tokens1 : t <= u
    <2>1. Tokens1 \in SUBSET Nat /\ Tokens1 # {}
      BY <1>3, <1>4
    <2> HIDE DEF Tokens1
    <2> QED  BY <2>1, LeastExists
  <1> DEFINE Last == {v \in Oldest : r.listed[v].token = t}
  <1>6. PICK m \in Last : \A v \in Last : m <= v
    <2>1. Last \in SUBSET Nat /\ Last # {}
      BY <1>2, <1>5
    <2> HIDE DEF Last
    <2> QED  BY <2>1, LeastExists
  <1>7. m \in r.todo
    BY <1>6
  <1>8. ASSUME NEW w \in r.todo \ {m}
        PROVE  \/ Before(r.listed[m], r.listed[w])
               \/ ~Before(r.listed[w], r.listed[m]) /\ m < w
    <2>1. c <= r.listed[w].created /\ r.listed[m].created = c /\ r.listed[m].token = t
      BY <1>4, <1>6
    <2>2. r.listed[w].created = c => t <= r.listed[w].token
      BY <1>5
    <2>3. r.listed[w].created = c /\ r.listed[w].token = t => m <= w
      BY <1>6
    <2>4. /\ r.listed[w].created \in Nat /\ r.listed[w].token \in Nat
          /\ c \in Nat /\ t \in Nat /\ m \in Nat /\ w \in Nat /\ m # w
      BY <1>2, <1>3, <1>6, <2>1
    <2> QED  BY <2>1, <2>2, <2>3, <2>4 DEF Before
  <1>9. \E v \in req[p].todo : \A w \in req[p].todo \ {v} :
          \/ Before(req[p].listed[v], req[p].listed[w])
          \/ ~Before(req[p].listed[w], req[p].listed[v]) /\ v < w
    BY <1>1, <1>7, <1>8
  <1> QED  BY <1>9 DEF First

(* A label that moves leaves every version it was on; AWSPREVIOUS takes    *)
(* the place AWSCURRENT leaves.                                            *)
LEMMA MovedFacts ==
  ASSUME NEW v, NEW r, v.token # r.token \/ v.stages = {}
  PROVE  \A l :
    l \in moved(v, r) <=>
      IF v.token = r.token THEN l \in r.stages
      ELSE IF "AWSCURRENT" \in r.stages /\ l = "AWSPREVIOUS"
      THEN "AWSCURRENT" \in v.stages
      ELSE l \in v.stages /\ l \notin r.stages
  BY DEF moved

-----------------------------------------------------------------------------
(* How the parts of the invariant are kept.                                *)

LEMMA RequestsSound ==
  ASSUME TypeOK, \A q \in Procs : Sound(req[q]),
         NEW p \in Procs, NEW r \in Request, Goto(p, r), Sound(r)',
         \A s \in Request : Sound(s) => Sound(s)'
  PROVE  /\ req' \in [Procs -> Request] /\ \A q \in Procs : Sound(req[q])'
         /\ req'[p] = r /\ \A q \in Procs : q # p => req'[q] = req[q]
  <1>1. /\ req' \in [Procs -> Request]
        /\ req'[p] = r /\ \A q \in Procs : q # p => req'[q] = req[q]
    BY DEF Goto, TypeOK
  <1>2. ASSUME NEW q \in Procs PROVE Sound(req[q])'
    <2>1. PICK s \in Request : s = req'[q] /\ Sound(s)'
      <3>1. CASE q = p
        BY <1>1, <3>1
      <3>2. CASE q # p
        <4>1. PICK s \in Request : s = req[q] /\ Sound(s)
          BY DEF TypeOK
        <4> QED  BY <1>1, <3>2, <4>1
      <3> QED  BY <3>1, <3>2
    <2> QED  BY <2>1 DEF Sound, VersionIds
  <1> QED  BY <1>1, <1>2

(* What the locals mean survives as long as versions keep their secret and *)
(* new ones get new ids.                                                   *)
LEMMA SoundKept ==
  ASSUME TypeOK, nextSecret' \in Nat, nextSecret' >= nextSecret,
         nextVersion' \in Nat, nextVersion' >= nextVersion,
         \A v \in VersionIds' : \/ v \in VersionIds /\ versions'[v].secret = versions[v].secret
                                \/ v >= nextVersion,
         NEW r \in Request, Sound(r)
  PROVE  Sound(r)'
  <1>1. nextSecret \in Nat /\ nextVersion \in Nat
    BY DEF TypeOK
  <1>2. r.secret < nextSecret'
    <2>1. r.secret \in Nat /\ r.secret < nextSecret
      BY DEF Request, Sound
    <2> QED  BY <1>1, <2>1
  <1>3. ASSUME r.step \in {"move", "drop"}, NEW v \in r.todo
        PROVE  v < nextVersion' /\ (v \in VersionIds' => versions'[v].secret = r.secret)
    <2>1. /\ v \in Nat /\ v < nextVersion
          /\ v \in VersionIds => versions[v].secret = r.secret
      BY <1>3, Naturals DEF Request, Sound
    <2>2. v < nextVersion' /\ ~(v >= nextVersion)
      BY <1>1, <2>1
    <2> QED  BY <2>1, <2>2
  <1> QED  BY <1>2, <1>3 DEF Sound

(* A secret whose versions and labels a step does not touch.               *)
Untouched(s) ==
  /\ s \in SecretIds' <=> s \in SecretIds
  /\ Of(s)' = Of(s) /\ \A v \in Of(s) : versions'[v] = versions[v]
  /\ want'[s] = want[s]

LEMMA UntouchedKeeps ==
  ASSUME NEW s \in Ids, Untouched(s)
  PROVE  /\ LabelsAgree(s) => LabelsAgree(s)'
         /\ TokensDiffer(s) => TokensDiffer(s)'
         /\ \A r \in Request : r.secret = s /\ Known(r) => Known(r)'
  <1>1. \A S \in SUBSET Of(s) : TokensOf(S)' = TokensOf(S)
    BY DEF Untouched, TokensOf
  <1>2. \A l : Carrying(s, l)' = Carrying(s, l) /\ Carrying(s, l) \subseteq Of(s)
    BY DEF Untouched, Carrying
  <1>3. \A t : /\ WithToken(s, t)' = WithToken(s, t)
               /\ WithToken(s, t) \subseteq Of(s)
    BY DEF Untouched, WithToken
  <1>4. LabelsAgree(s) => LabelsAgree(s)'
    BY <1>1, <1>2 DEF LabelsAgree, Untouched
  <1>5. TokensDiffer(s) => TokensDiffer(s)'
    BY DEF TokensDiffer, Untouched
  <1>6. ASSUME NEW r \in Request, Moving(r, s) PROVE Moving(r, s)'
    <2>1. /\ r.todo \subseteq Of(s)' /\ WithToken(s, r.token)' # {}
      BY <1>3, <1>6 DEF Moving, Untouched
    <2>2. \A v \in Of(s)' :
            /\ r.listed[v].token = versions'[v].token
            /\ versions'[v].token = r.token => r.listed[v].stages = {}
            /\ versions'[v].stages = IF v \in r.todo THEN r.listed[v].stages
                                     ELSE moved(r.listed[v], r)
      BY <1>6 DEF Moving, Untouched
    <2>3. ASSUME NEW l \in Labels
          PROVE  TokensOf({v \in Of(s) : l \in r.listed[v].stages})' = want'[s][l]
      <3>1. {v \in Of(s) : l \in r.listed[v].stages} \in SUBSET Of(s)
        OBVIOUS
      <3>2. TokensOf({v \in Of(s) : l \in r.listed[v].stages})'
              = TokensOf({v \in Of(s) : l \in r.listed[v].stages})
        BY DEF Untouched, TokensOf
      <3> QED  BY <1>6, <3>2 DEF Moving, Untouched
    <2> QED  BY <2>1, <2>2, <2>3 DEF Moving
  <1>7. ASSUME NEW r \in Request, r.secret = s, Known(r) PROVE Known(r)'
    <2>1. Of(s)' = Of(s)
      BY DEF Untouched
    <2>2. \A v \in WithToken(s, r.token) : versions'[v] = versions[v]
      BY <1>3 DEF Untouched
    <2> QED  BY <1>3, <1>4, <1>5, <1>6, <1>7, <2>1, <2>2 DEF Known
  <1> QED  BY <1>4, <1>5, <1>7

(* A step of a request that is a writer of a secret already, or of none:   *)
(* it touches no secret but that one.                                      *)
LEMMA LabelsStep ==
  ASSUME TypeOK, LabelsSound, NEW p \in Procs, NEW r \in Request,
         NEW o \in Request, o = req[p],
         req'[p] = r, \A q \in Procs : q # p => req'[q] = req[q],
         raced' = raced,
         \A s \in Ids : Writer(r, s) => Writer(o, s),
         \A s \in Ids : ~Writer(o, s) => Untouched(s),
         \A s \in Ids :
           Writer(o, s) /\ s \in SecretIds /\ Known(o) =>
             /\ Of(s)' # {} => s \in SecretIds'
             /\ Writer(r, s) => s \in SecretIds' /\ Known(r)'
             /\ ~Writer(r, s) /\ s \in SecretIds' => LabelsAgree(s)' /\ TokensDiffer(s)'
  PROVE  LabelsSound'
  <1> SUFFICES ASSUME NEW s \in Ids, <<"labels", s>> \notin raced
               PROVE  /\ Of(s)' # {} => s \in SecretIds'
                      /\ \A q, u \in Procs :
                           Writer(req'[q], s) /\ Writer(req'[u], s) => q = u
                      /\ \A q \in Procs :
                           Writer(req'[q], s) => s \in SecretIds' /\ Known(req[q])'
                      /\ s \in SecretIds' /\ (\A q \in Procs : ~Writer(req'[q], s))
                           => LabelsAgree(s)' /\ TokensDiffer(s)'
    BY DEF LabelsSound, Writer
  <1>1. \A q \in Procs : Writer(req'[q], s) => Writer(req[q], s)
    OBVIOUS
  <1>2. \A q, u \in Procs : Writer(req'[q], s) /\ Writer(req'[u], s) => q = u
    BY <1>1 DEF LabelsSound
  <1>3. \A q \in Procs : \E u \in Request : u = req'[q] /\ (q # p => u = req[q])
    BY DEF TypeOK
  <1>4. CASE ~Writer(o, s)
    <2>1. Untouched(s)
      BY <1>4
    <2>2. ASSUME NEW q \in Procs, Writer(req'[q], s)
          PROVE  s \in SecretIds' /\ Known(req[q])'
      <3>1. q # p
        BY <1>1, <1>4, <2>2
      <3>2. PICK u \in Request : u = req'[q] /\ u = req[q]
        BY <1>3, <3>1
      <3>3. u.secret = s /\ Known(u) /\ s \in SecretIds
        BY <2>2, <3>2 DEF LabelsSound, Writer
      <3>4. Known(u)'
        BY <2>1, <3>3, UntouchedKeeps
      <3>5. req[q]' = u
        BY <3>2
      <3> QED  BY <2>1, <3>3, <3>4, <3>5
               DEF Known, Untouched, Moving, LabelsAgree, TokensDiffer, WithToken,
                   Of, VersionIds, TokensOf, Carrying
    <2>3. Of(s)' # {} => s \in SecretIds'
      BY <2>1 DEF Untouched, LabelsSound
    <2>4. ASSUME s \in SecretIds', \A q \in Procs : ~Writer(req'[q], s)
          PROVE  LabelsAgree(s)' /\ TokensDiffer(s)'
      <3>1. \A q \in Procs : ~Writer(req[q], s)
        BY <1>4, <2>4
      <3> QED  BY <2>1, <2>4, <3>1, UntouchedKeeps DEF LabelsSound, Untouched
    <2> QED  BY <1>2, <2>2, <2>3, <2>4
  <1>5. CASE Writer(o, s)
    <2>1. s \in SecretIds /\ Known(o)
      BY <1>5 DEF LabelsSound
    <2>2. \A q \in Procs : Writer(req'[q], s) => q = p
      BY <1>1, <1>5 DEF LabelsSound
    <2>3. ASSUME NEW q \in Procs, Writer(req'[q], s)
          PROVE  s \in SecretIds' /\ Known(req[q])'
      <3>1. q = p /\ req[q]' = r /\ Writer(r, s)
        BY <2>2, <2>3
      <3>2. s \in SecretIds' /\ Known(r)'
        BY <1>5, <2>1, <3>1
      <3> QED  BY <3>1, <3>2
               DEF Known, Moving, LabelsAgree, TokensDiffer, WithToken,
                   Of, VersionIds, TokensOf, Carrying
    <2> QED  BY <1>2, <1>5, <2>1, <2>3
  <1> QED  BY <1>4, <1>5

(* A request that writes labels and versions of no secret.                 *)
LEMMA IdleWritesNone == \A s : ~Writer(Idle, s)
  BY IdleFacts DEF Writer

(* A step that leaves versions and labels alone and no secret out.         *)
LEMMA QuietStep ==
  ASSUME IInv, NEW p \in Procs, NEW r \in Request, NEW o \in Request,
         o = req[p], Goto(p, r), Sound(r),
         UNCHANGED <<versions, nextSecret, nextVersion, want, clock, raced>>,
         SecretIds' = SecretIds, \A s \in SecretIds : secrets'[s] \in Secret,
         \A s \in Ids : Writer(r, s) => Writer(o, s),
         \A s \in Ids :
           Writer(o, s) /\ Known(o) =>
             IF Writer(r, s) THEN Known(r) ELSE LabelsAgree(s) /\ TokensDiffer(s)
  PROVE  IInv'
  <1>1. VersionIds' = VersionIds /\ \A s : Of(s)' = Of(s)
    BY DEF VersionIds, Of
  <1>2. \A s \in Request : Sound(s) => Sound(s)'
    BY <1>1 DEF Sound
  <1>3. /\ req' \in [Procs -> Request] /\ \A q \in Procs : Sound(req[q])'
        /\ req'[p] = r /\ \A q \in Procs : q # p => req'[q] = req[q]
    BY <1>2, RequestsSound DEF IInv
  <1>4. TypeOK' /\ Numbered'
    BY <1>1, <1>3 DEF IInv, TypeOK, Numbered
  <1>5. \A s \in Ids : Untouched(s)
    BY <1>1 DEF Untouched
  <1>6. /\ Known(r) => Known(r)'
        /\ \A s : /\ LabelsAgree(s) => LabelsAgree(s)'
                  /\ TokensDiffer(s) => TokensDiffer(s)'
    BY DEF Known, Moving, LabelsAgree, TokensDiffer, WithToken, Of,
           VersionIds, TokensOf, Carrying
  <1>7. LabelsSound'
    <2>1. \A s \in Ids :
            Writer(o, s) /\ s \in SecretIds /\ Known(o) =>
              /\ Of(s)' # {} => s \in SecretIds'
              /\ Writer(r, s) => s \in SecretIds' /\ Known(r)'
              /\ ~Writer(r, s) /\ s \in SecretIds'
                   => LabelsAgree(s)' /\ TokensDiffer(s)'
      BY <1>6
    <2> QED  BY <1>3, <1>5, <2>1, LabelsStep DEF IInv
  <1> QED  BY <1>3, <1>4, <1>7 DEF IInv

-----------------------------------------------------------------------------
(* Beginning a request on a secret: when it meets a writer of its kind the *)
(* secret counts as raced from now on.                                     *)
LEMMA BeginInvariant ==
  ASSUME IInv, NEW p \in Procs, NEW op \in AllOps, NEW s \in Nat, NEW step \in Steps,
         NEW l \in Request, Begin(p, op, s, step, l),
         NEW r \in Request, r = [l EXCEPT !.op = op, !.step = step, !.secret = s],
         op # "create",
         (s \in Ids /\ s < nextSecret) => Sound(r),
         step \in {"check", "list", "mark", "tags"},
         step = "list" => op = "destroy"
  PROVE  IInv'
  <1>1. /\ req[p].step = "idle" /\ s \in SecretIds /\ Goto(p, r)
        /\ UNCHANGED <<stored, clock, want>>
        /\ raced' = IF Busy(Kind(op), s) THEN raced \cup {<<Kind(op), s>>} ELSE raced
    BY DEF Begin
  <1>2. r.op = op /\ r.step = step /\ r.secret = s
    BY DEF Request
  <1>3. s \in Ids /\ s < nextSecret
    BY <1>1 DEF IInv, TypeOK, Numbered
  <1>4. Sound(r)
    BY <1>3
  <1>5. req[p] = Idle
    BY <1>1 DEF IInv, Sound
  <1> USE DEF stored
  <1>6. VersionIds' = VersionIds /\ SecretIds' = SecretIds /\ \A u : Of(u)' = Of(u)
    BY <1>1 DEF VersionIds, SecretIds, Of
  <1>7. \A u \in Request : Sound(u) => Sound(u)'
    BY <1>1, <1>6 DEF Sound
  <1>8. /\ req' \in [Procs -> Request] /\ \A q \in Procs : Sound(req[q])'
        /\ req'[p] = r /\ \A q \in Procs : q # p => req'[q] = req[q]
    BY <1>1, <1>4, <1>7, RequestsSound DEF IInv
  <1>9. TypeOK' /\ Numbered'
    <2>1. raced' \subseteq {"labels", "tags", "flag"} \X Ids
      <3>1. Kind(op) \in {"labels", "tags", "flag"}
        BY DEF Kind
      <3> QED  BY <1>1, <1>3, <3>1 DEF IInv, TypeOK
    <2> QED  BY <1>1, <1>6, <1>8, <2>1 DEF IInv, TypeOK, Numbered
  <1>10. \A u \in Ids : Untouched(u)
    BY <1>1, <1>6 DEF Untouched
  <1>11. LabelsSound'
    <2> SUFFICES ASSUME NEW u \in Ids, <<"labels", u>> \notin raced'
                 PROVE  /\ Of(u)' # {} => u \in SecretIds'
                        /\ \A q, v \in Procs :
                             Writer(req'[q], u) /\ Writer(req'[v], u) => q = v
                        /\ \A q \in Procs :
                             Writer(req'[q], u) => u \in SecretIds' /\ Known(req[q])'
                        /\ u \in SecretIds' /\ (\A q \in Procs : ~Writer(req'[q], u))
                             => LabelsAgree(u)' /\ TokensDiffer(u)'
      BY DEF LabelsSound, Writer
    <2>1. <<"labels", u>> \notin raced /\ Untouched(u)
      BY <1>1, <1>10
    <2>2. Of(u)' # {} => u \in SecretIds'
      BY <1>6, <2>1 DEF IInv, LabelsSound
    <2>3. ASSUME Writer(r, u) PROVE \A q \in Procs : ~Writer(req[q], u)
      <3>1. u = s /\ Kind(op) = "labels"
        BY <1>2, <2>3 DEF Writer, Kind
      <3>2. ~Busy("labels", s)
        BY <1>1, <3>1
      <3> QED  BY <3>1, <3>2 DEF Busy, Writer, Kind
    <2>4. \A q, v \in Procs : Writer(req'[q], u) /\ Writer(req'[v], u) => q = v
      BY <1>8, <2>1, <2>3 DEF IInv, LabelsSound
    <2>5. ASSUME NEW q \in Procs, Writer(req'[q], u)
          PROVE  u \in SecretIds' /\ Known(req[q])'
      <3>1. CASE q = p
        <4>1. Writer(r, u) /\ u = s /\ u \in SecretIds
          BY <1>1, <1>2, <1>8, <2>5, <3>1 DEF Writer
        <4>2. LabelsAgree(u) /\ TokensDiffer(u)
          BY <2>1, <2>3, <4>1 DEF IInv, LabelsSound
        <4>3. LabelsAgree(u)' /\ TokensDiffer(u)'
          BY <2>1, <4>2, UntouchedKeeps
        <4>4. r.op \in {"put", "destroy"} /\ r.step \in {"check", "list"}
              /\ (r.op = "put" => r.step = "check")
          BY <1>2, <1>4, <4>1 DEF Writer, Sound
        <4>5. Known(r)'
          BY <1>2, <4>1, <4>3, <4>4
          DEF Known, LabelsAgree, TokensDiffer, Of, VersionIds, TokensOf, Carrying
        <4>6. req[q]' = r
          BY <1>8, <3>1
        <4> QED  BY <1>6, <4>1, <4>5, <4>6
                 DEF Known, Moving, LabelsAgree, TokensDiffer, WithToken,
                     Of, VersionIds, TokensOf, Carrying
      <3>2. CASE q # p
        <4>1. PICK v \in Request : v = req[q] /\ v = req'[q]
          BY <1>8, <3>2 DEF IInv, TypeOK
        <4>2. Known(v) /\ v.secret = u /\ u \in SecretIds
          BY <2>1, <2>5, <4>1 DEF IInv, LabelsSound, Writer
        <4>3. Known(v)'
          BY <2>1, <4>2, UntouchedKeeps
        <4>4. req[q]' = v
          BY <4>1
        <4> QED  BY <1>6, <4>2, <4>3, <4>4
                 DEF Known, Moving, LabelsAgree, TokensDiffer, WithToken,
                     Of, VersionIds, TokensOf, Carrying
      <3> QED  BY <3>1, <3>2
    <2>6. ASSUME u \in SecretIds', \A q \in Procs : ~Writer(req'[q], u)
          PROVE  LabelsAgree(u)' /\ TokensDiffer(u)'
      <3>1. \A q \in Procs : ~Writer(req[q], u)
        BY <1>5, <1>8, <2>6, IdleWritesNone
      <3>2. LabelsAgree(u) /\ TokensDiffer(u)
        BY <1>6, <2>1, <2>6, <3>1 DEF IInv, LabelsSound
      <3> QED  BY <2>1, <3>2, UntouchedKeeps
    <2> QED  BY <2>2, <2>4, <2>5, <2>6
  <1> QED  BY <1>8, <1>9, <1>11 DEF IInv

LEMMA BeginningsInvariant ==
  ASSUME IInv, NEW p \in Procs, Handle(p)
  PROVE  IInv'
  <1>1. ASSUME NEW n \in Names, NEW t \in Tokens \cup {0}, CreateFind(p, n, t)
        PROVE  IInv'
    <2>1. PICK o \in Request : o = req[p] /\ o = Idle
      BY <1>1 DEF CreateFind, IInv, TypeOK, Sound
    <2>2. PICK r : r = [o EXCEPT !.op = "create", !.step = "secret", !.name = n,
                                 !.token = t]
      OBVIOUS
    <2>3. r \in Request
      BY <2>2 DEF Request, AllOps, Steps
    <2>4. r.op = "create" /\ r.step = "secret" /\ r.secret = 0
      BY <2>1, <2>2, IdleFacts DEF Request
    <2>5. 0 < nextSecret /\ 0 \notin Ids
      BY Naturals DEF IInv, TypeOK, Numbered
    <2>6. Sound(r) /\ \A s \in Ids : ~Writer(r, s)
      BY <2>4, <2>5 DEF Sound, Writer
    <2>7. Goto(p, r) /\ UNCHANGED <<stored, clock, want, raced>>
      BY <1>1, <2>1, <2>2 DEF CreateFind, history
    <2>8. \A s : ~Writer(o, s)
      BY <2>1, IdleWritesNone
    <2>9. SecretIds' = SecretIds /\ \A s \in SecretIds : secrets'[s] \in Secret
      BY <2>7 DEF stored, SecretIds, IInv, TypeOK
    <2> QED  BY <2>1, <2>3, <2>6, <2>7, <2>8, <2>9, QuietStep DEF stored
  <1>2. ASSUME NEW s \in Ids, NEW t \in Tokens, NEW stages \in Moves,
               PutBegin(p, s, t, stages)
        PROVE  IInv'
    <2>1. PICK l : l = [Idle EXCEPT !.token = t, !.stages = stages]
      OBVIOUS
    <2>2. l \in Request /\ l.token = t
      BY <2>1, IdleFacts, MoveAssumption DEF Request
    <2>3. PICK r : r = [l EXCEPT !.op = "put", !.step = "check", !.secret = s]
      OBVIOUS
    <2>4. r \in Request
      BY <2>2, <2>3, Naturals DEF Request, AllOps, Steps
    <2>5. r.op = "put" /\ r.step = "check" /\ r.secret = s /\ r.token = t
      BY <2>2, <2>3 DEF Request
    <2>6. s < nextSecret => Sound(r)
      BY <2>5, TokenAssumption DEF Sound
    <2> QED  BY <1>2, <2>1, <2>2, <2>3, <2>4, <2>6, Naturals, BeginInvariant
             DEF PutBegin, AllOps, Steps
  <1>3. ASSUME NEW s \in Ids, Begin(p, "delete", s, "mark", Idle)
        PROVE  IInv'
    <2>1. PICK l \in Request : l = Idle
      BY IdleFacts
    <2>2. PICK r : r = [l EXCEPT !.op = "delete", !.step = "mark", !.secret = s]
      OBVIOUS
    <2>3. r \in Request
      BY <2>2, Naturals DEF Request, AllOps, Steps
    <2>4. r.op = "delete" /\ r.step = "mark" /\ r.secret = s
      BY <2>2 DEF Request
    <2>5. s < nextSecret => Sound(r)
      BY <2>4 DEF Sound
    <2> QED  BY <1>3, <2>1, <2>2, <2>3, <2>5, Naturals, BeginInvariant
             DEF AllOps, Steps
  <1>4. ASSUME NEW s \in Ids, Begin(p, "restore", s, "mark", Idle)
        PROVE  IInv'
    <2>1. PICK l \in Request : l = Idle
      BY IdleFacts
    <2>2. PICK r : r = [l EXCEPT !.op = "restore", !.step = "mark", !.secret = s]
      OBVIOUS
    <2>3. r \in Request
      BY <2>2, Naturals DEF Request, AllOps, Steps
    <2>4. r.op = "restore" /\ r.step = "mark" /\ r.secret = s
      BY <2>2 DEF Request
    <2>5. s < nextSecret => Sound(r)
      BY <2>4 DEF Sound
    <2> QED  BY <1>4, <2>1, <2>2, <2>3, <2>5, Naturals, BeginInvariant
             DEF AllOps, Steps
  <1>5. ASSUME NEW s \in Ids, Begin(p, "destroy", s, "list", Idle)
        PROVE  IInv'
    <2>1. PICK l \in Request : l = Idle
      BY IdleFacts
    <2>2. PICK r : r = [l EXCEPT !.op = "destroy", !.step = "list", !.secret = s]
      OBVIOUS
    <2>3. r \in Request
      BY <2>2, Naturals DEF Request, AllOps, Steps
    <2>4. r.op = "destroy" /\ r.step = "list" /\ r.secret = s
      BY <2>2 DEF Request
    <2>5. s < nextSecret => Sound(r)
      BY <2>4 DEF Sound
    <2> QED  BY <1>5, <2>1, <2>2, <2>3, <2>5, Naturals, BeginInvariant
             DEF AllOps, Steps
  <1>6. ASSUME NEW s \in Ids, NEW op \in Ops, NEW keys \in SUBSET TagKeys,
               TagBegin(p, op, s, keys)
        PROVE  IInv'
    <2>1. PICK l : l = [Idle EXCEPT !.tags = secrets[s].tags, !.keys = keys]
      OBVIOUS
    <2>2. l \in Request
      <3>1. secrets[s].tags \in SUBSET TagKeys
        BY <1>6 DEF TagBegin, IInv, TypeOK, Secret
      <3> QED  BY <2>1, <3>1, IdleFacts DEF Request
    <2>3. PICK r : r = [l EXCEPT !.op = op, !.step = "tags", !.secret = s]
      OBVIOUS
    <2>4. r \in Request
      BY <2>2, <2>3, OpsAssumption, Naturals DEF Request, Steps
    <2>5. r.op = op /\ r.step = "tags" /\ r.secret = s
      BY <2>2, <2>3 DEF Request
    <2>6. s < nextSecret => Sound(r)
      BY <1>6, <2>5 DEF Sound, TagBegin
    <2> QED  BY <1>6, <2>1, <2>2, <2>3, <2>4, <2>6, OpsAssumption, Naturals,
                BeginInvariant
             DEF TagBegin, Steps
  <1> QED
    BY <1>1, <1>2, <1>3, <1>4, <1>5, <1>6 DEF Handle, DeleteBegin, RestoreBegin, ForceBegin

-----------------------------------------------------------------------------
(* The steps that change no version and no label.                          *)

LEMMA IdleSound == ASSUME IInv PROVE Sound(Idle)
  <1>1. 0 < nextSecret
    BY DEF IInv, TypeOK, Numbered
  <1> QED  BY <1>1, IdleFacts DEF Sound

LEMMA LocalsInvariant ==
  ASSUME IInv, NEW p \in Procs,
         PutCheck(p) \/ ListVersions(p) \/ Mark(p) \/ TagApply(p)
  PROVE  IInv'
  <1>1. PICK o \in Request : o = req[p] /\ Sound(o)
    BY DEF IInv, TypeOK
  <1>2. PICK idle \in Request : idle = Idle /\ Sound(idle) /\ \A s : ~Writer(idle, s)
    BY IdleFacts, IdleSound, IdleWritesNone
  <1>3. CASE PutCheck(p)
    <2>1. /\ o.step = "check" /\ o.op = "put" /\ o.secret \in Ids /\ o.token # 0
          /\ UNCHANGED <<stored, clock, want, raced>>
      BY <1>1, <1>3 DEF PutCheck, Sound, history
    <2>2. SecretIds' = SecretIds /\ \A s \in SecretIds : secrets'[s] \in Secret
      BY <2>1 DEF stored, SecretIds, IInv, TypeOK
    <2>3. CASE WithToken(o.secret, o.token) # {}
      <3>1. Goto(p, idle)
        BY <1>1, <1>2, <1>3, <2>3 DEF PutCheck, findVersionByID
      <3>2. \A s \in Ids : Writer(o, s) /\ Known(o) => LabelsAgree(s) /\ TokensDiffer(s)
        BY <2>1 DEF Writer, Known
      <3> QED  BY <1>1, <1>2, <2>1, <2>2, <3>1, <3>2, QuietStep DEF stored
    <2>4. CASE WithToken(o.secret, o.token) = {}
      <3>1. PICK r : r = [o EXCEPT !.step = "version", !.now = clock]
        OBVIOUS
      <3>2. r \in Request
        BY <3>1 DEF Request, Steps, IInv, TypeOK
      <3>3. /\ r.step = "version" /\ r.op = o.op /\ r.secret = o.secret
            /\ r.token = o.token
        BY <3>1 DEF Request
      <3>4. Goto(p, r)
        BY <1>1, <1>3, <2>4, <3>1 DEF PutCheck, findVersionByID
      <3>5. Sound(r)
        BY <1>1, <2>1, <3>3 DEF Sound
      <3>6. \A s \in Ids : Writer(r, s) <=> Writer(o, s)
        BY <3>3 DEF Writer
      <3>7. Known(o) => Known(r)
        BY <2>1, <2>4, <3>3 DEF Known
      <3> QED  BY <1>1, <2>1, <2>2, <3>2, <3>4, <3>5, <3>6, <3>7, QuietStep DEF stored
    <2> QED  BY <2>3, <2>4
  <1>4. CASE ListVersions(p)
    <2>1. /\ o.step = "list" /\ o.op \in {"put", "destroy"} /\ o.secret \in Ids
          /\ o.op = "put" => o.token # 0
          /\ UNCHANGED <<stored, clock, want, raced>>
      BY <1>1, <1>4 DEF ListVersions, Sound, history
    <2>2. SecretIds' = SecretIds /\ \A s \in SecretIds : secrets'[s] \in Secret
      BY <2>1 DEF stored, SecretIds, IInv, TypeOK
    <2>3. /\ Of(o.secret) \subseteq VIds /\ Of(o.secret) \subseteq VersionIds
          /\ \A v \in Of(o.secret) : versions[v] \in Version
      BY DEF Of, IInv, TypeOK
    <2>4. PICK listed \in [VIds -> Version \cup {Blank}] :
            listed = [v \in VIds |-> IF v \in Of(o.secret) THEN versions[v] ELSE Blank]
      BY <2>3
    <2>5. \A v \in Of(o.secret) : listed[v] = versions[v]
      BY <2>3, <2>4
    <2>6. PICK step \in {"move", "drop"} :
            step = IF o.op = "put" THEN "move" ELSE "drop"
      OBVIOUS
    <2>7. PICK r : r = [o EXCEPT !.step = step, !.listed = listed,
                                 !.todo = Of(o.secret)]
      OBVIOUS
    <2>8. r \in Request
      BY <2>3, <2>7 DEF Request, Steps
    <2>9. /\ r.step = step /\ r.op = o.op /\ r.secret = o.secret
          /\ r.token = o.token /\ r.todo = Of(o.secret) /\ r.listed = listed
      BY <2>7 DEF Request
    <2>10. Goto(p, r)
      BY <1>1, <1>4, <2>4, <2>6, <2>7 DEF ListVersions, secretVersions
    <2>11. Sound(r)
      <3>1. \A v \in Of(o.secret) : v < nextVersion /\ versions[v].secret = o.secret
        BY DEF Of, IInv, Numbered
      <3> QED  BY <1>1, <2>1, <2>6, <2>9, <3>1 DEF Sound
    <2>12. \A s \in Ids : Writer(r, s) <=> Writer(o, s)
      BY <2>9 DEF Writer
    <2>13. ASSUME Known(o), o.op = "put" PROVE Moving(r, o.secret)
      <3>1. /\ WithToken(o.secret, o.token) # {}
            /\ \A v \in WithToken(o.secret, o.token) : versions[v].stages = {}
            /\ LabelsAgree(o.secret)
        BY <2>1, <2>13 DEF Known
      <3>2. \A v \in Of(o.secret) : versions[v].token = r.token
              => v \in WithToken(o.secret, o.token)
        BY <2>9 DEF WithToken
      <3>3. ASSUME NEW l \in Labels
            PROVE  TokensOf({v \in Of(o.secret) : l \in r.listed[v].stages})
                     = want[o.secret][l]
        <4>1. {v \in Of(o.secret) : l \in r.listed[v].stages} = Carrying(o.secret, l)
          BY <2>5, <2>9 DEF Carrying
        <4> QED  BY <3>1, <4>1 DEF LabelsAgree
      <3>4. \A v \in Of(o.secret) :
              /\ r.listed[v].token = versions[v].token
              /\ versions[v].token = r.token => r.listed[v].stages = {}
              /\ v \in r.todo /\ versions[v].stages = r.listed[v].stages
        BY <2>5, <2>9, <3>1, <3>2
      <3> QED  BY <2>9, <3>1, <3>3, <3>4 DEF Moving
    <2>14. Known(o) => Known(r)
      BY <2>1, <2>6, <2>9, <2>13 DEF Known
    <2> QED
      BY <1>1, <2>1, <2>2, <2>8, <2>10, <2>11, <2>12, <2>14, QuietStep DEF stored
  <1>5. CASE Mark(p) \/ TagApply(p)
    <2>1. /\ o.op \in {"delete", "restore", "tag", "untag"} /\ Goto(p, idle)
          /\ UNCHANGED <<versions, nextSecret, nextVersion, clock, want, raced>>
      BY <1>1, <1>2, <1>5 DEF Mark, TagApply, Sound, Finish, history
    <2>2. PICK s \in Nat : s = o.secret
      BY DEF Request
    <2>3. SecretIds' = SecretIds /\ \A i \in SecretIds : secrets'[i] \in Secret
      <3>1. \A i \in SecretIds : secrets[i] \in Secret
        BY DEF IInv, TypeOK
      <3>2. CASE Mark(p)
        <4>1. PICK b \in BOOLEAN : b = (o.op = "delete")
          OBVIOUS
        <4>2. secrets' = IF s \in SecretIds THEN [secrets EXCEPT ![s].deleted = b]
                         ELSE secrets
          BY <1>1, <2>2, <3>2, <4>1 DEF Mark
        <4> QED  BY <3>1, <4>2 DEF SecretIds, Secret
      <3>3. CASE TagApply(p)
        <4>1. PICK tags \in SUBSET TagKeys : tags = mergeTags(o.tags, o)
          BY DEF mergeTags, Request
        <4>2. secrets' = IF s \in SecretIds THEN [secrets EXCEPT ![s].tags = tags]
                         ELSE secrets
          BY <1>1, <2>2, <3>3, <4>1 DEF TagApply
        <4> QED  BY <3>1, <4>2 DEF SecretIds, Secret
      <3> QED  BY <1>5, <3>2, <3>3
    <2>4. \A s1 \in Ids : ~Writer(o, s1)
      BY <2>1 DEF Writer
    <2> QED  BY <1>1, <1>2, <2>1, <2>3, <2>4, QuietStep
  <1> QED  BY <1>3, <1>4, <1>5

-----------------------------------------------------------------------------
(* The steps that insert.                                                  *)

LEMMA CreateInsertInvariant ==
  ASSUME IInv, NEW p \in Procs, NEW tags \in SUBSET TagKeys, CreateInsert(p, tags)
  PROVE  IInv'
  <1>1. PICK o \in Request : o = req[p] /\ Sound(o)
    BY DEF IInv, TypeOK
  <1>2. o.step = "secret" /\ o.op = "create" /\ o.secret = 0
    BY <1>1 DEF CreateInsert, At, Sound
  <1>3. PICK s \in Nat : s = nextSecret /\ s # 0
    BY DEF IInv, TypeOK, Numbered
  <1>4. /\ s <= MaxSecrets /\ s \in Ids
        /\ secrets' = With(secrets, s, [name |-> o.name, deleted |-> FALSE, tags |-> tags])
        /\ nextSecret' = s + 1
        /\ UNCHANGED <<versions, nextVersion, clock, want, raced>>
    <2>1. s <= MaxSecrets
      BY <1>3 DEF CreateInsert
    <2>2. s \in Ids
      BY <1>3, <2>1, Naturals DEF Ids
    <2> QED  BY <1>1, <1>3, <2>1, <2>2 DEF CreateInsert, history
  <1>5. PICK r \in Request :
          /\ Goto(p, r)
          /\ \/ r = Idle /\ o.token = 0
             \/ /\ r.step = "version" /\ r.op = "create" /\ r.secret = s
                /\ r.token = o.token /\ r.token # 0 /\ r.stages = {"AWSCURRENT"}
    <2>1. CASE o.token = 0
      BY <1>1, <2>1, IdleFacts DEF CreateInsert, HasPayload
    <2>2. CASE o.token # 0
      <3>1. PICK r : r = [o EXCEPT !.step = "version", !.secret = s,
                                   !.stages = {"AWSCURRENT"}, !.now = clock]
        OBVIOUS
      <3>2. r \in Request
        BY <3>1 DEF Request, Steps, Labels, IInv, TypeOK
      <3>3. /\ r.step = "version" /\ r.op = "create" /\ r.secret = s
            /\ r.token = o.token /\ r.stages = {"AWSCURRENT"}
        BY <1>2, <3>1 DEF Request
      <3>4. Goto(p, r)
        BY <1>1, <1>3, <2>2, <3>1 DEF CreateInsert, HasPayload
      <3> QED  BY <2>2, <3>2, <3>3, <3>4
    <2> QED  BY <2>1, <2>2
  <1>6. /\ SecretIds' = SecretIds \cup {s} /\ VersionIds' = VersionIds
        /\ \A i \in SecretIds' : secrets'[i] \in Secret
        /\ \A u : Of(u)' = Of(u)
    <2>1. [name |-> o.name, deleted |-> FALSE, tags |-> tags] \in Secret
      BY DEF Request, Secret
    <2>2. \A i \in SecretIds : secrets[i] \in Secret
      BY DEF IInv, TypeOK
    <2> QED  BY <1>4, <2>1, <2>2 DEF With, SecretIds, VersionIds, Of
  <1>7. Sound(r)'
    <2>1. r.secret < nextSecret'
      BY <1>3, <1>4, <1>5, IdleFacts
    <2>2. CASE r = Idle
      BY <2>1, <2>2, IdleFacts DEF Sound
    <2>3. CASE r # Idle
      BY <1>4, <1>5, <2>1, <2>3 DEF Sound
    <2> QED  BY <2>2, <2>3
  <1>8. \A u \in Request : Sound(u) => Sound(u)'
    <2>1. /\ nextSecret' \in Nat /\ nextSecret' >= nextSecret
          /\ nextVersion' \in Nat /\ nextVersion' >= nextVersion
      BY <1>3, <1>4 DEF IInv, TypeOK
    <2>2. \A v \in VersionIds' : v \in VersionIds /\ versions'[v].secret = versions[v].secret
      BY <1>4, <1>6
    <2> QED  BY <2>1, <2>2, SoundKept DEF IInv
  <1>9. /\ req' \in [Procs -> Request] /\ \A q \in Procs : Sound(req[q])'
        /\ req'[p] = r /\ \A q \in Procs : q # p => req'[q] = req[q]
    BY <1>5, <1>7, <1>8, RequestsSound DEF IInv
  <1>10. TypeOK'
    <2>1. nextSecret' \in Nat /\ SecretIds' \subseteq Ids
      BY <1>3, <1>4, <1>6 DEF IInv, TypeOK
    <2> QED  BY <1>4, <1>6, <1>9, <2>1 DEF IInv, TypeOK
  <1>11. Numbered'
    <2>1. \A u \in SecretIds' : u < nextSecret'
      <3>1. \A u \in SecretIds : u \in Nat /\ u < s
        BY <1>3, Naturals DEF IInv, TypeOK, Numbered
      <3> QED  BY <1>3, <1>4, <1>6, <3>1
    <2>2. \A v \in VersionIds : versions[v].secret < nextSecret'
      <3>1. \A v \in VersionIds : versions[v].secret \in Nat /\ versions[v].secret < s
        BY <1>3, Naturals DEF IInv, TypeOK, Numbered, Version
      <3> QED  BY <1>3, <1>4, <3>1
    <2>3. \A u \in Ids : u >= nextSecret' => want[u] = Unlabelled
      <3>1. \A u \in Ids : u \in Nat /\ (u >= s => want[u] = Unlabelled)
        BY <1>3, Naturals DEF IInv, Numbered
      <3> QED  BY <1>3, <1>4, <3>1
    <2>4. nextSecret' # 0
      BY <1>3, <1>4
    <2> QED  BY <1>4, <1>6, <2>1, <2>2, <2>3, <2>4 DEF IInv, Numbered, Unlabelled
  (* The new secret has no version, no label and no other writer.          *)
  <1>12. /\ Of(s) = {} /\ want[s] = Unlabelled /\ s \notin SecretIds
         /\ \A q \in Procs : ~Writer(req[q], s)
    <2>1. \A v \in VersionIds : versions[v].secret # s
      BY <1>3, Naturals DEF IInv, TypeOK, Numbered, Version
    <2>2. s \notin SecretIds
      BY <1>3 DEF IInv, Numbered
    <2>3. \A q \in Procs : req[q].secret # s
      BY <1>3 DEF IInv, Sound
    <2>4. s >= nextSecret
      BY <1>3
    <2> QED  BY <1>4, <2>1, <2>2, <2>3, <2>4 DEF Of, Writer, IInv, Numbered
  <1>13. \A u \in Ids : u # s => Untouched(u)
    BY <1>4, <1>6 DEF Untouched
  <1>14. LabelsAgree(s)' /\ TokensDiffer(s)' /\ Of(s)' = {}
    <2>1. Of(s)' = {}
      BY <1>6, <1>12
    <2>2. \A l : TokensOf(Carrying(s, l))' = {}
      BY <2>1 DEF Carrying, TokensOf
    <2>3. \A l \in Labels : want'[s][l] = {}
      BY <1>4, <1>12 DEF Unlabelled
    <2> QED  BY <2>1, <2>2, <2>3 DEF LabelsAgree, TokensDiffer
  <1>15. LabelsSound'
    <2> SUFFICES ASSUME NEW u \in Ids, <<"labels", u>> \notin raced
                 PROVE  /\ Of(u)' # {} => u \in SecretIds'
                        /\ \A q, v \in Procs :
                             Writer(req'[q], u) /\ Writer(req'[v], u) => q = v
                        /\ \A q \in Procs :
                             Writer(req'[q], u) => u \in SecretIds' /\ Known(req[q])'
                        /\ u \in SecretIds' /\ (\A q \in Procs : ~Writer(req'[q], u))
                             => LabelsAgree(u)' /\ TokensDiffer(u)'
      BY <1>4 DEF LabelsSound, Writer
    <2>1. CASE u = s
      <3>1. \A q \in Procs : Writer(req'[q], u) => q = p
        BY <1>9, <1>12, <2>1
      <3>2. ASSUME NEW q \in Procs, Writer(req'[q], u) PROVE Known(req[q])'
        <4>1. q = p /\ Writer(r, s)
          BY <1>9, <2>1, <3>1, <3>2
        <4>2. r.step = "version" /\ r.op = "create" /\ r.secret = s
          BY <1>5, <4>1, IdleWritesNone
        <4>3. Known(r)'
          BY <1>14, <4>2 DEF Known
        <4>4. req[q]' = r
          BY <1>9, <4>1
        <4> QED  BY <1>14, <4>2, <4>3, <4>4 DEF Known
      <3> QED  BY <1>6, <1>14, <2>1, <3>1, <3>2
    <2>2. CASE u # s
      <3>1. Untouched(u)
        BY <1>13, <2>2
      <3>2. ~Writer(o, u) /\ ~Writer(r, u)
        BY <1>2, <1>5, <2>2, Naturals, IdleWritesNone DEF Writer
      <3>3. \A q \in Procs : Writer(req'[q], u) <=> Writer(req[q], u)
        BY <1>1, <1>9, <3>2
      <3>4. ASSUME NEW q \in Procs, Writer(req'[q], u)
            PROVE  u \in SecretIds' /\ Known(req[q])'
        <4>1. PICK v \in Request : v = req[q] /\ v = req'[q]
          BY <1>9, <3>2, <3>4 DEF IInv, TypeOK
        <4>2. Known(v) /\ v.secret = u /\ u \in SecretIds
          BY <3>4, <4>1 DEF IInv, LabelsSound, Writer
        <4>3. Known(v)'
          BY <3>1, <4>2, UntouchedKeeps
        <4>4. req[q]' = v
          BY <4>1
        <4> QED  BY <1>6, <4>2, <4>3, <4>4
                 DEF Known, Moving, LabelsAgree, TokensDiffer, WithToken,
                     Of, VersionIds, TokensOf, Carrying
      <3>5. \A q, v \in Procs : Writer(req'[q], u) /\ Writer(req'[v], u) => q = v
        BY <3>3 DEF IInv, LabelsSound
      <3>6. Of(u)' # {} => u \in SecretIds'
        BY <3>1 DEF Untouched, IInv, LabelsSound
      <3>7. ASSUME u \in SecretIds', \A q \in Procs : ~Writer(req'[q], u)
            PROVE  LabelsAgree(u)' /\ TokensDiffer(u)'
        <4>1. LabelsAgree(u) /\ TokensDiffer(u)
          BY <3>1, <3>3, <3>7 DEF Untouched, IInv, LabelsSound
        <4> QED  BY <3>1, <4>1, UntouchedKeeps
      <3> QED  BY <3>4, <3>5, <3>6, <3>7
    <2> QED  BY <2>1, <2>2
  <1> QED  BY <1>9, <1>10, <1>11, <1>15 DEF IInv

LEMMA InsertVersionInvariant ==
  ASSUME IInv, NEW p \in Procs, insertVersion(p)
  PROVE  IInv'
  <1>1. PICK o \in Request : o = req[p] /\ Sound(o)
    BY DEF IInv, TypeOK
  <1>2. PICK s \in Ids : s = o.secret /\ s \in Nat
    BY <1>1, Naturals DEF insertVersion, Sound
  <1>3. /\ o.step = "version" /\ o.op \in {"create", "put"}
        /\ o.token # 0 /\ o.token \in Tokens
        /\ o.op = "create" => o.stages = {"AWSCURRENT"}
    BY <1>1 DEF insertVersion, Sound, Request
  <1>4. PICK v \in Nat : v = nextVersion /\ v # 0
    BY DEF IInv, TypeOK, Numbered
  <1>5. PICK stages \in SUBSET Labels :
          stages = IF o.op = "create" THEN {"AWSCURRENT"} ELSE {}
    BY DEF Labels
  <1>6. PICK rec : rec = [secret |-> s, token |-> o.token, created |-> o.now,
                          stages |-> stages]
    OBVIOUS
  <1>7. /\ rec \in Version /\ rec.secret = s /\ rec.token = o.token
        /\ rec.stages = stages
    BY <1>3, <1>6 DEF Version, Request
  <1>8. /\ v \in VIds /\ versions' = With(versions, v, rec) /\ nextVersion' = v + 1
        /\ UNCHANGED <<secrets, nextSecret, clock, raced>>
    <2>1. v \in VIds
      BY <1>4, Naturals DEF insertVersion, VIds
    <2>2. versions' = With(versions, v, rec)
      BY <1>1, <1>2, <1>3, <1>4, <1>5, <1>6 DEF insertVersion
    <2> QED  BY <1>4, <2>1, <2>2 DEF insertVersion
  <1>9. PICK r \in Request :
          /\ Goto(p, r)
          /\ \/ r = Idle /\ o.op = "create"
             \/ /\ o.op = "put" /\ r.op = "put" /\ r.step = "list" /\ r.secret = s
                /\ r.token = o.token
    <2>1. CASE o.op = "create"
      BY <1>1, <2>1, IdleFacts DEF insertVersion, Finish
    <2>2. CASE o.op = "put"
      <3>1. PICK r : r = [o EXCEPT !.step = "list"]
        OBVIOUS
      <3>2. r \in Request
        BY <3>1 DEF Request, Steps
      <3>3. /\ r.step = "list" /\ r.op = o.op /\ r.secret = s /\ r.token = o.token
        BY <1>2, <3>1 DEF Request
      <3>4. Goto(p, r)
        BY <1>1, <2>2, <3>1 DEF insertVersion
      <3> QED  BY <2>2, <3>2, <3>3, <3>4
    <2> QED  BY <1>3, <2>1, <2>2
  <1>10. /\ o.op = "create" => want' = [want EXCEPT ![s] =
                                 [Unlabelled EXCEPT !["AWSCURRENT"] = {o.token}]]
         /\ o.op = "put" => want' = want
    BY <1>1, <1>2 DEF insertVersion
  <1>11. v \notin VersionIds
    BY <1>4 DEF IInv, Numbered
  <1>12. /\ SecretIds' = SecretIds /\ VersionIds' = VersionIds \cup {v}
         /\ versions'[v] = rec
         /\ \A w \in VersionIds : versions'[w] = versions[w]
    BY <1>8, <1>11 DEF With, SecretIds, VersionIds
  <1>13. Of(s)' = Of(s) \cup {v} /\ \A u : u # s => Of(u)' = Of(u)
    BY <1>7, <1>11, <1>12 DEF Of
  <1>14. Sound(r)'
    <2>1. r.secret < nextSecret'
      BY <1>1, <1>2, <1>8, <1>9, IdleFacts, IdleSound DEF Sound
    <2> QED  BY <1>3, <1>9, <2>1, IdleFacts DEF Sound
  <1>15. \A u \in Request : Sound(u) => Sound(u)'
    <2>1. /\ nextSecret' \in Nat /\ nextSecret' >= nextSecret
          /\ nextVersion' \in Nat /\ nextVersion' >= nextVersion
      BY <1>4, <1>8 DEF IInv, TypeOK
    <2>2. \A w \in VersionIds' : \/ w \in VersionIds /\ versions'[w].secret = versions[w].secret
                                 \/ w >= nextVersion
      BY <1>4, <1>12
    <2> QED  BY <2>1, <2>2, SoundKept DEF IInv
  <1>16. /\ req' \in [Procs -> Request] /\ \A q \in Procs : Sound(req[q])'
         /\ req'[p] = r /\ \A q \in Procs : q # p => req'[q] = req[q]
    BY <1>9, <1>14, <1>15, RequestsSound DEF IInv
  <1>17. TypeOK'
    <2>1. want' \in [Ids -> [Labels -> SUBSET Tokens]]
      <3>1. "AWSCURRENT" \in Labels /\ {o.token} \in SUBSET Tokens
        BY <1>3 DEF Labels
      <3>2. [Unlabelled EXCEPT !["AWSCURRENT"] = {o.token}] \in [Labels -> SUBSET Tokens]
        BY <3>1 DEF Unlabelled
      <3> QED  BY <1>3, <1>10, <3>2 DEF IInv, TypeOK
    <2>2. \A w \in VersionIds' : w \in VIds /\ versions'[w] \in Version
      BY <1>7, <1>8, <1>12 DEF IInv, TypeOK
    <2>3. nextVersion' \in Nat
      BY <1>8
    <2> QED  BY <1>8, <1>12, <1>16, <2>1, <2>2, <2>3 DEF IInv, TypeOK
  <1>18. s < nextSecret /\ nextSecret \in Nat
    BY <1>1, <1>2 DEF Sound, IInv, TypeOK
  <1>19. Numbered'
    <2>1. \A w \in VersionIds' : w < nextVersion' /\ versions'[w].secret < nextSecret
      <3>1. \A w \in VersionIds : w \in Nat /\ w < v /\ versions[w].secret < nextSecret
        BY <1>4, Naturals DEF IInv, TypeOK, Numbered
      <3> QED  BY <1>4, <1>7, <1>8, <1>12, <1>18, <3>1
    <2>2. \A u \in Ids : u >= nextSecret => u # s
      BY <1>18, Naturals
    <2>3. \A u \in Ids : u # s => want'[u] = want[u]
      BY <1>3, <1>10 DEF IInv, TypeOK
    <2>4. nextVersion' # 0
      BY <1>4, <1>8
    <2> QED  BY <1>8, <1>12, <2>1, <2>2, <2>3, <2>4 DEF IInv, Numbered, Unlabelled
  <1>20. \A u \in Ids : u # s => Untouched(u)
    BY <1>3, <1>10, <1>12, <1>13 DEF Untouched, IInv, TypeOK, Of
  (* The secret itself: a first version with AWSCURRENT, or a new version  *)
  (* without labels.                                                       *)
  <1>21. ASSUME o.op = "create", Known(o)
         PROVE  LabelsAgree(s)' /\ TokensDiffer(s)'
    <2>1. Of(s)' = {v}
      BY <1>2, <1>13, <1>21 DEF Known
    <2>2. TokensDiffer(s)'
      BY <2>1 DEF TokensDiffer
    <2>3. ASSUME NEW l \in Labels PROVE TokensOf(Carrying(s, l))' = want'[s][l]
      <3>1. Carrying(s, l)' = IF l = "AWSCURRENT" THEN {v} ELSE {}
        BY <1>5, <1>7, <1>12, <1>21, <2>1 DEF Carrying
      <3>2. want'[s][l] = IF l = "AWSCURRENT" THEN {o.token} ELSE {}
        BY <1>10, <1>21 DEF IInv, TypeOK, Unlabelled
      <3> QED  BY <1>7, <1>12, <3>1, <3>2 DEF TokensOf
    <2> QED  BY <2>2, <2>3 DEF LabelsAgree
  <1>22. ASSUME o.op = "put", Known(o) PROVE Known(r)'
    <2>1. /\ TokensDiffer(s) /\ LabelsAgree(s) /\ WithToken(s, o.token) = {}
      BY <1>2, <1>3, <1>22 DEF Known
    <2>2. \A w \in Of(s) : versions[w].token # o.token /\ versions'[w] = versions[w]
      BY <1>12, <2>1 DEF WithToken, Of
    <2>3. TokensDiffer(s)'
      BY <1>7, <1>12, <1>13, <2>1, <2>2 DEF TokensDiffer
    <2>4. LabelsAgree(s)'
      <3>1. ASSUME NEW l \in Labels
            PROVE  TokensOf(Carrying(s, l))' = TokensOf(Carrying(s, l))
        <4>1. Carrying(s, l)' = Carrying(s, l)
          BY <1>5, <1>7, <1>12, <1>13, <1>22, <2>2 DEF Carrying
        <4>2. \A w \in Carrying(s, l) : versions'[w] = versions[w]
          BY <2>2 DEF Carrying
        <4> QED  BY <4>1, <4>2 DEF TokensOf
      <3> QED  BY <1>10, <1>22, <2>1, <3>1 DEF LabelsAgree
    <2>5. WithToken(s, o.token)' = {v} /\ versions'[v].stages = {}
      BY <1>5, <1>7, <1>12, <1>13, <1>22, <2>2 DEF WithToken
    <2> QED  BY <1>9, <1>22, <2>3, <2>4, <2>5 DEF Known
  <1>23. LabelsSound'
    <2>1. \A u : Writer(o, u) <=> u = s
      BY <1>2, <1>3 DEF Writer
    <2>2. \A u : Writer(r, u) <=> u = s /\ o.op = "put"
      BY <1>9, IdleWritesNone DEF Writer
    <2>3. \A u \in Ids : ~Writer(o, u) => Untouched(u)
      BY <1>20, <2>1
    <2>4. \A u \in Ids :
            Writer(o, u) /\ u \in SecretIds /\ Known(o) =>
              /\ Of(u)' # {} => u \in SecretIds'
              /\ Writer(r, u) => u \in SecretIds' /\ Known(r)'
              /\ ~Writer(r, u) /\ u \in SecretIds'
                   => LabelsAgree(u)' /\ TokensDiffer(u)'
      BY <1>3, <1>12, <1>21, <1>22, <2>1, <2>2
    <2> QED  BY <1>1, <1>8, <1>16, <2>1, <2>2, <2>3, <2>4, LabelsStep DEF IInv
  <1> QED  BY <1>16, <1>17, <1>19, <1>23 DEF IInv

-----------------------------------------------------------------------------
(* The steps that move labels and delete.                                  *)

LEMMA MoveOneInvariant ==
  ASSUME IInv, NEW p \in Procs, MoveOne(p)
  PROVE  IInv'
  <1>1. PICK o \in Request : o = req[p] /\ Sound(o)
    BY DEF IInv, TypeOK
  <1>2. PICK s \in Ids : s = o.secret /\ s \in Nat
    BY <1>1, Naturals DEF MoveOne, Sound
  <1>3. o.step = "move" /\ o.op = "put" /\ o.todo # {}
    BY <1>1 DEF MoveOne, Sound
  <1>4. PICK v \in o.todo : v = First(p)
    BY <1>1, <1>3, FirstIsToVisit DEF IInv
  <1>5. v \in VIds /\ (v \in VersionIds => versions[v].secret = s)
    BY <1>1, <1>2, <1>3 DEF Sound, Request
  <1>6. PICK stages \in SUBSET Labels : stages = moved(o.listed[v], o)
    <2>1. o.listed[v] \in Version \cup {Blank}
      BY <1>5 DEF Request
    <2>2. o.listed[v].stages \subseteq Labels /\ o.stages \subseteq Labels
      BY <2>1 DEF Version, Blank, Request
    <2>3. "AWSPREVIOUS" \in Labels
      BY DEF Labels
    <2> QED  BY <2>2, <2>3 DEF moved
  <1>7. /\ versions' = IF v \in VersionIds THEN [versions EXCEPT ![v].stages = stages]
                       ELSE versions
        /\ UNCHANGED <<secrets, nextSecret, nextVersion, clock, want, raced>>
    BY <1>1, <1>4, <1>6 DEF MoveOne, history
  <1>8. PICK r : r = [o EXCEPT !.todo = o.todo \ {v}]
    OBVIOUS
  <1>9. r \in Request
    BY <1>8 DEF Request
  <1>10. /\ r.step = "move" /\ r.op = "put" /\ r.secret = s /\ r.token = o.token
         /\ r.todo = o.todo \ {v} /\ r.listed = o.listed /\ r.stages = o.stages
    BY <1>2, <1>3, <1>8 DEF Request
  <1>11. Goto(p, r)
    BY <1>1, <1>4, <1>8 DEF MoveOne
  <1>12. /\ VersionIds' = VersionIds /\ SecretIds' = SecretIds
         /\ \A w \in VersionIds :
              /\ versions'[w] \in Version
              /\ versions'[w].secret = versions[w].secret
              /\ versions'[w].token = versions[w].token
              /\ w # v => versions'[w] = versions[w]
              /\ w = v => versions'[w].stages = stages
    <2>1. \A w \in VersionIds : versions[w] \in Version
      BY DEF IInv, TypeOK
    <2>2. VersionIds' = VersionIds /\ SecretIds' = SecretIds
      BY <1>7 DEF VersionIds, SecretIds
    <2>3. \A w \in VersionIds : w # v => versions'[w] = versions[w]
      BY <1>7 DEF VersionIds
    <2>4. ASSUME v \in VersionIds
          PROVE  /\ versions'[v] \in Version
                 /\ versions'[v].secret = versions[v].secret
                 /\ versions'[v].token = versions[v].token
                 /\ versions'[v].stages = stages
      <3>1. versions'[v] = [versions[v] EXCEPT !.stages = stages]
        BY <1>7, <2>4 DEF VersionIds
      <3> QED  BY <2>1, <2>4, <3>1 DEF Version
    <2> QED  BY <2>1, <2>2, <2>3, <2>4
  <1>13. \A u : Of(u)' = Of(u)
    BY <1>12 DEF Of
  <1>14. \A u \in Request : Sound(u) => Sound(u)'
    <2>1. /\ nextSecret' \in Nat /\ nextSecret' >= nextSecret
          /\ nextVersion' \in Nat /\ nextVersion' >= nextVersion
      BY <1>7 DEF IInv, TypeOK
    <2> QED  BY <1>12, <2>1, SoundKept DEF IInv
  <1>15. Sound(r)
    BY <1>1, <1>2, <1>3, <1>10 DEF Sound
  <1>16. /\ req' \in [Procs -> Request] /\ \A q \in Procs : Sound(req[q])'
         /\ req'[p] = r /\ \A q \in Procs : q # p => req'[q] = req[q]
    BY <1>9, <1>11, <1>14, <1>15, RequestsSound DEF IInv
  <1>17. TypeOK' /\ Numbered'
    BY <1>7, <1>12, <1>16 DEF IInv, TypeOK, Numbered
  <1>18. \A u \in Ids : u # s => Untouched(u)
    BY <1>5, <1>7, <1>12, <1>13 DEF Untouched, Of
  <1>19. ASSUME Known(o) PROVE Known(r)'
    <2>1. TokensDiffer(s) /\ Moving(o, s)
      BY <1>2, <1>3, <1>19 DEF Known
    <2>2. TokensDiffer(s)'
      BY <1>12, <1>13, <2>1 DEF TokensDiffer, Of
    <2>3. WithToken(s, r.token)' # {}
      BY <1>10, <1>12, <1>13, <2>1 DEF Moving, WithToken, Of
    <2>4. \A x : moved(x, r) = moved(x, o)
      BY <1>10 DEF moved
    <2>5. v \in Of(s) /\ v \in VersionIds
      BY <2>1 DEF Moving, Of
    <2>6. ASSUME NEW w \in Of(s)
          PROVE  /\ r.listed[w].token = versions'[w].token
                 /\ versions'[w].token = r.token => r.listed[w].stages = {}
                 /\ versions'[w].stages = IF w \in r.todo THEN r.listed[w].stages
                                          ELSE moved(r.listed[w], r)
      <3>1. w \in VersionIds
        BY DEF Of
      <3>2. /\ o.listed[w].token = versions[w].token
            /\ versions[w].token = o.token => o.listed[w].stages = {}
            /\ versions[w].stages = IF w \in o.todo THEN o.listed[w].stages
                                    ELSE moved(o.listed[w], o)
        BY <2>1 DEF Moving
      <3>3. CASE w = v
        BY <1>6, <1>10, <1>12, <2>4, <3>1, <3>2, <3>3
      <3>4. CASE w # v
        BY <1>10, <1>12, <2>4, <3>1, <3>2, <3>4
      <3> QED  BY <3>3, <3>4
    <2>7. ASSUME NEW l \in Labels
          PROVE  TokensOf({w \in Of(s) : l \in r.listed[w].stages})' = want'[s][l]
      <3>1. {w \in Of(s) : l \in r.listed[w].stages}'
              = {w \in Of(s) : l \in o.listed[w].stages}
        BY <1>10, <1>13
      <3>2. \A w \in Of(s) : versions'[w].token = versions[w].token
        BY <1>12 DEF Of
      <3>3. TokensOf({w \in Of(s) : l \in o.listed[w].stages}) = want[s][l]
        BY <2>1 DEF Moving
      <3> QED  BY <1>7, <3>1, <3>2, <3>3 DEF TokensOf
    <2>8. Moving(r, s)'
      BY <1>10, <1>13, <2>1, <2>3, <2>6, <2>7 DEF Moving
    <2> QED  BY <1>10, <2>2, <2>8 DEF Known
  <1>20. LabelsSound'
    <2>1. \A u : Writer(o, u) <=> u = s
      BY <1>2, <1>3 DEF Writer
    <2>2. \A u : Writer(r, u) <=> u = s
      BY <1>10 DEF Writer
    <2>3. \A u \in Ids :
            Writer(o, u) /\ u \in SecretIds /\ Known(o) =>
              /\ Of(u)' # {} => u \in SecretIds'
              /\ Writer(r, u) => u \in SecretIds' /\ Known(r)'
              /\ ~Writer(r, u) /\ u \in SecretIds'
                   => LabelsAgree(u)' /\ TokensDiffer(u)'
      BY <1>12, <1>19, <2>1, <2>2
    <2>4. raced' = raced
      BY <1>7
    <2>5. \A u \in Ids : ~Writer(o, u) => Untouched(u)
      BY <1>18, <2>1
    <2> QED  BY <1>1, <1>9, <1>16, <2>1, <2>2, <2>3, <2>4, <2>5, LabelsStep DEF IInv
  <1> QED  BY <1>16, <1>17, <1>20 DEF IInv

(* When every version was visited the labels are where the move put them.  *)
LEMMA MoveEnds ==
  ASSUME TypeOK, NEW s \in Ids, NEW o \in Request, Moving(o, s), o.todo = {}
  PROVE  \A l \in Labels : TokensOf(Carrying(s, l)) = Relabelled(want[s], o)[l]
  <1> DEFINE Had(l) == {v \in Of(s) : l \in o.listed[v].stages}
             W == WithToken(s, o.token)
             current == "AWSCURRENT" \in o.stages
  <1> SUFFICES ASSUME NEW l \in Labels
               PROVE  TokensOf(Carrying(s, l)) = Relabelled(want[s], o)[l]
    OBVIOUS
  <1>1. "AWSCURRENT" \in Labels
    BY DEF Labels
  <1>2. TokensOf(Had(l)) = want[s][l] /\ TokensOf(Had("AWSCURRENT")) = want[s]["AWSCURRENT"]
    BY <1>1 DEF Moving
  <1>3. TokensOf(W) = {o.token}
    <2>1. W # {} /\ \A v \in W : versions[v].token = o.token
      BY DEF Moving, WithToken
    <2> QED  BY <2>1 DEF TokensOf
  <1>4. \A S, T : TokensOf(S \cup T) = TokensOf(S) \cup TokensOf(T)
    BY DEF TokensOf
  <1>5. ASSUME NEW v \in Of(s)
        PROVE  l \in versions[v].stages <=>
                 IF v \in W THEN l \in o.stages
                 ELSE IF current /\ l = "AWSPREVIOUS" THEN v \in Had("AWSCURRENT")
                 ELSE v \in Had(l) /\ l \notin o.stages
    <2>1. /\ o.listed[v].token = versions[v].token
          /\ versions[v].token = o.token => o.listed[v].stages = {}
          /\ versions[v].stages = moved(o.listed[v], o)
      BY DEF Moving
    <2>2. v \in W <=> o.listed[v].token = o.token
      BY <2>1 DEF WithToken
    <2>3. l \in moved(o.listed[v], o) <=>
            IF o.listed[v].token = o.token THEN l \in o.stages
            ELSE IF "AWSCURRENT" \in o.stages /\ l = "AWSPREVIOUS"
            THEN "AWSCURRENT" \in o.listed[v].stages
            ELSE l \in o.listed[v].stages /\ l \notin o.stages
      BY <2>1, MovedFacts
    <2> QED  BY <2>1, <2>2, <2>3
  <1>6. \A v \in Had(l) \cup Had("AWSCURRENT") : v \in Of(s) /\ v \notin W
    BY DEF Moving, WithToken
  <1>7. W \subseteq Of(s)
    BY DEF WithToken
  <1>8. Relabelled(want[s], o)[l] =
          (IF l \in o.stages THEN {o.token}
           ELSE IF current /\ l = "AWSPREVIOUS" THEN {} ELSE want[s][l])
            \cup (IF current /\ l = "AWSPREVIOUS" THEN want[s]["AWSCURRENT"] ELSE {})
    BY DEF Relabelled
  <1>9. Carrying(s, l) = {v \in Of(s) : l \in versions[v].stages}
    BY DEF Carrying
  <1> HIDE DEF Had, W, current
  <1>10. CASE l \in o.stages /\ current /\ l = "AWSPREVIOUS"
    <2>1. Carrying(s, l) = W \cup Had("AWSCURRENT")
      BY <1>5, <1>6, <1>7, <1>9, <1>10
    <2> QED  BY <1>2, <1>3, <1>4, <1>8, <1>10, <2>1
  <1>11. CASE l \in o.stages /\ ~(current /\ l = "AWSPREVIOUS")
    <2>1. Carrying(s, l) = W
      BY <1>5, <1>6, <1>7, <1>9, <1>11
    <2> QED  BY <1>3, <1>8, <1>11, <2>1
  <1>12. CASE l \notin o.stages /\ current /\ l = "AWSPREVIOUS"
    <2>1. Carrying(s, l) = Had("AWSCURRENT")
      BY <1>5, <1>6, <1>7, <1>9, <1>12
    <2> QED  BY <1>2, <1>8, <1>12, <2>1
  <1>13. CASE l \notin o.stages /\ ~(current /\ l = "AWSPREVIOUS")
    <2>1. Carrying(s, l) = Had(l)
      BY <1>5, <1>6, <1>7, <1>9, <1>13
    <2> QED  BY <1>2, <1>8, <1>13, <2>1
  <1> QED  BY <1>10, <1>11, <1>12, <1>13

LEMMA MoveEndInvariant ==
  ASSUME IInv, NEW p \in Procs, MoveEnd(p)
  PROVE  IInv'
  <1>1. PICK o \in Request : o = req[p] /\ Sound(o)
    BY DEF IInv, TypeOK
  <1>2. PICK s \in Ids : s = o.secret /\ s \in Nat
    BY <1>1, Naturals DEF MoveEnd, Sound
  <1>3. /\ o.step = "move" /\ o.op = "put" /\ o.todo = {} /\ o.token \in Tokens
    BY <1>1 DEF MoveEnd, Sound, Request
  <1>4. PICK r \in Request : r = Idle /\ Sound(r) /\ \A u : ~Writer(r, u)
    BY IdleFacts, IdleSound, IdleWritesNone
  <1>5. PICK labels \in [Labels -> SUBSET Tokens] : labels = Relabelled(want[s], o)
    <2>1. want[s] \in [Labels -> SUBSET Tokens] /\ "AWSCURRENT" \in Labels
      BY DEF IInv, TypeOK, Labels
    <2> QED  BY <1>3, <2>1 DEF Relabelled
  <1>6. /\ Goto(p, r) /\ want' = [want EXCEPT ![s] = labels]
        /\ UNCHANGED <<secrets, versions, nextSecret, nextVersion, clock, raced>>
    BY <1>1, <1>2, <1>4, <1>5 DEF MoveEnd, Finish, stored
  <1>7. /\ VersionIds' = VersionIds /\ SecretIds' = SecretIds /\ \A u : Of(u)' = Of(u)
    BY <1>6 DEF VersionIds, SecretIds, Of
  <1>8. \A u \in Request : Sound(u) => Sound(u)'
    BY <1>6, <1>7 DEF Sound
  <1>9. /\ req' \in [Procs -> Request] /\ \A q \in Procs : Sound(req[q])'
        /\ req'[p] = r /\ \A q \in Procs : q # p => req'[q] = req[q]
    BY <1>4, <1>6, <1>8, RequestsSound DEF IInv
  <1>10. TypeOK'
    BY <1>6, <1>7, <1>9 DEF IInv, TypeOK
  <1>11. want'[s] = labels /\ \A u \in Ids : u # s => want'[u] = want[u]
    BY <1>6 DEF IInv, TypeOK
  <1>12. Numbered'
    <2>1. s < nextSecret /\ nextSecret \in Nat
      BY <1>1, <1>2 DEF Sound, IInv, TypeOK
    <2>2. \A u \in Ids : u >= nextSecret => u # s
      BY <2>1, Naturals
    <2> QED  BY <1>6, <1>7, <1>11, <2>2 DEF IInv, Numbered, Unlabelled
  <1>13. \A u \in Ids : u # s => Untouched(u)
    BY <1>6, <1>7, <1>11 DEF Untouched
  <1>14. ASSUME Known(o) PROVE LabelsAgree(s)' /\ TokensDiffer(s)'
    <2>1. TokensDiffer(s) /\ Moving(o, s)
      BY <1>2, <1>3, <1>14 DEF Known
    <2>2. TokensDiffer(s)'
      BY <1>6, <1>7, <2>1 DEF TokensDiffer
    <2>3. \A l \in Labels : TokensOf(Carrying(s, l)) = labels[l]
      BY <1>3, <1>5, <2>1, MoveEnds DEF IInv
    <2>4. \A l : TokensOf(Carrying(s, l))' = TokensOf(Carrying(s, l))
      BY <1>6, <1>7 DEF TokensOf, Carrying
    <2> QED  BY <1>11, <2>2, <2>3, <2>4 DEF LabelsAgree
  <1>15. LabelsSound'
    <2>1. \A u : Writer(o, u) <=> u = s
      BY <1>2, <1>3 DEF Writer
    <2>2. \A u \in Ids :
            Writer(o, u) /\ u \in SecretIds /\ Known(o) =>
              /\ Of(u)' # {} => u \in SecretIds'
              /\ Writer(r, u) => u \in SecretIds' /\ Known(r)'
              /\ ~Writer(r, u) /\ u \in SecretIds'
                   => LabelsAgree(u)' /\ TokensDiffer(u)'
      BY <1>4, <1>7, <1>14, <2>1
    <2>3. raced' = raced
      BY <1>6
    <2>4. \A u \in Ids : ~Writer(o, u) => Untouched(u)
      BY <1>13, <2>1
    <2> QED  BY <1>1, <1>4, <1>9, <2>1, <2>2, <2>3, <2>4, LabelsStep DEF IInv
  <1> QED  BY <1>9, <1>10, <1>12, <1>15 DEF IInv

LEMMA DropOneInvariant ==
  ASSUME IInv, NEW p \in Procs, DropOne(p)
  PROVE  IInv'
  <1>1. PICK o \in Request : o = req[p] /\ Sound(o)
    BY DEF IInv, TypeOK
  <1>2. PICK s \in Ids : s = o.secret /\ s \in Nat
    BY <1>1, Naturals DEF DropOne, Sound
  <1>3. o.step = "drop" /\ o.op = "destroy" /\ o.todo # {} /\ o.todo \subseteq VIds
    BY <1>1 DEF DropOne, Sound, Request
  <1>4. PICK v \in o.todo : v = CHOOSE w \in o.todo : \A x \in o.todo : w <= x
    <2>1. o.todo \in SUBSET Nat
      BY <1>3, Naturals
    <2> QED  BY <1>3, <2>1, LeastExists
  <1>5. v \in VersionIds => versions[v].secret = s
    BY <1>1, <1>2, <1>3 DEF Sound
  <1>6. /\ versions' = Without(versions, v)
        /\ UNCHANGED <<secrets, nextSecret, nextVersion, clock, want, raced>>
    BY <1>1, <1>4 DEF DropOne, history
  <1>7. PICK r : r = [o EXCEPT !.todo = o.todo \ {v}]
    OBVIOUS
  <1>8. r \in Request
    BY <1>7 DEF Request
  <1>9. /\ r.step = "drop" /\ r.op = "destroy" /\ r.secret = s
        /\ r.todo = o.todo \ {v}
    BY <1>2, <1>3, <1>7 DEF Request
  <1>10. Goto(p, r)
    BY <1>1, <1>4, <1>7 DEF DropOne
  <1>11. /\ VersionIds' = VersionIds \ {v} /\ SecretIds' = SecretIds
         /\ \A w \in VersionIds' : versions'[w] = versions[w]
         /\ \A u : Of(u)' = Of(u) \ {v}
    BY <1>6 DEF Without, VersionIds, SecretIds, Of
  <1>12. \A u \in Request : Sound(u) => Sound(u)'
    <2>1. /\ nextSecret' \in Nat /\ nextSecret' >= nextSecret
          /\ nextVersion' \in Nat /\ nextVersion' >= nextVersion
      BY <1>6 DEF IInv, TypeOK
    <2> QED  BY <1>11, <2>1, SoundKept DEF IInv
  <1>13. Sound(r)
    BY <1>1, <1>2, <1>3, <1>9 DEF Sound
  <1>14. /\ req' \in [Procs -> Request] /\ \A q \in Procs : Sound(req[q])'
         /\ req'[p] = r /\ \A q \in Procs : q # p => req'[q] = req[q]
    BY <1>8, <1>10, <1>12, <1>13, RequestsSound DEF IInv
  <1>15. TypeOK' /\ Numbered'
    BY <1>6, <1>11, <1>14 DEF IInv, TypeOK, Numbered
  <1>16. \A u \in Ids : u # s => Untouched(u)
    <2>1. \A u : u # s => v \notin Of(u)
      BY <1>5 DEF Of
    <2>2. \A u : \A w \in Of(u)' : versions'[w] = versions[w]
      BY <1>11 DEF Of
    <2> QED  BY <1>6, <1>11, <2>1, <2>2 DEF Untouched
  <1>17. ASSUME Known(o) PROVE Known(r)'
    <2>1. Of(s) \subseteq o.todo
      BY <1>2, <1>3, <1>17 DEF Known
    <2> QED  BY <1>9, <1>11, <2>1 DEF Known
  <1>18. LabelsSound'
    <2>1. \A u : Writer(o, u) <=> u = s
      BY <1>2, <1>3 DEF Writer
    <2>2. \A u : Writer(r, u) <=> u = s
      BY <1>9 DEF Writer
    <2>3. \A u \in Ids :
            Writer(o, u) /\ u \in SecretIds /\ Known(o) =>
              /\ Of(u)' # {} => u \in SecretIds'
              /\ Writer(r, u) => u \in SecretIds' /\ Known(r)'
              /\ ~Writer(r, u) /\ u \in SecretIds'
                   => LabelsAgree(u)' /\ TokensDiffer(u)'
      BY <1>11, <1>17, <2>1, <2>2
    <2>4. raced' = raced
      BY <1>6
    <2>5. \A u \in Ids : ~Writer(o, u) => Untouched(u)
      BY <1>16, <2>1
    <2> QED  BY <1>1, <1>8, <1>14, <2>1, <2>2, <2>3, <2>4, <2>5, LabelsStep DEF IInv
  <1> QED  BY <1>14, <1>15, <1>18 DEF IInv

LEMMA ForceEndInvariant ==
  ASSUME IInv, NEW p \in Procs, ForceEnd(p)
  PROVE  IInv'
  <1>1. PICK o \in Request : o = req[p] /\ Sound(o)
    BY DEF IInv, TypeOK
  <1>2. PICK s \in Ids : s = o.secret /\ s \in Nat
    BY <1>1, Naturals DEF ForceEnd, Sound
  <1>3. o.step = "drop" /\ o.op = "destroy" /\ o.todo = {}
    BY <1>1 DEF ForceEnd, Sound
  <1>4. PICK r \in Request : r = Idle /\ Sound(r) /\ \A u : ~Writer(r, u)
    BY IdleFacts, IdleSound, IdleWritesNone
  <1>5. /\ Goto(p, r) /\ secrets' = Without(secrets, s)
        /\ UNCHANGED <<versions, nextSecret, nextVersion, clock, want, raced>>
    BY <1>1, <1>2, <1>4 DEF ForceEnd, Finish, history
  <1>6. /\ VersionIds' = VersionIds /\ SecretIds' = SecretIds \ {s}
        /\ \A u \in SecretIds' : secrets'[u] = secrets[u]
        /\ \A u : Of(u)' = Of(u)
    BY <1>5 DEF Without, VersionIds, SecretIds, Of
  <1>7. \A u \in Request : Sound(u) => Sound(u)'
    BY <1>5, <1>6 DEF Sound
  <1>8. /\ req' \in [Procs -> Request] /\ \A q \in Procs : Sound(req[q])'
        /\ req'[p] = r /\ \A q \in Procs : q # p => req'[q] = req[q]
    BY <1>4, <1>5, <1>7, RequestsSound DEF IInv
  <1>9. TypeOK' /\ Numbered'
    BY <1>5, <1>6, <1>8 DEF IInv, TypeOK, Numbered
  <1>10. \A u \in Ids : u # s => Untouched(u)
    BY <1>5, <1>6 DEF Untouched
  <1>11. LabelsSound'
    <2>1. \A u : Writer(o, u) <=> u = s
      BY <1>2, <1>3 DEF Writer
    <2>2. Known(o) => Of(s)' = {}
      BY <1>2, <1>3, <1>6 DEF Known
    <2>3. \A u \in Ids :
            Writer(o, u) /\ u \in SecretIds /\ Known(o) =>
              /\ Of(u)' # {} => u \in SecretIds'
              /\ Writer(r, u) => u \in SecretIds' /\ Known(r)'
              /\ ~Writer(r, u) /\ u \in SecretIds'
                   => LabelsAgree(u)' /\ TokensDiffer(u)'
      BY <1>4, <1>6, <2>1, <2>2
    <2>4. raced' = raced
      BY <1>5
    <2>5. \A u \in Ids : ~Writer(o, u) => Untouched(u)
      BY <1>10, <2>1
    <2> QED  BY <1>1, <1>4, <1>8, <2>1, <2>3, <2>4, <2>5, LabelsStep DEF IInv
  <1> QED  BY <1>8, <1>9, <1>11 DEF IInv

-----------------------------------------------------------------------------
LEMMA InitInvariant ==
  ASSUME Init PROVE IInv
  <1>1. /\ SecretIds = {} /\ VersionIds = {}
        /\ \A p \in Procs : req[p] = Idle
        /\ \A s \in Ids : want[s] = Unlabelled
    BY DEF Init, Nothing, SecretIds, VersionIds
  <1>2. TypeOK
    <2>1. Unlabelled \in [Labels -> SUBSET Tokens]
      BY DEF Unlabelled
    <2> QED  BY <1>1, <2>1, IdleFacts DEF Init, TypeOK
  <1>3. Numbered
    BY <1>1 DEF Init, Numbered
  <1>4. \A p \in Procs : Sound(req[p])
    BY <1>1, IdleFacts DEF Init, Sound
  <1>5. \A s : Of(s) = {}
    BY <1>1 DEF Of
  <1>6. LabelsSound
    BY <1>1, <1>5, IdleWritesNone DEF LabelsSound
  <1> QED  BY <1>2, <1>3, <1>4, <1>6 DEF IInv

LEMMA StillInvariant ==
  ASSUME IInv, UNCHANGED vars \/ Tick PROVE IInv'
  <1>1. UNCHANGED <<secrets, versions, nextSecret, nextVersion, req, want, raced>>
        /\ clock' \in Nat
    BY DEF vars, Tick, stored, history, IInv, TypeOK
  <1>2. VersionIds' = VersionIds /\ SecretIds' = SecretIds
    BY <1>1 DEF VersionIds, SecretIds
  <1>3. TypeOK' /\ Numbered'
    BY <1>1, <1>2 DEF IInv, TypeOK, Numbered
  <1>4. \A p \in Procs : Sound(req[p])'
    BY <1>1, <1>2 DEF IInv, Sound
  <1>5. LabelsSound'
    <2>1. \A s : /\ Of(s)' = Of(s)
                 /\ LabelsAgree(s) => LabelsAgree(s)'
                 /\ TokensDiffer(s) => TokensDiffer(s)'
      BY <1>1, <1>2 DEF LabelsAgree, TokensDiffer, Of, TokensOf, Carrying
    <2>2. \A p \in Procs : Known(req[p]) => Known(req[p])'
      BY <1>1, <1>2 DEF Known, Moving, LabelsAgree, TokensDiffer, WithToken,
         Of, TokensOf, Carrying
    <2> QED  BY <1>1, <1>2, <2>1, <2>2 DEF IInv, LabelsSound, Writer
  <1> QED  BY <1>3, <1>4, <1>5 DEF IInv

LEMMA StepInvariant ==
  ASSUME IInv, Next PROVE IInv'
  BY BeginningsInvariant, LocalsInvariant, CreateInsertInvariant,
     InsertVersionInvariant, MoveOneInvariant, MoveEndInvariant,
     DropOneInvariant, ForceEndInvariant, StillInvariant DEF Next, Continue

(* The invariant that the theorems below rest on.                          *)
THEOREM Invariant == Spec => []IInv
  <1>1. IInv /\ [Next]_vars => IInv'
    BY StepInvariant, StillInvariant
  <1> QED  BY <1>1, InitInvariant, PTL DEF Spec

(* The stores hold what their types say, and no id exceeds its bound.      *)
THEOREM TypeCorrect == Spec => []TypeOK
  BY Invariant, PTL DEF IInv

(* Writers of a kind with no writer left.                                  *)
LEMMA SettledFacts ==
  ASSUME IInv, NEW s \in SecretIds, Settled("labels", s)
  PROVE  LabelsAgree(s) /\ TokensDiffer(s)
  <1>1. s \in Ids /\ <<"labels", s>> \notin raced
    BY DEF IInv, TypeOK, Settled
  <1>2. \A p \in Procs : ~Writer(req[p], s)
    BY DEF Settled, Busy, Writer, Kind
  <1> QED  BY <1>1, <1>2 DEF IInv, LabelsSound

(* The labels of a secret whose writers came one after the other are where *)
(* the last move of each put them, whatever deletions that were taken back,*)
(* restores and tags happened meanwhile (moveVersionStages).               *)
THEOREM LabelsFollow == Spec => []LabelsFollowPuts
  <1>1. IInv => LabelsFollowPuts
    BY SettledFacts DEF LabelsFollowPuts, LabelsAgree
  <1> QED  BY <1>1, Invariant, PTL

(* A client token names one version of such a secret at most, however often*)
(* the request was repeated.                                               *)
THEOREM ReplaysAddNothing == Spec => []TokenIsIdempotent
  <1>1. IInv => TokenIsIdempotent
    BY SettledFacts DEF TokenIsIdempotent, TokensDiffer
  <1> QED  BY <1>1, Invariant, PTL

(* A version is left without its secret only when a writer of the secret   *)
(* met its forced deletion.                                                *)
THEOREM ForcedDeletesComplete == Spec => []ForcedDeleteTakesVersions
  <1>1. ASSUME IInv PROVE ForcedDeleteTakesVersions
    <2>1. \A v \in VersionIds : versions[v].secret \in Ids /\ v \in Of(versions[v].secret)
      BY <1>1 DEF IInv, TypeOK, Version, Of
    <2> QED  BY <1>1, <2>1 DEF IInv, LabelsSound, ForcedDeleteTakesVersions
  <1> QED  BY <1>1, Invariant, PTL

=============================================================================
