------------------------------ MODULE StripeProofs ------------------------------
(***************************************************************************)
(* Proofs about Stripe, for every set of requests, customers and amounts   *)
(* and every bound.  What a request decided on is not final, and no other  *)
(* request decides on it, unless the two crossed (SettlesSound); a         *)
(* confirmed intent has its charge or a request about to insert it, never  *)
(* both (ChargesSound); and while a customer is deleted nobody names it in *)
(* a table the deletion has passed (CustomersSound).                       *)
(***************************************************************************)
EXTENDS Stripe, FiniteSetTheorems, SequenceTheorems, WellFoundedInduction, TLAPS

(* Ids are given in order and nothing is removed.                          *)
Numbered == \A t \in Tables : \E n \in Nat : DOMAIN rows[t] = 1..n

Rests == {<<"intents", "charges", "sessions">>, <<"charges", "sessions">>,
          <<"sessions">>}
Deleting(r) == r.step \in {"list", "detach"}

(* What the locals of a request mean, whatever others do.                  *)
Sound(r) ==
  /\ r.step = "idle" => r = Idle
  /\ r.step = "insert" =>
       \E t \in Tables :
         /\ r.at = <<t, 0>> /\ r.patch \in Row(t)
         /\ t = "charges" => r.patch.intent \in DOMAIN rows["intents"]
         /\ t # "charges" => r.patch.status \notin Final
  /\ r.step = "settle" =>
       \E t \in {"intents", "sessions"} : \E i \in DOMAIN rows[t] :
         r.at = <<t, i>> /\ r.patch \in Decisions(t)
  /\ Deleting(r) => /\ \E c \in Customers : r.at = <<"customers", c>>
                    /\ r.patch = <<>> /\ r.stages \in Rests
  /\ r.step = "detach" => r.todo \subseteq DOMAIN rows[Head(r.stages)]

(* A request about to write its decision on a record alone knows of it,    *)
(* and nothing final happened to it since.                                 *)
SettlesSound ==
  \A p \in Procs : req[p].step = "settle" /\ req[p].at \notin crossed =>
    /\ Status(req[p].at[1], req[p].at[2]) \notin Final
    /\ \A q \in Procs : req[q].step = "settle" /\ req[q].at = req[p].at => q = p

Charging(i) == {q \in Pending({"charges"}) : req[q].patch.intent = i}

Charged(i) ==
  IF Status("intents", i) = "succeeded"
  THEN \/ ChargesOf(i) = {} /\ \E q \in Procs : Charging(i) = {q}
       \/ Charging(i) = {} /\ \E k \in DOMAIN rows["charges"] : ChargesOf(i) = {k}
  ELSE ChargesOf(i) = {} /\ Charging(i) = {}

ChargesSound ==
  /\ \A k \in DOMAIN rows["charges"] :
       rows["charges"][k].intent \in DOMAIN rows["intents"]
  /\ \A i \in DOMAIN rows["intents"] : <<"intents", i>> \notin crossed => Charged(i)

Names(r, c) == r.step = "insert" /\ r.patch.customer = c
Deletes(r, c) == Deleting(r) /\ r.at = <<"customers", c>>

(* The deletion has gone through the table.                                *)
Passed(t, stages) ==
  \/ t = "intents" /\ stages \in {<<"charges", "sessions">>, <<"sessions">>}
  \/ t = "charges" /\ stages = <<"sessions">>

Gone(r, c) ==
  \A t \in Tables :
    /\ Passed(t, r.stages) => Naming(t, c) = {}
    /\ r.step = "detach" /\ t = Head(r.stages) => Naming(t, c) \subseteq r.todo

CustomersSound ==
  \A c \in Customers : <<"customers", c>> \notin crossed =>
    /\ c \notin customers =>
         /\ \A t \in Tables : Naming(t, c) = {}
         /\ \A q \in Procs : ~Names(req[q], c) /\ ~Deletes(req[q], c)
    /\ \A p \in Procs : Deletes(req[p], c) =>
         /\ \A q \in Procs : ~Names(req[q], c) /\ (Deletes(req[q], c) => q = p)
         /\ Gone(req[p], c)

IInv == /\ TypeOK /\ Numbered
        /\ \A p \in Procs : Sound(req[p])
        /\ SettlesSound /\ ChargesSound /\ ChargedAsConfirmed /\ CustomersSound

-----------------------------------------------------------------------------
(* Lemmas about the operators of the model.                                *)

LEMMA RowFacts ==
  /\ Row("intents") = Intent /\ Row("charges") = Charge
  /\ Row("sessions") = Session /\ Tables = {"intents", "charges", "sessions"}
  BY DEF Row, Tables

(* There is a least id.                                                   *)
LEMMA MinFacts ==
  ASSUME NEW S \in SUBSET Nat, S # {}
  PROVE  Min(S) \in S
  <1>1. PICK R : R = {ss \in Nat \X Nat : ss[1] < ss[2]}
    OBVIOUS
  <1>2. IsWellFoundedOn(R, Nat)
    BY <1>1, NatLessThanWellFounded, Zenon DEF OpToRel
  <1>3. \E x \in S : \A y \in S : <<y, x>> \notin R
    BY <1>2, WFMin
  <1>4. \E x \in S : \A y \in S : x =< y
    <2>1. PICK x \in S : \A y \in S : <<y, x>> \notin R
      BY <1>3
    <2>2. ASSUME NEW y \in S, y < x PROVE FALSE
      <3>1. PICK z : z = <<y, x>>
        OBVIOUS
      <3>2. z \in Nat \X Nat /\ z[1] < z[2]
        BY <2>2, <3>1
      <3>3. z \in R
        BY <1>1, <3>2
      <3> QED  BY <2>1, <3>1, <3>3
    <2> QED  BY <2>1, <2>2
  <1> QED  BY <1>4 DEF Min

(* What is left of the stages, one after the other.                        *)
LEMMA RestFacts ==
  ASSUME NEW s \in Rests
  PROVE  /\ s \in Seq(Tables) /\ s # <<>> /\ Head(s) \in Tables
         /\ s = <<"intents", "charges", "sessions">> =>
              Head(s) = "intents" /\ Tail(s) = <<"charges", "sessions">>
         /\ s = <<"charges", "sessions">> =>
              Head(s) = "charges" /\ Tail(s) = <<"sessions">>
         /\ s = <<"sessions">> => Head(s) = "sessions" /\ Tail(s) = <<>>
         /\ <<"intents", "charges", "sessions">> # <<"charges", "sessions">>
         /\ <<"intents", "charges", "sessions">> # <<"sessions">>
         /\ <<"charges", "sessions">> # <<"sessions">>
  <1>1. CASE s = <<"intents", "charges", "sessions">>
    BY <1>1 DEF Tables
  <1>2. CASE s = <<"charges", "sessions">>
    BY <1>2 DEF Tables
  <1>3. CASE s = <<"sessions">>
    BY <1>3 DEF Tables
  <1> QED  BY <1>1, <1>2, <1>3 DEF Rests

LEMMA PutFacts ==
  ASSUME DOMAIN rows = Tables, NEW t \in Tables, NEW id, NEW record, Put(t, id, record)
  PROVE  /\ DOMAIN rows' = Tables
         /\ DOMAIN rows'[t] = DOMAIN rows[t] \cup {id}
         /\ rows'[t][id] = record
         /\ \A i \in DOMAIN rows[t] : i # id => rows'[t][i] = rows[t][i]
         /\ \A u \in Tables : u # t => rows'[u] = rows[u]
  BY DEF Put

(* The next id is new.                                                     *)
LEMMA NextIdFresh ==
  ASSUME TypeOK, Numbered, NEW t \in Tables
  PROVE  /\ NextId(t) \in Nat /\ NextId(t) \notin DOMAIN rows[t]
         /\ DOMAIN rows[t] \cup {NextId(t)} = 1..NextId(t)
  <1>1. PICK n \in Nat : DOMAIN rows[t] = 1..n
    BY DEF Numbered
  <1>2. Cardinality(1..n) = n
    BY FS_Interval
  <1>3. NextId(t) = n + 1
    BY <1>1, <1>2 DEF NextId
  <1> QED  BY <1>1, <1>3

(* What writing a patch does to a record of each kind.                     *)
LEMMA IntentDecided ==
  ASSUME NEW x \in Intent, NEW d \in Decisions("intents")
  PROVE  /\ Over(d, x) \in Intent /\ Over(d, x).customer = x.customer
         /\ Over(d, x).status \in {"requires_confirmation", "canceled"}
  <1>1. CASE d = [status |-> "canceled"]
    BY <1>1 DEF Over, Intent
  <1>2. CASE d = [status |-> "requires_confirmation"]
    BY <1>2 DEF Over, Intent
  <1>3. ASSUME NEW a \in Amounts, d = [status |-> "requires_confirmation", amount |-> a]
        PROVE  /\ Over(d, x) \in Intent /\ Over(d, x).customer = x.customer
               /\ Over(d, x).status = "requires_confirmation"
    BY <1>3 DEF Over, Intent
  <1> QED  BY <1>1, <1>2, <1>3 DEF Decisions, NewMethod

LEMMA SessionDecided ==
  ASSUME NEW x \in Session, NEW d \in Decisions("sessions")
  PROVE  Over(d, x) \in Session /\ Over(d, x).customer = x.customer
  <1>1. CASE d = [status |-> "expired"]
    BY <1>1 DEF Over, Session
  <1>2. CASE d = [status |-> "complete", payment_status |-> "paid"]
    BY <1>2 DEF Over, Session
  <1> QED  BY <1>1, <1>2 DEF Decisions

LEMMA AmountWritten ==
  ASSUME NEW x \in Intent, NEW d \in NewAmount
  PROVE  /\ Over(d, x) \in Intent /\ Over(d, x).customer = x.customer
         /\ Over(d, x).status = x.status
  <1>1. CASE d = <<>>
    BY <1>1 DEF Over, Intent
  <1>2. ASSUME NEW a \in Amounts, d = [amount |-> a]
        PROVE  /\ Over(d, x) \in Intent /\ Over(d, x).customer = x.customer
               /\ Over(d, x).status = x.status
    BY <1>2 DEF Over, Intent
  <1> QED  BY <1>1, <1>2 DEF NewAmount

LEMMA IntentConfirmed ==
  ASSUME NEW x \in Intent
  PROVE  LET y == Over([status |-> "succeeded"], x)
         IN  /\ y \in Intent /\ y.customer = x.customer
             /\ y.status = "succeeded"
  BY DEF Over, Intent

LEMMA CustomerDetached ==
  ASSUME NEW t \in Tables, NEW x \in Row(t)
  PROVE  LET y == Over(Detachment, x)
         IN  /\ y \in Row(t) /\ y.customer = Nobody
             /\ t # "charges" => y.status = x.status
             /\ t = "charges" => y.intent = x.intent /\ y.amount = x.amount
  <1>1. CASE t = "intents"
    BY <1>1, RowFacts DEF Over, Intent, Detachment, Owner
  <1>2. CASE t = "charges"
    <2>1. x \in [intent : Ids("intents"), customer : Owner, amount : Amounts]
      BY <1>2, RowFacts DEF Charge
    <2>2. PICK y : y = Over(Detachment, x)
      OBVIOUS
    <2>3. y = [intent |-> x.intent, customer |-> Nobody, amount |-> x.amount]
      BY <2>1, <2>2 DEF Over, Detachment
    <2>4. y \in Charge
      BY <2>1, <2>3 DEF Charge, Owner
    <2> QED  BY <1>2, <2>2, <2>3, <2>4, RowFacts
  <1>3. CASE t = "sessions"
    BY <1>3, RowFacts DEF Over, Session, Detachment, Owner
  <1> QED  BY <1>1, <1>2, <1>3, RowFacts

(* What the history records when requests meet.                            *)
LEMMA MeetsDeciding ==
  ASSUME NEW p \in Procs, NEW k, Meets(p, {k}, TRUE)
  PROVE  /\ crossed \subseteq crossed' /\ crossed' \subseteq crossed \cup {k}
         /\ \A q \in Procs \ {p} : k \in About(req[q]) => k \in crossed'
  BY DEF Meets

LEMMA MeetsReading ==
  ASSUME NEW p \in Procs, NEW keys, Meets(p, keys, FALSE)
  PROVE  /\ crossed \subseteq crossed' /\ crossed' \subseteq crossed \cup keys
         /\ \A k \in keys, q \in Procs \ {p} :
              k \in About(req[q]) /\ Decided(req[q]) => k \in crossed'
  BY DEF Meets

LEMMA KeyFacts ==
  /\ \A t \in Tables : \A i \in {0} \cup Ids(t) : <<t, i>> \in Keys
  /\ \A c \in Owner : <<"customers", c>> \in Keys
  BY BoundAssumption DEF Keys, Ids

LEMMA PatchFacts ==
  /\ <<>> \in Patches /\ \A t \in Tables : Row(t) \subseteq Patches
  /\ \A t \in {"intents", "sessions"} : Decisions(t) \subseteq Patches
  <1>1. \A d \in Decisions("intents") : d \in Patches
    BY DEF Patches
  <1>2. \A d \in Decisions("sessions") : d \in Patches
    BY DEF Patches
  <1>3. <<>> \in Patches /\ Intent \subseteq Patches /\ Charge \subseteq Patches /\ Session \subseteq Patches
    BY DEF Patches
  <1> QED  BY <1>1, <1>2, <1>3, RowFacts

LEMMA IdleFacts ==
  /\ Idle \in Request /\ Idle.step = "idle" /\ Idle.at = <<>>
  /\ Idle.patch = <<>> /\ Idle.todo = {}
  BY PatchFacts DEF Idle, Request

LEMMA AboutFacts ==
  ASSUME NEW r
  PROVE  /\ r.at \in About(r)
         /\ \A c : Deletes(r, c) => <<"customers", c>> \in About(r) /\ Decided(r)
         /\ r.step = "settle" => Decided(r)
  BY DEF About, Deletes, Deleting, Decided

(* A record that a request is about to insert names its customer.          *)
LEMMA NamesFacts ==
  ASSUME NEW r, Sound(r), NEW c, Names(r, c)
  PROVE  <<"customers", c>> \in About(r)
  <1>1. PICK t \in Tables : r.patch \in Row(t)
    BY DEF Sound, Names
  <1>2. "customer" \in DOMAIN r.patch
    <2>1. r.patch \in Intent => "customer" \in DOMAIN r.patch
      BY DEF Intent
    <2>2. r.patch \in Charge => "customer" \in DOMAIN r.patch
      BY DEF Charge
    <2>3. r.patch \in Session => "customer" \in DOMAIN r.patch
      BY DEF Session
    <2> QED  BY <1>1, <2>1, <2>2, <2>3, RowFacts
  <1> QED  BY <1>2 DEF About, Owned, Names

-----------------------------------------------------------------------------
(* How the parts of the invariant are kept.                                *)

(* No record goes away.                                                    *)
Growing == /\ DOMAIN rows' = Tables
           /\ \A t \in Tables : DOMAIN rows[t] \subseteq DOMAIN rows'[t]

LEMMA SoundKept ==
  ASSUME Growing, NEW r, Sound(r)
  PROVE  Sound(r)'
  <1>1. Tables = {"intents", "charges", "sessions"}
    BY DEF Tables
  <1>2. r.step = "insert" =>
          \E t \in Tables :
            /\ r.at = <<t, 0>> /\ r.patch \in Row(t)
            /\ t = "charges" => r.patch.intent \in DOMAIN rows'["intents"]
            /\ t # "charges" => r.patch.status \notin Final
    BY <1>1 DEF Sound, Growing
  <1>3. r.step = "settle" =>
          \E t \in {"intents", "sessions"} : \E i \in DOMAIN rows'[t] :
            r.at = <<t, i>> /\ r.patch \in Decisions(t)
    BY <1>1 DEF Sound, Growing
  <1>4. r.step = "detach" => r.todo \subseteq DOMAIN rows'[Head(r.stages)]
    <2>1. r.step = "detach" => Head(r.stages) \in Tables
      BY RestFacts DEF Sound, Deleting
    <2> QED  BY <2>1 DEF Sound, Growing
  <1> QED  BY <1>2, <1>3, <1>4 DEF Sound

LEMMA RequestsSound ==
  ASSUME TypeOK, \A q \in Procs : Sound(req[q]), Growing,
         NEW p \in Procs, NEW r \in Request, Goto(p, r), Sound(r)'
  PROVE  /\ req' \in [Procs -> Request] /\ \A q \in Procs : Sound(req[q])'
         /\ req'[p] = r /\ \A q \in Procs : q # p => req'[q] = req[q]
  <1>1. /\ req' \in [Procs -> Request]
        /\ req'[p] = r /\ \A q \in Procs : q # p => req'[q] = req[q]
    BY DEF Goto, TypeOK
  <1>2. ASSUME NEW q \in Procs PROVE Sound(req[q])'
    <2>1. PICK s \in Request : s = req'[q] /\ Sound(s)'
      <3>1. CASE q = p
        BY <1>1, <3>1
      <3>2. CASE q # p
        <4>1. PICK s \in Request : s = req[q] /\ Sound(s)
          BY DEF TypeOK
        <4> QED  BY <1>1, <3>2, <4>1, SoundKept
      <3> QED  BY <3>1, <3>2
    <2> QED  BY <2>1 DEF Sound, Deleting
  <1> QED  BY <1>1, <1>2

(* The step of one request, from o to r.                                   *)
Moves(p, o, r) ==
  /\ o = req[p] /\ r = req'[p]
  /\ \A q \in Procs : q # p => req'[q] = req[q]

(* What the step leaves at an id has a final status.                       *)
FinalThen(at) == rows'[at[1]][at[2]].status \in Final

(* Decisions are kept when nothing final happens to what others decided on *)
(* and a new one is about a record that is not final and that nobody else  *)
(* decides on.                                                             *)
LEMMA SettlesStep ==
  ASSUME SettlesSound, NEW p \in Procs, NEW o, NEW r, Moves(p, o, r),
         crossed \subseteq crossed',
         \A q \in Procs \ {p} :
           req[q].step = "settle" /\ req[q].at \notin crossed'
             => ~FinalThen(req[q].at),
         r.step = "settle" /\ r.at \notin crossed' =>
           /\ ~FinalThen(r.at)
           /\ \A q \in Procs \ {p} : req[q].step = "settle" => req[q].at # r.at
  PROVE  SettlesSound'
  <1> SUFFICES ASSUME NEW q \in Procs, req'[q].step = "settle",
                      req'[q].at \notin crossed'
               PROVE  /\ ~FinalThen(req'[q].at)
                      /\ \A u \in Procs : req'[u].step = "settle" /\ req'[u].at = req'[q].at
                           => u = q
    BY DEF SettlesSound, Status, FinalThen
  <1>1. CASE q = p
    BY <1>1 DEF Moves
  <1>2. CASE q # p
    <2>1. req'[q] = req[q] /\ req[q].at \notin crossed
      BY <1>2 DEF Moves
    <2>2. ASSUME NEW u \in Procs, req'[u].step = "settle", req'[u].at = req'[q].at
          PROVE  u = q
      <3>1. CASE u = p
        BY <1>2, <2>1, <2>2, <3>1 DEF Moves
      <3>2. CASE u # p
        BY <2>1, <2>2, <3>2 DEF Moves, SettlesSound
      <3> QED  BY <3>1, <3>2
    <2> QED  BY <1>2, <2>1, <2>2
  <1> QED  BY <1>1, <1>2

(* The records are the same but for what charges do not depend on.         *)
Alike ==
  /\ DOMAIN rows' = Tables
  /\ \A t \in Tables : DOMAIN rows'[t] = DOMAIN rows[t]
  /\ \A i \in DOMAIN rows["intents"] : <<"intents", i>> \notin crossed =>
       (rows'["intents"][i].status = "succeeded" <=>
          rows["intents"][i].status = "succeeded")
  /\ \A k \in DOMAIN rows["charges"] :
       /\ rows'["charges"][k].intent = rows["charges"][k].intent
       /\ rows'["charges"][k].amount = rows["charges"][k].amount

InsertsCharge(r) == r.step = "insert" /\ r.at[1] = "charges"

LEMMA ChargesKept ==
  ASSUME TypeOK, ChargesSound, ChargedAsConfirmed,
         NEW p \in Procs, NEW o, NEW r, Moves(p, o, r), Alike,
         ~InsertsCharge(o), ~InsertsCharge(r),
         crossed \subseteq crossed', agreed' = agreed
  PROVE  ChargesSound' /\ ChargedAsConfirmed'
  <1>1. /\ Pending({"charges"})' = Pending({"charges"})
        /\ \A q \in Pending({"charges"}) : req'[q] = req[q]
    BY DEF Pending, InsertsCharge, Moves
  <1>2. /\ DOMAIN rows'["charges"] = DOMAIN rows["charges"]
        /\ DOMAIN rows'["intents"] = DOMAIN rows["intents"]
    BY RowFacts DEF Alike
  <1>3. \A i : ChargesOf(i)' = ChargesOf(i) /\ Charging(i)' = Charging(i)
    BY <1>1, <1>2 DEF Alike, ChargesOf, Charging
  <1>4. \A i \in DOMAIN rows["intents"] :
          <<"intents", i>> \notin crossed /\ Charged(i) => Charged(i)'
    BY <1>2, <1>3 DEF Alike, Charged, Status
  <1>5. ChargesSound'
    BY <1>2, <1>4 DEF ChargesSound, Alike
  <1>6. ChargedAsConfirmed'
    <2>1. {<<c.intent, c.amount>> : c \in Range(rows.charges)}'
            = {<<c.intent, c.amount>> : c \in Range(rows.charges)}
      BY <1>2 DEF Range, Alike
    <2>2. {<<c.intent, c.amount>> : c \in {req[q].patch : q \in Pending({"charges"})}}'
            = {<<c.intent, c.amount>> : c \in {req[q].patch : q \in Pending({"charges"})}}
      BY <1>1
    <2>3. \A S, T : {<<c.intent, c.amount>> : c \in S \cup T}
                      = {<<c.intent, c.amount>> : c \in S} \cup
                        {<<c.intent, c.amount>> : c \in T}
      OBVIOUS
    <2> QED  BY <2>1, <2>2, <2>3 DEF ChargedAsConfirmed
  <1> QED  BY <1>5, <1>6

(* Who names a customer, and who deletes one.                              *)
LEMMA CustomersStep ==
  ASSUME TypeOK, CustomersSound, NEW p \in Procs, NEW o, NEW r, Moves(p, o, r),
         crossed \subseteq crossed', customers' \subseteq customers,
         \A t \in Tables, c \in Customers :
           Naming(t, c)' \subseteq Naming(t, c) \/ Names(o, c),
         \A c \in Customers : <<"customers", c>> \notin crossed' =>
           /\ Names(r, c) => /\ c \in customers'
                             /\ \A q \in Procs \ {p} : ~Deletes(req[q], c)
           /\ Deletes(r, c) => /\ c \in customers' /\ Gone(r, c)'
                               /\ \A q \in Procs \ {p} :
                                    ~Names(req[q], c) /\ ~Deletes(req[q], c)
           /\ c \in customers \ customers' =>
                /\ \A t \in Tables : Naming(t, c)' = {}
                /\ \A q \in Procs \ {p} : ~Names(req[q], c) /\ ~Deletes(req[q], c)
  PROVE  CustomersSound'
  <1> SUFFICES ASSUME NEW c \in Customers, <<"customers", c>> \notin crossed'
               PROVE  /\ c \notin customers' =>
                           /\ \A t \in Tables : Naming(t, c)' = {}
                           /\ \A q \in Procs : ~Names(req'[q], c) /\ ~Deletes(req'[q], c)
                      /\ \A u \in Procs : Deletes(req'[u], c) =>
                           /\ \A q \in Procs : ~Names(req'[q], c)
                                               /\ (Deletes(req'[q], c) => q = u)
                           /\ Gone(req[u], c)'
    BY DEF CustomersSound, Names, Deletes, Deleting
  <1>1. <<"customers", c>> \notin crossed
    OBVIOUS
  <1>2. ~(Names(r, c) /\ Deletes(r, c))
    BY DEF Names, Deletes, Deleting
  <1>3. ASSUME c \notin customers'
        PROVE  /\ \A t \in Tables : Naming(t, c)' = {}
               /\ \A q \in Procs : ~Names(req'[q], c) /\ ~Deletes(req'[q], c)
    <2>1. ~Names(r, c) /\ ~Deletes(r, c)
      BY <1>3
    <2>2. CASE c \in customers
      BY <1>3, <2>1, <2>2 DEF Moves
    <2>3. CASE c \notin customers
      <3>1. /\ \A t \in Tables : Naming(t, c) = {}
            /\ \A q \in Procs : ~Names(req[q], c) /\ ~Deletes(req[q], c)
        BY <1>1, <2>3 DEF CustomersSound
      <3> QED  BY <2>1, <3>1 DEF Moves
    <2> QED  BY <2>2, <2>3
  <1>4. ASSUME NEW u \in Procs, Deletes(req'[u], c)
        PROVE  /\ \A q \in Procs : ~Names(req'[q], c) /\ (Deletes(req'[q], c) => q = u)
               /\ Gone(req[u], c)'
    <2>1. CASE u = p
      <3>1. Deletes(r, c) /\ Gone(r, c)'
        BY <1>4, <2>1 DEF Moves
      <3>2. r = req[u]'
        BY <2>1 DEF Moves
      <3>3. Gone(req[u], c)'
        BY <3>1, <3>2 DEF Gone, Passed
      <3>4. \A q \in Procs : ~Names(req'[q], c) /\ (Deletes(req'[q], c) => q = u)
        BY <1>2, <2>1, <3>1 DEF Moves
      <3> QED  BY <3>3, <3>4
    <2>2. CASE u # p
      <3>1. req'[u] = req[u] /\ Deletes(req[u], c)
        BY <1>4, <2>2 DEF Moves
      <3>2. /\ \A q \in Procs : ~Names(req[q], c) /\ (Deletes(req[q], c) => q = u)
            /\ Gone(req[u], c)
        BY <1>1, <3>1 DEF CustomersSound
      <3>3. ~Names(o, c) /\ \A t \in Tables : Naming(t, c)' \subseteq Naming(t, c)
        BY <3>2 DEF Moves
      <3>4. ~Names(r, c) /\ ~Deletes(r, c)
        BY <2>2, <3>1
      <3>5. \A q \in Procs : ~Names(req'[q], c) /\ (Deletes(req'[q], c) => q = u)
        BY <3>2, <3>4 DEF Moves
      <3>6. Gone(req[u], c)'
        BY <3>1, <3>2, <3>3 DEF Gone, Passed
      <3> QED  BY <3>5, <3>6
    <2> QED  BY <2>1, <2>2
  <1> QED  BY <1>3, <1>4

-----------------------------------------------------------------------------
(* A step that leaves the records alike keeps the invariant, if what its   *)
(* request decides and names is sound.                                     *)
SettlesWell(p, r) ==
  /\ \A q \in Procs \ {p} :
       req[q].step = "settle" /\ req[q].at \notin crossed' => ~FinalThen(req[q].at)
  /\ r.step = "settle" /\ r.at \notin crossed' =>
       /\ ~FinalThen(r.at)
       /\ \A q \in Procs \ {p} : req[q].step = "settle" => req[q].at # r.at

NamesWell(p, r) ==
  \A c \in Customers : <<"customers", c>> \notin crossed' =>
    /\ Names(r, c) => /\ c \in customers'
                      /\ \A q \in Procs \ {p} : ~Deletes(req[q], c)
    /\ Deletes(r, c) => /\ c \in customers' /\ Gone(r, c)'
                        /\ \A q \in Procs \ {p} :
                             ~Names(req[q], c) /\ ~Deletes(req[q], c)
    /\ c \in customers \ customers' =>
         /\ \A t \in Tables : Naming(t, c)' = {}
         /\ \A q \in Procs \ {p} : ~Names(req[q], c) /\ ~Deletes(req[q], c)

RowsTyped == \A t \in Tables : \A i \in DOMAIN rows'[t] : rows'[t][i] \in Row(t)

LEMMA AlikeStep ==
  ASSUME IInv, NEW p \in Procs, NEW r \in Request, Goto(p, r), Sound(r)',
         ~InsertsCharge(req[p]), ~InsertsCharge(r), agreed' = agreed,
         Alike, RowsTyped,
         crossed \subseteq crossed', crossed' \subseteq Keys,
         customers' \subseteq customers,
         \A t \in Tables, c \in Customers : Naming(t, c)' \subseteq Naming(t, c),
         SettlesWell(p, r), NamesWell(p, r)
  PROVE  IInv'
  <1>1. PICK o \in Request : o = req[p]
    BY DEF IInv, TypeOK
  <1>2. Growing
    BY DEF Alike, Growing
  <1>3. /\ req' \in [Procs -> Request] /\ \A q \in Procs : Sound(req[q])'
        /\ Moves(p, o, r)
    BY <1>1, <1>2, RequestsSound DEF IInv, Moves
  <1>4. Numbered'
    BY DEF IInv, Numbered, Alike
  <1>5. TypeOK'
    BY <1>3 DEF IInv, TypeOK, Alike, RowsTyped
  <1>6. SettlesSound'
    BY <1>3, SettlesStep DEF IInv, SettlesWell
  <1>7. ChargesSound' /\ ChargedAsConfirmed'
    BY <1>1, <1>3, ChargesKept DEF IInv
  <1>8. CustomersSound'
    BY <1>3, CustomersStep DEF IInv, NamesWell
  <1> QED  BY <1>3, <1>4, <1>5, <1>6, <1>7, <1>8 DEF IInv

LEMMA SameRows ==
  ASSUME TypeOK, rows' = rows
  PROVE  /\ Growing /\ Alike /\ RowsTyped
         /\ \A t \in Tables, c \in Customers : Naming(t, c)' = Naming(t, c)
         /\ \A r, c : Gone(r, c) => Gone(r, c)'
  <1>1. Growing /\ Alike /\ RowsTyped
    BY DEF TypeOK, Growing, Alike, RowsTyped
  <1>2. \A t, c : Naming(t, c)' = Naming(t, c)
    BY DEF Naming
  <1> QED  BY <1>1, <1>2 DEF Gone

(* What others decided stays undecided in the same records.                *)
LEMMA SameSettles ==
  ASSUME IInv, rows' = rows, crossed \subseteq crossed', NEW p \in Procs
  PROVE  \A q \in Procs \ {p} :
           req[q].step = "settle" /\ req[q].at \notin crossed' => ~FinalThen(req[q].at)
  BY DEF IInv, SettlesSound, FinalThen, Status

LEMMA IdKeys ==
  ASSUME TypeOK, NEW t \in Tables, NEW i \in DOMAIN rows[t]
  PROVE  <<t, i>> \in Keys /\ i \in Nat
  <1>1. i \in Ids(t)
    BY DEF TypeOK
  <1>2. i \in Nat
    BY <1>1, BoundAssumption DEF Ids
  <1> QED  BY <1>1, <1>2, KeyFacts

LEMMA FieldFacts ==
  /\ \A x \in Intent :
       /\ x.status \in {"requires_payment_method", "requires_confirmation",
                       "succeeded", "canceled"}
       /\ x.customer \in Owner /\ x.amount \in Amounts
  /\ \A x \in Charge :
       x.intent \in Ids("intents") /\ x.customer \in Owner /\ x.amount \in Amounts
  /\ \A x \in Session : x.customer \in Owner
  BY DEF Intent, Charge, Session

-----------------------------------------------------------------------------
(* Requests that begin.                                                    *)

LEMMA BeginInsert ==
  ASSUME NEW t \in Tables, NEW x \in Row(t), NEW p \in Procs,
         WillWrite(p, "insert", <<t, 0>>, x),
         t = "charges" => x.intent \in DOMAIN rows'["intents"],
         t # "charges" => x.status \notin Final
  PROVE  \E r \in Request :
           /\ Goto(p, r) /\ Sound(r)'
           /\ r.step = "insert" /\ r.at = <<t, 0>> /\ r.patch = x
  <1>1. PICK r : r = [Idle EXCEPT !.step = "insert", !.at = <<t, 0>>, !.patch = x]
    OBVIOUS
  <1>2. /\ r.step = "insert" /\ r.at = <<t, 0>> /\ r.patch = x
        /\ r.stages = <<>> /\ r.todo = {}
    BY <1>1 DEF Idle
  <1>3. r \in Request
    <2>1. <<t, 0>> \in Keys
      BY KeyFacts
    <2>2. x \in Patches
      BY PatchFacts
    <2>3. r = [step |-> "insert", at |-> <<t, 0>>, patch |-> x, stages |-> <<>>,
               todo |-> {}]
      BY <1>1 DEF Idle
    <2> QED  BY <2>1, <2>2, <2>3 DEF Request
  <1>4. Sound(r)'
    BY <1>2 DEF Sound, Deleting
  <1> QED  BY <1>1, <1>2, <1>3, <1>4 DEF WillWrite

LEMMA CreateStep ==
  ASSUME IInv, NEW p \in Procs, NEW t \in {"intents", "sessions"}, NEW x \in Row(t),
         x.status \notin Final, Create(p, t, x)
  PROVE  IInv'
  <1>1. PICK r \in Request :
          /\ Goto(p, r) /\ Sound(r)'
          /\ r.step = "insert" /\ r.at = <<t, 0>> /\ r.patch = x
    BY BeginInsert, RowFacts DEF Create
  <1>2. PICK k : k = <<"customers", x.customer>>
    OBVIOUS
  <1>3. /\ rows' = rows /\ customers' = customers /\ agreed' = agreed
        /\ req[p].step = "idle" /\ Known(x.customer) /\ Meets(p, {k}, FALSE)
    BY <1>2 DEF Create, Free
  <1>4. x.customer \in Owner
    BY FieldFacts, RowFacts
  <1>5. crossed \subseteq crossed' /\ crossed' \subseteq Keys
    <2>1. k \in Keys
      BY <1>2, <1>4, KeyFacts
    <2> QED  BY <1>3, <2>1, MeetsReading DEF IInv, TypeOK
  <1>6. SettlesWell(p, r)
    BY <1>1, <1>3, <1>5, SameSettles DEF SettlesWell
  <1>7. NamesWell(p, r)
    <2> SUFFICES ASSUME NEW c \in Customers, <<"customers", c>> \notin crossed'
                 PROVE  Names(r, c) => /\ c \in customers'
                                       /\ \A q \in Procs \ {p} : ~Deletes(req[q], c)
      BY <1>1, <1>3 DEF NamesWell, Deletes, Deleting
    <2> SUFFICES ASSUME Names(r, c)
                 PROVE  c \in customers /\ \A q \in Procs \ {p} : ~Deletes(req[q], c)
      BY <1>3
    <2>1. c = x.customer /\ k = <<"customers", c>>
      BY <1>1, <1>2 DEF Names
    <2>2. c \in customers
      BY <1>3, <2>1, NobodyAssumption DEF Known
    <2>3. ASSUME NEW q \in Procs \ {p}, Deletes(req[q], c) PROVE FALSE
      <3>1. k \in About(req[q]) /\ Decided(req[q])
        BY <2>1, <2>3, AboutFacts
      <3>2. k \in crossed'
        BY <1>3, <3>1, MeetsReading
      <3> QED  BY <2>1, <3>2
    <2> QED  BY <2>2, <2>3
  <1>8. ~InsertsCharge(req[p]) /\ ~InsertsCharge(r)
    BY <1>1, <1>3 DEF InsertsCharge
  <1> QED  BY <1>1, <1>3, <1>5, <1>6, <1>7, <1>8, AlikeStep, SameRows DEF IInv

LEMMA CreateIntentStep ==
  ASSUME IInv, NEW p \in Procs, CreatePaymentIntent(p)
  PROVE  IInv'
  <1>1. PICK c \in Owner, a \in Amounts,
             s \in {"requires_payment_method", "requires_confirmation"} :
          Create(p, "intents", [status |-> s, customer |-> c, amount |-> a])
    BY DEF CreatePaymentIntent
  <1>2. PICK x : x = [status |-> s, customer |-> c, amount |-> a]
    OBVIOUS
  <1>3. x \in Row("intents") /\ x.status \notin Final
    BY <1>2, RowFacts DEF Intent, Final
  <1> QED  BY <1>1, <1>2, <1>3, CreateStep

LEMMA CreateSessionStep ==
  ASSUME IInv, NEW p \in Procs, CreateCheckoutSession(p)
  PROVE  IInv'
  <1>1. PICK c \in Owner :
          Create(p, "sessions", [status |-> "open", payment_status |-> "unpaid",
                                 customer |-> c])
    BY DEF CreateCheckoutSession
  <1>2. PICK x : x = [status |-> "open", payment_status |-> "unpaid", customer |-> c]
    OBVIOUS
  <1>3. x \in Row("sessions") /\ x.status \notin Final
    BY <1>2, RowFacts DEF Session, Final
  <1> QED  BY <1>1, <1>2, <1>3, CreateStep

(* A decision on a record that is not final.                               *)
LEMMA DecideStep ==
  ASSUME IInv, NEW p \in Procs, NEW t \in {"intents", "sessions"},
         NEW i \in DOMAIN rows[t], NEW d \in Decisions(t),
         Status(t, i) \notin Final, Decide(p, t, i, d)
  PROVE  IInv'
  <1>1. PICK r : r = [Idle EXCEPT !.step = "settle", !.at = <<t, i>>, !.patch = d]
    OBVIOUS
  <1>2. r.step = "settle" /\ r.at = <<t, i>> /\ r.patch = d
    BY <1>1 DEF Idle
  <1>3. t \in Tables /\ <<t, i>> \in Keys
    BY RowFacts, IdKeys DEF IInv
  <1>4. r \in Request
    <2>1. d \in Patches
      BY PatchFacts
    <2>2. r = [step |-> "settle", at |-> <<t, i>>, patch |-> d, stages |-> <<>>,
               todo |-> {}]
      BY <1>1 DEF Idle
    <2> QED  BY <1>3, <2>1, <2>2 DEF Request
  <1>5. /\ Goto(p, r) /\ req[p].step = "idle" /\ Meets(p, {<<t, i>>}, TRUE)
        /\ rows' = rows /\ customers' = customers /\ agreed' = agreed
    BY <1>1 DEF Decide, WillWrite, Free
  <1>6. Sound(r)'
    BY <1>2, <1>5 DEF Sound, Deleting
  <1>7. crossed \subseteq crossed' /\ crossed' \subseteq Keys
    BY <1>3, <1>5, MeetsDeciding DEF IInv, TypeOK
  <1>8. SettlesWell(p, r)
    <2>1. ASSUME <<t, i>> \notin crossed'
          PROVE  \A q \in Procs \ {p} : req[q].step = "settle" => req[q].at # <<t, i>>
      BY <1>5, <2>1, MeetsDeciding, AboutFacts
    <2>2. ~FinalThen(<<t, i>>)
      BY <1>5 DEF FinalThen, Status
    <2> QED  BY <1>2, <1>5, <1>7, <2>1, <2>2, SameSettles DEF SettlesWell
  <1>9. NamesWell(p, r)
    BY <1>2, <1>5 DEF NamesWell, Names, Deletes, Deleting
  <1>10. ~InsertsCharge(req[p]) /\ ~InsertsCharge(r)
    BY <1>2, <1>5 DEF InsertsCharge
  <1> QED  BY <1>4, <1>5, <1>6, <1>7, <1>8, <1>9, <1>10, AlikeStep, SameRows DEF IInv

LEMMA DeleteCustomerStep ==
  ASSUME IInv, NEW p \in Procs, NEW c \in Customers, DeleteCustomer(p, c)
  PROVE  IInv'
  <1>1. PICK r : r = [Idle EXCEPT !.step = "list", !.at = <<"customers", c>>,
                                  !.stages = Stages]
    OBVIOUS
  <1>2. /\ r.step = "list" /\ r.at = <<"customers", c>> /\ r.patch = <<>>
        /\ r.stages = <<"intents", "charges", "sessions">>
    BY <1>1 DEF Idle, Stages
  <1>3. <<"customers", c>> \in Keys
    BY KeyFacts DEF Owner
  <1>4. r \in Request
    <2>1. Stages \in Seq(Tables)
      BY RestFacts DEF Stages, Rests
    <2>2. r = [step |-> "list", at |-> <<"customers", c>>, patch |-> <<>>,
               stages |-> Stages, todo |-> {}]
      BY <1>1 DEF Idle
    <2> QED  BY <1>3, <2>1, <2>2, PatchFacts DEF Request
  <1>5. /\ Goto(p, r) /\ req[p].step = "idle" /\ c \in customers
        /\ Meets(p, {<<"customers", c>>}, TRUE)
        /\ rows' = rows /\ customers' = customers /\ agreed' = agreed
    BY <1>1 DEF DeleteCustomer, Free
  <1>6. Sound(r)'
    BY <1>2 DEF Sound, Deleting, Rests
  <1>7. crossed \subseteq crossed' /\ crossed' \subseteq Keys
    BY <1>3, <1>5, MeetsDeciding DEF IInv, TypeOK
  <1>8. SettlesWell(p, r)
    BY <1>2, <1>5, <1>7, SameSettles DEF SettlesWell
  <1>9. NamesWell(p, r)
    <2> SUFFICES ASSUME NEW e \in Customers, <<"customers", e>> \notin crossed',
                        Deletes(r, e)
                 PROVE  /\ e \in customers' /\ Gone(r, e)'
                        /\ \A q \in Procs \ {p} :
                             ~Names(req[q], e) /\ ~Deletes(req[q], e)
      BY <1>2, <1>5 DEF NamesWell, Names
    <2>1. e = c
      BY <1>2 DEF Deletes
    <2>2. Gone(r, e)'
      BY <1>2, RestFacts DEF Gone, Passed, Rests
    <2>3. \A q \in Procs \ {p} : ~Names(req[q], e)
      BY <1>5, <2>1, MeetsDeciding, NamesFacts DEF IInv
    <2>4. \A q \in Procs \ {p} : ~Deletes(req[q], e)
      BY <1>5, <2>1, MeetsDeciding, AboutFacts
    <2> QED  BY <1>5, <2>1, <2>2, <2>3, <2>4
  <1>10. ~InsertsCharge(req[p]) /\ ~InsertsCharge(r)
    BY <1>2, <1>5 DEF InsertsCharge
  <1> QED  BY <1>4, <1>5, <1>6, <1>7, <1>8, <1>9, <1>10, AlikeStep, SameRows DEF IInv
-----------------------------------------------------------------------------
(* Requests that write a record.                                           *)

LEMMA PutTyped ==
  ASSUME TypeOK, NEW t \in Tables, NEW i \in Ids(t), NEW x \in Row(t), Put(t, i, x)
  PROVE  /\ Growing /\ RowsTyped /\ DOMAIN rows' = Tables
         /\ \A u \in Tables : DOMAIN rows'[u] \subseteq Ids(u)
  BY PutFacts DEF TypeOK, Growing, RowsTyped

LEMMA OthersKept ==
  ASSUME IInv, NEW p \in Procs, NEW t \in Tables, NEW i, NEW x, Put(t, i, x),
         crossed \subseteq crossed',
         \A q \in Procs \ {p} : req[q].step = "settle" /\ req[q].at = <<t, i>>
                                  /\ <<t, i>> \notin crossed' => x.status \notin Final
  PROVE  \A q \in Procs \ {p} :
           req[q].step = "settle" /\ req[q].at \notin crossed' => ~FinalThen(req[q].at)
  <1> SUFFICES ASSUME NEW q \in Procs \ {p}, req[q].step = "settle",
                      req[q].at \notin crossed'
               PROVE  ~FinalThen(req[q].at)
    OBVIOUS
  <1>1. PICK u \in {"intents", "sessions"} :
          \E j \in DOMAIN rows[u] : req[q].at = <<u, j>>
    BY DEF IInv, Sound
  <1> PICK j \in DOMAIN rows[u] : req[q].at = <<u, j>>
    BY <1>1
  <1>2. PICK a : a = <<u, j>>
    OBVIOUS
  <1>3. a[1] = u /\ a[2] = j /\ u \in Tables /\ req[q].at = a
    BY <1>2, RowFacts
  <1>4. rows[u][j].status \notin Final
    BY <1>3 DEF IInv, SettlesSound, Status
  <1>5. CASE u = t /\ j = i
    BY <1>2, <1>3, <1>5, PutFacts DEF FinalThen, IInv, TypeOK
  <1>6. CASE ~(u = t /\ j = i)
    <2>1. rows'[u][j] = rows[u][j]
      BY <1>3, <1>6, PutFacts DEF IInv, TypeOK
    <2> QED  BY <1>3, <1>4, <2>1 DEF FinalThen
  <1> QED  BY <1>5, <1>6

LEMMA OwnersKept ==
  ASSUME TypeOK, NEW t \in Tables, NEW i \in DOMAIN rows[t], NEW x, Put(t, i, x),
         x.customer = rows[t][i].customer
  PROVE  \A u \in Tables, c \in Customers : Naming(u, c)' = Naming(u, c)
  BY PutFacts DEF TypeOK, Naming

(* A decision is written.                                                  *)
LEMMA SettleStep ==
  ASSUME IInv, NEW p \in Procs, Settle(p)
  PROVE  IInv'
  <1>1. PICK t \in {"intents", "sessions"} : \E i \in DOMAIN rows[t] :
          req[p].at = <<t, i>> /\ req[p].patch \in Decisions(t)
    BY DEF IInv, Sound, Settle
  <1> PICK i \in DOMAIN rows[t] :
        req[p].at = <<t, i>> /\ req[p].patch \in Decisions(t)
    BY <1>1
  <1> PICK d \in Decisions(t) : d = req[p].patch
    OBVIOUS
  <1>2. PICK x : x = Over(d, rows[t][i])
    OBVIOUS
  <1>3. /\ t \in Tables /\ req[p].step = "settle" /\ Put(t, i, x) /\ Goto(p, Idle)
        /\ customers' = customers /\ agreed' = agreed /\ crossed' = crossed
    <2>1. PICK a : a = req[p].at /\ a[1] = t /\ a[2] = i
      BY <1>1
    <2> QED  BY <1>2, <2>1, RowFacts DEF Settle, With, Done
  <1>4. rows[t][i] \in Row(t) /\ i \in Ids(t)
    BY <1>3 DEF IInv, TypeOK
  <1>5. x \in Row(t) /\ x.customer = rows[t][i].customer
    <2>1. CASE t = "intents"
      BY <1>2, <1>4, <2>1, IntentDecided, RowFacts
    <2>2. CASE t = "sessions"
      BY <1>2, <1>4, <2>2, SessionDecided, RowFacts
    <2> QED  BY <2>1, <2>2
  <1>6. t = "intents" => x.status # "succeeded"
    BY <1>2, <1>4, IntentDecided, RowFacts
  <1>7. <<t, i>> \notin crossed =>
          /\ rows[t][i].status \notin Final
          /\ \A q \in Procs \ {p} : ~(req[q].step = "settle" /\ req[q].at = <<t, i>>)
    <2>1. PICK a : a = req[p].at /\ a[1] = t /\ a[2] = i /\ a = <<t, i>>
      BY <1>1
    <2> QED  BY <1>3, <2>1 DEF IInv, SettlesSound, Status
  <1>8. Growing /\ RowsTyped
    BY <1>3, <1>4, <1>5, PutTyped DEF IInv
  <1>9. Alike
    <2>1. \A j \in DOMAIN rows["intents"] : <<"intents", j>> \notin crossed =>
            (rows'["intents"][j].status = "succeeded" <=>
               rows["intents"][j].status = "succeeded")
      <3>1. CASE t = "intents"
        BY <1>3, <1>6, <1>7, <3>1, PutFacts DEF IInv, TypeOK, Final
      <3>2. CASE t # "intents"
        BY <1>3, <3>2, PutFacts, RowFacts DEF IInv, TypeOK
      <3> QED  BY <3>1, <3>2
    <2>2. \A u \in Tables : DOMAIN rows'[u] = DOMAIN rows[u]
      BY <1>3, PutFacts DEF IInv, TypeOK
    <2>3. rows'["charges"] = rows["charges"] /\ DOMAIN rows' = Tables
      BY <1>3, PutFacts, RowFacts DEF IInv, TypeOK
    <2> QED  BY <2>1, <2>2, <2>3 DEF Alike
  <1>10. SettlesWell(p, Idle)
    <2>1. \A q \in Procs \ {p} : req[q].step = "settle" /\ req[q].at = <<t, i>>
                                  /\ <<t, i>> \notin crossed' => x.status \notin Final
      BY <1>3, <1>7
    <2> QED  BY <1>3, <2>1, OthersKept, IdleFacts DEF SettlesWell
  <1>11. NamesWell(p, Idle)
    BY <1>3, IdleFacts DEF NamesWell, Names, Deletes, Deleting
  <1>12. ~InsertsCharge(req[p]) /\ ~InsertsCharge(Idle) /\ Sound(Idle)'
    BY <1>3, IdleFacts DEF InsertsCharge, Sound, Deleting
  <1>13. \A u \in Tables, c \in Customers : Naming(u, c)' \subseteq Naming(u, c)
    BY <1>3, <1>5, OwnersKept DEF IInv
  <1> QED  BY <1>3, <1>8, <1>9, <1>10, <1>11, <1>12, <1>13, AlikeStep, IdleFacts
           DEF IInv, TypeOK

(* The amount is written whatever the status is.                           *)
LEMMA AmountStep ==
  ASSUME IInv, NEW p \in Procs, NEW i \in DOMAIN rows["intents"], Free(p),
         NEW d \in NewAmount, With("intents", i, d),
         UNCHANGED <<customers, req, agreed, crossed>>
  PROVE  IInv'
  <1>1. PICK x : x = Over(d, rows["intents"][i])
    OBVIOUS
  <1>2. /\ Put("intents", i, x) /\ req[p].step = "idle"
        /\ customers' = customers /\ agreed' = agreed /\ crossed' = crossed /\ req' = req
    BY <1>1 DEF With, Free
  <1>3. rows["intents"][i] \in Intent /\ i \in Ids("intents") /\ "intents" \in Tables
    BY RowFacts DEF IInv, TypeOK
  <1>4. /\ x \in Row("intents") /\ x.customer = rows["intents"][i].customer
        /\ x.status = rows["intents"][i].status
    BY <1>1, <1>3, AmountWritten, RowFacts
  <1>5. PICK r \in Request : r = req[p] /\ Sound(r) /\ r = Idle
    BY <1>2 DEF IInv, TypeOK, Sound
  <1>6. Goto(p, r)
    BY <1>2, <1>5 DEF Goto, IInv, TypeOK
  <1>7. Growing /\ RowsTyped
    BY <1>2, <1>3, <1>4, PutTyped DEF IInv
  <1>8. Alike
    <2>1. \A u \in Tables : DOMAIN rows'[u] = DOMAIN rows[u]
      BY <1>2, <1>3, PutFacts DEF IInv, TypeOK
    <2>2. rows'["charges"] = rows["charges"] /\ DOMAIN rows' = Tables
      BY <1>2, <1>3, PutFacts, RowFacts DEF IInv, TypeOK
    <2>3. \A j \in DOMAIN rows["intents"] :
            rows'["intents"][j].status = rows["intents"][j].status
      BY <1>2, <1>3, <1>4, PutFacts DEF IInv, TypeOK
    <2> QED  BY <2>1, <2>2, <2>3 DEF Alike
  <1>9. SettlesWell(p, r)
    <2>1. \A q \in Procs \ {p} : req[q].step = "settle" /\ req[q].at = <<"intents", i>>
                 /\ <<"intents", i>> \notin crossed' => x.status \notin Final
      <3> SUFFICES ASSUME NEW q \in Procs, req[q].step = "settle",
                          req[q].at = <<"intents", i>>, <<"intents", i>> \notin crossed
                   PROVE  rows["intents"][i].status \notin Final
        BY <1>2, <1>4
      <3>1. PICK a : a = req[q].at /\ a[1] = "intents" /\ a[2] = i /\ a = <<"intents", i>>
        OBVIOUS
      <3> QED  BY <3>1 DEF IInv, SettlesSound, Status
    <2> QED  BY <1>2, <1>3, <1>5, <2>1, OthersKept, IdleFacts DEF SettlesWell
  <1>10. NamesWell(p, r)
    BY <1>2, <1>5, IdleFacts DEF NamesWell, Names, Deletes, Deleting
  <1>11. ~InsertsCharge(req[p]) /\ ~InsertsCharge(r) /\ Sound(r)'
    BY <1>2, <1>5, IdleFacts DEF InsertsCharge, Sound, Deleting
  <1>12. \A u \in Tables, c \in Customers : Naming(u, c)' \subseteq Naming(u, c)
    BY <1>2, <1>3, <1>4, OwnersKept DEF IInv
  <1> QED  BY <1>2, <1>6, <1>7, <1>8, <1>9, <1>10, <1>11, <1>12, AlikeStep
           DEF IInv, TypeOK

-----------------------------------------------------------------------------
(* The steps of a deletion.                                                *)

LEMMA DeletingFacts ==
  ASSUME IInv, NEW p \in Procs, Deleting(req[p])
  PROVE  /\ \E c \in Customers : req[p].at = <<"customers", c>>
         /\ req[p].patch = <<>> /\ req[p].stages \in Rests
         /\ req[p].step # "insert" /\ ~InsertsCharge(req[p])
         /\ \A c \in Customers : Deletes(req[p], c) /\ <<"customers", c>> \notin crossed =>
              /\ c \in customers /\ Gone(req[p], c)
              /\ \A q \in Procs \ {p} : ~Names(req[q], c) /\ ~Deletes(req[q], c)
  <1>1. Sound(req[p])
    BY DEF IInv
  <1>2. \A c \in Customers : Deletes(req[p], c) /\ <<"customers", c>> \notin crossed =>
          /\ c \in customers /\ Gone(req[p], c)
          /\ \A q \in Procs \ {p} : ~Names(req[q], c) /\ ~Deletes(req[q], c)
    BY DEF IInv, CustomersSound
  <1> QED  BY <1>1, <1>2 DEF Sound, Deleting, InsertsCharge

LEMMA ListStep ==
  ASSUME IInv, NEW p \in Procs, List(p)
  PROVE  IInv'
  <1>1. PICK o \in Request : o = req[p] /\ Sound(o)
    BY DEF IInv, TypeOK
  <1>2. PICK e \in Customers : o.at = <<"customers", e>>
    BY <1>1 DEF Sound, Deleting, List
  <1>3. PICK h \in Tables : h = Head(o.stages) /\ o.stages \in Rests
    BY <1>1, RestFacts DEF Sound, Deleting, List
  <1>4. PICK S : S = Naming(h, e)
    OBVIOUS
  <1>5. PICK r : r = [o EXCEPT !.step = "detach", !.todo = S]
    OBVIOUS
  <1>6. /\ o.step = "list" /\ Goto(p, r) /\ rows' = rows /\ customers' = customers
        /\ agreed' = agreed /\ crossed' = crossed
    BY <1>1, <1>2, <1>3, <1>4, <1>5 DEF List
  <1>7. S \subseteq DOMAIN rows[h] /\ S \subseteq Nat
    BY <1>3, <1>4, IdKeys DEF IInv, Naming
  <1>8. /\ r \in Request /\ r.step = "detach" /\ r.at = o.at /\ r.patch = o.patch
        /\ r.stages = o.stages /\ r.todo = S
    BY <1>1, <1>5, <1>7 DEF Request
  <1>9. Sound(r)'
    BY <1>1, <1>3, <1>6, <1>7, <1>8 DEF Sound, Deleting
  <1>10. Deleting(req[p])
    BY <1>1, <1>6 DEF Deleting
  <1>11. NamesWell(p, r)
    <2> SUFFICES ASSUME NEW c \in Customers, <<"customers", c>> \notin crossed,
                        Deletes(r, c)
                 PROVE  /\ c \in customers /\ Gone(r, c)
                        /\ \A q \in Procs \ {p} :
                             ~Names(req[q], c) /\ ~Deletes(req[q], c)
      BY <1>6, <1>8, SameRows DEF NamesWell, Names, IInv
    <2>1. c = e /\ Deletes(req[p], c)
      BY <1>1, <1>2, <1>8, <1>10 DEF Deletes
    <2>2. /\ c \in customers /\ Gone(o, c)
          /\ \A q \in Procs \ {p} : ~Names(req[q], c) /\ ~Deletes(req[q], c)
      BY <1>1, <1>10, <2>1, DeletingFacts
    <2>3. Gone(r, c)
      BY <1>3, <1>4, <1>8, <2>1, <2>2 DEF Gone
    <2> QED  BY <2>2, <2>3
  <1>12. SettlesWell(p, r)
    BY <1>6, <1>8, SameSettles DEF SettlesWell
  <1>13. ~InsertsCharge(req[p]) /\ ~InsertsCharge(r)
    BY <1>1, <1>6, <1>8 DEF InsertsCharge
  <1> QED  BY <1>6, <1>8, <1>9, <1>11, <1>12, <1>13, AlikeStep, SameRows
           DEF IInv, TypeOK

LEMMA NextStageStep ==
  ASSUME IInv, NEW p \in Procs, NextStage(p)
  PROVE  IInv'
  <1>1. PICK o \in Request : o = req[p] /\ Sound(o)
    BY DEF IInv, TypeOK
  <1>2. PICK e \in Customers : o.at = <<"customers", e>>
    BY <1>1 DEF Sound, Deleting, NextStage
  <1>3. PICK h \in Tables : h = Head(o.stages) /\ o.stages \in Rests
    BY <1>1, RestFacts DEF Sound, Deleting, NextStage
  <1>4. /\ o.step = "detach" /\ o.todo = {} /\ rows' = rows
        /\ agreed' = agreed /\ crossed' = crossed
    BY <1>1 DEF NextStage
  <1>5. Deleting(req[p]) /\ Deletes(req[p], e)
    BY <1>1, <1>2, <1>4 DEF Deleting, Deletes
  <1>6. <<"customers", e>> \notin crossed =>
          /\ e \in customers
          /\ \A t \in Tables : Passed(t, o.stages) \/ t = h => Naming(t, e) = {}
          /\ \A q \in Procs \ {p} : ~Names(req[q], e) /\ ~Deletes(req[q], e)
    BY <1>1, <1>3, <1>4, <1>5, DeletingFacts DEF Gone
  <1>7. ~InsertsCharge(req[p])
    BY <1>5, DeletingFacts
  <1>8. CASE Tail(o.stages) = <<>>
    <2>1. customers' = customers \ {e} /\ Goto(p, Idle)
      <3>1. PICK a : a = o.at /\ a[2] = e
        BY <1>2
      <3> QED  BY <1>1, <1>8, <3>1 DEF NextStage, Done
    <2>2. o.stages = <<"sessions">>
      BY <1>3, <1>8, RestFacts DEF Rests
    <2>3. \A t \in Tables : Passed(t, o.stages) \/ t = h
      BY <1>3, <2>2, RowFacts, RestFacts DEF Passed
    <2>4. NamesWell(p, Idle)
      <3> SUFFICES ASSUME NEW c \in Customers, <<"customers", c>> \notin crossed,
                          c \in customers \ customers'
                   PROVE  /\ \A t \in Tables : Naming(t, c)' = {}
                          /\ \A q \in Procs \ {p} :
                               ~Names(req[q], c) /\ ~Deletes(req[q], c)
        BY <1>4, IdleFacts DEF NamesWell, Names, Deletes, Deleting
      <3>1. c = e
        BY <2>1
      <3> QED  BY <1>4, <1>6, <2>3, <3>1, SameRows DEF IInv
    <2>5. SettlesWell(p, Idle)
      BY <1>4, IdleFacts, SameSettles DEF SettlesWell
    <2>6. ~InsertsCharge(Idle) /\ Sound(Idle)'
      BY IdleFacts DEF InsertsCharge, Sound, Deleting
    <2> QED  BY <1>4, <1>7, <2>1, <2>4, <2>5, <2>6, AlikeStep, SameRows, IdleFacts
             DEF IInv, TypeOK
  <1>9. CASE Tail(o.stages) # <<>>
    <2>1. PICK rest : rest = Tail(o.stages) /\ rest \in Rests /\ rest \in Seq(Tables)
      BY <1>3, <1>9, RestFacts DEF Rests
    <2>2. PICK r : r = [o EXCEPT !.step = "list", !.stages = rest]
      OBVIOUS
    <2>3. Goto(p, r) /\ customers' = customers
      BY <1>1, <1>9, <2>1, <2>2 DEF NextStage
    <2>4. /\ r \in Request /\ r.step = "list" /\ r.at = o.at /\ r.patch = o.patch
          /\ r.stages = rest
      BY <1>1, <2>1, <2>2 DEF Request
    <2>5. Sound(r)'
      BY <1>1, <1>4, <2>1, <2>4 DEF Sound, Deleting
    <2>6. \A t \in Tables : Passed(t, rest) => Passed(t, o.stages) \/ t = h
      BY <1>3, <2>1, RestFacts DEF Passed, Rests
    <2>7. NamesWell(p, r)
      <3> SUFFICES ASSUME NEW c \in Customers, <<"customers", c>> \notin crossed,
                          Deletes(r, c)
                   PROVE  /\ c \in customers /\ Gone(r, c)
                          /\ \A q \in Procs \ {p} :
                               ~Names(req[q], c) /\ ~Deletes(req[q], c)
        BY <1>4, <2>3, <2>4, SameRows DEF NamesWell, Names, IInv
      <3>1. c = e
        BY <1>2, <2>4 DEF Deletes
      <3>2. Gone(r, c)
        BY <1>6, <2>4, <2>6, <3>1 DEF Gone
      <3> QED  BY <1>6, <3>1, <3>2
    <2>8. SettlesWell(p, r)
      BY <1>4, <2>4, SameSettles DEF SettlesWell
    <2>9. ~InsertsCharge(r)
      BY <2>4 DEF InsertsCharge
    <2> QED  BY <1>4, <1>7, <2>3, <2>4, <2>5, <2>7, <2>8, <2>9, AlikeStep, SameRows
             DEF IInv, TypeOK
  <1> QED  BY <1>8, <1>9
(* A record that names the customer loses it.                              *)
LEMMA DetachStep ==
  ASSUME IInv, NEW p \in Procs, Detach(p)
  PROVE  IInv'
  <1>1. PICK o \in Request : o = req[p] /\ Sound(o)
    BY DEF IInv, TypeOK
  <1>2. PICK h \in Tables : h = Head(o.stages) /\ o.stages \in Rests
    BY <1>1, RestFacts DEF Sound, Deleting, Detach
  <1>3. PICK i \in DOMAIN rows[h] : i = Min(o.todo) /\ i \in o.todo
    <2>1. o.todo # {} /\ o.todo \in SUBSET Nat
      BY <1>1 DEF Detach, Request
    <2>2. o.todo \subseteq DOMAIN rows[h]
      BY <1>1, <1>2 DEF Sound, Detach
    <2> QED  BY <2>1, <2>2, MinFacts
  <1>4. PICK x : x = Over(Detachment, rows[h][i])
    OBVIOUS
  <1>5. PICK S : S = o.todo \ {i}
    OBVIOUS
  <1>6. PICK r : r = [o EXCEPT !.todo = S]
    OBVIOUS
  <1>7. /\ o.step = "detach" /\ Put(h, i, x) /\ Goto(p, r)
        /\ customers' = customers /\ agreed' = agreed /\ crossed' = crossed
    <2>1. r = [o EXCEPT !.todo = @ \ {i}]
      BY <1>5, <1>6
    <2> QED  BY <1>1, <1>2, <1>3, <1>4, <2>1 DEF Detach, With
  <1>8. rows[h][i] \in Row(h) /\ i \in Ids(h)
    BY DEF IInv, TypeOK
  <1>9. /\ x \in Row(h) /\ x.customer = Nobody
        /\ h # "charges" => x.status = rows[h][i].status
        /\ h = "charges" => /\ x.intent = rows[h][i].intent
                            /\ x.amount = rows[h][i].amount
    BY <1>4, <1>8, CustomerDetached
  <1>10. Growing /\ RowsTyped /\ DOMAIN rows' = Tables
    BY <1>7, <1>8, <1>9, PutTyped DEF IInv
  <1>11. /\ \A u \in Tables : DOMAIN rows'[u] = DOMAIN rows[u]
         /\ rows'[h][i] = x
         /\ \A u \in Tables : \A j \in DOMAIN rows[u] :
              ~(u = h /\ j = i) => rows'[u][j] = rows[u][j]
    BY <1>7, PutFacts DEF IInv, TypeOK
  <1>12. Alike
    <2>1. \A j \in DOMAIN rows["intents"] :
            rows'["intents"][j].status = rows["intents"][j].status
      BY <1>9, <1>11, RowFacts
    <2>2. \A k \in DOMAIN rows["charges"] :
            /\ rows'["charges"][k].intent = rows["charges"][k].intent
            /\ rows'["charges"][k].amount = rows["charges"][k].amount
      BY <1>9, <1>11, RowFacts
    <2> QED  BY <1>10, <1>11, <2>1, <2>2 DEF Alike
  <1>13. /\ r \in Request /\ r.step = "detach" /\ r.at = o.at /\ r.patch = o.patch
         /\ r.stages = o.stages /\ r.todo = S
    <2>1. S \in SUBSET Nat
      BY <1>1, <1>5 DEF Request
    <2> QED  BY <1>1, <1>6, <1>7, <2>1 DEF Request
  <1>14. Sound(r)'
    <2>1. S \subseteq DOMAIN rows'[h]
      BY <1>1, <1>2, <1>5, <1>7, <1>11 DEF Sound
    <2> QED  BY <1>1, <1>2, <1>7, <1>13, <2>1 DEF Sound, Deleting
  <1>15. \A u \in Tables, c \in Customers :
           /\ Naming(u, c)' \subseteq Naming(u, c)
           /\ u = h => i \notin Naming(u, c)'
    BY <1>9, <1>11, NobodyAssumption DEF Naming
  <1>16. SettlesWell(p, r)
    <2>1. \A q \in Procs \ {p} : req[q].step = "settle" /\ req[q].at = <<h, i>>
                                  /\ <<h, i>> \notin crossed' => x.status \notin Final
      <3> SUFFICES ASSUME NEW q \in Procs, req[q].step = "settle",
                          req[q].at = <<h, i>>, <<h, i>> \notin crossed
                   PROVE  x.status \notin Final
        BY <1>7
      <3>1. PICK a : a = req[q].at /\ a[1] = h /\ a[2] = i /\ a = <<h, i>>
        OBVIOUS
      <3>2. rows[h][i].status \notin Final
        BY <3>1 DEF IInv, SettlesSound, Status
      <3>3. h # "charges"
        <4>1. \E t \in {"intents", "sessions"} : \E j \in DOMAIN rows[t] : a = <<t, j>>
          BY <3>1 DEF IInv, Sound
        <4> QED  BY <3>1, <4>1
      <3> QED  BY <1>9, <3>2, <3>3
    <2> QED  BY <1>7, <1>13, <2>1, OthersKept DEF SettlesWell
  <1>17. Deleting(req[p]) /\ ~InsertsCharge(r)
    BY <1>1, <1>7, <1>13 DEF Deleting, InsertsCharge
  <1>18. NamesWell(p, r)
    <2> SUFFICES ASSUME NEW c \in Customers, <<"customers", c>> \notin crossed,
                        Deletes(r, c)
                 PROVE  /\ c \in customers /\ Gone(r, c)'
                        /\ \A q \in Procs \ {p} :
                             ~Names(req[q], c) /\ ~Deletes(req[q], c)
      BY <1>7, <1>13 DEF NamesWell, Names
    <2>1. Deletes(req[p], c)
      BY <1>1, <1>7, <1>13 DEF Deletes, Deleting
    <2>2. /\ c \in customers /\ Gone(o, c)
          /\ \A q \in Procs \ {p} : ~Names(req[q], c) /\ ~Deletes(req[q], c)
      BY <1>1, <1>17, <2>1, DeletingFacts
    <2>3. Gone(r, c)'
      <3> SUFFICES ASSUME NEW t \in Tables
                   PROVE  /\ Passed(t, r.stages) => Naming(t, c)' = {}
                          /\ t = Head(r.stages) => Naming(t, c)' \subseteq r.todo
        BY DEF Gone
      <3>1. Passed(t, r.stages) => Naming(t, c)' = {}
        BY <1>13, <1>15, <2>2 DEF Gone
      <3>2. ASSUME t = Head(r.stages) PROVE Naming(t, c)' \subseteq r.todo
        <4>1. t = h /\ Naming(t, c) \subseteq o.todo
          BY <1>2, <1>7, <1>13, <2>2, <3>2 DEF Gone
        <4> QED  BY <1>5, <1>13, <1>15, <4>1
      <3> QED  BY <3>1, <3>2
    <2> QED  BY <2>2, <2>3
  <1>19. ~InsertsCharge(req[p])
    BY <1>17, DeletingFacts
  <1> QED  BY <1>7, <1>10, <1>12, <1>13, <1>14, <1>15, <1>16, <1>17, <1>18, <1>19,
              AlikeStep DEF IInv, TypeOK

-----------------------------------------------------------------------------
(* A confirmation decides and leaves its charge to be inserted.            *)
LEMMA ConfirmStep ==
  ASSUME IInv, NEW p \in Procs, NEW i \in DOMAIN rows["intents"],
         ConfirmPaymentIntent(p, i)
  PROVE  IInv'
  <1>1. PICK o \in Request : o = req[p] /\ Sound(o)
    BY DEF IInv, TypeOK
  <1>2. PICK w \in Intent : w = rows["intents"][i]
    BY RowFacts DEF IInv, TypeOK
  <1>3. PICK x : x = Over([status |-> "succeeded"], w)
    OBVIOUS
  <1>4. PICK y : y = [intent |-> i, customer |-> w.customer, amount |-> w.amount]
    OBVIOUS
  <1>5. PICK ks : ks = {<<"intents", i>>, <<"customers", w.customer>>}
    OBVIOUS
  <1>6. /\ o.step = "idle" /\ Put("intents", i, x) /\ Meets(p, ks, FALSE)
        /\ WillWrite(p, "insert", <<"charges", 0>>, y)
        /\ agreed' = agreed \cup {<<i, w.amount>>} /\ customers' = customers
        /\ w.status \in {"requires_confirmation", "requires_payment_method"}
    BY <1>1, <1>2, <1>3, <1>4, <1>5
       DEF ConfirmPaymentIntent, With, Free, Confirmable, Status
  <1>7. i \in Ids("intents") /\ "intents" \in Tables /\ "charges" \in Tables
    BY RowFacts DEF IInv, TypeOK
  <1>8. x \in Intent /\ x.customer = w.customer /\ x.status = "succeeded"
    BY <1>3, IntentConfirmed
  <1>9. y \in Charge /\ y.intent = i /\ y.customer = w.customer /\ y.amount = w.amount
    BY <1>4, <1>7, FieldFacts DEF Charge
  <1>10. /\ Growing /\ RowsTyped /\ DOMAIN rows' = Tables
         /\ \A u \in Tables : DOMAIN rows'[u] = DOMAIN rows[u]
         /\ rows'["intents"][i] = x
         /\ \A j \in DOMAIN rows["intents"] :
              j # i => rows'["intents"][j] = rows["intents"][j]
         /\ rows'["charges"] = rows["charges"]
    <2>1. Growing /\ RowsTyped /\ DOMAIN rows' = Tables
      BY <1>6, <1>7, <1>8, PutTyped, RowFacts DEF IInv
    <2>2. DOMAIN rows = Tables
      BY DEF IInv, TypeOK
    <2>3. /\ DOMAIN rows'["intents"] = DOMAIN rows["intents"] \cup {i}
          /\ rows'["intents"][i] = x
          /\ \A j \in DOMAIN rows["intents"] :
               j # i => rows'["intents"][j] = rows["intents"][j]
          /\ \A u \in Tables : u # "intents" => rows'[u] = rows[u]
      BY <1>6, <1>7, <2>2, PutFacts
    <2>4. \A u \in Tables : DOMAIN rows'[u] = DOMAIN rows[u]
      BY <2>3
    <2> QED  BY <1>7, <2>1, <2>3, <2>4
  <1>11. PICK r \in Request :
           /\ Goto(p, r) /\ Sound(r)'
           /\ r.step = "insert" /\ r.at = <<"charges", 0>> /\ r.patch = y
    BY <1>6, <1>7, <1>9, <1>10, BeginInsert, RowFacts
  <1>12. /\ req' \in [Procs -> Request] /\ \A q \in Procs : Sound(req[q])'
         /\ Moves(p, o, r)
    BY <1>1, <1>10, <1>11, RequestsSound DEF IInv, Moves
  <1>13. crossed \subseteq crossed' /\ crossed' \subseteq Keys
    <2>1. ks \subseteq Keys
      BY <1>2, <1>5, <1>7, KeyFacts, FieldFacts
    <2> QED  BY <1>6, <2>1, MeetsReading DEF IInv, TypeOK
  <1>14. Numbered'
    BY <1>10 DEF IInv, Numbered
  <1>15. TypeOK'
    <2>1. <<i, w.amount>> \in Ids("intents") \X Amounts
      BY <1>7, FieldFacts
    <2> QED  BY <1>6, <1>10, <1>12, <1>13, <2>1 DEF IInv, TypeOK, RowsTyped
  <1>16. SettlesSound'
    <2>1. \A q \in Procs \ {p} : req[q].step = "settle" /\ req[q].at = <<"intents", i>>
             /\ <<"intents", i>> \notin crossed' => x.status \notin Final
      <3> SUFFICES ASSUME NEW q \in Procs \ {p}, req[q].step = "settle",
                          req[q].at = <<"intents", i>>
                   PROVE  <<"intents", i>> \in crossed'
        OBVIOUS
      <3>1. PICK k : k = <<"intents", i>>
        OBVIOUS
      <3>2. k \in About(req[q]) /\ Decided(req[q]) /\ k \in ks
        BY <1>5, <3>1, AboutFacts
      <3> QED  BY <1>6, <3>1, <3>2, MeetsReading
    <2>2. \A q \in Procs \ {p} : req[q].step = "settle" /\ req[q].at \notin crossed'
            => ~FinalThen(req[q].at)
      BY <1>6, <1>7, <1>13, <2>1, OthersKept
    <2> QED  BY <1>11, <1>12, <1>13, <2>2, SettlesStep DEF IInv
  <1>17. /\ p \notin Pending({"charges"})
         /\ Pending({"charges"})' = Pending({"charges"}) \cup {p}
         /\ \A q \in Pending({"charges"}) : req'[q] = req[q]
         /\ req'[p] = r
    <2>1. r.at[1] = "charges"
      BY <1>11
    <2> QED  BY <1>1, <1>6, <1>11, <1>12, <2>1 DEF Pending, Moves
  <1>18. /\ \A j : ChargesOf(j)' = ChargesOf(j)
         /\ \A j : j # i => Charging(j)' = Charging(j)
         /\ Charging(i)' = Charging(i) \cup {p}
    BY <1>9, <1>10, <1>11, <1>17 DEF ChargesOf, Charging
  <1>19. ChargesSound'
    <2> SUFFICES ASSUME NEW j \in DOMAIN rows["intents"], <<"intents", j>> \notin crossed'
                 PROVE  Charged(j)'
      BY <1>7, <1>10 DEF IInv, ChargesSound
    <2>1. Charged(j)
      BY <1>13 DEF IInv, ChargesSound
    <2>2. CASE j = i
      <3>1. ChargesOf(i) = {} /\ Charging(i) = {}
        BY <1>2, <1>6, <2>1, <2>2 DEF Charged, Status
      <3> QED  BY <1>8, <1>10, <1>18, <2>2, <3>1 DEF Charged, Status
    <2>3. CASE j # i
      BY <1>10, <1>18, <2>1, <2>3 DEF Charged, Status
    <2> QED  BY <2>2, <2>3
  <1>20. ChargedAsConfirmed'
    <2>1. {req[q].patch : q \in Pending({"charges"})}'
            = {req[q].patch : q \in Pending({"charges"})} \cup {y}
      BY <1>11, <1>17
    <2>2. Range(rows.charges)' = Range(rows.charges)
      BY <1>10
    <2>3. \A S, T : {<<c.intent, c.amount>> : c \in S \cup (T \cup {y})}
                      = {<<c.intent, c.amount>> : c \in S \cup T}
                          \cup {<<i, w.amount>>}
      BY <1>9
    <2> QED  BY <1>6, <2>1, <2>2, <2>3 DEF IInv, ChargedAsConfirmed
  <1>21. CustomersSound'
    <2>1. \A t \in Tables, c \in Customers : Naming(t, c)' = Naming(t, c)
      BY <1>2, <1>6, <1>7, <1>8, OwnersKept DEF IInv
    <2>2. ASSUME NEW c \in Customers, <<"customers", c>> \notin crossed', Names(r, c)
          PROVE  c \in customers' /\ \A q \in Procs \ {p} : ~Deletes(req[q], c)
      <3>1. c = w.customer
        BY <1>9, <1>11, <2>2 DEF Names
      <3>2. i \in Naming("intents", c)
        BY <1>2, <3>1 DEF Naming
      <3>3. c \in customers
        BY <1>7, <1>13, <2>2, <3>2 DEF IInv, CustomersSound
      <3>4. ASSUME NEW q \in Procs \ {p}, Deletes(req[q], c) PROVE FALSE
        <4>1. PICK k : k = <<"customers", c>>
          OBVIOUS
        <4>2. k \in ks /\ k \in About(req[q]) /\ Decided(req[q])
          BY <1>5, <3>1, <3>4, <4>1, AboutFacts
        <4> QED  BY <1>6, <2>2, <4>1, <4>2, MeetsReading
      <3> QED  BY <1>6, <3>3, <3>4
    <2>3. \A c \in Customers : ~Deletes(r, c)
      BY <1>11 DEF Deletes, Deleting
    <2> QED  BY <1>6, <1>12, <1>13, <2>1, <2>2, <2>3, CustomersStep DEF IInv
  <1> QED  BY <1>12, <1>14, <1>15, <1>16, <1>19, <1>20, <1>21 DEF IInv
-----------------------------------------------------------------------------
(* An insertion: a charge settles what its confirmation left open, and     *)
(* another record is new to every part of the invariant.                   *)

LEMMA InsertFacts ==
  ASSUME IInv, NEW p \in Procs, Insert(p)
  PROVE  \E t \in Tables : \E x \in Row(t) :
           /\ req[p].step = "insert" /\ req[p].at[1] = t /\ req[p].patch = x
           /\ Put(t, NextId(t), x) /\ NextId(t) \in Ids(t) /\ Goto(p, Idle)
           /\ UNCHANGED <<customers, agreed, crossed>>
           /\ t = "charges" => x.intent \in DOMAIN rows["intents"]
           /\ t # "charges" => x.status \notin Final
  <1>1. req[p].step = "insert" /\ Sound(req[p])
    BY DEF Insert, IInv
  <1>2. PICK t \in Tables :
          /\ req[p].at = <<t, 0>> /\ req[p].patch \in Row(t)
          /\ t = "charges" => req[p].patch.intent \in DOMAIN rows["intents"]
          /\ t # "charges" => req[p].patch.status \notin Final
    BY <1>1 DEF Sound
  <1>3. PICK x \in Row(t) : x = req[p].patch
    BY <1>2
  <1>4. req[p].at[1] = t
    <2>1. PICK a : a = req[p].at /\ a[1] = t
      BY <1>2
    <2> QED  BY <2>1
  <1>5. /\ Put(t, NextId(t), x) /\ NextId(t) \in Ids(t) /\ Goto(p, Idle)
        /\ UNCHANGED <<customers, agreed, crossed>>
    BY <1>3, <1>4 DEF Insert, ChargeFor, Done
  <1> QED  BY <1>1, <1>2, <1>3, <1>4, <1>5

LEMMA InsertStep ==
  ASSUME IInv, NEW p \in Procs, Insert(p)
  PROVE  IInv'
  <1>1. PICK t \in Tables : \E x \in Row(t) :
          /\ req[p].step = "insert" /\ req[p].at[1] = t /\ req[p].patch = x
          /\ Put(t, NextId(t), x) /\ NextId(t) \in Ids(t) /\ Goto(p, Idle)
          /\ UNCHANGED <<customers, agreed, crossed>>
          /\ t = "charges" => x.intent \in DOMAIN rows["intents"]
          /\ t # "charges" => x.status \notin Final
    BY InsertFacts
  <1>2. PICK x \in Row(t) :
          /\ req[p].step = "insert" /\ req[p].at[1] = t /\ req[p].patch = x
          /\ Put(t, NextId(t), x) /\ NextId(t) \in Ids(t) /\ Goto(p, Idle)
          /\ UNCHANGED <<customers, agreed, crossed>>
          /\ t = "charges" => x.intent \in DOMAIN rows["intents"]
          /\ t # "charges" => x.status \notin Final
    BY <1>1
  <1>3. PICK n : n = NextId(t)
    OBVIOUS
  <1>4. /\ n \in Nat /\ n \notin DOMAIN rows[t] /\ n \in Ids(t)
        /\ DOMAIN rows[t] \cup {n} = 1..n /\ DOMAIN rows = Tables
    BY <1>2, <1>3, NextIdFresh DEF IInv, TypeOK
  <1>5. PICK o \in Request : o = req[p] /\ Sound(o)
    BY DEF IInv, TypeOK
  <1>6. /\ Put(t, n, x) /\ o.step = "insert" /\ o.at[1] = t /\ o.patch = x
        /\ customers' = customers /\ agreed' = agreed /\ crossed' = crossed
    BY <1>2, <1>3, <1>5
  <1>7. /\ Growing /\ RowsTyped /\ DOMAIN rows' = Tables
        /\ \A u \in Tables : DOMAIN rows'[u] \subseteq Ids(u)
    BY <1>4, <1>6, PutTyped DEF IInv
  <1>8. /\ DOMAIN rows'[t] = DOMAIN rows[t] \cup {n} /\ rows'[t][n] = x
        /\ \A i \in DOMAIN rows[t] : rows'[t][i] = rows[t][i]
        /\ \A u \in Tables : u # t => rows'[u] = rows[u]
    <2>1. \A i \in DOMAIN rows[t] : i # n
      BY <1>4
    <2> QED  BY <1>4, <1>6, <2>1, PutFacts
  <1>9. /\ req' \in [Procs -> Request] /\ \A q \in Procs : Sound(req[q])'
        /\ Moves(p, o, Idle)
    <2>1. Sound(Idle)'
      BY IdleFacts DEF Sound, Deleting
    <2> QED  BY <1>2, <1>5, <1>7, <2>1, RequestsSound, IdleFacts DEF IInv, Moves
  <1>10. Numbered'
    <2>1. \A u \in Tables : \E m \in Nat : DOMAIN rows'[u] = 1..m
      BY <1>4, <1>8 DEF IInv, Numbered
    <2> QED  BY <2>1 DEF Numbered
  <1>11. TypeOK'
    BY <1>6, <1>7, <1>9 DEF IInv, TypeOK, RowsTyped
  <1>12. SettlesSound'
    <2>1. \A q \in Procs \ {p} : req[q].step = "settle" /\ req[q].at = <<t, n>>
             /\ <<t, n>> \notin crossed' => x.status \notin Final
      <3> SUFFICES ASSUME NEW q \in Procs, req[q].step = "settle",
                          req[q].at = <<t, n>>
                   PROVE  FALSE
        OBVIOUS
      <3>1. \E u \in {"intents", "sessions"} : \E j \in DOMAIN rows[u] :
              req[q].at = <<u, j>>
        BY DEF IInv, Sound
      <3> QED  BY <1>4, <3>1
    <2>2. \A q \in Procs \ {p} : req[q].step = "settle" /\ req[q].at \notin crossed'
            => ~FinalThen(req[q].at)
      BY <1>6, <2>1, OthersKept
    <2> QED  BY <1>6, <1>9, <2>2, SettlesStep, IdleFacts DEF IInv
  <1>13. CustomersSound'
    <2>1. \A u \in Tables, c \in Customers : Naming(u, c)' \subseteq Naming(u, c)
                                               \/ Names(o, c)
      BY <1>6, <1>8 DEF Naming, Names
    <2> QED  BY <1>6, <1>9, <2>1, CustomersStep, IdleFacts
             DEF IInv, Names, Deletes, Deleting
  <1>14. CASE t = "charges"
    <2>1. /\ p \in Pending({"charges"})
          /\ Pending({"charges"})' = Pending({"charges"}) \ {p}
          /\ \A q \in Pending({"charges"}) : q # p => req'[q] = req[q]
      BY <1>5, <1>6, <1>9, <1>14, IdleFacts DEF Pending, Moves
    <2>2. /\ DOMAIN rows'["charges"] = DOMAIN rows["charges"] \cup {n}
          /\ rows'["charges"][n] = x
          /\ \A k \in DOMAIN rows["charges"] : rows'["charges"][k] = rows["charges"][k]
          /\ rows'["intents"] = rows["intents"]
          /\ n \notin DOMAIN rows["charges"]
      BY <1>4, <1>8, <1>14, RowFacts
    <2>3. PICK i \in DOMAIN rows["intents"] : i = x.intent
      BY <1>2, <1>14
    <2>4. /\ \A j : j # i => ChargesOf(j)' = ChargesOf(j) /\ Charging(j)' = Charging(j)
          /\ ChargesOf(i)' = ChargesOf(i) \cup {n} /\ Charging(i)' = Charging(i) \ {p}
          /\ p \in Charging(i)
      <3>1. \A j : j # i => ChargesOf(j)' = ChargesOf(j)
        BY <2>2, <2>3 DEF ChargesOf
      <3>2. \A j : j # i => Charging(j)' = Charging(j)
        BY <1>5, <1>6, <2>1, <2>3 DEF Charging
      <3>3. ChargesOf(i)' = ChargesOf(i) \cup {n}
        BY <2>2, <2>3 DEF ChargesOf
      <3>4. Charging(i)' = Charging(i) \ {p} /\ p \in Charging(i)
        BY <1>5, <1>6, <2>1, <2>3 DEF Charging
      <3> QED  BY <3>1, <3>2, <3>3, <3>4
    <2>5. ChargesSound'
      <3>1. \A k \in DOMAIN rows'["charges"] :
              rows'["charges"][k].intent \in DOMAIN rows'["intents"]
        BY <2>2, <2>3 DEF IInv, ChargesSound
      <3>2. ASSUME NEW j \in DOMAIN rows["intents"], <<"intents", j>> \notin crossed
            PROVE  Charged(j)'
        <4>1. Charged(j)
          BY <3>2 DEF IInv, ChargesSound
        <4>2. CASE j = i
          <5>1. /\ rows["intents"][i].status = "succeeded"
                /\ ChargesOf(i) = {} /\ Charging(i) = {p}
            BY <2>4, <4>1, <4>2 DEF Charged, Status
          <5>2. ChargesOf(i)' = {n} /\ Charging(i)' = {} /\ n \in DOMAIN rows'["charges"]
            BY <2>2, <2>4, <5>1
          <5> QED  BY <2>2, <4>2, <5>1, <5>2 DEF Charged, Status
        <4>3. CASE j # i
          BY <2>2, <2>4, <4>1, <4>3 DEF Charged, Status
        <4> QED  BY <4>2, <4>3
      <3> QED  BY <1>6, <2>2, <3>1, <3>2 DEF ChargesSound
    <2>6. ChargedAsConfirmed'
      <3>1. Range(rows.charges)' = Range(rows.charges) \cup {x}
        BY <2>2 DEF Range
      <3>2. {req[q].patch : q \in Pending({"charges"})}' \cup {x}
              = {req[q].patch : q \in Pending({"charges"})}
        BY <1>5, <1>6, <2>1
      <3>3. (Range(rows.charges) \cup {req[q].patch : q \in Pending({"charges"})})'
              = Range(rows.charges) \cup {req[q].patch : q \in Pending({"charges"})}
        BY <3>1, <3>2
      <3> QED  BY <1>6, <3>3 DEF IInv, ChargedAsConfirmed
    <2> QED  BY <1>9, <1>10, <1>11, <1>12, <1>13, <2>5, <2>6 DEF IInv
  <1>15. CASE t # "charges"
    <2>1. /\ Pending({"charges"})' = Pending({"charges"})
          /\ \A q \in Pending({"charges"}) : req'[q] = req[q]
      BY <1>5, <1>6, <1>9, <1>15, IdleFacts DEF Pending, Moves
    <2>2. /\ rows'["charges"] = rows["charges"]
          /\ \A i \in DOMAIN rows["intents"] : rows'["intents"][i] = rows["intents"][i]
          /\ DOMAIN rows["intents"] \subseteq DOMAIN rows'["intents"]
          /\ \A i \in DOMAIN rows'["intents"] : i \notin DOMAIN rows["intents"] =>
               rows'["intents"][i].status \notin Final
      BY <1>2, <1>8, <1>15, RowFacts
    <2>3. \A i : ChargesOf(i)' = ChargesOf(i) /\ Charging(i)' = Charging(i)
      BY <2>1, <2>2 DEF ChargesOf, Charging
    <2>4. ChargesSound'
      <3>1. ASSUME NEW i \in DOMAIN rows'["intents"], <<"intents", i>> \notin crossed
            PROVE  Charged(i)'
        <4>1. CASE i \in DOMAIN rows["intents"]
          BY <2>2, <2>3, <3>1, <4>1 DEF IInv, ChargesSound, Charged, Status
        <4>2. CASE i \notin DOMAIN rows["intents"]
          <5>1. ChargesOf(i) = {}
            BY <4>2 DEF IInv, ChargesSound, ChargesOf
          <5>2. Charging(i) = {}
            <6> SUFFICES ASSUME NEW q \in Procs, req[q].step = "insert",
                                req[q].at[1] \in {"charges"}, req[q].patch.intent = i
                         PROVE  FALSE
              BY DEF Charging, Pending
            <6>1. PICK u \in Tables :
                    /\ req[q].at = <<u, 0>>
                    /\ u = "charges" => req[q].patch.intent \in DOMAIN rows["intents"]
              BY DEF IInv, Sound
            <6>2. u = "charges"
              <7>1. PICK a : a = req[q].at /\ a[1] = u
                BY <6>1
              <7> QED  BY <7>1
            <6> QED  BY <4>2, <6>1, <6>2
          <5>3. rows'["intents"][i].status # "succeeded"
            BY <2>2, <4>2 DEF Final
          <5> QED  BY <2>3, <5>1, <5>2, <5>3 DEF Charged, Status
        <4> QED  BY <4>1, <4>2
      <3> QED  BY <1>6, <2>2, <3>1 DEF IInv, ChargesSound
    <2>5. ChargedAsConfirmed'
      <3>1. {req[q].patch : q \in Pending({"charges"})}'
              = {req[q].patch : q \in Pending({"charges"})}
        BY <2>1
      <3>2. Range(rows.charges)' = Range(rows.charges)
        BY <2>2
      <3> QED  BY <1>6, <3>1, <3>2 DEF IInv, ChargedAsConfirmed
    <2> QED  BY <1>9, <1>10, <1>11, <1>12, <1>13, <2>4, <2>5 DEF IInv
  <1> QED  BY <1>14, <1>15
-----------------------------------------------------------------------------
(* The invariant, and what it says.                                        *)

LEMMA Starts ==
  ASSUME Init
  PROVE  IInv
  <1>1. /\ customers = Customers /\ DOMAIN rows = Tables
        /\ \A t \in Tables : rows[t] = <<>>
        /\ req \in [Procs -> Request] /\ \A p \in Procs : req[p] = Idle
        /\ agreed = {} /\ crossed = {}
    BY IdleFacts DEF Init
  <1>2. \A t \in Tables : DOMAIN rows[t] = {}
    BY <1>1
  <1>3. TypeOK
    BY <1>1, <1>2 DEF TypeOK
  <1>4. Numbered
    <2>1. 0 \in Nat /\ 1..0 = {}
      OBVIOUS
    <2> QED  BY <1>2, <2>1 DEF Numbered
  <1>5. \A p \in Procs : Sound(req[p])
    <2>1. Sound(Idle)
      BY IdleFacts DEF Sound, Deleting
    <2> QED  BY <1>1, <2>1
  <1>6. SettlesSound
    BY <1>1, IdleFacts DEF SettlesSound
  <1>7. Pending({"charges"}) = {}
    BY <1>1, IdleFacts DEF Pending
  <1>8. ChargesSound
    BY <1>2, RowFacts DEF ChargesSound
  <1>9. ChargedAsConfirmed
    <2>1. Range(rows.charges) = {}
      BY <1>2, RowFacts DEF Range
    <2>2. {req[q].patch : q \in Pending({"charges"})} = {}
      BY <1>7
    <2> QED  BY <1>1, <2>1, <2>2 DEF ChargedAsConfirmed
  <1>10. CustomersSound
    BY <1>1, IdleFacts DEF CustomersSound, Deletes, Deleting
  <1> QED  BY <1>3, <1>4, <1>5, <1>6, <1>8, <1>9, <1>10 DEF IInv

LEMMA UpdateStep ==
  ASSUME IInv, NEW p \in Procs, NEW i \in DOMAIN rows["intents"],
         UpdatePaymentIntent(p, i)
  PROVE  IInv'
  <1>1. CASE /\ Status("intents", i) = "requires_payment_method"
             /\ \E patch \in NewMethod : Decide(p, "intents", i, patch)
    <2>1. PICK d \in NewMethod : Decide(p, "intents", i, d)
      BY <1>1
    <2>2. d \in Decisions("intents") /\ Status("intents", i) \notin Final
      BY <1>1 DEF Decisions, Final
    <2> QED  BY <2>1, <2>2, DecideStep
  <1>2. CASE /\ Free(p)
             /\ \E patch \in NewAmount : With("intents", i, patch)
             /\ UNCHANGED <<customers, req, agreed, crossed>>
    BY <1>2, AmountStep
  <1> QED  BY <1>1, <1>2 DEF UpdatePaymentIntent

LEMMA CancelStep ==
  ASSUME IInv, NEW p \in Procs, NEW i \in DOMAIN rows["intents"],
         CancelPaymentIntent(p, i)
  PROVE  IInv'
  <1>1. [status |-> "canceled"] \in Decisions("intents")
    BY DEF Decisions
  <1>2. rows["intents"][i] \in Intent
    BY RowFacts DEF IInv, TypeOK
  <1>3. Status("intents", i) \notin Final
    BY <1>2, FieldFacts DEF CancelPaymentIntent, Cancelable, Final, Status
  <1> QED  BY <1>1, <1>3, DecideStep DEF CancelPaymentIntent

LEMMA ExpireStep ==
  ASSUME IInv, NEW p \in Procs, NEW i \in DOMAIN rows["sessions"],
         ExpireCheckoutSession(p, i)
  PROVE  IInv'
  <1>1. [status |-> "expired"] \in Decisions("sessions")
    BY DEF Decisions
  <1>2. Status("sessions", i) \notin Final
    BY DEF ExpireCheckoutSession, Final
  <1> QED  BY <1>1, <1>2, DecideStep DEF ExpireCheckoutSession

LEMMA CompleteStep ==
  ASSUME IInv, NEW p \in Procs, NEW i \in DOMAIN rows["sessions"],
         CompleteCheckoutSession(p, i)
  PROVE  IInv'
  <1>1. [status |-> "complete", payment_status |-> "paid"] \in Decisions("sessions")
    BY DEF Decisions
  <1>2. Status("sessions", i) \notin Final
    BY DEF CompleteCheckoutSession, Final
  <1> QED  BY <1>1, <1>2, DecideStep DEF CompleteCheckoutSession

LEMMA Stutter ==
  ASSUME IInv, UNCHANGED vars
  PROVE  IInv'
  <1>1. /\ customers' = customers /\ rows' = rows /\ req' = req
        /\ agreed' = agreed /\ crossed' = crossed
    BY DEF vars
  <1>2. TypeOK' /\ Numbered'
    BY <1>1 DEF IInv, TypeOK, Numbered
  <1>3. \A p \in Procs : Sound(req[p])'
    BY <1>1 DEF IInv, Sound, Deleting
  <1>4. SettlesSound'
    BY <1>1 DEF IInv, SettlesSound, Status
  <1>5. ChargesSound'
    BY <1>1 DEF IInv, ChargesSound, Charged, ChargesOf, Charging, Pending, Status
  <1>6. ChargedAsConfirmed'
    BY <1>1 DEF IInv, ChargedAsConfirmed, Pending
  <1>7. CustomersSound'
    BY <1>1 DEF IInv, CustomersSound, Naming, Names, Deletes, Deleting, Gone, Passed
  <1> QED  BY <1>2, <1>3, <1>4, <1>5, <1>6, <1>7 DEF IInv

LEMMA Step ==
  ASSUME IInv, [Next]_vars
  PROVE  IInv'
  <1>1. CASE Next
    <2>1. PICK p \in Procs :
            \/ CreatePaymentIntent(p) \/ CreateCheckoutSession(p) \/ Insert(p)
            \/ \E i \in DOMAIN rows["intents"] :
                 \/ UpdatePaymentIntent(p, i) \/ CancelPaymentIntent(p, i)
                 \/ ConfirmPaymentIntent(p, i)
            \/ \E i \in DOMAIN rows["sessions"] :
                 ExpireCheckoutSession(p, i) \/ CompleteCheckoutSession(p, i)
            \/ Settle(p)
            \/ \E c \in Customers : DeleteCustomer(p, c)
            \/ List(p) \/ Detach(p) \/ NextStage(p)
      BY <1>1 DEF Next
    <2>2. CASE CreatePaymentIntent(p) \/ CreateCheckoutSession(p) \/ Insert(p)
      BY <2>2, CreateIntentStep, CreateSessionStep, InsertStep
    <2>3. ASSUME NEW i \in DOMAIN rows["intents"],
                 \/ UpdatePaymentIntent(p, i) \/ CancelPaymentIntent(p, i)
                 \/ ConfirmPaymentIntent(p, i)
          PROVE  IInv'
      BY <2>3, UpdateStep, CancelStep, ConfirmStep
    <2>4. ASSUME NEW i \in DOMAIN rows["sessions"],
                 ExpireCheckoutSession(p, i) \/ CompleteCheckoutSession(p, i)
          PROVE  IInv'
      BY <2>4, ExpireStep, CompleteStep
    <2>5. CASE Settle(p) \/ \E c \in Customers : DeleteCustomer(p, c)
      BY <2>5, SettleStep, DeleteCustomerStep
    <2>6. CASE List(p) \/ Detach(p) \/ NextStage(p)
      BY <2>6, ListStep, DetachStep, NextStageStep
    <2> QED  BY <2>1, <2>2, <2>3, <2>4, <2>5, <2>6
  <1>2. CASE UNCHANGED vars
    BY <1>2, Stutter
  <1> QED  BY <1>1, <1>2

(* What SettlesSound, ChargesSound and CustomersSound need to be kept,     *)
(* with the types, in every state.                                         *)
THEOREM Invariant == Spec => []IInv
  BY Starts, Step, PTL DEF Spec

(* The tables hold records of their kind and the requests in flight are    *)
(* ones the handlers could have begun.                                     *)
THEOREM TypeCorrect == Spec => []TypeOK
  <1>1. IInv => TypeOK
    BY DEF IInv
  <1> QED  BY <1>1, Invariant, PTL

(* A confirmed payment intent has one charge, however many confirmations   *)
(* raced: the status is decided inside the collection's lock.              *)
THEOREM OneChargeEach == Spec => []ChargedOnce
  <1>1. ASSUME IInv PROVE ChargedOnce
    <2> SUFFICES ASSUME NEW i \in DOMAIN rows["intents"], i \notin BeingCharged,
                        <<"intents", i>> \notin crossed
                 PROVE  Cardinality(ChargesOf(i)) =
                          IF Status("intents", i) = "succeeded" THEN 1 ELSE 0
      BY DEF ChargedOnce, Crossed
    <2>1. Charged(i)
      BY <1>1 DEF IInv, ChargesSound
    <2>2. Charging(i) = {}
      BY DEF Charging, BeingCharged
    <2>3. CASE Status("intents", i) = "succeeded"
      <3>1. PICK k : ChargesOf(i) = {k}
        BY <2>1, <2>2, <2>3 DEF Charged
      <3> QED  BY <2>3, <3>1, FS_Singleton
    <2>4. CASE Status("intents", i) # "succeeded"
      <3>1. ChargesOf(i) = {}
        BY <2>1, <2>4 DEF Charged
      <3> QED  BY <2>4, <3>1, FS_EmptySet
    <2> QED  BY <2>3, <2>4
  <1> QED  BY <1>1, Invariant, PTL

(* What is charged for an intent is what it was confirmed with: the charge *)
(* is made of the record the confirmation returned.                        *)
THEOREM ChargesMatch == Spec => []ChargedAsConfirmed
  <1>1. IInv => ChargedAsConfirmed
    BY DEF IInv
  <1> QED  BY <1>1, Invariant, PTL

(* Nothing names a customer that is gone, unless a request for it          *)
(* overlapped with the deletion.                                           *)
THEOREM NobodyNamesTheDeleted == Spec => []CustomerForgotten
  <1>1. IInv => CustomerForgotten
    BY DEF IInv, CustomersSound, CustomerForgotten
  <1> QED  BY <1>1, Invariant, PTL

-----------------------------------------------------------------------------
(* What is final stays.                                                    *)

(* One record is written, and if it was final and uncrossed its status     *)
(* stays.                                                                  *)
Keeps ==
  \E t \in Tables : \E i, x :
    /\ Put(t, i, x)
    /\ i \in DOMAIN rows[t] /\ t # "charges" /\ Status(t, i) \in Final
         /\ <<t, i>> \notin crossed => x.status = Status(t, i)

FinalKept ==
  \A t \in {"intents", "sessions"} : \A i \in DOMAIN rows[t] :
    Status(t, i) \in Final /\ ~Crossed(t, i) => Status(t, i)' = Status(t, i)

LEMMA KeepsFinal ==
  ASSUME TypeOK, Keeps \/ rows' = rows
  PROVE  FinalKept
  <1>1. CASE Keeps
    <2>0. PICK t \in Tables : \E i, x :
            /\ Put(t, i, x)
            /\ i \in DOMAIN rows[t] /\ t # "charges" /\ Status(t, i) \in Final
                 /\ <<t, i>> \notin crossed => x.status = Status(t, i)
      BY <1>1 DEF Keeps
    <2>1. PICK i, x :
            /\ Put(t, i, x)
            /\ i \in DOMAIN rows[t] /\ t # "charges" /\ Status(t, i) \in Final
                 /\ <<t, i>> \notin crossed => x.status = Status(t, i)
      BY <2>0
    <2> SUFFICES ASSUME NEW u \in {"intents", "sessions"}, NEW j \in DOMAIN rows[u],
                        Status(u, j) \in Final, <<u, j>> \notin crossed
                 PROVE  rows'[u][j].status = rows[u][j].status
      BY DEF FinalKept, Crossed, Status
    <2>2. CASE u = t /\ j = i
      BY <2>1, <2>2, PutFacts DEF TypeOK, Status
    <2>3. CASE ~(u = t /\ j = i)
      <3>1. rows'[u][j] = rows[u][j]
        BY <2>1, <2>3, PutFacts, RowFacts DEF TypeOK
      <3> QED  BY <3>1
    <2> QED  BY <2>2, <2>3
  <1>2. CASE rows' = rows
    BY <1>2 DEF FinalKept, Status
  <1> QED  BY <1>1, <1>2

LEMMA InsertKeeps ==
  ASSUME IInv, NEW p \in Procs, Insert(p)
  PROVE  Keeps
  <1>1. PICK t \in Tables : \E x \in Row(t) : Put(t, NextId(t), x)
    BY InsertFacts
  <1>2. NextId(t) \notin DOMAIN rows[t]
    BY NextIdFresh DEF IInv
  <1>3. PICK x, n : Put(t, n, x) /\ n \notin DOMAIN rows[t]
    BY <1>1, <1>2
  <1> QED  BY <1>3 DEF Keeps

LEMMA SettleKeeps ==
  ASSUME IInv, NEW p \in Procs, Settle(p)
  PROVE  Keeps
  <1>1. PICK t \in {"intents", "sessions"} : \E i \in DOMAIN rows[t] :
          req[p].at = <<t, i>>
    BY DEF IInv, Sound, Settle
  <1> PICK i \in DOMAIN rows[t] : req[p].at = <<t, i>>
    BY <1>1
  <1>2. PICK a : a = req[p].at /\ a[1] = t /\ a[2] = i /\ a = <<t, i>>
    OBVIOUS
  <1>3. PICK x : x = Over(req[p].patch, rows[t][i])
    OBVIOUS
  <1>4. Put(t, i, x) /\ t \in Tables
    BY <1>2, <1>3, RowFacts DEF Settle, With
  <1>5. <<t, i>> \notin crossed => Status(t, i) \notin Final
    BY <1>2 DEF IInv, SettlesSound, Settle
  <1> QED  BY <1>4, <1>5 DEF Keeps

LEMMA UpdateKeeps ==
  ASSUME IInv, NEW p \in Procs, NEW i \in DOMAIN rows["intents"],
         UpdatePaymentIntent(p, i)
  PROVE  Keeps \/ rows' = rows
  <1>1. CASE \E patch \in NewAmount : With("intents", i, patch)
    <2>1. PICK d \in NewAmount : With("intents", i, d)
      BY <1>1
    <2>2. rows["intents"][i] \in Intent
      BY RowFacts DEF IInv, TypeOK
    <2>3. PICK x : x = Over(d, rows["intents"][i])
      OBVIOUS
    <2>4. x.status = Status("intents", i) /\ Put("intents", i, x)
      BY <2>1, <2>2, <2>3, AmountWritten DEF With, Status
    <2> QED  BY <2>4, RowFacts DEF Keeps
  <1>2. CASE \E patch \in NewMethod : Decide(p, "intents", i, patch)
    BY <1>2 DEF Decide
  <1> QED  BY <1>1, <1>2 DEF UpdatePaymentIntent

LEMMA ConfirmKeeps ==
  ASSUME IInv, NEW p \in Procs, NEW i \in DOMAIN rows["intents"],
         ConfirmPaymentIntent(p, i)
  PROVE  Keeps
  <1>1. Status("intents", i) \notin Final
    BY DEF ConfirmPaymentIntent, Confirmable, Final
  <1>2. PICK x : Put("intents", i, x)
    BY DEF ConfirmPaymentIntent, With
  <1> QED  BY <1>1, <1>2, RowFacts DEF Keeps

LEMMA DetachKeeps ==
  ASSUME IInv, NEW p \in Procs, Detach(p)
  PROVE  Keeps
  <1>1. PICK o \in Request : o = req[p] /\ Sound(o)
    BY DEF IInv, TypeOK
  <1>2. PICK h \in Tables : h = Head(o.stages)
    BY <1>1, RestFacts DEF Sound, Deleting, Detach
  <1>3. PICK i \in DOMAIN rows[h] : i = Min(o.todo)
    <2>1. o.todo # {} /\ o.todo \in SUBSET Nat
      BY <1>1 DEF Detach, Request
    <2>2. o.todo \subseteq DOMAIN rows[h]
      BY <1>1, <1>2 DEF Sound, Detach
    <2> QED  BY <2>1, <2>2, MinFacts
  <1>4. PICK x : x = Over(Detachment, rows[h][i])
    OBVIOUS
  <1>5. Put(h, i, x)
    BY <1>1, <1>2, <1>3, <1>4 DEF Detach, With
  <1>6. rows[h][i] \in Row(h)
    BY DEF IInv, TypeOK
  <1>7. h # "charges" => x.status = Status(h, i)
    BY <1>4, <1>6, CustomerDetached DEF Status
  <1> QED  BY <1>5, <1>7 DEF Keeps

(* A payment that succeeded or was cancelled and a session that expired or *)
(* was paid stay so, unless two requests that decide on it overlapped.     *)
THEOREM FinalIsFinal == Spec => FinalStays
  <1>1. ASSUME IInv, [Next]_vars PROVE FinalKept
    <2>1. CASE Next
      <3>1. PICK p \in Procs :
              \/ CreatePaymentIntent(p) \/ CreateCheckoutSession(p) \/ Insert(p)
              \/ \E i \in DOMAIN rows["intents"] :
                   \/ UpdatePaymentIntent(p, i) \/ CancelPaymentIntent(p, i)
                   \/ ConfirmPaymentIntent(p, i)
              \/ \E i \in DOMAIN rows["sessions"] :
                   ExpireCheckoutSession(p, i) \/ CompleteCheckoutSession(p, i)
              \/ Settle(p)
              \/ \E c \in Customers : DeleteCustomer(p, c)
              \/ List(p) \/ Detach(p) \/ NextStage(p)
        BY <2>1 DEF Next
      <3>2. CASE CreatePaymentIntent(p) \/ CreateCheckoutSession(p)
        BY <1>1, <3>2, KeepsFinal
           DEF IInv, CreatePaymentIntent, CreateCheckoutSession, Create
      <3>3. CASE Insert(p) \/ Settle(p) \/ Detach(p)
        BY <1>1, <3>3, InsertKeeps, SettleKeeps, DetachKeeps, KeepsFinal DEF IInv
      <3>4. ASSUME NEW i \in DOMAIN rows["intents"],
                   UpdatePaymentIntent(p, i) \/ ConfirmPaymentIntent(p, i)
            PROVE  FinalKept
        BY <1>1, <3>4, UpdateKeeps, ConfirmKeeps, KeepsFinal DEF IInv
      <3>5. ASSUME NEW i \in DOMAIN rows["intents"], CancelPaymentIntent(p, i)
            PROVE  FinalKept
        BY <1>1, <3>5, KeepsFinal DEF IInv, CancelPaymentIntent, Decide
      <3>6. ASSUME NEW i \in DOMAIN rows["sessions"],
                   ExpireCheckoutSession(p, i) \/ CompleteCheckoutSession(p, i)
            PROVE  FinalKept
        BY <1>1, <3>6, KeepsFinal
           DEF IInv, ExpireCheckoutSession, CompleteCheckoutSession, Decide
      <3>7. CASE (\E c \in Customers : DeleteCustomer(p, c)) \/ List(p) \/ NextStage(p)
        BY <1>1, <3>7, KeepsFinal DEF IInv, DeleteCustomer, List, NextStage
      <3> QED  BY <3>1, <3>2, <3>3, <3>4, <3>5, <3>6, <3>7
    <2>2. CASE UNCHANGED vars
      BY <1>1, <2>2, KeepsFinal DEF IInv, vars
    <2> QED  BY <1>1, <2>1, <2>2
  <1>2. IInv /\ [Next]_vars =>
          [\A t \in {"intents", "sessions"} : \A i \in DOMAIN rows[t] :
             Status(t, i) \in Final /\ ~Crossed(t, i)
               => Status(t, i)' = Status(t, i)]_vars
    BY <1>1 DEF FinalKept
  <1> QED  BY <1>2, Invariant, PTL DEF Spec, FinalStays
=============================================================================
