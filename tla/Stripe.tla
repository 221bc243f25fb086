--------------------------------- MODULE Stripe ---------------------------------
(***************************************************************************)
(* internal/services/stripe: customers, payment intents, charges and       *)
(* checkout sessions.  Requests run concurrently.  A request begins with   *)
(* its first call on the store and then makes one call at a time; between  *)
(* two calls it keeps what it read.  Confirming an intent is the one       *)
(* change that decides inside the collection's lock.                       *)
(*                                                                         *)
(* The catalog is left out: products and prices are only ever added.  So   *)
(* are new customers: one that was just created is like one nobody has     *)
(* used yet.                                                               *)
(***************************************************************************)
EXTENDS Integers, FiniteSets, Sequences, FiniteSetsExt, Functions

CONSTANTS Procs,      \* requests that can be in flight together
          Customers,  \* the customers there are at first
          Nobody,     \* a nil customer_id
          Amounts,    \* amounts of money
          MaxCreated, \* bound on the intents and sessions created
          MaxCharges  \* bound on the charges

ASSUME NobodyAssumption == Nobody \notin Customers
ASSUME BoundAssumption == MaxCreated \in Nat /\ MaxCharges \in Nat

VARIABLES customers,  \* the customers that exist
          rows,       \* payment intents, charges and checkout sessions by id
          req,        \* the requests in flight
          agreed,     \* the confirmations there were (history)
          crossed     \* records on which a decision overlapped another
                      \* request that writes them (history)

vars == <<customers, rows, req, agreed, crossed>>

Tables == {"intents", "charges", "sessions"}
Ids(t) == 1..(IF t = "charges" THEN MaxCharges ELSE MaxCreated)
Owner == Customers \cup {Nobody}

Intent == [status : {"requires_payment_method", "requires_confirmation",
                     "succeeded", "canceled"},
           customer : Owner, amount : Amounts]
Charge == [intent : Ids("intents"), customer : Owner, amount : Amounts]
Session == [status : {"open", "expired", "complete"},
            payment_status : {"unpaid", "paid"}, customer : Owner]

(* The request's next call, the record it is about and what it will write; *)
(* the tables a deletion has still to go through, and the ids to detach.   *)
Idle == [step |-> "idle", at |-> <<>>, patch |-> <<>>, stages |-> <<>>,
         todo |-> {}]

Init ==
  /\ customers = Customers
  /\ rows = [t \in Tables |-> <<>>]
  /\ req = [p \in Procs |-> Idle]
  /\ agreed = {} /\ crossed = {}

-----------------------------------------------------------------------------
Goto(p, r) == req' = [req EXCEPT ![p] = r]
WillWrite(p, step, at, patch) ==
  Goto(p, [Idle EXCEPT !.step = step, !.at = at, !.patch = patch])
Done(p) == Goto(p, Idle)
Free(p) == req[p].step = "idle"
Put(t, id, record) ==
  rows' = [rows EXCEPT ![t] = [i \in DOMAIN @ \cup {id} |->
                                 IF i = id THEN record ELSE @[i]]]
NextId(t) == Cardinality(DOMAIN rows[t]) + 1
Pending(T) == {q \in Procs : req[q].step = "insert" /\ req[q].at[1] \in T}
Count(T) == MapThenSumSet(LAMBDA t : Cardinality(DOMAIN rows[t]), T)
              + Cardinality(Pending(T))

(* History.  What a request in flight is about, and whether it will act on *)
(* what it read.                                                           *)
Owned(r) == IF "customer" \in DOMAIN r.patch
            THEN {<<"customers", r.patch.customer>>} ELSE {}
About(r) == {r.at} \cup Owned(r)
Decided(r) == r.step \in {"settle", "list", "detach"}

Meets(p, keys, decides) ==
  crossed' = crossed \cup
    UNION {keys \cap About(req[q]) : q \in {o \in Procs \ {p} :
                                              decides \/ Decided(req[o])}}

-----------------------------------------------------------------------------
(* Creating: the customer, if one is named, is looked up, and then the     *)
(* record is inserted.                                                     *)

Known(c) == c = Nobody \/ c \in customers

Create(p, t, record) ==
  /\ Free(p) /\ Known(record.customer)
  /\ Count({"intents", "sessions"}) < MaxCreated
  /\ WillWrite(p, "insert", <<t, 0>>, record)
  /\ Meets(p, {<<"customers", record.customer>>}, FALSE)
  /\ UNCHANGED <<customers, rows, agreed>>

CreatePaymentIntent(p) ==
  \E c \in Owner, a \in Amounts,
     s \in {"requires_payment_method", "requires_confirmation"} :
    Create(p, "intents", [status |-> s, customer |-> c, amount |-> a])

CreateCheckoutSession(p) ==
  \E c \in Owner :
    Create(p, "sessions", [status |-> "open", payment_status |-> "unpaid",
                           customer |-> c])

ChargeReread(charge) ==
  [charge EXCEPT !.amount = rows.intents[charge.intent].amount]
ChargeFor(charge) == charge

Insert(p) ==
  LET t == req[p].at[1]
  IN  /\ req[p].step = "insert" /\ NextId(t) \in Ids(t)
      /\ Put(t, NextId(t), IF t = "charges" THEN ChargeFor(req[p].patch)
                           ELSE req[p].patch)
      /\ Done(p)
      /\ UNCHANGED <<customers, agreed, crossed>>

-----------------------------------------------------------------------------
(* Decisions.  The lookup fixes what the request will write; the update    *)
(* that follows does not look at the status again.                         *)

Status(t, i) == rows[t][i].status
Over(patch, record) ==
  [f \in DOMAIN record |-> IF f \in DOMAIN patch THEN patch[f] ELSE record[f]]
With(t, i, patch) == Put(t, i, Over(patch, rows[t][i]))

Decide(p, t, i, patch) ==
  /\ Free(p)
  /\ WillWrite(p, "settle", <<t, i>>, patch)
  /\ Meets(p, {<<t, i>>}, TRUE)
  /\ UNCHANGED <<customers, rows, agreed>>

Settle(p) ==
  /\ req[p].step = "settle"
  /\ With(req[p].at[1], req[p].at[2], req[p].patch)
  /\ Done(p)
  /\ UNCHANGED <<customers, agreed, crossed>>

(* A new payment method takes an intent that waits for one to              *)
(* confirmation.  Other fields are written whatever the status is; the one *)
(* that matters here is the amount.                                        *)
NewAmount == {<<>>} \cup {[amount |-> a] : a \in Amounts}
NewMethod == {[status |-> "requires_confirmation"]} \cup
             {[status |-> "requires_confirmation", amount |-> a] : a \in Amounts}

UpdatePaymentIntent(p, i) ==
  \/ /\ Status("intents", i) = "requires_payment_method"
     /\ \E patch \in NewMethod : Decide(p, "intents", i, patch)
  \/ /\ Free(p)
     /\ \E patch \in NewAmount : With("intents", i, patch)
     /\ UNCHANGED <<customers, req, agreed, crossed>>

CancelableTwice(i) == Status("intents", i) # "canceled"
Cancelable(i) == Status("intents", i) \notin {"succeeded", "canceled"}
CancelPaymentIntent(p, i) ==
  Cancelable(i) /\ Decide(p, "intents", i, [status |-> "canceled"])

(* Confirmation checks and sets the status in one step.  The charge is made*)
(* out of the record that step returned, and inserted later.               *)
ConfirmableAgain(i) == Status("intents", i) # "canceled"
Confirmable(i) == Status("intents", i) \in {"requires_confirmation",
                                            "requires_payment_method"}

ConfirmPaymentIntent(p, i) ==
  LET intent == rows.intents[i]
      charge == [intent |-> i, customer |-> intent.customer,
                 amount |-> intent.amount]
  IN  /\ Free(p) /\ Confirmable(i) /\ Count({"charges"}) < MaxCharges
      /\ With("intents", i, [status |-> "succeeded"])
      /\ WillWrite(p, "insert", <<"charges", 0>>, charge)
      /\ agreed' = agreed \cup {<<i, intent.amount>>}
      /\ Meets(p, {<<"intents", i>>, <<"customers", intent.customer>>}, FALSE)
      /\ UNCHANGED customers

(* Checkout sessions.                                                      *)
ExpireCheckoutSession(p, i) ==
  /\ Status("sessions", i) = "open"
  /\ Decide(p, "sessions", i, [status |-> "expired"])

CompleteCheckoutSession(p, i) ==
  /\ Status("sessions", i) = "open"
  /\ Decide(p, "sessions", i, [status |-> "complete",
                               payment_status |-> "paid"])

-----------------------------------------------------------------------------
(* Deleting a customer: table by table, the records that name it are       *)
(* listed and then lose it one by one; the customer goes last.             *)

StagesShort == <<"intents", "charges">>
Stages == <<"intents", "charges", "sessions">>

DeleteCustomer(p, c) ==
  /\ Free(p) /\ c \in customers
  /\ Goto(p, [Idle EXCEPT !.step = "list", !.at = <<"customers", c>>,
                           !.stages = Stages])
  /\ Meets(p, {<<"customers", c>>}, TRUE)
  /\ UNCHANGED <<customers, rows, agreed>>

Naming(t, c) == {i \in DOMAIN rows[t] : rows[t][i].customer = c}

List(p) ==
  LET r == req[p]
  IN  /\ r.step = "list"
      /\ Goto(p, [r EXCEPT !.step = "detach",
                           !.todo = Naming(Head(r.stages), r.at[2])])
      /\ UNCHANGED <<customers, rows, agreed, crossed>>

Detachment == [customer |-> Nobody]

Detach(p) ==
  LET r == req[p]  i == Min(r.todo)
  IN  /\ r.step = "detach" /\ r.todo # {}
      /\ With(Head(r.stages), i, Detachment)
      /\ Goto(p, [r EXCEPT !.todo = @ \ {i}])
      /\ UNCHANGED <<customers, agreed, crossed>>

NextStage(p) ==
  LET r == req[p]  rest == Tail(r.stages)
  IN  /\ r.step = "detach" /\ r.todo = {}
      /\ IF rest = <<>> THEN /\ customers' = customers \ {r.at[2]}
                             /\ Done(p)
         ELSE /\ Goto(p, [r EXCEPT !.step = "list", !.stages = rest])
              /\ UNCHANGED customers
      /\ UNCHANGED <<rows, agreed, crossed>>

Next ==
  \E p \in Procs :
    \/ CreatePaymentIntent(p) \/ CreateCheckoutSession(p) \/ Insert(p)
    \/ \E i \in DOMAIN rows.intents :
         \/ UpdatePaymentIntent(p, i) \/ CancelPaymentIntent(p, i)
         \/ ConfirmPaymentIntent(p, i)
    \/ \E i \in DOMAIN rows.sessions :
         ExpireCheckoutSession(p, i) \/ CompleteCheckoutSession(p, i)
    \/ Settle(p)
    \/ \E c \in Customers : DeleteCustomer(p, c)
    \/ List(p) \/ Detach(p) \/ NextStage(p)

Spec == Init /\ [][Next]_vars

-----------------------------------------------------------------------------
(* The types of the variables.                                             *)
Keys == (Tables \X (0..(MaxCreated + MaxCharges))) \cup ({"customers"} \X Owner)
Row(t) == CASE t = "intents" -> Intent [] t = "charges" -> Charge
            [] t = "sessions" -> Session

Decisions(t) ==
  IF t = "intents" THEN NewMethod \cup {[status |-> "canceled"]}
  ELSE {[status |-> "expired"], [status |-> "complete", payment_status |-> "paid"]}

Patches == {<<>>} \cup Intent \cup Charge \cup Session
             \cup Decisions("intents") \cup Decisions("sessions")

Request == [step : {"idle", "insert", "settle", "list", "detach"},
            at : Keys \cup {<<>>}, patch : Patches,
            stages : Seq(Tables), todo : SUBSET Nat]

TypeOK ==
  /\ customers \subseteq Customers
  /\ DOMAIN rows = Tables
  /\ \A t \in Tables : /\ DOMAIN rows[t] \subseteq Ids(t)
                       /\ \A i \in DOMAIN rows[t] : rows[t][i] \in Row(t)
  /\ req \in [Procs -> Request]
  /\ agreed \subseteq Ids("intents") \X Amounts
  /\ crossed \subseteq Keys

ChargesOf(i) == {k \in DOMAIN rows.charges : rows.charges[k].intent = i}
BeingCharged == {req[q].patch.intent : q \in Pending({"charges"})}
Crossed(t, i) == <<t, i>> \in crossed

(* A payment intent that succeeded has one charge and any other has none,  *)
(* whatever was confirmed, cancelled and updated in turn and however many  *)
(* confirmations raced, unless an update or a cancellation that had read   *)
(* the status overlapped another request on the intent.                    *)
ChargedOnce ==
  \A i \in DOMAIN rows.intents :
    i \in BeingCharged \/ Crossed("intents", i) \/
      Cardinality(ChargesOf(i)) =
        IF Status("intents", i) = "succeeded" THEN 1 ELSE 0

(* There is a charge for each amount an intent was confirmed with, and for *)
(* no other, although the intent may be changed before the charge is       *)
(* written: even when requests overlap.                                    *)
ChargedAsConfirmed ==
  agreed = {<<c.intent, c.amount>> : c \in Range(rows.charges) \cup
                                       {req[q].patch : q \in Pending({"charges"})}}

(* What succeeded, was cancelled, expired or was paid stays as it is,      *)
(* unless two requests that decide on it overlapped.                       *)
Final == {"succeeded", "canceled", "expired", "complete"}
FinalStays ==
  [][\A t \in {"intents", "sessions"} : \A i \in DOMAIN rows[t] :
       Status(t, i) \in Final /\ ~Crossed(t, i)
         => Status(t, i)' = Status(t, i)]_vars

(* No intent, charge or session names a customer that was deleted, unless  *)
(* a request for the customer overlapped with the deletion.                *)
CustomerForgotten ==
  \A t \in Tables, c \in Customers \ customers :
    Naming(t, c) # {} => <<"customers", c>> \in crossed
=============================================================================
