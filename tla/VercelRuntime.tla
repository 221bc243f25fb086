----------------------------- MODULE VercelRuntime -----------------------------
(***************************************************************************)
(* The Vercel Function adapter of vercel/handler.go for one service: warm  *)
(* servers kept per origin, a Persistence that loads a snapshot when a     *)
(* server is first needed and saves one after every request that changed   *)
(* something, and function instances that start cold and may stop at any   *)
(* time.  Requests run in goroutines of their own.                         *)
(*                                                                         *)
(* State is abstracted to the set of changes that reached it, part by part:*)
(* a part is a collection of the store or its asset store, and a request   *)
(* changes all of them, one after the other, in an order of its own.  What *)
(* a service seeds into a new server is left out.                          *)
(***************************************************************************)
EXTENDS Integers, FiniteSets

CONSTANTS Procs,      \* requests that can be in flight together
          Instances,  \* function instances
          Origins,    \* origins, and so base URLs, the clients use
          Parts,      \* bound on the parts of a store
          Changes,    \* the changes requests make, each made once
          NoChange,   \* stands for a request that only reads
          MaxStops,   \* bound on how often instances stop
          Failures    \* whether the Persistence may fail

ASSUME PlaceAssumption == Instances # {} /\ Origins # {}
ASSUME PartAssumption == Parts \in Nat \ {0}
ASSUME ChangeAssumption == NoChange \notin Changes
ASSUME StopAssumption == MaxStops \in Nat
ASSUME FailureAssumption == Failures \in BOOLEAN

VARIABLES servers,  \* per instance and origin: a warm store or Cold
          saved,    \* what the Persistence holds
          req,      \* the requests
          made,     \* changes asked for so far
          stops,    \* how often instances stopped
          acked,    \* changes answered with success (history)
          crossed   \* requests overlapped or met a stale server (history)

runtimeVars == <<servers, saved, req, made, stops, acked, crossed>>

PartIds == 1..Parts
Store == [PartIds -> SUBSET Changes]
Empty == [i \in PartIds |-> {}]
Cold == [i \in {} |-> {}]
Steps == {"idle", "serve", "handle", "marshal", "save"}

(* The locals of a request: where it runs, its change (NoChange for one    *)
(* that only reads), the parts still to change, the parts marshalled, and, *)
(* as history, what was acknowledged by its server before it marshalled.   *)
Idle == [step |-> "idle", instance |-> CHOOSE i \in Instances : TRUE,
         origin |-> CHOOSE o \in Origins : TRUE, change |-> NoChange,
         todo |-> {}, part |-> 0, snapshot |-> Empty, base |-> {}]
Request == [step : Steps, instance : Instances, origin : Origins,
            change : Changes \cup {NoChange}, todo : SUBSET PartIds,
            part : 0..Parts, snapshot : Store, base : SUBSET Changes]

RuntimeInit ==
  /\ servers = [i \in Instances |-> [o \in Origins |-> Cold]]
  /\ saved = Empty
  /\ req = [p \in Procs |-> Idle]
  /\ made = {} /\ stops = 0
  /\ acked = {} /\ crossed = FALSE

Server(p) == servers[req[p].instance][req[p].origin]
Goto(p, r) == req' = [req EXCEPT ![p] = r]
Contains(store, C) == \A i \in DOMAIN store : C \subseteq store[i]

-----------------------------------------------------------------------------
(* A request arrives.  Only a mutating one has a change.                   *)

Mutating(q) == req[q].change # NoChange

Arrive(p, i, o, c) ==
  /\ req[p].step = "idle" /\ c \notin made
  /\ Goto(p, [Idle EXCEPT !.step = "serve", !.instance = i, !.origin = o,
                          !.change = c, !.todo = IF c = NoChange THEN {}
                                                 ELSE PartIds])
  /\ made' = made \cup ({c} \ {NoChange})
  /\ crossed' = \/ crossed
                \/ c # NoChange /\ \/ \E q \in Procs : Mutating(q)
                                   \/ ~Contains(servers[i][o], acked)
  /\ UNCHANGED <<servers, saved, stops, acked>>

(* serverFor, under the runtime's lock: the warm server of the origin, or a*)
(* new one on what the Persistence loads.                                  *)
Reloaded(store) == saved
Served(store) == IF store = Cold THEN saved ELSE store

serverFor(p) ==
  LET r == req[p]
  IN  /\ r.step = "serve"
      /\ servers' = [servers EXCEPT ![r.instance][r.origin] = Served(@)]
      /\ Goto(p, IF Mutating(p) THEN [r EXCEPT !.step = "handle"] ELSE Idle)
      /\ UNCHANGED <<saved, made, stops, acked, crossed>>

LoadFails(p) ==
  /\ Failures /\ req[p].step = "serve" /\ Server(p) = Cold
  /\ Goto(p, Idle)
  /\ UNCHANGED <<servers, saved, made, stops, acked, crossed>>

-----------------------------------------------------------------------------
(* The service's handler changes the parts; when it fails, the changes it  *)
(* made stay and nothing is saved.                                         *)

ChangePart(p, i) ==
  LET r == req[p]
  IN  /\ r.step = "handle" /\ i \in r.todo
      /\ servers' = [servers EXCEPT ![r.instance][r.origin][i] =
                                      @ \cup {r.change}]
      /\ Goto(p, [r EXCEPT !.todo = @ \ {i}])
      /\ UNCHANGED <<saved, made, stops, acked, crossed>>

HandlerFails(p) ==
  /\ req[p].step = "handle"
  /\ Goto(p, Idle)
  /\ UNCHANGED <<servers, saved, made, stops, acked, crossed>>

NearlyDone(r) == Cardinality(r.todo) <= 1
HandlerDone(r) == r.todo = {}

(* Afterwards the snapshot is read part by part, under one lock each, and  *)
(* saved; only then is the response written.                               *)
HandlerEnds(p) ==
  /\ req[p].step = "handle" /\ HandlerDone(req[p])
  /\ Goto(p, [req[p] EXCEPT !.step = "marshal",
                            !.base = {c \in acked : Contains(Server(p), {c})}])
  /\ UNCHANGED <<servers, saved, made, stops, acked, crossed>>

marshalPersistentSnapshot(p) ==
  LET r == req[p]  i == r.part + 1
  IN  /\ r.step = "marshal"
      /\ Goto(p, [r EXCEPT !.part = i, !.snapshot[i] = Server(p)[i],
                           !.step = IF i = Parts THEN "save" ELSE @])
      /\ UNCHANGED <<servers, saved, made, stops, acked, crossed>>

AckedAnyway(stored) == TRUE
Successful(stored) == stored

Save(p, stored) ==
  /\ req[p].step = "save" /\ (stored \/ Failures)
  /\ saved' = IF stored THEN req[p].snapshot ELSE saved
  /\ acked' = IF Successful(stored) THEN acked \cup {req[p].change} ELSE acked
  /\ Goto(p, Idle)
  /\ UNCHANGED <<servers, made, stops, crossed>>

(* An instance stops: its servers and its requests are gone.               *)
Stop(i) ==
  /\ stops < MaxStops /\ stops' = stops + 1
  /\ servers' = [servers EXCEPT ![i] = [o \in Origins |-> Cold]]
  /\ req' = [p \in Procs |-> IF req[p].instance = i THEN Idle ELSE req[p]]
  /\ UNCHANGED <<saved, made, acked, crossed>>

RuntimeNext ==
  \/ \E p \in Procs :
       \/ \E i \in Instances, o \in Origins, c \in Changes \cup {NoChange} :
            Arrive(p, i, o, c)
       \/ serverFor(p) \/ LoadFails(p)
       \/ \E i \in PartIds : ChangePart(p, i)
       \/ HandlerFails(p) \/ HandlerEnds(p)
       \/ marshalPersistentSnapshot(p)
       \/ \E stored \in BOOLEAN : Save(p, stored)
  \/ \E i \in Instances : Stop(i)

RuntimeSpec == RuntimeInit /\ [][RuntimeNext]_runtimeVars

-----------------------------------------------------------------------------
(* The types of the variables.                                             *)
RuntimeTypeOK ==
  /\ servers \in [Instances -> [Origins -> Store \cup {Cold}]]
  /\ saved \in Store
  /\ req \in [Procs -> Request]
  /\ \A p \in Procs : req[p].step \in {"handle", "marshal", "save"}
                        => Server(p) # Cold
  /\ made \subseteq Changes /\ acked \subseteq Changes
  /\ stops \in Nat /\ crossed \in BOOLEAN

(* While its instance runs, a warm server keeps every change that reached  *)
(* it: two first requests of an origin that race do not each load a server *)
(* and lose what the other one changed (serverFor).                        *)
WarmStateKept ==
  [][\A i \in Instances, o \in Origins :
       servers[i][o] # Cold /\ servers'[i][o] # Cold
         => \A k \in PartIds :
              servers[i][o][k] \subseteq servers'[i][o][k]]_runtimeVars

(* A snapshot about to be saved has all of the request's own change and    *)
(* all of what its server had acknowledged before it was taken, though the *)
(* parts are read one after the other while other requests change them.    *)
SnapshotCoversAcked ==
  \A p \in Procs : req[p].step = "save" =>
    Contains(req[p].snapshot, req[p].base \cup {req[p].change})

(* As long as mutating requests come one after the other, through servers  *)
(* that are not stale, every change answered with success survives stops   *)
(* of the instances, failed handlers and failures of the Persistence.      *)
AckedSurvivesInTurn == ~crossed => Contains(saved, acked)

(* What the documentation says of a Persistence, "snapshots across cold    *)
(* starts": what was acknowledged is there after one.                      *)
AckedSurvives ==
  (\A p \in Procs : req[p].step = "idle") => Contains(saved, acked)
=============================================================================
