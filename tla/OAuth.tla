--------------------------------- MODULE OAuth ---------------------------------
(***************************************************************************)
(* The authorization servers of internal/services: Google, Microsoft,      *)
(* Okta, Apple, Clerk, GitHub, Slack, Discord and Vercel.  Each request    *)
(* runs in a goroutine of its own and makes one store call after another,  *)
(* each atomic, in the order OAuthHandlers lists them.  A behaviour is     *)
(* that of one service.                                                    *)
(*                                                                         *)
(* A row stands for an entry of a token collection and carries the code it *)
(* descends from, its family.  The secret strings are drawn from a space   *)
(* large enough never to collide, so an id stands for one.                 *)
(***************************************************************************)
EXTENDS Integers, FiniteSets, FiniteSetsExt, OAuthHandlers

CONSTANTS Procs,     \* requests that can be in flight together
          Users,     \* the users of the service
          Services,  \* the services to check
          Rows,      \* per service, bound on the rows a behaviour inserts
          Codes      \* per service, bound on the codes a behaviour issues

ASSUME ServiceAssumption == Services \subseteq DOMAIN Handlers
ASSUME BoundAssumption == \A s \in Services : {Rows[s], Codes[s]} \subseteq Nat
ASSUME UserAssumption == Users # {}

VARIABLES service,  \* whose handlers run
          rows,     \* what the token collections hold
          users,    \* the status of each user, "gone" after deletion
          stale,    \* codes past their time to live
          nextId,   \* the next id
          req,      \* the requests in flight
          issued,   \* rows clients have been told of (history)
          dead,     \* ids that must no longer be honoured (history)
          crossed,  \* families whose requests overlapped, and users of Clerk
                    \* whose deletion met another request (history)
          asked     \* families with a token someone asked to revoke (history)

vars == <<service, rows, users, stale, nextId, req, issued, dead, crossed,
          asked>>

Row == [table : Tables, id : Nat, user : Users, family : Nat]
UserRow(u) == [table |-> "user", id |-> 0, user |-> u, family |-> 0]
UserRows == {UserRow(u) : u \in Users}

(* The locals of a request: what it names, the calls still to make by their*)
(* place in the handler, whether it ends in a refusal, whether it gives    *)
(* Apple's user object, the rows it inserted; and, as history, whether what*)
(* it names was dead when it began and whether its user has been unusable  *)
(* ever since.                                                             *)
Idle == [kind |-> "idle", names |-> UserRow(CHOOSE u \in Users : TRUE),
         calls |-> <<>>, refused |-> FALSE, first |-> FALSE, new |-> {},
         late |-> FALSE, shut |-> FALSE]
Calls == Tables \cup Statuses \cup
         {"findCode", "findRefresh", "findAccess", "findToken", "findSession",
          "activeSession", "findFirst", "unexpired", "unexpiredKeep", "user",
          "active", "dispose", "dropCode", "dropRefresh", "dropAccess",
          "dropId", "dropSessions", "dropUser", "endSession"}
Longest == 11     \* calls of a handler
Request(places) ==
  [kind : Kinds \cup {"idle"}, names : Row \cup UserRows,
   calls : [places -> Calls], refused : BOOLEAN, first : BOOLEAN,
   new : SUBSET Row, late : BOOLEAN, shut : BOOLEAN]

Init ==
  /\ service \in Services
  /\ rows = {} /\ stale = {} /\ nextId = 1
  /\ users = [u \in Users |-> "ACTIVE"]
  /\ req = [p \in Procs |-> Idle]
  /\ issued = {} /\ dead = {} /\ crossed = {} /\ asked = {}

Goto(p, r) == req' = [req EXCEPT ![p] = r]
Busy == {p \in Procs : req[p].kind # "idle"}
In(T) == {r \in rows : r.table \in T}

-----------------------------------------------------------------------------
(* A deletion is of the row the request names.                             *)
DroppedTable == [dropCode |-> "code", dropRefresh |-> "refresh",
                 dropAccess |-> "access", dropId |-> "id"]

(* A request begins.  A fault is what is wrong with it: it makes the store *)
(* calls up to the first check that catches the fault.  Requests with a    *)
(* fault that only read until they are refused change nothing and are left *)
(* out.                                                                    *)

IsCall(word) == word \notin Checks \cup DOMAIN Burns
Burnt(word, fault) == word \in DOMAIN Burns /\ Burns[word] = fault
Catches(word, fault) == word = fault \/ Burnt(word, fault)
Faults(handler) ==
  {f \in Checks : \E i \in DOMAIN handler : Catches(handler[i], f)}

Reached(handler, fault, i) == \A j \in 1..(i - 1) : ~Catches(handler[j], fault)
Places(handler, fault) ==
  {i \in DOMAIN handler : /\ Reached(handler, fault, i)
                          /\ IsCall(handler[i]) \/ Burnt(handler[i], fault)}
CallsOf(handler, fault) ==
  [i \in Places(handler, fault) |->
     IF IsCall(handler[i]) THEN handler[i] ELSE "dropCode"]
Courses ==
  [s \in Services |->
     [kind \in DOMAIN Handlers[s] |->
        LET handler == Handlers[s][kind]
        IN  [fault \in Faults(handler) \cup {"none"} |->
               CallsOf(handler, fault)]]]

Named(kind) == IF Names[kind] = {} THEN UserRows
               ELSE {r \in issued : r.table \in Names[kind]}

(* Okta's token endpoint serves ACTIVE users only, everything else any user*)
(* that exists.                                                            *)
Usable(status, kind) ==
  IF service = "okta" /\ kind \in {"authorize", "token", "refresh"}
  THEN status = "ACTIVE" ELSE status # "gone"

Inserts(calls, T) == Cardinality({i \in DOMAIN calls : calls[i] \in T})
Writes(calls) == Inserts(calls, Tables \cup DOMAIN DroppedTable) > 0
Pending(T) == MapThenSumSet(LAMBDA q : Inserts(req[q].calls, T), Procs)
KnownCodes == {r \in rows \cup issued : r.table = "code"}
Room(calls) ==
  Inserts(calls, Tables) > 0 =>
    /\ nextId + Pending(Tables) + Inserts(calls, Tables) <= Rows[service] + 1
    /\ Cardinality(KnownCodes) + Pending({"code"}) + Inserts(calls, {"code"})
         <= Codes[service]

Overlapping(kind, row) ==
  {row.family : q \in {b \in Busy : /\ row.family # 0
                                    /\ req[b].names.family = row.family}} \cup
  {row.user : q \in {b \in Busy : /\ service = "clerk"
                                  /\ req[b].names.user = row.user
                                  /\ "delete" \in {kind, req[b].kind}}}

Begin(p, kind, row, fault) ==
  LET calls == Courses[service][kind][fault]
  IN  /\ req[p].kind = "idle" /\ Room(calls)
      /\ fault = "none" \/ Writes(calls)
      /\ Goto(p, [kind |-> kind, names |-> row, calls |-> calls,
                  refused |-> fault # "none", first |-> FALSE, new |-> {},
                  late |-> \/ row.id \in dead
                           \/ /\ kind = "authorize"
                              /\ \E r \in issued : /\ r.table = "first"
                                                   /\ r.user = row.user,
                  shut |-> ~Usable(users[row.user], kind)])
      /\ crossed' = crossed \cup Overlapping(kind, row)
      /\ asked' = IF kind = "revoke" /\ row.table = "refresh"
                  THEN asked \cup {row.family} ELSE asked
      /\ UNCHANGED <<service, rows, users, stale, nextId, issued, dead>>

-----------------------------------------------------------------------------
(* The calls.                                                              *)

First(r) == Min(DOMAIN r.calls)
NextCall(r) == r.calls[First(r)]
Due(r, words) == DOMAIN r.calls # {} /\ NextCall(r) \in words
Calling(p, words) == req[p].kind # "idle" /\ Due(req[p], words)
Past(r) ==
  [r EXCEPT !.calls = [i \in DOMAIN @ \ {First(r)} |-> r.calls[i]]]
History == <<issued, dead, crossed, asked>>

Has(row) == row \in rows
EndedRow(row) == [row EXCEPT !.table = "ended"]
Ended(row) == EndedRow(row) \in rows

(* The expiry check that follows the lookup of a code only compares the    *)
(* code's time with the clock, so it belongs to the same step.             *)
Expiry == {"unexpired", "unexpiredKeep"}
Seen(r) == Has(r.names) /\ (NextCall(r) = "activeSession" => ~Ended(r.names))

AfterFind(r) ==
  LET rest == Past(r)
      expired == Due(rest, Expiry) /\ r.names.id \in stale
  IN  IF ~Seen(r) \/ (expired /\ Due(rest, {"unexpiredKeep"})) THEN Idle
      ELSE IF expired
           THEN [r EXCEPT !.calls = <<"dropCode">>, !.refused = TRUE]
      ELSE IF Due(rest, Expiry) THEN Past(rest) ELSE rest

Find(p) ==
  /\ Calling(p, {"findCode", "findRefresh", "findAccess", "findToken",
                 "findSession", "activeSession"})
  /\ Goto(p, AfterFind(req[p]))
  /\ UNCHANGED <<service, rows, users, stale, nextId, History>>

FindUser(p) ==
  LET r == req[p]  status == users[r.names.user]
      found == status # "gone" /\ (NextCall(r) = "active"
                                     => status = "ACTIVE")
  IN  /\ Calling(p, {"user", "active"})
      /\ Goto(p, IF found THEN Past(r) ELSE Idle)
      /\ UNCHANGED <<service, rows, users, stale, nextId, History>>

(* Apple: the first authorization of a user is remembered, and only that   *)
(* one carries the user object.                                            *)
FindFirst(p) ==
  LET r == req[p]
      known == \E x \in In({"first"}) : x.user = r.names.user
  IN  /\ Calling(p, {"findFirst"})
      /\ Goto(p, IF known THEN Past(Past(r)) ELSE Past(r))
      /\ UNCHANGED <<service, rows, users, stale, nextId, History>>

Insert(p) ==
  LET r == req[p]  t == NextCall(r)
      row == [table |-> t, id |-> nextId, user |-> r.names.user,
              family |-> IF t = "code" THEN nextId ELSE r.names.family]
  IN  /\ Calling(p, Tables)
      /\ rows' = rows \cup {row}
      /\ nextId' = nextId + 1
      /\ Goto(p, [Past(r) EXCEPT !.new = @ \cup {row},
                                 !.first = @ \/ t = "first"])
      /\ UNCHANGED <<service, users, stale, History>>

(* Google gives an id token only for the scope openid.                     *)
WithoutId(p) ==
  /\ Calling(p, {"id"})
  /\ Goto(p, Past(req[p]))
  /\ UNCHANGED <<service, rows, users, stale, nextId, History>>

Drop(p) ==
  LET r == req[p]
  IN  /\ Calling(p, DOMAIN DroppedTable)
      /\ rows' = rows \ {x \in {r.names} :
                           x.table = DroppedTable[NextCall(r)]}
      /\ Goto(p, Past(r))
      /\ UNCHANGED <<service, users, stale, nextId, History>>

(* Clerk: a revoked session stays, marked; an update of one that is gone   *)
(* does nothing.                                                           *)
EndSession(p) ==
  LET r == req[p]
  IN  /\ Calling(p, {"endSession"})
      /\ rows' = IF Has(r.names) THEN rows \cup {EndedRow(r.names)} ELSE rows
      /\ Goto(p, Past(r))
      /\ UNCHANGED <<service, users, stale, nextId, History>>

(* Clerk deletes a user's sessions, then the user; its tokens stay.        *)
DropSessions(p) ==
  /\ Calling(p, {"dropSessions"})
  /\ rows' = {x \in rows : \/ x.user # req[p].names.user
                           \/ x.table \notin {"session", "ended"}}
  /\ Goto(p, Past(req[p]))
  /\ UNCHANGED <<service, users, stale, nextId, History>>

SetUser(p, status) ==
  LET u == req[p].names.user
  IN  /\ users' = IF users[u] = "gone" THEN users
                  ELSE [users EXCEPT ![u] = status]
      /\ req' = [q \in Procs |->
                   LET r == IF q = p THEN Past(req[q]) ELSE req[q]
                   IN  IF r.names.user = u /\ Usable(users'[u], r.kind)
                       THEN [r EXCEPT !.shut = FALSE] ELSE r]
      /\ UNCHANGED <<service, rows, stale, nextId, History>>

SetStatus(p) == Calling(p, Statuses) /\ SetUser(p, NextCall(req[p]))
DropUser(p) == Calling(p, {"dropUser"}) /\ SetUser(p, "gone")

(* Okta deletes a user it finds DEPROVISIONED and deprovisions any other.  *)
Dispose(p) ==
  LET r == req[p]  status == users[r.names.user]
  IN  /\ Calling(p, {"dispose"})
      /\ Goto(p, IF status = "gone" THEN Idle
                 ELSE [r EXCEPT !.calls = IF status = "DEPROVISIONED"
                                          THEN <<"dropUser">>
                                          ELSE <<"DEPROVISIONED">>])
      /\ UNCHANGED <<service, rows, users, stale, nextId, History>>

-----------------------------------------------------------------------------
(* The response.  A code that was exchanged, a refresh token that was      *)
(* replaced, and what was revoked are dead from then on.                   *)

Kills(r) == \/ r.kind \in {"token", "revoke", "revokeSession"}
            \/ r.kind = "refresh" /\ \E x \in r.new : x.table = "refresh"

Granting(p) == /\ req[p].kind # "idle" /\ DOMAIN req[p].calls = {}
               /\ ~req[p].refused

Answer(p) ==
  LET r == req[p]
  IN  /\ r.kind # "idle" /\ DOMAIN r.calls = {}
      /\ issued' = IF r.refused THEN issued ELSE issued \cup r.new
      /\ dead' = IF ~r.refused /\ Kills(r) THEN dead \cup {r.names.id} ELSE dead
      /\ Goto(p, Idle)
      /\ UNCHANGED <<service, rows, users, stale, nextId, crossed, asked>>

(* Ten minutes pass.                                                       *)
Expire(row) ==
  /\ row.id \notin stale
  /\ stale' = stale \cup {row.id}
  /\ dead' = dead \cup {row.id}
  /\ UNCHANGED <<service, rows, users, nextId, req, issued, crossed, asked>>

Next ==
  \/ \E p \in Procs, kind \in DOMAIN Handlers[service] :
       \E row \in Named(kind), fault \in DOMAIN Courses[service][kind] :
         Begin(p, kind, row, fault)
  \/ \E p \in Procs :
       \/ Find(p) \/ FindUser(p) \/ FindFirst(p) \/ WithoutId(p)
       \/ Insert(p) \/ Drop(p) \/ EndSession(p) \/ DropSessions(p)
       \/ SetStatus(p) \/ DropUser(p) \/ Dispose(p) \/ Answer(p)
  \/ \E row \in In({"code"}) : Expire(row)

Spec == Init /\ [][Next]_vars

-----------------------------------------------------------------------------
(* The types of the variables.                                             *)
TypeOK ==
  /\ service \in Services
  /\ rows \subseteq Row /\ issued \subseteq Row
  /\ users \in [Users -> Statuses \cup {"gone"}]
  /\ stale \subseteq Nat /\ dead \subseteq Nat /\ nextId \in Nat
  /\ req \in [Procs -> UNION {Request(places) : places \in SUBSET (1..Longest)}]
  /\ crossed \subseteq Nat \cup Users /\ asked \subseteq Nat

(* A request that began after a code was exchanged or expired, a refresh   *)
(* token replaced, a token or a session revoked, is never granted anything *)
(* on it, in any of the services and whatever else is in flight.           *)
DeadStaysDead ==
  \A p \in Procs :
    Granting(p) /\ req[p].kind \in {"token", "refresh", "userinfo",
                                    "introspect", "sessionToken"}
      => ~req[p].late

(* Nothing is granted in the name of a user who was gone, or for Okta not  *)
(* ACTIVE, from before the request began until it was answered.            *)
UnusableRefused ==
  \A p \in Procs :
    Granting(p) /\ req[p].kind \in {"authorize", "token", "refresh",
                                    "userinfo", "createSession",
                                    "sessionToken"}
      => ~req[p].shut

(* Apple's user object is given only once, unless the authorizations       *)
(* overlap: one that began after the object was delivered does not carry   *)
(* it again.                                                               *)
FirstAuthOnce ==
  \A p \in Procs : Granting(p) /\ req[p].first => ~req[p].late

RefreshTokens(f) == {r \in In({"refresh"}) : r.family = f}

(* The refresh tokens that descend from one code are never two, unless     *)
(* requests on the code or on its tokens overlapped: rotation leaves no    *)
(* second token behind.                                                    *)
OneLiveRefresh ==
  \A f \in (1..Rows[service]) \ crossed : Cardinality(RefreshTokens(f)) <= 1

(* A client that got a refresh token and never asked to revoke it still    *)
(* has a working one whenever none of its requests is in flight, even when *)
(* its refreshes raced or were refused half way.                           *)
InFlight(f) == \E p \in Busy : req[p].names.family = f

SessionKept ==
  \A r \in issued :
    r.table = "refresh" /\ r.family \notin asked /\ ~InFlight(r.family)
      => RefreshTokens(r.family) # {}

(* Clerk leaves no session of a deleted user, unless a request for the     *)
(* user was in flight with the deletion.                                   *)
NoOrphanSession ==
  \A r \in In({"session"}) :
    users[r.user] = "gone" => r.user \in crossed
=============================================================================
