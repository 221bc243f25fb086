------------------------------ MODULE OAuthProofs ------------------------------
(***************************************************************************)
(* Proofs about OAuth, for every set of services out of the nine, every    *)
(* set of requests and of users, and every bound.  Requests in flight      *)
(* interleave call by call, so the inductive invariant says what the calls *)
(* a request has left mean: in every list of OAuthHandlers the lookups     *)
(* come before what they guard (Orderly), and so a request that is late,   *)
(* or whose user is unusable, still has the lookup that will tell it so,   *)
(* and what is no longer left to drop is gone.  Around it stand the        *)
(* identity of rows, what dead ids may still be, who is about to put back  *)
(* the last refresh token of a family, and what holds of the families and  *)
(* users whose requests did not overlap.                                   *)
(***************************************************************************)
EXTENDS OAuth, FiniteSetTheorems, WellFoundedInduction, TLAPS

(* What is left to call.                                                   *)
Left(r) == {r.calls[i] : i \in DOMAIN r.calls}

(* What each kind of request may call, and the services that call what not *)
(* all do.                                                                 *)
Looks == {"user", "active"}
WordsOf ==
  [authorize |-> Looks \cup {"code", "findFirst", "first"},
   token |-> Expiry \cup Looks \cup
             {"findCode", "dropCode", "access", "refresh", "id", "session"},
   refresh |-> Looks \cup {"findRefresh", "dropRefresh", "access", "refresh"},
   revoke |-> {"dropAccess", "dropRefresh", "dropId"},
   userinfo |-> Looks \cup {"findAccess"},
   introspect |-> {"findToken"},
   createSession |-> Looks \cup {"session"},
   sessionToken |-> Looks \cup {"activeSession"},
   revokeSession |-> {"findSession", "endSession"},
   activate |-> Statuses, reactivate |-> Statuses, suspend |-> Statuses,
   deactivate |-> Statuses,
   delete |-> Looks \cup {"dispose", "dropSessions", "dropUser",
                          "DEPROVISIONED"},
   idle |-> {}]
Owned(s, word) ==
  /\ word \in {"session", "dropSessions"} => s = "clerk"
  /\ word \in Statuses \cup {"dispose"} => s = "okta"
  /\ word = "dropUser" => s \in {"clerk", "okta"}
  /\ word = "id" => s = "google"
  /\ word = "access" => s # "apple"

(* What comes before what in every list.  Nothing that counts comes before *)
(* a check.                                                                *)
Grave == {"access", "refresh", "id", "session", "dropRefresh", "dropAccess",
          "dropId", "dropSessions", "dropUser", "endSession", "dispose"}
         \cup Statuses
Before(a, b) ==
  \/ a = "findCode" /\ b \in Expiry
  \/ a \in Expiry /\ b \notin Expiry \cup {"findCode"} /\ IsCall(b)
  \/ a \in {"findCode", "dropCode", "dropRefresh"} /\ b = "refresh"
  \/ a \in Looks \cup {"findRefresh"} /\ b = "dropRefresh"
  \/ a \notin {"findFirst", "first"} /\ b \in {"findFirst", "first"} /\ IsCall(a)
  \/ a = "findFirst" /\ b = "first"
  \/ a = "user" /\ b \in {"session", "dropSessions"}
  \/ a = "dropSessions" /\ b = "dropUser"
  \/ ~IsCall(a) /\ b \in Grave
  \/ a \in DOMAIN Burns /\ b = "dropCode"
Orderly(list) ==
  \A i, j \in DOMAIN list : /\ list[i] = list[j] => i = j
                            /\ Before(list[i], list[j]) => i < j

(* What the locals of a request mean, whatever others do.                  *)
Sound(r) ==
  /\ r.kind = "idle" => r = Idle
  /\ r.kind # "idle" => IF Names[r.kind] = {} THEN r.names \in UserRows
                        ELSE r.names \in issued /\ r.names.table \in Names[r.kind]
  /\ r.first => r.kind = "authorize"
  /\ Orderly(r.calls)
  /\ Left(r) \subseteq WordsOf[r.kind] /\ \A w \in Left(r) : Owned(service, w)
  /\ r.refused => Left(r) \cap Grave = {}

(* Rows with an id are one row, but for the mark of an ended session.      *)
Class(t) == IF t = "ended" THEN "session" ELSE t
Same(a, b) ==
  a.id = b.id => EndedRow(a) = EndedRow(b) /\ Class(a.table) = Class(b.table)
Known == rows \cup issued \cup UNION {req[p].new : p \in Procs}
RowSound(x) ==
  /\ x.id \in 1..(nextId - 1) /\ x.family < nextId
  /\ x.table = "code" => x.family = x.id
  /\ Owned(service, Class(x.table))
Identified ==
  /\ nextId # 0
  /\ \A x \in Known : RowSound(x) /\ \A y \in Known : Same(x, y)
  /\ \A x \in issued : x.table # "ended" /\ (x.table = "first" => x \in rows)
  /\ \A p \in Procs : \A x \in req[p].new :
       /\ x \notin issued /\ \A q \in Procs \ {p} : x \notin req[q].new
       /\ x.table # "ended" /\ (x.table \in {"refresh", "first"} => x \in rows)

(* A dead id honours nothing: its row is gone, expired or ended.           *)
Spent(x) == \/ x.table = "code" /\ x.id \in stale
            \/ Class(x.table) = "session" /\ Ended(x)
DeadSound ==
  /\ dead \cup stale \subseteq 1..(nextId - 1)
  /\ \A x \in rows : x.id \in dead => Spent(x)

(* A request that is late has yet to find out.                             *)
Doubtful ==
  [token |-> {"findCode"}, refresh |-> {"findRefresh"},
   userinfo |-> {"findAccess"}, introspect |-> {"findToken"},
   sessionToken |-> {"activeSession"}]
FirstOf(u) == {x \in In({"first"}) : x.user = u}
LateSound(r) ==
  /\ r.kind = "authorize" =>
       /\ FirstOf(r.names.user) # {} /\ ~r.first
       /\ "first" \in Left(r) => "findFirst" \in Left(r)
  /\ r.kind # "authorize" => r.names.id \in dead
  /\ r.kind \in DOMAIN Doubtful /\ ~r.refused => Doubtful[r.kind] \subseteq Left(r)
  /\ r.kind = "token" /\ ~r.refused => Left(r) \cap Expiry # {}

(* A request of an unusable user has yet to look at the user.              *)
Guarded == {"authorize", "token", "refresh", "userinfo", "createSession",
            "sessionToken"}
Guards(s, kind) ==
  IF s = "okta" /\ kind \in {"authorize", "token", "refresh"}
  THEN {"active"} ELSE Looks
ShutSound(r) ==
  /\ ~Usable(users[r.names.user], r.kind)
  /\ r.kind \in Guarded /\ ~r.refused => Left(r) \cap Guards(service, r.kind) # {}
UsersSound ==
  service \notin {"okta", "clerk"} => \A u \in Users : users[u] = "ACTIVE"

(* What is no longer left to do was done.                                  *)
DropOf(t) == CHOOSE w \in DOMAIN DroppedTable : DroppedTable[w] = t
Rotates(r) == "refresh" \in Left(r) \/ \E x \in r.new : x.table = "refresh"
Gone(r, word) == word \in Left(r) \/ r.names \notin rows
DoneSound(r) ==
  /\ r.kind = "token" => Gone(r, "dropCode")
  /\ r.kind = "revoke" => Gone(r, DropOf(r.names.table))
  /\ r.kind = "refresh" /\ Rotates(r) => Gone(r, "dropRefresh")
  /\ r.kind = "refresh" /\ "dropRefresh" \in Left(r) => "refresh" \in Left(r)
  /\ r.kind = "revokeSession" => \/ Gone(r, "endSession") \/ Ended(r.names)
  /\ r.kind = "revoke" /\ r.names.table = "refresh" => r.names.family \in asked

Meant(r) == /\ Sound(r) /\ (r.late => LateSound(r)) /\ (r.shut => ShutSound(r))
            /\ (~r.refused => DoneSound(r))
RequestsSound == \A p \in Procs : Meant(req[p])

(* Whoever drops the last refresh token of a family is about to insert one.*)
Rotating(r, f) == /\ r.kind = "refresh" /\ r.names.family = f
                  /\ "refresh" \in Left(r) /\ Left(r) \subseteq {"access", "refresh"}
KeptSound ==
  \A x \in issued : x.table = "refresh" /\ x.family \notin asked =>
    RefreshTokens(x.family) # {} \/ \E p \in Procs : Rotating(req[p], x.family)

(* Families whose requests did not overlap.                                *)
InFamily(f, r) == r.kind # "idle" /\ r.names.family = f
Single(f, r) ==
  "refresh" \in Left(r) =>
    /\ r.kind = "token" /\ "findCode" \notin Left(r) => RefreshTokens(f) = {}
    /\ r.kind = "refresh" /\ "findRefresh" \notin Left(r)
         => RefreshTokens(f) \subseteq {r.names}
    /\ r.kind = "refresh" /\ "dropRefresh" \notin Left(r)
         => RefreshTokens(f) = {}
FamilySound(f) ==
  /\ \A p, q \in Procs : InFamily(f, req[p]) /\ InFamily(f, req[q]) => p = q
  /\ \A x, y \in RefreshTokens(f) : x = y
  /\ \A x \in Known : x.table = "refresh" /\ x.family = f =>
       \A c \in In({"code"}) : c.family # f
  /\ \A p \in Procs : InFamily(f, req[p]) => Single(f, req[p])
FamiliesSound == \A f \in Nat \ (crossed \cup {0}) : FamilySound(f)

(* Users of Clerk whose deletion met no other request.                     *)
SessionsOf(u) == {x \in In({"session"}) : x.user = u}
OfUser(u, r) == r.kind # "idle" /\ r.names.user = u
Watched(u, r) ==
  /\ "session" \in Left(r) => "user" \in Left(r) \/ users[u] # "gone"
  /\ "dropUser" \in Left(r) => "dropSessions" \in Left(r) \/ SessionsOf(u) = {}
UserSound(u) ==
  /\ \A p, q \in Procs :
       OfUser(u, req[p]) /\ OfUser(u, req[q]) /\ req[p].kind = "delete" => p = q
  /\ users[u] = "gone" => SessionsOf(u) = {}
  /\ \A p \in Procs : OfUser(u, req[p]) => Watched(u, req[p])
OrphansSound == service = "clerk" => \A u \in Users \ crossed : UserSound(u)

IInv == /\ TypeOK /\ Identified /\ DeadSound /\ UsersSound /\ RequestsSound
        /\ KeptSound /\ FamiliesSound /\ OrphansSound
-----------------------------------------------------------------------------
(* The handlers.                                                           *)

(* What the list of a handler has: its words are calls of its kind or      *)
(* checks, in order.                                                       *)
Lists(list, word) == \E i \in DOMAIN list : list[i] = word
ListSound(s, kind, list) ==
  /\ DOMAIN list \subseteq 1..Longest
  /\ \A i \in DOMAIN list : 1..i \subseteq DOMAIN list
  /\ Orderly(list)
  /\ \A i \in DOMAIN list : IsCall(list[i]) =>
       /\ list[i] \in Calls /\ list[i] \in WordsOf[kind] /\ Owned(s, list[i])
  /\ \A i \in DOMAIN list : list[i] \in DOMAIN Burns => kind = "token"

(* What a request that nothing is wrong with has to do.                    *)
Complete(s, kind, list) ==
  /\ kind = "token" =>
       /\ Lists(list, "findCode") /\ Lists(list, "dropCode")
       /\ Lists(list, "unexpired") \/ Lists(list, "unexpiredKeep")
       /\ Lists(list, "session") => Lists(list, "user")
  /\ kind = "refresh" =>
       /\ Lists(list, "findRefresh")
       /\ Lists(list, "refresh") <=> Lists(list, "dropRefresh")
  /\ kind = "revoke" => /\ Lists(list, "dropRefresh")
                        /\ s = "google" => Lists(list, "dropId")
                        /\ s # "apple" => Lists(list, "dropAccess")
  /\ kind = "userinfo" => Lists(list, "findAccess")
  /\ kind = "introspect" => Lists(list, "findToken")
  /\ kind = "createSession" => Lists(list, "user")
  /\ kind = "sessionToken" => Lists(list, "activeSession")
  /\ kind = "revokeSession" => Lists(list, "endSession")
  /\ kind = "delete" /\ Lists(list, "dropUser") => Lists(list, "dropSessions")
  /\ Lists(list, "first") => Lists(list, "findFirst")
  /\ s \in {"okta", "clerk"} /\ kind \in Guarded =>
       \E w \in Guards(s, kind) : Lists(list, w)

HandlerSound(s, kind, list) ==
  ListSound(s, kind, list) /\ Complete(s, kind, list)

(* The lists of each service, read word by word.                           *)
LEMMA GoogleHandlers ==
  \A kind \in DOMAIN Handlers["google"] :
    HandlerSound("google", kind, Handlers["google"][kind])
  <1> USE DEF HandlerSound, ListSound, Orderly, Before, Longest, IsCall,
        Checks, Burns, Grave, Statuses, Expiry, Looks, Calls, Tables, WordsOf,
        Owned, Complete, Lists, Guards, Guarded
  <1>1. HandlerSound("google", "authorize", GoogleAuthorize)
    BY DEF GoogleAuthorize
  <1>2. HandlerSound("google", "token", GoogleToken)  BY DEF GoogleToken
  <1>3. HandlerSound("google", "refresh", GoogleRefresh)  BY DEF GoogleRefresh
  <1>4. HandlerSound("google", "revoke", GoogleRevoke)  BY DEF GoogleRevoke
  <1>5. HandlerSound("google", "userinfo", GoogleUserinfo)
    BY DEF GoogleUserinfo
  <1> HIDE DEF HandlerSound
  <1> QED  BY <1>1, <1>2, <1>3, <1>4, <1>5 DEF Handlers

LEMMA MicrosoftHandlers ==
  \A kind \in DOMAIN Handlers["microsoft"] :
    HandlerSound("microsoft", kind, Handlers["microsoft"][kind])
  <1> USE DEF HandlerSound, ListSound, Orderly, Before, Longest, IsCall,
        Checks, Burns, Grave, Statuses, Expiry, Looks, Calls, Tables, WordsOf,
        Owned, Complete, Lists, Guards, Guarded
  <1>1. HandlerSound("microsoft", "authorize", MicrosoftAuthorize)
    BY DEF MicrosoftAuthorize
  <1>2. HandlerSound("microsoft", "token", MicrosoftToken)
    BY DEF MicrosoftToken
  <1>3. HandlerSound("microsoft", "refresh", MicrosoftRefresh)
    BY DEF MicrosoftRefresh
  <1>4. HandlerSound("microsoft", "revoke", MicrosoftRevoke)
    BY DEF MicrosoftRevoke
  <1>5. HandlerSound("microsoft", "userinfo", MicrosoftUserinfo)
    BY DEF MicrosoftUserinfo
  <1> HIDE DEF HandlerSound
  <1> QED  BY <1>1, <1>2, <1>3, <1>4, <1>5 DEF Handlers

LEMMA OktaHandlers ==
  \A kind \in DOMAIN Handlers["okta"] :
    HandlerSound("okta", kind, Handlers["okta"][kind])
  <1> USE DEF HandlerSound, ListSound, Orderly, Before, Longest, IsCall,
        Checks, Burns, Grave, Statuses, Expiry, Looks, Calls, Tables, WordsOf,
        Owned, Complete, Lists, Guards, Guarded
  <1>1. HandlerSound("okta", "authorize", OktaAuthorize)  BY DEF OktaAuthorize
  <1>2. HandlerSound("okta", "token", OktaToken)  BY DEF OktaToken
  <1>3. HandlerSound("okta", "refresh", OktaRefresh)  BY DEF OktaRefresh
  <1>4. HandlerSound("okta", "revoke", OktaRevoke)  BY DEF OktaRevoke
  <1>5. HandlerSound("okta", "userinfo", OktaUserinfo)  BY DEF OktaUserinfo
  <1>6. HandlerSound("okta", "introspect", OktaIntrospect)
    BY DEF OktaIntrospect
  <1>7. HandlerSound("okta", "activate", OktaActivate)  BY DEF OktaActivate
  <1>8. HandlerSound("okta", "suspend", OktaSuspend)  BY DEF OktaSuspend
  <1>9. HandlerSound("okta", "deactivate", OktaDeactivate)
    BY DEF OktaDeactivate
  <1>10. HandlerSound("okta", "delete", OktaDelete)  BY DEF OktaDelete
  <1>11. HandlerSound("okta", "reactivate", OktaReactivate)
    BY DEF OktaReactivate
  <1> HIDE DEF HandlerSound
  <1> QED  BY <1>1, <1>2, <1>3, <1>4, <1>5, <1>6, <1>7, <1>8, <1>9, <1>10, <1>11
           DEF Handlers

LEMMA AppleHandlers ==
  \A kind \in DOMAIN Handlers["apple"] :
    HandlerSound("apple", kind, Handlers["apple"][kind])
  <1> USE DEF HandlerSound, ListSound, Orderly, Before, Longest, IsCall,
        Checks, Burns, Grave, Statuses, Expiry, Looks, Calls, Tables, WordsOf,
        Owned, Complete, Lists, Guards, Guarded
  <1>1. HandlerSound("apple", "authorize", AppleAuthorize)
    BY DEF AppleAuthorize
  <1>2. HandlerSound("apple", "token", AppleToken)  BY DEF AppleToken
  <1>3. HandlerSound("apple", "refresh", AppleRefresh)  BY DEF AppleRefresh
  <1>4. HandlerSound("apple", "revoke", AppleRevoke)  BY DEF AppleRevoke
  <1> HIDE DEF HandlerSound
  <1> QED  BY <1>1, <1>2, <1>3, <1>4 DEF Handlers

LEMMA ClerkHandlers ==
  \A kind \in DOMAIN Handlers["clerk"] :
    HandlerSound("clerk", kind, Handlers["clerk"][kind])
  <1> USE DEF HandlerSound, ListSound, Orderly, Before, Longest, IsCall,
        Checks, Burns, Grave, Statuses, Expiry, Looks, Calls, Tables, WordsOf,
        Owned, Complete, Lists, Guards, Guarded
  <1>1. HandlerSound("clerk", "authorize", ClerkAuthorize)
    BY DEF ClerkAuthorize
  <1>2. HandlerSound("clerk", "token", ClerkToken)  BY DEF ClerkToken
  <1>3. HandlerSound("clerk", "userinfo", ClerkUserinfo)  BY DEF ClerkUserinfo
  <1>4. HandlerSound("clerk", "createSession", ClerkCreateSession)
    BY DEF ClerkCreateSession
  <1>5. HandlerSound("clerk", "sessionToken", ClerkSessionToken)
    BY DEF ClerkSessionToken
  <1>6. HandlerSound("clerk", "revokeSession", ClerkRevokeSession)
    BY DEF ClerkRevokeSession
  <1>7. HandlerSound("clerk", "delete", ClerkDelete)  BY DEF ClerkDelete
  <1> HIDE DEF HandlerSound
  <1> QED  BY <1>1, <1>2, <1>3, <1>4, <1>5, <1>6, <1>7 DEF Handlers

LEMMA GitHubHandlers ==
  \A kind \in DOMAIN Handlers["github"] :
    HandlerSound("github", kind, Handlers["github"][kind])
  <1> USE DEF HandlerSound, ListSound, Orderly, Before, Longest, IsCall,
        Checks, Burns, Grave, Statuses, Expiry, Looks, Calls, Tables, WordsOf,
        Owned, Complete, Lists, Guards, Guarded
  <1>1. HandlerSound("github", "authorize", GitHubAuthorize)
    BY DEF GitHubAuthorize
  <1>2. HandlerSound("github", "token", GitHubToken)  BY DEF GitHubToken
  <1> HIDE DEF HandlerSound
  <1> QED  BY <1>1, <1>2 DEF Handlers

LEMMA SlackHandlers ==
  \A kind \in DOMAIN Handlers["slack"] :
    HandlerSound("slack", kind, Handlers["slack"][kind])
  <1> USE DEF HandlerSound, ListSound, Orderly, Before, Longest, IsCall,
        Checks, Burns, Grave, Statuses, Expiry, Looks, Calls, Tables, WordsOf,
        Owned, Complete, Lists, Guards, Guarded
  <1>1. HandlerSound("slack", "authorize", SlackAuthorize)
    BY DEF SlackAuthorize
  <1>2. HandlerSound("slack", "token", SlackToken)  BY DEF SlackToken
  <1> HIDE DEF HandlerSound
  <1> QED  BY <1>1, <1>2 DEF Handlers

LEMMA DiscordHandlers ==
  \A kind \in DOMAIN Handlers["discord"] :
    HandlerSound("discord", kind, Handlers["discord"][kind])
  <1> USE DEF HandlerSound, ListSound, Orderly, Before, Longest, IsCall,
        Checks, Burns, Grave, Statuses, Expiry, Looks, Calls, Tables, WordsOf,
        Owned, Complete, Lists, Guards, Guarded
  <1>1. HandlerSound("discord", "authorize", DiscordAuthorize)
    BY DEF DiscordAuthorize
  <1>2. HandlerSound("discord", "token", DiscordToken)  BY DEF DiscordToken
  <1> HIDE DEF HandlerSound
  <1> QED  BY <1>1, <1>2 DEF Handlers

LEMMA VercelHandlers ==
  \A kind \in DOMAIN Handlers["vercel"] :
    HandlerSound("vercel", kind, Handlers["vercel"][kind])
  <1> USE DEF HandlerSound, ListSound, Orderly, Before, Longest, IsCall,
        Checks, Burns, Grave, Statuses, Expiry, Looks, Calls, Tables, WordsOf,
        Owned, Complete, Lists, Guards, Guarded
  <1>1. HandlerSound("vercel", "authorize", VercelAuthorize)
    BY DEF VercelAuthorize
  <1>2. HandlerSound("vercel", "token", VercelToken)  BY DEF VercelToken
  <1> HIDE DEF HandlerSound
  <1> QED  BY <1>1, <1>2 DEF Handlers

(* So every list of every service is sound.                                *)
LEMMA HandlersSound ==
  \A s \in Services : \A kind \in DOMAIN Handlers[s] :
    HandlerSound(s, kind, Handlers[s][kind])
  <1>1. DOMAIN Handlers = {"google", "microsoft", "okta", "apple", "clerk",
                           "github", "slack", "discord", "vercel"}
    BY DEF Handlers
  <1> QED
    BY <1>1, GoogleHandlers, MicrosoftHandlers, OktaHandlers, AppleHandlers,
       ClerkHandlers, GitHubHandlers, SlackHandlers, DiscordHandlers,
       VercelHandlers, ServiceAssumption

-----------------------------------------------------------------------------
(* Lists of calls.                                                         *)

Requests == UNION {Request(places) : places \in SUBSET (1..Longest)}

(* A request begins with the calls up to the check that catches its fault, *)
(* or all of them.                                                         *)
LEMMA CallsBegun ==
  ASSUME NEW s, NEW kind, NEW list, HandlerSound(s, kind, list),
         NEW fault \in Faults(list) \cup {"none"},
         NEW calls, calls = CallsOf(list, fault)
  PROVE  /\ \E places \in SUBSET (1..Longest) : calls \in [places -> Calls]
         /\ Orderly(calls)
         /\ \A i \in DOMAIN calls :
              calls[i] \in WordsOf[kind] /\ Owned(s, calls[i])
         /\ fault # "none" => \A i \in DOMAIN calls : calls[i] \notin Grave
         /\ fault = "none" => \A w : IsCall(w) => (Lists(calls, w) <=> Lists(list, w))
         /\ Lists(calls, "first") => Lists(calls, "findFirst")
  <1> DEFINE P == Places(list, fault)
  <1>1. ListSound(s, kind, list)
    BY DEF HandlerSound
  <1>2. DOMAIN calls = P /\ P \subseteq DOMAIN list /\ P \subseteq 1..Longest
    BY <1>1 DEF CallsOf, Places, ListSound
  <1>3. \A i \in P : /\ IsCall(list[i]) => calls[i] = list[i]
                     /\ ~IsCall(list[i]) => /\ calls[i] = "dropCode"
                                            /\ Burnt(list[i], fault)
    BY DEF CallsOf, Places
  <1>4. IsCall("dropCode") /\ "dropCode" \in Calls /\ "dropCode" \notin Grave
    BY DEF IsCall, Checks, Burns, Calls, Grave, Statuses
  <1>5. \A i \in P : ~IsCall(list[i]) => kind = "token"
    BY <1>1, <1>2, <1>3 DEF ListSound, Burnt
  <1>6. \A i \in P : /\ calls[i] \in Calls /\ calls[i] \in WordsOf[kind]
                     /\ Owned(s, calls[i])
    <2>1. "dropCode" \in WordsOf["token"] /\ Owned(s, "dropCode")
      BY DEF WordsOf, Owned, Statuses
    <2> QED  BY <1>1, <1>2, <1>3, <1>4, <1>5, <2>1 DEF ListSound
  <1>7. \A i, n \in DOMAIN list : i \in P /\ Catches(list[n], fault) => i =< n
    <2>1. DOMAIN list \subseteq 1..Longest /\ Longest = 11
      BY <1>1 DEF ListSound, Longest
    <2>2. TAKE i \in DOMAIN list, n \in DOMAIN list
    <2>3. i \in Nat /\ n \in Nat /\ 1 =< n
      BY <2>1
    <2>4. i \in P /\ n < i => ~Catches(list[n], fault)
      BY <2>3 DEF Places, Reached
    <2> QED  BY <2>3, <2>4
  <1>8. Orderly(calls)
    <2>1. SUFFICES ASSUME NEW i \in P, NEW j \in P
                   PROVE  /\ calls[i] = calls[j] => i = j
                          /\ Before(calls[i], calls[j]) => i < j
      BY <1>2 DEF Orderly
    <2>2. i \in Nat /\ j \in Nat /\ i \in DOMAIN list /\ j \in DOMAIN list
      BY <1>2
    <2>3. Orderly(list)
      BY <1>1 DEF ListSound
    <2>4. CASE IsCall(list[i]) /\ IsCall(list[j])
      BY <1>3, <2>2, <2>3, <2>4 DEF Orderly
    <2>5. CASE ~IsCall(list[i]) /\ ~IsCall(list[j])
      <3>1. i = j
        BY <1>3, <1>7, <2>2, <2>5 DEF Catches
      <3>2. ~Before("dropCode", "dropCode")
        BY DEF Before, Expiry, Looks, Grave, Statuses, IsCall, Burns
      <3> QED  BY <1>3, <2>5, <3>1, <3>2
    <2>6. CASE IsCall(list[i]) /\ ~IsCall(list[j])
      <3>1. i =< j /\ list[j] \in DOMAIN Burns /\ i # j
        BY <1>3, <1>7, <2>2, <2>6 DEF Catches, Burnt
      <3>2. list[i] # "dropCode"
        BY <2>2, <2>3, <3>1 DEF Orderly, Before
      <3> QED  BY <1>3, <2>2, <2>6, <3>1, <3>2
    <2>7. CASE ~IsCall(list[i]) /\ IsCall(list[j])
      <3>1. j =< i /\ list[i] \in DOMAIN Burns /\ i # j
        BY <1>3, <1>7, <2>2, <2>7 DEF Catches, Burnt
      <3>2. list[j] # "dropCode" /\ list[j] \notin Grave
        BY <2>2, <2>3, <2>7, <3>1 DEF Orderly, Before
      <3>3. list[j] \in WordsOf["token"]
        BY <1>1, <1>5, <2>2, <2>7 DEF ListSound
      <3>4. ~Before("dropCode", list[j])
        BY <3>2, <3>3
        DEF Before, Expiry, Looks, Grave, Statuses, IsCall, Burns, Checks, WordsOf
      <3> QED  BY <1>3, <2>7, <3>2, <3>4
    <2> QED  BY <2>4, <2>5, <2>6, <2>7
  <1>9. fault # "none" => \A i \in DOMAIN calls : calls[i] \notin Grave
    <2>1. SUFFICES ASSUME fault # "none", NEW i \in P
                   PROVE  calls[i] \notin Grave
      BY <1>2
    <2>2. PICK n \in DOMAIN list : Catches(list[n], fault)
      BY <2>1 DEF Faults
    <2>3. ~IsCall(list[n])
      BY <2>1, <2>2 DEF Catches, Burnt, Faults, IsCall
    <2>4. i =< n /\ i \in Nat /\ n \in Nat
      BY <1>1, <1>2, <1>7, <2>2 DEF ListSound
    <2>5. list[i] \in Grave => n < i
      BY <1>1, <1>2, <2>3 DEF ListSound, Orderly, Before
    <2> QED  BY <1>3, <1>4, <2>4, <2>5
  <1>10. fault = "none" => \A w : IsCall(w) => (Lists(calls, w) <=> Lists(list, w))
    <2>1. SUFFICES ASSUME fault = "none", NEW w, IsCall(w)
                   PROVE  Lists(calls, w) <=> Lists(list, w)
      OBVIOUS
    <2>2. \A i \in DOMAIN list : ~Catches(list[i], "none")
      <3>1. "none" \notin Calls \cup Checks \cup DOMAIN Burns
        BY DEF Calls, Checks, Burns, Tables, Statuses
      <3>2. \A x : ~Burnt(x, "none")
        BY DEF Burnt, Burns
      <3> QED  BY <1>1, <3>1, <3>2 DEF Catches, IsCall, ListSound
    <2>3. P = {i \in DOMAIN list : IsCall(list[i])}
      <3>1. \A i \in DOMAIN list : \A j \in 1..(i - 1) : j \in DOMAIN list
        BY <1>1 DEF ListSound, Longest
      <3>2. \A x : ~Burnt(x, "none") /\ (Catches(x, "none") <=> x = "none")
        BY DEF Catches, Burnt, Burns
      <3> QED  BY <2>1, <2>2, <3>1, <3>2 DEF Places, Reached
    <2>4. \A i \in DOMAIN calls : i \in DOMAIN list /\ calls[i] = list[i]
      BY <1>2, <1>3, <2>3
    <2>5. \A i \in DOMAIN list : list[i] = w => i \in DOMAIN calls
      BY <1>2, <2>1, <2>3
    <2> QED  BY <2>4, <2>5 DEF Lists
  <1>11. ASSUME NEW i \in P, calls[i] = "first"
         PROVE  Lists(calls, "findFirst")
    <2>1. IsCall("findFirst")
      BY DEF IsCall, Checks, Burns
    <2>2. list[i] = "first" /\ i \in DOMAIN list
      BY <1>2, <1>3, <1>11
    <2>3. PICK j \in DOMAIN list : list[j] = "findFirst"
      BY <2>2 DEF HandlerSound, Complete, Lists
    <2>4. j < i
      BY <1>1, <2>2, <2>3 DEF ListSound, Orderly, Before
    <2>5. Reached(list, fault, j)
      <3>1. i \in Nat /\ j \in Nat /\ Reached(list, fault, i)
        BY <1>2, <2>3, <1>1 DEF Places, ListSound, Longest
      <3> QED  BY <2>4, <3>1 DEF Reached
    <2>6. j \in P
      BY <2>1, <2>3, <2>5 DEF Places
    <2> QED  BY <1>2, <1>3, <2>1, <2>3, <2>6 DEF Lists
  <1> QED
    <2>1. calls \in [P -> Calls]
      BY <1>2, <1>6 DEF CallsOf
    <2>2. Lists(calls, "first") => Lists(calls, "findFirst")
      BY <1>2, <1>11 DEF Lists
    <2> QED  BY <1>2, <1>6, <1>8, <1>9, <1>10, <2>1, <2>2

(* A set of naturals that is not empty has a least element, the one Min    *)
(* takes: the intervals up to its members are finite, so one of them holds *)
(* no other.                                                               *)
LEMMA LeastExists ==
  ASSUME NEW S \in SUBSET Nat, S # {}
  PROVE  Min(S) \in S /\ \A j \in S : Min(S) =< j
  <1> DEFINE Below == {1..n : n \in S}
  <1>1. Below \subseteq FiniteSubsetsOf(Nat)
    <2>1. \A n \in S : IsFiniteSet(1..n) /\ 1..n \subseteq Nat
      BY FS_Interval
    <2> QED  BY <2>1 DEF FiniteSubsetsOf
  <1>2. \E x \in Below : TRUE
    OBVIOUS
  <1>3. PICK m \in S : \A y \in Below :
                         ~(<<y, 1..m>> \in StrictSubsetOrdering(Nat))
    <2> HIDE DEF Below
    <2>1. \E x \in Below : \A y \in Below :
                             ~(<<y, x>> \in StrictSubsetOrdering(Nat))
      BY <1>1, <1>2, WFMin, FS_StrictSubsetOrderingWellFounded
    <2> QED  BY <2>1 DEF Below
  <1>4. \A j \in S : m =< j
    <2> SUFFICES ASSUME NEW j \in S, j < m PROVE FALSE
      OBVIOUS
    <2>1. 1..j \in Below /\ 1..m \in Below
      OBVIOUS
    <2>2. 1..j \subseteq 1..m /\ 1..j # 1..m
      <3>1. m \in 1..m /\ m \notin 1..j
        OBVIOUS
      <3> QED  BY <3>1
    <2>3. <<1..j, 1..m>> \in StrictSubsetOrdering(Nat)
      BY <1>1, <2>1, <2>2 DEF StrictSubsetOrdering, FiniteSubsetsOf
    <2> QED  BY <1>3, <2>1, <2>3
  <1> QED  BY <1>4 DEF Min

(* The fields of a request but its calls.                                  *)
Alike(n, r) ==
  /\ n.kind = r.kind /\ n.names = r.names /\ n.refused = r.refused
  /\ n.first = r.first /\ n.new = r.new /\ n.late = r.late /\ n.shut = r.shut
Fewer(n, r) ==
  /\ Alike(n, r) /\ DOMAIN n.calls \subseteq DOMAIN r.calls
  /\ \A i \in DOMAIN n.calls : n.calls[i] = r.calls[i]

(* The types of the fields of a request.                                   *)
LEMMA RequestFacts ==
  ASSUME NEW r \in Requests
  PROVE  /\ r.kind \in Kinds \cup {"idle"} /\ r.names \in Row \cup UserRows
         /\ r.refused \in BOOLEAN /\ r.first \in BOOLEAN /\ r.late \in BOOLEAN
         /\ r.shut \in BOOLEAN /\ r.new \subseteq Row
         /\ DOMAIN r.calls \subseteq 1..Longest
         /\ r.calls = [i \in DOMAIN r.calls |-> r.calls[i]]
         /\ \A i \in DOMAIN r.calls : r.calls[i] \in Calls
         /\ Left(r) \subseteq Calls
  <1>1. PICK places \in SUBSET (1..Longest) : r \in Request(places)
    BY DEF Requests
  <1> QED  BY <1>1 DEF Request, Left

(* A request whose calls are replaced is still a request.                  *)
LEMMA Recalled ==
  ASSUME NEW r \in Requests, NEW places \in SUBSET (1..Longest),
         NEW calls \in [places -> Calls]
  PROVE  /\ [r EXCEPT !.calls = calls] \in Requests
         /\ [r EXCEPT !.calls = calls].calls = calls
         /\ Alike([r EXCEPT !.calls = calls], r)
  <1>1. PICK old \in SUBSET (1..Longest) : r \in Request(old)
    BY DEF Requests
  <1>2. [r EXCEPT !.calls = calls] \in Request(places)
    BY <1>1 DEF Request
  <1> QED  BY <1>1, <1>2 DEF Request, Requests, Alike

(* Fewer calls are fewer words, in the same order.                         *)
LEMMA FewerLeft ==
  ASSUME NEW n, NEW r, Fewer(n, r)
  PROVE  /\ Left(n) \subseteq Left(r)
         /\ Orderly(r.calls) => Orderly(n.calls)
  BY DEF Fewer, Left, Orderly

(* What is past is the first call that was left, and nothing that is left  *)
(* comes before it.                                                        *)
LEMMA PastFacts ==
  ASSUME NEW r \in Requests, NEW n, n = Past(r)
  PROVE  n \in Requests /\ Fewer(n, r)
  <1>1. DOMAIN r.calls \ {First(r)} \in SUBSET (1..Longest)
    BY RequestFacts
  <1>2. [i \in DOMAIN r.calls \ {First(r)} |-> r.calls[i]] \in
          [DOMAIN r.calls \ {First(r)} -> Calls]
    BY RequestFacts
  <1>3. n = [r EXCEPT !.calls = [i \in DOMAIN r.calls \ {First(r)} |-> r.calls[i]]]
    BY RequestFacts DEF Past
  <1>4. /\ n \in Requests /\ Alike(n, r)
        /\ n.calls = [i \in DOMAIN r.calls \ {First(r)} |-> r.calls[i]]
    <2> DEFINE places == DOMAIN r.calls \ {First(r)}
               calls == [i \in places |-> r.calls[i]]
    <2>1. places \in SUBSET (1..Longest) /\ calls \in [places -> Calls]
      BY <1>1, <1>2
    <2>2. n = [r EXCEPT !.calls = calls]
      BY <1>3
    <2> HIDE DEF places, calls
    <2>3. n \in Requests /\ Alike(n, r) /\ n.calls = calls
      BY <2>1, <2>2, Recalled
    <2> QED  BY <2>3 DEF calls, places
  <1> QED  BY <1>4 DEF Fewer

(* A word is called once, so what is past is no longer left; and nothing   *)
(* that comes before a word is left once the word is next.                 *)
LEMMA NextFacts ==
  ASSUME NEW r \in Requests, NEW n, n = Past(r), Orderly(r.calls),
         DOMAIN r.calls # {}
  PROVE  /\ NextCall(r) \in Left(r) /\ Left(n) = Left(r) \ {NextCall(r)}
         /\ \A w \in Left(r) : ~Before(w, NextCall(r))
  <1>1. DOMAIN r.calls \subseteq Nat
    <2>1. DOMAIN r.calls \subseteq 1..Longest
      BY RequestFacts
    <2> QED  BY <2>1 DEF Longest
  <1>2. /\ First(r) \in DOMAIN r.calls
        /\ \A i \in DOMAIN r.calls : First(r) =< i
    BY <1>1, LeastExists DEF First
  <1>3. n.calls = [i \in DOMAIN r.calls \ {First(r)} |-> r.calls[i]]
    <2>1. PICK places \in SUBSET (1..Longest) : r \in Request(places)
      BY DEF Requests
    <2> QED  BY <2>1 DEF Past, Request
  <1>4. \A i \in DOMAIN r.calls : r.calls[i] = NextCall(r) => i = First(r)
    BY <1>2 DEF Orderly, NextCall
  <1>5. Left(n) = Left(r) \ {NextCall(r)}
    BY <1>2, <1>3, <1>4 DEF Left, NextCall
  <1>6. \A i \in DOMAIN r.calls : ~Before(r.calls[i], NextCall(r))
    BY <1>1, <1>2 DEF Orderly, NextCall
  <1> QED  BY <1>2, <1>5, <1>6 DEF Left, NextCall

-----------------------------------------------------------------------------
(* What steps leave as it was.                                             *)

(* TypeOK, with the set of requests by its name.                           *)
LEMMA Types ==
  ASSUME TypeOK
  PROVE  /\ service \in Services /\ rows \subseteq Row /\ issued \subseteq Row
         /\ users \in [Users -> Statuses \cup {"gone"}]
         /\ stale \subseteq Nat /\ dead \subseteq Nat /\ nextId \in Nat
         /\ crossed \subseteq Nat \cup Users /\ asked \subseteq Nat
         /\ req \in [Procs -> Requests]
         /\ \A p \in Procs : req[p] \in Requests
  BY DEF TypeOK, Requests

(* A request that is over has nothing left and nothing to its name.        *)
LEMMA IdleFacts ==
  /\ Idle \in Requests /\ Left(Idle) = {} /\ Idle.kind = "idle"
  /\ Idle.new = {} /\ DOMAIN Idle.calls = {} /\ ~Idle.late /\ ~Idle.shut
  /\ ~Idle.refused /\ ~Idle.first
  <1> DEFINE none == CHOOSE u \in Users : TRUE
  <1>1. none \in Users
    BY UserAssumption
  <1> HIDE DEF none
  <1>2. <<>> \in [{} -> Calls] /\ DOMAIN <<>> = {}
    OBVIOUS
  <1>3. UserRow(none) \in UserRows
    BY <1>1 DEF UserRows
  <1>4. Idle = [kind |-> "idle", names |-> UserRow(none), calls |-> <<>>,
                refused |-> FALSE, first |-> FALSE, new |-> {},
                late |-> FALSE, shut |-> FALSE]
    BY DEF Idle, none
  <1>5. Idle \in Request({})
    BY <1>2, <1>3, <1>4 DEF Request
  <1>6. {} \in SUBSET (1..Longest)
    OBVIOUS
  <1>7. Idle.calls = <<>> /\ DOMAIN Idle.calls = {}
    BY <1>2, <1>4
  <1> QED  BY <1>4, <1>5, <1>6, <1>7 DEF Requests, Left

(* Goto changes one request.                                               *)
LEMMA GotoFacts ==
  ASSUME TypeOK, NEW p \in Procs, NEW n \in Requests, Goto(p, n)
  PROVE  /\ req' \in [Procs -> Requests] /\ req'[p] = n
         /\ \A q \in Procs \ {p} : req'[q] = req[q]
  BY Types DEF Goto

(* Two rows with the same mark differ in their table only.                 *)
LEMMA RowFacts ==
  /\ \A x \in Row : /\ x.table \in Tables /\ x.id \in Nat /\ x.user \in Users
                    /\ x.family \in Nat
                    /\ EndedRow(x) \in Row /\ EndedRow(x).table = "ended"
                    /\ EndedRow(x).id = x.id /\ EndedRow(x).user = x.user
                    /\ EndedRow(x).family = x.family
                    /\ EndedRow(EndedRow(x)) = EndedRow(x)
                    /\ x.table = "ended" => EndedRow(x) = x
                    /\ x \notin UserRows
  /\ \A x, y \in Row : EndedRow(x) = EndedRow(y) =>
       /\ x.id = y.id /\ x.user = y.user /\ x.family = y.family
       /\ x.table = y.table => x = y
  /\ \A x \in UserRows : /\ x.table = "user" /\ x.id = 0 /\ x.user \in Users
                         /\ x.family = 0
  <1>1. \A x \in UserRows : /\ x.table = "user" /\ x.id = 0 /\ x.user \in Users
                            /\ x.family = 0
    BY DEF UserRows, UserRow
  <1>2. ASSUME NEW x \in Row
        PROVE  /\ x.table \in Tables /\ x.id \in Nat /\ x.user \in Users
               /\ x.family \in Nat /\ x.table # "user"
               /\ EndedRow(x) \in Row
               /\ EndedRow(x) = [table |-> "ended", id |-> x.id,
                                 user |-> x.user, family |-> x.family]
               /\ x = [table |-> x.table, id |-> x.id, user |-> x.user,
                       family |-> x.family]
    BY DEF Row, EndedRow, Tables
  <1>3. ASSUME NEW x \in Row
        PROVE  EndedRow(EndedRow(x)) = EndedRow(x)
    BY <1>2 DEF Row, EndedRow
  <1>4. ASSUME NEW x \in Row, x.table = "ended"
        PROVE  EndedRow(x) = x
    BY <1>2, <1>4
  <1>5. ASSUME NEW x \in Row, NEW y \in Row, EndedRow(x) = EndedRow(y)
        PROVE  x.id = y.id /\ x.user = y.user /\ x.family = y.family
    BY <1>2, <1>5
  <1>6. ASSUME NEW x \in Row, NEW y \in Row, EndedRow(x) = EndedRow(y),
               x.table = y.table
        PROVE  x = y
    BY <1>2, <1>5, <1>6
  <1>7. \A x \in Row : x \notin UserRows
    BY <1>1, <1>2
  <1>8. ASSUME NEW x \in Row
        PROVE  /\ EndedRow(x).table = "ended" /\ EndedRow(x).id = x.id
               /\ EndedRow(x).user = x.user /\ EndedRow(x).family = x.family
    BY <1>2
  <1> QED  BY <1>1, <1>2, <1>3, <1>4, <1>5, <1>6, <1>7, <1>8

(* Rows come with a new id or are marks, and a mark goes with its session. *)
RowStep ==
  /\ \A x \in rows' \ rows : x.id = nextId \/ x.table = "ended"
  /\ \A x \in rows \ rows' :
       /\ x.table # "first"
       /\ x.table = "ended" =>
            \A y \in rows' : Class(y.table) = "session" => y.id # x.id
Grow == /\ service' = service /\ issued \subseteq issued'
        /\ dead \subseteq dead' /\ asked \subseteq asked'

(* What a request names is a row it was told of, with an id, or a user.    *)
LEMMA NamesFacts ==
  ASSUME TypeOK, Identified, NEW r \in Requests, Sound(r), r.kind # "idle"
  PROVE  /\ r.names.user \in Users /\ r.names.id \in Nat /\ r.names.family \in Nat
         /\ r.names.id # nextId /\ r.names.table # "ended"
         /\ Names[r.kind] = {} => r.names \in UserRows /\ r.names \notin rows
         /\ Names[r.kind] # {} => /\ r.names \in issued /\ r.names \in Known
                                  /\ r.names \in Row /\ r.names.id # 0
                                  /\ r.names.table \in Names[r.kind]
  <1>1. CASE Names[r.kind] = {}
    <2>1. r.names \in UserRows
      BY <1>1 DEF Sound
    <2> QED  BY <1>1, <2>1, RowFacts, Types DEF Identified, Tables
  <1>2. CASE Names[r.kind] # {}
    <2>1. r.names \in issued /\ r.names \in Known /\ r.names \in Row
          /\ r.names.table \in Names[r.kind]
      BY <1>2, Types DEF Sound, Known
    <2>2. RowSound(r.names) /\ r.names.table # "ended"
      BY <2>1 DEF Identified
    <2> QED  BY <1>2, <2>1, <2>2, RowFacts, Types DEF RowSound
  <1> QED  BY <1>1, <1>2

(* A row that is named is not made again.                                  *)
LEMMA NamesStay ==
  ASSUME TypeOK, Identified, TypeOK', RowStep, NEW r \in Requests, Sound(r),
         r.kind # "idle", r.names \in rows'
  PROVE  r.names \in rows
  BY NamesFacts, Types, RowFacts DEF RowStep

(* Sound says nothing of the rows that are held.                           *)
LEMMA SoundKept ==
  ASSUME NEW r, Sound(r), Grow
  PROVE  Sound(r)'
  BY DEF Sound, Grow

(* A request that was late stays late: the first authorization stays, and  *)
(* the dead stay dead.                                                     *)
LEMMA LateKept ==
  ASSUME NEW r, LateSound(r), RowStep, Grow
  PROVE  LateSound(r)'
  BY DEF LateSound, RowStep, Grow, FirstOf, In

(* A user who is not touched stays unusable.                               *)
LEMMA ShutKept ==
  ASSUME NEW r, ShutSound(r), Grow, users'[r.names.user] = users[r.names.user]
  PROVE  ShutSound(r)'
  BY DEF ShutSound, Grow, Usable

(* What a request has dropped or ended is not undone by others.            *)
LEMMA DoneKept ==
  ASSUME TypeOK, Identified, TypeOK', RowStep, Grow, NEW r \in Requests,
         Sound(r), r.kind # "idle", DoneSound(r)
  PROVE  DoneSound(r)'
  <1>1. r.names \notin rows => r.names \notin rows'
    BY NamesStay
  <1>2. \A w : Gone(r, w) => Gone(r, w)'
    BY <1>1 DEF Gone
  <1>3. ASSUME r.kind = "revokeSession", Ended(r.names), r.names \in rows'
        PROVE  Ended(r.names)'
    <2>1. r.names \in Row /\ r.names.table = "session" /\ r.names.id # 0
      BY <1>3, NamesFacts DEF Names
    <2>2. EndedRow(r.names).id = r.names.id /\ EndedRow(r.names).table = "ended"
      BY <2>1, RowFacts
    <2> QED  BY <1>3, <2>1, <2>2 DEF RowStep, Ended, Class
  <1>4. r.kind = "revokeSession" =>
          (Gone(r, "endSession") \/ Ended(r.names))'
    BY <1>2, <1>3 DEF DoneSound, Gone
  <1> QED  BY <1>2, <1>4 DEF DoneSound, Grow

(* What others do leaves what a request means.                             *)
LEMMA MeantKept ==
  ASSUME TypeOK, Identified, TypeOK', RowStep, Grow, NEW r \in Requests,
         Meant(r), r.shut => users'[r.names.user] = users[r.names.user]
  PROVE  Meant(r)'
  <1>1. Sound(r)' /\ (r.late => LateSound(r)') /\ (r.shut => ShutSound(r)')
    BY SoundKept, LateKept, ShutKept DEF Meant
  <1>2. CASE r.kind # "idle"
    BY <1>1, <1>2, DoneKept DEF Meant
  <1>3. CASE r.kind = "idle"
    <2>1. r.kind \notin {"token", "revoke", "refresh", "revokeSession"}
      BY <1>3
    <2>2. DoneSound(r)'
      BY <2>1 DEF DoneSound
    <2> QED  BY <1>1, <2>2 DEF Meant
  <1> QED  BY <1>2, <1>3

-----------------------------------------------------------------------------
(* What a step leaves as it was, one part of the invariant after another.  *)

Aside(p) ==
  \A q \in Procs \ {p} :
    /\ req'[q].kind = req[q].kind /\ req'[q].names = req[q].names
    /\ req'[q].calls = req[q].calls /\ req'[q].new = req[q].new
SameNames(n, r) == n.kind = r.kind /\ n.names = r.names

(* A request that is over means nothing.                                   *)
LEMMA IdleMeant == Meant(Idle)
  <1>1. Left(Idle) = {} /\ Idle.kind = "idle" /\ ~Idle.late /\ ~Idle.shut
        /\ ~Idle.first
    BY IdleFacts
  <1>2. Orderly(Idle.calls)
    BY IdleFacts DEF Orderly
  <1>3. Sound(Idle)
    BY <1>1, <1>2 DEF Sound
  <1>4. DoneSound(Idle)
    <2>1. Idle.kind \notin {"token", "revoke", "refresh", "revokeSession"}
      BY <1>1
    <2> QED  BY <2>1 DEF DoneSound
  <1> QED  BY <1>1, <1>3, <1>4 DEF Meant

(* Dropping rows disturbs no id, if none is a refresh token a request has  *)
(* yet to answer with or a first authorization.                            *)
LEMMA IdentifiedKept ==
  ASSUME Identified, service' = service, nextId' = nextId, rows' \subseteq rows,
         issued' = issued,
         \A x \in rows \ rows' :
           /\ x.table # "first"
           /\ x.table = "refresh" => \A q \in Procs : x \notin req[q].new,
         \A q \in Procs : req'[q].new \subseteq req[q].new
  PROVE  Identified'
  <1>1. Known' \subseteq Known
    BY DEF Known
  <1>2. \A x \in Known : RowSound(x) => RowSound(x)'
    BY DEF RowSound
  <1>3. \A x \in Known' : RowSound(x)' /\ \A y \in Known' : Same(x, y)
    BY <1>1, <1>2 DEF Identified
  <1> QED  BY <1>3 DEF Identified

(* An id once given stays given.                                           *)
LEMMA IntervalGrows ==
  \A a, b \in Nat : a =< b => \A i \in 1..(a - 1) : i \in 1..(b - 1)
  OBVIOUS

(* A step that kills nothing disturbs nothing dead: new rows have new ids, *)
(* and a mark goes only with its session.                                  *)
LEMMA DeadKept ==
  ASSUME TypeOK, TypeOK', Identified, DeadSound, RowStep, dead' = dead,
         stale' = stale, nextId' \in {nextId, nextId + 1}
  PROVE  DeadSound'
  <1>1. nextId \in Nat /\ dead \subseteq 1..(nextId - 1)
        /\ stale \subseteq 1..(nextId - 1) /\ nextId \notin dead
    BY Types DEF DeadSound
  <1>2. dead' \cup stale' \subseteq 1..(nextId' - 1)
    <2>1. nextId' \in Nat /\ nextId =< nextId'
      BY <1>1
    <2>2. \A i \in 1..(nextId - 1) : i \in 1..(nextId' - 1)
      BY <2>1, <1>1, IntervalGrows
    <2> QED  BY <1>1, <2>2
  <1>3. ASSUME NEW x \in rows', x.id \in dead
        PROVE  Spent(x)'
    <2>1. x \in Row
      BY <1>3 DEF TypeOK
    <2>2. CASE x \notin rows
      <3>1. x.table = "ended"
        BY <1>1, <1>3, <2>2 DEF RowStep
      <3> QED  BY <1>3, <2>1, <3>1, RowFacts DEF Spent, Class, Ended
    <2>3. CASE x \in rows /\ x.table = "code" /\ x.id \in stale
      BY <2>3 DEF Spent
    <2>4. CASE x \in rows /\ Class(x.table) = "session" /\ Ended(x)
      <3>1. EndedRow(x).id = x.id /\ EndedRow(x).table = "ended"
        BY <2>1, RowFacts
      <3> QED  BY <1>3, <2>4, <3>1 DEF RowStep, Spent, Ended
    <2> QED  BY <1>3, <2>2, <2>3, <2>4 DEF DeadSound, Spent
  <1> QED  BY <1>2, <1>3 DEF DeadSound

(* A step of one request leaves the others as they were.                   *)
LEMMA RequestsKept ==
  ASSUME TypeOK, Identified, TypeOK', RowStep, Grow, RequestsSound,
         users' = users, NEW p \in Procs, Meant(req[p])',
         \A q \in Procs \ {p} : req'[q] = req[q]
  PROVE  RequestsSound'
  <1>1. ASSUME NEW q \in Procs \ {p}
        PROVE  Meant(req[q])'
    <2>1. PICK r \in Requests : r = req[q]
      BY Types
    <2>2. Meant(r)
      BY <2>1 DEF RequestsSound
    <2>3. Meant(r)'
      BY <2>2, MeantKept
    <2> QED  BY <2>1, <2>3
  <1> QED  BY <1>1 DEF RequestsSound

(* A step that drops no refresh token, of a request that is not rotating,  *)
(* leaves each client its token.                                           *)
LEMMA RotationKept ==
  ASSUME KeptSound, issued' = issued, asked \subseteq asked',
         \A x \in rows : x.table = "refresh" => x \in rows',
         NEW p \in Procs, Aside(p), \A f : ~Rotating(req[p], f)
  PROVE  KeptSound'
  <1>1. ASSUME NEW x \in issued, x.table = "refresh", x.family \notin asked'
        PROVE  (RefreshTokens(x.family) # {})'
               \/ \E q \in Procs : Rotating(req[q], x.family)'
    <2>1. CASE RefreshTokens(x.family) # {}
      BY <2>1 DEF RefreshTokens, In
    <2>2. CASE \E q \in Procs : Rotating(req[q], x.family)
      BY <2>2 DEF Aside, Rotating, Left
    <2> QED  BY <1>1, <2>1, <2>2 DEF KeptSound
  <1> QED  BY <1>1 DEF KeptSound

(* A step that adds no code and no refresh token disturbs no family, if the*)
(* request that takes it learned what it takes for granted.                *)
LEMMA FamiliesKept ==
  ASSUME FamiliesSound, crossed \subseteq crossed',
         \A x \in rows' : x.table \in {"refresh", "code"} => x \in rows,
         \A x \in Known' : x.table = "refresh" => x \in Known,
         NEW p \in Procs, Aside(p),
         req'[p].kind = "idle" \/ SameNames(req'[p], req[p]),
         \A f \in Nat \ (crossed \cup {0}) :
           FamilySound(f) /\ InFamily(f, req'[p]) => Single(f, req[p])'
  PROVE  FamiliesSound'
  <1>1. SUFFICES ASSUME NEW f \in Nat \ (crossed' \cup {0})
                 PROVE  FamilySound(f)'
    BY DEF FamiliesSound
  <1>2. FamilySound(f)
    BY <1>1 DEF FamiliesSound
  <1>3. RefreshTokens(f)' \subseteq RefreshTokens(f)
        /\ In({"code"})' \subseteq In({"code"})
    BY DEF RefreshTokens, In
  <1>4. \A q \in Procs : InFamily(f, req'[q]) => InFamily(f, req[q])
    BY DEF InFamily, Aside, SameNames
  <1>5. ASSUME NEW q \in Procs, InFamily(f, req'[q])
        PROVE  Single(f, req[q])'
    <2>1. CASE q = p
      BY <1>1, <1>2, <1>5, <2>1
    <2>2. CASE q # p
      <3>1. Single(f, req[q]) /\ req'[q].kind = req[q].kind
            /\ req'[q].names = req[q].names /\ Left(req'[q]) = Left(req[q])
        BY <1>2, <1>4, <1>5, <2>2 DEF FamilySound, Aside, Left
      <3> QED  BY <1>3, <3>1 DEF Single
    <2> QED  BY <2>1, <2>2
  <1>6. \A q1, q2 \in Procs :
          InFamily(f, req'[q1]) /\ InFamily(f, req'[q2]) => q1 = q2
    BY <1>2, <1>4 DEF FamilySound
  <1>7. \A x, y \in RefreshTokens(f)' : x = y
    BY <1>2, <1>3 DEF FamilySound
  <1>8. \A x \in Known' : x.table = "refresh" /\ x.family = f =>
          \A c \in In({"code"})' : c.family # f
    BY <1>2, <1>3 DEF FamilySound
  <1>9. \A q \in Procs : InFamily(f, req[q])' => Single(f, req[q])'
    BY <1>5 DEF InFamily
  <1> QED  BY <1>6, <1>7, <1>8, <1>9 DEF FamilySound, InFamily

(* A step that adds no session disturbs no user, if the request that takes *)
(* it learned what it takes for granted.                                   *)
LEMMA OrphansKept ==
  ASSUME OrphansSound, service' = service, crossed \subseteq crossed',
         users' = users,
         \A x \in rows' : x.table = "session" => x \in rows,
         NEW p \in Procs, Aside(p),
         req'[p].kind = "idle" \/ SameNames(req'[p], req[p]),
         service = "clerk" => \A u \in Users \ crossed :
           UserSound(u) /\ OfUser(u, req'[p]) => Watched(u, req[p])'
  PROVE  OrphansSound'
  <1>1. SUFFICES ASSUME service = "clerk", NEW u \in Users \ crossed'
                 PROVE  UserSound(u)'
    BY DEF OrphansSound
  <1>2. UserSound(u)
    BY <1>1 DEF OrphansSound
  <1>3. SessionsOf(u)' \subseteq SessionsOf(u)
    BY DEF SessionsOf, In
  <1>4. \A q \in Procs : OfUser(u, req'[q]) =>
          OfUser(u, req[q]) /\ req'[q].kind = req[q].kind
    BY DEF OfUser, Aside, SameNames
  <1>5. ASSUME NEW q \in Procs, OfUser(u, req'[q])
        PROVE  Watched(u, req[q])'
    <2>1. CASE q = p
      BY <1>1, <1>2, <1>5, <2>1
    <2>2. CASE q # p
      <3>1. Watched(u, req[q]) /\ Left(req'[q]) = Left(req[q])
        BY <1>2, <1>4, <1>5, <2>2 DEF UserSound, Aside, Left
      <3> QED  BY <1>3, <3>1 DEF Watched
    <2> QED  BY <2>1, <2>2
  <1>6. \A q1, q2 \in Procs :
          OfUser(u, req'[q1]) /\ OfUser(u, req'[q2]) /\ req'[q1].kind = "delete"
            => q1 = q2
    BY <1>2, <1>4 DEF UserSound
  <1>7. users'[u] = "gone" => SessionsOf(u)' = {}
    BY <1>2, <1>3 DEF UserSound
  <1> QED  BY <1>5, <1>6, <1>7 DEF UserSound, OfUser

-----------------------------------------------------------------------------
(* A request that makes its next call.                                     *)

Keeps(n, r, words) == \A w \in words : w \in Left(r) => w \in Left(n)
Doubts == {"findCode", "findRefresh", "findAccess", "findToken",
           "activeSession", "findFirst"} \cup Expiry
Deeds == DOMAIN DroppedTable \cup {"endSession"}

(* A request with fewer calls left is as sound.                            *)
LEMMA SoundFewer ==
  ASSUME NEW r, Sound(r), r.kind # "idle", NEW n, Fewer(n, r)
  PROVE  Sound(n)
  BY FewerLeft DEF Sound, Fewer, Alike

(* A request that makes its next call, and what it is past it.             *)
LEMMA CallFacts ==
  ASSUME IInv, NEW p \in Procs, NEW words, Calling(p, words),
         NEW r, r = req[p], NEW n, n = Past(r)
  PROVE  /\ r \in Requests /\ r.kind \in Kinds /\ r.kind # "idle" /\ Meant(r)
         /\ DOMAIN r.calls # {}
         /\ n \in Requests /\ Fewer(n, r) /\ Sound(n)
         /\ NextCall(r) \in words /\ NextCall(r) \in Left(r)
         /\ Left(n) = Left(r) \ {NextCall(r)}
         /\ \A w \in Left(r) : /\ ~Before(w, NextCall(r)) /\ IsCall(w)
                               /\ w \in WordsOf[r.kind] /\ Owned(service, w)
         /\ r.refused => NextCall(r) \notin Grave
  <1>1. r \in Requests /\ Meant(r) /\ r.kind # "idle" /\ DOMAIN r.calls # {}
        /\ NextCall(r) \in words
    BY Types DEF IInv, RequestsSound, Calling, Due
  <1>2. Sound(r) /\ Orderly(r.calls)
    BY <1>1 DEF Meant, Sound
  <1>3. n \in Requests /\ Fewer(n, r)
    BY <1>1, PastFacts
  <1>4. NextCall(r) \in Left(r) /\ Left(n) = Left(r) \ {NextCall(r)}
        /\ \A w \in Left(r) : ~Before(w, NextCall(r))
    BY <1>1, <1>2, NextFacts
  <1>5. \A w \in Calls : IsCall(w)
    BY DEF Calls, IsCall, Checks, Burns, Tables, Statuses
  <1>6. \A w \in Left(r) : IsCall(w) /\ w \in WordsOf[r.kind] /\ Owned(service, w)
    BY <1>1, <1>2, <1>5, RequestFacts DEF Sound
  <1>7. r.refused => NextCall(r) \notin Grave
    BY <1>2, <1>4 DEF Sound
  <1>8. Sound(n)
    BY <1>1, <1>2, <1>3, SoundFewer
  <1>9. r.kind \in Kinds
    BY <1>1, RequestFacts
  <1> QED  BY <1>1, <1>3, <1>4, <1>6, <1>7, <1>8, <1>9

(* A request stays late as long as it keeps the lookups that would tell it *)
(* so.                                                                     *)
LEMMA LateFewer ==
  ASSUME NEW r, r.late => LateSound(r), NEW n, Fewer(n, r), Keeps(n, r, Doubts)
  PROVE  n.late => LateSound(n)
  <1>1. \A kind \in DOMAIN Doubtful : Doubtful[kind] \subseteq Doubts
    BY DEF Doubts, Doubtful
  <1>2. Expiry \subseteq Doubts /\ "findFirst" \in Doubts
    BY DEF Doubts
  <1> QED  BY <1>1, <1>2, FewerLeft DEF LateSound, Fewer, Alike, Keeps

(* A request of an unusable user keeps the look at the user.               *)
LEMMA ShutFewer ==
  ASSUME NEW r, r.shut => ShutSound(r), NEW n, Fewer(n, r), Keeps(n, r, Looks)
  PROVE  n.shut => ShutSound(n)
  <1>1. Guards(service, r.kind) \subseteq Looks
    BY DEF Guards, Looks
  <1> QED  BY <1>1 DEF ShutSound, Fewer, Alike, Keeps

(* The call that drops a row of each table.                                *)
LEMMA DropOfFacts ==
  /\ DropOf("code") = "dropCode" /\ DropOf("refresh") = "dropRefresh"
  /\ DropOf("access") = "dropAccess" /\ DropOf("id") = "dropId"
  <1>1. DOMAIN DroppedTable = {"dropCode", "dropRefresh", "dropAccess", "dropId"}
        /\ DroppedTable["dropCode"] = "code"
        /\ DroppedTable["dropRefresh"] = "refresh"
        /\ DroppedTable["dropAccess"] = "access"
        /\ DroppedTable["dropId"] = "id"
    BY DEF DroppedTable
  <1>2. ASSUME NEW t, NEW w \in DOMAIN DroppedTable, DroppedTable[w] = t
        PROVE  DropOf(t) = w
    <2>1. \A v \in DOMAIN DroppedTable : DroppedTable[v] = t => v = w
      BY <1>1, <1>2
    <2>2. DropOf(t) \in DOMAIN DroppedTable /\ DroppedTable[DropOf(t)] = t
      BY <1>2 DEF DropOf
    <2> QED  BY <2>1, <2>2
  <1> QED  BY <1>1, <1>2

(* A request that keeps its deeds to do has what it did still done.        *)
LEMMA DoneFewer ==
  ASSUME NEW r, Sound(r), r.kind # "idle", ~r.refused => DoneSound(r), NEW n,
         Fewer(n, r), Keeps(n, r, Deeds),
         "dropRefresh" \in Left(n) => Keeps(n, r, {"refresh"})
  PROVE  ~n.refused => DoneSound(n)
  <1>1. r.kind = "revoke" => DropOf(r.names.table) \in Deeds
    <2>1. r.kind = "revoke" => r.names.table \in {"access", "refresh", "id"}
      BY DEF Sound, Names
    <2> QED  BY <2>1, DropOfFacts DEF Deeds, DroppedTable
  <1>2. {"dropCode", "dropRefresh", "endSession"} \subseteq Deeds
    BY DEF Deeds, DroppedTable
  <1>3. n.kind = r.kind /\ n.names = r.names /\ n.refused = r.refused
        /\ n.new = r.new /\ Left(n) \subseteq Left(r)
    BY FewerLeft DEF Fewer, Alike
  <1>4. \A w \in Deeds : Gone(r, w) => Gone(n, w)
    BY <1>3 DEF Gone, Keeps
  <1>5. Rotates(n) => Rotates(r)
    BY <1>3 DEF Rotates
  <1>6. "dropRefresh" \in Left(n) /\ "refresh" \in Left(r) => "refresh" \in Left(n)
    BY DEF Keeps
  <1> QED  BY <1>1, <1>2, <1>3, <1>4, <1>5, <1>6 DEF DoneSound

(* A step that writes nothing.                                             *)
LEMMA QuietStep ==
  ASSUME IInv, NEW p \in Procs, NEW r, r = req[p], NEW n \in Requests,
         Goto(p, n), UNCHANGED <<service, rows, users, stale, nextId, History>>,
         Meant(n), n.new \subseteq r.new, n.kind = "idle" \/ SameNames(n, r),
         \A f : ~Rotating(r, f),
         \A f \in Nat \ (crossed \cup {0}) :
           FamilySound(f) /\ InFamily(f, n) => Single(f, n),
         service = "clerk" => \A u \in Users \ crossed :
           UserSound(u) /\ OfUser(u, n) => Watched(u, n)
  PROVE  IInv'
  <1>1. /\ TypeOK /\ Identified /\ DeadSound /\ UsersSound /\ RequestsSound
        /\ KeptSound /\ FamiliesSound /\ OrphansSound
    BY DEF IInv
  <1>2. /\ service' = service /\ rows' = rows /\ users' = users
        /\ stale' = stale /\ nextId' = nextId /\ issued' = issued
        /\ dead' = dead /\ crossed' = crossed /\ asked' = asked
    BY DEF History
  <1>3. /\ req' \in [Procs -> Requests] /\ req'[p] = n
        /\ \A q \in Procs \ {p} : req'[q] = req[q]
    BY <1>1, GotoFacts
  <1>4. TypeOK'
    BY <1>1, <1>2, <1>3 DEF TypeOK, Requests
  <1>5. Aside(p) /\ RowStep /\ Grow
    BY <1>2, <1>3 DEF Aside, RowStep, Grow
  <1>6. Identified'
    BY <1>1, <1>2, <1>3, IdentifiedKept
  <1>7. DeadSound'
    BY <1>1, <1>2, <1>4, <1>5, DeadKept
  <1>8. UsersSound'
    BY <1>1, <1>2 DEF UsersSound
  <1>9. RequestsSound'
    <2>1. Meant(n)'
      BY <1>1, <1>2, <1>4, <1>5, MeantKept
    <2> QED  BY <1>1, <1>2, <1>3, <1>4, <1>5, <2>1, RequestsKept
  <1>10. KeptSound'
    BY <1>1, <1>2, <1>5, RotationKept
  <1>11. FamiliesSound'
    <2>1. Known' \subseteq Known
      BY <1>2, <1>3 DEF Known
    <2>2. ASSUME NEW f \in Nat \ (crossed \cup {0}), FamilySound(f),
                 InFamily(f, req'[p])
          PROVE  Single(f, req[p])'
      <3>1. Single(f, n)
        BY <1>3, <2>2
      <3>2. RefreshTokens(f)' = RefreshTokens(f)
        BY <1>2 DEF RefreshTokens, In
      <3> QED  BY <1>3, <3>1, <3>2 DEF Single
    <2> QED  BY <1>1, <1>2, <1>3, <1>5, <2>1, <2>2, FamiliesKept
  <1>12. OrphansSound'
    <2>1. ASSUME service = "clerk", NEW u \in Users \ crossed, UserSound(u),
                 OfUser(u, req'[p])
          PROVE  Watched(u, req[p])'
      <3>1. Watched(u, n)
        BY <1>3, <2>1
      <3>2. SessionsOf(u)' = SessionsOf(u)
        BY <1>2 DEF SessionsOf, In
      <3> QED  BY <1>2, <1>3, <3>1, <3>2 DEF Watched
    <2> QED  BY <1>1, <1>2, <1>3, <1>5, <2>1, OrphansKept
  <1> QED  BY <1>4, <1>6, <1>7, <1>8, <1>9, <1>10, <1>11, <1>12 DEF IInv

(* A request that ends without having written.                             *)
LEMMA GivingUp ==
  ASSUME IInv, NEW p \in Procs, Goto(p, Idle), \A f : ~Rotating(req[p], f),
         UNCHANGED <<service, rows, users, stale, nextId, History>>
  PROVE  IInv'
  <1>1. Idle \in Requests /\ Meant(Idle) /\ Idle.kind = "idle" /\ Idle.new = {}
    BY IdleFacts, IdleMeant
  <1>2. (\A f : ~InFamily(f, Idle)) /\ \A u : ~OfUser(u, Idle)
    BY <1>1 DEF InFamily, OfUser
  <1> QED  BY <1>1, <1>2, QuietStep

-----------------------------------------------------------------------------
(* The calls that only read.                                               *)

(* A request that keeps its lookups and its drop takes no more of its      *)
(* family for granted.                                                     *)
LEMMA SingleFewer ==
  ASSUME NEW f, NEW r, Single(f, r), NEW n, Fewer(n, r),
         Keeps(n, r, {"findCode", "findRefresh", "dropRefresh"})
  PROVE  Single(f, n)
  BY FewerLeft DEF Single, Fewer, Alike, Keeps

(* A request that keeps its look at the user and its drop of the sessions  *)
(* takes no more of the user for granted.                                  *)
LEMMA WatchedFewer ==
  ASSUME NEW u, NEW r, Watched(u, r), NEW n, Fewer(n, r),
         Keeps(n, r, {"dropSessions"}),
         Keeps(n, r, {"user"}) \/ users[u] # "gone"
  PROVE  Watched(u, n)
  BY FewerLeft DEF Watched, Keeps

(* A call that only reads and after which the request goes on.             *)
LEMMA QuietCall ==
  ASSUME IInv, NEW p \in Procs, NEW r, r = req[p], r.kind # "idle",
         \E w \in Left(r) : w \notin {"access", "refresh"},
         NEW n \in Requests, Goto(p, n), Fewer(n, r), Meant(n),
         UNCHANGED <<service, rows, users, stale, nextId, History>>,
         \A f \in Nat \ (crossed \cup {0}) :
           FamilySound(f) /\ InFamily(f, r) => Single(f, n),
         Keeps(n, r, {"dropSessions"}),
         Keeps(n, r, {"user"}) \/ users[r.names.user] # "gone"
  PROVE  IInv'
  <1>1. SameNames(n, r) /\ n.new = r.new
    BY DEF Fewer, Alike, SameNames
  <1>2. \A f : ~Rotating(r, f)
    BY DEF Rotating
  <1>3. \A f : InFamily(f, n) => InFamily(f, r)
    BY <1>1 DEF InFamily, SameNames
  <1>4. ASSUME NEW u \in Users \ crossed, UserSound(u), OfUser(u, n)
        PROVE  Watched(u, n)
    <2>1. OfUser(u, r) /\ u = r.names.user
      BY <1>1, <1>4 DEF OfUser, SameNames
    <2>2. Watched(u, r)
      BY <1>4, <2>1 DEF UserSound
    <2> QED  BY <2>1, <2>2, WatchedFewer
  <1> QED  BY <1>1, <1>2, <1>3, <1>4, QuietStep

(* The user is looked up: a request whose user is unusable ends here.      *)
LEMMA FindUserStep ==
  ASSUME IInv, NEW p \in Procs, FindUser(p)
  PROVE  IInv'
  <1>1. PICK r : r = req[p]
    OBVIOUS
  <1>2. PICK n : n = Past(r)
    OBVIOUS
  <1> DEFINE w == NextCall(r)
             status == users[r.names.user]
             found == status # "gone" /\ (w = "active" => status = "ACTIVE")
  <1>3. Calling(p, {"user", "active"}) /\ Goto(p, IF found THEN n ELSE Idle)
        /\ UNCHANGED <<service, rows, users, stale, nextId, History>>
    BY <1>1, <1>2 DEF FindUser
  <1>4. /\ r \in Requests /\ r.kind # "idle" /\ Meant(r) /\ n \in Requests
        /\ Fewer(n, r) /\ Sound(n) /\ w \in {"user", "active"} /\ w \in Left(r)
        /\ Left(n) = Left(r) \ {w}
    BY <1>1, <1>2, <1>3, CallFacts
  <1>5. \A f : ~Rotating(r, f)
    BY <1>4 DEF Rotating
  <1>6. CASE ~found
    <2>1. Goto(p, Idle)
      BY <1>3, <1>6
    <2> QED  BY <1>1, <1>3, <1>5, <2>1, GivingUp
  <1>7. CASE found
    <2>1. Goto(p, n)
      BY <1>3, <1>7
    <2> HIDE DEF w
    <2>2. Keeps(n, r, Doubts) /\ Keeps(n, r, Deeds)
      BY <1>4 DEF Keeps, Doubts, Deeds, DroppedTable, Expiry
    <2>3. n.shut => ShutSound(n)
      <3>1. r.shut => ShutSound(r)
        BY <1>4 DEF Meant
      <3>2. ASSUME r.shut  PROVE  w \notin Guards(service, r.kind)
        BY <1>4, <1>7, <3>1, <3>2 DEF ShutSound, Usable, Guards, Looks
      <3> QED  BY <1>4, <3>1, <3>2 DEF ShutSound, Fewer, Alike
    <2>4. n.late => LateSound(n)
      BY <1>4, <2>2, LateFewer DEF Meant
    <2>5. ~n.refused => DoneSound(n)
      <3>1. Keeps(n, r, {"refresh"})
        BY <1>4 DEF Keeps
      <3> QED  BY <1>4, <2>2, <3>1, DoneFewer DEF Meant
    <2>6. Meant(n)
      BY <1>4, <2>3, <2>4, <2>5 DEF Meant
    <2>7. ASSUME NEW f \in Nat \ (crossed \cup {0}), FamilySound(f),
                 InFamily(f, r)
          PROVE  Single(f, n)
      <3>1. Single(f, r)
        BY <1>1, <2>7 DEF FamilySound
      <3>2. Keeps(n, r, {"findCode", "findRefresh", "dropRefresh"})
        BY <1>4 DEF Keeps
      <3> QED  BY <1>4, <3>1, <3>2, SingleFewer
    <2>8. Keeps(n, r, {"dropSessions"}) /\ status # "gone"
      BY <1>4, <1>7 DEF Keeps
    <2>9. \E v \in Left(r) : v \notin {"access", "refresh"}
      BY <1>4
    <2> QED
      BY <1>1, <1>3, <1>4, <2>1, <2>6, <2>7, <2>8, <2>9, QuietCall
  <1> QED  BY <1>6, <1>7

(* Apple looks for the first authorization of the user: a request that is  *)
(* late finds it and skips the insert.                                     *)
LEMMA FindFirstStep ==
  ASSUME IInv, NEW p \in Procs, FindFirst(p)
  PROVE  IInv'
  <1>1. PICK r : r = req[p]
    OBVIOUS
  <1>2. PICK rest : rest = Past(r)
    OBVIOUS
  <1>3. PICK known \in BOOLEAN :
          known <=> \E x \in In({"first"}) : x.user = r.names.user
    OBVIOUS
  <1>4. PICK n : n = IF known THEN Past(rest) ELSE rest
    OBVIOUS
  <1>5. Calling(p, {"findFirst"}) /\ Goto(p, n)
        /\ UNCHANGED <<service, rows, users, stale, nextId, History>>
    BY <1>1, <1>2, <1>3, <1>4 DEF FindFirst
  <1>6. /\ r \in Requests /\ r.kind # "idle" /\ Meant(r) /\ rest \in Requests
        /\ Fewer(rest, r) /\ Sound(rest) /\ "findFirst" \in Left(r)
        /\ Left(rest) = Left(r) \ {"findFirst"}
        /\ \A w \in Left(r) : ~Before(w, "findFirst") /\ IsCall(w)
        /\ r.kind = "authorize"
    <2>1. NextCall(r) = "findFirst"
      BY <1>1, <1>2, <1>5, CallFacts
    <2>2. r.kind \in Kinds /\ "findFirst" \in WordsOf[r.kind]
      BY <1>1, <1>2, <1>5, <2>1, CallFacts
    <2>3. r.kind = "authorize"
      BY <2>2 DEF WordsOf, Kinds, Names, Looks, Expiry, Statuses
    <2> QED  BY <1>1, <1>2, <1>5, <2>1, <2>3, CallFacts
  <1>7. Left(r) \subseteq {"findFirst", "first"} /\ Left(rest) \subseteq {"first"}
    BY <1>6 DEF Before
  <1>8. n \in Requests /\ Fewer(n, rest) /\ Fewer(n, r)
        /\ (known => Left(n) = {})
    <2>1. CASE ~known
      BY <1>4, <1>6, <2>1 DEF Fewer, Alike
    <2>2. CASE known
      <3>1. n \in Requests /\ Fewer(n, rest)
        BY <1>4, <1>6, <2>2, PastFacts
      <3>2. DOMAIN rest.calls # {} => Left(n) = Left(rest) \ {NextCall(rest)}
                                      /\ NextCall(rest) \in Left(rest)
        BY <1>4, <1>6, <2>2, NextFacts DEF Sound
      <3>3. DOMAIN rest.calls = {} => Left(n) = {}
        BY <3>1 DEF Fewer, Left
      <3> QED  BY <1>6, <1>7, <3>1, <3>2, <3>3 DEF Fewer, Alike
    <2> QED  BY <2>1, <2>2
  <1>9. Left(n) \subseteq {"first"}
    BY <1>7, <1>8, FewerLeft
  <1>10. Meant(n)
    <2>1. Sound(n)
      BY <1>6, <1>8, SoundFewer DEF Meant
    <2>2. n.late => LateSound(n)
      <3>1. n.kind = "authorize" /\ n.late = r.late /\ n.first = r.first
            /\ n.names = r.names /\ n.kind \notin DOMAIN Doubtful
        BY <1>6, <1>8 DEF Fewer, Alike, Doubtful
      <3>2. r.late => FirstOf(r.names.user) # {} /\ ~r.first
        BY <1>6 DEF Meant, LateSound
      <3>3. r.late => known
        BY <1>3, <3>2 DEF FirstOf
      <3> QED  BY <1>8, <3>1, <3>2, <3>3 DEF LateSound
    <2>3. n.shut => ShutSound(n)
      <3>1. Keeps(n, r, Looks)
        BY <1>7 DEF Keeps, Looks
      <3> QED  BY <1>6, <1>8, <3>1, ShutFewer DEF Meant
    <2>4. DoneSound(n)
      BY <1>6, <1>8 DEF DoneSound, Fewer, Alike
    <2> QED  BY <2>1, <2>2, <2>3, <2>4 DEF Meant
  <1>11. \A f : Single(f, n)
    BY <1>9 DEF Single
  <1>12. Keeps(n, r, {"dropSessions"}) /\ Keeps(n, r, {"user"})
    BY <1>7 DEF Keeps
  <1>13. \E w \in Left(r) : w \notin {"access", "refresh"}
    BY <1>6
  <1> HIDE DEF History
  <1> QED
    BY <1>1, <1>5, <1>6, <1>8, <1>10, <1>11, <1>12, <1>13, QuietCall

(* Google gives no id token: nothing is found and nothing is left undone.  *)
LEMMA WithoutIdStep ==
  ASSUME IInv, NEW p \in Procs, WithoutId(p)
  PROVE  IInv'
  <1>1. PICK r : r = req[p]
    OBVIOUS
  <1>2. PICK n : n = Past(r)
    OBVIOUS
  <1>3. Calling(p, {"id"}) /\ Goto(p, n)
        /\ UNCHANGED <<service, rows, users, stale, nextId, History>>
    BY <1>1, <1>2 DEF WithoutId
  <1>4. /\ r \in Requests /\ r.kind # "idle" /\ Meant(r) /\ n \in Requests
        /\ Fewer(n, r) /\ Sound(n) /\ "id" \in Left(r)
        /\ Left(n) = Left(r) \ {"id"}
    BY <1>1, <1>2, <1>3, CallFacts
  <1>5. \A T : "id" \notin T => Keeps(n, r, T)
    BY <1>4 DEF Keeps
  <1>6. Keeps(n, r, Doubts) /\ Keeps(n, r, Deeds) /\ Keeps(n, r, Looks)
    BY <1>5 DEF Doubts, Deeds, DroppedTable, Looks, Expiry
  <1>7. Meant(n)
    <2>1. n.late => LateSound(n)
      BY <1>4, <1>6, LateFewer DEF Meant
    <2>2. n.shut => ShutSound(n)
      BY <1>4, <1>6, ShutFewer DEF Meant
    <2>3. ~n.refused => DoneSound(n)
      <3>1. Keeps(n, r, {"refresh"})
        BY <1>5
      <3> QED  BY <1>4, <1>6, <3>1, DoneFewer DEF Meant
    <2> QED  BY <1>4, <2>1, <2>2, <2>3 DEF Meant
  <1>8. ASSUME NEW f \in Nat \ (crossed \cup {0}), FamilySound(f),
               InFamily(f, r)
        PROVE  Single(f, n)
    <2>1. Single(f, r)
      BY <1>1, <1>8 DEF FamilySound
    <2>2. Keeps(n, r, {"findCode", "findRefresh", "dropRefresh"})
      BY <1>5
    <2> QED  BY <1>4, <2>1, <2>2, SingleFewer
  <1>9. Keeps(n, r, {"dropSessions"}) /\ Keeps(n, r, {"user"})
    BY <1>5
  <1>10. \E v \in Left(r) : v \notin {"access", "refresh"}
    BY <1>4
  <1> HIDE DEF History
  <1> QED
    BY <1>1, <1>3, <1>4, <1>7, <1>8, <1>9, <1>10, QuietCall

(* Okta chooses between deprovisioning and deleting a user.                *)
LEMMA DisposeStep ==
  ASSUME IInv, NEW p \in Procs, Dispose(p)
  PROVE  IInv'
  <1>1. PICK r : r = req[p]
    OBVIOUS
  <1>2. PICK status : status = users[r.names.user]
    OBVIOUS
  <1>3. PICK word \in {"dropUser", "DEPROVISIONED"} :
          word = IF status = "DEPROVISIONED" THEN "dropUser" ELSE "DEPROVISIONED"
    OBVIOUS
  <1>4. PICK n : n = [r EXCEPT !.calls = <<word>>]
    OBVIOUS
  <1>5. Calling(p, {"dispose"})
        /\ Goto(p, IF status = "gone" THEN Idle ELSE n)
        /\ UNCHANGED <<service, rows, users, stale, nextId, History>>
    <2>1. n = [r EXCEPT !.calls = IF status = "DEPROVISIONED" THEN <<"dropUser">>
                                  ELSE <<"DEPROVISIONED">>]
      BY <1>3, <1>4
    <2> QED  BY <1>1, <1>2, <2>1 DEF Dispose
  <1>6. PICK rest : rest = Past(r)
    OBVIOUS
  <1>7. /\ r \in Requests /\ r.kind = "delete" /\ Meant(r) /\ "dispose" \in Left(r)
        /\ service = "okta" /\ ~r.refused
    <2>1. NextCall(r) = "dispose"
      BY <1>1, <1>5, <1>6, CallFacts
    <2>2. r.kind \in Kinds /\ "dispose" \in WordsOf[r.kind]
          /\ Owned(service, "dispose") /\ (r.refused => "dispose" \notin Grave)
      BY <1>1, <1>5, <1>6, <2>1, CallFacts
    <2>3. r.kind = "delete" /\ service = "okta" /\ ~r.refused
      BY <2>2 DEF WordsOf, Kinds, Names, Looks, Expiry, Statuses, Owned, Grave
    <2> QED  BY <1>1, <1>5, <1>6, <2>1, <2>3, CallFacts
  <1>8. \A f : ~Rotating(r, f)
    BY <1>7 DEF Rotating
  <1>9. CASE status = "gone"
    <2>1. Goto(p, Idle)
      BY <1>5, <1>9
    <2> QED  BY <1>1, <1>5, <1>8, <2>1, GivingUp
  <1>10. CASE status # "gone"
    <2>1. Goto(p, n)
      BY <1>5, <1>10
    <2>2. <<word>> \in [{1} -> Calls] /\ {1} \in SUBSET (1..Longest)
          /\ DOMAIN <<word>> = {1} /\ <<word>>[1] = word
      BY DEF Calls, Longest, Statuses
    <2>3. n \in Requests /\ n.calls = <<word>> /\ Alike(n, r)
      BY <1>4, <1>7, <2>2, Recalled
    <2>4. Left(n) = {word} /\ Orderly(n.calls)
      <3>1. ~Before(word, word)
        BY DEF Before, Expiry, Looks, IsCall, Checks, Burns
      <3> QED  BY <2>2, <2>3, <3>1 DEF Left, Orderly
    <2>5. Sound(n)
      <3>1. word \in WordsOf["delete"] /\ Owned(service, word)
        BY <1>7 DEF WordsOf, Owned, Statuses
      <3> QED  BY <1>7, <2>3, <2>4, <3>1 DEF Meant, Sound, Alike
    <2>6. n.kind = "delete" /\ n.late = r.late /\ n.shut = r.shut
          /\ n.names = r.names /\ n.new = r.new
      BY <1>7, <2>3 DEF Alike
    <2>7. n.late => LateSound(n)
      BY <1>7, <2>6 DEF Meant, LateSound, Doubtful
    <2>8. n.shut => ShutSound(n)
      BY <1>7, <2>6 DEF Meant, ShutSound, Guarded
    <2>9. DoneSound(n)
      BY <2>6 DEF DoneSound
    <2>10. Meant(n)
      BY <2>5, <2>7, <2>8, <2>9 DEF Meant
    <2>11. \A f : Single(f, n)
      BY <2>4 DEF Single
    <2>12. SameNames(n, r) /\ service # "clerk"
      BY <1>7, <2>6 DEF SameNames
    <2> QED
      BY <1>1, <1>5, <1>8, <2>1, <2>3, <2>6, <2>10, <2>11, <2>12, QuietStep
  <1> QED  BY <1>9, <1>10

Finds == {"findCode", "findRefresh", "findAccess", "findToken", "findSession",
          "activeSession"}

(* A request that found its code expired has only the code to drop.        *)
LEMMA Refused ==
  ASSUME NEW r \in Requests, NEW n,
         n = [r EXCEPT !.calls = <<"dropCode">>, !.refused = TRUE]
  PROVE  /\ n \in Requests /\ n.calls = <<"dropCode">> /\ n.refused
         /\ n.kind = r.kind /\ n.names = r.names /\ n.new = r.new
         /\ n.late = r.late /\ n.shut = r.shut /\ n.first = r.first
         /\ Left(n) = {"dropCode"} /\ Orderly(n.calls)
  <1>1. PICK old \in SUBSET (1..Longest) : r \in Request(old)
    BY DEF Requests
  <1>2. <<"dropCode">> \in [{1} -> Calls] /\ {1} \in SUBSET (1..Longest)
        /\ DOMAIN <<"dropCode">> = {1} /\ <<"dropCode">>[1] = "dropCode"
    BY DEF Calls, Longest
  <1>3. /\ n \in Request({1}) /\ n.calls = <<"dropCode">> /\ n.refused
        /\ n.kind = r.kind /\ n.names = r.names /\ n.new = r.new
        /\ n.late = r.late /\ n.shut = r.shut /\ n.first = r.first
    BY <1>1, <1>2 DEF Request
  <1>4. ~Before("dropCode", "dropCode")
    BY DEF Before, Expiry, Looks, Grave, Statuses, IsCall, Burns
  <1> QED  BY <1>2, <1>3, <1>4 DEF Requests, Left, Orderly

(* A late request finds nothing, or finds the code expired.                *)
LEMMA LateCaught ==
  ASSUME IInv, NEW p \in Procs, Calling(p, Finds), NEW r, r = req[p],
         NEW rest, rest = Past(r), Seen(r), r.late, ~r.refused,
         r.kind \in DOMAIN Doubtful
  PROVE  Due(rest, Expiry) /\ r.names.id \in stale
  <1> DEFINE w == NextCall(r)
  <1>1. /\ r \in Requests /\ r.kind \in Kinds /\ r.kind # "idle" /\ Meant(r)
        /\ rest \in Requests /\ Sound(rest) /\ w \in Finds /\ w \in Left(r)
        /\ Left(rest) = Left(r) \ {w} /\ w \in WordsOf[r.kind]
        /\ \A v \in Left(r) : IsCall(v)
    BY CallFacts
  <1>2. LateSound(r) /\ Sound(r)
    BY <1>1 DEF Meant
  <1>3. r.kind # "authorize" /\ r.names.id \in dead
    BY <1>2 DEF LateSound, Doubtful
  <1>4. r.names \in rows /\ (w = "activeSession" => ~Ended(r.names))
    BY DEF Seen, Has
  <1>5. Spent(r.names)
    BY <1>3, <1>4 DEF IInv, DeadSound
  <1>6. r.names.table \in Names[r.kind]
    BY <1>1, <1>2 DEF Sound, Names, Doubtful
  <1>7. r.kind = "token" /\ w = "findCode"
    <2>1. r.kind \in {"token", "sessionToken"}
      BY <1>5, <1>6 DEF Spent, Names, Doubtful, Class
    <2>2. r.kind = "sessionToken" => w = "activeSession"
      BY <1>1 DEF WordsOf, Finds, Looks
    <2>3. r.kind = "sessionToken" => r.names.table = "session"
      BY <1>6 DEF Names
    <2>4. r.kind = "token" => w = "findCode"
      BY <1>1 DEF WordsOf, Finds, Looks, Expiry
    <2> QED  BY <1>4, <1>5, <2>1, <2>2, <2>3, <2>4 DEF Spent, Class
  <1>8. r.names.id \in stale
    BY <1>5, <1>6, <1>7 DEF Spent, Names, Class
  <1>9. PICK v \in Left(rest) : v \in Expiry
    BY <1>1, <1>2, <1>7 DEF LateSound, Expiry
  <1>10. DOMAIN rest.calls # {}
    BY <1>9 DEF Left
  <1>11. NextCall(rest) \in Left(rest) /\ ~Before(v, NextCall(rest))
    <2> PICK past : past = Past(rest)
      OBVIOUS
    <2> QED  BY <1>1, <1>9, <1>10, NextFacts DEF Sound
  <1>12. NextCall(rest) \in Expiry
    BY <1>1, <1>7, <1>9, <1>11 DEF Before
  <1> QED  BY <1>8, <1>10, <1>12 DEF Due

(* What a request learns of a family from the row it finds.                *)
LEMMA FoundAlone ==
  ASSUME TypeOK, Identified, NEW f \in Nat \ {0}, FamilySound(f), NEW p \in Procs,
         NEW r, r = req[p], r \in Requests, Sound(r), InFamily(f, r),
         r.names \in rows, Single(f, r), NEW n, Fewer(n, r),
         Keeps(n, r, {"dropRefresh"})
  PROVE  Single(f, n)
  <1>1. n.kind = r.kind /\ n.names = r.names /\ Left(n) \subseteq Left(r)
    BY FewerLeft DEF Fewer, Alike
  <1>2. r.kind = "token" => RefreshTokens(f) = {}
    <2>1. SUFFICES ASSUME r.kind = "token", NEW x \in RefreshTokens(f)
                   PROVE  FALSE
      OBVIOUS
    <2>2. r.names \in In({"code"}) /\ r.names.family = f
      BY <2>1 DEF Sound, Names, In, InFamily
    <2>3. x \in Known /\ x.table = "refresh" /\ x.family = f
      BY DEF RefreshTokens, In, Known
    <2> QED  BY <2>2, <2>3 DEF FamilySound
  <1>3. r.kind = "refresh" => RefreshTokens(f) \subseteq {r.names}
    <2>1. SUFFICES ASSUME r.kind = "refresh", NEW x \in RefreshTokens(f)
                   PROVE  x = r.names
      OBVIOUS
    <2>2. r.names \in RefreshTokens(f)
      BY <2>1 DEF Sound, Names, RefreshTokens, In, InFamily
    <2> QED  BY <2>2 DEF FamilySound
  <1> QED  BY <1>1, <1>2, <1>3 DEF Single, Keeps

(* The row the request names is looked up.                                 *)
LEMMA FindStep ==
  ASSUME IInv, NEW p \in Procs, Find(p)
  PROVE  IInv'
  <1>1. PICK r : r = req[p]
    OBVIOUS
  <1>2. PICK rest : rest = Past(r)
    OBVIOUS
  <1>3. PICK w : w = NextCall(r)
    OBVIOUS
  <1>4. Calling(p, Finds) /\ Goto(p, AfterFind(r))
        /\ UNCHANGED <<service, rows, users, stale, nextId, History>>
    BY <1>1 DEF Find, Finds
  <1>5. /\ r \in Requests /\ r.kind # "idle" /\ r.kind \in Kinds /\ Meant(r)
        /\ rest \in Requests /\ Fewer(rest, r) /\ Sound(rest) /\ w \in Finds
        /\ w \in Left(r) /\ Left(rest) = Left(r) \ {w} /\ w \in WordsOf[r.kind]
        /\ \A v \in Left(r) : v \in WordsOf[r.kind]
    BY <1>1, <1>2, <1>3, <1>4, CallFacts
  <1>6. /\ \A f : ~Rotating(r, f)
        /\ \E v \in Left(r) : v \notin {"access", "refresh"}
    BY <1>5 DEF Rotating, Finds
  <1>7. r.kind # "authorize"
    BY <1>5 DEF WordsOf, Finds, Looks
  <1>8. CASE Goto(p, Idle)
    BY <1>1, <1>4, <1>6, <1>8, GivingUp
  <1>9. ASSUME NEW n, n = [r EXCEPT !.calls = <<"dropCode">>, !.refused = TRUE],
               Goto(p, n), Due(rest, Expiry)
        PROVE  IInv'
    <2>1. /\ n \in Requests /\ n.refused /\ n.kind = r.kind /\ n.names = r.names
          /\ n.new = r.new /\ n.late = r.late /\ n.shut = r.shut /\ n.first = r.first
          /\ Left(n) = {"dropCode"} /\ Orderly(n.calls)
      BY <1>5, <1>9, Refused
    <2>2. r.kind = "token"
      <3>1. NextCall(rest) \in Left(rest) /\ NextCall(rest) \in Expiry
        <4> PICK past : past = Past(rest)
          OBVIOUS
        <4> QED  BY <1>5, <1>9, NextFacts DEF Due, Sound
      <3> QED  BY <1>5, <3>1 DEF WordsOf, Expiry, Looks, Kinds, Names, Statuses
    <2>3. Sound(n)
      <3>1. "dropCode" \in WordsOf["token"] /\ Owned(service, "dropCode")
            /\ "dropCode" \notin Grave
        BY DEF WordsOf, Owned, Statuses, Grave
      <3> QED  BY <1>5, <2>1, <2>2, <3>1 DEF Meant, Sound
    <2>4. n.late => LateSound(n)
      BY <1>5, <2>1, <2>2 DEF Meant, LateSound
    <2>5. n.shut => ShutSound(n)
      BY <1>5, <2>1 DEF Meant, ShutSound
    <2>6. Meant(n)
      BY <2>1, <2>3, <2>4, <2>5 DEF Meant
    <2>7. \A f : Single(f, n)
      BY <2>1 DEF Single
    <2>8. \A u : Watched(u, n)
      BY <2>1 DEF Watched
    <2> QED
      BY <1>1, <1>4, <1>6, <1>9, <2>1, <2>6, <2>7, <2>8, QuietStep DEF SameNames
  <1>10. ASSUME NEW n \in Requests, Goto(p, n), Fewer(n, r), Seen(r),
                \A v \in Left(r) \ Left(n) : v = w \/ v \in Expiry,
                ~(Due(rest, Expiry) /\ r.names.id \in stale)
         PROVE  IInv'
    <2>1. n.kind = r.kind /\ n.names = r.names /\ n.refused = r.refused
          /\ n.late = r.late /\ n.shut = r.shut /\ n.first = r.first
      BY <1>10 DEF Fewer, Alike
    <2>2. Sound(n)
      BY <1>5, <1>10, SoundFewer DEF Meant
    <2>3. n.late => LateSound(n)
      <3>1. SUFFICES ASSUME r.late  PROVE  LateSound(n)
        BY <2>1
      <3>2. r.kind \in DOMAIN Doubtful => r.refused
        BY <1>1, <1>2, <1>4, <1>10, <3>1, LateCaught
      <3>3. r.names.id \in dead
        BY <1>5, <1>7, <3>1 DEF Meant, LateSound
      <3>4. "token" \in DOMAIN Doubtful
        BY DEF Doubtful
      <3> QED  BY <1>7, <2>1, <3>2, <3>3, <3>4 DEF LateSound
    <2>4. Keeps(n, r, Looks) /\ Keeps(n, r, Deeds) /\ Keeps(n, r, {"refresh"})
          /\ Keeps(n, r, {"dropSessions"}) /\ Keeps(n, r, {"dropRefresh"})
          /\ Keeps(n, r, {"user"})
      BY <1>5, <1>10
      DEF Keeps, Finds, Expiry, Looks, Deeds, DroppedTable
    <2>5. n.shut => ShutSound(n)
      BY <1>5, <1>10, <2>4, ShutFewer DEF Meant
    <2>6. ~n.refused => DoneSound(n)
      BY <1>5, <1>10, <2>4, DoneFewer DEF Meant
    <2>7. Meant(n)
      BY <2>2, <2>3, <2>5, <2>6 DEF Meant
    <2>8. ASSUME NEW f \in Nat \ (crossed \cup {0}), FamilySound(f),
                 InFamily(f, r)
          PROVE  Single(f, n)
      <3>1. Single(f, r)
        BY <1>1, <2>8 DEF FamilySound
      <3>2. r.names \in rows /\ Sound(r)
        BY <1>5, <1>10 DEF Seen, Has, Meant
      <3>3. TypeOK /\ Identified
        BY DEF IInv
      <3> QED  BY <1>1, <1>5, <1>10, <2>4, <2>8, <3>1, <3>2, <3>3, FoundAlone
    <2> QED  BY <1>1, <1>4, <1>5, <1>6, <1>10, <2>4, <2>7, <2>8, QuietCall
  <1> DEFINE expired == Due(rest, Expiry) /\ r.names.id \in stale
  <1>11. CASE ~Seen(r) \/ (expired /\ Due(rest, {"unexpiredKeep"}))
    BY <1>2, <1>4, <1>8, <1>11 DEF AfterFind
  <1>12. CASE Seen(r) /\ expired /\ ~Due(rest, {"unexpiredKeep"})
    <2>1. AfterFind(r) = [r EXCEPT !.calls = <<"dropCode">>, !.refused = TRUE]
      BY <1>2, <1>12 DEF AfterFind
    <2> QED  BY <1>4, <1>9, <1>12, <2>1
  <1>13. CASE Seen(r) /\ ~expired /\ Due(rest, Expiry)
    <2>1. PICK n : n = Past(rest)
      OBVIOUS
    <2>2. Goto(p, n)
      BY <1>2, <1>4, <1>13, <2>1 DEF AfterFind
    <2>3. n \in Requests /\ Fewer(n, rest)
      BY <1>5, <2>1, PastFacts
    <2>4. Left(n) = Left(rest) \ {NextCall(rest)} /\ NextCall(rest) \in Expiry
      BY <1>5, <1>13, <2>1, NextFacts DEF Sound, Due
    <2>5. \A v \in Left(r) \ Left(n) : v = w \/ v \in Expiry
      BY <1>5, <2>4
    <2>6. Fewer(n, r)
      BY <1>5, <2>3 DEF Fewer, Alike
    <2> QED  BY <1>10, <1>13, <2>2, <2>3, <2>5, <2>6
  <1>14. CASE Seen(r) /\ ~expired /\ ~Due(rest, Expiry)
    <2>1. Goto(p, rest)
      BY <1>2, <1>4, <1>14 DEF AfterFind
    <2>2. \A v \in Left(r) \ Left(rest) : v = w \/ v \in Expiry
      BY <1>5
    <2> QED  BY <1>5, <1>10, <1>14, <2>1, <2>2
  <1> QED  BY <1>11, <1>12, <1>13, <1>14

-----------------------------------------------------------------------------
(* The calls that write rows.                                              *)

(* What is true of every call that writes rows.                            *)
LEMMA WriteFacts ==
  ASSUME IInv, NEW p \in Procs, NEW n \in Requests, Goto(p, n),
         UNCHANGED <<service, users, stale, History>>, rows' \subseteq Row,
         nextId' \in {nextId, nextId + 1}
  PROVE  /\ TypeOK /\ TypeOK' /\ Identified /\ DeadSound /\ UsersSound
         /\ RequestsSound /\ KeptSound /\ FamiliesSound /\ OrphansSound
         /\ req'[p] = n /\ \A q \in Procs \ {p} : req'[q] = req[q]
         /\ Aside(p) /\ Grow /\ users' = users /\ stale' = stale
         /\ dead' = dead /\ issued' = issued /\ crossed' = crossed
         /\ asked' = asked /\ service' = service
  <1>1. /\ TypeOK /\ Identified /\ DeadSound /\ UsersSound /\ RequestsSound
        /\ KeptSound /\ FamiliesSound /\ OrphansSound
    BY DEF IInv
  <1>2. /\ service' = service /\ users' = users /\ stale' = stale
        /\ issued' = issued /\ dead' = dead /\ crossed' = crossed
        /\ asked' = asked
    BY DEF History
  <1>3. /\ req' \in [Procs -> Requests] /\ req'[p] = n
        /\ \A q \in Procs \ {p} : req'[q] = req[q]
    BY <1>1, GotoFacts
  <1>4. nextId' \in Nat
    BY <1>1, Types
  <1>5. TypeOK'
    BY <1>1, <1>2, <1>3, <1>4 DEF TypeOK, Requests
  <1>6. Aside(p) /\ Grow
    BY <1>2, <1>3 DEF Aside, Grow
  <1> QED  BY <1>1, <1>2, <1>3, <1>5, <1>6

(* A call that writes rows keeps IInv when it keeps the parts about rows.  *)
LEMMA WriteStep ==
  ASSUME IInv, NEW p \in Procs, NEW n \in Requests, Goto(p, n),
         UNCHANGED <<service, users, stale, History>>, rows' \subseteq Row,
         nextId' \in {nextId, nextId + 1}, RowStep, Meant(n)',
         Identified', KeptSound', FamiliesSound', OrphansSound'
  PROVE  IInv'
  <1>1. /\ TypeOK /\ TypeOK' /\ Identified /\ DeadSound /\ UsersSound
        /\ RequestsSound /\ Grow /\ users' = users /\ service' = service
        /\ stale' = stale /\ dead' = dead /\ req'[p] = n
        /\ \A q \in Procs \ {p} : req'[q] = req[q]
    BY WriteFacts
  <1>2. DeadSound'
    BY <1>1, DeadKept
  <1>3. UsersSound'
    BY <1>1 DEF UsersSound
  <1>4. RequestsSound'
    BY <1>1, RequestsKept
  <1> QED  BY <1>1, <1>2, <1>3, <1>4 DEF IInv

(* What a request means after a call that was not a lookup.                *)
LEMMA MeantAfter ==
  ASSUME NEW r \in Requests, Meant(r), r.kind # "idle", NEW n, Fewer(n, r),
         Keeps(n, r, Doubts), Keeps(n, r, Looks), RowStep, Grow,
         users' = users, ~n.refused => DoneSound(n)'
  PROVE  Meant(n)'
  <1>1. Sound(n)'
    BY SoundFewer, SoundKept DEF Meant
  <1>2. n.late => LateSound(n)'
    BY LateFewer, LateKept DEF Meant
  <1>3. n.shut => ShutSound(n)'
    BY ShutFewer, ShutKept DEF Meant
  <1> QED  BY <1>1, <1>2, <1>3 DEF Meant

(* The row the request names is deleted.                                   *)
LEMMA DropStep ==
  ASSUME IInv, NEW p \in Procs, Drop(p)
  PROVE  IInv'
  <1>1. PICK r : r = req[p]
    OBVIOUS
  <1>2. PICK n : n = Past(r)
    OBVIOUS
  <1>3. PICK w : w = NextCall(r)
    OBVIOUS
  <1>4. Calling(p, DOMAIN DroppedTable) /\ Goto(p, n) /\ nextId' = nextId
        /\ UNCHANGED <<service, users, stale, History>>
        /\ rows' = rows \ {x \in {r.names} : x.table = DroppedTable[w]}
    BY <1>1, <1>2, <1>3 DEF Drop
  <1>5. /\ r \in Requests /\ r.kind # "idle" /\ r.kind \in Kinds /\ Meant(r)
        /\ n \in Requests /\ Fewer(n, r) /\ Sound(n)
        /\ w \in DOMAIN DroppedTable /\ w \in Left(r) /\ Left(n) = Left(r) \ {w}
        /\ w \in WordsOf[r.kind] /\ (r.refused => w \notin Grave)
        /\ \A v \in Left(r) : ~Before(v, w) /\ v \in WordsOf[r.kind]
    BY <1>1, <1>2, <1>3, <1>4, CallFacts
  <1>6. /\ DOMAIN DroppedTable = {"dropCode", "dropRefresh", "dropAccess", "dropId"}
        /\ DroppedTable["dropCode"] = "code"
        /\ DroppedTable["dropRefresh"] = "refresh"
        /\ DroppedTable["dropAccess"] = "access"
        /\ DroppedTable["dropId"] = "id"
    BY DEF DroppedTable
  <1>7. /\ rows' \subseteq rows
        /\ \A x \in rows \ rows' : x = r.names /\ x.table = DroppedTable[w]
        /\ r.names.table = DroppedTable[w] => r.names \notin rows'
    BY <1>4
  <1>8. \A x \in rows \ rows' : x.table # "first" /\ x.table # "ended"
    BY <1>5, <1>6, <1>7
  <1>9. RowStep
    BY <1>7, <1>8 DEF RowStep
  <1>10. /\ TypeOK /\ TypeOK' /\ Identified /\ DeadSound /\ UsersSound
         /\ RequestsSound /\ KeptSound /\ FamiliesSound /\ OrphansSound
         /\ req'[p] = n /\ \A q \in Procs \ {p} : req'[q] = req[q]
         /\ Aside(p) /\ Grow /\ users' = users /\ stale' = stale
         /\ dead' = dead /\ issued' = issued /\ crossed' = crossed
         /\ asked' = asked /\ service' = service /\ rows' \subseteq Row
    <2>1. rows' \subseteq Row /\ nextId' \in {nextId, nextId + 1}
      BY <1>4, <1>7, Types DEF IInv
    <2> QED  BY <1>4, <1>5, <2>1, WriteFacts
  <1>11. n.kind = r.kind /\ n.names = r.names /\ n.new = r.new
         /\ n.refused = r.refused
    BY <1>5 DEF Fewer, Alike
  <1>12. Sound(r) /\ (~r.refused => DoneSound(r))
    BY <1>5 DEF Meant
  <1>13. Identified'
    <2>1. \A x \in rows \ rows' : \A q \in Procs : x \notin req[q].new
      <3>1. r.names \in rows => r.names \in issued
        BY <1>5, <1>10, <1>12, NamesFacts
      <3> QED  BY <1>7, <3>1, <1>10 DEF Identified
    <2>2. \A q \in Procs : req'[q].new \subseteq req[q].new
      BY <1>1, <1>10, <1>11
    <2> QED  BY <1>4, <1>7, <1>8, <1>10, <2>1, <2>2, IdentifiedKept
  <1>14. Meant(n)'
    <2>1. \A v : Gone(r, v) /\ v # w => Gone(n, v)'
      BY <1>5, <1>7, <1>11 DEF Gone
    <2>2. r.names.table = DroppedTable[w] => \A v : Gone(n, v)'
      BY <1>7, <1>11 DEF Gone
    <2>3. ASSUME ~r.refused  PROVE  DoneSound(n)'
      <3>1. DoneSound(r)
        BY <1>12, <2>3
      <3>2. n.kind = "token" => Gone(n, "dropCode")'
        <4>1. r.kind = "token" => r.names.table = "code"
          BY <1>12 DEF Sound, Names
        <4> QED  BY <1>6, <1>11, <2>1, <2>2, <3>1, <4>1 DEF DoneSound
      <3>3. n.kind = "revoke" => Gone(n, DropOf(n.names.table))'
        <4>1. r.kind = "revoke" => r.names.table \in {"access", "refresh", "id"}
          BY <1>12 DEF Sound, Names
        <4>2. r.kind = "revoke" /\ w = DropOf(r.names.table)
                => r.names.table = DroppedTable[w]
          BY <1>6, <4>1, DropOfFacts
        <4> QED  BY <1>11, <2>1, <2>2, <3>1, <4>2 DEF DoneSound
      <3>4. n.kind = "refresh" /\ Rotates(n) => Gone(n, "dropRefresh")'
        <4>1. r.kind = "refresh" => r.names.table = "refresh"
          BY <1>12 DEF Sound, Names
        <4>2. Rotates(n) => Rotates(r)
          BY <1>5, <1>11 DEF Rotates
        <4> QED  BY <1>6, <1>11, <2>1, <2>2, <3>1, <4>1, <4>2 DEF DoneSound
      <3>5. n.kind = "refresh" /\ "dropRefresh" \in Left(n) => "refresh" \in Left(n)
        BY <1>5, <1>6, <1>11, <3>1 DEF DoneSound
      <3>6. n.kind = "revokeSession" => (Gone(n, "endSession") \/ Ended(n.names))'
        <4>1. r.kind # "revokeSession"
          BY <1>5, <1>6 DEF WordsOf
        <4> QED  BY <1>11, <4>1
      <3>7. n.kind = "revoke" /\ n.names.table = "refresh"
              => n.names.family \in asked'
        BY <1>10, <1>11, <3>1 DEF DoneSound
      <3> QED  BY <3>2, <3>3, <3>4, <3>5, <3>6, <3>7, <1>10 DEF DoneSound
    <2>4. Keeps(n, r, Doubts) /\ Keeps(n, r, Looks)
      BY <1>5, <1>6 DEF Keeps, Doubts, Looks, Expiry
    <2> QED  BY <1>5, <1>9, <1>10, <1>11, <2>3, <2>4, MeantAfter
  <1>15. KeptSound'
    <2>1. ASSUME NEW x \in issued', x.table = "refresh", x.family \notin asked'
          PROVE  (RefreshTokens(x.family) # {})'
                 \/ \E q \in Procs : Rotating(req[q], x.family)'
      <3>1. CASE \E q \in Procs : Rotating(req[q], x.family)
        <4>1. PICK q \in Procs : Rotating(req[q], x.family)
          BY <3>1
        <4>2. q # p
          BY <1>1, <1>5, <1>6, <4>1 DEF Rotating
        <4> QED  BY <1>10, <4>1, <4>2 DEF Rotating, Left
      <3>2. CASE RefreshTokens(x.family) \subseteq rows' /\ RefreshTokens(x.family) # {}
        BY <3>2 DEF RefreshTokens, In
      <3>3. CASE \E y \in RefreshTokens(x.family) : y \notin rows'
        <4>1. r.names.table = "refresh" /\ r.names.family = x.family
              /\ w = "dropRefresh"
          BY <1>5, <1>6, <1>7, <3>3 DEF RefreshTokens, In
        <4>2. r.kind \in {"refresh", "revoke"}
          BY <1>5, <4>1 DEF WordsOf, Kinds, Names, Looks, Expiry, Statuses
        <4>3. ~r.refused
          BY <1>5, <4>1 DEF Grave
        <4>4. r.kind = "refresh"
          BY <1>10, <1>12, <2>1, <4>1, <4>2, <4>3 DEF DoneSound
        <4>5. "refresh" \in Left(n)
          BY <1>5, <1>12, <4>1, <4>3, <4>4 DEF DoneSound
        <4>6. Left(n) \subseteq {"access", "refresh"}
          BY <1>5, <4>1, <4>4 DEF WordsOf, Before
        <4>7. Rotating(n, x.family)
          BY <1>11, <4>1, <4>4, <4>5, <4>6 DEF Rotating
        <4>8. Rotating(req[p], x.family)'
          BY <1>10, <4>7 DEF Rotating, Left
        <4> QED  BY <4>8
      <3> QED  BY <1>10, <2>1, <3>1, <3>2, <3>3 DEF KeptSound, RefreshTokens, In
    <2> QED  BY <2>1 DEF KeptSound
  <1>16. FamiliesSound'
    <2>1. ASSUME NEW f \in Nat \ (crossed \cup {0}), FamilySound(f),
                 InFamily(f, req'[p])
          PROVE  Single(f, req[p])'
      <3>1. Single(f, r)
        BY <1>1, <1>10, <1>11, <2>1 DEF FamilySound, InFamily
      <3>2. RefreshTokens(f)' \subseteq RefreshTokens(f)
        BY <1>7 DEF RefreshTokens, In
      <3>3. n.kind = "refresh" /\ "refresh" \in Left(n) /\ w = "dropRefresh"
              => RefreshTokens(f)' = {}
        <4>1. SUFFICES ASSUME n.kind = "refresh", "refresh" \in Left(n),
                              w = "dropRefresh", NEW x \in RefreshTokens(f)'
                       PROVE  FALSE
          OBVIOUS
        <4>2. "findRefresh" \notin Left(r)
          BY <1>5, <4>1 DEF Before
        <4>3. x = r.names
          BY <1>5, <1>11, <3>1, <3>2, <4>1, <4>2 DEF Single
        <4>4. r.names.table = "refresh" /\ x \in rows'
          BY <4>1, <4>3 DEF RefreshTokens, In
        <4> QED  BY <1>6, <1>7, <4>1, <4>3, <4>4
      <3>4. Single(f, n)'
        BY <1>5, <1>6, <1>11, <3>1, <3>2, <3>3 DEF Single
      <3> QED  BY <1>10, <3>4
    <2>2. \A x \in Known' : x.table = "refresh" => x \in Known
      BY <1>1, <1>7, <1>10, <1>11 DEF Known
    <2>3. SameNames(req'[p], req[p])
      BY <1>1, <1>10, <1>11 DEF SameNames
    <2> QED  BY <1>7, <1>10, <2>1, <2>2, <2>3, FamiliesKept
  <1>17. OrphansSound'
    <2>1. ASSUME NEW u \in Users \ crossed, UserSound(u), OfUser(u, req'[p])
          PROVE  Watched(u, req[p])'
      <3>1. Watched(u, r)
        BY <1>1, <1>10, <1>11, <2>1 DEF UserSound, OfUser
      <3>2. SessionsOf(u)' \subseteq SessionsOf(u)
        BY <1>7 DEF SessionsOf, In
      <3>3. Watched(u, n)'
        BY <1>5, <1>6, <1>10, <3>1, <3>2 DEF Watched
      <3> QED  BY <1>10, <3>3
    <2>2. SameNames(req'[p], req[p])
      BY <1>1, <1>10, <1>11 DEF SameNames
    <2> QED  BY <1>7, <1>10, <2>1, <2>2, OrphansKept
  <1> HIDE DEF History
  <1> QED
    BY <1>4, <1>5, <1>9, <1>10, <1>13, <1>14, <1>15, <1>16, <1>17, WriteStep

(* A session of Clerk is marked as ended.                                  *)
LEMMA EndSessionStep ==
  ASSUME IInv, NEW p \in Procs, EndSession(p)
  PROVE  IInv'
  <1>1. PICK r : r = req[p]
    OBVIOUS
  <1>2. PICK n : n = Past(r)
    OBVIOUS
  <1>3. PICK mark : mark = EndedRow(r.names)
    OBVIOUS
  <1>4. Calling(p, {"endSession"}) /\ Goto(p, n) /\ nextId' = nextId
        /\ UNCHANGED <<service, users, stale, History>>
        /\ rows' = IF r.names \in rows THEN rows \cup {mark} ELSE rows
    BY <1>1, <1>2, <1>3 DEF EndSession, Has
  <1>5. /\ r \in Requests /\ r.kind = "revokeSession" /\ Meant(r) /\ Sound(r)
        /\ n \in Requests /\ Fewer(n, r) /\ Sound(n)
        /\ Left(n) = Left(r) \ {"endSession"} /\ "endSession" \in Left(r)
        /\ Left(r) \subseteq {"findSession", "endSession"}
    <2>1. NextCall(r) = "endSession"
      BY <1>1, <1>2, <1>4, CallFacts
    <2>2. r.kind \in Kinds /\ "endSession" \in WordsOf[r.kind]
          /\ \A v \in Left(r) : v \in WordsOf[r.kind]
      BY <1>1, <1>2, <1>4, <2>1, CallFacts
    <2>3. r.kind = "revokeSession"
      BY <2>2 DEF WordsOf, Kinds, Names, Looks, Expiry, Statuses
    <2>4. WordsOf["revokeSession"] = {"findSession", "endSession"}
      BY DEF WordsOf
    <2> QED  BY <1>1, <1>2, <1>4, <2>1, <2>2, <2>3, <2>4, CallFacts DEF Meant
  <1>6. /\ r.names \in issued /\ r.names \in Row /\ r.names.table = "session"
        /\ mark \in Row /\ mark.table = "ended" /\ mark.id = r.names.id
        /\ mark.user = r.names.user /\ mark.family = r.names.family
        /\ EndedRow(mark) = mark
    <2>1. TypeOK /\ Identified /\ Names[r.kind] = {"session"}
      BY <1>5 DEF IInv, Names
    <2>2. r.names \in issued /\ r.names \in Row /\ r.names.table = "session"
      BY <1>5, <2>1, NamesFacts
    <2> QED  BY <1>3, <2>2, RowFacts
  <1>7. rows \subseteq rows' /\ rows' \subseteq rows \cup {mark}
        /\ (r.names \in rows => mark \in rows')
    BY <1>4
  <1>8. RowStep
    BY <1>6, <1>7 DEF RowStep
  <1>9. /\ TypeOK /\ TypeOK' /\ Identified /\ DeadSound /\ UsersSound
        /\ RequestsSound /\ KeptSound /\ FamiliesSound /\ OrphansSound
        /\ req'[p] = n /\ \A q \in Procs \ {p} : req'[q] = req[q]
        /\ Aside(p) /\ Grow /\ users' = users /\ stale' = stale
        /\ dead' = dead /\ issued' = issued /\ crossed' = crossed
        /\ asked' = asked /\ service' = service /\ rows' \subseteq Row
    <2>1. rows' \subseteq Row /\ nextId' \in {nextId, nextId + 1}
      BY <1>4, <1>6, <1>7, Types DEF IInv
    <2> QED  BY <1>4, <1>5, <2>1, WriteFacts
  <1>10. n.kind = r.kind /\ n.names = r.names /\ n.new = r.new
         /\ n.refused = r.refused
    BY <1>5 DEF Fewer, Alike
  <1>11. Identified'
    <2>1. Known' \subseteq Known \cup {mark} /\ r.names \in Known
      BY <1>1, <1>6, <1>7, <1>9, <1>10 DEF Known
    <2>2. \A x \in Known : RowSound(x)'
      BY <1>4, <1>9 DEF Identified, RowSound
    <2>3. RowSound(mark)'
      <3>1. RowSound(r.names)
        BY <1>9, <2>1 DEF Identified
      <3> QED  BY <1>4, <1>6, <1>9, <3>1 DEF RowSound, Class
    <2>4. \A y \in Known : Same(mark, y) /\ Same(y, mark)
      <3>1. \A y \in Known : Same(r.names, y)
        BY <1>9, <2>1 DEF Identified
      <3> QED  BY <1>3, <1>6, <3>1 DEF Same, Class
    <2>5. \A x, y \in Known' : Same(x, y)
      <3>1. Same(mark, mark)
        BY DEF Same
      <3> QED  BY <1>9, <2>1, <2>4, <3>1 DEF Identified
    <2>6. \A q \in Procs : req'[q].new = req[q].new
      BY <1>1, <1>9, <1>10
    <2> QED  BY <1>4, <1>7, <1>9, <2>1, <2>2, <2>3, <2>5, <2>6 DEF Identified
  <1>12. Meant(n)'
    <2>1. r.names \notin rows => r.names \notin rows'
      BY <1>6, <1>7
    <2>2. r.names \in rows => Ended(n.names)'
      BY <1>3, <1>7, <1>10 DEF Ended
    <2>3. DoneSound(n)'
      BY <1>5, <1>10, <2>1, <2>2 DEF DoneSound, Gone
    <2>4. Keeps(n, r, Doubts) /\ Keeps(n, r, Looks)
      BY <1>5 DEF Keeps, Doubts, Looks, Expiry
    <2> QED  BY <1>5, <1>8, <1>9, <2>3, <2>4, MeantAfter
  <1>13. KeptSound'
    <2>1. \A f : ~Rotating(req[p], f)
      BY <1>1, <1>5 DEF Rotating
    <2> QED  BY <1>7, <1>9, <2>1, RotationKept
  <1>14. SameNames(req'[p], req[p])
    BY <1>1, <1>9, <1>10 DEF SameNames
  <1>15. FamiliesSound'
    <2>1. \A f : Single(f, n)'
      BY <1>5 DEF Single
    <2>2. \A x \in Known' : x.table = "refresh" => x \in Known
      BY <1>1, <1>6, <1>7, <1>9, <1>10 DEF Known
    <2>3. \A x \in rows' : x.table \in {"refresh", "code"} => x \in rows
      BY <1>6, <1>7
    <2>4. \A f : Single(f, req[p])'
      BY <1>9, <2>1
    <2> QED  BY <1>9, <1>14, <2>2, <2>3, <2>4, FamiliesKept
  <1>16. OrphansSound'
    <2>1. \A u : Watched(u, n)'
      BY <1>5 DEF Watched
    <2>2. \A x \in rows' : x.table = "session" => x \in rows
      BY <1>6, <1>7
    <2>3. \A u : Watched(u, req[p])'
      BY <1>9, <2>1
    <2> QED  BY <1>9, <1>14, <2>2, <2>3, OrphansKept
  <1> HIDE DEF History
  <1> QED
    BY <1>4, <1>5, <1>8, <1>9, <1>11, <1>12, <1>13, <1>15, <1>16, WriteStep

(* A user's sessions are deleted.                                          *)
LEMMA DropSessionsStep ==
  ASSUME IInv, NEW p \in Procs, DropSessions(p)
  PROVE  IInv'
  <1>1. PICK r : r = req[p]
    OBVIOUS
  <1>2. PICK n : n = Past(r)
    OBVIOUS
  <1>3. Calling(p, {"dropSessions"}) /\ Goto(p, n) /\ nextId' = nextId
        /\ UNCHANGED <<service, users, stale, History>>
        /\ rows' = {x \in rows : \/ x.user # r.names.user
                                 \/ x.table \notin {"session", "ended"}}
    BY <1>1, <1>2 DEF DropSessions
  <1>4. /\ r \in Requests /\ r.kind = "delete" /\ Meant(r) /\ Sound(r)
        /\ n \in Requests /\ Fewer(n, r) /\ Sound(n)
        /\ Left(n) = Left(r) \ {"dropSessions"} /\ "dropSessions" \in Left(r)
        /\ "session" \notin Left(r) /\ "refresh" \notin Left(r)
    <2>1. NextCall(r) = "dropSessions"
      BY <1>1, <1>2, <1>3, CallFacts
    <2>2. r.kind \in Kinds /\ "dropSessions" \in WordsOf[r.kind]
          /\ \A v \in Left(r) : v \in WordsOf[r.kind]
      BY <1>1, <1>2, <1>3, <2>1, CallFacts
    <2>3. r.kind = "delete"
      BY <2>2 DEF WordsOf, Kinds, Names, Looks, Expiry, Statuses
    <2>4. "session" \notin WordsOf["delete"] /\ "refresh" \notin WordsOf["delete"]
      BY DEF WordsOf, Looks
    <2> QED  BY <1>1, <1>2, <1>3, <2>1, <2>2, <2>3, <2>4, CallFacts DEF Meant
  <1>5. /\ rows' \subseteq rows
        /\ \A x \in rows \ rows' : Class(x.table) = "session"
                                   /\ x.user = r.names.user /\ x.table # "first"
                                   /\ x.table # "refresh"
        /\ \A x \in rows' : x.user = r.names.user => Class(x.table) # "session"
    BY <1>3 DEF Class
  <1>6. /\ TypeOK /\ TypeOK' /\ Identified /\ DeadSound /\ UsersSound
        /\ RequestsSound /\ KeptSound /\ FamiliesSound /\ OrphansSound
        /\ req'[p] = n /\ \A q \in Procs \ {p} : req'[q] = req[q]
        /\ Aside(p) /\ Grow /\ users' = users /\ stale' = stale
        /\ dead' = dead /\ issued' = issued /\ crossed' = crossed
        /\ asked' = asked /\ service' = service /\ rows' \subseteq Row
        /\ rows \subseteq Row
    <2>1. rows \subseteq Row /\ rows' \subseteq Row /\ nextId' \in {nextId, nextId + 1}
      BY <1>3, <1>5, Types DEF IInv
    <2> QED  BY <1>3, <1>4, <2>1, WriteFacts
  <1>7. RowStep
    <2>1. ASSUME NEW x \in rows \ rows', NEW y \in rows', y.id = x.id
          PROVE  Class(y.table) # "session"
      <3>1. x \in Known /\ y \in Known /\ x \in Row /\ y \in Row
        BY <1>5, <1>6 DEF Known
      <3>2. Same(y, x)
        BY <1>6, <3>1 DEF Identified
      <3>3. y.user = x.user
        BY <2>1, <3>1, <3>2, RowFacts DEF Same
      <3> QED  BY <1>5, <3>3
    <2> QED  BY <1>5, <2>1 DEF RowStep
  <1>8. n.kind = r.kind /\ n.names = r.names /\ n.new = r.new
         /\ n.refused = r.refused
    BY <1>4 DEF Fewer, Alike
  <1>9. Identified'
    <2>1. \A q \in Procs : req'[q].new \subseteq req[q].new
      BY <1>1, <1>6, <1>8
    <2> QED  BY <1>3, <1>5, <1>6, <2>1, IdentifiedKept
  <1>10. Meant(n)'
    <2>1. DoneSound(n)'
      BY <1>4, <1>8 DEF DoneSound
    <2>2. Keeps(n, r, Doubts) /\ Keeps(n, r, Looks)
      BY <1>4 DEF Keeps, Doubts, Looks, Expiry
    <2> QED  BY <1>4, <1>6, <1>7, <2>1, <2>2, MeantAfter
  <1>11. KeptSound'
    <2>1. \A f : ~Rotating(req[p], f)
      BY <1>1, <1>4 DEF Rotating
    <2> QED  BY <1>5, <1>6, <2>1, RotationKept
  <1>12. SameNames(req'[p], req[p])
    BY <1>1, <1>6, <1>8 DEF SameNames
  <1>13. FamiliesSound'
    <2>1. \A f : Single(f, n)'
      BY <1>4 DEF Single
    <2>2. \A x \in Known' : x.table = "refresh" => x \in Known
      BY <1>1, <1>5, <1>6, <1>8 DEF Known
    <2>3. \A f : Single(f, req[p])'
      BY <1>6, <2>1
    <2> QED  BY <1>5, <1>6, <1>12, <2>2, <2>3, FamiliesKept
  <1>14. OrphansSound'
    <2>1. ASSUME NEW u, OfUser(u, req'[p])
          PROVE  Watched(u, req[p])'
      <3>1. u = r.names.user
        BY <1>6, <1>8, <2>1 DEF OfUser
      <3>2. SessionsOf(u)' = {}
        BY <1>5, <3>1 DEF SessionsOf, In, Class
      <3>3. Watched(u, n)'
        BY <1>4, <3>2 DEF Watched
      <3> QED  BY <1>6, <3>3
    <2> QED  BY <1>5, <1>6, <1>12, <2>1, OrphansKept
  <1> HIDE DEF History
  <1> QED
    BY <1>3, <1>4, <1>6, <1>7, <1>9, <1>10, <1>11, <1>13, <1>14, WriteStep

(* A request that adds a row to what it inserted.                          *)
LEMMA Renewed ==
  ASSUME NEW r \in Requests, NEW row \in Row, NEW first \in BOOLEAN, NEW n,
         n = [kind |-> r.kind, names |-> r.names, calls |-> r.calls,
              refused |-> r.refused, first |-> first, new |-> r.new \cup {row},
              late |-> r.late, shut |-> r.shut]
  PROVE  /\ n \in Requests /\ n.calls = r.calls /\ n.new = r.new \cup {row}
         /\ n.first = first /\ n.kind = r.kind /\ n.names = r.names
         /\ n.refused = r.refused /\ n.late = r.late /\ n.shut = r.shut
         /\ Left(n) = Left(r)
  <1>1. PICK places \in SUBSET (1..Longest) : r \in Request(places)
    BY DEF Requests
  <1>2. r.new \cup {row} \in SUBSET Row
    BY <1>1 DEF Request
  <1>3. n \in Request(places)
    BY <1>1, <1>2 DEF Request
  <1>4. /\ n.calls = r.calls /\ n.new = r.new \cup {row}
        /\ n.first = first /\ n.kind = r.kind /\ n.names = r.names
        /\ n.refused = r.refused /\ n.late = r.late /\ n.shut = r.shut
    BY <1>1 DEF Request
  <1> QED  BY <1>3, <1>4 DEF Requests, Left

(* A code or a refresh token that is a family's only one has no twin.      *)
LEMMA OnlyCode ==
  ASSUME TypeOK, Identified, NEW r \in Requests, Sound(r), r.kind = "token",
         r.names \notin rows, NEW c \in rows, c.table = "code"
  PROVE  c.family # r.names.family
  <1>1. SUFFICES ASSUME c.family = r.names.family  PROVE  FALSE
    OBVIOUS
  <1>2. r.names \in Known /\ r.names.table = "code" /\ r.names \in Row
    BY NamesFacts DEF Names
  <1>3. c \in Known /\ c \in Row
    BY Types DEF Known
  <1>4. c.id = c.family /\ r.names.id = r.names.family /\ Same(c, r.names)
    BY <1>2, <1>3 DEF Identified, RowSound
  <1>5. EndedRow(c) = EndedRow(r.names)
    BY <1>1, <1>4 DEF Same
  <1>6. c = r.names
    BY <1>2, <1>3, <1>5, RowFacts
  <1> QED  BY <1>6

(* A row is inserted: a code, a token, a session or Apple's first          *)
(* authorization.                                                          *)
LEMMA InsertStep ==
  ASSUME IInv, NEW p \in Procs, Insert(p)
  PROVE  IInv'
  <1>1. PICK r : r = req[p]
    OBVIOUS
  <1>2. PICK rest : rest = Past(r)
    OBVIOUS
  <1>3. PICK t : t = NextCall(r)
    OBVIOUS
  <1>4. PICK row :
          row = [table |-> t, id |-> nextId, user |-> r.names.user,
                 family |-> IF t = "code" THEN nextId ELSE r.names.family]
    OBVIOUS
  <1>5. PICK n : n = [rest EXCEPT !.new = @ \cup {row}, !.first = @ \/ t = "first"]
    OBVIOUS
  <1>6. Calling(p, Tables) /\ Goto(p, n) /\ nextId' = nextId + 1
        /\ UNCHANGED <<service, users, stale, History>>
        /\ rows' = rows \cup {row}
    BY <1>1, <1>2, <1>3, <1>4, <1>5 DEF Insert
  <1>7. /\ r \in Requests /\ r.kind # "idle" /\ r.kind \in Kinds /\ Meant(r)
        /\ rest \in Requests /\ Fewer(rest, r) /\ Sound(rest)
        /\ t \in Tables /\ t \in Left(r) /\ Left(rest) = Left(r) \ {t}
        /\ t \in WordsOf[r.kind] /\ Owned(service, t)
        /\ (r.refused => t \notin Grave)
        /\ \A v \in Left(r) : /\ ~Before(v, t) /\ v \in WordsOf[r.kind]
                              /\ IsCall(v)
    BY <1>1, <1>2, <1>3, <1>6, CallFacts
  <1>8. Sound(r) /\ (r.late => LateSound(r)) /\ (~r.refused => DoneSound(r))
    BY <1>7 DEF Meant
  <1>9. t # "ended"
    BY <1>7 DEF WordsOf, Kinds, Names, Looks, Expiry, Statuses
  <1>10. r.kind \in {"authorize", "token", "refresh", "createSession"}
    BY <1>7 DEF WordsOf, Kinds, Names, Looks, Expiry, Statuses, Tables
  <1>11. /\ r.names.user \in Users /\ r.names.family \in Nat
         /\ r.names.family < nextId /\ nextId \in Nat /\ nextId # 0
    <2>1. TypeOK /\ Identified
      BY DEF IInv
    <2>2. r.names.user \in Users /\ r.names.family \in Nat /\ nextId \in Nat
          /\ nextId # 0
      BY <1>7, <1>8, <2>1, NamesFacts, Types DEF Identified
    <2>3. CASE Names[r.kind] = {}
      <3>1. r.names.family = 0
        BY <1>7, <1>8, <2>1, <2>3, NamesFacts, RowFacts
      <3> QED  BY <2>2, <3>1
    <2>4. CASE Names[r.kind] # {}
      <3>1. r.names \in Known
        BY <1>7, <1>8, <2>1, <2>4, NamesFacts
      <3> QED  BY <2>1, <2>2, <3>1 DEF Identified, RowSound
    <2> QED  BY <2>2, <2>3, <2>4
  <1>12. /\ row \in Row /\ row.table = t /\ row.id = nextId
         /\ row.user = r.names.user
         /\ row.family = IF t = "code" THEN nextId ELSE r.names.family
    BY <1>4, <1>7, <1>11 DEF Row
  <1>13. /\ n \in Requests /\ n.calls = rest.calls /\ n.new = r.new \cup {row}
         /\ n.first = (r.first \/ t = "first") /\ n.kind = r.kind
         /\ n.names = r.names /\ n.refused = r.refused /\ n.late = r.late
         /\ n.shut = r.shut /\ Left(n) = Left(r) \ {t}
    <2>1. rest.new = r.new /\ rest.first = r.first /\ rest.kind = r.kind
          /\ rest.names = r.names /\ rest.refused = r.refused
          /\ rest.late = r.late /\ rest.shut = r.shut
      BY <1>7 DEF Fewer, Alike
    <2>2. PICK first \in BOOLEAN : first = (r.first \/ t = "first")
      BY <1>7, RequestFacts
    <2>3. n = [kind |-> rest.kind, names |-> rest.names, calls |-> rest.calls,
               refused |-> rest.refused, first |-> first,
               new |-> rest.new \cup {row}, late |-> rest.late,
               shut |-> rest.shut]
      <3>1. PICK places \in SUBSET (1..Longest) : rest \in Request(places)
        BY <1>7 DEF Requests
      <3> QED  BY <1>5, <2>1, <2>2, <3>1 DEF Request
    <2>4. /\ n \in Requests /\ n.calls = rest.calls
          /\ n.new = rest.new \cup {row} /\ n.first = first
          /\ n.kind = rest.kind /\ n.names = rest.names
          /\ n.refused = rest.refused /\ n.late = rest.late
          /\ n.shut = rest.shut /\ Left(n) = Left(rest)
      <3>1. rest \in Requests /\ row \in Row /\ first \in BOOLEAN
        BY <1>7, <1>12, <2>2
      <3> QED  BY <2>3, <3>1, Renewed
    <2> QED  BY <1>7, <2>1, <2>2, <2>4
  <1>14. rows \subseteq rows' /\ rows' \subseteq rows \cup {row} /\ row \in rows'
    BY <1>6
  <1>15. /\ TypeOK /\ TypeOK' /\ Identified /\ DeadSound /\ UsersSound
         /\ RequestsSound /\ KeptSound /\ FamiliesSound /\ OrphansSound
         /\ req'[p] = n /\ \A q \in Procs \ {p} : req'[q] = req[q]
         /\ Grow /\ users' = users /\ stale' = stale
         /\ dead' = dead /\ issued' = issued /\ crossed' = crossed
         /\ asked' = asked /\ service' = service /\ rows' \subseteq Row
         /\ Aside(p)
    <2>1. rows' \subseteq Row /\ nextId' \in {nextId, nextId + 1}
      BY <1>6, <1>12, Types DEF IInv
    <2> QED  BY <1>6, <1>13, <2>1, WriteFacts
  <1>16. RowStep
    BY <1>12, <1>14 DEF RowStep
  <1>17. Known' \subseteq Known \cup {row}
    BY <1>1, <1>13, <1>14, <1>15 DEF Known
  <1>18. \A x \in Known : x.id \in Nat /\ x.id < nextId /\ x.family < nextId
    BY <1>11, <1>15 DEF Identified, RowSound
  <1>19. Identified'
    <2>1. \A x \in Known : RowSound(x)'
      <3>1. \A i \in 1..(nextId - 1) : i \in 1..(nextId' - 1)
        BY <1>6, <1>11
      <3>2. ASSUME NEW x \in Known  PROVE  x.family < nextId'
        <4>1. RowSound(x) /\ x \in Row
          BY <1>15, Types DEF Identified, Known, TypeOK, Requests, Request
        <4> QED  BY <1>6, <1>11, <4>1, RowFacts DEF RowSound
      <3> QED  BY <1>15, <3>1, <3>2 DEF Identified, RowSound
    <2>2. RowSound(row)'
      <3>1. nextId \in 1..(nextId' - 1) /\ row.family < nextId'
        BY <1>6, <1>11, <1>12
      <3>2. Owned(service', Class(row.table))
        BY <1>7, <1>9, <1>12, <1>15 DEF Class
      <3> QED  BY <1>12, <3>1, <3>2 DEF RowSound
    <2>3. \A x, y \in Known' : Same(x, y)
      <3>1. \A y \in Known : y.id # row.id
        BY <1>11, <1>12, <1>18
      <3> QED  BY <1>15, <1>17, <3>1 DEF Same, Identified
    <2>4. row \notin issued /\ \A q \in Procs : row \notin req[q].new
      <3>1. row \notin Known
        BY <1>11, <1>12, <1>18
      <3> QED  BY <3>1 DEF Known
    <2>5. \A q \in Procs \ {p} : req'[q].new = req[q].new
      BY <1>15
    <2>6. \A q \in Procs : \A x \in req'[q].new :
            /\ x \notin issued'
            /\ \A q2 \in Procs \ {q} : x \notin req'[q2].new
            /\ x.table # "ended" /\ (x.table \in {"refresh", "first"} => x \in rows')
      BY <1>1, <1>9, <1>12, <1>13, <1>14, <1>15, <2>4, <2>5 DEF Identified
    <2>7. nextId' # 0
      BY <1>6, <1>11
    <2> QED  BY <1>14, <1>15, <1>17, <2>1, <2>2, <2>3, <2>6, <2>7 DEF Identified
  <1>20. Meant(n)'
    <2>1. Keeps(n, r, Doubts) /\ Keeps(n, r, Looks) /\ Keeps(n, r, Deeds)
      BY <1>7, <1>13
      DEF Keeps, Doubts, Looks, Deeds, DroppedTable, Expiry, Tables
    <2>2. Sound(n)
      <3>1. Left(n) = Left(rest) /\ n.kind = rest.kind /\ n.names = rest.names
            /\ n.refused = rest.refused /\ rest.kind # "idle"
        BY <1>7, <1>13 DEF Fewer, Alike
      <3>2. n.first => n.kind = "authorize"
        <4>1. t = "first" => r.kind = "authorize"
          BY <1>7, <1>10 DEF WordsOf, Looks, Expiry
        <4> QED  BY <1>8, <1>13, <4>1 DEF Sound
      <3> QED  BY <1>7, <1>13, <3>1, <3>2 DEF Sound
    <2>3. ASSUME n.late  PROVE  LateSound(n)
      <3>1. Fewer(rest, r) /\ Keeps(rest, r, Doubts) /\ Left(rest) = Left(n)
        BY <1>7, <1>13, <2>1 DEF Keeps
      <3>2. rest.late => LateSound(rest)
        BY <1>8, <3>1, LateFewer
      <3>3. r.kind = "authorize" => t # "first"
        <4>1. r.late
          BY <1>13, <2>3
        <4> QED  BY <1>7, <1>8, <4>1 DEF LateSound, Before
      <3>4. /\ rest.kind = n.kind /\ rest.names = n.names /\ rest.late = n.late
            /\ rest.refused = n.refused /\ rest.first = r.first
        BY <1>7, <1>13 DEF Fewer, Alike
      <3> QED  BY <1>13, <2>3, <3>1, <3>2, <3>3, <3>4 DEF LateSound
    <2>4. n.shut => ShutSound(n)
      <3>1. Keeps(rest, r, Looks) /\ Left(rest) = Left(n)
        BY <1>7, <1>13, <2>1 DEF Keeps
      <3>2. rest.shut => ShutSound(rest)
        BY <1>7, <3>1, ShutFewer DEF Meant
      <3>3. /\ rest.kind = n.kind /\ rest.names = n.names /\ rest.shut = n.shut
            /\ rest.refused = n.refused
        BY <1>7, <1>13 DEF Fewer, Alike
      <3> QED  BY <3>1, <3>2, <3>3 DEF ShutSound
    <2>5. ASSUME ~n.refused  PROVE  DoneSound(n)
      <3>1. DoneSound(r)
        BY <1>8, <1>13, <2>5
      <3>2. {"dropCode", "dropRefresh"} \subseteq Deeds
        BY DEF Deeds, DroppedTable
      <3>3. \A v \in Deeds : Gone(r, v) => Gone(n, v)
        BY <1>13, <2>1 DEF Gone, Keeps
      <3>4. r.kind = "refresh" /\ Rotates(n) => Rotates(r)
        BY <1>7, <1>12, <1>13 DEF Rotates
      <3>5. r.kind = "refresh" /\ "dropRefresh" \in Left(n) => "refresh" \in Left(n)
        BY <1>7, <1>13, <3>1 DEF DoneSound, Before
      <3> QED  BY <1>10, <1>13, <3>1, <3>2, <3>3, <3>4, <3>5 DEF DoneSound
    <2>6. Meant(n)
      BY <2>2, <2>3, <2>4, <2>5 DEF Meant
    <2> QED  BY <1>13, <1>15, <1>16, <2>6, MeantKept
  <1>21. KeptSound'
    <2>1. ASSUME NEW x \in issued, x.table = "refresh", x.family \notin asked
          PROVE  (RefreshTokens(x.family) # {})'
                 \/ \E q \in Procs : Rotating(req[q], x.family)'
      <3>1. CASE RefreshTokens(x.family) # {}
        BY <1>14, <3>1 DEF RefreshTokens, In
      <3>2. CASE \E q \in Procs : Rotating(req[q], x.family)
        <4>1. PICK q \in Procs : Rotating(req[q], x.family)
          BY <3>2
        <4>2. CASE q # p
          BY <1>15, <4>1, <4>2 DEF Rotating, Left
        <4>3. CASE q = p
          <5>1. Rotating(r, x.family) /\ t \in {"access", "refresh"}
                /\ r.names.family = x.family
            BY <1>1, <1>7, <4>1, <4>3 DEF Rotating
          <5>2. t = "refresh" => row \in RefreshTokens(x.family)'
            BY <1>12, <1>14, <5>1 DEF RefreshTokens, In
          <5>3. t = "access" => Rotating(n, x.family)
            BY <1>13, <5>1 DEF Rotating
          <5>4. Rotating(n, x.family) => Rotating(req[p], x.family)'
            BY <1>15 DEF Rotating, Left
          <5> QED  BY <5>1, <5>2, <5>3, <5>4
        <4> QED  BY <4>1, <4>2, <4>3
      <3> QED  BY <1>15, <2>1, <3>1, <3>2 DEF KeptSound
    <2> QED  BY <1>15, <2>1 DEF KeptSound
  <1>22. \A q \in Procs : /\ req'[q].kind = req[q].kind
                          /\ req'[q].names = req[q].names
                          /\ Left(req'[q]) \subseteq Left(req[q])
    BY <1>1, <1>13, <1>15 DEF Left
  <1>23. FamiliesSound'
    <2> SUFFICES ASSUME NEW f \in Nat \ (crossed' \cup {0})
                 PROVE  FamilySound(f)'
      BY DEF FamiliesSound
    <2>1. FamilySound(f) /\ f \notin crossed /\ f # 0
      BY <1>15 DEF FamiliesSound
    <2>2. \A q \in Procs : InFamily(f, req'[q]) <=> InFamily(f, req[q])
      BY <1>22 DEF InFamily
    <2>3. \A q1, q2 \in Procs :
            InFamily(f, req'[q1]) /\ InFamily(f, req'[q2]) => q1 = q2
      BY <2>1, <2>2 DEF FamilySound
    <2>4. CASE t = "refresh" /\ row.family = f
      <3>1. InFamily(f, r) /\ r.names.family = f
        BY <1>7, <1>12, <2>4 DEF InFamily
      <3>2. r.kind \in {"token", "refresh"} /\ ~r.refused
        BY <1>7, <1>10, <2>4 DEF WordsOf, Looks, Grave
      <3>3. "findCode" \notin Left(r) /\ "dropCode" \notin Left(r)
            /\ "dropRefresh" \notin Left(r)
        BY <1>7, <2>4 DEF Before
      <3>4. RefreshTokens(f) = {}
        <4>1. Single(f, r)
          BY <1>1, <2>1, <3>1 DEF FamilySound
        <4> QED  BY <1>7, <2>4, <3>2, <3>3, <4>1 DEF Single
      <3>5. RefreshTokens(f)' \subseteq {row}
        BY <1>14, <3>4 DEF RefreshTokens, In
      <3>6. In({"code"})' = In({"code"})
        BY <1>12, <1>14, <2>4 DEF In
      <3>7. \A c \in In({"code"}) : c.family # f
        <4>1. CASE r.kind = "token"
          <5>1. r.names \notin rows
            BY <1>8, <3>2, <3>3, <4>1 DEF DoneSound, Gone
          <5> QED  BY <1>7, <1>8, <1>15, <3>1, <4>1, <5>1, OnlyCode DEF In
        <4>2. CASE r.kind = "refresh"
          <5>1. r.names \in Known /\ r.names.table = "refresh"
            BY <1>7, <1>8, <1>15, <4>2, NamesFacts DEF Names
          <5> QED  BY <2>1, <3>1, <5>1 DEF FamilySound
        <4> QED  BY <3>2, <4>1, <4>2
      <3>8. ASSUME NEW q \in Procs, InFamily(f, req'[q])
            PROVE  Single(f, req[q])'
        <4>1. q = p
          BY <1>1, <2>1, <2>2, <3>1, <3>8 DEF FamilySound
        <4>2. "refresh" \notin Left(req'[q])
          BY <1>13, <1>15, <2>4, <4>1
        <4> QED  BY <4>2 DEF Single
      <3> QED  BY <2>3, <3>5, <3>6, <3>7, <3>8 DEF FamilySound, InFamily
    <2>5. CASE ~(t = "refresh" /\ row.family = f)
      <3>1. RefreshTokens(f)' = RefreshTokens(f)
        BY <1>12, <1>14, <2>5 DEF RefreshTokens, In
      <3>2. \A x \in Known' : x.table = "refresh" /\ x.family = f => x \in Known
        BY <1>12, <1>17, <2>5
      <3>3. ASSUME NEW x \in Known, x.table = "refresh", x.family = f,
                   NEW c \in In({"code"})'
            PROVE  c.family # f
        <4>1. CASE c = row
          <5>1. c.family = nextId
            BY <1>12, <3>3, <4>1 DEF In
          <5> QED  BY <1>11, <1>18, <3>3, <5>1
        <4>2. CASE c # row
          <5>1. c \in In({"code"})
            BY <1>14, <3>3, <4>2 DEF In
          <5> QED  BY <2>1, <3>3, <5>1 DEF FamilySound
        <4> QED  BY <4>1, <4>2
      <3>4. ASSUME NEW q \in Procs, InFamily(f, req'[q])
            PROVE  Single(f, req[q])'
        <4>1. Single(f, req[q])
          BY <2>1, <2>2, <3>4 DEF FamilySound
        <4>2. Keeps(req'[q], req[q], {"findCode", "findRefresh", "dropRefresh"})
          BY <1>1, <1>7, <1>13, <1>15 DEF Keeps, Tables
        <4> QED  BY <1>22, <3>1, <4>1, <4>2 DEF Single, Keeps
      <3> QED
        BY <2>1, <2>3, <3>1, <3>2, <3>3, <3>4 DEF FamilySound, InFamily
    <2> QED  BY <2>4, <2>5
  <1>24. OrphansSound'
    <2> SUFFICES ASSUME service = "clerk", NEW u \in Users \ crossed
                 PROVE  UserSound(u)'
      BY <1>15 DEF OrphansSound
    <2>1. UserSound(u)
      BY <1>15 DEF OrphansSound
    <2>2. \A q \in Procs : OfUser(u, req'[q]) <=> OfUser(u, req[q])
      BY <1>22 DEF OfUser
    <2>3. \A q1, q2 \in Procs :
            OfUser(u, req'[q1]) /\ OfUser(u, req'[q2]) /\ req'[q1].kind = "delete"
              => q1 = q2
      BY <1>22, <2>1, <2>2 DEF UserSound
    <2>4. \A q \in Procs :
            Keeps(req'[q], req[q], {"user", "dropSessions"})
      BY <1>1, <1>7, <1>13, <1>15 DEF Keeps, Tables
    <2>5. CASE t = "session" /\ row.user = u
      <3>1. OfUser(u, r) /\ r.kind # "delete"
        BY <1>7, <1>10, <1>12, <2>5 DEF OfUser
      <3>2. users[u] # "gone"
        <4>1. Watched(u, r) /\ "user" \notin Left(r)
          BY <1>1, <1>7, <2>1, <2>5, <3>1 DEF UserSound, Before
        <4> QED  BY <1>7, <2>5, <4>1 DEF Watched
      <3>3. ASSUME NEW q \in Procs, OfUser(u, req'[q])
            PROVE  Watched(u, req[q])'
        <4>1. req[q].kind # "delete"
          BY <1>1, <2>1, <2>2, <3>1, <3>3 DEF UserSound
        <4>2. "dropUser" \notin Left(req[q])
          <5>1. PICK rq : rq = req[q]
            OBVIOUS
          <5>2. rq \in Requests /\ Sound(rq)
            BY <1>15, <5>1, Types DEF RequestsSound, Meant
          <5>3. rq.kind \in Kinds \cup {"idle"} /\ Left(rq) \subseteq WordsOf[rq.kind]
            BY <5>2, RequestFacts DEF Sound
          <5>4. rq.kind # "delete" => "dropUser" \notin WordsOf[rq.kind]
            BY <5>3 DEF WordsOf, Kinds, Names, Looks, Expiry, Statuses
          <5> QED  BY <4>1, <5>1, <5>3, <5>4
        <4> QED  BY <1>15, <1>22, <3>2, <4>2 DEF Watched
      <3> QED  BY <1>15, <2>3, <3>2, <3>3 DEF UserSound, OfUser
    <2>6. CASE ~(t = "session" /\ row.user = u)
      <3>1. SessionsOf(u)' = SessionsOf(u)
        BY <1>12, <1>14, <2>6 DEF SessionsOf, In
      <3>2. ASSUME NEW q \in Procs, OfUser(u, req'[q])
            PROVE  Watched(u, req[q])'
        <4>1. Watched(u, req[q])
          BY <2>1, <2>2, <3>2 DEF UserSound
        <4> QED  BY <1>15, <1>22, <2>4, <3>1, <4>1 DEF Watched, Keeps
      <3> QED  BY <1>15, <2>1, <2>3, <3>1, <3>2 DEF UserSound, OfUser
    <2> QED  BY <2>5, <2>6
  <1>25. nextId' \in {nextId, nextId + 1}
    BY <1>6
  <1> HIDE DEF History
  <1> QED
    BY <1>6, <1>13, <1>15, <1>16, <1>19, <1>20, <1>21, <1>23, <1>24, <1>25,
       WriteStep

-----------------------------------------------------------------------------
(* The calls that write users.                                             *)

(* A request whose user became usable.                                     *)
LEMMA Opened ==
  ASSUME NEW r \in Requests, NEW n, n = [r EXCEPT !.shut = FALSE]
  PROVE  /\ n \in Requests /\ ~n.shut /\ Left(n) = Left(r)
         /\ n.calls = r.calls /\ n.new = r.new /\ n.first = r.first
         /\ n.kind = r.kind /\ n.names = r.names /\ n.refused = r.refused
         /\ n.late = r.late
  <1>1. PICK places \in SUBSET (1..Longest) : r \in Request(places)
    BY DEF Requests
  <1>2. n \in Request(places)
    BY <1>1 DEF Request
  <1>3. /\ n.calls = r.calls /\ n.new = r.new /\ n.first = r.first
        /\ n.kind = r.kind /\ n.names = r.names /\ n.refused = r.refused
        /\ n.late = r.late /\ n.shut = FALSE
    BY <1>1 DEF Request
  <1> QED  BY <1>2, <1>3 DEF Requests, Left

(* What was meant but for the user is meant still.                         *)
LEMMA MeantOpen ==
  ASSUME TypeOK, TypeOK', Identified, RowStep, Grow, NEW r \in Requests,
         Sound(r), r.late => LateSound(r), ~r.refused => DoneSound(r),
         r.kind # "idle",
         NEW n \in Requests, n.kind = r.kind, n.names = r.names,
         n.calls = r.calls, n.new = r.new, n.first = r.first, n.late = r.late,
         n.refused = r.refused, n.shut => ShutSound(n)'
  PROVE  Meant(n)'
  <1>1. Left(n) = Left(r)
    BY DEF Left
  <1>2. Sound(n) /\ (n.late => LateSound(n)) /\ (~n.refused => DoneSound(n))
    BY <1>1 DEF Sound, LateSound, DoneSound, Gone, Rotates
  <1>3. Sound(n)' /\ (n.late => LateSound(n)')
    BY <1>2, SoundKept, LateKept
  <1>4. ~n.refused => DoneSound(n)'
    BY <1>2, DoneKept
  <1> QED  BY <1>3, <1>4 DEF Meant

(* The status of a user is written, unless the user is gone: the requests  *)
(* for the user that may go on are no longer shut out.                     *)
LEMMA SetUserStep ==
  ASSUME IInv, NEW p \in Procs, Calling(p, Statuses \cup {"dropUser"}),
         NEW status \in Statuses \cup {"gone"},
         status = "gone" => NextCall(req[p]) = "dropUser", SetUser(p, status)
  PROVE  IInv'
  <1>1. PICK r : r = req[p]
    OBVIOUS
  <1>2. PICK rest : rest = Past(r)
    OBVIOUS
  <1>3. PICK w : w = NextCall(r)
    OBVIOUS
  <1>4. PICK u : u = r.names.user
    OBVIOUS
  <1>5. /\ users' = IF users[u] = "gone" THEN users
                    ELSE [users EXCEPT ![u] = status]
        /\ service' = service /\ rows' = rows /\ stale' = stale
        /\ nextId' = nextId /\ issued' = issued /\ dead' = dead
        /\ crossed' = crossed /\ asked' = asked
    BY <1>1, <1>4 DEF SetUser, History
  <1>6. /\ r \in Requests /\ r.kind # "idle" /\ r.kind \in Kinds /\ Meant(r)
        /\ rest \in Requests /\ Fewer(rest, r) /\ Sound(rest)
        /\ w \in Statuses \cup {"dropUser"} /\ w \in Left(r)
        /\ Left(rest) = Left(r) \ {w} /\ w \in WordsOf[r.kind]
        /\ Owned(service, w) /\ \A v \in Left(r) : ~Before(v, w)
    BY <1>1, <1>2, <1>3, CallFacts
  <1>7. /\ TypeOK /\ Identified /\ DeadSound /\ UsersSound /\ RequestsSound
        /\ KeptSound /\ FamiliesSound /\ OrphansSound
    BY DEF IInv
  <1>8. u \in Users /\ users \in [Users -> Statuses \cup {"gone"}]
        /\ req \in [Procs -> Requests]
    BY <1>4, <1>6, <1>7, NamesFacts, Types DEF Meant
  <1>9. /\ users' \in [Users -> Statuses \cup {"gone"}]
        /\ \A x \in Users \ {u} : users'[x] = users[x]
    BY <1>5, <1>8
  <1> DEFINE was(q) == IF q = p THEN rest ELSE req[q]
  <1>10. \A q \in Procs :
           req'[q] = IF was(q).names.user = u /\ Usable(users'[u], was(q).kind)
                     THEN [was(q) EXCEPT !.shut = FALSE] ELSE was(q)
    BY <1>1, <1>2, <1>4 DEF SetUser
  <1>11. DOMAIN req' = Procs /\ req' = [q \in Procs |-> req'[q]]
    BY DEF SetUser
  <1>12. \A q \in Procs : was(q) \in Requests
    BY <1>6, <1>8
  <1>13. ASSUME NEW q \in Procs
         PROVE  /\ req'[q] \in Requests /\ Left(req'[q]) = Left(was(q))
                /\ req'[q].kind = req[q].kind /\ req'[q].names = req[q].names
                /\ req'[q].new = req[q].new /\ req'[q].first = req[q].first
                /\ req'[q].refused = req[q].refused
                /\ req'[q].late = req[q].late
                /\ req'[q].calls = was(q).calls
                /\ req'[q].shut => /\ req'[q] = was(q)
                                   /\ ~(/\ was(q).names.user = u
                                        /\ Usable(users'[u], was(q).kind))
    <2>1. PICK b : b = was(q)
      OBVIOUS
    <2>2. PICK m : m = req'[q]
      OBVIOUS
    <2>3. b \in Requests /\ Alike(b, req[q])
      <3>1. b \in Requests
        BY <1>12, <2>1
      <3> QED  BY <1>1, <1>6, <2>1, <3>1 DEF Fewer, Alike
    <2>4. m = IF b.names.user = u /\ Usable(users'[u], b.kind)
              THEN [b EXCEPT !.shut = FALSE] ELSE b
      BY <1>10, <2>1, <2>2
    <2> HIDE DEF was
    <2>5. CASE b.names.user = u /\ Usable(users'[u], b.kind)
      <3>1. m = [b EXCEPT !.shut = FALSE]
        BY <2>4, <2>5
      <3>2. /\ m \in Requests /\ ~m.shut /\ Left(m) = Left(b)
            /\ m.calls = b.calls /\ m.new = b.new /\ m.first = b.first
            /\ m.kind = b.kind /\ m.names = b.names /\ m.refused = b.refused
            /\ m.late = b.late
        BY <2>3, <3>1, Opened
      <3> QED  BY <2>1, <2>2, <2>3, <3>2 DEF Alike
    <2>6. CASE ~(b.names.user = u /\ Usable(users'[u], b.kind))
      BY <2>1, <2>2, <2>3, <2>4, <2>6 DEF Alike
    <2> QED  BY <2>5, <2>6
  <1>14. was(p) = rest /\ \A q \in Procs \ {p} : was(q) = req[q]
    OBVIOUS
  <1> HIDE DEF was
  <1>15. TypeOK'
    <2>1. req' \in [Procs -> Requests]
      BY <1>11, <1>13
    <2> QED  BY <1>5, <1>7, <1>9, <2>1 DEF TypeOK, Requests
  <1>16. Aside(p) /\ RowStep /\ Grow
    BY <1>5, <1>13, <1>14 DEF Aside, RowStep, Grow
  <1>17. Identified'
    BY <1>5, <1>7, <1>13, IdentifiedKept
  <1>18. DeadSound'
    BY <1>5, <1>7, <1>15, <1>16, DeadKept
  <1>19. service \in {"okta", "clerk"} /\ (service = "clerk" => w = "dropUser")
    BY <1>6 DEF Owned
  <1>20. UsersSound'
    BY <1>5, <1>19 DEF UsersSound
  <1>21. Keeps(rest, r, Doubts) /\ Keeps(rest, r, Looks) /\ Keeps(rest, r, Deeds)
         /\ Keeps(rest, r, {"refresh"})
    BY <1>6 DEF Keeps, Doubts, Looks, Deeds, DroppedTable, Expiry, Statuses
  <1>22. RequestsSound'
    <2> SUFFICES ASSUME NEW q \in Procs  PROVE  Meant(req[q])'
      BY DEF RequestsSound
    <2>1. PICK b : b = was(q)
      OBVIOUS
    <2>2. PICK m : m = req'[q]
      OBVIOUS
    <2>3. /\ m \in Requests /\ m.kind = b.kind /\ m.names = b.names
          /\ m.calls = b.calls /\ m.new = b.new /\ m.first = b.first
          /\ m.late = b.late /\ m.refused = b.refused
          /\ m.shut => m = b /\ ~(b.names.user = u /\ Usable(users'[u], b.kind))
      <3>1. CASE q = p
        BY <1>1, <1>6, <1>13, <1>14, <2>1, <2>2, <3>1 DEF Fewer, Alike
      <3>2. CASE q # p
        BY <1>13, <1>14, <2>1, <2>2, <3>2
      <3> QED  BY <3>1, <3>2
    <2>4. Meant(b) /\ b \in Requests
      <3>1. CASE q = p
        <4>1. rest.late => LateSound(rest)
          BY <1>6, <1>21, LateFewer DEF Meant
        <4>2. rest.shut => ShutSound(rest)
          BY <1>6, <1>21, ShutFewer DEF Meant
        <4>3. ~rest.refused => DoneSound(rest)
          BY <1>6, <1>21, DoneFewer DEF Meant
        <4> QED  BY <1>6, <1>14, <2>1, <3>1, <4>1, <4>2, <4>3 DEF Meant
      <3>2. CASE q # p
        BY <1>7, <1>8, <1>14, <2>1, <3>2 DEF RequestsSound
      <3> QED  BY <3>1, <3>2
    <2>5. CASE b.kind = "idle"
      <3>1. b = Idle /\ ~b.shut /\ ~m.shut /\ ~b.late
        BY <2>3, <2>4, <2>5, IdleFacts DEF Meant, Sound
      <3>2. Left(m) = {} /\ m = b
        <4>1. q # p
          BY <1>6, <1>14, <2>1, <2>5 DEF Fewer, Alike
        <4>2. PICK places \in SUBSET (1..Longest) : m \in Request(places)
          BY <2>3 DEF Requests
        <4>3. PICK others \in SUBSET (1..Longest) : b \in Request(others)
          BY <2>4 DEF Requests
        <4>4. /\ m = [kind |-> m.kind, names |-> m.names, calls |-> m.calls,
                     refused |-> m.refused, first |-> m.first, new |-> m.new,
                     late |-> m.late, shut |-> m.shut]
              /\ b = [kind |-> b.kind, names |-> b.names, calls |-> b.calls,
                     refused |-> b.refused, first |-> b.first, new |-> b.new,
                     late |-> b.late, shut |-> b.shut]
              /\ m.shut \in BOOLEAN /\ b.shut \in BOOLEAN
          BY <4>2, <4>3 DEF Request
        <4>5. m.shut = b.shut
          BY <3>1, <4>4
        <4> QED  BY <2>3, <3>1, <4>4, <4>5, IdleFacts
      <3>3. Meant(m)'
        BY <1>7, <1>15, <1>16, <2>3, <2>4, <3>1, <3>2, MeantKept
      <3> QED  BY <2>2, <3>3
    <2>6. CASE b.kind # "idle"
      <3>1. m.shut => ShutSound(m)'
        <4>1. SUFFICES ASSUME m.shut  PROVE  ShutSound(b)'
          BY <2>3
        <4>2. ShutSound(b) /\ ~(b.names.user = u /\ Usable(users'[u], b.kind))
          BY <2>3, <2>4, <4>1 DEF Meant
        <4>3. b.names.user \in Users
          BY <1>7, <2>4, <2>6, NamesFacts DEF Meant
        <4>4. ~Usable(users'[b.names.user], b.kind)
          BY <1>9, <4>2, <4>3 DEF ShutSound
        <4> QED  BY <1>5, <4>2, <4>4 DEF ShutSound, Usable
      <3>2. Meant(m)'
        BY <1>7, <1>15, <1>16, <2>3, <2>4, <2>6, <3>1, MeantOpen DEF Meant
      <3> QED  BY <2>2, <3>2
    <2> QED  BY <2>5, <2>6
  <1>23. KeptSound'
    <2>1. \A f : ~Rotating(req[p], f)
      BY <1>1, <1>6 DEF Rotating, Statuses
    <2> QED  BY <1>5, <1>7, <1>16, <2>1, RotationKept
  <1>24. Left(req'[p]) = Left(r) \ {w} /\ SameNames(req'[p], req[p])
    BY <1>6, <1>13, <1>14 DEF SameNames
  <1>25. FamiliesSound'
    <2>1. Known' = Known
      BY <1>5, <1>13 DEF Known
    <2>2. ASSUME NEW f \in Nat \ (crossed \cup {0}), FamilySound(f),
                 InFamily(f, req'[p])
          PROVE  Single(f, req[p])'
      <3>1. Single(f, r)
        BY <1>1, <1>24, <2>2 DEF FamilySound, InFamily, SameNames
      <3>2. RefreshTokens(f)' = RefreshTokens(f)
        BY <1>5 DEF RefreshTokens, In
      <3>3. req'[p].kind = r.kind /\ req'[p].names = r.names
        BY <1>1, <1>24 DEF SameNames
      <3> QED  BY <1>6, <1>24, <3>1, <3>2, <3>3 DEF Single, Statuses
    <2> QED  BY <1>5, <1>7, <1>16, <1>24, <2>1, <2>2, FamiliesKept
  <1>26. OrphansSound'
    <2> SUFFICES ASSUME service = "clerk", NEW u0 \in Users \ crossed
                 PROVE  UserSound(u0)'
      BY <1>5 DEF OrphansSound
    <2>1. UserSound(u0)
      BY <1>7 DEF OrphansSound
    <2>2. w = "dropUser" /\ r.kind = "delete" /\ "session" \notin Left(r)
          /\ "dropSessions" \notin Left(r)
      <3>1. w = "dropUser"
        BY <1>19
      <3>2. r.kind = "delete"
        BY <1>6, <3>1 DEF WordsOf, Kinds, Names, Looks, Expiry, Statuses
      <3>3. Left(r) \subseteq WordsOf["delete"]
        BY <1>6, <3>2 DEF Meant, Sound
      <3> QED  BY <1>6, <3>1, <3>2, <3>3 DEF WordsOf, Looks, Before, Statuses
    <2>3. \A q \in Procs : OfUser(u0, req'[q]) <=> OfUser(u0, req[q])
      BY <1>13 DEF OfUser
    <2>4. SessionsOf(u0)' = SessionsOf(u0)
      BY <1>5 DEF SessionsOf, In
    <2>5. users'[u0] = "gone" => SessionsOf(u0) = {}
      <3>1. CASE u0 = u
        <4>1. OfUser(u, r)
          BY <1>4, <1>6 DEF OfUser
        <4>2. Watched(u, r)
          BY <1>1, <2>1, <3>1, <4>1 DEF UserSound
        <4> QED  BY <1>6, <2>2, <3>1, <4>2 DEF Watched
      <3>2. CASE u0 # u
        BY <1>9, <2>1, <3>2 DEF UserSound
      <3> QED  BY <3>1, <3>2
    <2>6. ASSUME NEW q \in Procs, OfUser(u0, req'[q])
          PROVE  Watched(u0, req[q])'
      <3>1. CASE q = p
        BY <1>24, <2>2, <3>1 DEF Watched
      <3>2. CASE q # p
        <4>1. u0 # u
          BY <1>1, <1>4, <1>6, <2>1, <2>2, <2>3, <2>6, <3>2 DEF UserSound, OfUser
        <4>2. users'[u0] = users[u0] /\ Left(req'[q]) = Left(req[q])
          BY <1>9, <1>13, <1>14, <3>2, <4>1
        <4>3. Watched(u0, req[q])
          BY <2>1, <2>3, <2>6 DEF UserSound
        <4> QED  BY <2>4, <4>2, <4>3 DEF Watched
      <3> QED  BY <3>1, <3>2
    <2>7. \A q1, q2 \in Procs :
            OfUser(u0, req'[q1]) /\ OfUser(u0, req'[q2]) /\ req'[q1].kind = "delete"
              => q1 = q2
      BY <1>13, <2>1, <2>3 DEF UserSound
    <2> QED  BY <2>4, <2>5, <2>6, <2>7 DEF UserSound, OfUser
  <1> QED
    BY <1>15, <1>17, <1>18, <1>20, <1>22, <1>23, <1>25, <1>26 DEF IInv

(* Okta activates, suspends or deactivates a user.                         *)
LEMMA SetStatusStep ==
  ASSUME IInv, NEW p \in Procs, SetStatus(p)
  PROVE  IInv'
  <1>1. PICK status \in Statuses : status = NextCall(req[p])
    BY DEF SetStatus, Calling, Due
  <1>2. Calling(p, Statuses \cup {"dropUser"}) /\ SetUser(p, status)
    BY <1>1 DEF SetStatus, Calling, Due
  <1> QED  BY <1>1, <1>2, SetUserStep DEF Statuses

(* A user is deleted.                                                      *)
LEMMA DropUserStep ==
  ASSUME IInv, NEW p \in Procs, DropUser(p)
  PROVE  IInv'
  <1>1. Calling(p, Statuses \cup {"dropUser"}) /\ SetUser(p, "gone")
        /\ NextCall(req[p]) = "dropUser"
    BY DEF DropUser, Calling, Due
  <1> QED  BY <1>1, SetUserStep

-----------------------------------------------------------------------------
(* The response, and the clock.                                            *)

(* A row with the id of what a request has done away with is spent.        *)
LEMMA KilledSpent ==
  ASSUME TypeOK, Identified, NEW r \in Requests, Sound(r), r.kind # "idle",
         DoneSound(r), Left(r) = {}, Kills(r), NEW x \in rows,
         x.id = r.names.id
  PROVE  Spent(x)
  <1>1. r.kind \in {"token", "revoke", "revokeSession", "refresh"}
    BY DEF Kills
  <1>2. r.names \in Known /\ r.names \in Row /\ r.names.table \in Names[r.kind]
    BY <1>1, NamesFacts DEF Names
  <1>3. x \in Known /\ x \in Row
    BY Types DEF Known
  <1>4. EndedRow(x) = EndedRow(r.names) /\ Class(x.table) = Class(r.names.table)
    BY <1>2, <1>3 DEF Identified, Same
  <1>5. CASE r.kind # "revokeSession"
    <2>1. r.names \notin rows
      BY <1>1, <1>5 DEF DoneSound, Gone, Kills, Rotates
    <2>2. r.names.table \in {"code", "access", "refresh", "id"}
      BY <1>1, <1>2, <1>5 DEF Names
    <2>3. x.table = r.names.table
      BY <1>3, <1>4, <2>2, RowFacts DEF Class
    <2> QED  BY <1>2, <1>3, <1>4, <2>1, <2>3, RowFacts
  <1>6. CASE r.kind = "revokeSession"
    <2>1. r.names.table = "session" /\ Class(x.table) = "session"
      BY <1>2, <1>4, <1>6 DEF Names, Class
    <2>2. CASE Ended(r.names)
      BY <1>4, <2>1, <2>2 DEF Spent, Ended
    <2>3. CASE r.names \notin rows
      <3>1. x.table = "ended"
        BY <1>2, <1>3, <1>4, <2>1, <2>3, RowFacts DEF Class
      <3> QED  BY <1>3, <2>1, <3>1, RowFacts DEF Spent, Ended
    <2> QED  BY <1>6, <2>2, <2>3 DEF DoneSound, Gone
  <1> QED  BY <1>5, <1>6

(* A request is answered: clients are told of its rows, and what it named  *)
(* is dead when it was for that.                                           *)
LEMMA AnswerStep ==
  ASSUME IInv, NEW p \in Procs, Answer(p)
  PROVE  IInv'
  <1>1. PICK r : r = req[p]
    OBVIOUS
  <1>2. /\ r.kind # "idle" /\ DOMAIN r.calls = {} /\ Goto(p, Idle)
        /\ issued' = IF r.refused THEN issued ELSE issued \cup r.new
        /\ dead' = IF ~r.refused /\ Kills(r) THEN dead \cup {r.names.id} ELSE dead
        /\ service' = service /\ rows' = rows /\ users' = users
        /\ stale' = stale /\ nextId' = nextId /\ crossed' = crossed
        /\ asked' = asked
    BY <1>1 DEF Answer
  <1>3. /\ TypeOK /\ Identified /\ DeadSound /\ UsersSound /\ RequestsSound
        /\ KeptSound /\ FamiliesSound /\ OrphansSound
    BY DEF IInv
  <1>4. /\ req' \in [Procs -> Requests] /\ req'[p] = Idle
        /\ \A q \in Procs \ {p} : req'[q] = req[q]
        /\ Idle.kind = "idle" /\ Idle.new = {}
    BY <1>2, <1>3, IdleFacts, GotoFacts
  <1>5. r \in Requests /\ Meant(r) /\ Sound(r) /\ Left(r) = {}
        /\ (~r.refused => DoneSound(r))
    BY <1>1, <1>2, <1>3, Types DEF RequestsSound, Meant, Left
  <1>6. ~r.refused /\ Kills(r) => r.names.id \in 1..(nextId - 1)
    <2>1. Kills(r) => Names[r.kind] # {}
      BY DEF Kills, Names
    <2>2. Kills(r) => r.names \in Known
      BY <1>2, <1>3, <1>5, <2>1, NamesFacts
    <2> QED  BY <1>3, <2>2 DEF Identified, RowSound
  <1>7. dead \subseteq dead' /\ dead' \subseteq 1..(nextId - 1)
    BY <1>2, <1>3, <1>6 DEF DeadSound
  <1>8. issued \subseteq issued' /\ issued' \subseteq issued \cup r.new
    BY <1>2
  <1>9. TypeOK'
    <2>1. issued' \subseteq Row
      BY <1>3, <1>5, <1>8, Types, RequestFacts
    <2>2. dead' \subseteq Nat
      BY <1>3, <1>7, Types
    <2> QED  BY <1>2, <1>3, <1>4, <2>1, <2>2 DEF TypeOK, Requests
  <1>10. Aside(p) /\ RowStep /\ Grow
    BY <1>2, <1>4, <1>7, <1>8 DEF Aside, RowStep, Grow
  <1>11. Known' \subseteq Known
    BY <1>1, <1>2, <1>4, <1>8 DEF Known
  <1>12. Identified'
    <2>1. \A x \in Known' : RowSound(x)' /\ \A y \in Known' : Same(x, y)
      BY <1>2, <1>3, <1>11 DEF Identified, RowSound
    <2>2. \A x \in issued' : x.table # "ended" /\ (x.table = "first" => x \in rows')
      BY <1>1, <1>2, <1>3, <1>8 DEF Identified
    <2>3. \A q \in Procs : \A x \in req'[q].new :
            /\ x \notin issued'
            /\ \A q2 \in Procs \ {q} : x \notin req'[q2].new
            /\ x.table # "ended"
            /\ (x.table \in {"refresh", "first"} => x \in rows')
      BY <1>1, <1>2, <1>3, <1>4, <1>8 DEF Identified
    <2> QED  BY <1>2, <1>3, <2>1, <2>2, <2>3 DEF Identified
  <1>13. DeadSound'
    <2>1. ASSUME NEW x \in rows, x.id \in dead'  PROVE  Spent(x)
      <3>1. CASE x.id \in dead
        BY <1>3, <3>1 DEF DeadSound
      <3>2. CASE x.id \notin dead
        BY <1>2, <1>3, <1>5, <2>1, <3>2, KilledSpent
      <3> QED  BY <3>1, <3>2
    <2>2. \A x : Spent(x) => Spent(x)'
      BY <1>2 DEF Spent, Ended
    <2> QED  BY <1>2, <1>3, <1>7, <2>1, <2>2 DEF DeadSound
  <1>14. UsersSound'
    BY <1>2, <1>3 DEF UsersSound
  <1>15. RequestsSound'
    <2>1. Meant(Idle)'
      BY <1>2, <1>3, <1>9, <1>10, IdleFacts, IdleMeant, MeantKept
    <2> QED  BY <1>2, <1>3, <1>4, <1>9, <1>10, <2>1, RequestsKept
  <1>16. KeptSound'
    <2>1. ASSUME NEW x \in issued', x.table = "refresh", x.family \notin asked
          PROVE  (RefreshTokens(x.family) # {})'
                 \/ \E q \in Procs : Rotating(req[q], x.family)'
      <3>1. CASE x \in rows
        BY <1>2, <2>1, <3>1 DEF RefreshTokens, In
      <3>2. CASE x \notin rows
        <4>1. x \in issued
          BY <1>1, <1>3, <1>8, <2>1, <3>2 DEF Identified
        <4>2. RefreshTokens(x.family)' = RefreshTokens(x.family)
          BY <1>2 DEF RefreshTokens, In
        <4>3. ASSUME NEW q \in Procs, Rotating(req[q], x.family)
              PROVE  Rotating(req[q], x.family)'
          <5>1. q # p
            BY <1>1, <1>5, <4>3 DEF Rotating
          <5> QED  BY <1>4, <4>3, <5>1 DEF Rotating, Left
        <4> QED  BY <1>3, <2>1, <4>1, <4>2, <4>3 DEF KeptSound
      <3> QED  BY <3>1, <3>2
    <2> QED  BY <1>2, <2>1 DEF KeptSound
  <1>17. FamiliesSound'
    <2>1. \A f : ~InFamily(f, req'[p])
      BY <1>4 DEF InFamily
    <2> QED  BY <1>2, <1>3, <1>4, <1>10, <1>11, <2>1, FamiliesKept
  <1>18. OrphansSound'
    <2>1. \A u : ~OfUser(u, req'[p])
      BY <1>4 DEF OfUser
    <2> QED  BY <1>2, <1>3, <1>4, <1>10, <2>1, OrphansKept
  <1> QED
    BY <1>9, <1>12, <1>13, <1>14, <1>15, <1>16, <1>17, <1>18 DEF IInv

(* A code expires.                                                         *)
LEMMA ExpireStep ==
  ASSUME IInv, NEW row \in In({"code"}), Expire(row)
  PROVE  IInv'
  <1>1. /\ stale' = stale \cup {row.id} /\ dead' = dead \cup {row.id}
        /\ service' = service /\ rows' = rows /\ users' = users
        /\ nextId' = nextId /\ req' = req /\ issued' = issued
        /\ crossed' = crossed /\ asked' = asked
    BY DEF Expire
  <1>2. /\ TypeOK /\ Identified /\ DeadSound /\ UsersSound /\ RequestsSound
        /\ KeptSound /\ FamiliesSound /\ OrphansSound
    BY DEF IInv
  <1>3. row \in Known /\ row \in Row /\ row \in rows /\ row.table = "code"
        /\ row.id \in 1..(nextId - 1) /\ row.id \in Nat
    <2>1. row \in Known /\ row \in Row /\ row \in rows /\ row.table = "code"
      BY <1>2, Types DEF In, Known
    <2> QED  BY <1>2, <2>1, RowFacts DEF Identified, RowSound
  <1>4. TypeOK'
    BY <1>1, <1>2, <1>3 DEF TypeOK
  <1>5. RowStep /\ Grow
    BY <1>1 DEF RowStep, Grow
  <1>6. Identified' /\ UsersSound'
    BY <1>1, <1>2 DEF Identified, Known, RowSound, UsersSound
  <1>7. DeadSound'
    <2>1. ASSUME NEW x \in rows, x.id \in dead'  PROVE  Spent(x)'
      <3>1. CASE x.id \in dead
        BY <1>1, <1>2, <3>1 DEF DeadSound, Spent, Ended
      <3>2. CASE x.id = row.id
        <4>1. x \in Known /\ x \in Row
          BY <1>2, Types DEF Known
        <4>2. Class(x.table) = "code"
          BY <1>2, <1>3, <3>2, <4>1 DEF Identified, Same, Class
        <4>3. x.table = "code"
          BY <4>2 DEF Class
        <4> QED  BY <1>1, <3>2, <4>3 DEF Spent
      <3> QED  BY <1>1, <2>1, <3>1, <3>2
    <2> QED  BY <1>1, <1>2, <1>3, <2>1 DEF DeadSound
  <1>8. RequestsSound'
    <2>1. ASSUME NEW q \in Procs  PROVE  Meant(req[q])'
      <3>1. PICK r \in Requests : r = req[q]
        BY <1>2, Types
      <3>2. Meant(r)'
        BY <1>1, <1>2, <1>4, <1>5, <3>1, MeantKept DEF RequestsSound
      <3> QED  BY <1>1, <3>1, <3>2
    <2> QED  BY <2>1 DEF RequestsSound
  <1>9. KeptSound'
    BY <1>1, <1>2 DEF KeptSound, RefreshTokens, In
  <1>10. FamiliesSound'
    <2>1. \A f : RefreshTokens(f)' = RefreshTokens(f)
      BY <1>1 DEF RefreshTokens, In
    <2>2. Known' = Known /\ In({"code"})' = In({"code"})
      BY <1>1 DEF Known, In
    <2>3. \A f, r : Single(f, r) => Single(f, r)'
      BY <2>1 DEF Single
    <2>4. \A f : FamilySound(f) => FamilySound(f)'
      BY <1>1, <2>1, <2>2, <2>3 DEF FamilySound
    <2> QED  BY <1>1, <1>2, <2>4 DEF FamiliesSound
  <1>11. OrphansSound'
    BY <1>1, <1>2 DEF OrphansSound, UserSound, Watched, SessionsOf, In
  <1> QED
    BY <1>2, <1>4, <1>6, <1>7, <1>8, <1>9, <1>10, <1>11 DEF IInv

(* Nothing happens.                                                        *)
LEMMA Stutter ==
  ASSUME IInv, UNCHANGED vars
  PROVE  IInv'
  <1>1. /\ stale' = stale /\ dead' = dead
        /\ service' = service /\ rows' = rows /\ users' = users
        /\ nextId' = nextId /\ req' = req /\ issued' = issued
        /\ crossed' = crossed /\ asked' = asked
    BY DEF vars
  <1>2. /\ TypeOK /\ Identified /\ DeadSound /\ UsersSound /\ RequestsSound
        /\ KeptSound /\ FamiliesSound /\ OrphansSound
    BY DEF IInv
  <1>3. TypeOK' /\ Identified' /\ UsersSound'
    BY <1>1, <1>2 DEF TypeOK, Identified, Known, RowSound, UsersSound
  <1>4. RowStep /\ Grow
    BY <1>1 DEF RowStep, Grow
  <1>5. DeadSound'
    BY <1>1, <1>2 DEF DeadSound, Spent, Ended
  <1>6. RequestsSound'
    <2>1. ASSUME NEW q \in Procs  PROVE  Meant(req[q])'
      <3>1. PICK r \in Requests : r = req[q]
        BY <1>2, Types
      <3>2. Meant(r)'
        BY <1>1, <1>2, <1>3, <1>4, <3>1, MeantKept DEF RequestsSound
      <3> QED  BY <1>1, <3>1, <3>2
    <2> QED  BY <2>1 DEF RequestsSound
  <1>7. KeptSound'
    BY <1>1, <1>2 DEF KeptSound, RefreshTokens, In
  <1>8. FamiliesSound'
    <2>1. \A f : RefreshTokens(f)' = RefreshTokens(f)
      BY <1>1 DEF RefreshTokens, In
    <2>2. Known' = Known /\ In({"code"})' = In({"code"})
      BY <1>1 DEF Known, In
    <2>3. \A f, r : Single(f, r) => Single(f, r)'
      BY <2>1 DEF Single
    <2>4. \A f : FamilySound(f) => FamilySound(f)'
      BY <1>1, <2>1, <2>2, <2>3 DEF FamilySound
    <2> QED  BY <1>1, <1>2, <2>4 DEF FamiliesSound
  <1>9. OrphansSound'
    BY <1>1, <1>2 DEF OrphansSound, UserSound, Watched, SessionsOf, In
  <1> QED  BY <1>3, <1>5, <1>6, <1>7, <1>8, <1>9 DEF IInv

-----------------------------------------------------------------------------
(* A request begins.                                                       *)

(* A service handles requests of the kinds there are.                      *)
LEMMA KindsHandled == \A s \in Services : DOMAIN Handlers[s] \subseteq Kinds
  <1>1. DOMAIN Handlers = {"google", "microsoft", "okta", "apple", "clerk",
                           "github", "slack", "discord", "vercel"}
    BY DEF Handlers
  <1>2. \A s \in DOMAIN Handlers : DOMAIN Handlers[s] \subseteq Kinds
    BY DEF Handlers, Kinds, Names
  <1> QED  BY <1>1, <1>2, ServiceAssumption

(* What a request has to call for each fault of its handler.               *)
LEMMA CourseFacts ==
  ASSUME IInv, NEW kind \in DOMAIN Handlers[service]
  PROVE  /\ DOMAIN Courses[service][kind]
              = Faults(Handlers[service][kind]) \cup {"none"}
         /\ \A fault \in DOMAIN Courses[service][kind] :
              Courses[service][kind][fault]
                = CallsOf(Handlers[service][kind], fault)
  <1>1. PICK s \in Services : s = service
    BY Types DEF IInv
  <1>2. kind \in DOMAIN Handlers[s]
    BY <1>1
  <1>3. Courses[s][kind] =
          [fault \in Faults(Handlers[s][kind]) \cup {"none"} |->
             CallsOf(Handlers[s][kind], fault)]
    BY <1>2 DEF Courses
  <1> QED  BY <1>1, <1>3

(* A request begins. If its family, or its user in Clerk, has another      *)
(* request, the two have crossed; otherwise it takes for granted only what *)
(* its lookups will tell it.                                               *)
LEMMA BeginStep ==
  ASSUME IInv, NEW p \in Procs, NEW kind \in DOMAIN Handlers[service],
         NEW row \in Named(kind),
         NEW fault \in Faults(Handlers[service][kind]) \cup {"none"},
         Begin(p, kind, row, fault)
  PROVE  IInv'
  <1>1. PICK r : r = req[p]
    OBVIOUS
  <1>2. PICK s : s = service
    OBVIOUS
  <1>3. PICK list : list = Handlers[s][kind]
    OBVIOUS
  <1>4. PICK calls : calls = CallsOf(list, fault)
    OBVIOUS
  <1>5. PICK refused \in BOOLEAN : refused <=> fault # "none"
    OBVIOUS
  <1>6. PICK late \in BOOLEAN :
          late <=> \/ row.id \in dead
                   \/ /\ kind = "authorize"
                      /\ \E x \in issued : /\ x.table = "first"
                                           /\ x.user = row.user
    OBVIOUS
  <1>7. PICK shut \in BOOLEAN : shut <=> ~Usable(users[row.user], kind)
    OBVIOUS
  <1>8. PICK n : n = [kind |-> kind, names |-> row, calls |-> calls,
                      refused |-> refused, first |-> FALSE, new |-> {},
                      late |-> late, shut |-> shut]
    OBVIOUS
  <1>9. /\ TypeOK /\ Identified /\ DeadSound /\ UsersSound /\ RequestsSound
        /\ KeptSound /\ FamiliesSound /\ OrphansSound
    BY DEF IInv
  <1>10. /\ r.kind = "idle" /\ Goto(p, n)
         /\ crossed' = crossed \cup Overlapping(kind, row)
         /\ asked' = IF kind = "revoke" /\ row.table = "refresh"
                     THEN asked \cup {row.family} ELSE asked
         /\ service' = service /\ rows' = rows /\ users' = users
         /\ stale' = stale /\ nextId' = nextId /\ issued' = issued
         /\ dead' = dead
    <2>1. calls = Courses[service][kind][fault]
      BY <1>2, <1>3, <1>4, CourseFacts
    <2> QED  BY <1>1, <1>2, <1>5, <1>6, <1>7, <1>8, <2>1 DEF Begin
  <1>11. r \in Requests /\ r = Idle /\ r.new = {} /\ kind \in Kinds
         /\ HandlerSound(s, kind, list)
    <2>1. r \in Requests /\ r = Idle
      BY <1>1, <1>9, <1>10, Types DEF RequestsSound, Meant, Sound
    <2>2. s \in Services /\ kind \in DOMAIN Handlers[s]
      BY <1>2, <1>9, Types
    <2> QED  BY <1>3, <2>1, <2>2, IdleFacts, KindsHandled, HandlersSound
  <1>12. /\ Names[kind] = {} => row \in UserRows
         /\ Names[kind] # {} => row \in issued /\ row.table \in Names[kind]
         /\ row \in Row \cup UserRows
    <2>1. issued \subseteq Row
      BY <1>9, Types
    <2> QED  BY <2>1 DEF Named
  <1>13. /\ \E places \in SUBSET (1..Longest) : calls \in [places -> Calls]
         /\ Orderly(calls)
         /\ \A i \in DOMAIN calls : calls[i] \in WordsOf[kind] /\ Owned(s, calls[i])
         /\ fault # "none" => \A i \in DOMAIN calls : calls[i] \notin Grave
         /\ fault = "none" => \A w : IsCall(w) => (Lists(calls, w) <=> Lists(list, w))
         /\ Lists(calls, "first") => Lists(calls, "findFirst")
    <2>1. fault \in Faults(list) \cup {"none"}
      BY <1>2, <1>3
    <2> QED  BY <1>4, <1>11, <2>1, CallsBegun
  <1>14. /\ n \in Requests /\ n.kind = kind /\ n.names = row /\ n.calls = calls
         /\ n.refused = refused /\ n.first = FALSE /\ n.new = {}
         /\ n.late = late /\ n.shut = shut
    <2>1. PICK places \in SUBSET (1..Longest) : calls \in [places -> Calls]
      BY <1>13
    <2>2. /\ kind \in Kinds /\ row \in Row \cup UserRows /\ refused \in BOOLEAN
          /\ late \in BOOLEAN /\ shut \in BOOLEAN
      BY <1>5, <1>6, <1>7, <1>11, <1>12
    <2>3. n \in Request(places)
      BY <1>8, <2>1, <2>2 DEF Request
    <2> QED  BY <1>8, <2>3 DEF Requests
  <1>15. \A w : w \in Left(n) <=> Lists(calls, w)
    BY <1>14 DEF Left, Lists
  <1>16. kind # "idle"
    BY <1>11 DEF Kinds, Names
  <1>17. /\ Left(n) \subseteq WordsOf[kind] /\ \A w \in Left(n) : Owned(service, w)
         /\ refused => Left(n) \cap Grave = {}
         /\ \A w : ~refused /\ IsCall(w) /\ Lists(list, w) => w \in Left(n)
         /\ \A w : ~refused /\ IsCall(w) /\ w \in Left(n) => Lists(list, w)
         /\ "first" \in Left(n) => "findFirst" \in Left(n)
    BY <1>2, <1>5, <1>13, <1>15 DEF Lists
  <1>18. Complete(service, kind, list)
    BY <1>2, <1>11 DEF HandlerSound
  <1>19. \A w \in Calls : IsCall(w)
    BY DEF Calls, IsCall, Checks, Burns, Tables, Statuses
  <1>20. {"findCode", "findRefresh", "findAccess", "findToken", "activeSession",
          "unexpired", "unexpiredKeep", "user", "active", "dropCode",
          "dropRefresh", "dropAccess", "dropId", "endSession", "session",
          "refresh", "dropUser", "dropSessions"} \subseteq Calls
    BY DEF Calls, Tables
  <1>21. /\ req' \in [Procs -> Requests] /\ req'[p] = n
         /\ \A q \in Procs \ {p} : req'[q] = req[q]
    BY <1>9, <1>10, <1>14, GotoFacts
  <1>22. asked \subseteq asked' /\ crossed \subseteq crossed'
    BY <1>10
  <1>23. TypeOK'
    <2>1. row.family \in Nat /\ row.user \in Users
      BY <1>12, RowFacts
    <2>2. Overlapping(kind, row) \subseteq Nat \cup Users
      BY <2>1 DEF Overlapping
    <2>3. crossed' \subseteq Nat \cup Users /\ asked' \subseteq Nat
      BY <1>9, <1>10, <2>1, <2>2, Types
    <2> QED  BY <1>9, <1>10, <1>21, <2>3 DEF TypeOK, Requests
  <1>24. Aside(p) /\ RowStep /\ Grow
    BY <1>10, <1>21, <1>22 DEF Aside, RowStep, Grow
  <1>25. Identified'
    <2>1. \A q \in Procs : req'[q].new \subseteq req[q].new
      BY <1>14, <1>21
    <2> QED  BY <1>9, <1>10, <2>1, IdentifiedKept
  <1>26. DeadSound'
    BY <1>9, <1>10, <1>23, <1>24, DeadKept
  <1>27. UsersSound'
    BY <1>9, <1>10 DEF UsersSound
  <1>28. Sound(n)
    BY <1>12, <1>13, <1>14, <1>16, <1>17 DEF Sound
  <1>29. ASSUME late  PROVE  LateSound(n)
    <2>1. CASE kind = "authorize"
      <3>1. row.id = 0 /\ 0 \notin dead
        <4>1. Names["authorize"] = {}
          BY DEF Names
        <4>2. row.id = 0
          BY <1>12, <2>1, <4>1, RowFacts
        <4>3. 0 \notin 1..(nextId - 1)
          BY <1>9, Types
        <4> QED  BY <1>9, <4>2, <4>3 DEF DeadSound
      <3>2. PICK x \in issued : x.table = "first" /\ x.user = row.user
        BY <1>6, <1>29, <3>1
      <3>3. x \in FirstOf(row.user)
        BY <1>9, <3>2 DEF Identified, FirstOf, In
      <3>4. kind \notin DOMAIN Doubtful
        BY <2>1 DEF Doubtful
      <3> QED  BY <1>14, <1>17, <2>1, <3>3, <3>4 DEF LateSound
    <2>2. CASE kind # "authorize"
      <3>1. row.id \in dead
        BY <1>6, <1>29, <2>2
      <3>2. kind \in DOMAIN Doubtful /\ ~refused => Doubtful[kind] \subseteq Left(n)
        <4>1. SUFFICES ASSUME kind \in DOMAIN Doubtful, ~refused
                       PROVE  Doubtful[kind] \subseteq Left(n)
          OBVIOUS
        <4>2. \A w \in Doubtful[kind] : IsCall(w) /\ Lists(list, w)
          BY <1>18, <1>19, <1>20, <4>1 DEF Complete, Doubtful
        <4> QED  BY <1>17, <4>1, <4>2
      <3>3. kind = "token" /\ ~refused => Left(n) \cap Expiry # {}
        <4>1. SUFFICES ASSUME kind = "token", ~refused
                       PROVE  Left(n) \cap Expiry # {}
          OBVIOUS
        <4>2. "unexpired" \in Left(n) \/ "unexpiredKeep" \in Left(n)
          BY <1>17, <1>18, <1>19, <1>20, <4>1 DEF Complete
        <4> QED  BY <4>2 DEF Expiry
      <3> QED  BY <1>14, <2>2, <3>1, <3>2, <3>3 DEF LateSound
    <2> QED  BY <2>1, <2>2
  <1>30. ASSUME shut  PROVE  ShutSound(n)
    <2>1. ~Usable(users[row.user], kind)
      BY <1>7, <1>30
    <2>2. row.user \in Users
      BY <1>12, RowFacts
    <2>3. service \in {"okta", "clerk"}
      <3>1. SUFFICES ASSUME service \notin {"okta", "clerk"}  PROVE  FALSE
        OBVIOUS
      <3>2. users[row.user] = "ACTIVE"
        BY <1>9, <2>2, <3>1 DEF UsersSound
      <3> QED  BY <2>1, <3>2 DEF Usable
    <2>4. ASSUME kind \in Guarded, ~refused
          PROVE  Left(n) \cap Guards(service, kind) # {}
      <3>1. PICK w \in Guards(service, kind) : Lists(list, w)
        BY <1>18, <2>3, <2>4 DEF Complete
      <3>2. IsCall(w)
        BY <1>19, <1>20, <3>1 DEF Guards, Looks
      <3> QED  BY <1>17, <2>4, <3>1, <3>2
    <2> QED  BY <1>14, <2>1, <2>4 DEF ShutSound
  <1>31. ASSUME ~refused  PROVE  DoneSound(n)'
    <2>1. \A w \in Left(n) : Gone(n, w)'
      BY DEF Gone
    <2>2. kind = "token" => "dropCode" \in Left(n)
      BY <1>17, <1>18, <1>19, <1>20, <1>31 DEF Complete
    <2>3. kind = "revoke" => DropOf(row.table) \in Left(n)
      <3>1. SUFFICES ASSUME kind = "revoke"
                     PROVE  DropOf(row.table) \in Left(n)
        OBVIOUS
      <3>2. row \in issued /\ row.table \in {"access", "refresh", "id"}
        BY <1>12, <3>1 DEF Names
      <3>3. Owned(service, row.table)
        <4>1. RowSound(row)
          BY <1>9, <3>2 DEF Identified, Known
        <4> QED  BY <3>2, <4>1 DEF RowSound, Class
      <3>4. /\ row.table = "access" => Lists(list, "dropAccess")
            /\ row.table = "refresh" => Lists(list, "dropRefresh")
            /\ row.table = "id" => Lists(list, "dropId")
        BY <1>18, <3>1, <3>3 DEF Complete, Owned
      <3> QED  BY <1>17, <1>19, <1>20, <1>31, <3>2, <3>4, DropOfFacts
    <2>4. kind = "refresh" => ("refresh" \in Left(n) <=> "dropRefresh" \in Left(n))
      BY <1>17, <1>18, <1>19, <1>20, <1>31 DEF Complete
    <2>5. kind = "revokeSession" => "endSession" \in Left(n)
      BY <1>17, <1>18, <1>19, <1>20, <1>31 DEF Complete
    <2>6. kind = "revoke" /\ row.table = "refresh" => row.family \in asked'
      BY <1>10
    <2>7. kind = "refresh" /\ Rotates(n) => "dropRefresh" \in Left(n)
      BY <1>14, <2>4 DEF Rotates
    <2> QED  BY <1>14, <2>1, <2>2, <2>3, <2>4, <2>5, <2>6, <2>7 DEF DoneSound
  <1>32. RequestsSound'
    <2>1. Sound(n)' /\ (n.late => LateSound(n)') /\ (n.shut => ShutSound(n)')
      BY <1>10, <1>14, <1>24, <1>28, <1>29, <1>30, SoundKept, LateKept, ShutKept
    <2>2. Meant(n)'
      BY <1>14, <1>31, <2>1 DEF Meant
    <2> QED  BY <1>9, <1>10, <1>21, <1>23, <1>24, <2>2, RequestsKept
  <1>33. KeptSound'
    <2>1. \A f : ~Rotating(req[p], f)
      BY <1>1, <1>10 DEF Rotating
    <2> QED  BY <1>9, <1>10, <1>22, <1>24, <2>1, RotationKept
  <1>34. \A q \in Busy : q \in Procs \ {p} /\ req'[q] = req[q]
    BY <1>1, <1>10, <1>21 DEF Busy
  <1>35. FamiliesSound'
    <2> SUFFICES ASSUME NEW f \in Nat \ (crossed' \cup {0})
                 PROVE  FamilySound(f)'
      BY DEF FamiliesSound
    <2>1. FamilySound(f) /\ f # 0
      BY <1>9, <1>22 DEF FamiliesSound
    <2>2. /\ RefreshTokens(f)' = RefreshTokens(f)
          /\ In({"code"})' = In({"code"}) /\ Known' \subseteq Known
      BY <1>10, <1>14, <1>21 DEF RefreshTokens, In, Known
    <2>3. row.family = f => \A q \in Procs \ {p} : ~InFamily(f, req[q])
      BY <1>10, <2>1 DEF Overlapping, InFamily, Busy
    <2>4. \A q1, q2 \in Procs :
            InFamily(f, req'[q1]) /\ InFamily(f, req'[q2]) => q1 = q2
      BY <1>14, <1>21, <2>1, <2>3 DEF FamilySound, InFamily
    <2>5. Single(f, n)'
      <3>1. SUFFICES ASSUME "refresh" \in Left(n)
                     PROVE  /\ kind = "token" => "findCode" \in Left(n)
                            /\ kind = "refresh" => /\ "findRefresh" \in Left(n)
                                                   /\ "dropRefresh" \in Left(n)
        BY <1>14 DEF Single
      <3>2. ~refused
        BY <1>17, <3>1 DEF Grave
      <3> QED  BY <1>17, <1>18, <1>19, <1>20, <3>1, <3>2 DEF Complete
    <2>6. ASSUME NEW q \in Procs, InFamily(f, req'[q])
          PROVE  Single(f, req[q])'
      <3>1. CASE q = p
        BY <1>21, <2>5, <3>1
      <3>2. CASE q # p
        <4>1. req'[q] = req[q] /\ Single(f, req[q])
          BY <1>21, <2>1, <2>6, <3>2 DEF FamilySound
        <4> QED  BY <2>2, <4>1 DEF Single
      <3> QED  BY <3>1, <3>2
    <2> QED  BY <2>1, <2>2, <2>4, <2>6 DEF FamilySound, InFamily
  <1>36. OrphansSound'
    <2> SUFFICES ASSUME service = "clerk", NEW u \in Users \ crossed'
                 PROVE  UserSound(u)'
      BY <1>10 DEF OrphansSound
    <2>1. UserSound(u)
      BY <1>9, <1>22 DEF OrphansSound
    <2>2. SessionsOf(u)' = SessionsOf(u)
      BY <1>10 DEF SessionsOf, In
    <2>3. row.user = u => \A q \in Procs \ {p} :
            OfUser(u, req[q]) => "delete" \notin {kind, req[q].kind}
      BY <1>10 DEF Overlapping, OfUser, Busy
    <2>4. \A q1, q2 \in Procs :
            OfUser(u, req'[q1]) /\ OfUser(u, req'[q2]) /\ req'[q1].kind = "delete"
              => q1 = q2
      BY <1>14, <1>21, <2>1, <2>3 DEF UserSound, OfUser
    <2>5. Watched(u, n)'
      <3>1. "session" \in Left(n) => "user" \in Left(n)
        <4>1. SUFFICES ASSUME "session" \in Left(n)
                       PROVE  "user" \in Left(n)
          OBVIOUS
        <4>2. ~refused /\ kind \in {"token", "createSession"}
          BY <1>11, <1>17, <4>1
          DEF Grave, WordsOf, Kinds, Names, Looks, Expiry, Statuses
        <4> QED  BY <1>17, <1>18, <1>19, <1>20, <4>1, <4>2 DEF Complete
      <3>2. "dropUser" \in Left(n) => "dropSessions" \in Left(n)
        <4>1. SUFFICES ASSUME "dropUser" \in Left(n)
                       PROVE  "dropSessions" \in Left(n)
          OBVIOUS
        <4>2. ~refused /\ kind = "delete"
          BY <1>11, <1>17, <4>1
          DEF Grave, WordsOf, Kinds, Names, Looks, Expiry, Statuses
        <4> QED  BY <1>17, <1>18, <1>19, <1>20, <4>1, <4>2 DEF Complete
      <3> QED  BY <3>1, <3>2 DEF Watched
    <2>6. ASSUME NEW q \in Procs, OfUser(u, req'[q])
          PROVE  Watched(u, req[q])'
      <3>1. CASE q = p
        BY <1>21, <2>5, <3>1
      <3>2. CASE q # p
        <4>1. req'[q] = req[q] /\ Watched(u, req[q])
          BY <1>21, <2>1, <2>6, <3>2 DEF UserSound
        <4> QED  BY <1>10, <2>2, <4>1 DEF Watched
      <3> QED  BY <3>1, <3>2
    <2> QED  BY <1>10, <2>1, <2>2, <2>4, <2>6 DEF UserSound, OfUser
  <1> QED
    BY <1>23, <1>25, <1>26, <1>27, <1>32, <1>33, <1>35, <1>36 DEF IInv

-----------------------------------------------------------------------------
(* The invariant.                                                          *)

(* Nothing is in flight when a service starts.                             *)
LEMMA Starts == Init => IInv
  <1> SUFFICES ASSUME Init  PROVE  IInv
    OBVIOUS
  <1>1. /\ service \in Services /\ rows = {} /\ stale = {} /\ nextId = 1
        /\ users = [u \in Users |-> "ACTIVE"] /\ req = [p \in Procs |-> Idle]
        /\ issued = {} /\ dead = {} /\ crossed = {} /\ asked = {}
    BY DEF Init
  <1>2. \A p \in Procs : req[p] = Idle
    BY <1>1
  <1>3. /\ Idle \in Requests /\ Idle.kind = "idle" /\ Idle.new = {}
        /\ Meant(Idle)
    BY IdleFacts, IdleMeant
  <1>4. TypeOK
    <2>1. req \in [Procs -> Requests]
      BY <1>1, <1>3
    <2>2. users \in [Users -> Statuses \cup {"gone"}]
      BY <1>1 DEF Statuses
    <2> QED  BY <1>1, <2>1, <2>2 DEF TypeOK, Requests
  <1>5. Known = {}
    BY <1>1, <1>2, <1>3 DEF Known
  <1>6. Identified
    BY <1>1, <1>2, <1>3, <1>5 DEF Identified
  <1>7. DeadSound /\ UsersSound /\ KeptSound
    BY <1>1 DEF DeadSound, UsersSound, KeptSound
  <1>8. RequestsSound
    BY <1>2, <1>3 DEF RequestsSound
  <1>9. FamiliesSound
    <2>1. \A f : \A p \in Procs : ~InFamily(f, req[p])
      BY <1>2, <1>3 DEF InFamily
    <2>2. \A f : RefreshTokens(f) = {}
      BY <1>1 DEF RefreshTokens, In
    <2> QED  BY <1>5, <2>1, <2>2 DEF FamiliesSound, FamilySound
  <1>10. OrphansSound
    <2>1. \A u : \A p \in Procs : ~OfUser(u, req[p])
      BY <1>2, <1>3 DEF OfUser
    <2>2. \A u : SessionsOf(u) = {}
      BY <1>1 DEF SessionsOf, In
    <2> QED  BY <2>1, <2>2 DEF OrphansSound, UserSound
  <1> QED  BY <1>4, <1>6, <1>7, <1>8, <1>9, <1>10 DEF IInv

(* Every step keeps IInv.                                                  *)
LEMMA Step ==
  ASSUME IInv, [Next]_vars
  PROVE  IInv'
  <1>1. CASE UNCHANGED vars
    BY <1>1, Stutter
  <1>2. ASSUME NEW p \in Procs, NEW kind \in DOMAIN Handlers[service],
               NEW row \in Named(kind),
               NEW fault \in DOMAIN Courses[service][kind],
               Begin(p, kind, row, fault)
        PROVE  IInv'
    BY <1>2, BeginStep, CourseFacts
  <1>3. ASSUME NEW p \in Procs,
               \/ Find(p) \/ FindUser(p) \/ FindFirst(p) \/ WithoutId(p)
               \/ Insert(p) \/ Drop(p) \/ EndSession(p) \/ DropSessions(p)
               \/ SetStatus(p) \/ DropUser(p) \/ Dispose(p) \/ Answer(p)
        PROVE  IInv'
    BY <1>3, FindStep, FindUserStep, FindFirstStep, WithoutIdStep, InsertStep,
       DropStep,
       EndSessionStep, DropSessionsStep, SetStatusStep, DropUserStep,
       DisposeStep, AnswerStep
  <1>4. ASSUME NEW row \in In({"code"}), Expire(row)
        PROVE  IInv'
    BY <1>4, ExpireStep
  <1> QED  BY <1>1, <1>2, <1>3, <1>4 DEF Next

(* Whatever requests are in flight, in any of the nine services and however*)
(* their calls interleave, IInv holds.                                     *)
THEOREM Invariant == Spec => []IInv
  BY Starts, Step, PTL DEF Spec

(* The variables keep their types.                                         *)
THEOREM TypeCorrect == Spec => []TypeOK
  <1>1. IInv => TypeOK
    BY DEF IInv
  <1> QED  BY <1>1, Invariant, PTL

(* A request that began after its code was exchanged or expired, its       *)
(* refresh token replaced, its token or its session revoked, is granted    *)
(* nothing on it.                                                          *)
THEOREM DeadIsRefused == Spec => []DeadStaysDead
  <1>1. IInv => DeadStaysDead
    <2> SUFFICES ASSUME IInv, NEW p \in Procs, Granting(p),
                        req[p].kind \in {"token", "refresh", "userinfo",
                                         "introspect", "sessionToken"},
                        req[p].late
                 PROVE  FALSE
      BY DEF DeadStaysDead
    <2>1. Left(req[p]) = {} /\ ~req[p].refused /\ LateSound(req[p])
      BY DEF IInv, RequestsSound, Meant, Granting, Left
    <2>2. req[p].kind \in DOMAIN Doubtful /\ Doubtful[req[p].kind] # {}
      BY DEF Doubtful
    <2> QED  BY <2>1, <2>2 DEF LateSound
  <1> QED  BY <1>1, Invariant, PTL

(* Nothing is granted in the name of a user who was gone, or for Okta not  *)
(* ACTIVE, all the while the request ran.                                  *)
THEOREM UnusableIsRefused == Spec => []UnusableRefused
  <1>1. IInv => UnusableRefused
    <2> SUFFICES ASSUME IInv, NEW p \in Procs, Granting(p),
                        req[p].kind \in {"authorize", "token", "refresh",
                                         "userinfo", "createSession",
                                         "sessionToken"},
                        req[p].shut
                 PROVE  FALSE
      BY DEF UnusableRefused
    <2>1. Left(req[p]) = {} /\ ~req[p].refused /\ ShutSound(req[p])
      BY DEF IInv, RequestsSound, Meant, Granting, Left
    <2> QED  BY <2>1 DEF ShutSound, Guarded
  <1> QED  BY <1>1, Invariant, PTL

(* Apple gives the user object to no authorization that began after it was *)
(* delivered.                                                              *)
THEOREM FirstIsFirst == Spec => []FirstAuthOnce
  <1>1. IInv => FirstAuthOnce
    BY DEF IInv, RequestsSound, Meant, Sound, LateSound, FirstAuthOnce
  <1> QED  BY <1>1, Invariant, PTL

(* Rotation leaves one refresh token at most of those that descend from a  *)
(* code, unless requests on them overlapped.                               *)
THEOREM OneRefreshToken == Spec => []OneLiveRefresh
  <1>1. IInv => OneLiveRefresh
    <2> SUFFICES ASSUME IInv, NEW f \in (1..Rows[service]) \ crossed
                 PROVE  Cardinality(RefreshTokens(f)) =< 1
      BY DEF OneLiveRefresh
    <2>1. f \in Nat \ (crossed \cup {0})
      <3>1. Rows[service] \in Nat
        BY BoundAssumption DEF IInv, TypeOK
      <3> QED  BY <3>1
    <2>2. \A x, y \in RefreshTokens(f) : x = y
      BY <2>1 DEF IInv, FamiliesSound, FamilySound
    <2>3. PICK T : T = RefreshTokens(f)
      OBVIOUS
    <2>4. CASE T = {}
      BY <2>3, <2>4, FS_EmptySet
    <2>5. CASE T # {}
      <3>1. PICK x \in T : T = {x}
        BY <2>2, <2>3, <2>5
      <3>2. Cardinality({x}) = 1
        BY FS_Singleton
      <3> QED  BY <2>3, <3>1, <3>2
    <2> QED  BY <2>4, <2>5
  <1> QED  BY <1>1, Invariant, PTL

(* A client that never asked to revoke its refresh token has a working one *)
(* whenever none of its requests is in flight.                             *)
THEOREM SessionStays == Spec => []SessionKept
  <1>1. IInv => SessionKept
    <2> SUFFICES ASSUME IInv, NEW x \in issued, x.table = "refresh",
                        x.family \notin asked, ~InFlight(x.family)
                 PROVE  RefreshTokens(x.family) # {}
      BY DEF SessionKept
    <2>1. \A p \in Procs : ~Rotating(req[p], x.family)
      BY DEF InFlight, Busy, Rotating
    <2> QED  BY <2>1 DEF IInv, KeptSound
  <1> QED  BY <1>1, Invariant, PTL

(* Clerk keeps no session of a user deleted while no other request for the *)
(* user was in flight.                                                     *)
THEOREM NoSessionLeft == Spec => []NoOrphanSession
  <1>1. IInv => NoOrphanSession
    <2> SUFFICES ASSUME IInv, NEW x \in In({"session"}),
                        users[x.user] = "gone", x.user \notin crossed
                 PROVE  FALSE
      BY DEF NoOrphanSession
    <2>1. TypeOK /\ Identified /\ OrphansSound
      BY DEF IInv
    <2>2. x \in Known /\ x.table = "session" /\ x.user \in Users
      BY <2>1, Types, RowFacts DEF In, Known
    <2>3. service = "clerk"
      BY <2>1, <2>2 DEF Identified, RowSound, Owned, Class
    <2>4. UserSound(x.user)
      BY <2>1, <2>2, <2>3 DEF OrphansSound
    <2> QED  BY <2>4 DEF UserSound, SessionsOf
  <1> QED  BY <1>1, Invariant, PTL
===============================================================================
