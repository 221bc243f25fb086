----------------------------- MODULE OAuthHandlers -----------------------------
(***************************************************************************)
(* The handlers of the emulated OAuth servers, each as the list of what it *)
(* does, in the order of its code.  A word in Checks compares the request  *)
(* with what the handler has read so far, and a request that fails it is   *)
(* refused there; a word in Burns also deletes the code when it fails.     *)
(* Every other word is one call on the store:                              *)
(*                                                                         *)
(*   findT             reads the row the request names in table T          *)
(*   T                 inserts a row into table T                          *)
(*   dropT             deletes the row the request names from table T      *)
(*   user, active      reads the user, who must exist, or be ACTIVE        *)
(*   unexpired         an expired code is deleted and the request refused; *)
(*   unexpiredKeep     refused without deleting it                         *)
(*   a status          writes the status into the user's record            *)
(*   dispose           reads the user and does what its status asks for    *)
(*   dropUser, dropSessions, endSession, activeSession, findFirst          *)
(*                     see OAuth                                           *)
(*                                                                         *)
(* Pages that only render, signing, scopes beyond the subset check, the    *)
(* hour after which Okta refuses an access token, and group and application*)
(* assignments are left out.                                               *)
(***************************************************************************)
EXTENDS Sequences

Tables == {"code", "access", "refresh", "id", "session", "ended", "first"}
Statuses == {"ACTIVE", "PROVISIONED", "SUSPENDED", "DEPROVISIONED"}

Checks == {"credentials", "server", "client", "redirect", "verifier", "scope"}
Burns == [clientBurns |-> "client", redirectBurns |-> "redirect"]

-----------------------------------------------------------------------------
(* Authorization: the user was picked on the page, the code is handed out. *)
(* "client" is an unknown client or a redirect URI it has not registered,  *)
(* "redirect" a redirect URI that cannot be parsed.                        *)

GoogleAuthorize == <<"user", "client", "code", "redirect">>
MicrosoftAuthorize == <<"user", "client", "code", "redirect">>
OktaAuthorize == <<"active", "client", "code", "redirect">>
AppleAuthorizeAlways == <<"user", "client", "code", "first", "redirect">>
AppleAuthorize == <<"user", "client", "code", "findFirst", "first", "redirect">>
ClerkAuthorize == <<"user", "client", "redirect", "code">>
GitHubAuthorize == <<"user", "client", "redirect", "code">>
SlackAuthorize == <<"user", "client", "redirect", "code">>
DiscordAuthorize == <<"client", "user", "redirect", "code">>
VercelAuthorize == <<"client", "redirect", "code">>

-----------------------------------------------------------------------------
(* Exchange of a code for tokens.  The row read first is used to the end;  *)
(* whether the deletion found it is not looked at.                         *)

GoogleToken == <<"credentials", "findCode", "unexpired", "redirect", "client",
                 "verifier", "user", "dropCode", "access", "refresh", "id">>
MicrosoftToken == <<"credentials", "findCode", "unexpired", "client",
                    "redirectBurns", "verifier", "dropCode", "user", "access",
                    "refresh">>
OktaTokenUnchecked ==
  <<"credentials", "findCode", "server", "unexpired", "redirect", "client",
    "verifier", "user", "dropCode", "access", "refresh">>
OktaToken == <<"credentials", "findCode", "server", "unexpired", "redirect",
               "client", "verifier", "active", "dropCode", "access", "refresh">>
AppleToken == <<"findCode", "unexpired", "client", "redirect", "verifier",
                "dropCode", "user", "refresh">>
ClerkToken == <<"findCode", "unexpired", "redirect", "client", "credentials",
                "verifier", "user", "dropCode", "session", "access">>
GitHubToken == <<"credentials", "findCode", "unexpiredKeep", "client",
                 "redirect", "dropCode", "user", "access">>
SlackToken == <<"credentials", "findCode", "unexpired", "client", "redirect",
                "dropCode", "user", "access">>
DiscordTokenKept == <<"credentials", "findCode", "unexpired", "client",
                      "redirect", "user", "access">>
DiscordToken == <<"credentials", "findCode", "unexpired", "client", "redirect",
                  "dropCode", "user", "access">>
VercelToken == <<"credentials", "findCode", "unexpired", "clientBurns",
                 "redirectBurns", "verifier", "user", "dropCode", "access">>

-----------------------------------------------------------------------------
(* Refresh.  Microsoft and Okta replace the refresh token, Google keeps it *)
(* and Apple stores nothing.                                               *)

GoogleRefresh == <<"credentials", "findRefresh", "client", "access">>
MicrosoftRefreshKept == <<"credentials", "findRefresh", "client", "user",
                          "access", "refresh">>
MicrosoftRefresh == <<"credentials", "findRefresh", "client", "user",
                      "dropRefresh", "access", "refresh">>
OktaRefreshLate == <<"credentials", "findRefresh", "server", "client",
                     "scope", "dropRefresh", "active", "access", "refresh">>
OktaRefresh == <<"credentials", "findRefresh", "server", "client", "active",
                 "scope", "dropRefresh", "access", "refresh">>
AppleRefresh == <<"findRefresh", "user">>

GoogleRevoke == <<"dropAccess", "dropRefresh", "dropId">>
MicrosoftRevoke == <<"dropAccess", "dropRefresh">>
OktaRevoke == <<"dropAccess", "dropRefresh">>
AppleRevoke == <<"dropRefresh">>

-----------------------------------------------------------------------------
(* Requests that an access token, or any token, authenticates.             *)

GoogleUserinfo == <<"findAccess", "user">>
MicrosoftUserinfo == <<"findAccess", "user">>
OktaUserinfo == <<"findAccess", "user">>
OktaIntrospect == <<"credentials", "findToken">>
ClerkUserinfo == <<"findAccess", "user">>

(* Clerk's sessions.                                                       *)
ClerkCreateSession == <<"user", "session">>
ClerkSessionTokenAny == <<"findSession", "user">>
ClerkSessionToken == <<"activeSession", "user">>
ClerkRevokeSession == <<"findSession", "endSession">>

(* What is done to users.  Only Okta and Clerk let a client do it.  Okta's *)
(* lifecycle calls look the user up first, but the update itself finds out *)
(* whether the user is still there.                                        *)
OktaActivate == <<"ACTIVE">>
OktaReactivate == <<"PROVISIONED">>
OktaSuspend == <<"SUSPENDED">>
OktaDeactivate == <<"DEPROVISIONED">>
OktaDelete == <<"dispose">>
ClerkDeleteUserOnly == <<"user", "dropUser">>
ClerkDelete == <<"user", "dropSessions", "dropUser">>

-----------------------------------------------------------------------------
Handlers ==
  [google |->
     [authorize |-> GoogleAuthorize, token |-> GoogleToken,
      refresh |-> GoogleRefresh, revoke |-> GoogleRevoke,
      userinfo |-> GoogleUserinfo],
   microsoft |->
     [authorize |-> MicrosoftAuthorize, token |-> MicrosoftToken,
      refresh |-> MicrosoftRefresh, revoke |-> MicrosoftRevoke,
      userinfo |-> MicrosoftUserinfo],
   okta |->
     [authorize |-> OktaAuthorize, token |-> OktaToken,
      refresh |-> OktaRefresh, revoke |-> OktaRevoke,
      userinfo |-> OktaUserinfo, introspect |-> OktaIntrospect,
      activate |-> OktaActivate, reactivate |-> OktaReactivate,
      suspend |-> OktaSuspend, deactivate |-> OktaDeactivate, delete |-> OktaDelete],
   apple |->
     [authorize |-> AppleAuthorize, token |-> AppleToken,
      refresh |-> AppleRefresh, revoke |-> AppleRevoke],
   clerk |->
     [authorize |-> ClerkAuthorize, token |-> ClerkToken,
      userinfo |-> ClerkUserinfo, createSession |-> ClerkCreateSession,
      sessionToken |-> ClerkSessionToken,
      revokeSession |-> ClerkRevokeSession, delete |-> ClerkDelete],
   github |-> [authorize |-> GitHubAuthorize, token |-> GitHubToken],
   slack |-> [authorize |-> SlackAuthorize, token |-> SlackToken],
   discord |-> [authorize |-> DiscordAuthorize, token |-> DiscordToken],
   vercel |-> [authorize |-> VercelAuthorize, token |-> VercelToken]]

(* What the request of each kind names: a token or session from one of     *)
(* these tables, or, where there is none, a user.  Introspection reads     *)
(* access tokens as userinfo does.                                         *)
Names ==
  [authorize |-> {}, token |-> {"code"}, refresh |-> {"refresh"},
   revoke |-> {"access", "refresh", "id"}, userinfo |-> {"access"},
   introspect |-> {"refresh"}, createSession |-> {},
   sessionToken |-> {"session"}, revokeSession |-> {"session"},
   activate |-> {}, reactivate |-> {}, suspend |-> {}, deactivate |-> {},
   delete |-> {}]
Kinds == DOMAIN Names
=============================================================================
