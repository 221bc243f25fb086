----------------------------- MODULE DiscordService -----------------------------
(***************************************************************************)
(* internal/services/discord: guilds with their channels, roles, webhooks  *)
(* and commands, and messages.  A name stands for a row as its id does, so *)
(* lookups take ids; a reaction is that of one user with one emoji.  The   *)
(* OAuth server is in OAuth.                                               *)
(***************************************************************************)
EXTENDS StoreCalls

authenticatedUser == Look("user")
findGuild == Find("guild", "g")
findChannel == Find("channel", "c")
findMessage == FindBy("m", "message", [id |-> "m", channel |-> "c"])
findUser == Find("user", "u")
findRole == FindBy("r", "role", [id |-> "r", guild |-> "g"])
findWebhook == Find("webhook", "w")
channelMessage == <<findChannel, findMessage>>

OfGuild(args, calls) ==
  Handler([g |-> "guild"] @@ args, <<authenticatedUser, findGuild>> \o calls)
OfChannel(calls) ==
  Handler([c |-> "channel"], <<authenticatedUser, findChannel>> \o calls)
OfMessage(calls) ==
  Handler([c |-> "channel", m |-> "message"],
          <<authenticatedUser>> \o channelMessage \o calls)

-----------------------------------------------------------------------------
(* Guilds.                                                                 *)
roleRecord == Add("r", "role", [guild |-> "g"])
channelRecord == Add("c", "channel", [guild |-> "g"])
GetGateway == Handler(None, <<>>)
GetGatewayBot == Handler(None, <<authenticatedUser>>)
CurrentUser == Handler(None, <<authenticatedUser>>)
CurrentUserGuilds == Handler(None, <<authenticatedUser, Look("guild")>>)
CurrentApplication == Handler(None, <<authenticatedUser, Look("application")>>)
NewGuild(key) == Add("g", "guild", [key |-> key])
CreateGuild == Handler(None, <<authenticatedUser, NewGuild("g"), roleRecord>>)
GetGuild == OfGuild(None, <<>>)
UpdateGuild == OfGuild(None, <<Patch("g")>>)
GuildChannels == OfGuild(None, <<Look("channel")>>)
GuildMembers == OfGuild(None, <<Look("user"), Look("memberRole")>>)
GuildMember == OfGuild([u |-> "user"], <<findUser, Look("memberRole")>>)
DeleteGuild ==
  LET tables == <<"message", "channel", "role", "memberRole", "webhook", "command">>
  IN  OfGuild(None, [k \in DOMAIN tables |-> DropAll(tables[k], [guild |-> "g"])]
                    \o <<Drop("g")>>)

-----------------------------------------------------------------------------
(* Channels, their messages and webhooks.                                  *)
CreateGuildChannel == OfGuild(None, <<channelRecord>>)
GetChannel == OfChannel(<<>>)
Typing == OfChannel(<<>>)
UpdateChannel == OfChannel(<<Patch("c")>>)
DeletingChannel(messages) ==
  OfChannel(<<DropAll("message", messages),
              DropAll("webhook", [channel |-> "c"]), Drop("c")>>)
DeleteChannelAndMore == DeletingChannel(None)
DeleteChannel == DeletingChannel([channel |-> "c"])

Insert(webhook) ==
  <<Add("m", "message", [channel |-> "c", guild |-> "guild", webhook |-> webhook,
                         liked |-> "NO"]),
    Patch("c")>>
ListMessages == OfChannel(<<Look("message")>>)
ListPins == OfChannel(<<Look("message")>>)
CreateMessage ==
  Handler([c |-> "channel"],
          <<authenticatedUser, Reading(findChannel, "guild")>> \o Insert("NONE"))
GetMessage == OfMessage(<<>>)
UpdateMessage == OfMessage(<<Patch("m")>>)
PinMessage == OfMessage(<<Patch("m")>>)
UnpinMessage == OfMessage(<<Patch("m")>>)
DeleteMessage == OfMessage(<<Drop("m")>>)
BulkDeleteMessages ==
  Handler([c |-> "channel", m |-> "message", n |-> "message"],
    LET Delete(x) == IfAny(x, "message", [id |-> x, channel |-> "c"], <<Drop(x)>>)
    IN  <<authenticatedUser, findChannel, Delete("m"), Delete("n")>>)

addReaction == Set("m", [liked |-> "YES"])
removeReactionUser == Set("m", [liked |-> "NO"])
clearReaction == Set("m", [liked |-> "NO"])
AddOwnReaction == OfMessage(<<addReaction>>)
RemoveOwnReaction == OfMessage(<<removeReactionUser>>)
RemoveUserReaction == OfMessage(<<removeReactionUser>>)
ClearReaction == OfMessage(<<clearReaction>>)
ClearReactions == OfMessage(<<Set("m", [liked |-> "NO"])>>)
ListReactionUsers == OfMessage(<<Look("user")>>)

requestWebhook(args, calls) ==
  Handler([w |-> "webhook"] @@ args, <<authenticatedUser, findWebhook>> \o calls)
NewWebhook(token) ==
  Add("w", "webhook", [channel |-> "c", guild |-> "guild", token |-> token])
ListChannelWebhooks == OfChannel(<<Look("webhook")>>)
CreateChannelWebhook ==
  Handler([c |-> "channel"],
          <<authenticatedUser, Reading(findChannel, "guild"), NewWebhook("w")>>)
GetWebhook == requestWebhook(None, <<>>)
UpdateWebhookHalf ==
  requestWebhook([c |-> "channel"], <<findChannel, Set("w", [channel |-> "c"])>>)
UpdateWebhook ==
  requestWebhook([c |-> "channel"],
    <<Reading(IfAny("c", "channel", [id |-> "c"],
                    <<Set("w", [channel |-> "c", guild |-> "guild"])>>), "guild")>>)
DeleteWebhook == requestWebhook(None, <<Drop("w")>>)
ExecuteWebhook ==
  Handler([w |-> "webhook"],
    <<Reading(findWebhook, "channel"),
      Reading(FindBy("c", "channel", [id |-> "channel"]), "guild")>>
    \o Insert("w"))
webhookMessage(calls) ==
  Handler([w |-> "webhook", m |-> "message"],
    <<Reading(findWebhook, "channel"),
      FindBy("m", "message", [id |-> "m", channel |-> "channel", webhook |-> "w"])>>
    \o calls)
GetWebhookMessage == webhookMessage(<<>>)
UpdateWebhookMessage == webhookMessage(<<Patch("m")>>)
DeleteWebhookMessage == webhookMessage(<<Drop("m")>>)

(* A simulated interaction makes a webhook with the token of the interaction: *)
(* the client names it, and may name one again.                            *)
interactionApplication == Look("application")
interactionChannel == Reading(Seek("c", "channel", None, <<>>, <<Refuse>>), "guild")
interactionUser == Look("user")
ensureInteractionWebhook ==
  Seek("w", "webhook", [token |-> "n"], <<>>, <<NewWebhook("n")>>)
EmulateDiscordApplication ==
  Handler(None, <<Look("application"), Look("channel"), Look("guild"),
                  Look("user")>>)
EmulateDiscordInteraction ==
  Handler([n |-> "name"],
    <<interactionApplication, interactionChannel, interactionUser,
      ensureInteractionWebhook>>)

-----------------------------------------------------------------------------
(* Roles and those who have them.                                          *)
HasRole(role) == [guild |-> "g", user |-> "u", role |-> role]
addMemberRole == Ensure("k", "memberRole", HasRole("r"), HasRole("r"))
removeMemberRole == DropAll("memberRole", HasRole("r"))
ListGuildRoles == OfGuild(None, <<Look("role")>>)
CreateGuildRole == OfGuild(None, <<roleRecord>>)
OfRole(args, calls) ==
  Handler([g |-> "guild", r |-> "role"] @@ args, <<authenticatedUser>> \o calls)
UpdateGuildRole == OfRole(None, <<findRole, Patch("r")>>)
DeleteGuildRole ==
  OfRole(None, <<findRole, DropAll("memberRole", [role |-> "r"]), Drop("r")>>)
Member == [u |-> "user"]
AddGuildMemberRole ==
  OfRole(Member, <<findGuild, findUser, findRole, addMemberRole>>)
RemoveGuildMemberRole == OfRole(Member, <<removeMemberRole>>)
UpdateGuildMember ==
  OfRole(Member,
    <<findGuild, findUser, DropAll("memberRole", [guild |-> "g", user |-> "u"]),
      addMemberRole>>)

-----------------------------------------------------------------------------
(* Commands of an application, of a guild or of none.                      *)
insertApplicationCommand(guild, name) ==
  Add("k", "command", [guild |-> guild, name |-> name])
findApplicationCommand == FindBy("k", "command", [id |-> "k", guild |-> "g"])
Command(calls) ==
  Handler([g |-> "guild", k |-> "command"],
          <<authenticatedUser, findApplicationCommand>> \o calls)
ListApplicationCommands == Handler(None, <<authenticatedUser, Look("command")>>)
CreateApplicationCommand ==
  Handler([g |-> "guild"],
          <<authenticatedUser, insertApplicationCommand("g", "one")>>) \o
  Handler(None, <<authenticatedUser, insertApplicationCommand("NONE", "one")>>)
BulkOverwriteApplicationCommands ==
  Handler([g |-> "guild"],
    <<authenticatedUser, DropAll("command", [guild |-> "g"]),
      insertApplicationCommand("g", "one"), insertApplicationCommand("g", "two")>>)
GetApplicationCommand == Command(<<>>)
UpdateApplicationCommand == Command(<<Patch("k")>>)
DeleteApplicationCommand == Command(<<Drop("k")>>)

-----------------------------------------------------------------------------
(* Seeds, and the parts of the service.                                    *)
Inspector == Handler(None, <<Look("channel"), Look("message"), Look("guild")>>)
AddUser(bot) == Add("u", "user", [bot |-> bot])
SeedDefaults ==
  <<Seek("g", "guild", [key |-> "G1"], <<>>,
      <<Look("application"), NewGuild("G1"),
        AddUser("YES"), AddUser("NO"), channelRecord, channelRecord, roleRecord,
        roleRecord, addMemberRole>>)>>
SeedFromConfig ==
  <<Seek("g", "guild", [key |-> "G2"], <<Patch("g")>>,
         <<NewGuild("G2")>>),
    Seek("u", "user", [bot |-> "YES"], <<Patch("u")>>, <<AddUser("YES")>>),
    AddUser("NO"), channelRecord>>

Channel2 == <<NewGuild("G1"), channelRecord, NewGuild("G2"), channelRecord>>
InGuild == [guild |-> Id("guild")]
InChannel == InGuild @@ [channel |-> Id("channel")]
SameGuild(t) == [table |-> t, of |-> "channel", by |-> [id |-> "channel"],
                 fields |-> {"guild"}]
Channels ==
  Part({"guild", "channel", "message"},
    CreateGuild \o GetGuild \o UpdateGuild \o DeleteGuild \o GuildChannels
      \o CreateGuildChannel \o GetChannel \o Typing \o UpdateChannel
      \o DeleteChannel \o ListMessages \o ListPins \o CreateMessage
      \o GetMessage \o UpdateMessage \o PinMessage \o UnpinMessage
      \o DeleteMessage \o BulkDeleteMessages \o AddOwnReaction
      \o RemoveOwnReaction \o RemoveUserReaction \o ClearReaction
      \o ClearReactions \o ListReactionUsers,
    [config |-> <<NewGuild("G1"), channelRecord>>,
     parents |-> [channel |-> InGuild, message |-> InChannel],
     copies |-> {SameGuild("message")}, requests |-> 3])
Webhooks ==
  Part({"guild", "channel", "message", "webhook"},
    DeleteGuild \o DeleteChannel \o ListChannelWebhooks \o CreateChannelWebhook
      \o GetWebhook \o UpdateWebhook \o DeleteWebhook \o ExecuteWebhook
      \o GetWebhookMessage \o UpdateWebhookMessage \o DeleteWebhookMessage
      \o EmulateDiscordApplication \o EmulateDiscordInteraction,
    [config |-> Channel2 \o <<Add("w", "webhook", [channel |-> "c", guild |-> "g",
                                                   token |-> "NONE"])>>,
     parents |-> [channel |-> InGuild, webhook |-> InChannel, message |-> InChannel],
     copies |-> {SameGuild("webhook"), SameGuild("message")},
     unique |-> [webhook |-> {"token"}], words |-> [name |-> {"t1"}],
     requests |-> 3])
Roles ==
  Part({"guild", "user", "role", "memberRole"},
    DeleteGuild \o ListGuildRoles \o CreateGuildRole \o UpdateGuildRole
      \o DeleteGuildRole \o AddGuildMemberRole \o RemoveGuildMemberRole
      \o GuildMembers \o GuildMember,
    [config |-> <<AddUser("NO"), NewGuild("G1"), roleRecord>>,
     parents |-> [role |-> InGuild,
                  memberRole |-> InGuild @@ [role |-> Id("role")]],
     unique |-> [memberRole |-> {"guild", "user", "role"}]])
Members ==
  Part({"guild", "user", "role", "memberRole"},
    UpdateGuildMember \o RemoveGuildMemberRole \o DeleteGuildRole,
    [config |-> <<AddUser("NO"), NewGuild("G1"), roleRecord, roleRecord>>,
     parents |-> [role |-> InGuild, memberRole |-> InGuild]])
Commands ==
  Part({"guild", "application", "command", "user"},
    DeleteGuild \o ListApplicationCommands \o CreateApplicationCommand
      \o BulkOverwriteApplicationCommands \o GetApplicationCommand
      \o UpdateApplicationCommand \o DeleteApplicationCommand,
    [config |-> <<NewGuild("G1")>>, parents |-> [command |-> InGuild]])
Workspace ==
  Part({"guild", "user", "channel", "role", "memberRole"},
    GetGateway \o GetGatewayBot \o CurrentUser \o CurrentUserGuilds
      \o CurrentApplication \o GuildMembers \o GuildMember \o Inspector,
    [defaults |-> SeedDefaults, config |-> SeedFromConfig,
     parents |-> [channel |-> InGuild, role |-> InGuild, memberRole |-> InGuild],
     unique |-> [guild |-> {"key"}]])
================================================================================
