------------------------------ MODULE SlackService ------------------------------
(***************************************************************************)
(* internal/services/slack: channels, their members and messages, and the  *)
(* incoming webhooks.  The ts of a message is its id here, and a reaction  *)
(* is that of one user with one emoji.  The OAuth server is in OAuth.      *)
(***************************************************************************)
EXTENDS StoreCalls

authenticatedUser == Look("user")

(* findChannel takes an id or a name.                                      *)
findChannel(args, calls) ==
  Handler(args @@ [c |-> "channel"],
          <<authenticatedUser, Find("channel", "c")>> \o calls) \o
  Handler(args @@ [n |-> "name"],
          <<authenticatedUser, FindBy("c", "channel", [name |-> "n"])>> \o calls)
findMessage(calls) ==
  Handler([m |-> "message", c |-> "channel"],
          <<authenticatedUser,
            FindBy("m", "message", [id |-> "m", channel |-> "c"])>>
          \o calls)

-----------------------------------------------------------------------------
(* Messages.  The first of a thread keeps how many replies it has.         *)
insertMessage(thread) ==
  <<Add("new", "message", [channel |-> "c", thread |-> thread,
                           replies |-> "zero", liked |-> "NO"])>>
incrementThreadReply ==
  <<IfAny("p", "message", [id |-> "t", channel |-> "c"],
          <<Incr("p", "replies", 1)>>)>>
refreshThreadReplyMetadata ==
  <<IfAny("p", "message", [id |-> "thread", channel |-> "c"],
      <<Tally("k", "message", [channel |-> "c", thread |-> "thread"]),
        Set("p", [replies |-> "k"])>>)>>

ChatPostMessage ==
  findChannel(None, insertMessage("NONE")) \o
  findChannel([t |-> "message"], insertMessage("t") \o incrementThreadReply)
ChatMeMessage == findChannel(None, insertMessage("NONE"))
ChatUpdate == findMessage(<<Patch("m")>>)
ChatDelete ==
  Handler([m |-> "message", c |-> "channel"],
    <<authenticatedUser,
      Reading(FindBy("m", "message", [id |-> "m", channel |-> "c"]), "thread"),
      Drop("m"), If("thread", {"NONE"}, <<>>, refreshThreadReplyMetadata)>>)

ReactionsAdd == findMessage(<<Swap("m", [liked |-> "NO"], [liked |-> "YES"])>>)
ReactionsRemove == findMessage(<<Swap("m", [liked |-> "YES"], [liked |-> "NO"])>>)
ReactionsGet == findMessage(<<>>)

IncomingWebhook ==
  LET Post(args, find, calls) ==
        Handler(args @@ [w |-> "webhook"],
                <<Reading(Find("webhook", "w"), "channel"), find>> \o calls)
      default == Seek("c", "channel", [name |-> "channel"], <<>>,
                      <<FindBy("c", "channel", [name |-> "general"])>>)
      named == Seek("c", "channel", [name |-> "n"], <<>>, <<default>>)
  IN  Post(None, default, insertMessage("NONE")) \o
      Post([n |-> "name"], named, insertMessage("NONE")) \o
      Post([t |-> "message"], default, insertMessage("t") \o incrementThreadReply)

-----------------------------------------------------------------------------
(* Conversations.  A channel keeps its members, here ann and bob, as it was*)
(* read by the request that changes one of them.                           *)
ReadingMembers == ReadingAll(Find("channel", "c"), {"ann", "bob"})
Conversation(calls) == Handler([c |-> "channel"], <<authenticatedUser>> \o calls)
ConversationsJoin ==
  Conversation(<<ReadingMembers,
    If("ann", {"NO"}, <<Set("c", [ann |-> "YES", bob |-> "bob"])>>, <<>>)>>) \o
  Conversation(<<ReadingMembers,
    If("bob", {"NO"}, <<Set("c", [ann |-> "ann", bob |-> "YES"])>>, <<>>)>>)
ConversationsLeave ==
  Conversation(<<ReadingMembers, Set("c", [ann |-> "NO", bob |-> "bob"])>>)
ConversationsMembers == Conversation(<<Find("channel", "c")>>)
ConversationsInfo == Conversation(<<Find("channel", "c")>>)
ConversationsHistory == Conversation(<<Find("channel", "c"), Look("message")>>)
ConversationsReplies == Conversation(<<Look("message")>>)
ConversationsList == Reads("channel")

channelRecord(name) ==
  Add("c", "channel", [name |-> name, ann |-> "YES", bob |-> "NO"])
ConversationsCreate ==
  Handler([n |-> "name"],
    <<authenticatedUser, Free("channel", [name |-> "n"]), Look("team"),
      channelRecord("n")>>)

-----------------------------------------------------------------------------
(* The workspace, its users and bots.                                      *)
AuthTest == Handler(None, <<authenticatedUser, Look("team")>>)
TeamInfo == Handler(None, <<authenticatedUser, Look("team")>>)
BotInfo == Handler([b |-> "bot"], <<authenticatedUser, Find("bot", "b")>>)
UsersList == Handler(None, <<authenticatedUser, Look("user")>>)
UsersInfo == Handler([u |-> "user"], <<authenticatedUser, Find("user", "u")>>)
UsersLookupByEmail ==
  Handler([u |-> "user"], <<authenticatedUser, Find("user", "u")>>)
Inspector ==
  Handler(None, <<Look("channel"), Look("user"), Look("bot"), Look("message")>>)

SeedDefaults ==
  <<Seek("t", "team", [team |-> "T1"], <<>>,
      <<Add("t", "team", [team |-> "T1"]), Add("u", "user", [name |-> "admin"]),
        channelRecord("general"), channelRecord("random"),
        Add("b", "bot", [name |-> "slackbot"]),
        Add("w", "webhook", [channel |-> "general"])>>)>>
SeedFromConfig ==
  <<IfAny("t", "team", None, <<Patch("t")>>),
    Ensure("u", "user", [name |-> "ann"], [name |-> "ann"]),
    Seek("c", "channel", [name |-> "dev"], <<>>, <<channelRecord("dev")>>),
    Ensure("b", "bot", [name |-> "helper"], [name |-> "helper"]),
    Add("w", "webhook", [channel |-> "dev"])>>
-----------------------------------------------------------------------------
(* The parts of the service.  A channel is named by nothing it holds.      *)
Messages ==
  Part({"channel", "message"},
    ChatPostMessage \o ChatMeMessage \o ChatUpdate \o ChatDelete
      \o ReactionsAdd \o ReactionsRemove \o ReactionsGet
      \o ConversationsHistory,
    [config |-> <<channelRecord("general"), channelRecord("dev")>>,
     parents |-> [message |-> [thread |-> Id("message")]], outlive |-> {"thread"},
     locked |-> {"replies"},
     counts |-> {[table |-> "message", field |-> "replies", of |-> "message",
                  by |-> [thread |-> "id", channel |-> "channel"],
                  where |-> None]},
     words |-> [name |-> {"dev"}], requests |-> 3])
Workspace ==
  Part({"team", "user", "channel", "bot", "webhook", "message"},
    ConversationsJoin \o ConversationsLeave \o ConversationsMembers
      \o ConversationsInfo \o ConversationsList \o ConversationsReplies
      \o ConversationsCreate \o IncomingWebhook
      \o AuthTest \o TeamInfo \o BotInfo \o UsersList \o UsersInfo
      \o UsersLookupByEmail \o Inspector,
    [defaults |-> SeedDefaults, config |-> SeedFromConfig,
     parents |-> [message |-> [channel |-> Id("channel")]],
     unique |-> [team |-> {"team"}, channel |-> {"name"}, user |-> {"name"},
                 bot |-> {"name"}],
     words |-> [name |-> {"dev", "ops"}]])
=============================================================================
