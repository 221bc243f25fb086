---------------------------- MODULE GoogleService ----------------------------
(***************************************************************************)
(* internal/services/google: the mail, calendars and files of a user.  Of  *)
(* the labels of a message the model keeps DRAFT (zero or one: what its    *)
(* drafts are counted by) and one of the user's own, its tag.  The history *)
(* of changes is in GmailHistory, the OAuth server in OAuth.               *)
(***************************************************************************)
EXTENDS StoreCalls

authenticatedGmailUser == Look("user")
ReadMessage(seek) == ReadingAll(seek, {"key", "draft", "tag", "thread"})
getMessageByID(m) == ReadMessage(Find("message", m))
OfUser(args, calls) == Handler(args, <<authenticatedGmailUser>> \o calls)

-----------------------------------------------------------------------------
(* Labels.  One system label stands for those that every user has.         *)
ensureSystemLabels ==
  <<Ensure("s", "label", [kind |-> "SYSTEM"],
           [key |-> "s", name |-> "DRAFT", kind |-> "SYSTEM"])>>
NewLabel(key, name) ==
  Add("l", "label", [key |-> key, name |-> name, kind |-> "USER"])
createLabelRecord(key, name) == ensureSystemLabels \o <<NewLabel(key, name)>>
ensureCustomLabel(key) ==
  <<IfNone("label", [key |-> key],
           ensureSystemLabels \o <<Unsought(NewLabel(key, key))>>)>>
findLabelByID == ReadingAll(Find("label", "l"), {"kind", "name"})
validateMutationLabelIDs ==
  ensureSystemLabels \o <<ReadingAs(Find("label", "l"), "label", "key")>>

-----------------------------------------------------------------------------
(* Messages and their drafts.  What is written of the labels of a message  *)
(* was read before, as draft and tag; k is its key.                        *)
syncDraftState(k, draft) ==
  LET keep == <<KeepOne("d", "draft", [message |-> k],
                        <<Add("d", "draft", [message |-> k])>>)>>
      none == <<DropAll("draft", [message |-> k])>>
  IN  CASE draft = "one" -> keep
        [] draft = "zero" -> none
        [] OTHER -> <<If(draft, {"one"}, keep, none)>>
updateMessageLabels(k, draft, tag) ==
  <<SetThen("m", [draft |-> draft, tag |-> tag],
            <<Look("history")>> \o syncDraftState(k, draft), <<>>)>>

deleteMessage ==
  <<Look("history"), Drop("m"), DropAll("draft", [message |-> "key"]),
    DropAll("attachment", [message |-> "key"])>>
replaceMessageAttachments ==
  <<DropAll("attachment", [message |-> "key"]),
    Add("a", "attachment", [message |-> "key"])>>

applyFilters(k, draft) ==
  <<ReadingAs(Each("f", "filter", [from |-> "from"],
                   updateMessageLabels(k, draft, "add")), "add", "add")>>
createStoredMessage(k, draft, tag, thread) ==
  <<Look("message"),
    Add("m", "message", [key |-> k, draft |-> draft, tag |-> tag,
                         thread |-> thread]),
    Look("history")>>
  \o applyFilters(k, draft) \o syncDraftState(k, draft)

(* A message with an attachment is inserted after it, under the key that   *)
(* the attachment has already.                                             *)
Attached(draft) ==
  <<Add("a", "attachment", [message |-> "a"])>>
    \o createStoredMessage("a", draft, "NONE", "a")
resolveThreadID(draft) ==
  <<ReadingAs(Seek("r", "message", [id |-> "r"],
                   createStoredMessage("m", draft, "NONE", "thread"),
                   createStoredMessage("m", draft, "NONE", "m")),
              "thread", "thread")>>
createMessageFromRequest(draft) ==
  OfUser(None, ensureSystemLabels \o Attached(draft)) \o
  OfUser([t |-> "thread"],
         ensureSystemLabels \o createStoredMessage("m", draft, "NONE", "t")) \o
  OfUser([r |-> "message"], ensureSystemLabels \o resolveThreadID(draft)) \o
  OfUser([l |-> "label", from |-> "name"],
         validateMutationLabelIDs \o ensureCustomLabel("label")
           \o createStoredMessage("m", draft, "label", "m"))
ImportMessage == createMessageFromRequest("zero")
SendMessage == createMessageFromRequest("zero")
InsertMessage == createMessageFromRequest("one")
CreateDraft ==
  OfUser(None, ensureSystemLabels \o Attached("one")
                 \o syncDraftState("a", "one"))

(* Labels are added to, and taken from, one message, those of a list or    *)
(* those of a thread.                                                      *)
OneMessage(calls) == <<getMessageByID("m")>> \o calls
Batch(calls) ==
  <<ReadMessage(IfAny("m", "message", [id |-> "m"], calls)),
    ReadMessage(IfAny("m", "message", [id |-> "n"], calls))>>
threadMessages(calls) ==
  <<ReadMessage(Each("m", "message", [thread |-> "t"], calls))>>
mutateMessageLabels(draft, tag) ==
  OfUser([m |-> "message"], OneMessage(updateMessageLabels("key", draft, tag)))
mutateThreadLabels(draft, tag) ==
  OfUser([t |-> "thread"], threadMessages(updateMessageLabels("key", draft, tag)))

ModifyMessage ==
  mutateMessageLabels("one", "tag") \o mutateMessageLabels("zero", "tag") \o
  mutateMessageLabels("draft", "NONE") \o
  OfUser([m |-> "message", l |-> "label"],
         <<getMessageByID("m")>> \o validateMutationLabelIDs
           \o updateMessageLabels("key", "draft", "label"))
BatchModifyMessages ==
  OfUser([m |-> "message", n |-> "message"],
         ensureSystemLabels \o Batch(updateMessageLabels("key", "zero", "tag")))
BatchDeleteMessages ==
  OfUser([m |-> "message", n |-> "message"], Batch(deleteMessage))
TrashMessage == mutateMessageLabels("draft", "tag")
UntrashMessage == mutateMessageLabels("draft", "tag")
DeleteMessage == OfUser([m |-> "message"], OneMessage(deleteMessage))
GetMessage == OfUser([m |-> "message"], OneMessage(<<>>))
GetAttachment ==
  OfUser([m |-> "message"],
         OneMessage(<<FindBy("a", "attachment", [message |-> "key"])>>))
ListMessages == OfUser(None, <<Look("message")>>)

ModifyThread == mutateThreadLabels("one", "tag")
TrashThread == mutateThreadLabels("draft", "tag")
UntrashThread == mutateThreadLabels("draft", "tag")
DeleteThread == OfUser([t |-> "thread"], threadMessages(deleteMessage))
GetThread == OfUser([t |-> "thread"], threadMessages(<<>>))
ListThreads == OfUser(None, <<Look("message")>>)

(* A draft whose message is no draft is deleted by the request that finds  *)
(* it.                                                                     *)
isDraftMessage(m, no) ==
  ReadMessage(Seek("m", "message", [key |-> m],
                   <<If("draft", {"one"}, <<>>, no)>>, no))
getDraftAndMessage(calls) ==
  OfUser([d |-> "draft"],
         <<Reading(Find("draft", "d"), "message"),
           isDraftMessage("message", <<Drop("d"), Refuse>>)>> \o calls)
ListDrafts ==
  OfUser(None, <<ReadingAs(Each("d", "draft", None,
                                <<isDraftMessage("message", <<Drop("d")>>)>>),
                           "message", "message")>>)
GetDraft == getDraftAndMessage(<<>>)
(* Without its message, the attachments of an update are stored for none.  *)
UpdateDraft ==
  getDraftAndMessage(
    <<SetThen("m", [draft |-> "one", tag |-> "tag"], syncDraftState("key", "one"),
              <<>>)>>) \o
  getDraftAndMessage(
    <<SetThen("m", [draft |-> "one", tag |-> "tag"],
              replaceMessageAttachments \o syncDraftState("key", "one"),
              <<Add("a", "attachment", [message |-> "NONE"])>>)>>)
sendDraft ==
  getDraftAndMessage(<<Drop("d")>> \o updateMessageLabels("key", "zero", "tag"))
SendDraftByID == sendDraft
SendDraftFromBody == sendDraft
DeleteDraft == getDraftAndMessage(<<Drop("d")>> \o deleteMessage)

-----------------------------------------------------------------------------
(* The user's labels, filters and addresses.                               *)
OfLabel(calls) == OfUser([l |-> "label", n |-> "name"], <<findLabelByID>> \o calls)
ListLabels == OfUser(None, ensureSystemLabels \o <<Look("message")>>)
GetLabel == OfLabel(<<Look("message")>>)
CreateLabel ==
  OfUser([n |-> "name"],
         <<Free("label", [name |-> "n"])>> \o createLabelRecord("l", "n"))
PatchLabel ==
  OfLabel(<<Needs("kind", {"USER"}), FreeOrOwn("l", "label", [name |-> "n"]),
            Set("l", [name |-> "n"])>>)
DeleteLabel ==
  OfUser([l |-> "label"],
    <<[Find("label", "l") EXCEPT !.reads = [kind |-> "kind", dead |-> "key"]],
      Needs("kind", {"USER"}), Drop("l"),
      ReadMessage(Each("m", "message", None,
        <<If("tag", {"dead"}, updateMessageLabels("key", "draft", "NONE"),
             updateMessageLabels("key", "draft", "tag"))>>))>>)

CreateFilter ==
  OfUser([l |-> "label", from |-> "name"],
    validateMutationLabelIDs
      \o <<Free("filter", [from |-> "from", add |-> "label"]),
           Add("f", "filter", [from |-> "from", add |-> "label"])>>)
DeleteFilter == OfUser([f |-> "filter"], <<Find("filter", "f"), Drop("f")>>)
ListFilters == OfUser(None, <<Look("filter")>>)

(* What a user has one of.                                                 *)
ensureDefaultSendAs == <<Ensure("x", "sendAs", [user |-> "u"], [user |-> "u"])>>
ListSendAs == Handler([u |-> "user"], <<Find("user", "u")>> \o ensureDefaultSendAs)
ListForwardingAddresses == OfUser(None, <<Look("forwarding")>>)
Stop ==
  Handler([u |-> "user"], <<Find("user", "u"), DropAll("watch", [user |-> "u"])>>)
Watch ==
  Handler([u |-> "user"],
    <<Find("user", "u")>> \o ensureSystemLabels
      \o <<Look("history"), DropAll("watch", [user |-> "u"]),
           Add("w", "watch", [user |-> "u"])>>)

-----------------------------------------------------------------------------
(* Calendars.  Whatever a request is about, the default one is ensured: a  *)
(* user has calendars, and one that is primary.                            *)
ensureDefaultCalendars ==
  <<Seek("k", "calendar", [user |-> "u"],
      <<IfNone("calendar", [user |-> "u", primary |-> "YES"],
               <<Set("k", [primary |-> "YES"])>>)>>,
      <<Add("k", "calendar",
            [key |-> "PRIMARY", user |-> "u", primary |-> "YES"])>>)>>
OfCalendars(args, calls) ==
  Handler([u |-> "user"] @@ args,
          <<Find("user", "u")>> \o ensureDefaultCalendars \o calls)
getCalendarByID ==
  Seek("k", "calendar", [user |-> "u", primary |-> "YES"], <<>>,
       <<FindBy("k", "calendar", [key |-> "PRIMARY", user |-> "u"])>>)
OfCalendar(args, calls) ==
  OfCalendars([k |-> "calendar"] @@ args,
    <<Reading(FindBy("k", "calendar", [id |-> "k", user |-> "u"]), "key")>>
      \o calls) \o
  OfCalendars(args, <<Reading(getCalendarByID, "key")>> \o calls)
OnlyPrimary(primary) ==
  IF primary = "NO" THEN <<>>
  ELSE <<EachBut("k", "o", "calendar", [user |-> "u", primary |-> "YES"],
                 <<Set("o", [primary |-> "NO"])>>)>>
createCalendarRecord(key, primary, update) ==
  ensureDefaultCalendars
  \o <<Seek("k", "calendar", [key |-> key, user |-> "u"],
       IF update
       THEN <<SetThen("k", IF primary = "NO" THEN None ELSE [primary |-> "YES"],
                      OnlyPrimary(primary), <<>>)>>
       ELSE <<>>,
       <<Add("k", "calendar", [key |-> key, user |-> "u", primary |-> primary])>>
         \o OnlyPrimary(primary))>>
createCalendarEventRecord ==
  <<Add("e", "event", [calendar |-> "key", user |-> "u"])>>
getCalendarEventByID ==
  FindBy("e", "event", [id |-> "e", calendar |-> "key", user |-> "u"])

CalendarList == OfCalendars(None, <<>>)
ListCalendarEvents == OfCalendar(None, <<Look("event")>>)
CreateCalendarEvent == OfCalendar(None, createCalendarEventRecord)
DeleteCalendarEvent ==
  OfCalendar([e |-> "event"], <<getCalendarEventByID, Drop("e")>>)
FreeBusy == OfCalendar(None, <<Look("event")>>)

-----------------------------------------------------------------------------
(* Files.  The parents of one, of which the model keeps one, are written   *)
(* as they were read.                                                      *)
getDriveItemByID == Reading(Find("item", "i"), "parent")
ListDriveFiles == OfUser(None, <<Look("item")>>)
GetDriveFile == OfUser([i |-> "item"], <<getDriveItemByID>>)
createDriveItemRecord(key, parent) ==
  <<Ensure("i", "item", [key |-> key], [key |-> key, parent |-> parent])>>
CreateDriveFile ==
  OfUser([n |-> "word"], <<Add("i", "item", [key |-> "i", parent |-> "n"])>>)
updateDriveItemContent == <<Patch("i")>>
updateDriveItemRecord(parent) == <<Set("i", [parent |-> parent])>>
UpdateDriveFile ==
  OfUser([i |-> "item", n |-> "word"],
         <<getDriveItemByID>> \o updateDriveItemRecord("n")) \o
  OfUser([i |-> "item"], <<getDriveItemByID>> \o updateDriveItemContent) \o
  OfUser([i |-> "item"], <<getDriveItemByID>> \o updateDriveItemContent
                           \o updateDriveItemRecord("parent"))

-----------------------------------------------------------------------------
(* What an instance starts with.                                           *)
SeededMessage(key, draft, tag, thread) ==
  ensureSystemLabels
  \o <<IfNone("message", [key |-> key],
              ensureCustomLabel(tag)
                \o createStoredMessage(key, draft, tag, thread))>>
SeedDefaults ==
  <<Seek("u", "user", None, <<>>, <<Add("u", "user", None)>>)>>
  \o ensureSystemLabels \o ensureDefaultSendAs
  \o createCalendarRecord("TEAM", "NO", FALSE)
  \o <<IfNone("event", [user |-> "u"],
              <<Add("e", "event", [calendar |-> "PRIMARY", user |-> "u"])>>)>>
  \o createDriveItemRecord("CONTRACTS", "ROOT")
  \o SeededMessage("WELCOME", "zero", "NONE", "T")
SeedFromConfig ==
  <<Add("u", "user", None)>> \o ensureDefaultSendAs
  \o createLabelRecord("WORK", "WORK")
  \o SeededMessage("DRAFTED", "one", "WORK", "T")
  \o createCalendarRecord("HOME", "YES", TRUE)
-----------------------------------------------------------------------------
(* The parts of the service.                                               *)
OfMail ==
  ImportMessage \o SendMessage \o InsertMessage \o ModifyMessage
    \o BatchModifyMessages \o BatchDeleteMessages \o TrashMessage
    \o UntrashMessage \o DeleteMessage \o GetMessage \o ListMessages
    \o ModifyThread \o TrashThread \o UntrashThread \o DeleteThread
    \o GetThread \o ListThreads
OfDrafts ==
  CreateDraft \o UpdateDraft \o SendDraftByID \o SendDraftFromBody
    \o DeleteDraft \o GetDraft \o ListDrafts \o GetAttachment
Mail ==
  Part({"message", "draft", "attachment"}, OfMail \o OfDrafts,
    [defaults |-> SeedDefaults, config |-> SeedFromConfig,
     parents |-> [message |-> [key |-> Key("message", "key")],
                  draft |-> [message |-> Key("message", "key")],
                  attachment |-> [message |-> Key("message", "key")]],
     counts |-> {[table |-> "message", field |-> "draft", of |-> "draft",
                  by |-> [message |-> "key"], where |-> None]},
     shared |-> [message |-> {"thread"}], words |-> [thread |-> {"T"}]])
Labels ==
  Part({"message", "label"},
    OfMail \o ListLabels \o GetLabel \o CreateLabel \o PatchLabel \o DeleteLabel,
    [defaults |-> SeedDefaults, config |-> SeedFromConfig,
     parents |-> [message |-> [tag |-> Key("label", "key")],
                  label |-> [key |-> Key("label", "key")]],
     unique |-> [label |-> {"name"}], shared |-> [message |-> {"thread"}],
     words |-> [name |-> {"n1"}, thread |-> {"T"}]])
(* A filter keeps adding a label that was deleted.                         *)
Filters ==
  Part({"message", "label", "filter", "sendAs", "watch", "user"},
    ImportMessage \o CreateFilter \o DeleteFilter \o ListFilters
      \o CreateLabel \o DeleteLabel \o ListSendAs \o ListForwardingAddresses
      \o Watch \o Stop,
    [defaults |-> SeedDefaults, config |-> SeedFromConfig,
     parents |-> [message |-> [tag |-> Key("label", "key")],
                  filter |-> [add |-> Key("label", "key")],
                  sendAs |-> [user |-> Id("user")], watch |-> [user |-> Id("user")]],
     outlive |-> {"tag", "add"},
     unique |-> [filter |-> {"from", "add"}, label |-> {"name"},
                 sendAs |-> {"user"}, watch |-> {"user"}],
     shared |-> [message |-> {"thread"}, label |-> {"key"}],
     words |-> [name |-> {"n1"}, thread |-> {"T"}]])
CalendarsAndFiles ==
  Part({"user", "calendar", "event", "item"},
    CalendarList \o ListCalendarEvents \o CreateCalendarEvent
      \o DeleteCalendarEvent \o FreeBusy
      \o ListDriveFiles \o GetDriveFile \o CreateDriveFile \o UpdateDriveFile,
    [defaults |-> SeedDefaults, config |-> SeedFromConfig,
     parents |-> [calendar |-> [user |-> Id("user")],
                  event |-> [user |-> Id("user")]],
     chosen |-> [calendar |-> [by |-> "user", mark |-> [primary |-> "YES"]]]])
=============================================================================
