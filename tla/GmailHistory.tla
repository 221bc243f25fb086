----------------------------- MODULE GmailHistory -----------------------------
(***************************************************************************)
(* The history of a mailbox of internal/services/google.  A change of a    *)
(* message takes a history id, writes the message with it, and inserts the *)
(* rows of the history under it, in steps of its own; no lock is held from *)
(* the first to the last.  A client keeps up with the mailbox by listing   *)
(* the history after the id that the listing before it answered, page by   *)
(* page.                                                                   *)
(*                                                                         *)
(* What clients filter the listing by (historyTypes, labelId) is left out, *)
(* and so is what else a change of a message does: see GoogleService.      *)
(***************************************************************************)
EXTENDS Integers, Sequences, FiniteSets, FiniteSetsExt

CONSTANTS Writers,    \* requests that change messages
          Clients,    \* clients that keep up with the history
          Messages,   \* messages, in the mailbox or to come
          Labels,     \* labels of messages
          Draft,      \* the label of a draft
          Wanted,     \* the sets of labels that requests want
          PageSize,   \* maxResults of the listings
          MaxHistory  \* bound on the history ids

ASSUME WriterAssumption == IsFiniteSet(Writers) /\ "none" \notin Messages
ASSUME HistoryAssumption ==
  /\ Draft \in Labels /\ Wanted \subseteq SUBSET Labels
  /\ PageSize \in Nat \ {0} /\ MaxHistory \in Nat

VARIABLES lastHistoryID, \* the last history id that was generated
          message,       \* the messages: their labels and history ids
          history,       \* the rows of the history
          writer,        \* the requests that change messages
          client,        \* the listings of the clients
          seen,          \* the rows that each client was told of
          raced,         \* ids written while the client listed (history)
          crossed        \* messages of requests that overlapped (history)

vars == <<lastHistoryID, message, history, writer, client, seen, raced, crossed>>

Kinds == {"messageAdded", "messageDeleted", "labelAdded", "labelRemoved"}
Row == [id : 1..MaxHistory, kind : Kinds, of : Messages, labels : SUBSET Labels]
Message == [history : 1..MaxHistory, labels : SUBSET Labels]

IdleWriter == [step |-> "idle", op |-> "none", of |-> "none", id |-> 0,
               read |-> {}, labels |-> {}, rows |-> <<>>, filters |-> FALSE]
ReadyClient == [step |-> "ready", start |-> 0, offset |-> 0, page |-> {},
                more |-> FALSE, latest |-> 0]

Init ==
  /\ lastHistoryID = 0
  /\ message = [m \in {} |-> 0] /\ history = {}
  /\ writer = [p \in Writers |-> IdleWriter]
  /\ client = [c \in Clients |-> ReadyClient]
  /\ seen = [c \in Clients |-> {}]
  /\ raced = [c \in Clients |-> {}]
  /\ crossed = {}

-----------------------------------------------------------------------------
(* Changes of messages.                                                    *)

At(p, step) == writer[p].step = step
Goto(p, w) == writer' = [writer EXCEPT ![p] = w]
KeepMail == UNCHANGED <<lastHistoryID, message, history, client, seen, raced>>
Undisturbed(m) == \A p \in Writers : writer[p].of # m
(* The bound on the ids: none is begun that could have no id.              *)
Generating == {p \in Writers : At(p, "generate")}
Room == lastHistoryID + Cardinality(Generating) < MaxHistory
Start(p, op, m, read, labels) ==
  /\ At(p, "idle") /\ Room
  /\ Goto(p, [IdleWriter EXCEPT !.step = "generate", !.op = op, !.of = m,
                                !.read = read, !.labels = labels])
  /\ crossed' = crossed \cup (IF Undisturbed(m) THEN {} ELSE {m})
  /\ KeepMail

(* A new message has a key that no other one has or had.                   *)
Fresh(m) ==
  /\ m \notin DOMAIN message
  /\ \A r \in history : r.of # m
  /\ Undisturbed(m)
createStoredMessage(p, m, labels) ==
  Fresh(m) /\ Start(p, "add", m, {}, labels)

(* The message is read, and what is written comes of what was read.        *)
updateMessageLabels(p, m, labels) ==
  /\ m \in DOMAIN message
  /\ Start(p, "relabel", m, message[m].labels, labels)
UpdateDraft(p, m) ==
  /\ m \in DOMAIN message /\ Draft \in message[m].labels
  /\ Start(p, "draft", m, message[m].labels, message[m].labels)
deleteMessage(p, m) ==
  /\ m \in DOMAIN message
  /\ Start(p, "delete", m, message[m].labels, {})

Listing == {c \in Clients : client[c].step # "ready"}
generateHistoryID(p) ==
  /\ At(p, "generate")
  /\ lastHistoryID' = lastHistoryID + 1
  /\ Goto(p, IF writer[p].op = "delete"
             THEN [writer[p] EXCEPT
                     !.step = "record", !.id = lastHistoryID',
                     !.rows = <<[kind |-> "messageDeleted", labels |-> {}]>>]
             ELSE [writer[p] EXCEPT !.step = "write", !.id = lastHistoryID'])
  /\ raced' = [c \in Clients |->
                 raced[c] \cup (IF c \in Listing THEN {lastHistoryID'} ELSE {})]
  /\ UNCHANGED <<message, history, client, seen, crossed>>

(* The rows of a change: a row for the labels that came, one for those     *)
(* that went, none for a draft that was written anew.                      *)
RowOf(kind, labels) ==
  IF labels = {} THEN <<>> ELSE <<[kind |-> kind, labels |-> labels]>>
AddedOnly(w) == RowOf("labelAdded", w.labels \ w.read)
diffLabels(w) == AddedOnly(w) \o RowOf("labelRemoved", w.read \ w.labels)
RowsOf(w) == CASE w.op = "add" -> <<[kind |-> "messageAdded", labels |-> {}]>>
               [] w.op = "relabel" -> diffLabels(w)
               [] OTHER -> <<>>

(* After its rows an added message is looked at by the filters, and so is  *)
(* one that a filter has changed; a deleted one goes.                      *)
AfterRows(w) == CASE w.op = "add" \/ w.filters -> "filter"
              [] w.op = "delete" -> "drop"
              [] OTHER -> "idle"
Proceed(p, w) ==
  Goto(p, IF w.rows # <<>> THEN [w EXCEPT !.step = "record"]
          ELSE IF AfterRows(w) = "idle" THEN IdleWriter
          ELSE [w EXCEPT !.step = AfterRows(w), !.id = 0])

(* An update of a message that is gone writes nothing and records nothing. *)
PutMessage(m, record) ==
  message' = [n \in DOMAIN message \cup {m} |->
                IF n = m THEN record ELSE message[n]]
WriteMessage(p) ==
  LET w == writer[p]
  IN  /\ At(p, "write")
      /\ \/ /\ w.op = "add" \/ w.of \in DOMAIN message
            /\ PutMessage(w.of, [history |-> w.id, labels |-> w.labels])
            /\ Proceed(p, [w EXCEPT !.rows = RowsOf(w), !.read = w.labels])
         \/ /\ w.op # "add" /\ w.of \notin DOMAIN message
            /\ Proceed(p, w)
            /\ UNCHANGED message
      /\ UNCHANGED <<lastHistoryID, history, client, seen, raced, crossed>>

recordHistory(p) ==
  LET w == writer[p]
  IN  /\ At(p, "record")
      /\ history' = history \cup {[id |-> w.id, kind |-> Head(w.rows).kind,
                                   of |-> w.of, labels |-> Head(w.rows).labels]}
      /\ Proceed(p, [w EXCEPT !.rows = Tail(@)])
      /\ UNCHANGED <<lastHistoryID, message, client, seen, raced, crossed>>

(* A filter that matches writes labels, the same ones maybe; what it       *)
(* starts from is what the request wrote last.                             *)
applyFilter(p, labels) ==
  /\ At(p, "filter") /\ Room
  /\ Goto(p, [writer[p] EXCEPT !.step = "generate", !.op = "relabel",
                               !.labels = labels, !.filters = TRUE])
  /\ KeepMail /\ UNCHANGED crossed
filtersDone(p) ==
  /\ At(p, "filter") /\ Goto(p, IdleWriter)
  /\ KeepMail /\ UNCHANGED crossed

dropMessage(p) ==
  /\ At(p, "drop")
  /\ message' = [m \in DOMAIN message \ {writer[p].of} |-> message[m]]
  /\ Goto(p, IdleWriter)
  /\ UNCHANGED <<lastHistoryID, history, client, seen, raced, crossed>>

-----------------------------------------------------------------------------
(* Listings.                                                               *)

Ids == {r.id : r \in history}
Latest(S) == Max({0} \cup S)
After(start) == {id \in Ids : id > start}
Rank(id, start) == Cardinality({j \in After(start) : j <= id})
Turn(c, to) == client' = [client EXCEPT ![c] = to]

(* The ids that are being written: taken, with rows still to come.         *)
BeingWritten == {writer[p].id : p \in {q \in Writers : writer[q].id # 0}}

(* A page has the rows of its ids of that moment, in the order of the ids, *)
(* and a token of where the next one starts, when there is more.           *)
SamePage(offset) == offset
NextPage(offset) == offset + PageSize
MoreButOne(offset, total) == NextPage(offset) + 1 < total
MoreAfter(offset, total) == NextPage(offset) < total
PageOf(k) == {r \in history : /\ r.id > k.start
                              /\ Rank(r.id, k.start) > k.offset
                              /\ Rank(r.id, k.start) <= k.offset + PageSize}
listHistory(c) ==
  LET k == client[c]
  IN  /\ k.step \in {"ready", "paging"}
      /\ Turn(c, [k EXCEPT !.step = "listed", !.page = PageOf(k),
                    !.more = MoreAfter(k.offset, Cardinality(After(k.start)))])
      /\ raced' = [raced EXCEPT ![c] = @ \cup (IF k.step = "ready"
                                               THEN BeingWritten ELSE {})]
      /\ UNCHANGED <<lastHistoryID, message, history, writer, seen, crossed>>

(* The id that the answer has comes of the messages first and of the rows  *)
(* then: currentHistoryID.                                                 *)
latestOfMessages(c) ==
  /\ client[c].step = "listed"
  /\ Turn(c, [client[c] EXCEPT !.step = "latest",
              !.latest = Latest({message[m].history : m \in DOMAIN message})])
  /\ UNCHANGED <<lastHistoryID, message, history, writer, seen, raced, crossed>>
answer(c) ==
  LET k == client[c]
      current == Latest({k.latest} \cup Ids)
  IN  /\ k.step = "latest"
      /\ seen' = [seen EXCEPT ![c] = @ \cup k.page]
      /\ Turn(c, IF k.more
                 THEN [k EXCEPT !.step = "paging", !.page = {}, !.latest = 0,
                                !.offset = NextPage(@)]
                 ELSE [ReadyClient EXCEPT !.start = current])
      /\ UNCHANGED <<lastHistoryID, message, history, writer, raced, crossed>>

-----------------------------------------------------------------------------
Begins(p) ==
  \E m \in Messages :
    \/ \E labels \in Wanted :
         createStoredMessage(p, m, labels) \/ updateMessageLabels(p, m, labels)
    \/ UpdateDraft(p, m) \/ deleteMessage(p, m)
Continues(p) ==
  \/ generateHistoryID(p) \/ WriteMessage(p) \/ recordHistory(p)
  \/ \E labels \in Wanted : applyFilter(p, labels)
  \/ filtersDone(p) \/ dropMessage(p)
Lists(c) == listHistory(c) \/ latestOfMessages(c) \/ answer(c)

Next == \/ \E p \in Writers : Begins(p) \/ Continues(p)
        \/ \E c \in Clients : Lists(c)

(* Requests that have begun go on: each runs in a goroutine of its own and *)
(* waits for nothing but the locks of single calls.  That a client goes on *)
(* listing is what one does that keeps up.                                 *)
Fairness == /\ \A p \in Writers : WF_vars(Continues(p))
            /\ \A c \in Clients : WF_vars(Lists(c))
Spec == Init /\ [][Next]_vars /\ Fairness

-----------------------------------------------------------------------------
Writer == [step : {"idle", "generate", "write", "record", "filter", "drop"},
           op : {"none", "add", "relabel", "draft", "delete"},
           of : Messages \cup {"none"}, id : 0..MaxHistory,
           read : SUBSET Labels, labels : SUBSET Labels,
           rows : Seq([kind : Kinds, labels : SUBSET Labels]),
           filters : BOOLEAN]
Client == [step : {"ready", "listed", "latest", "paging"},
           start : 0..MaxHistory, offset : Nat, page : SUBSET Row,
           more : BOOLEAN, latest : 0..MaxHistory]

TypeOK ==
  /\ lastHistoryID \in 0..MaxHistory
  /\ DOMAIN message \subseteq Messages
  /\ \A m \in DOMAIN message : message[m] \in Message
  /\ history \subseteq Row
  /\ writer \in [Writers -> Writer] /\ client \in [Clients -> Client]
  /\ seen \in [Clients -> SUBSET Row]
  /\ raced \in [Clients -> SUBSET (1..MaxHistory)]
  /\ crossed \subseteq Messages

(* A client that goes on from the id that the last answer gave it (the end *)
(* of handleListHistory) has been told of every row up to that id, but for *)
(* changes that were being written while it listed.                        *)
Missed(c) == {r \in history : r.id <= client[c].start /\ r \notin seen[c]}
MissedOnlyIfRaced ==
  \A c \in Clients : \A r \in Missed(c) : r.id \in raced[c]

(* The labels of a message are those that the history tells: the last row  *)
(* that names a label says whether it is there; and a message is gone when *)
(* a row says so, unless requests for it overlapped: they write over each  *)
(* other.                                                                  *)
Naming(m, l) == {r \in history : r.of = m /\ l \in r.labels}
LastSays(m, l, kind) ==
  \E r \in Naming(m, l) :
    r.kind = kind /\ \A other \in Naming(m, l) : other.id <= r.id
LabelsFollowHistory ==
  \A m \in DOMAIN message \ crossed :
    Undisturbed(m) =>
      /\ \A l \in Labels : /\ LastSays(m, l, "labelAdded") => l \in message[m].labels
                           /\ LastSays(m, l, "labelRemoved")
                                => l \notin message[m].labels
      /\ \A r \in history : r.of = m => r.kind # "messageDeleted"

(* Every change that was not being written while a client listed is told   *)
(* to that client in the end.                                              *)
Told(c, id) == {r \in history : r.id = id} \subseteq seen[c]
EventuallyTold ==
  \A c \in Clients, id \in 1..MaxHistory :
    id \in Ids /\ id \notin BeingWritten ~> Told(c, id) \/ id \in raced[c]
=============================================================================
