# A TLA+ verification of emulate

`emulate` runs local stand-ins for cloud services (AWS, Stripe, GitHub, Okta, ...). It is one Go
program: an in-memory store, an HTTP core, one package per service, and an adapter that runs the
same services in Vercel Functions. This directory holds TLA+ modules of the parts that keep state,
TLC configurations that check them on small instances, and TLAPS proofs about the store and eight of the components on it.

## The system

**Where state lives.** `internal/core/store` has a `Store` of named `Collection`s. A collection keeps
records under automatic ids, indexes on some fields, and a counter; each method takes the
collection's lock for its whole body. `internal/core/assets` keeps byte bodies beside it.

**Who changes it.** Each request runs in a goroutine of `net/http`. The handlers of the services
hold no lock of their own (the few exceptions are named below), so a request is a *sequence of atomic
calls to collections*, and what it read in one call may be stale in the next. This is the
source of nearly every hard behaviour here; there is no background work, no timer and no retry inside
the program, and nothing is persisted except by the Vercel adapter.

| Part | State | Operations | What makes it correct | Hard behaviour |
|---|---|---|---|---|
| Collection | records, indexes, counter | Insert, Update, UpdateFunc, Delete, FindBy, Get, Clear, Snapshot, Restore | indexes exact, fresh ids, lookups independent of indexes, restoring a snapshot gives the state back | ids given from outside, values that print alike, snapshots of other index fields |
| Store | collections, data | Collection, Reset, Snapshot, Restore | a snapshot covers what was acknowledged | read collection by collection; replaced collections |
| Asset store | bodies, metadata | Put, Get, Delete, snapshots | a body is there as long as its record | a second store beside the collections |
| SQS | queues, messages | create, delete, purge, send, receive, delete message, change visibility, attributes, tags | visibility timeouts, current handles, no loss before delivery, complete purges | receives that race, stale handles, deletion during a send |
| Secrets Manager | secrets, versions, labels, tags | create, put, update, delete, restore, tag | labels on one version, tokens idempotent, forced deletion complete | labels rewritten from one listing |
| S3 | buckets, object records, bodies | create and delete bucket, put, copy, get, delete, list | record and body agree, no object without bucket | two stores written one after the other |
| DynamoDB | tables, items | put, delete, batches, query, scan, tags | one item per key, none without a table | a put deletes and inserts |
| SNS, EventBridge | topics, subscriptions, buses, rules, targets, deliveries | publish, put events, subscribe, delete | one message for every way that stood, a truthful log, the request ends | listings that go stale; writes into the collection of SQS |
| Logs, SSM | groups, streams, events; parameters and their versions | create, put, delete, tag | summaries agree with events, a version for every write | read-modify-write of records; events before their summary |
| KMS, IAM, STS | keys, aliases; users, roles, access keys, credentials | create, update, delete, assume | names unique, keys agree with credentials | a list in a record beside a store in memory |
| OAuth servers (Apple, Clerk, Discord, GitHub, Google, Microsoft, Okta, Slack, Vercel) | codes, access, refresh and ID tokens, sessions, users | authorize, exchange, refresh, revoke, userinfo, introspect, user lifecycle | a code is used once and in time, rotation leaves one refresh token, deleted or suspended users get nothing | a code is looked up, then deleted; the user is checked before the tokens are written |
| Stripe | customers, payment intents, charges, checkout sessions | create, update, confirm, cancel, expire, complete, delete | one charge per success, none otherwise; final states stay; deleted customers are named nowhere | status read before it is changed, except by a confirmation; cascades row by row |
| Slack, Discord | teams, guilds, channels, members, roles, messages, reactions, webhooks, commands | post, reply, react, join, delete | reply counts, copies of the guild in every row, complete cascades | counts under the lock and from listings; webhooks that move |
| GitHub | repositories, issues, pulls, comments, branches, refs, git objects | create, edit, merge, close, delete | numbers unique, an issue agrees with its pull request, merged stays merged, cascades | numbers from a listing; two records of one thing |
| Google | messages, drafts, labels, filters, history; calendars, files | send, modify, delete, list history | a client that follows the history misses nothing, the history tells the labels | an id is taken, then used in several steps |
| Okta, Clerk, Vercel API, MongoDB Atlas, Resend | users, groups, applications, organizations, projects, deployments, documents, audiences | create, rename, assign, delete | names unique, cascades complete, counts right, marks (primary, default) on one row | read-modify-write; cascades row by row |
| Vercel adapter | warm servers per origin, saved snapshots | ServeHTTP, load, save | a warm server keeps its state, acknowledged changes survive | saves without a lock, instances that stop, several instances |
| HTTP core, configuration, UI, CLI, npm packages | none shared | routing, parsing, pages | computations on one input | none |

Components call each other only through the collections, except the adapter, which calls the service's
handler and then snapshots its stores, and SNS and EventBridge, which insert SQS messages.

## Modules

| Module | What it is |
|---|---|
| `RecordTable` | what a collection promises to services: a table of records without indexes |
| `Collection` | `core/store`'s Collection, with its indexes and counter; implements `RecordTable` |
| `StoreProofs` | the theorems about Collection and about VercelRuntime, for every value of their constants |
| `SQSProofs`, `SecretsManagerProofs`, `S3Proofs`, `StripeProofs`, `GmailHistoryProofs`, `OAuthProofs`, `FanoutProofs` | the theorems about the module of that name, for every value of its constants |
| `SQS` | the SQS service |
| `SecretsManager` | the Secrets Manager service |
| `S3` | the S3 service over its collections and the asset store |
| `VercelRuntime` | the Vercel adapter: servers, persistence, instances |
| `OAuthHandlers` | the handlers of the nine OAuth servers, each as the list of its checks and store calls |
| `OAuth` | what those calls do, and requests that make them one at a time |
| `Stripe` | payment intents, charges, checkout sessions and the deletion of customers |
| `StoreCalls` | the words for the calls that handlers make on collections |
| `OktaService`, `ClerkService`, `VercelService`, `GitHubService`, `SlackService`, `DiscordService`, `GoogleService`, `MongoAtlasService`, `ResendService`, `SNSService`, `EventBridgeService`, `IAMService`, `KMSService`, `SSMService`, `LogsService`, `DynamoDBService` | the handlers of one service each, as lists of calls, and its parts |
| `Services` | what the calls do, requests that make them one at a time, restarts, and the properties of parts |
| `GmailHistory` | the history of a mailbox and clients that follow it |
| `Fanout` | SNS, EventBridge and SQS together: from a publication or an event to messages in queues |
| `MC...` | what TLC needs to run them: values of constants, symmetry, a constraint |

In `Collection` one method is one action: `items`, `indexes`, `indexFields` and `autoID` are the
fields of the Go struct, and `reply` holds the ids the last call returned. The service modules take
the collections as `Collection` shows them to be: tables with atomic calls. There a request is a process
`p`; `req[p]` holds the step it is at and its locals, and each collection call is one action. A
lookup whose answer a handler keeps (a queue's id, the messages to delete, the label sets read) is
copied into `req[p]` and used, possibly stale, by later steps. Names of operators are those of the Go
functions where the action is one function. Where two protocols have a handler each (`sendMessage` and
`sendMessageJSON`), both make the same calls and share the actions.

The nine OAuth servers differ in order, not in kind: where one deletes the code before it looks the user up, another
does so after; some burn a code whose check failed, some keep it; some rotate refresh tokens. `OAuthHandlers`
therefore holds one list per handler, in the order of its code, and `OAuth` runs the lists: `Begin` picks a
request and what is wrong with it, if anything, and drops from the list what lies behind the check that
refuses it; each remaining word is one atomic call. What a request has left to call is a function from places in the list
to words (`calls`), whose least place is the next call. The map of each list is its handler. A behaviour is that of one
service (`service` never changes), since the services share nothing. Requests that are refused and make no call that
writes are left out: they change nothing and nobody can tell.

*The directories.* The sixteen services that keep records of their own differ in their tables and in the order of
their calls. A `...Service` module has one definition per handler, with the name of its Go function: its arguments, and the
calls it makes in the order of the code, written in the words of `StoreCalls` (look a row up and read a field, insert, write what
was computed from a read, change under the lock, drop, go over a listing). Where the body of a request may lack a part, the
handler is a sequence of alternatives. `Services` gives each word its meaning as one atomic step of one request, with the locals of
the request possibly stale, and adds `Restart`: the Vercel adapter starts another instance from a
snapshot, which ends the requests in flight, loses what is in no snapshot (the credential store) and seeds the defaults again.

The tables of a service are checked in *parts*: the tables that one question is about, and the handlers that touch
them; calls on other tables are passed over, and a decision on what was read from one may go either way. The schema of a part says what is seeded, which field names which parent,
which fields no two rows share, which number counts what, what is kept twice, and what is final. The
properties are stated once over the schema.

`GmailHistory` and `Fanout` model in detail what the parts leave out: the order in which a change of a mail takes its id,
writes the message and its rows, against a listing in pages; and the listings of a publication or an event
against the changes of who gets it.

Data is reduced to what the properties tell apart: a receipt handle, which is random, is the pair of
its message and a number; a payload is left out where only labels matter; a body is its own ETag; an
object is identified by bucket and key, as its asset id is; a record's timestamps are left out except
those that decide something (`visible_after`, the date versions are sorted by).

*History variables.* `given`, `late`, `want`, `raced`, `crossed`, `unsought`, `acked`, `issued`, `dead`, `asked`, `agreed`, `seen`, `standing`, `mark` in a request of `SQS`, and the fields `named`, `home` and `above` of a request of `Services` record what happened so that a
property can speak of it; no guard reads them. In `Services`, `crossed` has the rows and
names that two requests named while both were in flight, and `unsought` the pairs of rows of one name of which one was given that name by a write
that had not looked for it (the calls marked `Unsought`). `want` is the state as it would be had every request
been one atomic step, and `raced` and `crossed` name the places where two writers overlapped.

## Runs

| Run | Question | Answer |
|---|---|---|
| `Collection` | Do indexes, counter and lookups stay right under every method, and is a collection a plain table? | yes |
| `SQSDelivery` | Do visibility timeouts, handles and undelivered messages survive concurrent requests? | yes |
| `SQSQueues` | Are purges complete, and orphans and queues of one name only from races, among requests that configure and tag? | yes |
| `Secrets` | Do labels and versions follow the requests while writers of one kind take turns? | yes |
| `VercelWarm` | Do warm servers keep their state and does what was acknowledged in turn survive stops? | yes |
| `VercelLostSave` | And when two requests of one server overlap? | no: the older snapshot may be saved last |
| `S3Objects` | Do record and body agree while writers of one key take turns, whatever happens around them? | yes |
| `Stripe` | Is what succeeded charged once and for the amount agreed, is what is final final, and is a deleted customer forgotten? | yes, unless a decision on a status overlapped another write |
| `OAuth` | Are spent codes and tokens dead, unusable users refused, sessions neither doubled, lost nor orphaned, in all nine services? | yes, with the overlaps named in the properties set aside |
| `Services` | In 39 parts of sixteen services: are names unique, cascades complete, counts and copies right, final states final, and does a request touch only what it is about? | yes, for rows whose requests did not overlap, and for names that the code looked for |
| `GmailHistory` | Is a client that follows the history of a mailbox told of every change, in the end, and does the history tell the labels? | yes, but for changes written while it lists |
| `Fanout` | Does every subscription and target that stands throughout get its message, does the log say so, and does the request end? | yes |

*Bounds.* Two processes, because every race found or feared here is between one read-then-write and one
other writer; the properties that speak of a third party (a handle given out twice) get it from a
sequence of requests. `Collection`: two fields, three values of which two print alike, ids up to 2 (so
that an insert over an id, a fresh id and a snapshot's id all meet), five snapshots: of other
fields, with a counter behind its ids, empty, with the same record twice, with an id that is not positive. Entries of a snapshot have a place, so
that two entries that are alike are two.
`SQSDelivery`: two messages, batches of two, two receives each, a clock of two ticks and timeouts 0 and 1, so a
timeout can run out, not run out, and be zero. `SQSQueues`: two queue records, so that creates of one
name can both insert. `Secrets`: three tokens, and so a current, a previous and an older version; two
seconds of clock, so that versions sort by date and by token. `VercelWarm`: two instances, two origins, two parts of
a store, two stops. `OAuth`: one user, and per service as many rows as two requests on one code and the refreshes
that follow can insert (`Bounds` of `MCOAuth`); a second code for the services whose handlers insert little. `Stripe`: two intents or sessions, two charges, two
amounts and a customer, so that cascades meet several rows and a reopened intent can be charged again.
`S3Objects`: two keys, two bodies, two bucket records. `Services`: two requests at once of two or, where a
question needs it (a thread, a reply and a deletion), three in all, two names, on tables that start with what is seeded; a
third request at once would add no kind of race, since what was raced is set aside. `GmailHistory`: a message, three history ids, pages of one id, so that a
listing has two or three pages, each with changes before, between and after; two requests on the message. `Fanout`: two processes, three
queues of which one takes no message of the size, a topic to which all of them and something else are subscribed, a rule with
a queue and the topic as targets, a publication or an event, three changes. Every `Max...` constant bounds a
counter in a guard; a system that has used its bounds stops, so the configurations of the services
say `CHECK_DEADLOCK FALSE`; `Collection` never stops and is checked for deadlock.

`Secrets` has the state constraint `NoOverlapYet`: its properties say nothing of a secret once two of its
writers of one kind have overlapped, and `raced` never shrinks, so no state beyond the first overlap can
violate them with one secret.

*Symmetry* is used for processes, and for bodies, changes and amounts, which are only compared.

*Fairness and liveness.* `GmailHistory` and `Fanout` assume weak fairness of the steps of each request that has
begun: it runs in a goroutine of its own, takes only the lock of a single call at a time and waits for nothing else, so Go runs
it to its end. No request need ever begin. `GmailHistory` also assumes that its client goes on listing, which is
what a client that follows the history does; the property is about what such a client is told. `EventuallyTold` says that every change that
was not being written while the client listed is told, and `EventuallyAnswered` that every publication, event and change of subscriptions
ends, although what it goes over changes under it. In the other modules a handler is a finite list of calls by its form, no
liveness property would say more, and none is stated.

*What the properties set aside.* Two exchanges of one code that overlap are both granted: every
server looks the code up, and none looks at whether its deletion found anything. `DeadStaysDead` speaks of requests that
begin after the first was answered, `OneLiveRefresh` of codes whose requests did not overlap, `NoOrphanSession` of users whose
deletion met no other request. `SessionKept` and `UnusableRefused` set nothing aside. A malformed redirect URI that
Apple registered uses up the first authorization of the user: the record is inserted before the URI is parsed, and
the user object is then given to nobody, which `FirstAuthOnce` permits.

A payment intent is confirmed inside the collection's lock, and confirmations that race charge it once: `ChargedOnce` sets none
of them aside. Cancelling, updating with a payment method, expiring and completing decide from a status read earlier: a
cancellation that overlaps a confirmation leaves a cancelled intent with a charge, an update that does reopens
the intent for a second one. Those intents are in `crossed`; `ChargedAsConfirmed` holds even for them.

`UniqueUnlessRaced` says that two rows of one name are there only when requests for them overlapped, or when one of the two
was given the name by a write that did not look for it as it writes it. Each place of the code that writes so is marked `Unsought` in its module: a KMS key or alias, and
an SSM parameter, stored under an ARN (or a key under an alias) but looked up under the name in it; the patch of a Vercel project, and
the variables in the body that creates one; the group Everyone that Okta's seeding looks up by id; and the Gmail label that `ensureCustomLabel` names after its id. The names of all other rows,
of the same handlers too, are claimed: a mark sets one pair of rows
aside, and never a field or a part. The run reaches such pairs of
all of them but the Gmail label, since no client names a label after an id.

A restart names every row of the parts that keep something in memory, so that what the restart itself does to a user's
list of keys against the credential store is set aside; in particular the default key, which is put back though `admin` lists it no more.

In `Services`, what two requests both named while in flight is set aside by all properties but two cases: a count that is changed under
the lock of its collection (the bytes of a log stream) must be right although they overlapped, and `ChangesStayHome`
holds whatever overlaps except for rows that were crossed. What a field outlives is said by the schema: the sets of fields
that go on naming what is gone (`outlive`) are the label of a Gmail filter and of the messages it matches, the contacts of a Resend
audience, the credentials of an IAM role and the replies of a Slack thread, each read off the handler that leaves it.

`MissedOnlyIfRaced` sets the changes aside whose rows were being written while the client listed: these it may miss for ever.

## What was found

One run expects a violation: in `VercelLostSave` the snapshot and `Save` run without a lock, so of two requests on one warm server
the older snapshot may be saved last, and a change that was acknowledged is gone at the next cold start.

The other findings of `PROJECT.json` are named there with their lines, and are what the properties above set aside or the schemas
leave out: stale receipt handles act on a message that was handed on (`deleteReceiptHandle`); two overlapping puts of a secret leave no version
with AWSCURRENT; overlapping writes of an S3 key leave a record over other bytes; a deleted Gmail label stays in the
filters; a history listing misses changes that overlap it; Okta's Everyone is seeded beside a group that took its name; a Vercel project may be
renamed to the name of another; a KMS key or alias, and an SSM parameter, whose name is sent as an ARN is stored again each time; a deleted default access key of IAM is valid again after a restart.

## Proofs

`StoreProofs` proves type correctness and the five properties of the run `Collection` for all fields, values, printed forms,
snapshots and bounds, from the assumptions named in `Collection` (nil is no value, every value has a printed
form, the snapshots are snapshots, the bound is a number).

The inductive invariant is `TypeOK /\ IndexExact /\ AutoIDFresh`. Type correctness alone is not inductive
for the indexes: removing a record from the indexes by its own fields is right only because no other entry
for it exists, which is `IndexExact`; and `IndexExact` alone does not survive an automatic insert, which must
not land on a used id, which is `AutoIDFresh`. Two lemmas say what adding to and removing from the
indexes do to exactness; each action then has one step. `LookupAgrees` and `RoundTrip` are consequences
of the invariant in the same state. The refinement maps `items` to the table's rows and the counter to
its floor: each action maps to one step of `RecordTable`, with the invariant needed for lookups (an indexed
lookup returns exactly the matching records that have the field) and automatic inserts.

The other proof modules are built alike. `IInv` is the inductive invariant; there is a lemma for every action that says
it is kept, and lemmas that a step which leaves a table, a request or a place alone keeps what is said of it; `Invariant` is
`Spec => []IInv`, and each property follows from it, the action properties from the invariant and one step. `TypeOK` is a part of every
`IInv`, and so is, where there are counters, `Numbered`: no id in use has reached its counter, so that what a step inserts is new.
TLC was asked about the invariants on the constants of the runs before they were proved.

| Module | Proved of the runs' properties | What the invariant says beyond types and numbers, and why |
|---|---|---|
| `SQSProofs` | `LatestHandleOnly`, `NoEarlyRedelivery`, `NoLossBeforeDelivery`, `PurgeComplete`, `NameMeansOneQueue` | Receipts: the handles in `given` are those counted by the messages that are left, so a new one is new. `Sound`: what a request read stays true enough to use it: a handle it was sent was given out, a message it matched was delivered (a late deletion thus takes no message nobody received), a message it has still to drop is in its listing, and nothing else of the listing is left. A creation that is to insert is behind no queue of its name but those with ids given out since its lookup (`Overtaken`). |
| `StoreProofs` (VercelRuntime) | `SnapshotCoversAcked`, `AckedSurvivesInTurn`, `WarmStateKept` | `Sound`: the parts a request has marshalled have its own change and all its server had when marshalling began. `InTurn`: unless mutating requests overlapped, one is at work at most, what is saved has all that was acknowledged, and so has the server of that one, which was loaded from it. |
| `S3Proofs` | `PlacesFollowWrites`, `OrphansOnlyFromRaces` | `PlacesSound`: a place with one writer is, at every step of that writer, between what it was and what it is to be, bytes first and record second. `BucketsSound`: a bucket with objects is there, and a request that removes one has seen it empty with no writer in it. |
| `SecretsManagerProofs` | `LabelsFollowPuts`, `TokenIsIdempotent`, `ForcedDeleteTakesVersions` | `LabelsSound`: the one writer of a secret knows the labels still to be moved; a version that it has not come to yet is as it listed it, one behind it as it is to be. Without a writer the labels agree with `want` and no two versions have one token. |
| `StripeProofs` | `ChargedOnce`, `ChargedAsConfirmed`, `CustomerForgotten`, `FinalStays` | `SettlesSound`: a decision on a status that did not overlap still rests on the status read. `ChargesSound`: an intent that succeeded has its charge, or one request that is about to insert it. `CustomersSound`: a customer that is being deleted is named by no other request, and rows behind the cascade name it no more. |
| `GmailHistoryProofs` | `MissedOnlyIfRaced`, `LabelsFollowHistory` | `ListingsSound`: of the rows up to a listing's place, every one was told, is behind the page, or is in the client's `raced`; the id it will go on from is an id that was given out. `MailsSound`: a message has the labels its rows tell and, while a request is changing it, those the request has still to write down. |
| `OAuthProofs` | `DeadStaysDead`, `UnusableRefused`, `FirstAuthOnce`, `OneLiveRefresh`, `SessionKept`, `NoOrphanSession` | Of each list of `OAuthHandlers`, read word by word (`HandlersSound`): lookups come before what they guard, a refresh token is dropped before one is inserted, sessions are dropped before their user (`Before`), and what a kind of request needs is there (`Complete`). What is left of a list keeps that order, so the words a request has left mean something: one that is late still has the lookup that will tell it so (`LateSound`), one whose user is unusable the look at the user (`ShutSound`), and what is no longer left to drop or end is gone or ended (`DoneSound`). `Identified`: rows with one id are one row, but for the mark of an ended session. `DeadSound`: what has a dead id is an expired code or an ended session. `KeptSound`: a client that got a refresh token has one, or a request that has dropped it is past all its checks and about to insert another. `FamiliesSound`, `OrphansSound`: in a family or for a user of Clerk whose requests did not overlap, what a lookup found is still so. |
| `FanoutProofs` | `StandingIsServed`, `LogTellsTruth` | A job *leads* to a message by a way (a subscription, a target, or a target and a subscription behind it) when its handler may come to it. `Served`: of the jobs left, one at most leads by a way that stands; if one does the way has no message yet, else it has exactly one. A handler takes its job away and puts others in front, and the lemmas say that they lead, between them, where it led. `Opened`: a target is still to be opened by one job at most, and has then no message and no entry in the log. `Delivering` and `Counted`: between opening a target and its log there are only jobs of that target, and the request's count is above zero exactly when a message of that target is there; otherwise the log would speak of another target's messages. `Numbers`: subscriptions and targets keep their numbers, so that no listing has one twice. `Past`, `Apart`: messages and entries of an id that is not yet given out are none, and no two requests have one. |

The theorems hold for every set of processes, names, labels, bodies and so on and every bound, from the named assumptions of the modules: numbers are
numbers (`BoundAssumption`, `TimeAssumption`, `HistoryAssumption`), a page has a row, some sets that a run could not do without are not
empty (a queue or a bucket has a name, a Vercel deployment an instance and an origin, an OAuth server a user: `NameAssumption`, `PlaceAssumption`, `UserAssumption`), values that stand for nothing are no values (`BodyAssumption`, `WriterAssumption`,
`NIL` in `KeyAssumption`), labels moved are labels (`MoveAssumption`), the services are of the nine (`ServiceAssumption`), queues and topics are different things and what is there at the start is finite (`FanoutAssumption`), and there are finitely many requests in flight at a time
(`WriterAssumption`), which is used where rows are counted. None is about what the code does.

Two things came out of the proofs. A `PutSecretValue` whose body asks for both AWSCURRENT and AWSPREVIOUS leaves AWSPREVIOUS on two versions,
since the move of AWSCURRENT puts it on the version that had it before and the loop does not look at what was asked for
(`handler.go:531-558`): `want` is therefore a set of versions for each label, and the run `Secrets` has a put of that kind among its `Moves`. And the proof of `LabelsFollowHistory` needs that a message is not called "none", the
value for a request of no message.

**Model-checked only.** Liveness (`EventuallyTold`, `EventuallyAnswered`) is out of the prover's reach, and so is what the recursive
operators of `StoreCalls` and `Services` compute: `UniqueUnlessRaced`, `NoDangling`, `CountsAgree`,
`CopiesAgree`, `FinalStays` and `ChangesStayHome` of the sixteen services speak of schemas and handlers that only the parts give, and
`Services` has no invariant that holds of any handlers whatever. Every other safety property of a run that passes is a theorem.

## Plan

What is left to prove: of `Services`, the properties of one part at a time, once the calls of its handlers are written without
recursion.

To model, in order of what it would add: pages of an S3 listing under concurrent changes; pages elsewhere, which are offsets (Gmail,
Calendar, Drive, EventBridge, KMS, SSM, Logs) and skip or repeat rows when a listing changes; `Store.Reset` and a `Restore` that fails.

## What is not modelled

The components marked `not_modelled` in `PROJECT.json`: parsing, routing, signatures, pages and configuration
are computations on one input without shared state; the npm packages and the web site are clients and
documents. In the services of `Services`: values that no other row depends on (profiles, bodies, payloads) are a `Patch` of nothing; filters of
listings, permissions that are only read, and the formatting of answers are left out; a page of a listing is a read; clients
choose among two names, and a name that the code matches without case is one name. Of the OAuth servers: client-credentials grants, which store
one token and look at nothing else, the expiry of Okta's access tokens after an hour (an entry that only refuses more, and that makes the states of that service four times
as many), changes of clients and of assignments, signing, and the pages. Of Stripe: the catalog, which
is only added to. Inside the modelled services, reads that change
nothing are actions only where a later step uses what they read. `GetSecretValue` writes a last-access
date nobody reads back but `DescribeSecret`. Go's memory model does not enter: every access to a record is
under its collection's lock, and records are cloned on the way in and out.
