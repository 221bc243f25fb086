------------------------------- MODULE Services -------------------------------
(***************************************************************************)
(* The services of internal/services that keep records of their own: what  *)
(* their handlers' calls do, and requests that make them.  Each request    *)
(* runs in a goroutine of its own and makes one call after another, each   *)
(* atomic, since no handler holds a lock between two of them.              *)
(*                                                                         *)
(* A behaviour is that of one part of a service: some of its tables and    *)
(* the handlers and calls that are about them.                             *)
(***************************************************************************)
EXTENDS Integers, SequencesExt

CONSTANTS Procs,     \* requests that can be in flight together
          Names,     \* names that clients choose
          Ids,       \* the ids of rows, in the order they are allotted, and
                     \* after them those that are fixed
          Parts      \* the parts of services to check, by name: see MCServices

ASSUME IdAssumption == IsInjective(Ids)

VARIABLES part,     \* the part of a service that runs: its name and schema
          rows,     \* the rows of its tables, by id
          allotted, \* how many ids have been allotted
          req,      \* the requests in flight, and the start of an instance
          begun,    \* how many requests, and new instances, have begun
          crossed,  \* what requests that overlapped both named (history)
          unsought  \* pairs of rows of one name, given it by a write that
                    \* looked for no row of that name (history)

vars == <<part, rows, allotted, req, begun, crossed, unsought>>

Main == "main"
Threads == Procs \cup {Main}

(* The locals of a request: the calls still to make, the values by name,   *)
(* and, as history, what it named so far: all of it with what it belongs   *)
(* to (named), and of what it asked for by name the keys (home) and what   *)
(* it belongs to (above).                                                  *)
Idle == [calls |-> <<>>, env |-> [x \in {} |-> 0], named |-> {}, home |-> {},
         above |-> {}]
Busy == {q \in Threads : req[q].calls # <<>>}

-----------------------------------------------------------------------------
(* Parts.                                                                  *)

(* Numbers that clients name are words, so that names and numbers compare. *)
Nth(k) == "#" \o ToString(k)
NumberOf(word) == CHOOSE k \in 1..Len(Ids) : word = Nth(k)
WordsOf(P) == P.words @@ [name |-> Names, word |-> Names, head |-> Names,
                          number |-> {Nth(1), Nth(2)}]

(* The calls that change or read the tables of a part, and the handlers    *)
(* that make some, with arguments that are its own.                        *)
RECURSIVE CallsOf(_, _)
Branches(P, c) ==
  LET ways == DOMAIN c \cap {"yes", "no"}
  IN  CASE ways = {"yes", "no"} ->
             [c EXCEPT !.yes = CallsOf(P, @), !.no = CallsOf(P, @)]
        [] ways = {"yes"} -> [c EXCEPT !.yes = CallsOf(P, @)]
        [] ways = {"no"} -> [c EXCEPT !.no = CallsOf(P, @)]
        [] ways = {} -> c
CallsOf(P, calls) ==
  LET own == SelectSeq(calls, LAMBDA c :
               c.op # "look" /\ ("table" \in DOMAIN c => c.table \in P.tables))
  IN  [k \in DOMAIN own |-> Branches(P, own[k])]
HandlersOf(P) ==
  {h \in {[args |-> g.args, calls |-> CallsOf(P, g.calls)] :
            g \in ToSet(P.handlers)} :
     /\ h.calls # <<>>
     /\ Range(h.args) \subseteq P.tables \cup DOMAIN WordsOf(P)}
Run(P) == [P EXCEPT !.handlers = HandlersOf(P), !.words = WordsOf(P),
                    !.defaults = CallsOf(P, @), !.config = CallsOf(P, @)]
Running == [n \in DOMAIN Parts |-> Run(Parts[n])]
This == Running[part.name]
Schema(P) ==
  [f \in DOMAIN P \ {"handlers", "words", "defaults", "config"} |-> P[f]]

-----------------------------------------------------------------------------
(* Rows.                                                                   *)

Literals == [zero |-> 0, one |-> 1, nothing |-> {}]
Value(env, word) == IF word \in DOMAIN env THEN env[word]
                    ELSE IF word \in DOMAIN Literals THEN Literals[word]
                    ELSE word
Matches(i, m, env) ==
  \A f \in DOMAIN m : IF f = "id" THEN i = Value(env, m[f])
                      ELSE rows[i][f] = Value(env, m[f])
Where(t, m, env) ==
  {i \in DOMAIN rows : rows[i].table = t /\ Matches(i, m, env)}
InOrder(S) == SelectSeq(Ids, LAMBDA i : i \in S)
First(S) == Head(InOrder(S))

Values(env, fields) == [f \in DOMAIN fields |-> Value(env, fields[f])]
Without(i) == [j \in DOMAIN rows \ {i} |-> rows[j]]

(* What a row belongs to: a field of its table holds the value of a key of *)
(* another table, and so on.                                               *)
None == [x \in {} |-> 0]
ParentFields(i) == IF i \in DOMAIN rows /\ rows[i].table \in DOMAIN part.parents
                   THEN part.parents[rows[i].table] ELSE None
Parents(i) == {rows[i][f] : f \in DOMAIN ParentFields(i)} \ {"NONE"}
Kin(v) == LET up == Parents(v) IN {v} \cup up \cup UNION {Parents(w) : w \in up}

(* What a row is named by: its id, its own keys, and the fields by which   *)
(* requests name several rows.                                             *)
OwnKeys(i) ==
  {f \in DOMAIN ParentFields(i) : ParentFields(i)[f].table = rows[i].table}
Shared(i) == IF i \in DOMAIN rows /\ rows[i].table \in DOMAIN part.shared
             THEN part.shared[rows[i].table] ELSE {}
Own(i) == {i} \cup {rows[i][f] : f \in OwnKeys(i) \cup Shared(i)}

(* A row that is at home with request p: p named it (home), or something   *)
(* that it belongs to, or something that belongs to it (above).            *)
AtHome(p, i) == \/ (Own(i) \cup Kin(i)) \cap req[p].home # {}
                \/ Own(i) \cap req[p].above # {}

(* The rows that share a name, the fields that no two of their table should*)
(* share: those that do with row i of the rows all.                        *)
Key(row) == {row[f] : f \in part.unique[row.table]}
SameName(a, b) == a.table = b.table /\ Key(a) = Key(b)
Named(tables, all) == {i \in DOMAIN all : all[i].table \in tables}
Namesakes(i, all) ==
  {j \in Named(DOMAIN part.unique, all) \ {i} : SameName(all[i], all[j])}
Meeting(c, i) ==
  unsought' = IF "unsought" \in DOMAIN c
              THEN unsought \cup {{i, j} : j \in Namesakes(i, rows')}
              ELSE unsought

-----------------------------------------------------------------------------
(* Requests.                                                               *)

Naming(p, new) == crossed' = crossed \cup
                    UNION {req[q].named \cap new : q \in Busy \ {p}}

(* A write to a row of a table outside the part is passed over, and a loop *)
(* takes its next row as soon as what is before it is done.                *)
Elsewhere(c, env) == /\ c.op \in {"set", "bump", "incr", "swap", "drop",
                                    "include", "exclude"}
                     /\ c.as \notin DOMAIN env
RECURSIVE Settled(_)
Settled(r) ==
  IF r.calls = <<>> THEN r
  ELSE LET c == Head(r.calls)  next == [r EXCEPT !.calls = Tail(@)]
       IN  CASE Elsewhere(c, r.env) -> Settled(next)
             [] c.op = "loop" /\ c.rows = <<>> -> Settled(next)
             [] c.op = "loop" /\ c.rows # <<>> ->
                  Settled([next EXCEPT
                    !.calls = c.yes \o <<[c EXCEPT !.rows = Tail(@)]>> \o @,
                    !.env = Head(c.rows) @@ @])
             [] OTHER -> r

GoHome(p, calls, env, new, home, above) ==
  LET r == Settled([calls |-> calls, env |-> env,
                    named |-> req[p].named \cup new,
                    home |-> req[p].home \cup home,
                    above |-> req[p].above \cup above])
  IN  /\ req' = [req EXCEPT ![p] = IF r.calls = <<>> THEN Idle ELSE r]
      /\ Naming(p, new)
Goto(p, calls, env, new) == GoHome(p, calls, env, new, {}, {})

Domain(words, domain) == IF domain \in DOMAIN words THEN words[domain]
                         ELSE {i \in DOMAIN rows : rows[i].table = domain}
RECURSIVE Assignments(_, _)
Assignments(words, args) ==
  IF DOMAIN args = {} THEN {None}
  ELSE LET x == CHOOSE x \in DOMAIN args : TRUE
           rest == [y \in DOMAIN args \ {x} |-> args[y]]
       IN  {(x :> v) @@ env : v \in Domain(words, args[x]),
                              env \in Assignments(words, rest)}

Begin(p) ==
  /\ req[p] = Idle /\ req[Main] = Idle /\ begun < part.requests
  /\ LET this == This
     IN  \E h \in this.handlers : \E env \in Assignments(this.words, h.args) :
           LET named == UNION {Kin(env[x]) : x \in DOMAIN env}
           IN  GoHome(p, h.calls, env, named,
                      UNION {Own(env[x]) : x \in DOMAIN env}, named)
  /\ begun' = begun + 1
  /\ UNCHANGED <<part, rows, allotted, unsought>>

(* An instance of the Vercel adapter stops right after it saved a snapshot *)
(* and another one starts from it: requests in flight are cut short, what  *)
(* was kept in memory only is lost, with what it said of other rows, and   *)
(* the service seeds its defaults again.                                   *)
Kept == {i \in DOMAIN rows : rows[i].table \notin part.memory}
Restart ==
  /\ req[Main] = Idle /\ begun < part.requests
  /\ begun' = begun + 1
  /\ rows' = [i \in Kept |-> rows[i]]
  /\ crossed' = crossed \cup UNION {req[q].named : q \in Busy}
                 \cup (IF Busy = {} THEN {} ELSE {Main})
                 \cup (IF part.memory = {} THEN {}
                       ELSE UNION {Own(i) : i \in DOMAIN rows})
  /\ req' = [q \in Threads |->
               IF q = Main THEN [Idle EXCEPT !.calls = This.defaults]
               ELSE Idle]
  /\ UNCHANGED <<part, allotted, unsought>>

Init ==
  /\ \E n \in DOMAIN Parts :
       /\ part = ("name" :> n) @@ Schema(Running[n])
       /\ req = [q \in Threads |->
                   IF q = Main
                   THEN [Idle EXCEPT !.calls =
                           Running[n].defaults \o Running[n].config]
                   ELSE Idle]
  /\ rows = [i \in {} |-> 0] /\ allotted = 0 /\ begun = 0
  /\ crossed = {} /\ unsought = {}

-----------------------------------------------------------------------------
(* Calls.                                                                  *)

Calling(p, op) == req[p].calls # <<>> /\ Head(req[p].calls).op = op
Call(p) == Head(req[p].calls)
Rest(p) == Tail(req[p].calls)
Found(p) ==
  LET c == Call(p)  env == req[p].env
  IN  Where(c.table, c.where, env)
        \ (IF "but" \in DOMAIN c THEN {Value(env, c.but)} ELSE {})

DoRefuse(p) ==
  /\ Calling(p, "refuse")
  /\ Goto(p, <<>>, req[p].env, {})
  /\ UNCHANGED <<part, rows, allotted, begun, unsought>>

(* Locals for a row: its id, and the fields read from it.                  *)
Locals(c, i) == (c.as :> i) @@ [x \in DOMAIN c.reads |-> rows[i][c.reads[x]]]

DoSeek(p) ==
  LET c == Call(p)  env == req[p].env
  IN  /\ Calling(p, "seek")
      /\ \/ Found(p) = {} /\ Goto(p, c.no \o Rest(p), env, {})
         \/ /\ Found(p) # {}
            /\ LET i == First(Found(p))
               IN  GoHome(p, c.yes \o Rest(p), Locals(c, i) @@ env,
                          Kin(i), Own(i), Kin(i))
      /\ UNCHANGED <<part, rows, allotted, begun, unsought>>

DoFreeFor(p) ==
  LET c == Call(p)  env == req[p].env
      same == /\ c.unlessRead
              /\ \A f \in DOMAIN c.where : Value(env, c.where[f]) = env[f]
      own == c.as \in DOMAIN env /\ Found(p) # {} /\ First(Found(p)) = env[c.as]
  IN  /\ Calling(p, "freeFor")
      /\ Goto(p, IF same \/ own \/ Found(p) = {} THEN Rest(p) ELSE <<>>,
              env, {})
      /\ UNCHANGED <<part, rows, allotted, begun, unsought>>

(* A field of a row outside the part may have any value.                   *)
DoIf(p) ==
  LET c == Call(p)  env == req[p].env
      ways == IF c.field \notin DOMAIN env THEN {c.yes, c.no}
              ELSE IF \E word \in c.set : env[c.field] = Value(env, word)
              THEN {c.yes} ELSE {c.no}
  IN  /\ Calling(p, "if")
      /\ \E calls \in ways : Goto(p, calls \o Rest(p), env, {})
      /\ UNCHANGED <<part, rows, allotted, begun, unsought>>

DoTally(p) ==
  LET c == Call(p)
  IN  /\ Calling(p, "tally")
      /\ Goto(p, Rest(p), (c.as :> Cardinality(Found(p))) @@ req[p].env, {})
      /\ UNCHANGED <<part, rows, allotted, begun, unsought>>

DoAbove(p) ==
  LET c == Call(p)  x == c.as  env == req[p].env
      taken == {NumberOf(rows[i][x]) : i \in Found(p)}
      least == IF x \in DOMAIN env THEN NumberOf(env[x]) ELSE 1
  IN  /\ Calling(p, "above")
      /\ Goto(p, Rest(p),
              (x :> Nth(Max({least} \cup {k + 1 : k \in taken}))) @@ env, {})
      /\ UNCHANGED <<part, rows, allotted, begun, unsought>>

(* A loop over a listing goes over the rows of that moment.                *)
Loop(c, ids, calls) == [op |-> "loop", yes |-> calls,
                        rows |-> [k \in DOMAIN ids |-> Locals(c, ids[k])]]
ListedAtHome(p) ==
  {i \in Found(p) : AtHome(p, i)}
DoEach(p) ==
  LET c == Call(p)
  IN  /\ Calling(p, "each")
      /\ GoHome(p, <<Loop(c, InOrder(Found(p)), c.yes)>> \o Rest(p),
                req[p].env, Found(p), UNION {Own(i) : i \in ListedAtHome(p)},
                UNION {Kin(i) : i \in ListedAtHome(p)})
      /\ UNCHANGED <<part, rows, allotted, begun, unsought>>

DoEachOf(p) ==
  LET c == Call(p)  ids == InOrder(req[p].env[c.field])
      listed == [k \in DOMAIN ids |-> c.as :> ids[k]]
  IN  /\ Calling(p, "eachOf")
      /\ Goto(p, <<[op |-> "loop", yes |-> c.yes, rows |-> listed]>> \o Rest(p),
              req[p].env, {})
      /\ UNCHANGED <<part, rows, allotted, begun, unsought>>

DoKeep(p) ==
  LET c == Call(p)  ids == InOrder(Found(p))
      spare == [c EXCEPT !.as = "spare"]
  IN  /\ Calling(p, "keep")
      /\ IF ids = <<>> THEN Goto(p, c.no \o Rest(p), req[p].env, {})
         ELSE Goto(p, <<Loop(spare, Tail(ids),
                             <<[op |-> "drop", as |-> "spare"]>>)>> \o Rest(p),
                   Locals(c, Head(ids)) @@ req[p].env, Found(p))
      /\ UNCHANGED <<part, rows, allotted, begun, unsought>>

DoMint(p) ==
  LET c == Call(p)  fresh == "id" \notin DOMAIN c
      i == IF fresh THEN Ids[allotted + 1] ELSE c.id
  IN  /\ Calling(p, "mint")
      /\ allotted' = IF fresh THEN allotted + 1 ELSE allotted
      /\ GoHome(p, Rest(p), (c.as :> i) @@ (c.alone :> {i}) @@ req[p].env,
                {i}, {i}, {})
      /\ UNCHANGED <<part, rows, begun, unsought>>

DoAdd(p) ==
  LET c == Call(p)  minted == "minted" \in DOMAIN c
  IN  /\ Calling(p, "add")
      /\ allotted' = IF minted THEN allotted ELSE allotted + 1
      /\ LET i == IF minted THEN req[p].env[c.as] ELSE Ids[allotted']
             env == (c.as :> i) @@ req[p].env
             row == ("table" :> c.table) @@ Values(env, c.fields)
         IN  /\ rows' = (i :> row) @@ rows
             /\ Meeting(c, i)
             /\ GoHome(p, Rest(p), env, {i}, {i}, {})
      /\ UNCHANGED <<part, begun>>

Change(p, new, calls) ==
  LET i == req[p].env[Call(p).as]
  IN  /\ rows' = IF i \in DOMAIN rows
                 THEN [rows EXCEPT ![i] = new @@ @] ELSE rows
      /\ IF i \in DOMAIN rows THEN Meeting(Call(p), i) ELSE UNCHANGED unsought
      /\ Goto(p, calls \o Rest(p), req[p].env, Kin(i))
      /\ UNCHANGED <<part, allotted, begun>>

DoSet(p) ==
  LET c == Call(p)  env == req[p].env
  IN  /\ Calling(p, "set")
      /\ Change(p, Values(env, c.fields),
                IF env[c.as] \in DOMAIN rows THEN c.yes ELSE c.no)

Read(p, f) == IF f \in DOMAIN req[p].env THEN req[p].env[f] ELSE 0
DoBump(p) ==
  LET c == Call(p)
  IN  /\ Calling(p, "bump")
      /\ Change(p, c.field :> Max({0, Read(p, c.field) + c.by}), <<>>)

DoInclude(p) ==
  LET c == Call(p)  env == req[p].env
  IN  /\ Calling(p, "include")
      /\ Change(p, c.field :> (env[c.field] \cup {env[c.key]}),
                IF env[c.as] \in DOMAIN rows THEN c.yes ELSE c.no)

DoExclude(p) ==
  LET c == Call(p)  env == req[p].env
  IN  /\ Calling(p, "exclude")
      /\ Change(p, c.field :> (env[c.field] \ {env[c.key]}), <<>>)

DoIncr(p) ==
  LET c == Call(p)  i == req[p].env[c.as]
  IN  /\ Calling(p, "incr")
      /\ Change(p, IF i \in DOMAIN rows
                   THEN c.field :> Max({0, rows[i][c.field] + c.by}) ELSE None,
                <<>>)

DoSwap(p) ==
  LET c == Call(p)  env == req[p].env  i == env[c.as]
  IN  /\ Calling(p, "swap")
      /\ IF i \in DOMAIN rows => Matches(i, c.where, env)
         THEN Change(p, Values(env, c.fields), <<>>)
         ELSE Goto(p, <<>>, env, {}) /\ UNCHANGED <<part, rows, allotted, begun, unsought>>

DoDrop(p) ==
  /\ Calling(p, "drop")
  /\ rows' = Without(req[p].env[Call(p).as])
  /\ Goto(p, Rest(p), req[p].env, Kin(req[p].env[Call(p).as]))
  /\ UNCHANGED <<part, allotted, begun, unsought>>

Next ==
  \/ \E p \in Procs : Begin(p)
  \/ \E p \in Threads :
       \/ DoRefuse(p) \/ DoSeek(p) \/ DoFreeFor(p) \/ DoTally(p) \/ DoAbove(p)
       \/ DoIf(p) \/ DoEach(p) \/ DoEachOf(p) \/ DoKeep(p)
       \/ DoMint(p) \/ DoAdd(p) \/ DoSet(p) \/ DoBump(p) \/ DoInclude(p)
       \/ DoExclude(p) \/ DoIncr(p) \/ DoSwap(p) \/ DoDrop(p)
  \/ Restart

Spec == Init /\ [][Next]_vars

-----------------------------------------------------------------------------
(* No request is at work on any of S, and none that named one overlapped.  *)
AtRest(S) == /\ S \cap crossed = {}
             /\ \A q \in Busy : S \cap req[q].named = {}

(* Names that two rows of a table share were given by requests that        *)
(* overlapped, or by a write that looked for no row of that name: where a  *)
(* handler looks before it inserts or renames, or seeding before it seeds, *)
(* the lookup finds what the write would repeat, after any requests and    *)
(* restarts.  And of the rows that belong to one, no two are marked as the *)
(* chosen one (a primary address, the default of a project), unless        *)
(* requests for it overlapped.                                             *)
ChosenFor(i) == part.chosen[rows[i].table].by
Chosen(i) == Matches(i, part.chosen[rows[i].table].mark, None)
BothChosen(i, j) == /\ rows[i].table = rows[j].table /\ Chosen(i) /\ Chosen(j)
                    /\ rows[i][ChosenFor(i)] = rows[j][ChosenFor(j)]
UniqueUnlessRaced ==
  /\ \A i \in Named(DOMAIN part.unique, rows) : \A j \in Namesakes(i, rows) :
       {i, j} \notin unsought => ({i, j} \cup Key(rows[i])) \cap crossed # {}
  /\ \A i, j \in Named(DOMAIN part.chosen, rows) :
       i # j /\ BothChosen(i, j) => ~AtRest({rows[i][ChosenFor(i)]})

(* A row whose parent is gone was written by a request that overlapped     *)
(* with the deletion, or the deletion is under way: cascades reach every   *)
(* row that belongs to what goes.                                          *)
Gone(i, f) == LET parent == ParentFields(i)[f]
              IN  Where(parent.table, parent.key :> rows[i][f], None) = {}
NoDangling ==
  \A i \in DOMAIN rows : \A f \in DOMAIN ParentFields(i) \ part.outlive :
    rows[i][f] # "NONE" /\ Gone(i, f) => ~AtRest({i} \cup Parents(i))

(* A number kept in a row is that of the rows it counts, and a list that is*)
(* kept in a row is that of the rows it is about, whenever no request is at*)
(* work on it or on what it belongs to, unless requests overlapped.  *)
(* One that is only changed under the lock of its collection is right      *)
(* although they did, as long as no row was deleted and none cut short.    *)
(* Rows that share a name nobody looked for share what is counted by it.   *)
KeyedAs(i, by) ==
  [f \in DOMAIN by |-> IF by[f] = "id" THEN i ELSE rows[i][by[f]]]
Counted(k, i) ==
  LET found == Where(k.of, KeyedAs(i, k.by) @@ k.where, None)
  IN  IF "list" \in DOMAIN k THEN found ELSE Cardinality(found)
InTurn(k, i) == AtRest(Kin(i) \cup {KeyedAs(i, k.by)[f] : f \in DOMAIN k.by})
UnderLock(k) == /\ k.field \in part.locked /\ Busy = {} /\ Main \notin crossed
                /\ Cardinality(DOMAIN rows) = allotted
CountsAgree ==
  \A k \in part.counts : \A i \in Where(k.table, None, None) :
    (InTurn(k, i) \/ UnderLock(k)) /\ i \notin UNION unsought
      => rows[i][k.field] = Counted(k, i)

(* What is kept in two rows is in both, and the same in both, unless       *)
(* requests for them, or for what they belong to, overlapped.              *)
CopiesAgree ==
  \A k \in part.copies : \A i \in Where(k.table, None, None) :
    LET found == Where(k.of, KeyedAs(i, k.by), None)
    IN  AtRest(Kin(i) \cup found) =>
          /\ found # {}
          /\ \A j \in found, f \in k.fields : rows[i][f] = rows[j][f]

(* What is final for a row stays so, in its other fields, unless requests  *)
(* for it, or for what it belongs to, overlapped.                          *)
FinalStays ==
  \A k \in part.final : \A i \in Where(k.table, k.given, None) :
    AtRest(Kin(i)) => Matches(i, k.holds, None)

(* A request changes or deletes only what its caller named or it looked up *)
(* itself, what belongs to that and what that belongs to, and what it      *)
(* added: cascades, sweeps and the clearing of marks never reach the rows  *)
(* of another owner, unless a request that overlapped moved them there; a  *)
(* restart loses what is in no snapshot.                                   *)
Touched == {i \in DOMAIN rows : i \notin DOMAIN rows' \/ rows'[i] # rows[i]}
ChangesStayHome ==
  [][\/ Restart \/ req[Main] # Idle
     \/ \A i \in Touched \ crossed : \E p \in Procs : AtHome(p, i)]_vars
=============================================================================
