------------------------------ MODULE StoreCalls ------------------------------
(***************************************************************************)
(* The words in which the modules of the services say what a handler does: *)
(* the calls it makes on the collections, in the order of its code.  What  *)
(* a call does is defined in Services.                                     *)
(*                                                                         *)
(* A row is a record with a table, an id and fields.  A value in a call is *)
(* the name of a local of the request, and a literal when the request has  *)
(* no such local (zero, one and nothing are the numbers and the empty list*)
(* rather than the words).  Locals are the arguments,                      *)
(* the rows it found or inserted (by their ids), and the fields that       *)
(* Reading asked for, with the value of that moment and, but for           *)
(* ReadingAs, under the name of the field.                                 *)
(***************************************************************************)
EXTENDS Sequences, TLC

(* A handler has arguments, each a name, a word, a number or the id of a   *)
(* row of a table, and calls.  A handler with alternatives (the parts of a *)
(* body that may be missing) is a longer sequence of these.                *)
Handler(args, calls) == <<[args |-> args, calls |-> calls]>>
None == [none \in {} |-> none]

(* Ends the request: the handler answers with an error.                    *)
Refuse == [op |-> "refuse"]

(* The first row of table t with the fields m, but for the row y, becomes  *)
(* local x and the calls yes follow, or there is none and no follow.       *)
SeekBut(y, x, t, m, yes, no) ==
  [op |-> "seek", as |-> x, but |-> y, table |-> t, where |-> m, reads |-> None,
   yes |-> yes, no |-> no]
Seek(x, t, m, yes, no) == SeekBut("no row", x, t, m, yes, no)
Find(t, x) == Seek(x, t, [id |-> x], <<>>, <<Refuse>>)
FindBy(x, t, m) == Seek(x, t, m, <<>>, <<Refuse>>)
Free(t, m) == Seek("other", t, m, <<Refuse>>, <<>>)
FreeBut(y, t, m) == SeekBut(y, "other", t, m, <<Refuse>>, <<>>)
IfAny(x, t, m, yes) == Seek(x, t, m, yes, <<>>)
IfNone(t, m, no) == Seek("other", t, m, <<>>, no)
ReadingAs(seek, x, field) == [seek EXCEPT !.reads = (x :> field) @@ @]
ReadingAll(seek, fields) ==
  [seek EXCEPT !.reads = [x \in fields |-> x] @@ @]
Reading(seek, field) == ReadingAs(seek, field, field)

(* A new name must be free, or be that of x, unless it is the one read;    *)
(* FreeOrOwn looks for the one read too.                                   *)
FreeFor(x, t, m) ==
  [op |-> "freeFor", as |-> x, table |-> t, where |-> m, unlessRead |-> TRUE]
FreeOrOwn(x, t, m) == [FreeFor(x, t, m) EXCEPT !.unlessRead = FALSE]

(* The number of rows of t with the fields m becomes local x.              *)
Tally(x, t, m) == [op |-> "tally", as |-> x, table |-> t, where |-> m]

(* What was read decides.                                                  *)
If(field, S, yes, no) ==
  [op |-> "if", field |-> field, set |-> S, yes |-> yes, no |-> no]
Needs(field, S) == If(field, S, <<>>, <<Refuse>>)

(* Local x becomes a number above the field x of the rows of t with the    *)
(* fields m, and not below what it is already.                             *)
Above(x, t, m) == [op |-> "above", as |-> x, table |-> t, where |-> m]

(* Writes.  Set of a row that is gone does nothing, and SetThen makes the  *)
(* calls yes after a row that was there, and no after one that was not;    *)
(* Bump writes the number that was read from the field plus by, at least 0 *)
(* (a new row was not read: 0).  The fields of a new row may name the row  *)
(* itself: a key that is random.                                           *)
Add(x, t, f) == [op |-> "add", as |-> x, table |-> t, fields |-> f]
SetThen(x, f, yes, no) ==
  [op |-> "set", as |-> x, fields |-> f, yes |-> yes, no |-> no]
Set(x, f) == SetThen(x, f, <<>>, <<>>)
Bump(x, field, by) == [op |-> "bump", as |-> x, field |-> field, by |-> by]
Drop(x) == [op |-> "drop", as |-> x]

(* A write of a name that the handler did not look for, or looked for where*)
(* it is not.                                                              *)
Unsought(write) == [unsought |-> TRUE] @@ write

(* A key that a record lists, and that is the id of a row of its own: Mint *)
(* makes it before there is a row (or takes the fixed one), as x, with the *)
(* list of it alone; AddAs inserts the row, or replaces it.  Include and   *)
(* Exclude write the list that was read with y, or without, and EachOf     *)
(* goes over the list that was read.                                       *)
Mint(x, alone) == [op |-> "mint", as |-> x, alone |-> alone]
Fixed(x, alone, id) == [id |-> id] @@ Mint(x, alone)
AddAs(x, t, f) == [minted |-> TRUE] @@ Add(x, t, f)
Include(x, field, y, yes, no) ==
  [op |-> "include", as |-> x, field |-> field, key |-> y, yes |-> yes, no |-> no]
Exclude(x, field, y) == [op |-> "exclude", as |-> x, field |-> field, key |-> y]
EachOf(field, x, calls) ==
  [op |-> "eachOf", field |-> field, as |-> x, yes |-> calls]

(* Updates under the lock of the collection (UpdateFunc): Incr adds to the *)
(* field, and Swap writes f if the row still has the fields m, or refuses. *)
Incr(x, field, by) == [Bump(x, field, by) EXCEPT !.op = "incr"]
Swap(x, m, f) == [op |-> "swap", as |-> x, where |-> m, fields |-> f]

(* Writes only fields that the models leave out.                           *)
Patch(x) == Set(x, None)

(* Lists the rows of t with the fields m, but for the row y, and makes the *)
(* calls for each of them, as x.  KeepOne drops all but the first, which   *)
(* becomes x, or makes the calls no if there is none.                      *)
EachBut(y, x, t, m, calls) ==
  [op |-> "each", as |-> x, but |-> y, table |-> t, where |-> m, reads |-> None,
   yes |-> calls]
KeepOne(x, t, m, no) ==
  [op |-> "keep", as |-> x, table |-> t, where |-> m, reads |-> None,
   no |-> no]
Each(x, t, m, calls) == EachBut("no row", x, t, m, calls)
DropAll(t, m) == Each("each", t, m, <<Drop("each")>>)
SetAll(t, m, f) == Each("each", t, m, <<Set("each", f)>>)

(* Inserts a row unless one is there.                                      *)
Ensure(x, t, m, f) == Seek(x, t, m, <<>>, <<Add(x, t, f)>>)

(* Reads of a listing, on which nothing depends.                           *)
Look(t) == [op |-> "look", table |-> t]
Reads(t) == Handler(None, <<Look(t)>>)

(* A part: its tables, its handlers, and its schema, which tells what      *)
(* starting the service inserts (defaults on every start, config on the    *)
(* first), the fields that name a parent, those that no two rows share,    *)
(* counts and lists of rows, copies and final fields, the words that clients use when they   *)
(* are not any names, the fields that outlive the parent they name, the    *)
(* counts that are changed under a lock, the tables that are in no         *)
(* snapshot, the fields by which requests name several rows that share no  *)
(* parent, and a bound on the requests.                                    *)
Part(tables, handlers, schema) ==
  schema @@ [tables |-> tables, handlers |-> handlers, defaults |-> <<>>,
             config |-> <<>>, parents |-> None, unique |-> None,
             counts |-> {}, copies |-> {}, final |-> {}, chosen |-> None,
             words |-> None, outlive |-> {}, locked |-> {}, memory |-> {},
             shared |-> None, requests |-> 2]

(* What the schema of a part says of a field: it holds the id, or another  *)
(* key, of a row of table t.                                               *)
Id(t) == [table |-> t, key |-> "id"]
Key(t, k) == [table |-> t, key |-> k]
=============================================================================
