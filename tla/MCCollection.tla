---------------------------- MODULE MCCollection -----------------------------
(* Collection over two fields and three values, two of which print alike.  *)
EXTENDS Collection

CONSTANTS f1, f2, one, oneText, two

MCFields == {f1, f2}
MCValues == {one, oneText, two}
MCKeys == {"1", "2", "<nil>"}
MCKeyOf ==
  [v \in {one, oneText, two, NIL} |->
     IF v = two THEN "2" ELSE IF v = NIL THEN "<nil>" ELSE "1"]

Both(v, w) == [f \in {f1, f2} |-> IF f = f1 THEN v ELSE w]
At(k, i, rec) == [at |-> k, id |-> i, rec |-> rec]

(* Snapshots of other index fields, with a counter behind the ids, empty,  *)
(* with a repeated id, in another record and in the same, and with an id   *)
(* that is not positive.                                                   *)
MCSnapshots == {
  [entries |-> {At(1, 1, Both(one, NIL)), At(2, 2, Both(two, two))},
   autoID |-> 0, fields |-> {f2}],
  [entries |-> {At(1, 2, Both(oneText, one))}, autoID |-> 2, fields |-> {f1}],
  [entries |-> {}, autoID |-> 3, fields |-> {f1, f2}],
  [entries |-> {At(1, 1, Both(one, one)), At(2, 1, Both(two, one))},
   autoID |-> 2, fields |-> {}],
  [entries |-> {At(1, 1, Both(one, one)), At(2, 1, Both(one, one))},
   autoID |-> 2, fields |-> {f1}],
  [entries |-> {At(1, 0, Both(one, one))}, autoID |-> 1, fields |-> {f1}]}
=============================================================================
