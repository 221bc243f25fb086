-------------------------- MODULE GmailHistoryProofs --------------------------
(***************************************************************************)
(* Proofs about GmailHistory, for all finite sets of requests, every set   *)
(* of clients, messages and labels, every size of the pages and every      *)
(* bound.  A listing knows the rows of all the ids that its pages have     *)
(* passed, and whoever holds an id that it may still overlook has been     *)
(* noted (ListingsSound); the rows of a message tell its labels but for    *)
(* those in rows its one request has yet to insert (MailsSound).           *)
(***************************************************************************)
EXTENDS GmailHistory, FiniteSetTheorems, SequenceTheorems,
        WellFoundedInduction, TLAPS

(* The ids that were given, and that are to be given to those who wait.    *)
Numbered ==
  /\ lastHistoryID + Cardinality(Generating) =< MaxHistory
  /\ \A r \in history : r.id =< lastHistoryID
  /\ \A m \in DOMAIN message : message[m].history =< lastHistoryID
  /\ \A p \in Writers : writer[p].id =< lastHistoryID
  /\ \A c \in Clients : /\ client[c].start =< lastHistoryID
                        /\ client[c].latest =< lastHistoryID

(* What the locals of a request mean, whatever others do.                  *)
RowSound(w, row) ==
  /\ row.kind = "labelAdded" => row.labels \subseteq w.read
  /\ row.kind = "labelRemoved" => row.labels \cap w.read = {}
  /\ row.kind \notin {"labelAdded", "labelRemoved"} => row.labels = {}
  /\ row.kind = "messageDeleted" => w.op = "delete"
Sound(w) ==
  /\ w.step = "idle" => w = IdleWriter
  /\ w.step # "idle" => w.of \in Messages /\ w.op # "none"
  /\ w.id # 0 <=> w.step \in {"write", "record"}
  /\ w.rows # <<>> <=> w.step = "record"
  /\ w.op = "draft" => w.labels = w.read
  /\ w.op = "delete" => w.step \in {"generate", "record", "drop"} /\ ~w.filters
                        /\ (w.step = "record" => Len(w.rows) = 1)
  /\ \A i \in 1..Len(w.rows) : RowSound(w, w.rows[i])
  /\ \A i, j \in 1..Len(w.rows) :
       i # j => w.rows[i].labels \cap w.rows[j].labels = {}

(* What a listing that goes on has told of, or is about to: the ids up to  *)
(* its start, and those whose places it has passed.                        *)
Answering(k) == k.step \in {"listed", "latest"}
Passed(k) == IF Answering(k) THEN k.offset + PageSize ELSE k.offset
Reached(k, id) == \/ id =< k.start \/ Rank(id, k.start) =< Passed(k)
                  \/ Answering(k) /\ ~k.more
Known(c, r) == r \in seen[c] \cup client[c].page \/ r.id \in raced[c]
ListingSound(c) ==
  /\ ~Answering(client[c]) => client[c].page = {}
  /\ client[c].step = "ready" => client[c].offset = 0
  /\ \A r \in client[c].page : r.id > client[c].start
  /\ \A p \in Writers :
       /\ writer[p].id # 0
       /\ client[c].step # "ready" \/ writer[p].id =< client[c].start
       => writer[p].id \in raced[c]
  /\ \A r \in history : Reached(client[c], r.id) => Known(c, r)
ListingsSound == \A c \in Clients : ListingSound(c)

(* What the rows of a message tell of its labels, but for the labels in    *)
(* rows that are still to come.                                            *)
RowsFor(m) == {r \in history : r.of = m}
Coming(w) == {l \in Labels : \E i \in 1..Len(w.rows) : l \in w.rows[i].labels}
Tells(R, kind, l) ==
  \E r \in R : /\ l \in r.labels /\ r.kind = kind
               /\ \A other \in R : l \in other.labels => other.id =< r.id
Follows(R, labels, coming) ==
  \A l \in Labels \ coming :
    /\ Tells(R, "labelAdded", l) => l \in labels
    /\ Tells(R, "labelRemoved", l) => l \notin labels
Deleted(R) == \E r \in R : r.kind = "messageDeleted"

(* The messages whose requests did not overlap: at rest, and in the hands  *)
(* of their one request.                                                   *)
AtRest(m) ==
  m \in DOMAIN message =>
    Follows(RowsFor(m), message[m].labels, {}) /\ ~Deleted(RowsFor(m))
InHand(m, w) ==
  /\ w.op = "add" /\ w.step \in {"generate", "write"}
       => m \notin DOMAIN message /\ RowsFor(m) = {}
  /\ m \in DOMAIN message => /\ message[m].labels = w.read
                             /\ Follows(RowsFor(m), w.read, Coming(w))
                             /\ w.step # "drop" => ~Deleted(RowsFor(m))
  /\ w.step = "write" => \A r \in RowsFor(m) : r.id < w.id
  /\ w.step = "record" =>
       \A r \in RowsFor(m) : /\ r.id =< w.id
                             /\ r.id = w.id => r.labels \cap Coming(w) = {}
MailSound(m) ==
  /\ Undisturbed(m) => AtRest(m)
  /\ \A p \in Writers : writer[p].of = m =>
       /\ InHand(m, writer[p])
       /\ \A q \in Writers : writer[q].of = m => q = p
MailsSound == \A m \in Messages \ crossed : MailSound(m)

IInv == /\ TypeOK /\ Numbered /\ \A p \in Writers : Sound(writer[p])
        /\ ListingsSound /\ MailsSound

-----------------------------------------------------------------------------
(* Places and greatest ids.                                                *)

(* Of some ids in a finite range, those up to a given one are counted.     *)
Places(I, s, id) == {j \in {i \in I : i > s} : j =< id}
LEMMA Counted ==
  ASSUME NEW n \in Nat, NEW I \in SUBSET (1..n), NEW J \in SUBSET I,
         NEW s \in Nat, NEW id \in Nat
  PROVE  /\ Cardinality(Places(I, s, id)) \in Nat
         /\ Cardinality(Places(J, s, id)) =< Cardinality(Places(I, s, id))
         /\ Cardinality({i \in I : i > s}) \in Nat
         /\ Cardinality(Places(I, s, id)) =< Cardinality({i \in I : i > s})
         /\ id \in I /\ id > s => Cardinality(Places(I, s, id)) >= 1
  <1> DEFINE A == {i \in I : i > s}
  <1>1. IsFiniteSet(I)
    <2>1. IsFiniteSet(1..n)
      BY FS_Interval
    <2> QED  BY <2>1, FS_Subset
  <1>2. IsFiniteSet(A) /\ IsFiniteSet(Places(I, s, id))
    <2>1. A \in SUBSET I /\ Places(I, s, id) \in SUBSET I
      BY DEF Places
    <2> QED  BY <1>1, <2>1, FS_Subset
  <1>3. Cardinality(A) \in Nat /\ Cardinality(Places(I, s, id)) \in Nat
    BY <1>2, FS_CardinalityType
  <1>4. Cardinality(Places(J, s, id)) =< Cardinality(Places(I, s, id))
    <2>1. Places(J, s, id) \in SUBSET Places(I, s, id)
      BY DEF Places
    <2> QED  BY <1>2, <2>1, FS_Subset
  <1>5. Cardinality(Places(I, s, id)) =< Cardinality(A)
    <2>1. Places(I, s, id) \in SUBSET A
      BY DEF Places
    <2> HIDE DEF A
    <2> QED  BY <1>2, <2>1, FS_Subset
  <1>6. ASSUME id \in I, id > s PROVE Cardinality(Places(I, s, id)) >= 1
    <2>1. Places(I, s, id) # {}
      BY <1>6 DEF Places
    <2>2. Cardinality(Places(I, s, id)) # 0
      BY <1>2, <2>1, FS_EmptySet
    <2> QED  BY <1>3, <2>2
  <1> QED  BY <1>3, <1>4, <1>5, <1>6

(* The place of an id in a listing.                                        *)
LEMMA RankFacts ==
  ASSUME TypeOK, NEW s \in Nat, NEW id \in Nat
  PROVE  /\ Rank(id, s) \in Nat /\ Cardinality(After(s)) \in Nat
         /\ Rank(id, s) =< Cardinality(After(s))
         /\ id \in Ids /\ id > s => Rank(id, s) >= 1
  <1>1. Ids \in SUBSET (1..MaxHistory) /\ MaxHistory \in Nat
    BY HistoryAssumption DEF TypeOK, Ids, Row
  <1>2. PICK I : I = Ids
    OBVIOUS
  <1>3. /\ Rank(id, s) = Cardinality(Places(I, s, id))
        /\ After(s) = {i \in I : i > s}
    BY <1>2 DEF Rank, After, Places
  <1>4. I \in SUBSET (1..MaxHistory) /\ I \in SUBSET I /\ MaxHistory \in Nat
    BY <1>1, <1>2
  <1>5. /\ Cardinality(Places(I, s, id)) \in Nat
        /\ Cardinality({i \in I : i > s}) \in Nat
        /\ Cardinality(Places(I, s, id)) =< Cardinality({i \in I : i > s})
        /\ id \in I /\ id > s => Cardinality(Places(I, s, id)) >= 1
    BY <1>4, Counted
  <1> QED  BY <1>2, <1>3, <1>5

LEMMA RankFactsNext ==
  ASSUME TypeOK', NEW s \in Nat, NEW id \in Nat
  PROVE  /\ Rank(id, s)' \in Nat
         /\ (id \in Ids)' /\ id > s => Rank(id, s)' >= 1
  <1>1. PICK I : I = {r.id : r \in history'}
    OBVIOUS
  <1>2. I \in SUBSET (1..MaxHistory) /\ I \in SUBSET I /\ MaxHistory \in Nat
    BY <1>1, HistoryAssumption DEF TypeOK, Row
  <1>3. Rank(id, s)' = Cardinality(Places(I, s, id)) /\ ((id \in Ids)' <=> id \in I)
    BY <1>1 DEF Rank, After, Places, Ids
  <1>4. /\ Cardinality(Places(I, s, id)) \in Nat
        /\ id \in I /\ id > s => Cardinality(Places(I, s, id)) >= 1
    BY <1>2, Counted
  <1> QED  BY <1>3, <1>4

(* Places only grow with the history.                                      *)
LEMMA RankGrows ==
  ASSUME TypeOK, TypeOK', history \subseteq history',
         NEW s \in Nat, NEW id \in Nat
  PROVE  Rank(id, s) =< Rank(id, s)'
  <1> DEFINE New == {r.id : r \in history'}
  <1>1. New \in SUBSET (1..MaxHistory) /\ Ids \in SUBSET New /\ MaxHistory \in Nat
    BY HistoryAssumption DEF TypeOK, Ids, Row
  <1>2. PICK I, J : I = New /\ J = Ids
    OBVIOUS
  <1>3. Cardinality(Places(J, s, id)) =< Cardinality(Places(I, s, id))
    <2>1. I \in SUBSET (1..MaxHistory) /\ J \in SUBSET I /\ MaxHistory \in Nat
      BY <1>1, <1>2
    <2> QED  BY <2>1, Counted
  <1>4. /\ Rank(id, s) = Cardinality(Places(J, s, id))
        /\ Rank(id, s)' = Cardinality(Places(I, s, id))
    BY <1>2 DEF Rank, After, Ids, Places
  <1> QED  BY <1>3, <1>4

(* There is a least number.                                                *)
LEMMA LeastFacts ==
  ASSUME NEW S \in SUBSET Nat, S # {}
  PROVE  \E x \in S : \A y \in S : x =< y
  <1>1. PICK R : R = {ss \in Nat \X Nat : ss[1] < ss[2]}
    OBVIOUS
  <1>2. IsWellFoundedOn(R, Nat)
    BY <1>1, NatLessThanWellFounded, Zenon DEF OpToRel
  <1>3. PICK x \in S : \A y \in S : <<y, x>> \notin R
    BY <1>2, WFMin
  <1>4. ASSUME NEW y \in S, y < x PROVE FALSE
    <2>1. PICK z : z = <<y, x>>
      OBVIOUS
    <2>2. z \in Nat \X Nat /\ z[1] < z[2]
      BY <1>4, <2>1
    <2>3. z \in R
      BY <1>1, <2>2
    <2> QED  BY <1>3, <2>1, <2>3
  <1> QED  BY <1>3, <1>4

(* The latest of some ids is one of them, or zero.                         *)
LEMMA LatestFacts ==
  ASSUME NEW n \in Nat, NEW S \in SUBSET (0..n)
  PROVE  Latest(S) \in 0..n
  <1> DEFINE T == {0} \cup S
             U == {u \in Nat : \A y \in T : y =< u}
  <1>1. n \in U /\ U \in SUBSET Nat /\ T \in SUBSET (0..n) /\ 0 \in T
    OBVIOUS
  <1>2. PICK m \in U : \A u \in U : m =< u
    <2> HIDE DEF U
    <2> QED  BY <1>1, LeastFacts
  <1>3. m \in T
    <2>1. SUFFICES ASSUME m \notin T PROVE FALSE
      OBVIOUS
    <2>2. m \in Nat /\ \A y \in T : y \in Nat /\ y =< m /\ y # m
      BY <1>1, <1>2, <2>1
    <2>3. m # 0 /\ m - 1 \in Nat
      BY <1>1, <2>2
    <2>4. m - 1 \in U
      BY <2>2, <2>3
    <2> QED  BY <1>2, <2>2, <2>4
  <1>4. \A y \in T : m >= y
    BY <1>1, <1>2
  <1>5. Max(T) \in T
    <2> HIDE DEF T
    <2> QED  BY <1>3, <1>4 DEF Max
  <1> QED  BY <1>1, <1>5 DEF Latest

-----------------------------------------------------------------------------
(* What the steps share.                                                   *)

(* One request goes on: the others stay where they were.                   *)
Others(p) == \A q \in Writers : q # p => writer'[q] = writer[q]
LEMMA GotoFacts ==
  ASSUME IInv, NEW p \in Writers, NEW w \in Writer, Sound(w), Goto(p, w)
  PROVE  /\ writer' \in [Writers -> Writer] /\ writer'[p] = w /\ Others(p)
         /\ (\A q \in Writers : Sound(writer[q]))'
  <1>1. writer' \in [Writers -> Writer] /\ writer'[p] = w /\ Others(p)
    BY DEF IInv, TypeOK, Goto, Others
  <1>2. ASSUME NEW q \in Writers PROVE Sound(writer[q])'
    <2>1. Sound(writer'[q])
      BY <1>1 DEF IInv, Others
    <2> QED  BY <2>1 DEF Sound, RowSound, IdleWriter
  <1> QED  BY <1>1, <1>2

(* Those who wait for an id.                                               *)
LEMMA Waiting ==
  ASSUME IInv, NEW p \in Writers, writer' \in [Writers -> Writer], Others(p)
  PROVE  /\ Cardinality(Generating) \in Nat
         /\ At(p, "generate") /\ ~At(p, "generate")' =>
              /\ Cardinality(Generating') = Cardinality(Generating) - 1
              /\ Cardinality(Generating) >= 1
         /\ ~At(p, "generate") /\ At(p, "generate")' =>
              Cardinality(Generating') = Cardinality(Generating) + 1
         /\ (At(p, "generate") <=> At(p, "generate")') =>
              Cardinality(Generating') = Cardinality(Generating)
  <1>1. IsFiniteSet(Generating)
    <2>1. Generating \in SUBSET Writers /\ IsFiniteSet(Writers)
      BY WriterAssumption DEF Generating
    <2> QED  BY <2>1, FS_Subset
  <1>2. Cardinality(Generating) \in Nat
    BY <1>1, FS_CardinalityType
  <1>3. CASE At(p, "generate") /\ ~At(p, "generate")'
    <2>1. Generating' = Generating \ {p} /\ p \in Generating
      BY <1>3 DEF Generating, At, Others
    <2>2. Cardinality(Generating \ {p}) = Cardinality(Generating) - 1
      BY <1>1, <2>1, FS_RemoveElement
    <2>3. Cardinality(Generating) # 0
      BY <1>1, <2>1, FS_EmptySet
    <2> QED  BY <1>2, <1>3, <2>1, <2>2, <2>3
  <1>4. CASE ~At(p, "generate") /\ At(p, "generate")'
    <2>1. Generating' = Generating \cup {p} /\ p \notin Generating
      BY <1>4 DEF Generating, At, Others
    <2>2. Cardinality(Generating \cup {p}) = Cardinality(Generating) + 1
      BY <1>1, <2>1, FS_AddElement
    <2> QED  BY <1>2, <1>4, <2>1, <2>2
  <1>5. CASE At(p, "generate") <=> At(p, "generate")'
    <2>1. Generating' = Generating
      BY <1>5 DEF Generating, At, Others
    <2> QED  BY <1>2, <1>5, <2>1
  <1> QED  BY <1>2, <1>3, <1>4, <1>5

(* A request that goes on without an id that is new leaves the listings as *)
(* they are, whatever row it inserts.                                      *)
LEMMA ListingsKept ==
  ASSUME IInv, TypeOK', UNCHANGED <<client, seen>>, history \subseteq history',
         \A r \in history' \ history :
           \E p \in Writers : writer[p].id # 0 /\ r.id = writer[p].id,
         \A c \in Clients : raced[c] \subseteq raced'[c],
         \A p \in Writers : writer'[p].id # 0 =>
           \/ writer'[p].id = writer[p].id
           \/ /\ writer'[p].id > lastHistoryID
              /\ \A c \in Listing : writer'[p].id \in raced'[c]
  PROVE  ListingsSound'
  <1>1. TypeOK /\ ListingsSound /\ Numbered
    BY DEF IInv
  <1>2. SUFFICES ASSUME NEW c \in Clients
                 PROVE  /\ (~Answering(client[c]) => client[c].page = {})'
                        /\ (client[c].step = "ready" => client[c].offset = 0)'
                        /\ (\A r \in client[c].page : r.id > client[c].start)'
                        /\ \A p \in Writers :
                             /\ writer'[p].id # 0
                             /\ \/ client'[c].step # "ready"
                                \/ writer'[p].id =< client'[c].start
                             => writer'[p].id \in raced'[c]
                        /\ \A r \in history' :
                             Reached(client[c], r.id)' => Known(c, r)'
    BY DEF ListingsSound, ListingSound
  <1>3. client'[c] = client[c] /\ seen'[c] = seen[c]
    OBVIOUS
  <1>4. /\ (~Answering(client[c]) => client[c].page = {})'
        /\ (client[c].step = "ready" => client[c].offset = 0)'
        /\ (\A r \in client[c].page : r.id > client[c].start)'
    BY <1>1, <1>3 DEF ListingsSound, ListingSound, Answering
  <1>5. /\ client[c] \in Client /\ client[c].start =< lastHistoryID
        /\ client[c].start \in Nat /\ lastHistoryID \in Nat
    BY <1>1, HistoryAssumption DEF TypeOK, Client, Numbered
  <1>6. ASSUME NEW p \in Writers, writer'[p].id # 0,
               client'[c].step # "ready" \/ writer'[p].id =< client'[c].start
        PROVE  writer'[p].id \in raced'[c]
    <2>1. CASE writer'[p].id = writer[p].id
      BY <1>1, <1>3, <1>6, <2>1 DEF ListingsSound, ListingSound
    <2>2. CASE /\ writer'[p].id > lastHistoryID
               /\ \A d \in Listing : writer'[p].id \in raced'[d]
      <3>1. writer'[p].id \in Nat
        BY HistoryAssumption DEF TypeOK, Writer
      <3>2. c \in Listing
        BY <1>3, <1>5, <1>6, <2>2, <3>1 DEF Listing
      <3> QED  BY <2>2, <3>2
    <2> QED  BY <1>6, <2>1, <2>2
  <1>7. ASSUME NEW r \in history', Reached(client[c], r.id)'
        PROVE  Known(c, r)'
    <2>1. r.id \in Nat /\ client[c].start \in Nat /\ client[c].offset \in Nat
      BY <1>5, HistoryAssumption DEF TypeOK, Row, Client
    <2>2. CASE r \in history
      <3>1. Rank(r.id, client[c].start) =< Rank(r.id, client[c].start)'
        <4>1. PICK s \in Nat : s = client[c].start
          BY <2>1
        <4>2. PICK i \in Nat : i = r.id
          BY <2>1
        <4>3. Rank(i, s) =< Rank(i, s)'
          BY <1>1, RankGrows
        <4>4. Rank(i, s)' = Rank(i, client[c].start)'
          BY <1>3, <4>1 DEF Rank, After
        <4> QED  BY <4>1, <4>2, <4>3, <4>4
      <3>2. /\ Rank(r.id, client[c].start) \in Nat
            /\ Rank(r.id, client[c].start)' \in Nat
        <4>1. Rank(r.id, client[c].start) \in Nat
          BY <1>1, <2>1, RankFacts
        <4>2. PICK s \in Nat : s = client'[c].start
          BY <1>3, <2>1
        <4>3. PICK i \in Nat : i = r.id
          BY <2>1
        <4>4. Rank(i, s)' \in Nat
          BY RankFactsNext
        <4>5. Rank(i, client[c].start)' = Rank(i, s)'
          BY <4>2 DEF Rank, After
        <4> QED  BY <4>1, <4>3, <4>4, <4>5
      <3>3. Reached(client[c], r.id)
        BY <1>3, <1>7, <2>1, <3>1, <3>2, HistoryAssumption
           DEF Reached, Passed, Answering
      <3>4. Known(c, r)
        BY <1>1, <2>2, <3>3 DEF ListingsSound, ListingSound
      <3> QED  BY <1>3, <3>4 DEF Known
    <2>3. CASE r \notin history
      <3>1. PICK p \in Writers : writer[p].id # 0 /\ r.id = writer[p].id
        BY <2>3
      <3>2. CASE client[c].step # "ready" \/ r.id =< client[c].start
        BY <1>1, <3>1, <3>2 DEF ListingsSound, ListingSound, Known
      <3>3. CASE client[c].step = "ready" /\ ~(r.id =< client[c].start)
        <4>1. client[c].offset = 0
          BY <1>1, <3>3 DEF ListingsSound, ListingSound
        <4>2. PICK s \in Nat : s = client'[c].start
          BY <1>3, <2>1
        <4>3. PICK i \in Nat : i = r.id
          BY <2>1
        <4>4. (i \in Ids)' /\ i > s
          BY <1>3, <2>1, <3>3, <4>2, <4>3 DEF Ids
        <4>5. Rank(i, s)' \in Nat /\ Rank(i, s)' >= 1
          BY <4>4, RankFactsNext
        <4>6. Rank(i, client[c].start)' = Rank(i, s)'
          BY <4>2 DEF Rank, After
        <4>7. ~Reached(client[c], r.id)'
          BY <1>3, <2>1, <3>3, <4>1, <4>3, <4>5, <4>6
             DEF Reached, Passed, Answering
        <4> QED  BY <1>7, <4>7
      <3> QED  BY <3>2, <3>3
    <2> QED  BY <2>2, <2>3
  <1> QED  BY <1>2, <1>4, <1>6, <1>7

(* The mail that a step does not touch stays sound.                        *)
Untouched(m) ==
  /\ RowsFor(m)' = RowsFor(m)
  /\ m \in DOMAIN message' <=> m \in DOMAIN message
  /\ m \in DOMAIN message => message'[m].labels = message[m].labels
LEMMA RestStays ==
  ASSUME NEW m, Untouched(m)
  PROVE  /\ AtRest(m) => AtRest(m)'
         /\ \A w : InHand(m, w) => InHand(m, w)'
  <1>1. AtRest(m) => AtRest(m)'
    BY DEF AtRest, Untouched
  <1>2. ASSUME NEW w, InHand(m, w) PROVE InHand(m, w)'
    BY <1>2 DEF InHand, Untouched
  <1> QED  BY <1>1, <1>2

LEMMA MailElsewhere ==
  ASSUME NEW p \in Writers, Others(p), NEW m \in Messages, MailSound(m),
         Untouched(m), writer[p].of # m, writer'[p].of # m
  PROVE  MailSound(m)'
  <1>1. \A q \in Writers : /\ writer'[q].of = m <=> writer[q].of = m
                           /\ writer[q].of = m => writer'[q] = writer[q]
    BY DEF Others
  <1>2. Undisturbed(m)' => AtRest(m)'
    BY <1>1, RestStays DEF MailSound, Undisturbed
  <1>3. ASSUME NEW q \in Writers, writer'[q].of = m
        PROVE  /\ InHand(m, writer[q])'
               /\ \A o \in Writers : writer'[o].of = m => o = q
    <2>1. InHand(m, writer[q]) /\ \A o \in Writers : writer[o].of = m => o = q
      BY <1>1, <1>3 DEF MailSound
    <2>2. PICK w : w = writer[q]
      OBVIOUS
    <2>3. InHand(m, w)' /\ writer'[q] = w
      BY <1>1, <1>3, <2>1, <2>2, RestStays
    <2>4. InHand(m, writer[q])'
      BY <2>3 DEF InHand, Coming
    <2> QED  BY <1>1, <2>1, <2>4
  <1> QED  BY <1>2, <1>3 DEF MailSound

(* The one request of a message goes on with it, or is done.               *)
LEMMA MailInHand ==
  ASSUME NEW p \in Writers, Others(p), NEW m \in Messages,
         \A q \in Writers : writer[q].of = m => q = p,
         writer'[p].of = m => InHand(m, writer[p])',
         writer'[p].of # m => AtRest(m)'
  PROVE  MailSound(m)'
  <1>1. ASSUME NEW q \in Writers, writer'[q].of = m PROVE q = p
    BY <1>1 DEF Others
  <1>2. ASSUME Undisturbed(m)' PROVE AtRest(m)'
    BY <1>2 DEF Undisturbed
  <1> QED  BY <1>1, <1>2 DEF MailSound

(* A step of a client touches no mail.                                     *)
LEMMA MailKept ==
  ASSUME MailsSound, UNCHANGED <<message, history, writer, crossed>>
  PROVE  MailsSound'
  <1>1. ASSUME NEW m \in Messages \ crossed PROVE MailSound(m)'
    <2>1. MailSound(m) /\ Untouched(m)
      BY DEF MailsSound, Untouched, RowsFor
    <2>2. Undisturbed(m)' => AtRest(m)'
      BY <2>1, RestStays DEF MailSound, Undisturbed
    <2>3. ASSUME NEW q \in Writers, writer'[q].of = m
          PROVE  /\ InHand(m, writer[q])'
                 /\ \A o \in Writers : writer'[o].of = m => o = q
      <3>1. PICK w : w = writer[q]
        OBVIOUS
      <3>2. InHand(m, w)' /\ writer'[q] = w
        BY <2>1, <2>3, <3>1, RestStays DEF MailSound
      <3>3. InHand(m, writer[q])'
        BY <3>2 DEF InHand, Coming
      <3> QED  BY <2>1, <2>3, <3>3 DEF MailSound
    <2> QED  BY <2>2, <2>3 DEF MailSound
  <1> QED  BY <1>1 DEF MailsSound

(* What rows tell does not depend on labels that none of them names, and   *)
(* a row under the greatest id has the last word on the labels it names.   *)
LEMMA SameTold ==
  ASSUME NEW R, NEW read, NEW labels, NEW coming, NEW before,
         Follows(R, read, before), before \subseteq coming,
         \A l \in Labels \ coming : l \in labels <=> l \in read
  PROVE  Follows(R, labels, coming)
  BY DEF Follows

LEMMA RowTold ==
  ASSUME NEW R \in SUBSET Row, NEW x \in Row, NEW labels, NEW left,
         Follows(R, labels, left \cup x.labels),
         \A r \in R : r.id =< x.id /\ (r.id = x.id => r.labels \cap x.labels = {}),
         x.kind = "labelAdded" => x.labels \subseteq labels,
         x.kind = "labelRemoved" => x.labels \cap labels = {}
  PROVE  Follows(R \cup {x}, labels, left)
  <1>1. SUFFICES ASSUME NEW l \in Labels \ left
                 PROVE  /\ Tells(R \cup {x}, "labelAdded", l) => l \in labels
                        /\ Tells(R \cup {x}, "labelRemoved", l) => l \notin labels
    BY DEF Follows
  <1>2. \A r \in R \cup {x} : r.id \in Int
    BY HistoryAssumption DEF Row
  <1>3. CASE l \in x.labels
    <2>1. ASSUME NEW kind, Tells(R \cup {x}, kind, l) PROVE kind = x.kind
      <3>1. PICK r \in R \cup {x} :
              /\ l \in r.labels /\ r.kind = kind
              /\ \A other \in R \cup {x} : l \in other.labels => other.id =< r.id
        BY <2>1 DEF Tells
      <3>2. x.id =< r.id
        BY <1>3, <3>1
      <3>3. CASE r \in R
        BY <1>2, <1>3, <3>1, <3>2, <3>3
      <3> QED  BY <3>1, <3>3
    <2> QED  BY <1>3, <2>1
  <1>4. CASE l \notin x.labels
    <2>1. ASSUME NEW kind, Tells(R \cup {x}, kind, l) PROVE Tells(R, kind, l)
      BY <1>4, <2>1 DEF Tells
    <2> QED  BY <1>4, <2>1 DEF Follows
  <1> QED  BY <1>3, <1>4

-----------------------------------------------------------------------------
(* The steps of the requests.                                              *)

NewRow == [kind : Kinds, labels : SUBSET Labels]
LEMMA WriterIs ==
  ASSUME NEW step \in {"idle", "generate", "write", "record", "filter", "drop"},
         NEW op \in {"none", "add", "relabel", "draft", "delete"},
         NEW of \in Messages \cup {"none"}, NEW id \in 0..MaxHistory,
         NEW read \in SUBSET Labels, NEW labels \in SUBSET Labels,
         NEW rows \in Seq(NewRow), NEW filters \in BOOLEAN
  PROVE  [step |-> step, op |-> op, of |-> of, id |-> id, read |-> read,
          labels |-> labels, rows |-> rows, filters |-> filters] \in Writer
  BY DEF Writer, NewRow

LEMMA IdleFacts ==
  /\ IdleWriter \in Writer /\ Sound(IdleWriter) /\ Coming(IdleWriter) = {}
  /\ IdleWriter.of \notin Messages /\ IdleWriter.id = 0
  /\ IdleWriter.step = "idle"
  <1>1. <<>> \in Seq(NewRow) /\ Len(<<>>) = 0 /\ 0 \in 0..MaxHistory
    BY EmptySeq, HistoryAssumption
  <1>2. IdleWriter \in Writer
    BY <1>1, WriterIs DEF IdleWriter
  <1>3. Coming(IdleWriter) = {}
    BY <1>1 DEF Coming, IdleWriter
  <1>4. Sound(IdleWriter)
    BY <1>1 DEF Sound, IdleWriter
  <1> QED  BY <1>2, <1>3, <1>4, WriterAssumption DEF IdleWriter

LEMMA StartStep ==
  ASSUME IInv, NEW p \in Writers,
         NEW op \in {"add", "relabel", "draft", "delete"}, NEW m \in Messages,
         NEW read \in SUBSET Labels, NEW labels \in SUBSET Labels,
         Start(p, op, m, read, labels),
         op = "add" => Fresh(m),
         op # "add" => m \in DOMAIN message /\ read = message[m].labels,
         op = "draft" => labels = read
  PROVE  IInv'
  <1>1. PICK w : w = [IdleWriter EXCEPT !.step = "generate", !.op = op, !.of = m,
                                        !.read = read, !.labels = labels]
    OBVIOUS
  <1>2. w = [step |-> "generate", op |-> op, of |-> m, id |-> 0, read |-> read,
             labels |-> labels, rows |-> <<>>, filters |-> FALSE]
    BY <1>1 DEF IdleWriter
  <1>3. <<>> \in Seq(NewRow) /\ Len(<<>>) = 0 /\ 0 \in 0..MaxHistory
    BY EmptySeq, HistoryAssumption
  <1>4. w \in Writer /\ Sound(w) /\ Coming(w) = {}
    <2>1. w \in Writer
      BY <1>2, <1>3, WriterIs
    <2>2. Sound(w)
      BY <1>2, <1>3 DEF Sound
    <2> QED  BY <1>2, <1>3, <2>1, <2>2 DEF Coming
  <1>5. /\ At(p, "idle") /\ Room /\ Goto(p, w)
        /\ crossed' = crossed \cup (IF Undisturbed(m) THEN {} ELSE {m})
        /\ UNCHANGED <<lastHistoryID, message, history, client, seen, raced>>
    BY <1>1 DEF Start, KeepMail
  <1>6. /\ writer' \in [Writers -> Writer] /\ writer'[p] = w /\ Others(p)
        /\ (\A q \in Writers : Sound(writer[q]))'
    BY <1>4, <1>5, GotoFacts
  <1>7. TypeOK'
    BY <1>5, <1>6 DEF IInv, TypeOK
  <1>8. Numbered'
    <2>1. ~At(p, "generate") /\ At(p, "generate")'
      BY <1>2, <1>5, <1>6 DEF At
    <2>2. /\ Cardinality(Generating') = Cardinality(Generating) + 1
          /\ Cardinality(Generating) \in Nat
      BY <1>6, <2>1, Waiting
    <2>3. lastHistoryID' + Cardinality(Generating') =< MaxHistory
      BY <1>5, <2>2, HistoryAssumption DEF IInv, TypeOK, Room
    <2>4. (\A q \in Writers : writer[q].id =< lastHistoryID)'
      BY <1>2, <1>5, <1>6, HistoryAssumption DEF IInv, TypeOK, Numbered, Others
    <2> QED  BY <1>5, <2>3, <2>4 DEF IInv, Numbered
  <1>9. ListingsSound'
    BY <1>2, <1>5, <1>6, <1>7, ListingsKept DEF Others
  <1>10. MailsSound'
    <2>1. ASSUME NEW n \in Messages \ crossed' PROVE MailSound(n)'
      <3>1. n \notin crossed /\ MailSound(n) /\ Untouched(n)
        BY <1>5, <2>1 DEF IInv, MailsSound, Untouched, RowsFor
      <3>2. CASE n # m
        <4>1. writer[p].of # n
          BY <1>5, IdleFacts DEF IInv, Sound, At
        <4> QED  BY <1>2, <1>6, <3>1, <3>2, <4>1, MailElsewhere
      <3>3. CASE n = m
        <4>1. Undisturbed(n) /\ AtRest(n)
          BY <1>5, <2>1, <3>1, <3>3 DEF MailSound
        <4>2. \A q \in Writers : writer[q].of # n
          BY <4>1 DEF Undisturbed
        <4>3. InHand(n, w)
          <5>1. n \in DOMAIN message => op # "add"
            BY <3>3 DEF Fresh
          <5>2. op = "add" => n \notin DOMAIN message /\ RowsFor(n) = {}
            BY <3>3 DEF Fresh, RowsFor
          <5> QED  BY <1>2, <1>4, <3>3, <4>1, <5>1, <5>2 DEF InHand, AtRest
        <4>4. InHand(n, w)'
          BY <3>1, <4>3, RestStays
        <4>5. InHand(n, writer[p])'
          BY <1>6, <4>4 DEF InHand, Coming
        <4>6. \A q \in Writers : writer[q].of = n => q = p
          BY <4>2
        <4>7. writer'[p].of = n
          BY <1>2, <1>6, <3>3
        <4> QED  BY <1>6, <3>1, <4>5, <4>6, <4>7, MailInHand
      <3> QED  BY <3>2, <3>3
    <2> QED  BY <2>1 DEF MailsSound
  <1> QED  BY <1>6, <1>7, <1>8, <1>9, <1>10 DEF IInv

LEMMA BeginsStep ==
  ASSUME IInv, NEW p \in Writers, Begins(p)
  PROVE  IInv'
  <1>1. PICK m \in Messages :
          \/ \E labels \in Wanted :
               createStoredMessage(p, m, labels) \/ updateMessageLabels(p, m, labels)
          \/ UpdateDraft(p, m) \/ deleteMessage(p, m)
    BY DEF Begins
  <1>2. m \in DOMAIN message => message[m].labels \in SUBSET Labels
    BY DEF IInv, TypeOK, Message
  <1>3. ASSUME NEW labels \in Wanted, createStoredMessage(p, m, labels)
        PROVE  IInv'
    <2>1. labels \in SUBSET Labels /\ {} \in SUBSET Labels
      BY HistoryAssumption
    <2> QED  BY <1>3, <2>1, StartStep DEF createStoredMessage
  <1>4. ASSUME NEW labels \in Wanted, updateMessageLabels(p, m, labels)
        PROVE  IInv'
    <2>1. labels \in SUBSET Labels
      BY HistoryAssumption
    <2> QED  BY <1>2, <1>4, <2>1, StartStep DEF updateMessageLabels
  <1>5. CASE UpdateDraft(p, m)
    BY <1>2, <1>5, StartStep DEF UpdateDraft
  <1>6. CASE deleteMessage(p, m)
    BY <1>2, <1>6, StartStep DEF deleteMessage
  <1> QED  BY <1>1, <1>3, <1>4, <1>5, <1>6

(* A request goes on with its message, and touches no other one.           *)
LEMMA MailGoesOn ==
  ASSUME IInv, NEW p \in Writers, Others(p), crossed' = crossed, ~At(p, "idle"),
         \A m \in Messages : m # writer[p].of => Untouched(m),
         writer'[p].of = writer[p].of \/ writer'[p] = IdleWriter,
         \A m \in Messages \ crossed :
           m = writer[p].of /\ InHand(m, writer[p]) =>
             /\ writer'[p].of = m => InHand(m, writer[p])'
             /\ writer'[p].of # m => AtRest(m)'
  PROVE  MailsSound'
  <1>1. writer[p].of \in Messages
    BY DEF IInv, Sound, At
  <1>2. ASSUME NEW m \in Messages \ crossed PROVE MailSound(m)'
    <2>1. MailSound(m)
      BY DEF IInv, MailsSound
    <2>2. CASE m # writer[p].of
      <3>1. writer'[p].of # m
        BY <2>2, IdleFacts
      <3> QED  BY <2>1, <2>2, <3>1, MailElsewhere
    <2>3. CASE m = writer[p].of
      <3>1. InHand(m, writer[p]) /\ \A q \in Writers : writer[q].of = m => q = p
        BY <2>1, <2>3 DEF MailSound
      <3>2. /\ writer'[p].of = m => InHand(m, writer[p])'
            /\ writer'[p].of # m => AtRest(m)'
        BY <2>3, <3>1
      <3> QED  BY <3>1, <3>2, MailInHand
    <2> QED  BY <2>2, <2>3
  <1> QED  BY <1>2 DEF MailsSound

LEMMA generateStep ==
  ASSUME IInv, NEW p \in Writers, generateHistoryID(p)
  PROVE  IInv'
  <1>1. PICK o : o = writer[p]
    OBVIOUS
  <1>2. PICK id : id = lastHistoryID + 1
    OBVIOUS
  <1>3. /\ o \in Writer /\ Sound(o) /\ o.step = "generate" /\ o.of \in Messages
        /\ o.rows = <<>> /\ o.id = 0
    BY <1>1 DEF IInv, TypeOK, Sound, generateHistoryID, At
  <1>4. id \in 1..MaxHistory /\ id > lastHistoryID /\ lastHistoryID \in Nat
    <2>1. p \in Generating /\ IsFiniteSet(Generating)
      <3>1. Generating \in SUBSET Writers /\ IsFiniteSet(Writers)
        BY WriterAssumption DEF Generating
      <3> QED  BY <1>1, <1>3, <3>1, FS_Subset DEF Generating, At
    <2>2. Cardinality(Generating) \in Nat /\ Cardinality(Generating) # 0
      BY <2>1, FS_CardinalityType, FS_EmptySet
    <2> QED  BY <1>2, <2>2, HistoryAssumption DEF IInv, Numbered, TypeOK
  <1>5. PICK x : x = [kind |-> "messageDeleted", labels |-> {}]
    OBVIOUS
  <1>6. PICK w :
          w = IF o.op = "delete"
              THEN [o EXCEPT !.step = "record", !.id = id, !.rows = <<x>>]
              ELSE [o EXCEPT !.step = "write", !.id = id]
    OBVIOUS
  <1>7. /\ lastHistoryID' = id /\ Goto(p, w)
        /\ raced' = [c \in Clients |->
                       raced[c] \cup (IF c \in Listing THEN {id} ELSE {})]
        /\ UNCHANGED <<message, history, client, seen, crossed>>
    BY <1>1, <1>2, <1>5, <1>6 DEF generateHistoryID
  <1>8. x \in NewRow /\ <<x>> \in Seq(NewRow) /\ Len(<<x>>) = 1 /\ <<x>>[1] = x
        /\ <<x>> # <<>> /\ Len(<<>>) = 0
    <2>1. x \in NewRow
      BY <1>5 DEF NewRow, Kinds
    <2> QED  BY <2>1
  <1>9. /\ w = [step |-> w.step, op |-> o.op, of |-> o.of, id |-> id,
                read |-> o.read, labels |-> o.labels, rows |-> w.rows,
                filters |-> o.filters]
        /\ o.op = "delete" => w.step = "record" /\ w.rows = <<x>>
        /\ o.op # "delete" => w.step = "write" /\ w.rows = <<>>
    BY <1>3, <1>6 DEF Writer
  <1>10. w \in Writer
    <2>1. w.rows \in Seq(NewRow) /\ w.step \in {"write", "record"}
      BY <1>8, <1>9, EmptySeq
    <2>2. [step |-> w.step, op |-> o.op, of |-> o.of, id |-> id,
           read |-> o.read, labels |-> o.labels, rows |-> w.rows,
           filters |-> o.filters] \in Writer
      <3>1. /\ o.op \in {"none", "add", "relabel", "draft", "delete"}
            /\ o.of \in Messages \cup {"none"} /\ o.read \in SUBSET Labels
            /\ o.labels \in SUBSET Labels /\ o.filters \in BOOLEAN
        BY <1>3 DEF Writer
      <3>2. id \in 0..MaxHistory
        BY <1>4
      <3>3. w.step \in {"idle", "generate", "write", "record", "filter", "drop"}
        BY <2>1
      <3> QED  BY <2>1, <3>1, <3>2, <3>3 DEF Writer, NewRow
    <2> QED  BY <1>9, <2>2
  <1>11. Sound(w) /\ Coming(w) = {}
    <2>1. /\ w.op = o.op /\ w.of = o.of /\ w.id = id /\ w.read = o.read
          /\ w.labels = o.labels /\ w.filters = o.filters
      BY <1>9
    <2>2. CASE o.op = "delete"
      <3>1. \A i \in 1..Len(w.rows) : w.rows[i] = x /\ i = 1
        BY <1>8, <1>9, <2>2
      <3>2. Coming(w) = {}
        BY <1>5, <3>1 DEF Coming
      <3>3. \A i \in 1..Len(w.rows) : RowSound(w, w.rows[i])
        BY <1>5, <2>1, <2>2, <3>1 DEF RowSound
      <3>4. \A i, j \in 1..Len(w.rows) :
              i # j => w.rows[i].labels \cap w.rows[j].labels = {}
        BY <3>1
      <3>5. /\ w.step = "record" /\ Len(w.rows) = 1 /\ w.rows # <<>> /\ w.id # 0
            /\ w.of \in Messages /\ ~w.filters /\ w.op = "delete"
        <4>1. ~o.filters
          BY <1>3, <2>2 DEF Sound
        <4>2. w.rows # <<>> /\ Len(w.rows) = 1
          BY <1>8, <1>9, <2>2
        <4> QED  BY <1>3, <1>4, <1>9, <2>1, <2>2, <4>1, <4>2
      <3> QED  BY <3>2, <3>3, <3>4, <3>5 DEF Sound
    <2>3. CASE o.op # "delete"
      BY <1>3, <1>4, <1>8, <1>9, <2>1, <2>3 DEF Sound, Coming
    <2> QED  BY <2>2, <2>3
  <1>12. /\ writer' \in [Writers -> Writer] /\ writer'[p] = w /\ Others(p)
         /\ (\A q \in Writers : Sound(writer[q]))'
    BY <1>7, <1>10, <1>11, GotoFacts
  <1>13. TypeOK'
    <2>1. raced' \in [Clients -> SUBSET (1..MaxHistory)]
      BY <1>4, <1>7 DEF IInv, TypeOK
    <2>2. lastHistoryID' \in 0..MaxHistory
      BY <1>4, <1>7
    <2> QED  BY <1>7, <1>12, <2>1, <2>2 DEF IInv, TypeOK
  <1>14. Numbered'
    <2>1. At(p, "generate") /\ ~At(p, "generate")'
      BY <1>1, <1>3, <1>9, <1>12 DEF At
    <2>2. /\ Cardinality(Generating') = Cardinality(Generating) - 1
          /\ Cardinality(Generating) \in Nat
      BY <1>12, <2>1, Waiting
    <2>3. lastHistoryID' + Cardinality(Generating') =< MaxHistory
      BY <1>2, <1>4, <1>7, <2>2, HistoryAssumption DEF IInv, Numbered
    <2>4. /\ \A r \in history : r.id \in Int
          /\ \A m \in DOMAIN message : message[m].history \in Int
          /\ \A q \in Writers : writer[q].id \in Int
          /\ \A c \in Clients : client[c].start \in Int /\ client[c].latest \in Int
      BY HistoryAssumption DEF IInv, TypeOK, Row, Message, Writer, Client
    <2>5. (\A q \in Writers : writer[q].id =< lastHistoryID)'
      BY <1>4, <1>7, <1>9, <1>12, <2>4 DEF IInv, Numbered, Others
    <2> QED  BY <1>4, <1>7, <2>3, <2>4, <2>5 DEF IInv, Numbered
  <1>15. ListingsSound'
    <2>1. \A q \in Writers : writer'[q].id # 0 =>
            \/ writer'[q].id = writer[q].id
            \/ /\ writer'[q].id > lastHistoryID
               /\ \A c \in Listing : writer'[q].id \in raced'[c]
      BY <1>4, <1>7, <1>9, <1>12 DEF Others, Listing
    <2>2. \A c \in Clients : raced[c] \subseteq raced'[c]
      BY <1>7
    <2> QED  BY <1>7, <1>13, <2>1, <2>2, ListingsKept
  <1>16. MailsSound'
    <2>1. \A m \in Messages : Untouched(m)
      BY <1>7 DEF Untouched, RowsFor
    <2>2. ASSUME NEW m \in Messages \ crossed, m = o.of, InHand(m, o)
          PROVE  InHand(m, w)
      <3>1. \A r \in RowsFor(m) : r.id < id
        BY <1>4, HistoryAssumption DEF IInv, TypeOK, Numbered, Row, RowsFor
      <3>2. Coming(o) = {}
        BY <1>3, <1>8 DEF Coming
      <3>3. \A r \in RowsFor(m) : r.id \in Int
        BY HistoryAssumption DEF IInv, TypeOK, Row, RowsFor
      <3> QED  BY <1>3, <1>4, <1>9, <1>11, <2>2, <3>1, <3>2, <3>3 DEF InHand
    <2>3. ASSUME NEW m \in Messages \ crossed, m = writer[p].of,
                 InHand(m, writer[p])
          PROVE  InHand(m, writer[p])'
      <3>1. InHand(m, w)'
        BY <1>1, <2>1, <2>2, <2>3, RestStays
      <3> QED  BY <1>12, <3>1 DEF InHand, Coming
    <2>4. ~At(p, "idle") /\ writer'[p].of = writer[p].of
      BY <1>1, <1>3, <1>9, <1>12 DEF At
    <2> QED  BY <1>7, <1>12, <2>1, <2>3, <2>4, MailGoesOn
  <1> QED  BY <1>12, <1>13, <1>14, <1>15, <1>16 DEF IInv

(* A request that goes on under the id it has, or without one.             *)
Continuing(p, t) ==
  /\ ~At(p, "generate") /\ ~At(p, "idle")
  /\ Sound(t) /\ Goto(p, t) /\ t.id \in {0, writer[p].id}
  /\ t.step = "generate" => Room
  /\ UNCHANGED <<lastHistoryID, client, seen, raced, crossed>>
  /\ DOMAIN message' \subseteq Messages
  /\ \A m \in DOMAIN message' :
       message'[m] \in Message /\ message'[m].history =< lastHistoryID
  /\ history' \subseteq Row /\ history \subseteq history'
  /\ \A r \in history' \ history : r.id = writer[p].id
LEMMA ContinuingFacts ==
  ASSUME IInv, NEW p \in Writers, NEW t \in Writer, Continuing(p, t)
  PROVE  /\ writer'[p] = t /\ Others(p)
         /\ MailsSound' => IInv'
  <1>1. /\ writer' \in [Writers -> Writer] /\ writer'[p] = t /\ Others(p)
        /\ (\A q \in Writers : Sound(writer[q]))'
    BY GotoFacts DEF Continuing
  <1>2. TypeOK'
    BY <1>1 DEF IInv, TypeOK, Continuing
  <1>3. /\ \A q \in Writers : writer[q].id \in Nat
        /\ \A r \in history' : r.id \in Nat /\ r.id # 0
        /\ lastHistoryID \in Nat
    BY <1>2, HistoryAssumption DEF IInv, TypeOK, Writer, Row
  <1>4. Numbered'
    <2>1. lastHistoryID' + Cardinality(Generating') =< MaxHistory
      <3>1. CASE t.step = "generate"
        <4>1. ~At(p, "generate") /\ At(p, "generate")'
          BY <1>1, <3>1 DEF At, Continuing
        <4>2. /\ Cardinality(Generating') = Cardinality(Generating) + 1
              /\ Cardinality(Generating) \in Nat
          BY <1>1, <4>1, Waiting
        <4> QED  BY <1>3, <3>1, <4>2, HistoryAssumption DEF Continuing, Room
      <3>2. CASE t.step # "generate"
        <4>1. At(p, "generate") <=> At(p, "generate")'
          BY <1>1, <3>2 DEF At, Continuing
        <4>2. Cardinality(Generating') = Cardinality(Generating)
          BY <1>1, <4>1, Waiting
        <4> QED  BY <4>2 DEF IInv, Numbered, Continuing
      <3> QED  BY <3>1, <3>2
    <2>2. (\A q \in Writers : writer[q].id =< lastHistoryID)'
      BY <1>1, <1>3 DEF IInv, Numbered, Others, Continuing
    <2>3. \A r \in history' : r.id =< lastHistoryID
      BY <1>3 DEF IInv, Numbered, Continuing
    <2> QED  BY <2>1, <2>2, <2>3 DEF IInv, Numbered, Continuing
  <1>5. ListingsSound'
    <2>1. \A r \in history' \ history :
            \E q \in Writers : writer[q].id # 0 /\ r.id = writer[q].id
      BY <1>3 DEF Continuing
    <2>2. \A q \in Writers : writer'[q].id # 0 => writer'[q].id = writer[q].id
      BY <1>1 DEF Others, Continuing
    <2> QED  BY <1>2, <2>1, <2>2, ListingsKept DEF Continuing
  <1> QED  BY <1>1, <1>2, <1>4, <1>5 DEF IInv

(* Where a request goes when it has written a message or a row.            *)
Kept(w, t) ==
  /\ t.op = w.op /\ t.of = w.of /\ t.read = w.read /\ t.labels = w.labels
  /\ t.rows = w.rows /\ t.filters = w.filters
Towards(w, t) ==
  \/ t = IdleWriter /\ w.rows = <<>> /\ w.op # "delete"
  \/ t.step = "record" /\ t.id = w.id /\ Kept(w, t) /\ w.rows # <<>>
  \/ /\ t.id = 0 /\ Kept(w, t) /\ w.rows = <<>>
     /\ t.step = IF w.op = "delete" THEN "drop" ELSE "filter"
LEMMA ProceedFacts ==
  ASSUME NEW p, NEW w \in Writer, w.of \in Messages, w.op # "none", w.id # 0,
         \A i \in 1..Len(w.rows) : RowSound(w, w.rows[i]),
         \A i, j \in 1..Len(w.rows) :
           i # j => w.rows[i].labels \cap w.rows[j].labels = {},
         w.op = "draft" => w.labels = w.read,
         w.op = "delete" => ~w.filters /\ (w.rows # <<>> => Len(w.rows) = 1),
         Proceed(p, w)
  PROVE  \E t \in Writer : Sound(t) /\ Goto(p, t) /\ Towards(w, t)
  <1>1. w = [step |-> w.step, op |-> w.op, of |-> w.of, id |-> w.id,
             read |-> w.read, labels |-> w.labels, rows |-> w.rows,
             filters |-> w.filters]
    BY DEF Writer
  <1>2. /\ w.op \in {"none", "add", "relabel", "draft", "delete"}
        /\ w.of \in Messages \cup {"none"} /\ w.read \in SUBSET Labels
        /\ w.labels \in SUBSET Labels /\ w.filters \in BOOLEAN
        /\ w.rows \in Seq(NewRow) /\ w.id \in 0..MaxHistory /\ 0 \in 0..MaxHistory
    BY HistoryAssumption DEF Writer, NewRow
  <1>3. CASE w.rows # <<>>
    <2>1. PICK t : t = [w EXCEPT !.step = "record"]
      OBVIOUS
    <2>2. t = [step |-> "record", op |-> w.op, of |-> w.of, id |-> w.id,
               read |-> w.read, labels |-> w.labels, rows |-> w.rows,
               filters |-> w.filters]
      BY <1>1, <2>1
    <2>3. t \in Writer
      BY <1>2, <2>2 DEF Writer, NewRow
    <2>4. t.step = "record" /\ t.id = w.id /\ Kept(w, t)
      BY <2>2 DEF Kept
    <2>5. Sound(t)
      <3>1. \A i \in 1..Len(t.rows) : RowSound(t, t.rows[i])
        BY <2>4 DEF Kept, RowSound
      <3>2. \A i, j \in 1..Len(t.rows) :
              i # j => t.rows[i].labels \cap t.rows[j].labels = {}
        BY <2>4 DEF Kept
      <3> QED  BY <1>3, <2>4, <3>1, <3>2 DEF Sound, Kept
    <2>6. Goto(p, t)
      BY <1>3, <2>1 DEF Proceed
    <2> QED  BY <1>3, <2>3, <2>4, <2>5, <2>6 DEF Towards
  <1>4. CASE w.rows = <<>> /\ AfterRows(w) = "idle"
    <2>1. w.op # "delete"
      BY <1>4 DEF AfterRows
    <2>2. Goto(p, IdleWriter)
      BY <1>4 DEF Proceed
    <2> QED  BY <1>4, <2>1, <2>2, IdleFacts DEF Towards
  <1>5. CASE w.rows = <<>> /\ AfterRows(w) # "idle"
    <2>1. PICK t : t = [w EXCEPT !.step = AfterRows(w), !.id = 0]
      OBVIOUS
    <2>2. AfterRows(w) = IF w.op = "delete" THEN "drop" ELSE "filter"
      BY <1>2, <1>5 DEF AfterRows
    <2>3. t = [step |-> AfterRows(w), op |-> w.op, of |-> w.of, id |-> 0,
               read |-> w.read, labels |-> w.labels, rows |-> w.rows,
               filters |-> w.filters]
      BY <1>1, <2>1
    <2>4. t \in Writer
      BY <1>2, <2>2, <2>3 DEF Writer, NewRow
    <2>5. t.step = AfterRows(w) /\ t.id = 0 /\ Kept(w, t)
      BY <2>3 DEF Kept
    <2>6. Sound(t)
      <3>1. Len(t.rows) = 0
        BY <1>5, <2>5 DEF Kept
      <3>2. t.step \in {"drop", "filter"} /\ (t.op = "delete" => t.step = "drop")
        BY <2>2, <2>5 DEF Kept
      <3> QED  BY <1>5, <2>5, <3>1, <3>2 DEF Sound, Kept
    <2>7. Goto(p, t)
      BY <1>5, <2>1 DEF Proceed
    <2> QED  BY <1>5, <2>2, <2>4, <2>5, <2>6, <2>7 DEF Towards
  <1> QED  BY <1>3, <1>4, <1>5

LEMMA PairFacts ==
  ASSUME NEW a \in NewRow, NEW b \in NewRow
  PROVE  /\ <<a>> \in Seq(NewRow) /\ Len(<<a>>) = 1 /\ <<a>>[1] = a
         /\ <<a, b>> \in Seq(NewRow) /\ Len(<<a, b>>) = 2
         /\ <<a, b>>[1] = a /\ <<a, b>>[2] = b
         /\ <<a>> \o <<b>> = <<a, b>>
  <1>1. <<a>> \in Seq(NewRow) /\ Len(<<a>>) = 1 /\ <<a>>[1] = a
    OBVIOUS
  <1>2. <<b>> \in Seq(NewRow) /\ Len(<<b>>) = 1 /\ <<b>>[1] = b
    OBVIOUS
  <1>3. <<a, b>> \in Seq(NewRow) /\ Len(<<a, b>>) = 2
    OBVIOUS
  <1>4. <<a, b>>[1] = a /\ <<a, b>>[2] = b
    OBVIOUS
  <1>5. PICK s, t : s = <<a>> \o <<b>> /\ t = <<a, b>>
    OBVIOUS
  <1>6. s \in Seq(NewRow) /\ Len(s) = 2 /\ s[1] = a /\ s[2] = b
    BY <1>1, <1>2, <1>5, ConcatProperties
  <1>7. Len(s) = Len(t) /\ \A i \in 1..Len(s) : s[i] = t[i]
    <2>1. Len(t) = 2 /\ t[1] = a /\ t[2] = b
      BY <1>3, <1>4, <1>5
    <2>2. \A i \in 1..2 : i = 1 \/ i = 2
      OBVIOUS
    <2> QED  BY <1>6, <2>1, <2>2
  <1>8. s = t
    BY <1>3, <1>5, <1>6, <1>7, SeqEqual
  <1> QED  BY <1>1, <1>3, <1>4, <1>5, <1>8

(* The rows of a change name the labels that differ, each in one row.      *)
LEMMA RowsFacts ==
  ASSUME NEW w \in Writer, w.op \in {"add", "relabel", "draft"},
         w.op = "draft" => w.labels = w.read
  PROVE  LET R == RowsOf(w)
         IN  /\ R \in Seq(NewRow)
             /\ \A i \in 1..Len(R) :
                  \/ R[i].kind = "messageAdded" /\ R[i].labels = {}
                  \/ R[i].kind = "labelAdded" /\ R[i].labels = w.labels \ w.read
                  \/ R[i].kind = "labelRemoved" /\ R[i].labels = w.read \ w.labels
             /\ \A i, j \in 1..Len(R) : i # j => R[i].labels \cap R[j].labels = {}
             /\ w.op # "add" => \A l \in Labels :
                  (~\E i \in 1..Len(R) : l \in R[i].labels)
                    => (l \in w.labels <=> l \in w.read)
  <1> DEFINE R == RowsOf(w)
  <1>1. PICK A, B : A = w.labels \ w.read /\ B = w.read \ w.labels
    OBVIOUS
  <1>2. A \in SUBSET Labels /\ B \in SUBSET Labels
    BY <1>1 DEF Writer
  <1>3. PICK a, b, c : /\ a = [kind |-> "labelAdded", labels |-> A]
                       /\ b = [kind |-> "labelRemoved", labels |-> B]
                       /\ c = [kind |-> "messageAdded", labels |-> {}]
    OBVIOUS
  <1>4. a \in NewRow /\ b \in NewRow /\ c \in NewRow
    BY <1>2, <1>3 DEF NewRow, Kinds
  <1>5. \/ R = <<c>> /\ w.op = "add"
        \/ R = <<>> /\ (w.op = "relabel" => A = {} /\ B = {})
        \/ R = <<a>> /\ w.op = "relabel" /\ B = {}
        \/ R = <<b>> /\ w.op = "relabel" /\ A = {}
        \/ R = <<a, b>> /\ w.op = "relabel"
    <2>1. CASE w.op = "add"
      BY <1>3, <2>1 DEF RowsOf
    <2>2. CASE w.op = "draft"
      BY <2>2 DEF RowsOf
    <2>3. CASE w.op = "relabel"
      <3>1. R = RowOf("labelAdded", A) \o RowOf("labelRemoved", B)
        BY <1>1, <2>3 DEF RowsOf, diffLabels, AddedOnly
      <3>2. /\ RowOf("labelAdded", A) = IF A = {} THEN <<>> ELSE <<a>>
            /\ RowOf("labelRemoved", B) = IF B = {} THEN <<>> ELSE <<b>>
        BY <1>3 DEF RowOf
      <3>3. /\ <<>> \o <<>> = <<>> /\ <<>> \o <<b>> = <<b>>
            /\ <<a>> \o <<>> = <<a>>
        <4>1. <<>> \in Seq(NewRow) /\ <<a>> \in Seq(NewRow) /\ <<b>> \in Seq(NewRow)
          BY <1>4, EmptySeq
        <4> QED  BY <4>1, ConcatEmptySeq
      <3>4. <<a>> \o <<b>> = <<a, b>>
        BY <1>4, PairFacts
      <3> QED  BY <2>3, <3>1, <3>2, <3>3, <3>4
    <2> QED  BY <2>1, <2>2, <2>3
  <1>6. A \cap B = {} /\ a.labels = A /\ b.labels = B /\ c.labels = {}
        /\ a.kind = "labelAdded" /\ b.kind = "labelRemoved"
        /\ c.kind = "messageAdded"
    BY <1>1, <1>3
  <1>7. \A l \in Labels : l \notin A /\ l \notin B => (l \in w.labels <=> l \in w.read)
    BY <1>1
  <1> HIDE DEF R
  <1>8. /\ R \in Seq(NewRow)
        /\ \A i \in 1..Len(R) : R[i] \in {a, b, c}
    <2>1. CASE R = <<>>
      BY <2>1, EmptySeq
    <2>2. CASE R = <<a>> \/ R = <<b>> \/ R = <<c>>
      <3>1. ASSUME NEW x \in {a, b, c}, R = <<x>>
            PROVE  /\ R \in Seq(NewRow)
                   /\ \A i \in 1..Len(R) : R[i] \in {a, b, c}
        <4>1. x \in NewRow
          BY <1>4
        <4>2. R \in Seq(NewRow) /\ Len(R) = 1 /\ R[1] = x
          BY <3>1, <4>1, PairFacts
        <4>3. \A i \in 1..Len(R) : i = 1
          BY <4>2
        <4> QED  BY <4>2, <4>3
      <3> QED  BY <2>2, <3>1
    <2>3. CASE R = <<a, b>>
      <3>1. R \in Seq(NewRow) /\ Len(R) = 2 /\ R[1] = a /\ R[2] = b
        BY <1>4, <2>3, PairFacts
      <3>2. \A i \in 1..Len(R) : i = 1 \/ i = 2
        BY <3>1
      <3> QED  BY <3>1, <3>2
    <2> QED  BY <1>5, <2>1, <2>2, <2>3
  <1>9. \A i, j \in 1..Len(R) : i # j => R[i].labels \cap R[j].labels = {}
    BY <1>5, <1>6
  <1>10. ASSUME w.op # "add", NEW l \in Labels,
                ~\E i \in 1..Len(R) : l \in R[i].labels
         PROVE  l \in w.labels <=> l \in w.read
    <2>1. CASE w.op = "draft"
      BY <2>1
    <2>2. CASE w.op = "relabel"
      <3>1. l \notin A
        <4>1. CASE R = <<a>> \/ R = <<a, b>>
          <5>1. 1 \in 1..Len(R) /\ R[1] = a
            BY <4>1
          <5> QED  BY <1>6, <1>10, <5>1
        <4> QED  BY <1>5, <1>10, <2>2, <4>1
      <3>2. l \notin B
        <4>1. CASE R = <<b>>
          <5>1. 1 \in 1..Len(R) /\ R[1] = b
            BY <4>1
          <5> QED  BY <1>6, <1>10, <5>1
        <4>2. CASE R = <<a, b>>
          <5>1. 2 \in 1..Len(R) /\ R[2] = b
            BY <4>2
          <5> QED  BY <1>6, <1>10, <5>1
        <4> QED  BY <1>5, <1>10, <2>2, <4>1, <4>2
      <3> QED  BY <1>7, <3>1, <3>2
    <2> QED  BY <1>10, <2>1, <2>2
  <1>11. \A i \in 1..Len(R) :
           \/ R[i].kind = "messageAdded" /\ R[i].labels = {}
           \/ R[i].kind = "labelAdded" /\ R[i].labels = w.labels \ w.read
           \/ R[i].kind = "labelRemoved" /\ R[i].labels = w.read \ w.labels
    BY <1>1, <1>6, <1>8
  <1> QED  BY <1>8, <1>9, <1>10, <1>11 DEF R

LEMMA WriteStep ==
  ASSUME IInv, NEW p \in Writers, WriteMessage(p)
  PROVE  IInv'
  <1>1. PICK o, n, id : o = writer[p] /\ n = o.of /\ id = o.id
    OBVIOUS
  <1>2. /\ o \in Writer /\ Sound(o) /\ o.step = "write" /\ n \in Messages
        /\ o.rows = <<>> /\ Len(o.rows) = 0 /\ id \in 1..MaxHistory
        /\ id =< lastHistoryID /\ o.op # "delete" /\ ~At(p, "idle")
        /\ ~At(p, "generate")
    <2>1. o \in Writer /\ Sound(o) /\ o.step = "write" /\ id =< lastHistoryID
      BY <1>1 DEF IInv, TypeOK, Numbered, WriteMessage, At
    <2>2. o.of \in Messages /\ o.rows = <<>> /\ o.id # 0 /\ o.op # "delete"
      BY <2>1 DEF Sound
    <2>3. o.id \in 0..MaxHistory
      BY <2>1 DEF Writer
    <2>4. id \in 1..MaxHistory
      BY <1>1, <2>2, <2>3, HistoryAssumption
    <2> QED  BY <1>1, <2>1, <2>2, <2>4 DEF At
  <1>3. UNCHANGED <<lastHistoryID, history, client, seen, raced, crossed>>
    BY DEF WriteMessage
  <1>4. \A m : RowsFor(m)' = RowsFor(m)
    BY <1>3 DEF RowsFor
  <1>5. CASE n \notin DOMAIN message /\ o.op # "add"
    <2>1. Proceed(p, o) /\ message' = message
      BY <1>1, <1>5 DEF WriteMessage
    <2>2. PICK t \in Writer : Sound(t) /\ Goto(p, t) /\ Towards(o, t)
      <3>1. o.op # "none" /\ (o.op = "draft" => o.labels = o.read)
        BY <1>2 DEF Sound
      <3> QED  BY <1>1, <1>2, <2>1, <3>1, ProceedFacts
    <2>3. t = IdleWriter \/ (t.of = n /\ t.step = "filter" /\ t.id = 0)
      BY <1>1, <1>2, <2>2 DEF Towards, Kept
    <2>4. t.id = 0 /\ t.step # "generate"
      BY <2>3, IdleFacts
    <2>5. Continuing(p, t)
      BY <1>2, <1>3, <2>1, <2>2, <2>4 DEF IInv, TypeOK, Numbered, Continuing
    <2>6. writer'[p] = t /\ Others(p) /\ (MailsSound' => IInv')
      BY <2>5, ContinuingFacts
    <2>7. /\ writer'[p].of = n => InHand(n, writer[p])'
          /\ writer'[p].of # n => AtRest(n)'
      <3>1. AtRest(n)'
        BY <1>5, <2>1 DEF AtRest
      <3>2. ASSUME t.of = n PROVE InHand(n, writer[p])'
        <4>1. t.step = "filter"
          BY <1>2, <2>3, <3>2, IdleFacts
        <4> QED  BY <1>5, <2>1, <2>6, <4>1 DEF InHand
      <3> QED  BY <2>6, <3>1, <3>2
    <2>8. \A m \in Messages : Untouched(m)
      BY <1>4, <2>1 DEF Untouched
    <2>9. writer'[p].of = writer[p].of \/ writer'[p] = IdleWriter
      BY <1>1, <2>3, <2>6
    <2>10. MailsSound'
      BY <1>1, <1>2, <1>3, <2>6, <2>7, <2>8, <2>9, MailGoesOn
    <2> QED  BY <2>6, <2>10
  <1>6. CASE n \in DOMAIN message \/ o.op = "add"
    <2>1. PICK x : x = [history |-> id, labels |-> o.labels]
      OBVIOUS
    <2>2. PICK w : w = [o EXCEPT !.rows = RowsOf(o), !.read = o.labels]
      OBVIOUS
    <2>3. PutMessage(n, x) /\ Proceed(p, w)
      BY <1>1, <1>6, <2>1, <2>2 DEF WriteMessage
    <2>4. w = [step |-> o.step, op |-> o.op, of |-> n, id |-> id,
               read |-> o.labels, labels |-> o.labels, rows |-> RowsOf(o),
               filters |-> o.filters]
      BY <1>1, <1>2, <2>2 DEF Writer
    <2>5. PICK R : R = RowsOf(o)
      OBVIOUS
    <2>6. o.op # "none" /\ (o.op = "draft" => o.labels = o.read)
      <3>1. o.op # "none"
        BY <1>1, <1>2 DEF Sound
      <3> QED  BY <1>2, <3>1 DEF Sound
    <2>7. /\ R \in Seq(NewRow)
          /\ \A i \in 1..Len(R) :
               \/ R[i].kind = "messageAdded" /\ R[i].labels = {}
               \/ R[i].kind = "labelAdded" /\ R[i].labels = o.labels \ o.read
               \/ R[i].kind = "labelRemoved" /\ R[i].labels = o.read \ o.labels
          /\ \A i, j \in 1..Len(R) : i # j => R[i].labels \cap R[j].labels = {}
          /\ o.op # "add" => \A l \in Labels :
               (~\E i \in 1..Len(R) : l \in R[i].labels)
                 => (l \in o.labels <=> l \in o.read)
      <3>1. o.op \in {"add", "relabel", "draft"}
        BY <1>2, <2>6 DEF Writer
      <3> QED  BY <1>2, <2>5, <2>6, <3>1, RowsFacts
    <2>8. /\ w \in Writer /\ w.of = n /\ w.id = id /\ w.op = o.op /\ w.rows = R
          /\ w.read = o.labels /\ w.labels = o.labels
      <3>1. w \in Writer
        BY <1>2, <2>4, <2>5, <2>7 DEF Writer, NewRow
      <3> QED  BY <2>4, <2>5, <3>1
    <2>9. PICK t \in Writer : Sound(t) /\ Goto(p, t) /\ Towards(w, t)
      <3>1. \A i \in 1..Len(w.rows) : RowSound(w, w.rows[i])
        BY <2>7, <2>8 DEF RowSound
      <3>2. /\ w.of \in Messages /\ w.id # 0 /\ w.op \notin {"none", "delete"}
            /\ w.op = "draft" => w.labels = w.read
        BY <1>2, <2>6, <2>8
      <3> QED  BY <2>3, <2>7, <2>8, <3>1, <3>2, ProceedFacts
    <2>10. t.id \in {0, id} /\ t.step # "generate"
      BY <2>8, <2>9, IdleFacts DEF Towards
    <2>11. /\ DOMAIN message' = DOMAIN message \cup {n} /\ message'[n] = x
           /\ \A m \in DOMAIN message : m # n => message'[m] = message[m]
      BY <2>3 DEF PutMessage
    <2>12. x \in Message /\ x.history =< lastHistoryID
      BY <1>2, <2>1 DEF Message, Writer
    <2>13. Continuing(p, t)
      <3>1. DOMAIN message' \subseteq Messages
        BY <1>2, <2>11 DEF IInv, TypeOK
      <3>2. \A m \in DOMAIN message' :
              message'[m] \in Message /\ message'[m].history =< lastHistoryID
        BY <2>11, <2>12 DEF IInv, TypeOK, Numbered
      <3> QED  BY <1>1, <1>2, <1>3, <2>9, <2>10, <3>1, <3>2
               DEF IInv, TypeOK, Continuing
    <2>14. writer'[p] = t /\ Others(p) /\ (MailsSound' => IInv')
      BY <2>13, ContinuingFacts
    <2>15. ASSUME n \notin crossed, InHand(n, o)
           PROVE  /\ writer'[p].of = n => InHand(n, writer[p])'
                  /\ writer'[p].of # n => AtRest(n)'
      <3>1. Follows(RowsFor(n), o.labels, Coming(w)) /\ ~Deleted(RowsFor(n))
        <4>1. CASE o.op = "add"
          <5>1. RowsFor(n) = {}
            BY <1>2, <2>15, <4>1 DEF InHand
          <5> QED  BY <5>1 DEF Follows, Tells, Deleted
        <4>2. CASE o.op # "add"
          <5>1. Coming(o) = {}
            BY <1>2 DEF Coming
          <5>2. Follows(RowsFor(n), o.read, {}) /\ ~Deleted(RowsFor(n))
            BY <1>2, <1>6, <2>15, <4>2, <5>1 DEF InHand
          <5>3. \A l \in Labels \ Coming(w) : l \in o.labels <=> l \in o.read
            BY <2>7, <2>8, <4>2 DEF Coming
          <5> QED  BY <5>2, <5>3, SameTold
        <4> QED  BY <4>1, <4>2
      <3>2. \A r \in RowsFor(n) : r.id < id /\ r.id \in Int
        BY <1>1, <1>2, <2>15, HistoryAssumption DEF InHand, IInv, TypeOK, Row, RowsFor
      <3>3. message'[n].labels = o.labels
        BY <2>1, <2>11
      <3>4. CASE t = IdleWriter /\ w.rows = <<>>
        <4>1. Coming(w) = {}
          BY <3>4 DEF Coming
        <4>2. Follows(RowsFor(n), message'[n].labels, {}) /\ ~Deleted(RowsFor(n))
          BY <3>1, <3>3, <4>1
        <4>3. AtRest(n)'
          BY <1>4, <4>2 DEF AtRest
        <4> QED  BY <1>2, <2>14, <3>4, <4>3, IdleFacts
      <3>5. CASE Kept(w, t) /\ t.step \in {"record", "filter"} /\ t.id \in {0, id}
                 /\ (t.step = "record" => t.id = id)
        <4>1. Coming(t) = Coming(w) /\ t.read = o.labels /\ t.of = n
          BY <2>8, <3>5 DEF Coming, Kept
        <4>2. InHand(n, t)'
          <5>1. Coming(t)' = Coming(w)
            BY <4>1 DEF Coming
          <5>2. \A r \in RowsFor(n) : t.step = "record" => r.id =< t.id /\ r.id # t.id
            BY <1>2, <3>2, <3>5
          <5> QED  BY <1>4, <3>1, <3>3, <3>5, <4>1, <5>1, <5>2 DEF InHand
        <4>3. InHand(n, writer[p])'
          BY <2>14, <4>2 DEF InHand, Coming
        <4> QED  BY <2>14, <4>1, <4>3
      <3> QED  BY <1>2, <2>8, <2>9, <3>4, <3>5 DEF Towards
    <2>16. \A m \in Messages : m # n => Untouched(m)
      BY <1>4, <2>11 DEF Untouched
    <2>17. writer'[p].of = writer[p].of \/ writer'[p] = IdleWriter
      BY <1>1, <2>8, <2>9, <2>14 DEF Towards, Kept
    <2>18. MailsSound'
      <3>1. \A m \in Messages \ crossed :
              m = writer[p].of /\ InHand(m, writer[p]) =>
                /\ writer'[p].of = m => InHand(m, writer[p])'
                /\ writer'[p].of # m => AtRest(m)'
        BY <1>1, <2>15
      <3> QED  BY <1>1, <1>2, <1>3, <2>14, <2>16, <2>17, <3>1, MailGoesOn
    <2> QED  BY <2>14, <2>18
  <1> QED  BY <1>5, <1>6

LEMMA recordStep ==
  ASSUME IInv, NEW p \in Writers, recordHistory(p)
  PROVE  IInv'
  <1>1. PICK o, n, id : o = writer[p] /\ n = o.of /\ id = o.id
    OBVIOUS
  <1>2. /\ o \in Writer /\ Sound(o) /\ o.step = "record" /\ n \in Messages
        /\ o.rows \in Seq(NewRow) /\ o.rows # <<>> /\ id \in 1..MaxHistory
        /\ id =< lastHistoryID /\ o.op # "none" /\ ~At(p, "idle")
        /\ ~At(p, "generate")
    <2>1. o \in Writer /\ Sound(o) /\ o.step = "record" /\ id =< lastHistoryID
      BY <1>1 DEF IInv, TypeOK, Numbered, recordHistory, At
    <2>2. o.of \in Messages /\ o.rows # <<>> /\ o.id # 0 /\ o.op # "none"
      BY <2>1 DEF Sound
    <2>3. o.id \in 0..MaxHistory /\ o.rows \in Seq(NewRow)
      BY <2>1 DEF Writer, NewRow
    <2>4. id \in 1..MaxHistory
      BY <1>1, <2>2, <2>3, HistoryAssumption
    <2> QED  BY <1>1, <2>1, <2>2, <2>3, <2>4 DEF At
  <1>3. PICK h, rest : h = Head(o.rows) /\ rest = Tail(o.rows)
    OBVIOUS
  <1>4. /\ h \in NewRow /\ h = o.rows[1] /\ Len(o.rows) \in Nat /\ Len(o.rows) >= 1
        /\ rest \in Seq(NewRow) /\ Len(rest) = Len(o.rows) - 1
        /\ \A i \in 1..Len(rest) : rest[i] = o.rows[i+1]
    <2>1. h \in NewRow /\ rest \in Seq(NewRow) /\ Len(rest) = Len(o.rows) - 1
          /\ \A i \in 1..Len(rest) : rest[i] = o.rows[i+1]
      BY <1>2, <1>3, HeadTailProperties
    <2> QED  BY <1>2, <1>3, <2>1
  <1>5. PICK x : x = [id |-> id, kind |-> h.kind, of |-> n, labels |-> h.labels]
    OBVIOUS
  <1>6. PICK w : w = [o EXCEPT !.rows = rest]
    OBVIOUS
  <1>7. /\ history' = history \cup {x} /\ Proceed(p, w)
        /\ UNCHANGED <<lastHistoryID, message, client, seen, raced, crossed>>
    <2>1. w = [o EXCEPT !.rows = Tail(@)]
      BY <1>3, <1>6
    <2> QED  BY <1>1, <1>3, <1>5, <2>1 DEF recordHistory
  <1>8. /\ w \in Writer /\ w.of = n /\ w.id = id /\ w.op = o.op /\ w.rows = rest
        /\ w.read = o.read /\ w.labels = o.labels /\ w.filters = o.filters
    <2>1. w = [step |-> o.step, op |-> o.op, of |-> n, id |-> id,
               read |-> o.read, labels |-> o.labels, rows |-> rest,
               filters |-> o.filters]
      BY <1>1, <1>2, <1>6 DEF Writer
    <2>2. w \in Writer
      BY <1>1, <1>2, <1>4, <2>1 DEF Writer, NewRow
    <2> QED  BY <2>1, <2>2
  <1>9. /\ \A i \in 1..Len(o.rows) : RowSound(o, o.rows[i])
        /\ \A i, j \in 1..Len(o.rows) :
             i # j => o.rows[i].labels \cap o.rows[j].labels = {}
        /\ o.op = "draft" => o.labels = o.read
        /\ o.op = "delete" => ~o.filters /\ Len(o.rows) = 1
    BY <1>2 DEF Sound
  <1>10. \A i \in 1..Len(rest) : i+1 \in 1..Len(o.rows) /\ i+1 # 1
    BY <1>4
  <1>11. /\ \A i \in 1..Len(w.rows) : RowSound(w, w.rows[i])
         /\ \A i, j \in 1..Len(w.rows) :
              i # j => w.rows[i].labels \cap w.rows[j].labels = {}
    <2>1. \A i \in 1..Len(rest) : RowSound(w, rest[i])
      BY <1>4, <1>8, <1>9, <1>10 DEF RowSound
    <2>2. \A i, j \in 1..Len(rest) : i # j => i+1 # j+1
      OBVIOUS
    <2>3. \A i, j \in 1..Len(rest) : i # j => rest[i].labels \cap rest[j].labels = {}
      BY <1>4, <1>9, <1>10, <2>2
    <2> QED  BY <1>8, <2>1, <2>3
  <1>12. o.op = "delete" => rest = <<>>
    BY <1>4, <1>9
  <1>13. PICK t \in Writer : Sound(t) /\ Goto(p, t) /\ Towards(w, t)
    <2>1. /\ w.of \in Messages /\ w.id # 0 /\ w.op # "none"
          /\ w.op = "draft" => w.labels = w.read
          /\ w.op = "delete" => ~w.filters /\ w.rows = <<>>
      BY <1>2, <1>8, <1>9, <1>12
    <2> QED  BY <1>7, <1>8, <1>11, <2>1, ProceedFacts
  <1>14. t.id \in {0, id} /\ t.step # "generate"
    BY <1>8, <1>13, IdleFacts DEF Towards
  <1>15. x \in Row /\ x.id = id /\ x.of = n /\ x.labels = h.labels /\ x.kind = h.kind
    BY <1>2, <1>4, <1>5 DEF Row, NewRow
  <1>16. Continuing(p, t)
    <2>1. /\ history' \subseteq Row /\ history \subseteq history'
          /\ \A r \in history' \ history : r.id = id
      BY <1>7, <1>15 DEF IInv, TypeOK
    <2> QED  BY <1>1, <1>2, <1>7, <1>13, <1>14, <2>1
             DEF IInv, TypeOK, Numbered, Continuing
  <1>17. writer'[p] = t /\ Others(p) /\ (MailsSound' => IInv')
    BY <1>16, ContinuingFacts
  <1>18. /\ RowsFor(n)' = RowsFor(n) \cup {x}
         /\ \A m : m # n => RowsFor(m)' = RowsFor(m)
    BY <1>7, <1>15 DEF RowsFor
  <1>19. \A m \in Messages : m # n => Untouched(m)
    BY <1>7, <1>18 DEF Untouched
  <1>20. /\ Coming(o) \subseteq Coming(w) \cup h.labels
         /\ Coming(w) \subseteq Coming(o) /\ h.labels \subseteq Coming(o)
         /\ Coming(w) \cap h.labels = {}
    <2>1. \A i \in 1..Len(o.rows) : i = 1 \/ (i - 1 \in 1..Len(rest) /\ (i-1)+1 = i)
      BY <1>4
    <2>2. Coming(w) = {l \in Labels : \E i \in 1..Len(rest) : l \in rest[i].labels}
      BY <1>8 DEF Coming
    <2>3. \A i \in 1..Len(rest) : rest[i].labels \cap h.labels = {}
      <3>1. 1 \in 1..Len(o.rows)
        BY <1>4
      <3> QED  BY <1>4, <1>9, <1>10, <3>1
    <2>4. h.labels \subseteq Labels /\ 1 \in 1..Len(o.rows)
      BY <1>4 DEF NewRow
    <2>5. Coming(o) \subseteq Coming(w) \cup h.labels
      <3>1. ASSUME NEW l \in Labels, NEW i \in 1..Len(o.rows), l \in o.rows[i].labels
            PROVE  l \in Coming(w) \cup h.labels
        <4>1. CASE i = 1
          BY <1>4, <3>1, <4>1
        <4>2. CASE i # 1
          <5>1. PICK j \in 1..Len(rest) : j + 1 = i
            BY <2>1, <4>2
          <5>2. l \in rest[j].labels
            BY <1>4, <3>1, <5>1
          <5> QED  BY <2>2, <5>2
        <4> QED  BY <4>1, <4>2
      <3> QED  BY <3>1 DEF Coming
    <2>6. Coming(w) \subseteq Coming(o)
      BY <1>4, <1>10, <2>2 DEF Coming
    <2>7. h.labels \subseteq Coming(o)
      BY <1>4, <2>4 DEF Coming
    <2> QED  BY <2>2, <2>3, <2>5, <2>6, <2>7
  <1>21. ASSUME n \notin crossed, InHand(n, o)
         PROVE  /\ writer'[p].of = n => InHand(n, writer[p])'
                /\ writer'[p].of # n => AtRest(n)'
    <2>1. RowsFor(n) \in SUBSET Row
      BY DEF IInv, TypeOK, RowsFor
    <2>2. /\ RowSound(o, h)
          /\ x.kind = "messageDeleted" => o.op = "delete"
      <3>1. 1 \in 1..Len(o.rows)
        BY <1>4
      <3> QED  BY <1>4, <1>9, <1>15, <3>1 DEF RowSound
    <2>3. \A r \in RowsFor(n) : r.id =< id /\ (r.id = id => r.labels \cap Coming(o) = {})
      BY <1>1, <1>2, <1>21 DEF InHand
    <2>4. ASSUME n \in DOMAIN message
          PROVE  /\ message[n].labels = o.read
                 /\ Follows(RowsFor(n) \cup {x}, o.read, Coming(w))
                 /\ o.op # "delete" => ~Deleted(RowsFor(n) \cup {x})
      <3>1. /\ message[n].labels = o.read /\ ~Deleted(RowsFor(n))
            /\ Follows(RowsFor(n), o.read, Coming(o))
        BY <1>2, <1>21, <2>4 DEF InHand
      <3>2. Follows(RowsFor(n), o.read, Coming(w) \cup x.labels)
        BY <1>15, <1>20, <3>1, SameTold
      <3>3. \A r \in RowsFor(n) :
              r.id =< x.id /\ (r.id = x.id => r.labels \cap x.labels = {})
        BY <1>15, <1>20, <2>3
      <3>4. /\ x.kind = "labelAdded" => x.labels \subseteq o.read
            /\ x.kind = "labelRemoved" => x.labels \cap o.read = {}
        BY <1>15, <2>2 DEF RowSound
      <3>5. Follows(RowsFor(n) \cup {x}, o.read, Coming(w))
        BY <1>15, <2>1, <3>2, <3>3, <3>4, RowTold
      <3> QED  BY <2>2, <3>1, <3>5 DEF Deleted
    <2>5. CASE t = IdleWriter /\ w.rows = <<>> /\ w.op # "delete"
      <3>1. Coming(w) = {}
        BY <2>5 DEF Coming
      <3>2. n \in DOMAIN message =>
              /\ Follows(RowsFor(n) \cup {x}, message[n].labels, {})
              /\ ~Deleted(RowsFor(n) \cup {x})
        BY <1>8, <2>4, <2>5, <3>1
      <3>3. AtRest(n)'
        BY <1>7, <1>18, <3>2 DEF AtRest
      <3> QED  BY <1>2, <1>17, <2>5, <3>3, IdleFacts
    <2>6. CASE /\ Kept(w, t) /\ t.step \in {"record", "filter", "drop"}
               /\ t.step = "record" => t.id = id
               /\ t.step = "drop" <=> w.op = "delete" /\ t.step # "record"
      <3>1. Coming(t) = Coming(w) /\ t.read = o.read /\ t.of = n
        BY <1>8, <2>6 DEF Coming, Kept
      <3>2. t.step = "record" => o.op # "delete"
        BY <1>8, <1>12, <1>13, <2>6, IdleFacts DEF Towards
      <3>3. InHand(n, t)'
        <4>1. Coming(t)' = Coming(w)
          BY <3>1 DEF Coming
        <4>2. n \in DOMAIN message =>
                /\ message[n].labels = t.read
                /\ Follows(RowsFor(n) \cup {x}, t.read, Coming(w))
                /\ t.step # "drop" => ~Deleted(RowsFor(n) \cup {x})
          BY <1>8, <2>4, <2>6, <3>1, <3>2
        <4>3. t.step = "record" => \A r \in RowsFor(n) \cup {x} :
                r.id =< t.id /\ (r.id = t.id => r.labels \cap Coming(w) = {})
          BY <1>2, <1>15, <1>20, <2>3, <2>6
        <4>4. t.step \notin {"generate", "write"}
          BY <2>6
        <4> QED  BY <1>7, <1>18, <4>1, <4>2, <4>3, <4>4 DEF InHand
      <3>4. InHand(n, writer[p])'
        BY <1>17, <3>3 DEF InHand, Coming
      <3> QED  BY <1>17, <3>1, <3>4
    <2> QED  BY <1>8, <1>13, <2>5, <2>6 DEF Towards
  <1>22. writer'[p].of = writer[p].of \/ writer'[p] = IdleWriter
    BY <1>1, <1>8, <1>13, <1>17 DEF Towards, Kept
  <1>23. MailsSound'
    <2>1. \A m \in Messages \ crossed :
            m = writer[p].of /\ InHand(m, writer[p]) =>
              /\ writer'[p].of = m => InHand(m, writer[p])'
              /\ writer'[p].of # m => AtRest(m)'
      BY <1>1, <1>21
    <2> QED  BY <1>1, <1>2, <1>7, <1>17, <1>19, <1>22, <2>1, MailGoesOn
  <1> QED  BY <1>17, <1>23

LEMMA applyFilterStep ==
  ASSUME IInv, NEW p \in Writers, NEW labels \in Wanted, applyFilter(p, labels)
  PROVE  IInv'
  <1>1. PICK o, n : o = writer[p] /\ n = o.of
    OBVIOUS
  <1>2. /\ o \in Writer /\ Sound(o) /\ o.step = "filter" /\ n \in Messages
        /\ o.rows = <<>> /\ Len(o.rows) = 0 /\ o.id = 0
        /\ ~At(p, "idle") /\ ~At(p, "generate")
    <2>1. o \in Writer /\ Sound(o) /\ o.step = "filter"
      BY <1>1 DEF IInv, TypeOK, applyFilter, At
    <2>2. o.of \in Messages /\ o.rows = <<>> /\ o.id = 0
      BY <2>1 DEF Sound
    <2> QED  BY <1>1, <2>1, <2>2 DEF At
  <1>3. PICK w : w = [o EXCEPT !.step = "generate", !.op = "relabel",
                               !.labels = labels, !.filters = TRUE]
    OBVIOUS
  <1>4. w = [step |-> "generate", op |-> "relabel", of |-> n, id |-> 0,
             read |-> o.read, labels |-> labels, rows |-> <<>>, filters |-> TRUE]
    BY <1>1, <1>2, <1>3 DEF Writer
  <1>5. w \in Writer /\ Sound(w) /\ Coming(w) = {} /\ Coming(o) = {}
    <2>1. /\ <<>> \in Seq(NewRow) /\ Len(<<>>) = 0 /\ 0 \in 0..MaxHistory
          /\ o.read \in SUBSET Labels /\ labels \in SUBSET Labels
      BY <1>2, EmptySeq, HistoryAssumption DEF Writer
    <2>2. w \in Writer
      BY <1>2, <1>4, <2>1 DEF Writer, NewRow
    <2>3. Sound(w)
      BY <1>2, <1>4, <2>1 DEF Sound
    <2> QED  BY <1>2, <1>4, <2>1, <2>2, <2>3 DEF Coming
  <1>6. Goto(p, w) /\ Room /\ KeepMail /\ UNCHANGED crossed
    BY <1>1, <1>3 DEF applyFilter
  <1>7. Continuing(p, w)
    BY <1>2, <1>4, <1>5, <1>6 DEF IInv, TypeOK, Numbered, Continuing, KeepMail
  <1>8. writer'[p] = w /\ Others(p) /\ (MailsSound' => IInv')
    BY <1>5, <1>7, ContinuingFacts
  <1>9. \A m \in Messages : Untouched(m)
    BY <1>6 DEF Untouched, RowsFor, KeepMail
  <1>10. ASSUME InHand(n, o) PROVE InHand(n, writer[p])'
    <2>1. InHand(n, w)
      BY <1>2, <1>4, <1>5, <1>10 DEF InHand
    <2>2. InHand(n, w)'
      BY <1>2, <1>9, <2>1, RestStays
    <2> QED  BY <1>8, <2>2 DEF InHand, Coming
  <1>11. writer'[p].of = n
    BY <1>4, <1>8
  <1>12. MailsSound'
    <2>1. \A m \in Messages \ crossed :
            m = writer[p].of /\ InHand(m, writer[p]) =>
              /\ writer'[p].of = m => InHand(m, writer[p])'
              /\ writer'[p].of # m => AtRest(m)'
      BY <1>1, <1>10, <1>11
    <2> QED  BY <1>1, <1>2, <1>6, <1>8, <1>9, <1>11, <2>1, MailGoesOn
  <1> QED  BY <1>8, <1>12

(* A request is done with its message: it leaves it as it read it, or it   *)
(* drops it.                                                               *)
LEMMA DoneStep ==
  ASSUME IInv, NEW p \in Writers, filtersDone(p) \/ dropMessage(p)
  PROVE  IInv'
  <1>1. PICK o, n : o = writer[p] /\ n = o.of
    OBVIOUS
  <1>2. /\ o \in Writer /\ Sound(o) /\ o.step \in {"filter", "drop"}
        /\ n \in Messages /\ o.rows = <<>> /\ Len(o.rows) = 0
        /\ ~At(p, "idle") /\ ~At(p, "generate")
        /\ filtersDone(p) => o.step = "filter"
    <2>1. /\ o \in Writer /\ Sound(o) /\ o.step \in {"filter", "drop"}
          /\ filtersDone(p) => o.step = "filter"
      BY <1>1 DEF IInv, TypeOK, filtersDone, dropMessage, At
    <2>2. o.of \in Messages /\ o.rows = <<>>
      BY <2>1 DEF Sound
    <2> QED  BY <1>1, <2>1, <2>2 DEF At
  <1>3. /\ Goto(p, IdleWriter)
        /\ UNCHANGED <<lastHistoryID, history, client, seen, raced, crossed>>
    BY DEF filtersDone, dropMessage, KeepMail
  <1>4. /\ DOMAIN message' \subseteq DOMAIN message
        /\ \A m \in DOMAIN message' : message'[m] = message[m]
        /\ \A m \in DOMAIN message : m # n => m \in DOMAIN message'
    BY <1>1 DEF filtersDone, dropMessage, KeepMail
  <1>5. Continuing(p, IdleWriter)
    BY <1>2, <1>3, <1>4, IdleFacts DEF IInv, TypeOK, Numbered, Continuing
  <1>6. writer'[p] = IdleWriter /\ Others(p) /\ (MailsSound' => IInv')
    BY <1>5, IdleFacts, ContinuingFacts
  <1>7. \A m : RowsFor(m)' = RowsFor(m)
    BY <1>3 DEF RowsFor
  <1>8. ASSUME InHand(n, o) PROVE AtRest(n)'
    <2>1. CASE filtersDone(p)
      <3>1. message' = message /\ o.step = "filter"
        BY <1>2, <2>1 DEF filtersDone, KeepMail
      <3>2. Coming(o) = {}
        BY <1>2 DEF Coming
      <3>3. AtRest(n)
        BY <1>8, <3>1, <3>2 DEF InHand, AtRest
      <3> QED  BY <1>7, <3>1, <3>3 DEF AtRest
    <2>2. CASE dropMessage(p)
      BY <1>1, <2>2 DEF dropMessage, AtRest
    <2> QED  BY <2>1, <2>2
  <1>9. \A m \in Messages : m # n => Untouched(m)
    BY <1>4, <1>7 DEF Untouched
  <1>10. MailsSound'
    <2>1. \A m \in Messages \ crossed :
            m = writer[p].of /\ InHand(m, writer[p]) =>
              /\ writer'[p].of = m => InHand(m, writer[p])'
              /\ writer'[p].of # m => AtRest(m)'
      BY <1>1, <1>6, <1>8, IdleFacts
    <2> QED  BY <1>1, <1>2, <1>3, <1>6, <1>9, <2>1, MailGoesOn
  <1> QED  BY <1>6, <1>10

-----------------------------------------------------------------------------
(* The steps of the clients.                                               *)

LEMMA TurnStep ==
  ASSUME IInv, NEW c \in Clients, NEW k \in Client, Turn(c, k),
         UNCHANGED <<lastHistoryID, message, history, writer, crossed>>,
         k.start =< lastHistoryID, k.latest =< lastHistoryID,
         seen' \in [Clients -> SUBSET Row],
         raced' \in [Clients -> SUBSET (1..MaxHistory)],
         \A d \in Clients : d # c => seen'[d] = seen[d] /\ raced'[d] = raced[d],
         ~Answering(k) => k.page = {}, k.step = "ready" => k.offset = 0,
         \A r \in k.page : r.id > k.start,
         \A p \in Writers :
           writer[p].id # 0 /\ (k.step # "ready" \/ writer[p].id =< k.start)
             => writer[p].id \in raced'[c],
         \A r \in history : Reached(k, r.id) =>
           r \in seen'[c] \cup k.page \/ r.id \in raced'[c]
  PROVE  IInv'
  <1>1. /\ client' \in [Clients -> Client] /\ client'[c] = k
        /\ \A d \in Clients : d # c => client'[d] = client[d]
    BY DEF IInv, TypeOK, Turn
  <1>2. TypeOK' /\ (\A p \in Writers : Sound(writer[p]))'
    <2>1. TypeOK'
      BY <1>1 DEF IInv, TypeOK
    <2>2. \A p \in Writers : Sound(writer[p])
      BY DEF IInv
    <2> QED  BY <2>1, <2>2 DEF Sound, RowSound, IdleWriter
  <1>3. Numbered'
    <2>1. Generating' = Generating
      BY DEF Generating, At
    <2> QED  BY <1>1, <2>1 DEF IInv, Numbered
  <1>4. ASSUME NEW k1, NEW i PROVE Reached(k1, i)' <=> Reached(k1, i)
    BY DEF Reached, Rank, After, Ids, Answering, Passed
  <1>5. ListingsSound'
    <2>1. ASSUME NEW d \in Clients, d # c PROVE ListingSound(d)'
      <3>1. ListingSound(d)
        BY DEF IInv, ListingsSound
      <3>2. client'[d] = client[d] /\ seen'[d] = seen[d] /\ raced'[d] = raced[d]
        BY <1>1, <2>1
      <3>3. PICK k1 : k1 = client[d]
        OBVIOUS
      <3>4. \A i : Reached(client[d], i)' <=> Reached(k1, i)
        BY <1>4, <3>2, <3>3 DEF Reached, Rank, After, Ids, Answering, Passed
      <3>5. \A r \in history : Known(d, r)' <=> Known(d, r)
        BY <3>2 DEF Known
      <3> QED  BY <3>1, <3>2, <3>3, <3>4, <3>5 DEF ListingSound, Answering
    <2>2. ListingSound(c)'
      <3>1. \A i : Reached(client[c], i)' <=> Reached(k, i)
        BY <1>1 DEF Reached, Rank, After, Ids, Answering, Passed
      <3>2. \A r \in history : Known(c, r)' <=>
              r \in seen'[c] \cup k.page \/ r.id \in raced'[c]
        BY <1>1 DEF Known
      <3> QED  BY <1>1, <3>1, <3>2 DEF ListingSound, Answering
    <2> QED  BY <2>1, <2>2 DEF ListingsSound
  <1>6. MailsSound'
    BY MailKept DEF IInv
  <1> QED  BY <1>2, <1>3, <1>5, <1>6 DEF IInv

LEMMA ClientIs ==
  ASSUME NEW k \in Client
  PROVE  /\ k = [step |-> k.step, start |-> k.start, offset |-> k.offset,
                 page |-> k.page, more |-> k.more, latest |-> k.latest]
         /\ k.start \in 0..MaxHistory /\ k.start \in Nat /\ k.offset \in Nat
         /\ k.page \in SUBSET Row /\ k.more \in BOOLEAN /\ k.latest \in 0..MaxHistory
         /\ k.step \in {"ready", "listed", "latest", "paging"}
  BY HistoryAssumption DEF Client

LEMMA listStep ==
  ASSUME IInv, NEW c \in Clients, listHistory(c)
  PROVE  IInv'
  <1>1. PICK o : o = client[c]
    OBVIOUS
  <1>2. o \in Client /\ o.step \in {"ready", "paging"} /\ ListingSound(c)
    BY <1>1 DEF IInv, TypeOK, ListingsSound, listHistory
  <1>3. PICK page, more :
          /\ page = PageOf(o)
          /\ more = MoreAfter(o.offset, Cardinality(After(o.start)))
    OBVIOUS
  <1>4. PICK k : k = [o EXCEPT !.step = "listed", !.page = page, !.more = more]
    OBVIOUS
  <1>5. /\ Turn(c, k)
        /\ raced' = [raced EXCEPT ![c] = @ \cup (IF o.step = "ready"
                                                 THEN BeingWritten ELSE {})]
        /\ UNCHANGED <<lastHistoryID, message, history, writer, seen, crossed>>
    BY <1>1, <1>3, <1>4 DEF listHistory
  <1>6. k = [step |-> "listed", start |-> o.start, offset |-> o.offset,
             page |-> page, more |-> more, latest |-> o.latest]
    <2>1. o = [step |-> o.step, start |-> o.start, offset |-> o.offset,
               page |-> o.page, more |-> o.more, latest |-> o.latest]
      BY <1>2, ClientIs
    <2> QED  BY <1>4, <2>1
  <1>7. page \in SUBSET Row /\ more \in BOOLEAN
    BY <1>3 DEF IInv, TypeOK, PageOf, MoreAfter
  <1>8. k \in Client
    BY <1>2, <1>6, <1>7, ClientIs DEF Client
  <1>9. BeingWritten \in SUBSET (1..MaxHistory)
    <2>1. \A p \in Writers : writer[p].id \in 0..MaxHistory
      BY DEF IInv, TypeOK, Writer
    <2> QED  BY <2>1, HistoryAssumption DEF BeingWritten
  <1>10. /\ raced' \in [Clients -> SUBSET (1..MaxHistory)]
         /\ raced'[c] = raced[c] \cup (IF o.step = "ready" THEN BeingWritten ELSE {})
         /\ \A d \in Clients : d # c => raced'[d] = raced[d]
    BY <1>5, <1>9 DEF IInv, TypeOK
  <1>11. \A p \in Writers : writer[p].id # 0 => writer[p].id \in raced'[c]
    BY <1>1, <1>2, <1>10 DEF ListingSound, BeingWritten
  <1>12. ASSUME NEW r \in history, Reached(k, r.id)
         PROVE  r \in seen'[c] \cup k.page \/ r.id \in raced'[c]
    <2>1. PICK s \in Nat, i \in Nat : s = o.start /\ i = r.id
      BY <1>2, ClientIs, HistoryAssumption DEF IInv, TypeOK, Row
    <2>2. /\ Rank(i, s) \in Nat /\ Cardinality(After(s)) \in Nat
          /\ Rank(i, s) =< Cardinality(After(s))
      BY RankFacts DEF IInv
    <2>3. o.offset \in Nat /\ PageSize \in Nat
      BY <1>2, ClientIs, HistoryAssumption
    <2>4. i =< s \/ Rank(i, s) =< o.offset + PageSize
      <3>1. CASE ~more
        <4>1. ~(o.offset + PageSize < Cardinality(After(s)))
          BY <1>3, <2>1, <3>1 DEF MoreAfter, NextPage
        <4> QED  BY <2>2, <2>3, <4>1
      <3>2. CASE more
        BY <1>6, <1>12, <2>1, <3>2 DEF Reached, Answering, Passed
      <3> QED  BY <3>1, <3>2
    <2>5. CASE i =< s \/ Rank(i, s) =< o.offset
      <3>1. Reached(client[c], r.id)
        BY <1>1, <1>2, <2>1, <2>5 DEF Reached, Answering, Passed
      <3>2. client[c].page = {} /\ Known(c, r)
        BY <1>1, <1>2, <3>1 DEF ListingSound, Answering
      <3> QED  BY <1>5, <1>10, <3>2 DEF Known
    <2>6. CASE ~(i =< s) /\ ~(Rank(i, s) =< o.offset)
      <3>1. i > s /\ Rank(i, s) > o.offset /\ Rank(i, s) =< o.offset + PageSize
        BY <2>2, <2>3, <2>4, <2>6
      <3>2. r \in page
        BY <1>3, <2>1, <3>1 DEF PageOf
      <3> QED  BY <1>6, <3>2
    <2> QED  BY <2>5, <2>6
  <1>13. k.start =< lastHistoryID /\ k.latest =< lastHistoryID
    BY <1>1, <1>6 DEF IInv, Numbered
  <1>14. seen' \in [Clients -> SUBSET Row] /\ seen' = seen
    BY <1>5 DEF IInv, TypeOK
  <1>15. Answering(k) /\ k.step # "ready" /\ \A r \in k.page : r.id > k.start
    BY <1>3, <1>6 DEF Answering, PageOf
  <1> QED  BY <1>5, <1>8, <1>10, <1>11, <1>12, <1>13, <1>14, <1>15, TurnStep

LEMMA latestStep ==
  ASSUME IInv, NEW c \in Clients, latestOfMessages(c)
  PROVE  IInv'
  <1>1. PICK o : o = client[c]
    OBVIOUS
  <1>2. o \in Client /\ o.step = "listed" /\ ListingSound(c)
    BY <1>1 DEF IInv, TypeOK, ListingsSound, latestOfMessages
  <1>3. PICK latest : latest = Latest({message[m].history : m \in DOMAIN message})
    OBVIOUS
  <1>4. latest \in 0..lastHistoryID /\ latest \in 0..MaxHistory
    <2>1. {message[m].history : m \in DOMAIN message} \in SUBSET (0..lastHistoryID)
      BY HistoryAssumption DEF IInv, TypeOK, Numbered, Message
    <2>2. lastHistoryID \in Nat /\ lastHistoryID =< MaxHistory /\ MaxHistory \in Nat
      BY HistoryAssumption DEF IInv, TypeOK
    <2>3. latest \in 0..lastHistoryID
      BY <1>3, <2>1, <2>2, LatestFacts
    <2> QED  BY <2>2, <2>3
  <1>5. PICK k : k = [o EXCEPT !.step = "latest", !.latest = latest]
    OBVIOUS
  <1>6. k = [step |-> "latest", start |-> o.start, offset |-> o.offset,
             page |-> o.page, more |-> o.more, latest |-> latest]
    <2>1. o = [step |-> o.step, start |-> o.start, offset |-> o.offset,
               page |-> o.page, more |-> o.more, latest |-> o.latest]
      BY <1>2, ClientIs
    <2> QED  BY <1>5, <2>1
  <1>7. k \in Client
    BY <1>2, <1>4, <1>6, ClientIs DEF Client
  <1>8. /\ Turn(c, k)
        /\ UNCHANGED <<lastHistoryID, message, history, writer, seen, raced, crossed>>
    BY <1>1, <1>3, <1>5 DEF latestOfMessages
  <1>9. Answering(k) /\ k.step # "ready" /\ \A r \in k.page : r.id > k.start
    BY <1>1, <1>2, <1>6 DEF Answering, ListingSound
  <1>10. \A p \in Writers : writer[p].id # 0 => writer[p].id \in raced'[c]
    BY <1>1, <1>2, <1>8 DEF ListingSound
  <1>11. ASSUME NEW r \in history, Reached(k, r.id)
         PROVE  r \in seen'[c] \cup k.page \/ r.id \in raced'[c]
    <2>1. Reached(client[c], r.id)
      BY <1>1, <1>2, <1>6, <1>11 DEF Reached, Passed, Answering
    <2>2. Known(c, r)
      BY <1>2, <2>1 DEF ListingSound
    <2> QED  BY <1>1, <1>6, <1>8, <2>2 DEF Known
  <1>12. k.start =< lastHistoryID /\ k.latest =< lastHistoryID
    BY <1>1, <1>4, <1>6 DEF IInv, Numbered
  <1>13. /\ seen' \in [Clients -> SUBSET Row] /\ seen' = seen
         /\ raced' \in [Clients -> SUBSET (1..MaxHistory)] /\ raced' = raced
    BY <1>8 DEF IInv, TypeOK
  <1> QED  BY <1>7, <1>8, <1>9, <1>10, <1>11, <1>12, <1>13, TurnStep

LEMMA answerStep ==
  ASSUME IInv, NEW c \in Clients, answer(c)
  PROVE  IInv'
  <1>1. PICK o : o = client[c]
    OBVIOUS
  <1>2. /\ o \in Client /\ o.step = "latest" /\ ListingSound(c)
        /\ o.start =< lastHistoryID /\ o.latest =< lastHistoryID
    BY <1>1 DEF IInv, TypeOK, Numbered, ListingsSound, answer
  <1>3. PICK current : current = Latest({o.latest} \cup Ids)
    OBVIOUS
  <1>4. /\ current \in 0..lastHistoryID /\ current \in 0..MaxHistory
        /\ current \in Nat /\ lastHistoryID \in Nat
    <2>1. lastHistoryID \in Nat /\ lastHistoryID =< MaxHistory /\ MaxHistory \in Nat
      BY HistoryAssumption DEF IInv, TypeOK
    <2>2. Ids \in SUBSET (0..lastHistoryID)
      BY <2>1 DEF IInv, TypeOK, Numbered, Row, Ids
    <2>3. {o.latest} \cup Ids \in SUBSET (0..lastHistoryID)
      BY <1>2, <2>1, <2>2, ClientIs
    <2>4. current \in 0..lastHistoryID
      BY <1>3, <2>1, <2>3, LatestFacts
    <2> QED  BY <2>1, <2>4
  <1>5. /\ seen' = [seen EXCEPT ![c] = @ \cup o.page]
        /\ UNCHANGED <<lastHistoryID, message, history, writer, raced, crossed>>
    BY <1>1 DEF answer
  <1>6. /\ seen' \in [Clients -> SUBSET Row] /\ seen'[c] = seen[c] \cup o.page
        /\ \A d \in Clients : d # c => seen'[d] = seen[d]
        /\ raced' \in [Clients -> SUBSET (1..MaxHistory)] /\ raced' = raced
    BY <1>2, <1>5, ClientIs DEF IInv, TypeOK
  <1>7. ASSUME NEW r \in history, Reached(o, r.id)
        PROVE  r \in seen'[c] \/ r.id \in raced'[c]
    <2>1. Known(c, r)
      BY <1>1, <1>2, <1>7 DEF ListingSound
    <2> QED  BY <1>1, <1>6, <2>1 DEF Known
  <1>8. \A p \in Writers : writer[p].id # 0 => writer[p].id \in raced'[c]
    BY <1>1, <1>2, <1>6 DEF ListingSound
  <1>9. CASE o.more
    <2>1. PICK offset : offset = NextPage(o.offset)
      OBVIOUS
    <2>2. offset = o.offset + PageSize /\ offset \in Nat
      BY <1>2, <2>1, ClientIs, HistoryAssumption DEF NextPage
    <2>3. PICK k : k = [o EXCEPT !.step = "paging", !.page = {}, !.latest = 0,
                                 !.offset = offset]
      OBVIOUS
    <2>4. k = [step |-> "paging", start |-> o.start, offset |-> offset,
               page |-> {}, more |-> o.more, latest |-> 0]
      <3>1. o = [step |-> o.step, start |-> o.start, offset |-> o.offset,
                 page |-> o.page, more |-> o.more, latest |-> o.latest]
        BY <1>2, ClientIs
      <3> QED  BY <2>3, <3>1
    <2>5. Turn(c, k)
      <3>1. k = [o EXCEPT !.step = "paging", !.page = {}, !.latest = 0,
                          !.offset = NextPage(@)]
        BY <2>1, <2>3
      <3> QED  BY <1>1, <1>9, <3>1 DEF answer
    <2>6. k \in Client
      <3>1. 0 \in 0..MaxHistory
        BY HistoryAssumption
      <3> QED  BY <1>2, <2>2, <2>4, <3>1, ClientIs DEF Client
    <2>7. ASSUME NEW r \in history, Reached(k, r.id)
          PROVE  r \in seen'[c] \cup k.page \/ r.id \in raced'[c]
      <3>1. Reached(o, r.id)
        BY <1>2, <2>2, <2>4, <2>7 DEF Reached, Passed, Answering
      <3> QED  BY <1>7, <3>1
    <2>8. /\ k.start =< lastHistoryID /\ k.latest =< lastHistoryID
          /\ k.page = {} /\ k.step # "ready"
      BY <1>2, <1>4, <2>4
    <2> QED  BY <1>5, <1>6, <1>8, <2>5, <2>6, <2>7, <2>8, TurnStep
  <1>10. CASE ~o.more
    <2>1. PICK k : k = [ReadyClient EXCEPT !.start = current]
      OBVIOUS
    <2>2. k = [step |-> "ready", start |-> current, offset |-> 0, page |-> {},
               more |-> FALSE, latest |-> 0]
      BY <2>1 DEF ReadyClient
    <2>3. Turn(c, k)
      BY <1>1, <1>3, <1>10, <2>1 DEF answer
    <2>4. k \in Client
      <3>1. 0 \in 0..MaxHistory /\ 0 \in Nat /\ {} \in SUBSET Row
        BY HistoryAssumption
      <3> QED  BY <1>4, <2>2, <3>1 DEF Client
    <2>5. ASSUME NEW r \in history, Reached(k, r.id)
          PROVE  r \in seen'[c] \cup k.page \/ r.id \in raced'[c]
      <3>1. Reached(o, r.id)
        BY <1>2, <1>10 DEF Reached, Answering
      <3> QED  BY <1>7, <3>1
    <2>6. /\ k.start =< lastHistoryID /\ k.latest =< lastHistoryID
          /\ k.page = {} /\ k.offset = 0
      BY <1>4, <2>2
    <2> QED  BY <1>5, <1>6, <1>8, <2>3, <2>4, <2>5, <2>6, TurnStep
  <1> QED  BY <1>9, <1>10

-----------------------------------------------------------------------------
(* All steps.                                                              *)

LEMMA Starts == Init => IInv
  <1> SUFFICES ASSUME Init PROVE IInv
    OBVIOUS
  <1>1. 0 \in 0..MaxHistory /\ 0 \in Nat /\ MaxHistory \in Nat
    BY HistoryAssumption
  <1>2. ReadyClient \in Client
    BY <1>1 DEF ReadyClient, Client
  <1>3. TypeOK
    BY <1>1, <1>2, IdleFacts DEF Init, TypeOK
  <1>4. Numbered
    <2>1. Generating = {}
      BY IdleFacts DEF Init, Generating, At
    <2>2. Cardinality(Generating) = 0
      BY <2>1, FS_EmptySet
    <2> QED  BY <1>1, <2>2, IdleFacts DEF Init, Numbered, ReadyClient
  <1>5. \A p \in Writers : Sound(writer[p])
    BY IdleFacts DEF Init
  <1>6. ListingsSound
    BY IdleFacts DEF Init, ListingsSound, ListingSound, Answering, ReadyClient
  <1>7. MailsSound
    BY IdleFacts DEF Init, MailsSound, MailSound, AtRest
  <1> QED  BY <1>3, <1>4, <1>5, <1>6, <1>7 DEF IInv

LEMMA Step ==
  ASSUME IInv, Next
  PROVE  IInv'
  <1>1. CASE \E p \in Writers : Begins(p) \/ Continues(p)
    <2>1. PICK p \in Writers : Begins(p) \/ Continues(p)
      BY <1>1
    <2>2. CASE Begins(p)
      BY <2>2, BeginsStep
    <2>3. CASE Continues(p)
      BY <2>3, generateStep, WriteStep, recordStep, applyFilterStep, DoneStep
         DEF Continues
    <2> QED  BY <2>1, <2>2, <2>3
  <1>2. CASE \E c \in Clients : Lists(c)
    BY <1>2, listStep, latestStep, answerStep DEF Lists
  <1> QED  BY <1>1, <1>2 DEF Next

LEMMA Stutter ==
  ASSUME IInv, UNCHANGED vars
  PROVE  IInv'
  <1>1. UNCHANGED <<lastHistoryID, message, history, writer, client, seen, raced,
                    crossed>>
    BY DEF vars
  <1>2. TypeOK'
    BY <1>1 DEF IInv, TypeOK
  <1>3. Numbered'
    BY <1>1 DEF IInv, Numbered, Generating, At
  <1>4. (\A p \in Writers : Sound(writer[p]))'
    BY <1>1 DEF IInv, Sound, RowSound, IdleWriter
  <1>5. ListingsSound'
    BY <1>1, <1>2, ListingsKept
  <1>6. MailsSound'
    BY <1>1, MailKept DEF IInv
  <1> QED  BY <1>2, <1>3, <1>4, <1>5, <1>6 DEF IInv

(* The inductive invariant.                                                *)
THEOREM Invariant == Spec => []IInv
  <1>1. IInv /\ [Next]_vars => IInv'
    BY Step, Stutter
  <1> QED  BY <1>1, Starts, PTL DEF Spec

(* The variables keep their types.                                         *)
THEOREM TypeCorrect == Spec => []TypeOK
  <1>1. IInv => TypeOK
    BY DEF IInv
  <1> QED  BY <1>1, Invariant, PTL

(* A client that goes on from the id the last answer gave it has been told *)
(* of every row up to that id, but for changes that were being written     *)
(* while it listed, however many requests, pages and clients there are.    *)
THEOREM ListingsTell == Spec => []MissedOnlyIfRaced
  <1>1. IInv => MissedOnlyIfRaced
    <2>1. SUFFICES ASSUME IInv, NEW c \in Clients, NEW r \in history,
                          r.id =< client[c].start, r \notin seen[c]
                   PROVE  r.id \in raced[c]
      BY DEF MissedOnlyIfRaced, Missed
    <2>2. ListingSound(c)
      BY <2>1 DEF IInv, ListingsSound
    <2>3. Reached(client[c], r.id)
      BY <2>1 DEF Reached
    <2>4. Known(c, r)
      BY <2>2, <2>3 DEF ListingSound
    <2>5. r \notin client[c].page
      <3>1. r.id \in Nat /\ client[c].start \in Nat
        BY <2>1, HistoryAssumption DEF IInv, TypeOK, Row, Client
      <3> QED  BY <2>1, <2>2, <3>1 DEF ListingSound
    <2> QED  BY <2>1, <2>4, <2>5 DEF Known
  <1> QED  BY <1>1, Invariant, PTL

(* The labels of a message that no request is changing are those that the  *)
(* rows of its history tell, unless requests for it overlapped.            *)
THEOREM HistoryTells == Spec => []LabelsFollowHistory
  <1>1. IInv => LabelsFollowHistory
    <2>1. SUFFICES ASSUME IInv, NEW m \in DOMAIN message \ crossed, Undisturbed(m)
                   PROVE  /\ \A l \in Labels :
                               /\ LastSays(m, l, "labelAdded") => l \in message[m].labels
                               /\ LastSays(m, l, "labelRemoved")
                                    => l \notin message[m].labels
                          /\ \A r \in history : r.of = m => r.kind # "messageDeleted"
      BY DEF LabelsFollowHistory
    <2>2. Follows(RowsFor(m), message[m].labels, {}) /\ ~Deleted(RowsFor(m))
      <3>1. MailSound(m)
        BY <2>1 DEF IInv, TypeOK, MailsSound
      <3> QED  BY <2>1, <3>1 DEF MailSound, AtRest
    <2>3. ASSUME NEW l \in Labels, NEW kind, LastSays(m, l, kind)
          PROVE  Tells(RowsFor(m), kind, l)
      BY <2>3 DEF LastSays, Naming, Tells, RowsFor
    <2>4. \A r \in history : r.of = m => r.kind # "messageDeleted"
      BY <2>2 DEF Deleted, RowsFor
    <2> QED  BY <2>2, <2>3, <2>4 DEF Follows
  <1> QED  BY <1>1, Invariant, PTL
=============================================================================
