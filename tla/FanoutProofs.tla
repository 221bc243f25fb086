----------------------------- MODULE FanoutProofs -----------------------------
(***************************************************************************)
(* Proofs about Fanout, for every set of requests, queues, topics, rules,  *)
(* subscriptions and targets, every size of a message and every bound.     *)
(*                                                                         *)
(* The invariant goes by ways and jobs: of the jobs a request has still to *)
(* do, at most one leads to a message by a given way; a way that stands    *)
(* has its message or such a job, and never both.  A job gives way to      *)
(* others that lead, between them, where it led, as long as the way        *)
(* stands: that is what each handler is shown to do.  For the log, a       *)
(* target is opened once in an event and delivered to without another      *)
(* target's jobs in between, so what the request counts is what it sent    *)
(* to that target.  Numbers tell subscriptions and targets apart, without  *)
(* which a listing could give one subscription two jobs.                   *)
(***************************************************************************)
EXTENDS Fanout, FunctionTheorems, FiniteSetTheorems, SequenceTheorems, TLAPS

-----------------------------------------------------------------------------
(* What the variables hold.                                                *)

Subscription == [n : Nat, topic : Topics, to : Queues \cup {Other}]
Target == [n : Nat, rule : Rules, to : Queues \cup Topics \cup {Other}]

JobOn(job, X) == [do : job, x : X, via : {{}}, to : {Other}]
Single == {{g} : g \in Target}
AJob ==
  UNION {JobOn({"subscriptions", "drop"}, Topics), JobOn({"rules"}, {Other}),
         JobOn({"deliver", "subscribe", "unsubscribe"}, Subscription),
         JobOn({"targets"}, Rules),
         JobOn({"sqs", "sns", "forward", "log", "target"}, Target),
         [do : {"relay"}, x : Subscription, via : Single, to : {Other}],
         [do : {"insert"}, x : Subscription, via : {{}} \cup Single,
          to : Queues],
         [do : {"insert"}, x : Target, via : Single, to : Queues]}
Request == [busy : BOOLEAN, of : Nat, event : BOOLEAN, todo : Seq(AJob),
            sent : Nat]

Types ==
  /\ queues \subseteq Queues /\ topics \subseteq Topics /\ enabled \subseteq Rules
  /\ subs \subseteq Subscription /\ IsFiniteSet(subs)
  /\ targets \subseteq Target /\ IsFiniteSet(targets)
  /\ req \in [Procs -> Request]
  /\ accepted \in Nat /\ changes \in Nat
  /\ standing \in [Procs -> SUBSET Ways]

(* No two subscriptions have a number and no two targets, those about to   *)
(* be inserted among them.                                                 *)
Some(s, J) == \E i \in 1..Len(s) : s[i] \in J
Inserts(x) == {Job("subscribe", x), Job("target", x)}
Known(x) ==
  x \in subs \cup targets \/ \E p \in Procs : Some(req[p].todo, Inserts(x))
AtFirst == Cardinality(Subscribed) + Cardinality(Targeted)
NumbersOf(X) ==
  /\ \A x \in X : Known(x) => x.n <= AtFirst + changes
  /\ \A x, y \in X : Known(x) /\ Known(y) /\ x.n = y.n => x = y
Numbers == NumbersOf(Subscription) /\ NumbersOf(Target)

-----------------------------------------------------------------------------
(* Jobs of a request.                                                      *)

Once(s, J) == \A i, j \in 1..Len(s) : s[i] \in J /\ s[j] \in J => i = j

Changing ==
  {j \in AJob : j.do \in {"drop", "subscribe", "unsubscribe", "target"}}
Publishing ==
  {j \in AJob : \/ j.do \in {"subscriptions", "deliver"}
                \/ j.do = "insert" /\ j.via = {}}
Opening == {j \in AJob : j.do \in {"rules", "targets", "sqs"}}

(* The jobs from which one comes that delivers to target g, and those of   *)
(* its delivery, after which the log is written.                           *)
Opens(g) ==
  {j \in Opening : \/ j.do = "rules"
                   \/ j.do = "targets" /\ j.x = g.rule
                   \/ j.do = "sqs" /\ j.x = g}
Before(g) ==
  {j \in AJob : \/ j.do \in {"sns", "forward"} /\ j.x = g
                \/ j.do \in {"relay", "insert"} /\ j.via = {g}}
Delivering(s, g) ==
  \E k \in 1..Len(s) : /\ s[k] = Job("log", g)
                       /\ \A i \in 1..(k - 1) : s[i] \in Before(g)
                       /\ \A i \in (k + 1)..Len(s) : s[i] \in Opening \ Opens(g)

(* The jobs that lead to a message by way w.                               *)
Leads(w) ==
  {j \in AJob :
     \/ j.do = "subscriptions" /\ w.target = {} /\ \E s \in w.sub : s.topic = j.x
     \/ j.do = "deliver" /\ w.target = {} /\ w.sub = {j.x}
     \/ j.do = "rules" /\ w.target # {}
     \/ j.do = "targets" /\ \E g \in w.target : g.rule = j.x
     \/ j.do = "sqs" /\ w.target = {j.x}
     \/ j.do \in {"sns", "forward"} /\ w.target = {j.x} /\ w.sub # {}
     \/ j.do = "relay" /\ w.target = j.via /\ w.sub = {j.x}
     \/ j.do = "insert" /\ w = Way(j.via, Sub(j), j.to)}

(* The requests: what the jobs of one are, that every way that stands has  *)
(* its message or one job that leads to it, that no target is delivered to *)
(* twice, and that a request counts the messages of the target it is at.   *)
All(s, J) == \A i \in 1..Len(s) : s[i] \in J
Kept(r) ==
  IF r.of = 0 THEN All(r.todo, Changing)
  ELSE IF ~r.event THEN All(r.todo, Publishing)
  ELSE All(r.todo, Opening) \/ \E g \in Target : Delivering(r.todo, g)

By(ms, n, w) == {m \in ms : m.of = n /\ m.way = w}
SentTo(ms, n, g) == \E m \in ms : m.of = n /\ m.way.target = {g}
Logged(es, n, g) == \E e \in es : e.of = n /\ e.target = g

Served(r, W, ms) ==
  \A w \in W :
    /\ Once(r.todo, Leads(w))
    /\ Some(r.todo, Leads(w)) => By(ms, r.of, w) = {}
    /\ \/ Some(r.todo, Leads(w))
       \/ \E m \in ms : By(ms, r.of, w) = {m}
Opened(r, ms, es) ==
  \A g \in Target :
    /\ Once(r.todo, Opens(g))
    /\ Some(r.todo, Opens(g)) =>
         ~SentTo(ms, r.of, g) /\ ~Logged(es, r.of, g)
Counted(r, ms, es) ==
  \A g \in Target :
    Delivering(r.todo, g) =>
      ((r.sent > 0) <=> SentTo(ms, r.of, g)) /\ ~Logged(es, r.of, g)
Fine(r, W, ms, es) ==
  /\ ~r.busy => r.of = 0 /\ r.todo = <<>>
  /\ r.of = 0 => W = {}
  /\ Kept(r)
  /\ r.of # 0 => Served(r, W, ms) /\ Opened(r, ms, es) /\ Counted(r, ms, es)

Past ==
  /\ \A p \in Procs : req[p].of <= accepted
  /\ \A m \in messages : m.of \in Nat /\ m.of <= accepted
  /\ \A e \in events : e.of \in Nat /\ e.of <= accepted
Apart == \A p, q \in Procs : p # q /\ req[p].of # 0 => req[p].of # req[q].of

IInv ==
  /\ Types /\ Numbers /\ Past /\ Apart
  /\ \A p \in Procs : Fine(req[p], standing[p], messages, events)
  /\ LogTellsTruth

-----------------------------------------------------------------------------
(* Lists of jobs.                                                          *)

(* The first of a list gives way to others, a.                             *)
LEMMA Replaced ==
  ASSUME NEW E, NEW s \in Seq(E), s # <<>>, NEW a \in Seq(E)
  PROVE  LET t == a \o Tail(s)
         IN  /\ t \in Seq(E)
             /\ Len(t) = Len(a) + Len(s) - 1
             /\ \A i \in 1..Len(a) : i \in 1..Len(t) /\ t[i] = a[i]
             /\ \A i \in 2..Len(s) :
                  Len(a) + i - 1 \in 1..Len(t) /\ t[Len(a) + i - 1] = s[i]
             /\ \A i \in 1..Len(t) :
                  \/ i \in 1..Len(a) /\ t[i] = a[i]
                  \/ i - Len(a) + 1 \in 2..Len(s) /\ t[i] = s[i - Len(a) + 1]
             /\ Head(s) = s[1] /\ Len(s) \in Nat \ {0} /\ Len(a) \in Nat
<1> DEFINE t == a \o Tail(s)
<1>1. Len(s) \in Nat /\ Len(s) # 0 /\ Len(a) \in Nat
  BY EmptySeq, LenProperties
<1>2. /\ Tail(s) \in Seq(E) /\ Len(Tail(s)) = Len(s) - 1
      /\ \A i \in 1..Len(Tail(s)) : Tail(s)[i] = s[i + 1]
  BY HeadTailProperties
<1>3. /\ t \in Seq(E) /\ Len(t) = Len(a) + Len(s) - 1
      /\ \A i \in 1..(Len(a) + Len(s) - 1) :
           t[i] = IF i <= Len(a) THEN a[i] ELSE Tail(s)[i - Len(a)]
  <2>1. /\ t \in Seq(E) /\ Len(t) = Len(a) + Len(Tail(s))
        /\ \A i \in 1..(Len(a) + Len(Tail(s))) :
             t[i] = IF i <= Len(a) THEN a[i] ELSE Tail(s)[i - Len(a)]
    BY <1>2, ConcatProperties
  <2>2. Len(a) + Len(Tail(s)) = Len(a) + Len(s) - 1
    BY <1>1, <1>2
  <2> QED BY <2>1, <2>2
<1>4. \A i \in 1..Len(a) : i \in 1..Len(t) /\ t[i] = a[i]
  BY <1>1, <1>3
<1>5. \A i \in 2..Len(s) :
        Len(a) + i - 1 \in 1..Len(t) /\ t[Len(a) + i - 1] = s[i]
  <2> TAKE i \in 2..Len(s)
  <2>1. /\ Len(a) + i - 1 \in 1..(Len(a) + Len(s) - 1)
        /\ ~(Len(a) + i - 1 <= Len(a)) /\ Len(a) + i - 1 - Len(a) = i - 1
        /\ i - 1 \in 1..Len(Tail(s)) /\ i - 1 + 1 = i
    BY <1>1, <1>2
  <2> QED BY <2>1, <1>2, <1>3
<1>6. \A i \in 1..Len(t) :
        \/ i \in 1..Len(a) /\ t[i] = a[i]
        \/ i - Len(a) + 1 \in 2..Len(s) /\ t[i] = s[i - Len(a) + 1]
  <2> TAKE i \in 1..Len(t)
  <2>1. CASE i <= Len(a)
    BY <2>1, <1>1, <1>3
  <2>2. CASE ~(i <= Len(a))
    <3>1. /\ i - Len(a) \in 1..Len(Tail(s)) /\ i - Len(a) + 1 \in 2..Len(s)
          /\ i \in 1..(Len(a) + Len(s) - 1)
      BY <2>2, <1>1, <1>2, <1>3
    <3> QED BY <3>1, <2>2, <1>2, <1>3
  <2> QED BY <2>1, <2>2
<1>7. Head(s) = s[1]
  OBVIOUS
<1> QED BY <1>1, <1>3, <1>4, <1>5, <1>6, <1>7

(* What it means for the jobs of J, of which there was one at most.        *)
LEMMA LedOn ==
  ASSUME NEW E, NEW s \in Seq(E), s # <<>>, NEW a \in Seq(E), NEW J,
         Once(s, J), Once(a, J), Some(a, J) => Head(s) \in J
  PROVE  /\ Once(a \o Tail(s), J)
         /\ Some(a \o Tail(s), J) => Some(s, J)
         /\ Some(s, J) /\ (Head(s) \in J => Some(a, J)) => Some(a \o Tail(s), J)
         /\ Head(s) \in J /\ ~Some(a, J) => ~Some(a \o Tail(s), J)
<1> DEFINE t == a \o Tail(s)
<1>1. /\ \A i \in 1..Len(a) : i \in 1..Len(t) /\ t[i] = a[i]
      /\ \A i \in 2..Len(s) :
           Len(a) + i - 1 \in 1..Len(t) /\ t[Len(a) + i - 1] = s[i]
      /\ \A i \in 1..Len(t) :
           \/ i \in 1..Len(a) /\ t[i] = a[i]
           \/ i - Len(a) + 1 \in 2..Len(s) /\ t[i] = s[i - Len(a) + 1]
      /\ Head(s) = s[1] /\ Len(s) \in Nat \ {0} /\ Len(a) \in Nat
  BY Replaced
<1>2. 1 \in 1..Len(s) /\ \A i \in 2..Len(s) : i \in 1..Len(s) /\ i # 1
  BY <1>1
<1>3. Head(s) \in J => \A i \in 2..Len(s) : s[i] \notin J
  BY <1>1, <1>2 DEF Once
<1>4. Once(t, J)
  <2> SUFFICES ASSUME NEW i \in 1..Len(t), NEW j \in 1..Len(t), t[i] \in J, t[j] \in J
               PROVE  i = j
    BY DEF Once
  <2>1. CASE i \in 1..Len(a) /\ j \in 1..Len(a)
    BY <2>1, <1>1 DEF Once
  <2>2. CASE i \in 1..Len(a) /\ j \notin 1..Len(a)
    BY <2>2, <1>1, <1>3 DEF Some
  <2>3. CASE i \notin 1..Len(a) /\ j \in 1..Len(a)
    BY <2>3, <1>1, <1>3 DEF Some
  <2>4. CASE i \notin 1..Len(a) /\ j \notin 1..Len(a)
    <3>1. i - Len(a) + 1 = j - Len(a) + 1
      BY <2>4, <1>1, <1>2 DEF Once
    <3> QED BY <3>1, <1>1
  <2> QED BY <2>1, <2>2, <2>3, <2>4
<1>5. Some(t, J) => Some(s, J)
  BY <1>1, <1>2 DEF Some
<1>6. Some(s, J) /\ (Head(s) \in J => Some(a, J)) => Some(t, J)
  <2> SUFFICES ASSUME Some(s, J), Head(s) \in J => Some(a, J)
               PROVE  Some(t, J)
    OBVIOUS
  <2>1. CASE Some(a, J)
    BY <2>1, <1>1 DEF Some
  <2>2. CASE ~Some(a, J)
    <3>1. PICK i \in 1..Len(s) : s[i] \in J
      BY DEF Some
    <3>2. i \in 2..Len(s)
      BY <3>1, <2>2, <1>1
    <3> QED BY <3>1, <3>2, <1>1 DEF Some
  <2> QED BY <2>1, <2>2
<1>7. Head(s) \in J /\ ~Some(a, J) => ~Some(t, J)
  BY <1>1, <1>3 DEF Some
<1> QED BY <1>4, <1>5, <1>6, <1>7

(* All of a list.                                                          *)
LEMMA AllOn ==
  ASSUME NEW E, NEW s \in Seq(E), s # <<>>, NEW a \in Seq(E), NEW J,
         All(s, J), All(a, J)
  PROVE  All(a \o Tail(s), J)
BY Replaced DEF All

-----------------------------------------------------------------------------
(* A listing has everything listed once.                                   *)

(* Numbers that differ put a set in an order.                               *)
LEMMA Ranks ==
  ASSUME NEW S, IsFiniteSet(S), \A x \in S : x.n \in Nat,
         \A x, y \in S : x.n = y.n => x = y
  PROVE  /\ Cardinality(S) \in Nat
         /\ InOrder(S) \in [1..Cardinality(S) -> S]
         /\ \A k, l \in 1..Cardinality(S) : InOrder(S)[k] = InOrder(S)[l] => k = l
         /\ \A x \in S : \E k \in 1..Cardinality(S) : InOrder(S)[k] = x
<1> DEFINE Up(x) == {y \in S : y.n <= x.n}
           c == Cardinality(S)
           rank == [x \in S |-> Cardinality(Up(x))]
<1>1. c \in Nat
  BY FS_CardinalityType
<1>2. \A x \in S : IsFiniteSet(Up(x)) /\ Cardinality(Up(x)) \in 1..c
  <2> TAKE x \in S
  <2>1. IsFiniteSet(Up(x)) /\ Cardinality(Up(x)) <= c
    BY FS_Subset
  <2>2. Cardinality(Up(x)) \in Nat
    BY <2>1, FS_CardinalityType
  <2>3. x \in Up(x)
    OBVIOUS
  <2>4. Cardinality(Up(x)) # 0
    BY <2>1, <2>3, FS_EmptySet
  <2> QED BY <1>1, <2>1, <2>2, <2>4
<1>3. \A x, y \in S : x.n < y.n => Cardinality(Up(x)) # Cardinality(Up(y))
  <2> SUFFICES ASSUME NEW x \in S, NEW y \in S, x.n < y.n,
                      Cardinality(Up(x)) = Cardinality(Up(y))
               PROVE  FALSE
    OBVIOUS
  <2>1. Up(x) \in SUBSET Up(y)
    OBVIOUS
  <2>2. Up(y) = Up(x)
    BY <1>2, <2>1, FS_Subset
  <2>3. y \in Up(y) /\ y \notin Up(x)
    OBVIOUS
  <2> QED BY <2>2, <2>3
<1>4. \A x, y \in S : Cardinality(Up(x)) = Cardinality(Up(y)) => x = y
  <2> TAKE x, y \in S
  <2>1. x.n < y.n \/ y.n < x.n \/ x.n = y.n
    OBVIOUS
  <2> QED BY <2>1, <1>3
<1>5. rank \in Injection(S, 1..c)
  <2>1. rank \in [S -> 1..c]
    BY <1>2
  <2>2. \A x, y \in S : rank[x] = rank[y] => x = y
    BY <1>4
  <2> HIDE DEF rank, c
  <2> QED BY <2>1, <2>2, Fun_IsInj
<1>6. IsFiniteSet(1..c) /\ Cardinality(1..c) = c
  BY <1>1, FS_Interval
<1>7. rank \in Surjection(S, 1..c)
  <2> HIDE DEF rank
  <2> QED BY <1>5, <1>6, FS_Injection
<1>8. \A k \in 1..c : \E x \in S : Cardinality(Up(x)) = k
  BY <1>7 DEF Surjection
<1>9. \A k \in 1..c : InOrder(S)[k] \in S /\ Cardinality(Up(InOrder(S)[k])) = k
  BY <1>8 DEF InOrder
<1>10. InOrder(S) \in [1..c -> S]
  <2>1. InOrder(S) =
          [k \in 1..c |-> CHOOSE x \in S : Cardinality(Up(x)) = k]
    BY DEF InOrder
  <2>2. \A k \in 1..c : (CHOOSE x \in S : Cardinality(Up(x)) = k) \in S
    BY <1>8
  <2> QED BY <2>1, <2>2
<1>11. \A k, l \in 1..c : InOrder(S)[k] = InOrder(S)[l] => k = l
  BY <1>9
<1>12. \A x \in S : \E k \in 1..c : InOrder(S)[k] = x
  <2> TAKE x \in S
  <2>1. InOrder(S)[Cardinality(Up(x))] = x
    BY <1>2, <1>4, <1>9
  <2> QED BY <2>1, <1>2
<1> QED BY <1>1, <1>10, <1>11, <1>12

(* And so has a set made a sequence in no order.                           *)
LEMMA Enumerated ==
  ASSUME NEW S, IsFiniteSet(S)
  PROVE  /\ Cardinality(S) \in Nat
         /\ SetToSeq(S) \in [1..Cardinality(S) -> S]
         /\ \A k, l \in 1..Cardinality(S) : SetToSeq(S)[k] = SetToSeq(S)[l] => k = l
         /\ \A x \in S : \E k \in 1..Cardinality(S) : SetToSeq(S)[k] = x
<1>1. Cardinality(S) \in Nat /\ ExistsBijection(1..Cardinality(S), S)
  BY FS_CardinalityType
<1>2. \E f \in [1..Cardinality(S) -> S] : IsInjective(f)
  BY <1>1 DEF ExistsBijection, Bijection, Injection, IsInjective
<1>3. SetToSeq(S) \in [1..Cardinality(S) -> S] /\ IsInjective(SetToSeq(S))
  BY <1>2 DEF SetToSeq
<1>4. \A k, l \in 1..Cardinality(S) : SetToSeq(S)[k] = SetToSeq(S)[l] => k = l
  BY <1>3 DEF IsInjective
<1>5. SetToSeq(S) \in Injection(1..Cardinality(S), S)
  BY <1>3, <1>4, Fun_IsInj
<1>6. Cardinality(1..Cardinality(S)) = Cardinality(S)
  BY <1>1, FS_Interval
<1>7. SetToSeq(S) \in Surjection(1..Cardinality(S), S)
  BY <1>5, <1>6, FS_Injection
<1>8. \A x \in S : \E k \in 1..Cardinality(S) : SetToSeq(S)[k] = x
  BY <1>7 DEF Surjection
<1> QED BY <1>1, <1>3, <1>4, <1>8

-----------------------------------------------------------------------------
(* Jobs.                                                                   *)

(* What a job has, by what there is to do.                                 *)
LEMMA JobTypes ==
  ASSUME NEW j \in AJob
  PROVE  /\ j = [do |-> j.do, x |-> j.x, via |-> j.via, to |-> j.to]
         /\ \/ j.do \in {"subscriptions", "drop"} /\ j.x \in Topics
            \/ j.do = "rules" /\ j.x = Other
            \/ j.do \in {"deliver", "subscribe", "unsubscribe"} /\ j.x \in Subscription
            \/ j.do = "targets" /\ j.x \in Rules
            \/ j.do \in {"sqs", "sns", "forward", "log", "target"}
                 /\ j.x \in Target
            \/ j.do = "relay" /\ j.x \in Subscription /\ j.via \in Single
            \/ j.do = "insert" /\ j.x \in Subscription /\ j.via \in {{}} \cup Single
            \/ j.do = "insert" /\ j.x \in Target /\ j.via \in Single
         /\ j.do \notin {"relay", "insert"} => j.via = {}
         /\ j.do # "insert" => j.to = Other
         /\ j.do = "insert" => j.to \in Queues
         /\ j.do # "relay" /\ j.do # "insert" => j = Job(j.do, j.x)
BY DEF AJob, JobOn, Job

(* A subscription is no target.                                            *)
LEMMA KindsApart == \A s \in Subscription : s \notin Target
<1> SUFFICES ASSUME NEW s \in Subscription, s \in Target PROVE FALSE
  OBVIOUS
<1>1. DOMAIN s = {"n", "topic", "to"} /\ DOMAIN s = {"n", "rule", "to"}
  BY DEF Subscription, Target
<1> QED BY <1>1

(* The jobs there are.                                                     *)
LEMMA AreJobs ==
  /\ \A x \in Topics : Job("subscriptions", x) \in AJob /\ Job("drop", x) \in AJob
  /\ Job("rules", Other) \in AJob
  /\ \A x \in Subscription : /\ Job("deliver", x) \in AJob
                             /\ Job("subscribe", x) \in AJob
                             /\ Job("unsubscribe", x) \in AJob
  /\ \A x \in Rules : Job("targets", x) \in AJob
  /\ \A x \in Target : /\ Job("sqs", x) \in AJob /\ Job("sns", x) \in AJob
                       /\ Job("forward", x) \in AJob /\ Job("log", x) \in AJob
                       /\ Job("target", x) \in AJob
BY DEF AJob, JobOn, Job

(* What the records of jobs have.                                          *)
LEMMA JobFields ==
  ASSUME NEW d, NEW x
  PROVE  /\ Job(d, x).do = d /\ Job(d, x).x = x
         /\ Job(d, x).via = {} /\ Job(d, x).to = Other
         /\ \A y : Job(d, x) = Job(d, y) => x = y
BY DEF Job

(* The target that is delivered to is one.                                 *)
LEMMA OneDelivered ==
  ASSUME NEW s \in Seq(AJob), NEW g \in Target, NEW h \in Target,
         Delivering(s, g), Delivering(s, h)
  PROVE  g = h
<1>1. PICK k \in 1..Len(s) : /\ s[k] = Job("log", g)
                             /\ \A i \in 1..(k - 1) : s[i] \in Before(g)
                             /\ \A i \in (k + 1)..Len(s) : s[i] \in Opening \ Opens(g)
  BY DEF Delivering
<1>2. PICK l \in 1..Len(s) : /\ s[l] = Job("log", h)
                             /\ \A i \in 1..(l - 1) : s[i] \in Before(h)
                             /\ \A i \in (l + 1)..Len(s) : s[i] \in Opening \ Opens(h)
  BY DEF Delivering
<1>3. Len(s) \in Nat
  BY LenProperties
<1>4. \A f : Job("log", f) \notin Opening
  BY JobFields DEF Opening
<1>5. k = l \/ l \in (k + 1)..Len(s) \/ k \in (l + 1)..Len(s)
  BY <1>3
<1>6. k = l
  BY <1>1, <1>2, <1>4, <1>5
<1> QED BY <1>1, <1>2, <1>6, JobFields

(* A request that lists or publishes delivers to no target.                *)
LEMMA NoneDelivered ==
  ASSUME NEW s, NEW g, All(s, Opening) \/ All(s, Publishing) \/ All(s, Changing)
  PROVE  ~Delivering(s, g)
<1>1. Job("log", g) \notin Opening \cup Publishing \cup Changing
  BY JobFields DEF Opening, Publishing, Changing
<1> QED BY <1>1 DEF Delivering, All

(* The first job of a request says what the request is at.                 *)
LEMMA Heads ==
  ASSUME NEW r \in Request, Kept(r), r.todo # <<>>, NEW j, j = Head(r.todo)
  PROVE  /\ j \in AJob
         /\ j.do \in {"drop", "subscribe", "unsubscribe", "target"} => r.of = 0
         /\ j.do \in {"subscriptions", "deliver"} =>
              r.of # 0 /\ ~r.event /\ All(r.todo, Publishing)
         /\ j.do \in {"rules", "targets", "sqs"} =>
              r.of # 0 /\ r.event /\ All(r.todo, Opening)
         /\ j.do \in {"sns", "forward", "log"} =>
              r.of # 0 /\ r.event /\ Delivering(r.todo, j.x)
         /\ j.do = "relay" =>
              r.of # 0 /\ r.event /\ \E g \in Target : j.via = {g} /\ Delivering(r.todo, g)
         /\ j.do = "insert" =>
              /\ r.of # 0
              /\ \/ ~r.event /\ All(r.todo, Publishing) /\ j.via = {}
                 \/ r.event /\ \E g \in Target : j.via = {g} /\ Delivering(r.todo, g)
<1>1. r.todo \in Seq(AJob) /\ Len(r.todo) \in Nat /\ 1 \in 1..Len(r.todo)
  BY EmptySeq, LenProperties DEF Request
<1>2. j = r.todo[1] /\ j \in AJob
  BY <1>1, HeadTailProperties
<1>3. CASE r.of = 0
  <2>1. j \in Changing
    BY <1>1, <1>2, <1>3 DEF Kept, All
  <2> QED BY <1>2, <1>3, <2>1 DEF Changing
<1>4. CASE r.of # 0 /\ ~r.event
  <2>1. j \in Publishing /\ All(r.todo, Publishing)
    BY <1>1, <1>2, <1>4 DEF Kept, All
  <2> QED BY <1>2, <1>4, <2>1 DEF Publishing
<1>5. CASE r.of # 0 /\ r.event /\ All(r.todo, Opening)
  <2>1. j \in Opening
    BY <1>1, <1>2, <1>5 DEF All
  <2> QED BY <1>2, <1>5, <2>1 DEF Opening
<1>6. CASE r.of # 0 /\ r.event /\ \E g \in Target : Delivering(r.todo, g)
  <2>1. PICK g \in Target : Delivering(r.todo, g)
    BY <1>6
  <2>2. PICK k \in 1..Len(r.todo) :
          /\ r.todo[k] = Job("log", g)
          /\ \A i \in 1..(k - 1) : r.todo[i] \in Before(g)
    BY <2>1 DEF Delivering
  <2>3. CASE k = 1
    <3>1. j.do = "log" /\ j.x = g
      BY <1>2, <2>2, <2>3, JobFields
    <3> QED BY <1>2, <1>6, <2>1, <3>1
  <2>4. CASE k # 1
    <3>1. j \in Before(g)
      BY <1>1, <1>2, <2>2, <2>4
    <3>2. \/ j.do \in {"sns", "forward"} /\ j.x = g
          \/ j.do \in {"relay", "insert"} /\ j.via = {g}
      BY <3>1 DEF Before
    <3>3. CASE j.do \in {"sns", "forward"} /\ j.x = g
      BY <3>3, <1>2, <1>6, <2>1
    <3>4. CASE j.do \in {"relay", "insert"} /\ j.via = {g}
      BY <3>4, <1>2, <1>6, <2>1
    <3> QED BY <3>2, <3>3, <3>4
  <2> QED BY <2>3, <2>4
<1> QED BY <1>3, <1>4, <1>5, <1>6 DEF Kept

(* The delivery to a target goes on until the log is written.              *)
LEMMA DeliveryGoesOn ==
  ASSUME NEW s \in Seq(AJob), s # <<>>, NEW a \in Seq(AJob), NEW g \in Target,
         Delivering(s, g), Head(s).do # "log", All(a, Before(g))
  PROVE  Delivering(a \o Tail(s), g)
<1> DEFINE t == a \o Tail(s)
<1>1. /\ Len(t) = Len(a) + Len(s) - 1
      /\ \A i \in 1..Len(a) : i \in 1..Len(t) /\ t[i] = a[i]
      /\ \A i \in 2..Len(s) :
           Len(a) + i - 1 \in 1..Len(t) /\ t[Len(a) + i - 1] = s[i]
      /\ \A i \in 1..Len(t) :
           \/ i \in 1..Len(a) /\ t[i] = a[i]
           \/ i - Len(a) + 1 \in 2..Len(s) /\ t[i] = s[i - Len(a) + 1]
      /\ Head(s) = s[1] /\ Len(s) \in Nat \ {0} /\ Len(a) \in Nat
  BY Replaced
<1>2. PICK k \in 1..Len(s) : /\ s[k] = Job("log", g)
                             /\ \A i \in 1..(k - 1) : s[i] \in Before(g)
                             /\ \A i \in (k + 1)..Len(s) : s[i] \in Opening \ Opens(g)
  BY DEF Delivering
<1>3. k \in 2..Len(s)
  BY <1>1, <1>2, JobFields
<1> DEFINE l == Len(a) + k - 1
<1>4. l \in 1..Len(t) /\ t[l] = Job("log", g)
  BY <1>1, <1>2, <1>3
<1>5. \A i \in 1..(l - 1) : t[i] \in Before(g)
  <2> TAKE i \in 1..(l - 1)
  <2>1. i \in 1..Len(t)
    BY <1>1, <1>3, <1>4
  <2>2. CASE i \in 1..Len(a)
    BY <2>2, <1>1 DEF All
  <2>3. CASE i \notin 1..Len(a)
    <3>1. i - Len(a) + 1 \in 2..Len(s) /\ t[i] = s[i - Len(a) + 1]
      BY <2>1, <2>3, <1>1
    <3>2. i - Len(a) + 1 \in 1..(k - 1)
      BY <3>1, <1>1
    <3> QED BY <3>1, <3>2, <1>2
  <2> QED BY <2>2, <2>3
<1>6. \A i \in (l + 1)..Len(t) : t[i] \in Opening \ Opens(g)
  <2> TAKE i \in (l + 1)..Len(t)
  <2>1. i \in 1..Len(t) /\ i \notin 1..Len(a)
    BY <1>1, <1>3, <1>4
  <2>2. i - Len(a) + 1 \in 2..Len(s) /\ t[i] = s[i - Len(a) + 1]
    BY <2>1, <1>1
  <2>3. i - Len(a) + 1 \in (k + 1)..Len(s)
    BY <2>2, <1>1
  <2> QED BY <2>2, <2>3, <1>2
<1> QED BY <1>4, <1>5, <1>6 DEF Delivering

(* The log ends it, and what is left is to list and to open others.        *)
LEMMA DeliveryEnds ==
  ASSUME NEW s \in Seq(AJob), s # <<>>, NEW g \in Target,
         Delivering(s, g), Head(s).do = "log"
  PROVE  All(<<>> \o Tail(s), Opening)
<1>1. PICK k \in 1..Len(s) : /\ s[k] = Job("log", g)
                             /\ \A i \in 1..(k - 1) : s[i] \in Before(g)
                             /\ \A i \in (k + 1)..Len(s) : s[i] \in Opening \ Opens(g)
  BY DEF Delivering
<1>2. Head(s) = s[1] /\ Len(s) \in Nat \ {0}
  BY EmptySeq, LenProperties
<1>3. k = 1
  <2> SUFFICES ASSUME k # 1 PROVE FALSE
    OBVIOUS
  <2>1. s[1] \in Before(g)
    BY <1>1, <1>2
  <2> QED BY <2>1, <1>2 DEF Before
<1>4. \A i \in 2..Len(s) : s[i] \in Opening
  BY <1>1, <1>3
<1>5. Tail(s) \in Seq(AJob) /\ Len(Tail(s)) = Len(s) - 1
      /\ \A i \in 1..Len(Tail(s)) : Tail(s)[i] = s[i + 1]
  BY HeadTailProperties
<1>6. <<>> \o Tail(s) = Tail(s)
  BY <1>5, ConcatEmptySeq
<1>7. \A i \in 1..Len(Tail(s)) : Tail(s)[i] \in Opening
  <2> TAKE i \in 1..Len(Tail(s))
  <2>1. i + 1 \in 2..Len(s)
    BY <1>2, <1>5
  <2> QED BY <2>1, <1>4, <1>5
<1> QED BY <1>6, <1>7 DEF All

(* And the jobs of a target's delivery open none.                          *)
LEMMA DeliveredIsOpened ==
  ASSUME NEW s \in Seq(AJob), NEW g \in Target, Delivering(s, g)
  PROVE  ~Some(s, Opens(g))
<1>1. PICK k \in 1..Len(s) : /\ s[k] = Job("log", g)
                             /\ \A i \in 1..(k - 1) : s[i] \in Before(g)
                             /\ \A i \in (k + 1)..Len(s) : s[i] \in Opening \ Opens(g)
  BY DEF Delivering
<1>2. Job("log", g) \notin Opens(g)
  BY JobFields DEF Opens, Opening
<1>3. \A j \in Before(g) : j \notin Opens(g)
  BY DEF Before, Opens, Opening
<1>4. \A i \in 1..Len(s) : i = k \/ i \in 1..(k - 1) \/ i \in (k + 1)..Len(s)
  BY LenProperties
<1> QED BY <1>1, <1>2, <1>3, <1>4 DEF Some

-----------------------------------------------------------------------------
(* What a job gives way to, as a set.                                      *)
Exactly(a, X) ==
  /\ a \in Seq(AJob)
  /\ \A i \in 1..Len(a) : a[i] \in X
  /\ \A x \in X : \E i \in 1..Len(a) : a[i] = x
  /\ \A i, k \in 1..Len(a) : a[i] = a[k] => i = k

(* A list of what is in a set of jobs.                                     *)
LEMMA ExactlyHas ==
  ASSUME NEW a, NEW X, Exactly(a, X), NEW J, \A x, y \in X \cap J : x = y
  PROVE  Once(a, J) /\ (Some(a, J) <=> \E x \in X : x \in J)
<1>1. Once(a, J)
  BY DEF Exactly, Once
<1>2. Some(a, J) <=> \E x \in X : x \in J
  BY DEF Exactly, Some
<1> QED BY <1>1, <1>2

(* Lists of none, of one and of two.                                       *)
LEMMA ExactlyNone == Exactly(<<>>, {})
BY EmptySeq DEF Exactly

(* A list of one job.                                                       *)
LEMMA ExactlyOne == ASSUME NEW j \in AJob PROVE Exactly(<<j>>, {j})
<1>1. <<j>> \in Seq(AJob) /\ Len(<<j>>) = 1 /\ <<j>>[1] = j
  OBVIOUS
<1> QED BY <1>1 DEF Exactly

(* A list of two.                                                           *)
LEMMA ExactlyTwo ==
  ASSUME NEW j \in AJob, NEW k \in AJob, j # k
  PROVE  Exactly(<<j>> \o <<k>>, {j, k})
<1> DEFINE s == <<j>> \o <<k>>
<1>1. /\ <<j>> \in Seq(AJob) /\ Len(<<j>>) = 1 /\ <<j>>[1] = j
      /\ <<k>> \in Seq(AJob) /\ Len(<<k>>) = 1 /\ <<k>>[1] = k
  OBVIOUS
<1>2. /\ s \in Seq(AJob) /\ Len(s) = 1 + 1
      /\ \A i \in 1..(1 + 1) : s[i] = IF i <= 1 THEN <<j>>[i] ELSE <<k>>[i - 1]
  BY <1>1, ConcatProperties
<1>3. Len(s) = 2 /\ s[1] = j /\ s[2] = k
  BY <1>1, <1>2
<1>4. 1..2 = {1, 2}
  OBVIOUS
<1> HIDE DEF s
<1>5. Exactly(s, {j, k})
  BY <1>2, <1>3, <1>4 DEF Exactly
<1> QED BY <1>5 DEF s

(* A sequence of jobs, one for each element of a set.                      *)
LEMMA ExactlyEach ==
  ASSUME NEW n \in Nat, NEW a, DOMAIN a = 1..n, NEW X \in SUBSET AJob,
         a = [k \in 1..n |-> a[k]],
         \A k \in 1..n : a[k] \in X,
         \A x \in X : \E k \in 1..n : a[k] = x,
         \A k, l \in 1..n : a[k] = a[l] => k = l
  PROVE  Exactly(a, X)
<1>1. a \in [1..n -> AJob]
  OBVIOUS
<1>2. a \in Seq(AJob) /\ Len(a) = n
  BY <1>1
<1> QED BY <1>2 DEF Exactly

(* The jobs of what is listed in the order of its numbers.                 *)
LEMMA ExactlyJobs ==
  ASSUME NEW S, IsFiniteSet(S), \A x \in S : x.n \in Nat,
         \A x, y \in S : x.n = y.n => x = y,
         NEW d, \A x \in S : Job(d, x) \in AJob
  PROVE  Exactly(Jobs(d, S), {Job(d, x) : x \in S})
<1> DEFINE n == Cardinality(S)
           a == Jobs(d, S)
           X == {Job(d, x) : x \in S}
<1>1. /\ n \in Nat /\ InOrder(S) \in [1..n -> S]
      /\ \A k, l \in 1..n : InOrder(S)[k] = InOrder(S)[l] => k = l
      /\ \A x \in S : \E k \in 1..n : InOrder(S)[k] = x
  BY Ranks
<1>2. a = [k \in 1..n |-> Job(d, InOrder(S)[k])]
  BY DEF Jobs
<1> HIDE DEF n, a
<1>3. DOMAIN a = 1..n /\ a = [k \in 1..n |-> a[k]]
      /\ \A k \in 1..n : a[k] = Job(d, InOrder(S)[k])
  BY <1>2
<1>4. \A k \in 1..n : a[k] \in X
  BY <1>1, <1>3
<1>5. \A x \in X : \E k \in 1..n : a[k] = x
  BY <1>1, <1>3
<1>6. \A k, l \in 1..n : a[k] = a[l] => k = l
  BY <1>1, <1>3, JobFields
<1>7. X \in SUBSET AJob
  OBVIOUS
<1>8. Exactly(a, X)
  <2> HIDE DEF X
  <2> QED BY <1>1, <1>3, <1>4, <1>5, <1>6, <1>7, ExactlyEach
<1> QED BY <1>8 DEF a

-----------------------------------------------------------------------------
(* A step of a request.                                                    *)

With(r, t, c) ==
  [busy |-> r.busy, of |-> r.of, event |-> r.event, todo |-> t, sent |-> c]

(* The jobs of X lead where job j led, and open no target that j did not.  *)
LeadsOn(j, X, W) ==
  \A w \in W : /\ \A x, y \in X \cap Leads(w) : x = y
               /\ j \in Leads(w) <=> \E x \in X : x \in Leads(w)
OpensOn(j, X) ==
  \A g \in Target : /\ \A x, y \in X \cap Opens(g) : x = y
                    /\ (\E x \in X : x \in Opens(g)) => j \in Opens(g)

(* And they go with the rest of the request, that has sent c messages to   *)
(* the target it is at.                                                    *)
GoesWith(r, j, X, a, c) ==
  \/ ~r.event /\ X \subseteq Publishing
  \/ r.event /\ j.do \in {"rules", "targets"} /\ X \subseteq Opening
  \/ /\ r.event /\ j.do \in {"sns", "forward", "relay"} /\ c = r.sent
     /\ \E g \in Target : Delivering(r.todo, g) /\ X \subseteq Before(g)
  \/ r.event /\ j.do = "sqs" /\ c = 0 /\ Delivering(a \o Tail(r.todo), j.x)

(* A job that gives way to others.                                         *)
LEMMA FineOn ==
  ASSUME NEW r \in Request, NEW W, NEW ms, NEW es, Fine(r, W, ms, es),
         r.of # 0, r.todo # <<>>, NEW j, j = Head(r.todo),
         NEW X, NEW a, Exactly(a, X), NEW c \in Nat,
         LeadsOn(j, X, W), OpensOn(j, X), GoesWith(r, j, X, a, c)
  PROVE  /\ With(r, a \o Tail(r.todo), c) \in Request
         /\ Fine(With(r, a \o Tail(r.todo), c), W, ms, es)
<1> DEFINE s == r.todo
           t == a \o Tail(r.todo)
           r2 == With(r, t, c)
<1>1. s \in Seq(AJob) /\ s # <<>> /\ a \in Seq(AJob) /\ Kept(r)
  BY DEF Request, Exactly, Fine
<1>2. /\ Served(r, W, ms) /\ Opened(r, ms, es) /\ Counted(r, ms, es) /\ r.busy
  BY DEF Fine
<1>3. t \in Seq(AJob)
  <2> HIDE DEF s
  <2> QED BY <1>1, Replaced DEF s
<1>4. /\ r2.busy = r.busy /\ r2.of = r.of /\ r2.event = r.event
      /\ r2.todo = t /\ r2.sent = c
  BY DEF With
<1>5. r2 \in Request
  BY <1>3 DEF With, Request
<1>6. \A w \in W : Once(a, Leads(w)) /\ (Some(a, Leads(w)) <=> j \in Leads(w))
  BY ExactlyHas DEF LeadsOn
<1>7. \A g \in Target : Once(a, Opens(g)) /\ (Some(a, Opens(g)) => j \in Opens(g))
  BY ExactlyHas DEF OpensOn
<1>8. Served(r2, W, ms)
  <2> SUFFICES ASSUME NEW w \in W
               PROVE  /\ Once(t, Leads(w))
                      /\ Some(t, Leads(w)) => By(ms, r.of, w) = {}
                      /\ \/ Some(t, Leads(w))
                         \/ \E m \in ms : By(ms, r.of, w) = {m}
    BY <1>4 DEF Served
  <2>1. /\ Once(s, Leads(w))
        /\ Some(s, Leads(w)) => By(ms, r.of, w) = {}
        /\ \/ Some(s, Leads(w))
           \/ \E m \in ms : By(ms, r.of, w) = {m}
    BY <1>2 DEF Served
  <2>2. /\ Once(t, Leads(w))
        /\ Some(t, Leads(w)) => Some(s, Leads(w))
        /\ Some(s, Leads(w)) => Some(t, Leads(w))
    <3> HIDE DEF s
    <3> QED BY <1>1, <1>6, <2>1, LedOn DEF s
  <2> QED BY <2>1, <2>2
<1>9. Opened(r2, ms, es)
  <2> SUFFICES ASSUME NEW g \in Target
               PROVE  /\ Once(t, Opens(g))
                      /\ Some(t, Opens(g)) =>
                           ~SentTo(ms, r.of, g) /\ ~Logged(es, r.of, g)
    BY <1>4 DEF Opened
  <2>1. /\ Once(s, Opens(g))
        /\ Some(s, Opens(g)) => ~SentTo(ms, r.of, g) /\ ~Logged(es, r.of, g)
    BY <1>2 DEF Opened
  <2>2. Once(t, Opens(g)) /\ (Some(t, Opens(g)) => Some(s, Opens(g)))
    <3> HIDE DEF s
    <3> QED BY <1>1, <1>7, <2>1, LedOn DEF s
  <2> QED BY <2>1, <2>2
<1>10. Kept(r2) /\ Counted(r2, ms, es)
  <2>1. CASE ~r.event /\ X \subseteq Publishing
    <3>1. All(s, Publishing) /\ All(a, Publishing)
      BY <2>1, <1>1 DEF Kept, Exactly, All
    <3>2. All(t, Publishing)
      <4> HIDE DEF s
      <4> QED BY <1>1, <3>1, AllOn DEF s
    <3>3. \A g \in Target : ~Delivering(t, g)
      BY <3>2, NoneDelivered
    <3> QED BY <2>1, <1>4, <3>2, <3>3 DEF Kept, Counted
  <2>2. CASE r.event /\ j.do \in {"rules", "targets"} /\ X \subseteq Opening
    <3>1. All(s, Opening) /\ All(a, Opening)
      BY <2>2, <1>1, Heads DEF Exactly, All
    <3>2. All(t, Opening)
      <4> HIDE DEF s
      <4> QED BY <1>1, <3>1, AllOn DEF s
    <3>3. \A g \in Target : ~Delivering(t, g)
      BY <3>2, NoneDelivered
    <3> QED BY <2>2, <1>4, <3>2, <3>3 DEF Kept, Counted
  <2>3. CASE /\ r.event /\ j.do \in {"sns", "forward", "relay"} /\ c = r.sent
             /\ \E g \in Target : Delivering(r.todo, g) /\ X \subseteq Before(g)
    <3>1. PICK g \in Target : Delivering(s, g) /\ X \subseteq Before(g)
      BY <2>3
    <3>2. All(a, Before(g))
      BY <3>1 DEF Exactly, All
    <3>3. Delivering(t, g)
      <4> HIDE DEF s
      <4> QED BY <1>1, <2>3, <3>1, <3>2, DeliveryGoesOn DEF s
    <3>4. \A h \in Target : Delivering(t, h) => h = g
      BY <1>3, <3>3, OneDelivered
    <3> QED BY <1>2, <1>4, <2>3, <3>1, <3>3, <3>4 DEF Kept, Counted
  <2>4. CASE r.event /\ j.do = "sqs" /\ c = 0 /\ Delivering(t, j.x)
    <3>1. j \in AJob /\ j.x \in Target
      BY <2>4, <1>1, Heads, JobTypes
    <3>2. Some(s, Opens(j.x))
      <4>1. j \in Opens(j.x)
        BY <2>4, <3>1 DEF Opens, Opening
      <4>2. 1 \in 1..Len(s) /\ s[1] = j
        BY <1>1, EmptySeq
      <4> QED BY <4>1, <4>2 DEF Some
    <3>3. ~SentTo(ms, r.of, j.x) /\ ~Logged(es, r.of, j.x)
      BY <1>2, <3>1, <3>2 DEF Opened
    <3>4. \A h \in Target : Delivering(t, h) => h = j.x
      BY <1>3, <2>4, <3>1, OneDelivered
    <3>5. Kept(r2)
      BY <1>4, <2>4, <3>1 DEF Kept
    <3>6. ~(r2.sent > 0)
      BY <1>4, <2>4
    <3>7. Counted(r2, ms, es)
      <4> HIDE DEF r2
      <4> QED BY <1>4, <3>3, <3>4, <3>6, Zenon DEF Counted
    <3> QED BY <3>5, <3>7
  <2> QED BY <2>1, <2>2, <2>3, <2>4 DEF GoesWith
<1> QED BY <1>2, <1>4, <1>5, <1>8, <1>9, <1>10 DEF Fine

-----------------------------------------------------------------------------
(* Each job gives way to those that lead where it led.                     *)

(* A way that stands, by the queues that fit, F, the topics, T, the        *)
(* subscriptions, S, and the targets of the rules that are enabled, G.     *)
Stands(w, F, T, S, G) ==
  \/ \E s \in S : w = Way({}, {s}, s.to) /\ s.to \in F /\ s.topic \in T
  \/ \E g \in G : w = Way({g}, {}, g.to) /\ g.to \in F
  \/ \E g \in G, s \in S : /\ w = Way({g}, {s}, s.to) /\ s.to \in F
                           /\ g.to \in T /\ s.topic = g.to

AllStand(W, F, T, S, G) ==
  /\ F \in SUBSET Queues /\ T \in SUBSET Topics
  /\ S \in SUBSET Subscription /\ G \in SUBSET Target
  /\ \A w \in W : Stands(w, F, T, S, G)

JobsOn(d, L) == {Job(d, x) : x \in L}
OfTopic(S, t) == {s \in S : s.topic = t}
OfRule(H, r) == {g \in H : g.rule = r}

(* The parts of a way.                                                      *)
LEMMA WayFields ==
  ASSUME NEW a, NEW b, NEW c
  PROVE  /\ Way(a, b, c).target = a /\ Way(a, b, c).sub = b /\ Way(a, b, c).queue = c
         /\ \A d, e, f : Way(a, b, c) = Way(d, e, f) => a = d /\ b = e /\ c = f
BY DEF Way

(* What has one element is not empty.                                       *)
LEMMA NotEmpty == \A g : {g} # {}
OBVIOUS

(* What a way that stands goes by.                                         *)
LEMMA StandsPlain ==
  ASSUME NEW w, NEW F, NEW T, NEW S, NEW G, Stands(w, F, T, S, G), w.target = {}
  PROVE  \E s \in S : w.sub = {s} /\ w = Way({}, {s}, s.to) /\ s.to \in F
BY NotEmpty, SMT DEF Stands, Way

(* One that ends at a target goes by that target alone.                     *)
LEMMA StandsAt ==
  ASSUME NEW w, NEW F, NEW T, NEW S, NEW G, Stands(w, F, T, S, G),
         w.target # {}, w.sub = {}
  PROVE  \E g \in G : w.target = {g} /\ w = Way({g}, {}, g.to) /\ g.to \in F
BY NotEmpty, SMT DEF Stands, Way

(* A way goes from a topic, or by one target.                               *)
LEMMA StandsFor ==
  ASSUME NEW w, NEW F, NEW T, NEW S, NEW G, Stands(w, F, T, S, G)
  PROVE  w.target = {} \/ \E g \in G : w.target = {g}
BY SMT DEF Stands, Way

(* The ways that stand, in a state.                                        *)
LEMMA WaysStand ==
  \A w \in Ways : Stands(w, Fits, topics, subs, ActiveTargets)
<1> SUFFICES ASSUME NEW w \in Ways
             PROVE  Stands(w, Fits, topics, subs, ActiveTargets)
  OBVIOUS
<1>1. CASE \E t \in topics : w \in WaysOfTopic(t)
  BY <1>1 DEF WaysOfTopic, Stands
<1>2. CASE \E g \in ActiveTargets : g.to \in Fits /\ w = Way({g}, {}, g.to)
  BY <1>2 DEF Stands
<1>3. CASE \E g \in ActiveTargets : g.to \in topics /\
             \E v \in WaysOfTopic(g.to) : w = Way({g}, v.sub, v.queue)
  <2>1. PICK g \in ActiveTargets : g.to \in topics /\
               \E v \in WaysOfTopic(g.to) : w = Way({g}, v.sub, v.queue)
    BY <1>3
  <2>2. PICK v \in WaysOfTopic(g.to) : w = Way({g}, v.sub, v.queue)
    BY <2>1
  <2>3. PICK s \in subs : s.topic = g.to /\ s.to \in Fits /\ v = Way({}, {s}, s.to)
    BY DEF WaysOfTopic
  <2>4. w = Way({g}, {s}, s.to)
    BY <2>2, <2>3, WayFields
  <2> QED BY <2>1, <2>3, <2>4 DEF Stands
<1> QED BY <1>1, <1>2, <1>3 DEF Ways, WaysOfBus

(* What each kind of job leads to.                                         *)
LEMMA LeadsBy ==
  ASSUME NEW j \in AJob, NEW w
  PROVE  /\ j.do = "subscriptions" =>
              (j \in Leads(w) <=> w.target = {} /\ \E s \in w.sub : s.topic = j.x)
         /\ j.do = "deliver" => (j \in Leads(w) <=> w.target = {} /\ w.sub = {j.x})
         /\ j.do = "rules" => (j \in Leads(w) <=> w.target # {})
         /\ j.do = "targets" => (j \in Leads(w) <=> \E g \in w.target : g.rule = j.x)
         /\ j.do = "sqs" => (j \in Leads(w) <=> w.target = {j.x})
         /\ j.do \in {"sns", "forward"} =>
              (j \in Leads(w) <=> w.target = {j.x} /\ w.sub # {})
         /\ j.do = "relay" => (j \in Leads(w) <=> w.target = j.via /\ w.sub = {j.x})
         /\ j.do = "insert" => (j \in Leads(w) <=> w = Way(j.via, Sub(j), j.to))
         /\ j.do = "log" => j \notin Leads(w)
BY DEF Leads

(* A message goes the way its job says.                                    *)
LEMMA InsertLeads ==
  ASSUME NEW k \in AJob, k.do = "insert", NEW v, NEW b, NEW q,
         k.via = v, Sub(k) = b, k.to = q
  PROVE  \A w : k \in Leads(w) <=> w = Way(v, b, q)
BY DEF Leads

(* Only a listing opens targets.                                           *)
LEMMA OpensBy ==
  ASSUME NEW j \in AJob, NEW g
  PROVE  /\ j.do \notin {"rules", "targets", "sqs"} => j \notin Opens(g)
         /\ j.do = "rules" => j \in Opens(g)
         /\ j.do = "targets" => (j \in Opens(g) <=> j.x = g.rule)
         /\ j.do = "sqs" => (j \in Opens(g) <=> j.x = g)
BY DEF Opens, Opening

(* The subscriptions of a topic.                                           *)
LEMMA SubscriptionsLead ==
  ASSUME NEW j \in AJob, j.do = "subscriptions",
         NEW W, NEW F, NEW T, NEW S, NEW G, AllStand(W, F, T, S, G)
  PROVE  LeadsOn(j, JobsOn("deliver", OfTopic(S, j.x)), W)
<1> DEFINE X == JobsOn("deliver", OfTopic(S, j.x))
<1> SUFFICES ASSUME NEW w \in W, Stands(w, F, T, S, G), S \in SUBSET Subscription
             PROVE  /\ \A x, y \in X \cap Leads(w) : x = y
                    /\ j \in Leads(w) <=> \E x \in X : x \in Leads(w)
  BY DEF LeadsOn, AllStand
<1>x. X = {Job("deliver", s) : s \in {s \in S : s.topic = j.x}}
  BY DEF JobsOn, OfTopic
<1> HIDE DEF X
<1>1. \A s \in S : /\ Job("deliver", s) \in AJob /\ Job("deliver", s).do = "deliver"
                   /\ Job("deliver", s).x = s
  BY AreJobs, JobFields
<1>2. \A s \in S : Job("deliver", s) \in Leads(w) <=> w.target = {} /\ w.sub = {s}
  BY <1>1, LeadsBy
<1>3. j \in Leads(w) <=> w.target = {} /\ \E s \in w.sub : s.topic = j.x
  BY LeadsBy
<1>4. \A x, y \in X \cap Leads(w) : x = y
  BY <1>x, <1>2
<1>5. (\E x \in X : x \in Leads(w)) => j \in Leads(w)
  BY <1>x, <1>2, <1>3
<1>6. j \in Leads(w) => \E x \in X : x \in Leads(w)
  <2> SUFFICES ASSUME j \in Leads(w) PROVE \E x \in X : x \in Leads(w)
    OBVIOUS
  <2>1. PICK s \in S : w.sub = {s}
    BY <1>3, StandsPlain
  <2>2. s.topic = j.x /\ w.target = {}
    BY <1>3, <2>1
  <2> QED BY <1>x, <1>2, <2>1, <2>2
<1> QED BY <1>4, <1>5, <1>6

(* The queue of a subscription.                                            *)
LEMMA DeliverLeads ==
  ASSUME NEW j \in AJob, j.do = "deliver",
         NEW W, NEW F, NEW T, NEW S, NEW G, AllStand(W, F, T, S, G),
         NEW k, k = [do |-> "insert", x |-> j.x, via |-> {}, to |-> j.x.to]
  PROVE  /\ j.x.to \in F => k \in AJob /\ LeadsOn(j, {k}, W)
         /\ j.x.to \notin F => LeadsOn(j, {}, W)
<1>0. j.x.to \in F => k \in AJob
  <2>1. j.x \in Subscription
    BY JobTypes
  <2> QED BY <2>1 DEF AJob, AllStand
<1> SUFFICES ASSUME NEW w \in W, Stands(w, F, T, S, G), F \in SUBSET Queues
             PROVE  /\ j.x.to \in F => (j \in Leads(w) <=> k \in Leads(w))
                    /\ j.x.to \notin F => j \notin Leads(w)
  BY <1>0 DEF LeadsOn, AllStand
<1>1. j.x \in Subscription
  BY JobTypes
<1>2. j \in Leads(w) <=> w.target = {} /\ w.sub = {j.x}
  BY LeadsBy
<1>3. j \in Leads(w) => w = Way({}, {j.x}, j.x.to) /\ j.x.to \in F
  <2> SUFFICES ASSUME j \in Leads(w)
               PROVE  w = Way({}, {j.x}, j.x.to) /\ j.x.to \in F
    OBVIOUS
  <2>1. PICK s \in S : w.sub = {s} /\ w = Way({}, {s}, s.to) /\ s.to \in F
    BY <1>2, StandsPlain
  <2>2. s = j.x
    BY <1>2, <2>1
  <2> QED BY <2>1, <2>2
<1>4. k.do = "insert" /\ k.x = j.x /\ k.via = {} /\ k.to = j.x.to /\ Sub(k) = {j.x}
  BY DEF Sub
<1>5. j.x.to \in F => k \in AJob
  BY <1>1 DEF AJob
<1>6. ASSUME j.x.to \in F PROVE k \in Leads(w) <=> w = Way({}, {j.x}, j.x.to)
  <2>1. k \in AJob
    BY <1>5, <1>6
  <2> QED BY <1>4, <2>1 DEF Leads
<1> QED BY <1>2, <1>3, <1>5, <1>6, WayFields

(* The rules of the bus.                                                   *)
LEMMA RulesLead ==
  ASSUME NEW j \in AJob, j.do = "rules", NEW R \in SUBSET Rules,
         NEW W, NEW F, NEW T, NEW S, NEW G, AllStand(W, F, T, S, G),
         \A g \in G : g.rule \in R
  PROVE  LeadsOn(j, JobsOn("targets", R), W) /\ OpensOn(j, JobsOn("targets", R))
<1> DEFINE X == JobsOn("targets", R)
<1>1. \A r \in R : /\ Job("targets", r) \in AJob /\ Job("targets", r).do = "targets"
                   /\ Job("targets", r).x = r
  BY AreJobs, JobFields
<1>2. X = {Job("targets", r) : r \in R}
  BY DEF JobsOn
<1> HIDE DEF X
<1>3. LeadsOn(j, X, W)
  <2> SUFFICES ASSUME NEW w \in W, Stands(w, F, T, S, G)
               PROVE  /\ \A x, y \in X \cap Leads(w) : x = y
                      /\ j \in Leads(w) <=> \E x \in X : x \in Leads(w)
    BY DEF LeadsOn, AllStand
  <2>1. \A r \in R : Job("targets", r) \in Leads(w) <=> \E g \in w.target : g.rule = r
    BY <1>1, LeadsBy
  <2>2. j \in Leads(w) <=> w.target # {}
    BY LeadsBy
  <2>3. w.target = {} \/ \E g \in G : w.target = {g}
    BY StandsFor
  <2> QED BY <1>2, <2>1, <2>2, <2>3
<1>4. OpensOn(j, X)
  <2>1. \A g : \A r \in R : Job("targets", r) \in Opens(g) <=> r = g.rule
    BY <1>1, OpensBy
  <2>2. \A g : j \in Opens(g)
    BY OpensBy
  <2> QED BY <1>2, <2>1, <2>2 DEF OpensOn
<1> QED BY <1>3, <1>4 DEF X

(* The targets of a rule.                                                  *)
LEMMA TargetsLead ==
  ASSUME NEW j \in AJob, j.do = "targets", NEW H \in SUBSET Target,
         NEW W, NEW F, NEW T, NEW S, NEW G, AllStand(W, F, T, S, G),
         G \subseteq H
  PROVE  /\ LeadsOn(j, JobsOn("sqs", OfRule(H, j.x)), W)
         /\ OpensOn(j, JobsOn("sqs", OfRule(H, j.x)))
<1> DEFINE X == JobsOn("sqs", OfRule(H, j.x))
<1>1. \A h \in H : /\ Job("sqs", h) \in AJob /\ Job("sqs", h).do = "sqs"
                   /\ Job("sqs", h).x = h
  BY AreJobs, JobFields
<1>2. X = {Job("sqs", h) : h \in {h \in H : h.rule = j.x}}
  BY DEF JobsOn, OfRule
<1> HIDE DEF X
<1>3. LeadsOn(j, X, W)
  <2> SUFFICES ASSUME NEW w \in W, Stands(w, F, T, S, G)
               PROVE  /\ \A x, y \in X \cap Leads(w) : x = y
                      /\ j \in Leads(w) <=> \E x \in X : x \in Leads(w)
    BY DEF LeadsOn, AllStand
  <2>1. \A h \in H : Job("sqs", h) \in Leads(w) <=> w.target = {h}
    BY <1>1, LeadsBy
  <2>2. j \in Leads(w) <=> \E g \in w.target : g.rule = j.x
    BY LeadsBy
  <2>3. w.target = {} \/ \E g \in G : w.target = {g}
    BY StandsFor
  <2> QED BY <1>2, <2>1, <2>2, <2>3
<1>4. OpensOn(j, X)
  <2>1. \A g : \A h \in H : Job("sqs", h) \in Opens(g) <=> h = g
    BY <1>1, OpensBy
  <2>2. \A g : j \in Opens(g) <=> j.x = g.rule
    BY OpensBy
  <2> QED BY <1>2, <2>1, <2>2 DEF OpensOn
<1> QED BY <1>3, <1>4 DEF X

(* One of two jobs leads where another led.                                *)
LEMMA OneLeads ==
  ASSUME NEW j, NEW i, NEW m, NEW W, \A w \in W : m \notin Leads(w),
         \A w \in W : j \in Leads(w) <=> i \in Leads(w)
  PROVE  LeadsOn(j, {i, m}, W)
BY DEF LeadsOn

Inserting(x, v, q) == [do |-> "insert", x |-> x, via |-> v, to |-> q]

(* A target as a queue, and as a topic else.                               *)
LEMMA SQSLeads ==
  ASSUME NEW j \in AJob, j.do = "sqs",
         NEW W, NEW F, NEW T, NEW S, NEW G, AllStand(W, F, T, S, G),
         NEW v, v = {j.x}, NEW k, k = Inserting(j.x, v, j.x.to),
         NEW l, l = Job("sns", j.x), NEW m, m = Job("log", j.x),
         NEW i, i = IF j.x.to \in F THEN k ELSE l
  PROVE  i \in AJob /\ m \in AJob /\ LeadsOn(j, {i, m}, W)
<1>0. /\ j.x.to \in F => k \in AJob
      /\ m \in AJob /\ m.do = "log" /\ l \in AJob
  <2>1. j.x \in Target
    BY JobTypes
  <2>2. m \in AJob /\ m.do = "log" /\ l \in AJob
    BY <2>1, AreJobs, JobFields
  <2>3. ASSUME j.x.to \in F  PROVE  k \in AJob
    <3>1. v \in Single /\ j.x.to \in Queues
      BY <2>1, <2>3 DEF Single, AllStand
    <3>2. k \in [do : {"insert"}, x : Target, via : Single, to : Queues]
      BY <2>1, <3>1 DEF Inserting
    <3> QED BY ONLY <3>2 DEF AJob
  <2> QED BY <2>2, <2>3
<1> SUFFICES ASSUME NEW w \in W, Stands(w, F, T, S, G), F \in SUBSET Queues,
                    T \in SUBSET Topics
             PROVE  /\ j.x.to \in F => (j \in Leads(w) <=> k \in Leads(w))
                    /\ j.x.to \notin F => (j \in Leads(w) <=> l \in Leads(w))
  <2>1. \A w : m \notin Leads(w)
    BY <1>0, LeadsBy
  <2>2. \A w \in W : j \in Leads(w) <=> i \in Leads(w)
    BY DEF AllStand
  <2>3. LeadsOn(j, {i, m}, W)
    BY <2>1, <2>2, OneLeads
  <2> QED BY <1>0, <2>3
<1>1. j.x \in Target
  BY JobTypes
<1>2. j \in Leads(w) <=> w.target = {j.x}
  BY LeadsBy
<1>3. w.target = {j.x} =>
        \/ w = Way({j.x}, {}, j.x.to) /\ j.x.to \in F
        \/ w.sub # {} /\ j.x.to \in T
  <2> SUFFICES ASSUME w.target = {j.x}
               PROVE  \/ w = Way({j.x}, {}, j.x.to) /\ j.x.to \in F
                      \/ w.sub # {} /\ j.x.to \in T
    OBVIOUS
  <2>1. w.target # {}
    OBVIOUS
  <2>2. CASE w.sub = {}
    <3>1. PICK g \in G : w.target = {g} /\ w = Way({g}, {}, g.to) /\ g.to \in F
      BY <2>1, <2>2, StandsAt
    <3>2. g = j.x
      BY <3>1
    <3> QED BY <3>1, <3>2
  <2>3. CASE w.sub # {}
    <3>1. PICK g \in G : w.target = {g} /\ g.to \in T
      BY <2>1, <2>3, NotEmpty, SMT DEF Stands, Way
    <3>2. g = j.x
      BY <3>1
    <3> QED BY <2>3, <3>1, <3>2
  <2> QED BY <2>2, <2>3
<1>4. j.x.to \in F => j.x.to \notin T
  BY FanoutAssumption
<1>5. k.do = "insert" /\ k.x = j.x /\ k.via = {j.x} /\ k.to = j.x.to /\ Sub(k) = {}
  BY DEF Sub, Inserting
<1>6. j.x.to \in F => k \in AJob
  BY <1>1 DEF AJob, Single, Inserting
<1>7. ASSUME j.x.to \in F PROVE k \in Leads(w) <=> w = Way({j.x}, {}, j.x.to)
  <2>1. k \in AJob
    BY <1>6, <1>7
  <2> QED BY <1>5, <2>1 DEF Leads
<1>8. l \in AJob /\ l.do = "sns" /\ l.x = j.x
  BY <1>1, AreJobs, JobFields
<1>9. l \in Leads(w) <=> w.target = {j.x} /\ w.sub # {}
  BY <1>8, LeadsBy
<1>10. ASSUME j.x.to \in F PROVE j \in Leads(w) <=> k \in Leads(w)
  BY <1>10, <1>2, <1>3, <1>4, <1>7, WayFields
<1>11. ASSUME j.x.to \notin F PROVE j \in Leads(w) <=> l \in Leads(w)
  BY <1>11, <1>2, <1>3, <1>9
<1> QED BY <1>6, <1>8, <1>10, <1>11

(* A target that is a topic.                                               *)
LEMMA SNSLeads ==
  ASSUME NEW j \in AJob, j.do = "sns",
         NEW W, NEW F, NEW T, NEW S, NEW G, AllStand(W, F, T, S, G),
         NEW l, l = Job("forward", j.x)
  PROVE  /\ l \in AJob /\ LeadsOn(j, {l}, W)
         /\ j.x.to \notin T => LeadsOn(j, {}, W)
<1>0. l \in AJob
  BY JobTypes, AreJobs
<1> SUFFICES ASSUME NEW w \in W, Stands(w, F, T, S, G)
             PROVE  /\ j \in Leads(w) <=> l \in Leads(w)
                    /\ j.x.to \notin T => j \notin Leads(w)
  BY <1>0 DEF LeadsOn, AllStand
<1>1. j.x \in Target
  BY JobTypes
<1>2. j \in Leads(w) <=> w.target = {j.x} /\ w.sub # {}
  BY LeadsBy
<1>3. l \in AJob /\ l.do = "forward" /\ l.x = j.x
  BY <1>1, AreJobs, JobFields
<1>4. l \in Leads(w) <=> w.target = {j.x} /\ w.sub # {}
  BY <1>3, LeadsBy
<1>5. ASSUME w.target = {j.x}, w.sub # {} PROVE j.x.to \in T
  <2>1. PICK g \in G : w.target = {g} /\ g.to \in T
    BY <1>5, NotEmpty, SMT DEF Stands, Way
  <2>2. g = j.x
    BY <1>5, <2>1
  <2> QED BY <2>1, <2>2
<1> QED BY <1>2, <1>3, <1>4, <1>5

Relayed(g, s) == [do |-> "relay", x |-> s, via |-> {g}, to |-> Other]

(* The subscriptions of a target's topic.                                  *)
LEMMA ForwardLeads ==
  ASSUME NEW j \in AJob, j.do = "forward",
         NEW W, NEW F, NEW T, NEW S, NEW G, AllStand(W, F, T, S, G),
         NEW X, X = {Relayed(j.x, s) : s \in OfTopic(S, j.x.to)}
  PROVE  X \subseteq AJob /\ LeadsOn(j, X, W)
<1>x. /\ \A x \in X : \E s \in S : s.topic = j.x.to /\ x = Relayed(j.x, s)
      /\ \A s \in S : s.topic = j.x.to => Relayed(j.x, s) \in X
  BY DEF OfTopic
<1>0. X \subseteq AJob
  <2>1. j.x \in Target /\ S \in SUBSET Subscription
    BY JobTypes DEF AllStand
  <2> QED BY <1>x, <2>1 DEF Relayed, AJob, Single
<1> SUFFICES ASSUME NEW w \in W, Stands(w, F, T, S, G), S \in SUBSET Subscription
             PROVE  /\ \A x, y \in X \cap Leads(w) : x = y
                    /\ j \in Leads(w) <=> \E x \in X : x \in Leads(w)
  BY <1>0 DEF LeadsOn, AllStand
<1>1. j.x \in Target
  BY JobTypes
<1>2. \A s \in S : /\ Relayed(j.x, s) \in AJob /\ Relayed(j.x, s).do = "relay"
                   /\ Relayed(j.x, s).x = s /\ Relayed(j.x, s).via = {j.x}
  BY <1>1 DEF Relayed, AJob, Single
<1>3. \A s \in S : Relayed(j.x, s) \in Leads(w) <=> w.target = {j.x} /\ w.sub = {s}
  <2> TAKE s \in S
  <2>1. PICK k : k = Relayed(j.x, s)
    OBVIOUS
  <2>2. k \in AJob /\ k.do = "relay" /\ k.x = s /\ k.via = {j.x}
    BY <1>2, <2>1
  <2>3. k \in Leads(w) <=> w.target = k.via /\ w.sub = {k.x}
    BY <2>2, LeadsBy
  <2> QED BY <2>1, <2>2, <2>3
<1>4. j \in Leads(w) <=> w.target = {j.x} /\ w.sub # {}
  BY LeadsBy
<1>5. w.target = {j.x} /\ w.sub # {} =>
        \E s \in S : w.sub = {s} /\ s.topic = j.x.to
  <2> SUFFICES ASSUME w.target = {j.x}, w.sub # {}
               PROVE  \E s \in S : w.sub = {s} /\ s.topic = j.x.to
    OBVIOUS
  <2>1. PICK g \in G : w.target = {g} /\ \E s \in S : w.sub = {s} /\ s.topic = g.to
    BY NotEmpty, SMT DEF Stands, Way
  <2> QED BY <2>1
<1>6. \A x, y \in X \cap Leads(w) : x = y
  BY <1>x, <1>3
<1>7. j \in Leads(w) <=> \E x \in X : x \in Leads(w)
  BY <1>x, <1>3, <1>4, <1>5
<1> QED BY <1>6, <1>7

(* The queue of one of them.                                               *)
LEMMA RelayLeads ==
  ASSUME NEW j \in AJob, j.do = "relay",
         NEW W, NEW F, NEW T, NEW S, NEW G, AllStand(W, F, T, S, G),
         NEW k, k = [do |-> "insert", x |-> j.x, via |-> j.via, to |-> j.x.to]
  PROVE  /\ j.x.to \in F => k \in AJob /\ LeadsOn(j, {k}, W)
         /\ j.x.to \notin F => LeadsOn(j, {}, W)
<1>0. j.x.to \in F => k \in AJob
  <2>1. j.x \in Subscription /\ \E g \in Target : j.via = {g}
    BY JobTypes DEF Single
  <2> QED BY <2>1 DEF AJob, Single, AllStand
<1> SUFFICES ASSUME NEW w \in W, Stands(w, F, T, S, G), F \in SUBSET Queues
             PROVE  /\ j.x.to \in F => (j \in Leads(w) <=> k \in Leads(w))
                    /\ j.x.to \notin F => j \notin Leads(w)
  BY <1>0 DEF LeadsOn, AllStand
<1>1. j.x \in Subscription /\ \E g \in Target : j.via = {g}
  BY JobTypes DEF Single
<1>2. j.x \notin j.via
  BY <1>1, KindsApart
<1>3. j \in Leads(w) <=> w.target = j.via /\ w.sub = {j.x}
  BY LeadsBy
<1>4. j \in Leads(w) => w = Way(j.via, {j.x}, j.x.to) /\ j.x.to \in F
  <2> SUFFICES ASSUME j \in Leads(w)
               PROVE  w = Way(j.via, {j.x}, j.x.to) /\ j.x.to \in F
    OBVIOUS
  <2>1. PICK g \in G : /\ w.target = {g}
                       /\ \E s \in S : /\ w.sub = {s} /\ w = Way({g}, {s}, s.to)
                                       /\ s.to \in F
    <3>1. w.target # {} /\ w.sub # {}
      BY <1>1, <1>3
    <3> QED BY <3>1, NotEmpty, SMT DEF Stands, Way
  <2>2. PICK s \in S : w.sub = {s} /\ w = Way({g}, {s}, s.to) /\ s.to \in F
    BY <2>1
  <2>3. s = j.x /\ {g} = j.via
    BY <1>3, <2>1, <2>2
  <2> QED BY <2>2, <2>3
<1>5. k.do = "insert" /\ k.x = j.x /\ k.via = j.via /\ k.to = j.x.to
  OBVIOUS
<1>6. Sub(k) = {j.x}
  BY <1>2, <1>5 DEF Sub
<1>7. j.x.to \in F => k \in AJob
  BY <1>1 DEF AJob, Single
<1>8. j.x.to \in F => (k \in Leads(w) <=> w = Way(j.via, {j.x}, j.x.to))
  BY <1>5, <1>6, <1>7, InsertLeads
<1> QED BY <1>3, <1>4, <1>7, <1>8, WayFields

(* A request does not care for what others publish, nor for what stands no *)
(* more.                                                                   *)
LEMMA FineElse ==
  ASSUME NEW r, NEW W, NEW V \in SUBSET W, NEW ms, NEW ns, ms \subseteq ns,
         NEW es, NEW fs, es \subseteq fs, Fine(r, W, ms, es),
         r.of # 0 => /\ \A m \in ns \ ms : m.of # r.of
                     /\ \A e \in fs \ es : e.of # r.of
  PROVE  Fine(r, V, ns, fs)
<1>1. CASE r.of = 0
  BY <1>1 DEF Fine
<1>2. CASE r.of # 0
  <2>1. \A w : By(ns, r.of, w) = By(ms, r.of, w)
    BY <1>2 DEF By
  <2>2. \A g : SentTo(ns, r.of, g) <=> SentTo(ms, r.of, g)
    BY <1>2 DEF SentTo
  <2>3. \A g : Logged(fs, r.of, g) <=> Logged(es, r.of, g)
    BY <1>2 DEF Logged
  <2>4. Served(r, W, ms) /\ Opened(r, ms, es) /\ Counted(r, ms, es)
    BY <1>2 DEF Fine
  <2>5. Served(r, V, ns)
    BY <2>1, <2>4 DEF Served
  <2>6. Opened(r, ns, fs)
    BY <2>2, <2>3, <2>4 DEF Opened
  <2>7. Counted(r, ns, fs)
    BY <2>2, <2>3, <2>4, Zenon DEF Counted
  <2> QED BY <1>2, <2>5, <2>6, <2>7 DEF Fine
<1> QED BY <1>1, <1>2

Unlogged(r, v, es) == \A e \in es : e.of = r.of => v # {e.target}
AfterInsert(r, v, W, ms, es) ==
  /\ r.of # 0
  /\ With(r, Tail(r.todo), r.sent + 1) \in Request
  /\ Fine(With(r, Tail(r.todo), r.sent + 1), W, ms, es)
  /\ Unlogged(r, v, es)
AfterLog(r, g, W, ms, es) ==
  /\ r.of # 0 /\ ((r.sent > 0) <=> SentTo(ms, r.of, g))
  /\ With(r, <<>> \o Tail(r.todo), r.sent) \in Request
  /\ Fine(With(r, <<>> \o Tail(r.todo), r.sent), W, ms, es)

(* The message is inserted: one more by the way of the job, which led to   *)
(* none yet.                                                               *)
LEMMA InsertFine ==
  ASSUME NEW r \in Request, NEW W, NEW ms, NEW es, Fine(r, W, ms, es),
         r.todo # <<>>, NEW j, j = Head(r.todo), j.do = "insert",
         NEW m, m.of = r.of, m.way = Way(j.via, Sub(j), j.to)
  PROVE  AfterInsert(r, j.via, W, ms \cup {m}, es)
<1> DEFINE s == r.todo
           t == Tail(r.todo)
           u == r.sent + 1
           r2 == With(r, t, u)
           ns == ms \cup {m}
<1>1. s \in Seq(AJob) /\ s # <<>> /\ Kept(r) /\ r.sent \in Nat
  BY DEF Request, Fine
<1>2. /\ j \in AJob /\ r.of # 0
      /\ \/ ~r.event /\ All(s, Publishing) /\ j.via = {}
         \/ r.event /\ \E g \in Target : j.via = {g} /\ Delivering(s, g)
  BY <1>1, Heads
<1>3. Served(r, W, ms) /\ Opened(r, ms, es) /\ Counted(r, ms, es) /\ r.busy
  BY <1>2 DEF Fine
<1>4. t \in Seq(AJob) /\ t = <<>> \o Tail(s) /\ <<>> \in Seq(AJob)
  BY <1>1, HeadTailProperties, ConcatEmptySeq, EmptySeq
<1>5. /\ r2.busy = r.busy /\ r2.of = r.of /\ r2.event = r.event
      /\ r2.todo = t /\ r2.sent = u /\ r2 \in Request
  BY <1>1, <1>4 DEF With, Request
<1>6. \A J : Once(<<>>, J) /\ ~Some(<<>>, J) /\ All(<<>>, J)
  BY DEF Once, Some, All
<1>7. \A J : Once(s, J) =>
        /\ Once(t, J)
        /\ Some(t, J) => Some(s, J)
        /\ Some(s, J) /\ j \notin J => Some(t, J)
        /\ j \in J => ~Some(t, J)
  <2> TAKE J
  <2> SUFFICES ASSUME Once(s, J)
               PROVE  /\ Once(t, J)
                      /\ Some(t, J) => Some(s, J)
                      /\ Some(s, J) /\ j \notin J => Some(t, J)
                      /\ j \in J => ~Some(t, J)
    OBVIOUS
  <2>1. /\ Once(<<>> \o Tail(s), J)
        /\ Some(<<>> \o Tail(s), J) => Some(s, J)
        /\ Some(s, J) /\ j \notin J => Some(<<>> \o Tail(s), J)
        /\ j \in J => ~Some(<<>> \o Tail(s), J)
    <3> HIDE DEF s
    <3> QED BY <1>1, <1>4, <1>6, LedOn DEF s
  <2> HIDE DEF t, s
  <2> QED BY <2>1, <1>4
<1>8. \A J : j \in J => Some(s, J)
  <2>1. 1 \in 1..Len(s) /\ s[1] = j
    BY <1>1, EmptySeq
  <2> QED BY <2>1 DEF Some
<1>9. Served(r2, W, ns)
  <2> SUFFICES ASSUME NEW w \in W
               PROVE  /\ Once(t, Leads(w))
                      /\ Some(t, Leads(w)) => By(ns, r.of, w) = {}
                      /\ \/ Some(t, Leads(w))
                         \/ \E k \in ns : By(ns, r.of, w) = {k}
    BY <1>5 DEF Served
  <2>1. /\ Once(s, Leads(w))
        /\ Some(s, Leads(w)) => By(ms, r.of, w) = {}
        /\ \/ Some(s, Leads(w))
           \/ \E k \in ms : By(ms, r.of, w) = {k}
    BY <1>3 DEF Served
  <2>2. j \in Leads(w) <=> w = m.way
    BY <1>2, LeadsBy
  <2>3. CASE j \in Leads(w)
    <3>1. By(ms, r.of, w) = {} /\ ~Some(t, Leads(w))
      BY <2>1, <2>3, <1>7, <1>8
    <3>2. By(ns, r.of, w) = {m}
      BY <2>2, <2>3, <3>1 DEF By
    <3> QED BY <3>1, <3>2, <2>1, <1>7
  <2>4. CASE j \notin Leads(w)
    <3>1. By(ns, r.of, w) = By(ms, r.of, w)
      BY <2>2, <2>4 DEF By
    <3>2. Some(t, Leads(w)) <=> Some(s, Leads(w))
      BY <2>1, <2>4, <1>7
    <3>3. Once(t, Leads(w))
      BY <2>1, <1>7
    <3> QED BY <3>1, <3>2, <3>3, <2>1
  <2> QED BY <2>3, <2>4
<1>10. CASE ~r.event /\ All(s, Publishing) /\ j.via = {}
  <2>1. All(t, Publishing)
    <3> HIDE DEF s
    <3> QED BY <1>1, <1>4, <1>6, <1>10, AllOn DEF s
  <2>2. \A g \in Target : ~Delivering(t, g)
    BY <2>1, NoneDelivered
  <2>3. \A g \in Target : Once(t, Opens(g))
    BY <1>3, <1>7 DEF Opened
  <2>4. \A g \in Target : ~Some(t, Opens(g))
    BY <2>1 DEF Some, All, Publishing, Opens, Opening
  <2>5. Fine(r2, W, ns, es)
    BY <1>2, <1>3, <1>5, <1>9, <1>10, <2>1, <2>2, <2>3, <2>4
       DEF Fine, Kept, Opened, Counted
  <2> QED BY <1>2, <1>5, <1>10, <2>5, NotEmpty DEF Unlogged, AfterInsert
<1>11. CASE r.event /\ \E g \in Target : j.via = {g} /\ Delivering(s, g)
  <2>1. PICK g \in Target : j.via = {g} /\ Delivering(s, g)
    BY <1>11
  <2>2. Delivering(t, g)
    <3>1. Head(s).do # "log" /\ All(<<>>, Before(g))
      BY <1>6
    <3> HIDE DEF s
    <3> QED BY <1>1, <1>4, <2>1, <3>1, DeliveryGoesOn DEF s
  <2>3. \A h \in Target : Delivering(t, h) => h = g
    BY <1>4, <2>2, OneDelivered
  <2>4. m.way.target = {g}
    BY <2>1, WayFields
  <2>5. SentTo(ns, r.of, g)
    BY <2>4 DEF SentTo
  <2>6. ~Logged(es, r.of, g)
    BY <1>3, <2>1 DEF Counted
  <2>7. u > 0
    BY <1>1
  <2>8. Counted(r2, ns, es)
    <3> HIDE DEF r2, u, ns
    <3> QED BY <1>5, <2>3, <2>5, <2>6, <2>7 DEF Counted
  <2>9. ~Some(s, Opens(g))
    BY <1>1, <2>1, DeliveredIsOpened
  <2>10. \A h \in Target : h # g => (SentTo(ns, r.of, h) => SentTo(ms, r.of, h))
    BY <2>4 DEF SentTo
  <2>11. Opened(r2, ns, es)
    <3> SUFFICES ASSUME NEW h \in Target
                 PROVE  /\ Once(t, Opens(h))
                        /\ Some(t, Opens(h)) =>
                             ~SentTo(ns, r.of, h) /\ ~Logged(es, r.of, h)
      BY <1>5 DEF Opened
    <3>1. /\ Once(s, Opens(h))
          /\ Some(s, Opens(h)) => ~SentTo(ms, r.of, h) /\ ~Logged(es, r.of, h)
      BY <1>3 DEF Opened
    <3>2. Once(t, Opens(h)) /\ (Some(t, Opens(h)) => Some(s, Opens(h)))
      BY <3>1, <1>7
    <3> QED BY <3>1, <3>2, <2>9, <2>10
  <2>12. Kept(r2)
    BY <1>5, <1>2, <1>11, <2>2 DEF Kept
  <2>13. Fine(r2, W, ns, es)
    BY <1>2, <1>3, <1>5, <1>9, <2>8, <2>11, <2>12 DEF Fine
  <2>14. \A e \in es : e.of = r.of => j.via # {e.target}
    BY <2>1, <2>6 DEF Logged
  <2> QED BY <1>2, <1>5, <2>13, <2>14 DEF Unlogged, AfterInsert
<1> QED BY <1>2, <1>10, <1>11

(* The log of a target is written: of one that was opened, once.           *)
LEMMA LogFine ==
  ASSUME NEW r \in Request, NEW W, NEW ms, NEW es, Fine(r, W, ms, es),
         r.todo # <<>>, NEW j, j = Head(r.todo), j.do = "log",
         NEW e, e.of = r.of, e.target = j.x
  PROVE  AfterLog(r, j.x, W, ms, es \cup {e})
<1> DEFINE s == r.todo
           t == <<>> \o Tail(r.todo)
           r2 == With(r, t, r.sent)
           fs == es \cup {e}
           g == j.x
<1>1. s \in Seq(AJob) /\ s # <<>> /\ Kept(r) /\ r.sent \in Nat
  BY DEF Request, Fine
<1>2. j \in AJob /\ r.of # 0 /\ r.event /\ Delivering(s, g) /\ g \in Target
  BY <1>1, Heads, JobTypes
<1>3. Served(r, W, ms) /\ Opened(r, ms, es) /\ Counted(r, ms, es) /\ r.busy
  BY <1>2 DEF Fine
<1>4. t \in Seq(AJob) /\ <<>> \in Seq(AJob)
  <2> HIDE DEF s
  <2>1. <<>> \in Seq(AJob)
    BY EmptySeq
  <2> QED BY <1>1, <2>1, Replaced DEF s
<1>5. /\ r2.busy = r.busy /\ r2.of = r.of /\ r2.event = r.event
      /\ r2.todo = t /\ r2.sent = r.sent /\ r2 \in Request
  BY <1>1, <1>4 DEF With, Request
<1>6. \A J : Once(<<>>, J) /\ ~Some(<<>>, J)
  BY DEF Once, Some
<1>7. \A J : Once(s, J) =>
        /\ Once(t, J)
        /\ Some(t, J) => Some(s, J)
        /\ Some(s, J) /\ j \notin J => Some(t, J)
  <2> TAKE J
  <2> SUFFICES ASSUME Once(s, J)
               PROVE  /\ Once(t, J)
                      /\ Some(t, J) => Some(s, J)
                      /\ Some(s, J) /\ j \notin J => Some(t, J)
    OBVIOUS
  <2> HIDE DEF s
  <2> QED BY <1>1, <1>4, <1>6, LedOn DEF s
<1>8. Served(r2, W, ms)
  <2> SUFFICES ASSUME NEW w \in W
               PROVE  /\ Once(t, Leads(w))
                      /\ Some(t, Leads(w)) => By(ms, r.of, w) = {}
                      /\ \/ Some(t, Leads(w))
                         \/ \E k \in ms : By(ms, r.of, w) = {k}
    BY <1>5 DEF Served
  <2>1. /\ Once(s, Leads(w))
        /\ Some(s, Leads(w)) => By(ms, r.of, w) = {}
        /\ \/ Some(s, Leads(w))
           \/ \E k \in ms : By(ms, r.of, w) = {k}
    BY <1>3 DEF Served
  <2>2. j \notin Leads(w)
    BY <1>2, LeadsBy
  <2>3. Once(t, Leads(w)) /\ (Some(t, Leads(w)) <=> Some(s, Leads(w)))
    BY <2>1, <2>2, <1>7
  <2> QED BY <2>1, <2>3
<1>9. ~Some(s, Opens(g))
  BY <1>1, <1>2, DeliveredIsOpened
<1>10. Opened(r2, ms, fs)
  <2> SUFFICES ASSUME NEW h \in Target
               PROVE  /\ Once(t, Opens(h))
                      /\ Some(t, Opens(h)) =>
                           ~SentTo(ms, r.of, h) /\ ~Logged(fs, r.of, h)
    BY <1>5 DEF Opened
  <2>1. /\ Once(s, Opens(h))
        /\ Some(s, Opens(h)) => ~SentTo(ms, r.of, h) /\ ~Logged(es, r.of, h)
    BY <1>3 DEF Opened
  <2>2. Once(t, Opens(h)) /\ (Some(t, Opens(h)) => Some(s, Opens(h)))
    BY <2>1, <1>7
  <2>3. h # g => (Logged(fs, r.of, h) => Logged(es, r.of, h))
    BY DEF Logged
  <2> QED BY <2>1, <2>2, <2>3, <1>9
<1>11. All(t, Opening)
  <2> HIDE DEF s
  <2> QED BY <1>1, <1>2, DeliveryEnds DEF s
<1>12. \A h \in Target : ~Delivering(t, h)
  BY <1>11, NoneDelivered
<1>13. Kept(r2) /\ Counted(r2, ms, fs)
  BY <1>2, <1>5, <1>11, <1>12 DEF Kept, Counted
<1>14. Fine(r2, W, ms, fs)
  BY <1>2, <1>3, <1>5, <1>8, <1>10, <1>13 DEF Fine
<1>15. (r.sent > 0) <=> SentTo(ms, r.of, g)
  BY <1>2, <1>3 DEF Counted
<1> QED BY <1>2, <1>5, <1>14, <1>15 DEF AfterLog

-----------------------------------------------------------------------------
(* The steps of the requests.                                              *)

(* What the invariant says of a request and of what it goes over.          *)
LEMMA AtRequest ==
  ASSUME IInv, NEW p \in Procs
  PROVE  /\ req[p] \in Request /\ Fine(req[p], standing[p], messages, events)
         /\ Fits \in SUBSET Queues /\ topics \in SUBSET Topics
         /\ enabled \in SUBSET Rules /\ IsFiniteSet(enabled)
         /\ subs \in SUBSET Subscription /\ IsFiniteSet(subs)
         /\ \A x, y \in subs : x.n = y.n => x = y
         /\ targets \in SUBSET Target /\ IsFiniteSet(targets)
         /\ \A x, y \in targets : x.n = y.n => x = y
         /\ ActiveTargets \in SUBSET Target /\ ActiveTargets \subseteq targets
         /\ \A g \in ActiveTargets : g.rule \in enabled
         /\ AllStand(standing[p], Fits, topics, subs, ActiveTargets)
         /\ Kept(req[p])
<1>1. Types /\ Numbers
  BY DEF IInv
<1>2. req[p] \in Request /\ Fine(req[p], standing[p], messages, events)
  BY <1>1 DEF IInv, Types
<1>3. /\ Fits \in SUBSET Queues /\ topics \in SUBSET Topics
      /\ enabled \in SUBSET Rules
      /\ subs \in SUBSET Subscription /\ IsFiniteSet(subs)
      /\ targets \in SUBSET Target /\ IsFiniteSet(targets)
  BY <1>1 DEF Types, Fits
<1>4. IsFiniteSet(enabled)
  BY <1>3, FanoutAssumption, FS_Subset
<1>5. \A x, y \in subs : x.n = y.n => x = y
  BY <1>1, <1>3 DEF Numbers, NumbersOf, Known
<1>6. \A x, y \in targets : x.n = y.n => x = y
  BY <1>1, <1>3 DEF Numbers, NumbersOf, Known
<1>7. /\ ActiveTargets \in SUBSET Target /\ ActiveTargets \subseteq targets
      /\ \A g \in ActiveTargets : g.rule \in enabled
  BY <1>3 DEF ActiveTargets
<1>8. standing[p] \subseteq Ways
  BY <1>1 DEF Types
<1>9. AllStand(standing[p], Fits, topics, subs, ActiveTargets)
  BY <1>3, <1>7, <1>8, WaysStand DEF AllStand
<1>10. Kept(req[p])
  BY <1>2 DEF Fine
<1> QED BY <1>10, <1>2, <1>3, <1>4, <1>5, <1>6, <1>7, <1>9

(* A request with another list of jobs, and with another count.            *)
LEMMA WithIs ==
  ASSUME NEW r \in Request, NEW t
  PROVE  [r EXCEPT !.todo = t] = With(r, t, r.sent)
<1>1. DOMAIN r = {"busy", "of", "event", "todo", "sent"}
  BY DEF Request
<1>2. r = [x \in {"busy", "of", "event", "todo", "sent"} |-> r[x]]
  BY DEF Request
<1> QED BY <1>1, <1>2 DEF With

(* The same, with the count.                                                *)
LEMMA WithCountIs ==
  ASSUME NEW r \in Request, NEW t, NEW c
  PROVE  [r EXCEPT !.sent = c, !.todo = t] = With(r, t, c)
<1>1. DOMAIN r = {"busy", "of", "event", "todo", "sent"}
  BY DEF Request
<1>2. r = [x \in {"busy", "of", "event", "todo", "sent"} |-> r[x]]
  BY DEF Request
<1>3. PICK v : v = [r EXCEPT !.sent = c]
  OBVIOUS
<1>4. v = With(r, r.todo, c)
  BY <1>1, <1>2, <1>3 DEF With
<1>5. [v EXCEPT !.todo = t] = With(r, t, c)
  BY <1>4 DEF With
<1>6. [r EXCEPT !.sent = c, !.todo = t] = [[r EXCEPT !.sent = c] EXCEPT !.todo = t]
  OBVIOUS
<1> QED BY <1>3, <1>5, <1>6

(* What a step does to the request.                                        *)
LEMMA DoIs ==
  ASSUME Types, NEW p \in Procs, NEW a, Do(p, a)
  PROVE  req' = [req EXCEPT ![p] =
                   With(req[p], a \o Tail(req[p].todo), req[p].sent)]
<1>1. PICK r : r = req[p]
  OBVIOUS
<1>2. r \in Request
  BY <1>1 DEF Types
<1>3. req' = [req EXCEPT ![p] = [r EXCEPT !.todo = a \o Tail(r.todo)]]
  BY <1>1 DEF Do
<1>4. [r EXCEPT !.todo = a \o Tail(r.todo)] = With(r, a \o Tail(r.todo), r.sent)
  BY <1>2, WithIs
<1> QED BY <1>1, <1>3, <1>4

(* A job that is dropped without another.                                   *)
LEMMA SkipIs ==
  ASSUME Types, NEW p \in Procs, req[p].todo # <<>>, Skip(p)
  PROVE  req' = [req EXCEPT ![p] =
                   With(req[p], <<>> \o Tail(req[p].todo), req[p].sent)]
<1>1. PICK r : r = req[p]
  OBVIOUS
<1>2. r \in Request /\ r.todo \in Seq(AJob) /\ r.todo # <<>>
  BY <1>1 DEF Types, Request
<1>3. Tail(r.todo) \in Seq(AJob)
  BY <1>2, HeadTailProperties
<1>4. <<>> \o Tail(r.todo) = Tail(r.todo)
  BY <1>3, ConcatEmptySeq
<1>5. req' = [req EXCEPT ![p] = [r EXCEPT !.todo = Tail(r.todo)]]
  BY <1>1 DEF Skip, NoQueue
<1>6. [r EXCEPT !.todo = Tail(r.todo)] = With(r, Tail(r.todo), r.sent)
  BY <1>2, WithIs
<1> QED BY <1>1, <1>4, <1>5, <1>6

(* What is being published changes no subscription.                        *)
LEMMA NoSubscribing ==
  ASSUME NEW r, Kept(r), r.of # 0
  PROVE  \A x : ~Some(r.todo, Inserts(x))
<1> SUFFICES ASSUME NEW x, NEW i \in 1..Len(r.todo), r.todo[i] \in Inserts(x)
             PROVE  FALSE
  BY DEF Some
<1>1. r.todo[i].do \in {"subscribe", "target"}
  BY JobFields DEF Inserts
<1>2. CASE All(r.todo, Publishing)
  BY <1>1, <1>2 DEF All, Publishing
<1>3. CASE All(r.todo, Opening)
  BY <1>1, <1>3 DEF All, Opening
<1>4. CASE \E g \in Target : Delivering(r.todo, g)
  <2>1. PICK g \in Target, k \in 1..Len(r.todo) :
          /\ r.todo[k] = Job("log", g)
          /\ \A l \in 1..(k - 1) : r.todo[l] \in Before(g)
          /\ \A l \in (k + 1)..Len(r.todo) : r.todo[l] \in Opening \ Opens(g)
    BY <1>4 DEF Delivering
  <2>2. i = k \/ i \in 1..(k - 1) \/ i \in (k + 1)..Len(r.todo)
    OBVIOUS
  <2>3. Job("log", g).do = "log"
    BY JobFields
  <2> QED BY <1>1, <2>1, <2>2, <2>3 DEF Before, Opening
<1> QED BY <1>2, <1>3, <1>4 DEF Kept

(* The ways are those of the configuration.                                *)
LEMMA WaysKept == UNCHANGED config => Ways' = Ways
BY DEF config, Ways, WaysOfBus, WaysOfTopic, ActiveTargets, Fits

(* A step of a request that publishes, while what it goes over stays.      *)
LEMMA StepKeeps ==
  ASSUME IInv, NEW p \in Procs, NEW r \in Request, r.of # 0,
         req' = [req EXCEPT ![p] = r], r.of = req[p].of,
         Fine(r, standing[p], messages', events'),
         messages \subseteq messages', events \subseteq events',
         \A m \in messages' \ messages : m.of = r.of,
         \A e \in events' \ events : e.of = r.of,
         UNCHANGED <<config, accepted, changes, standing>>, LogTellsTruth'
  PROVE  IInv'
<1>1. Types /\ Numbers /\ Past /\ Apart
  BY DEF IInv
<1>2. req'[p] = r /\ \A q \in Procs : q # p => req'[q] = req[q]
  BY <1>1 DEF Types
<1>3. Types'
  <2>1. req' \in [Procs -> Request]
    BY <1>1 DEF Types
  <2>2. standing' \in [Procs -> SUBSET Ways']
    BY <1>1, WaysKept DEF Types
  <2> QED BY <1>1, <2>1, <2>2 DEF Types, config
<1>4. Numbers'
  <2>1. \A x : ~Some(r.todo, Inserts(x))
    BY NoSubscribing DEF Fine
  <2>2. \A x : Known(x)' => Known(x)
    BY <1>2, <2>1 DEF Known, config
  <2>3. changes' = changes
    OBVIOUS
  <2> QED BY <1>1, <2>2, <2>3 DEF Numbers, NumbersOf
<1>5. Past'
  <2>1. \A q \in Procs : req'[q].of <= accepted'
    BY <1>1, <1>2 DEF Past
  <2>2. r.of \in Nat /\ r.of <= accepted
    BY <1>1 DEF Past, Request
  <2> QED BY <1>1, <2>1, <2>2 DEF Past
<1>6. Apart'
  BY <1>1, <1>2 DEF Apart
<1>7. \A q \in Procs : Fine(req[q], standing[q], messages, events)'
  <2> SUFFICES ASSUME NEW q \in Procs
               PROVE  Fine(req'[q], standing'[q], messages', events')
    OBVIOUS
  <2>1. CASE q = p
    BY <1>2, <2>1
  <2>2. CASE q # p
    <3>1. Fine(req[q], standing[q], messages, events)
      BY DEF IInv
    <3>2. req[q].of # 0 => req[q].of # r.of
      BY <1>1, <2>2 DEF Apart
    <3>3. Fine(req[q], standing[q], messages', events')
      BY <3>1, <3>2, FineElse
    <3> QED BY <1>2, <2>2, <3>3
  <2> QED BY <2>1, <2>2
<1> QED BY <1>3, <1>4, <1>5, <1>6, <1>7 DEF IInv

(* And one in which no message and no log comes of it.                     *)
LEMMA GoesOnKeeps ==
  ASSUME IInv, NEW p \in Procs, req[p].of # 0, KeepOthers,
         NEW a, NEW c \in Nat,
         req' = [req EXCEPT ![p] = With(req[p], a \o Tail(req[p].todo), c)],
         With(req[p], a \o Tail(req[p].todo), c) \in Request,
         Fine(With(req[p], a \o Tail(req[p].todo), c),
              standing[p], messages, events)
  PROVE  IInv'
<1>1. PICK r : r = With(req[p], a \o Tail(req[p].todo), c)
  OBVIOUS
<1>2. r \in Request /\ r.of = req[p].of /\ r.of # 0 /\ req' = [req EXCEPT ![p] = r]
  BY <1>1 DEF With
<1>3. /\ messages' = messages /\ events' = events
      /\ UNCHANGED <<config, accepted, changes, standing>>
  BY DEF KeepOthers
<1>4. LogTellsTruth'
  BY <1>3 DEF IInv, LogTellsTruth
<1>5. Fine(r, standing[p], messages', events')
  BY <1>1, <1>3
<1> QED BY <1>2, <1>3, <1>4, <1>5, StepKeeps

-----------------------------------------------------------------------------
(* One after another.                                                      *)

(* A job that gives way to others of its request, without a message.       *)
LEMMA ListingKeeps ==
  ASSUME IInv, NEW p \in Procs, KeepOthers, req[p].todo # <<>>, req[p].of # 0,
         NEW j, j = Head(req[p].todo), NEW X, NEW a, Exactly(a, X), NEW c \in Nat,
         req' = [req EXCEPT ![p] = With(req[p], a \o Tail(req[p].todo), c)],
         LeadsOn(j, X, standing[p]), OpensOn(j, X), GoesWith(req[p], j, X, a, c)
  PROVE  IInv'
<1>1. PICK r : r = req[p]
  OBVIOUS
<1>2. PICK W, ms, es : W = standing[p] /\ ms = messages /\ es = events
  OBVIOUS
<1>3. r \in Request /\ Fine(r, W, ms, es)
  BY <1>1, <1>2, AtRequest
<1>4. /\ With(r, a \o Tail(r.todo), c) \in Request
      /\ Fine(With(r, a \o Tail(r.todo), c), W, ms, es)
  BY <1>1, <1>2, <1>3, FineOn
<1> QED BY <1>1, <1>2, <1>4, GoesOnKeeps

(* What opens no target.                                                   *)
LEMMA OpensNone ==
  ASSUME NEW j, NEW X \in SUBSET AJob,
         \A x \in X : x.do \notin {"rules", "targets", "sqs"}
  PROVE  OpensOn(j, X)
BY OpensBy DEF OpensOn

(* A publication lists the subscriptions of its topic.                     *)
LEMMA listSubscriptionsKeeps ==
  ASSUME IInv, NEW p \in Procs, listSubscriptions(p)
  PROVE  IInv'
<1>1. PICK j : j = Head(req[p].todo)
  OBVIOUS
<1>2. /\ req[p].todo # <<>> /\ j.do = "subscriptions" /\ KeepOthers
      /\ Do(p, Jobs("deliver", SubsOf(j.x)))
  BY <1>1 DEF listSubscriptions, Doing, The
<1>3. PICK S, F, T, G : S = subs /\ F = Fits /\ T = topics /\ G = ActiveTargets
  OBVIOUS
<1>4. /\ req[p] \in Request /\ Kept(req[p]) /\ AllStand(standing[p], F, T, S, G)
      /\ IsFiniteSet(S) /\ \A x, y \in S : x.n = y.n => x = y
  BY <1>3, AtRequest
<1>5. j \in AJob /\ req[p].of # 0 /\ ~req[p].event
  BY <1>1, <1>2, <1>4, Heads
<1>6. PICK L, X, a : /\ L = OfTopic(S, j.x) /\ X = JobsOn("deliver", L)
                     /\ a = Jobs("deliver", L)
  OBVIOUS
<1>7. \A s \in L : /\ s \in S /\ s \in Subscription /\ Job("deliver", s) \in AJob
                   /\ Job("deliver", s).do = "deliver"
  BY <1>4, <1>6, AreJobs, JobFields DEF OfTopic, AllStand
<1>8. Exactly(a, X)
  <2>1. IsFiniteSet(L) /\ \A x \in L : x.n \in Nat
    BY <1>4, <1>7, FS_Subset DEF Subscription
  <2> QED BY <1>4, <1>6, <1>7, <2>1, ExactlyJobs DEF JobsOn
<1>9. LeadsOn(j, X, standing[p])
  BY <1>2, <1>4, <1>5, <1>6, SubscriptionsLead
<1>10. OpensOn(j, X)
  BY <1>6, <1>7, OpensNone DEF JobsOn
<1>11. GoesWith(req[p], j, X, a, req[p].sent)
  BY <1>5, <1>6, <1>7 DEF GoesWith, Publishing, JobsOn
<1>12. req' = [req EXCEPT ![p] =
                 With(req[p], a \o Tail(req[p].todo), req[p].sent)]
  BY <1>2, <1>3, <1>6, DoIs DEF SubsOf, OfTopic, IInv
<1>13. PICK c \in Nat : c = req[p].sent
  BY <1>4 DEF Request
<1> QED BY <1>1, <1>2, <1>5, <1>8, <1>9, <1>10, <1>11, <1>12, <1>13, ListingKeeps

(* The insertion for a queue that was found.                               *)
LEMMA ToTheQueue ==
  \A s, q : [Job("insert", s) EXCEPT !.to = q] =
              [do |-> "insert", x |-> s, via |-> {}, to |-> q]
BY DEF Job

(* A subscription of a queue gets an insertion, any other nothing.          *)
LEMMA deliverToSubscriptionKeeps ==
  ASSUME IInv, NEW p \in Procs, deliverToSubscription(p)
  PROVE  IInv'
<1>1. PICK j : j = Head(req[p].todo)
  OBVIOUS
<1>2. PICK k : k = [do |-> "insert", x |-> j.x, via |-> {}, to |-> j.x.to]
  OBVIOUS
<1>3. /\ req[p].todo # <<>> /\ j.do = "deliver" /\ KeepOthers
      /\ IF j.x.to \in Fits THEN Do(p, <<k>>) ELSE Skip(p)
  <2>1. k = [Job("insert", j.x) EXCEPT !.to = j.x.to]
    BY <1>2, ToTheQueue
  <2> QED BY <1>1, <2>1 DEF deliverToSubscription, Doing, The
<1>4. PICK S, F, T, G : S = subs /\ F = Fits /\ T = topics /\ G = ActiveTargets
  OBVIOUS
<1>5. req[p] \in Request /\ Kept(req[p]) /\ AllStand(standing[p], F, T, S, G)
  BY <1>4, AtRequest
<1>6. j \in AJob /\ req[p].of # 0 /\ ~req[p].event
  BY <1>1, <1>3, <1>5, Heads
<1>7. PICK c \in Nat : c = req[p].sent
  BY <1>5 DEF Request
<1>8. CASE j.x.to \in F
  <2>1. k \in AJob /\ LeadsOn(j, {k}, standing[p])
    BY <1>2, <1>3, <1>5, <1>6, <1>8, DeliverLeads
  <2>2. k.do = "insert" /\ k.via = {}
    BY <1>2
  <2>3. Exactly(<<k>>, {k})
    BY <2>1, ExactlyOne
  <2>4. OpensOn(j, {k})
    BY <2>1, <2>2, OpensNone
  <2>5. GoesWith(req[p], j, {k}, <<k>>, c)
    BY <1>6, <2>1, <2>2 DEF GoesWith, Publishing
  <2>6. req' = [req EXCEPT ![p] = With(req[p], <<k>> \o Tail(req[p].todo), c)]
    BY <1>3, <1>4, <1>7, <1>8, DoIs DEF IInv
  <2> QED BY <1>1, <1>3, <1>6, <2>1, <2>3, <2>4, <2>5, <2>6, ListingKeeps
<1>9. CASE j.x.to \notin F
  <2>1. LeadsOn(j, {}, standing[p])
    BY <1>2, <1>3, <1>5, <1>6, <1>9, DeliverLeads
  <2>2. OpensOn(j, {})
    BY OpensNone
  <2>3. GoesWith(req[p], j, {}, <<>>, c)
    BY <1>6 DEF GoesWith
  <2>4. req' = [req EXCEPT ![p] = With(req[p], <<>> \o Tail(req[p].todo), c)]
    BY <1>3, <1>4, <1>7, <1>9, SkipIs DEF IInv
  <2> QED BY <1>1, <1>3, <1>6, <2>1, <2>2, <2>3, <2>4, ExactlyNone, ListingKeeps
<1> QED BY <1>8, <1>9

(* An event lists the rules, and the targets of each.                      *)
LEMMA listRulesKeeps ==
  ASSUME IInv, NEW p \in Procs, listRules(p)
  PROVE  IInv'
<1>1. PICK j : j = Head(req[p].todo)
  OBVIOUS
<1>2. PICK R, X : R = enabled /\ X = JobsOn("targets", R)
  OBVIOUS
<1>3. PICK a : a = [k \in DOMAIN SetToSeq(R) |-> Job("targets", SetToSeq(R)[k])]
  OBVIOUS
<1>4. req[p].todo # <<>> /\ j.do = "rules" /\ KeepOthers /\ Do(p, a)
  BY <1>1, <1>2, <1>3 DEF listRules, Doing, The
<1>5. PICK S, F, T, G : S = subs /\ F = Fits /\ T = topics /\ G = ActiveTargets
  OBVIOUS
<1>6. /\ req[p] \in Request /\ Kept(req[p]) /\ AllStand(standing[p], F, T, S, G)
      /\ R \in SUBSET Rules /\ IsFiniteSet(R) /\ \A g \in G : g.rule \in R
  BY <1>2, <1>5, AtRequest
<1>7. j \in AJob /\ req[p].of # 0 /\ req[p].event
  BY <1>1, <1>4, <1>6, Heads
<1>8. \A r \in R : Job("targets", r) \in AJob /\ Job("targets", r).do = "targets"
  BY <1>6, AreJobs, JobFields
<1>9. Exactly(a, X)
  <2>1. /\ Cardinality(R) \in Nat
        /\ SetToSeq(R) \in [1..Cardinality(R) -> R]
        /\ \A k, l \in 1..Cardinality(R) : SetToSeq(R)[k] = SetToSeq(R)[l] => k = l
        /\ \A x \in R : \E k \in 1..Cardinality(R) : SetToSeq(R)[k] = x
    BY <1>6, Enumerated
  <2>2. PICK n, s : n = Cardinality(R) /\ s = SetToSeq(R)
    OBVIOUS
  <2>3. /\ n \in Nat /\ s \in [1..n -> R]
        /\ \A k, l \in 1..n : s[k] = s[l] => k = l
        /\ \A x \in R : \E k \in 1..n : s[k] = x
        /\ a = [k \in 1..n |-> Job("targets", s[k])]
    BY <1>3, <2>1, <2>2
  <2>4. DOMAIN a = 1..n /\ a = [k \in 1..n |-> a[k]]
        /\ \A k \in 1..n : a[k] = Job("targets", s[k])
    BY <2>3
  <2>5. X = {Job("targets", r) : r \in R}
    BY <1>2 DEF JobsOn
  <2>6. X \in SUBSET AJob /\ \A k \in 1..n : a[k] \in X
    BY <1>8, <2>3, <2>4, <2>5
  <2>7. \A x \in X : \E k \in 1..n : a[k] = x
    BY <2>3, <2>4, <2>5
  <2>8. \A k, l \in 1..n : a[k] = a[l] => k = l
    BY <2>3, <2>4, JobFields
  <2> QED BY <2>3, <2>4, <2>6, <2>7, <2>8, ExactlyEach
<1>10. LeadsOn(j, X, standing[p]) /\ OpensOn(j, X)
  BY <1>2, <1>4, <1>6, <1>7, RulesLead
<1>11. GoesWith(req[p], j, X, a, req[p].sent)
  BY <1>2, <1>4, <1>7, <1>8 DEF GoesWith, Opening, JobsOn
<1>12. req' = [req EXCEPT ![p] =
                 With(req[p], a \o Tail(req[p].todo), req[p].sent)]
  BY <1>4, DoIs DEF IInv
<1>13. PICK c \in Nat : c = req[p].sent
  BY <1>6 DEF Request
<1> QED BY <1>1, <1>4, <1>7, <1>9, <1>10, <1>11, <1>12, <1>13, ListingKeeps

(* The targets of the rule, when its turn comes.                            *)
LEMMA listTargetsKeeps ==
  ASSUME IInv, NEW p \in Procs, listTargets(p)
  PROVE  IInv'
<1>1. PICK j : j = Head(req[p].todo)
  OBVIOUS
<1>2. /\ req[p].todo # <<>> /\ j.do = "targets" /\ KeepOthers
      /\ Do(p, Jobs("sqs", TargetsOf(j.x)))
  BY <1>1 DEF listTargets, Doing, The
<1>3. PICK S, F, T, G, H :
        /\ S = subs /\ F = Fits /\ T = topics /\ G = ActiveTargets
        /\ H = targets
  OBVIOUS
<1>4. /\ req[p] \in Request /\ Kept(req[p]) /\ AllStand(standing[p], F, T, S, G)
      /\ H \in SUBSET Target /\ IsFiniteSet(H) /\ G \subseteq H
      /\ \A x, y \in H : x.n = y.n => x = y
  BY <1>3, AtRequest
<1>5. j \in AJob /\ req[p].of # 0 /\ req[p].event
  BY <1>1, <1>2, <1>4, Heads
<1>6. PICK L, X, a : /\ L = OfRule(H, j.x) /\ X = JobsOn("sqs", L)
                     /\ a = Jobs("sqs", L)
  OBVIOUS
<1>7. \A g \in L : /\ g \in H /\ g \in Target /\ Job("sqs", g) \in AJob
                   /\ Job("sqs", g).do = "sqs"
  BY <1>4, <1>6, AreJobs, JobFields DEF OfRule
<1>8. Exactly(a, X)
  <2>1. IsFiniteSet(L) /\ \A x \in L : x.n \in Nat
    BY <1>4, <1>7, FS_Subset DEF Target
  <2> QED BY <1>4, <1>6, <1>7, <2>1, ExactlyJobs DEF JobsOn
<1>9. LeadsOn(j, X, standing[p]) /\ OpensOn(j, X)
  BY <1>2, <1>4, <1>5, <1>6, TargetsLead
<1>10. GoesWith(req[p], j, X, a, req[p].sent)
  BY <1>2, <1>5, <1>6, <1>7 DEF GoesWith, Opening, JobsOn
<1>11. req' = [req EXCEPT ![p] =
                 With(req[p], a \o Tail(req[p].todo), req[p].sent)]
  BY <1>2, <1>3, <1>6, DoIs DEF TargetsOf, OfRule, IInv
<1>12. PICK c \in Nat : c = req[p].sent
  BY <1>4 DEF Request
<1> QED BY <1>1, <1>2, <1>5, <1>8, <1>9, <1>10, <1>11, <1>12, ListingKeeps

(* A target is opened: what comes before its log, and the log.             *)
LEMMA DeliveryStarts ==
  ASSUME NEW s \in Seq(AJob), s # <<>>, NEW g \in Target, NEW a \in Seq(AJob)
  PROVE  /\ All(s, Opening) /\ Once(s, Opens(g)) /\ Head(s) \in Opens(g)
         /\ Len(a) = 2 /\ a[1] \in Before(g) /\ a[2] = Job("log", g)
         => Delivering(a \o Tail(s), g)
<1> DEFINE t == a \o Tail(s)
<1>1. /\ Len(t) = Len(a) + Len(s) - 1
      /\ \A i \in 1..Len(a) : i \in 1..Len(t) /\ t[i] = a[i]
      /\ \A i \in 2..Len(s) :
           Len(a) + i - 1 \in 1..Len(t) /\ t[Len(a) + i - 1] = s[i]
      /\ \A i \in 1..Len(t) :
           \/ i \in 1..Len(a) /\ t[i] = a[i]
           \/ i - Len(a) + 1 \in 2..Len(s) /\ t[i] = s[i - Len(a) + 1]
      /\ Head(s) = s[1] /\ Len(s) \in Nat \ {0} /\ Len(a) \in Nat
  BY Replaced
<1> HIDE DEF t
<1> SUFFICES ASSUME All(s, Opening), Once(s, Opens(g)), Head(s) \in Opens(g),
                    Len(a) = 2, a[1] \in Before(g), a[2] = Job("log", g)
             PROVE  Delivering(t, g)
  BY DEF t
<1>2. \A i \in 2..Len(s) : s[i] \in Opening \ Opens(g)
  <2> TAKE i \in 2..Len(s)
  <2>1. i \in 1..Len(s) /\ 1 \in 1..Len(s) /\ i # 1
    BY <1>1
  <2> QED BY <2>1, <1>1 DEF All, Once
<1>3. 2 \in 1..Len(t) /\ t[2] = Job("log", g) /\ t[1] \in Before(g)
  BY <1>1
<1>4. \A i \in 1..(2 - 1) : t[i] \in Before(g)
  BY <1>3
<1>5. \A i \in (2 + 1)..Len(t) : t[i] \in Opening \ Opens(g)
  <2> TAKE i \in (2 + 1)..Len(t)
  <2>1. i \in 1..Len(t) /\ i \notin 1..Len(a)
    BY <1>1
  <2> QED BY <2>1, <1>1, <1>2
<1> QED BY <1>3, <1>4, <1>5 DEF Delivering

(* And so with one job before the log.                                     *)
LEMMA DeliveryBegins ==
  ASSUME NEW s \in Seq(AJob), s # <<>>, NEW g \in Target, NEW k \in AJob,
         All(s, Opening), Once(s, Opens(g)), Head(s) \in Opens(g),
         k \in Before(g)
  PROVE  Delivering((<<k>> \o Log(g)) \o Tail(s), g)
<1>1. PICK l : l = Job("log", g)
  OBVIOUS
<1>2. l \in AJob
  BY <1>1, AreJobs
<1>3. PICK a : a = <<k>> \o <<l>>
  OBVIOUS
<1>4. a \in Seq(AJob) /\ Len(a) = 2 /\ a[1] = k /\ a[2] = l
  <2>1. /\ <<k>> \in Seq(AJob) /\ Len(<<k>>) = 1 /\ <<k>>[1] = k
        /\ <<l>> \in Seq(AJob) /\ Len(<<l>>) = 1 /\ <<l>>[1] = l
    BY <1>2
  <2>2. /\ a \in Seq(AJob) /\ Len(a) = 1 + 1
        /\ \A i \in 1..(1 + 1) : a[i] = IF i <= 1 THEN <<k>>[i] ELSE <<l>>[i - 1]
    BY <1>3, <2>1, ConcatProperties
  <2> QED BY <2>1, <2>2
<1>5. Delivering(a \o Tail(s), g)
  BY <1>1, <1>4, DeliveryStarts
<1> QED BY <1>1, <1>3, <1>5 DEF Log

(* Its delivery begins, with no message counted yet.                       *)
LEMMA deliverToSQSKeeps ==
  ASSUME IInv, NEW p \in Procs, deliverToSQS(p)
  PROVE  IInv'
<1>1. PICK r, j : r = req[p] /\ j = Head(r.todo)
  OBVIOUS
<1>2. PICK S, F, T, G : S = subs /\ F = Fits /\ T = topics /\ G = ActiveTargets
  OBVIOUS
<1>3. PICK k, l, m :
        /\ k = [do |-> "insert", x |-> j.x, via |-> {j.x}, to |-> j.x.to]
        /\ l = Job("sns", j.x) /\ m = Job("log", j.x)
  OBVIOUS
<1>4. PICK i : i = IF j.x.to \in F THEN k ELSE l
  OBVIOUS
<1>5. PICK a : a = <<i>> \o Log(j.x)
  OBVIOUS
<1>6. /\ r \in Request /\ Kept(r) /\ AllStand(standing[p], F, T, S, G)
      /\ Fine(r, standing[p], messages, events)
  BY <1>1, <1>2, AtRequest
<1>7. r.todo # <<>> /\ j.do = "sqs" /\ KeepOthers
  BY <1>1 DEF deliverToSQS, Doing
<1>8. req' = [req EXCEPT ![p] = With(r, a \o Tail(r.todo), 0)]
  <2>1. [Job("insert", j.x) EXCEPT !.via = {j.x}, !.to = j.x.to] = k
    <3>1. PICK s, v, q : s = j.x /\ v = {j.x} /\ q = j.x.to
      OBVIOUS
    <3>2. k = [do |-> "insert", x |-> s, via |-> v, to |-> q]
      BY <1>3, <3>1
    <3>3. PICK b : b = Job("insert", s)
      OBVIOUS
    <3>4. PICK u : u = [b EXCEPT !.via = v]
      OBVIOUS
    <3>5. u = [do |-> "insert", x |-> s, via |-> v, to |-> Other]
      BY <3>3, <3>4 DEF Job
    <3>6. [u EXCEPT !.to = q] = k
      BY <3>2, <3>5
    <3>7. [b EXCEPT !.via = v, !.to = q] = [[b EXCEPT !.via = v] EXCEPT !.to = q]
      OBVIOUS
    <3>8. [b EXCEPT !.via = v, !.to = q] = k
      BY <3>4, <3>6, <3>7
    <3> QED BY <3>1, <3>3, <3>8
  <2>2. (IF j.x.to \in Fits
         THEN <<[Job("insert", j.x) EXCEPT !.via = {j.x}, !.to = j.x.to]>>
         ELSE <<Job("sns", j.x)>>) = <<i>>
    BY <1>2, <1>3, <1>4, <2>1
  <2>3. PICK t : t = a \o Tail(r.todo)
    OBVIOUS
  <2>4. req' = [req EXCEPT ![p].sent = 0,
                           ![p].todo = (<<i>> \o Log(j.x)) \o Tail(@)]
    <3>1. req' = [req EXCEPT ![p].sent = FromZero(@), ![p].todo =
                    (IF j.x.to \in Fits
                     THEN <<[Job("insert", j.x) EXCEPT !.via = {j.x}, !.to = j.x.to]>>
                     ELSE <<Job("sns", j.x)>>) \o Log(j.x) \o Tail(@)]
      BY <1>1 DEF deliverToSQS, The
    <3> QED BY <2>2, <3>1 DEF FromZero
  <2>5. req \in [Procs -> Request]
    BY DEF IInv, Types
  <2>6. req' = [req EXCEPT ![p] = [r EXCEPT !.sent = 0, !.todo = t]]
    BY <1>1, <1>5, <2>3, <2>4, <2>5
  <2>7. PICK c : c = 0
    OBVIOUS
  <2>8. [r EXCEPT !.sent = c, !.todo = t] = With(r, t, c)
    BY <1>6, WithCountIs
  <2> QED BY <2>3, <2>6, <2>7, <2>8
<1>9. j \in AJob /\ r.of # 0 /\ r.event /\ All(r.todo, Opening) /\ j.x \in Target
  BY <1>1, <1>6, <1>7, Heads, JobTypes
<1>10. PICK W : W = standing[p]
  OBVIOUS
<1>11. i \in AJob /\ m \in AJob /\ LeadsOn(j, {i, m}, W)
  <2>1. AllStand(W, F, T, S, G)
    BY <1>6, <1>10
  <2>2. PICK v : v = {j.x}
    OBVIOUS
  <2>3. k = Inserting(j.x, v, j.x.to)
    BY <1>3, <2>2 DEF Inserting
  <2> QED BY <1>3, <1>4, <1>7, <1>9, <2>1, <2>2, <2>3, SQSLeads
<1>12. i.do \in {"insert", "sns"} /\ i \in Before(j.x) /\ m.do = "log" /\ i # m
  <2>1. l.do = "sns" /\ l.x = j.x /\ m.do = "log"
    BY <1>3, JobFields
  <2>2. k.do = "insert" /\ k.via = {j.x}
    BY <1>3
  <2> QED BY <1>4, <1>11, <2>1, <2>2 DEF Before
<1>13. Exactly(a, {i, m})
  BY <1>3, <1>5, <1>11, <1>12, ExactlyTwo DEF Log
<1>14. OpensOn(j, {i, m})
  BY <1>11, <1>12, OpensNone
<1>15. GoesWith(r, j, {i, m}, a, 0)
  <2>1. Opened(r, messages, events) /\ r.todo \in Seq(AJob)
    BY <1>6, <1>9 DEF Fine, Request
  <2>2. Once(r.todo, Opens(j.x))
    BY <1>9, <2>1 DEF Opened
  <2>3. j \in Opens(j.x)
    BY <1>7, <1>9, OpensBy
  <2>4. Delivering(a \o Tail(r.todo), j.x)
    BY <1>1, <1>5, <1>7, <1>9, <1>11, <1>12, <2>1, <2>2, <2>3, DeliveryBegins
  <2> QED BY <1>7, <1>9, <2>4 DEF GoesWith
<1>16. PICK c \in Nat : c = 0
  OBVIOUS
<1> QED BY <1>1, <1>7, <1>8, <1>9, <1>10, <1>11, <1>13, <1>14, <1>15, <1>16,
           ListingKeeps

(* As a topic.                                                             *)
LEMMA deliverToSNSKeeps ==
  ASSUME IInv, NEW p \in Procs, deliverToSNS(p)
  PROVE  IInv'
<1>1. PICK r, j : r = req[p] /\ j = Head(r.todo)
  OBVIOUS
<1>2. PICK S, F, T, G : S = subs /\ F = Fits /\ T = topics /\ G = ActiveTargets
  OBVIOUS
<1>3. PICK l : l = Job("forward", j.x)
  OBVIOUS
<1>4. r \in Request /\ Kept(r) /\ AllStand(standing[p], F, T, S, G)
  BY <1>1, <1>2, AtRequest
<1>5. /\ r.todo # <<>> /\ j.do = "sns" /\ KeepOthers
      /\ Do(p, IF j.x.to \in T THEN <<l>> ELSE <<>>)
  BY <1>1, <1>2, <1>3 DEF deliverToSNS, Doing, The
<1>6. /\ j \in AJob /\ r.of # 0 /\ r.event /\ Delivering(r.todo, j.x)
      /\ j.x \in Target
  BY <1>1, <1>4, <1>5, Heads, JobTypes
<1>7. /\ l \in AJob /\ LeadsOn(j, {l}, standing[p])
      /\ j.x.to \notin T => LeadsOn(j, {}, standing[p])
  BY <1>3, <1>4, <1>5, <1>6, SNSLeads
<1>8. PICK c \in Nat : c = r.sent
  BY <1>4 DEF Request
<1>9. l.do = "forward" /\ l.x = j.x
  BY <1>3, JobFields
<1>10. CASE j.x.to \in T
  <2>1. Exactly(<<l>>, {l})
    BY <1>7, ExactlyOne
  <2>2. OpensOn(j, {l})
    BY <1>7, <1>9, OpensNone
  <2>3. l \in Before(j.x)
    BY <1>7, <1>9 DEF Before
  <2>4. GoesWith(r, j, {l}, <<l>>, c)
    BY <1>5, <1>6, <1>8, <2>3 DEF GoesWith
  <2>5. req' = [req EXCEPT ![p] = With(req[p], <<l>> \o Tail(req[p].todo), c)]
    BY <1>1, <1>5, <1>8, <1>10, DoIs DEF IInv
  <2> QED BY <1>1, <1>5, <1>6, <1>7, <2>1, <2>2, <2>4, <2>5, ListingKeeps
<1>11. CASE j.x.to \notin T
  <2>1. LeadsOn(j, {}, standing[p])
    BY <1>7, <1>11
  <2>2. OpensOn(j, {})
    BY OpensNone
  <2>3. GoesWith(r, j, {}, <<>>, c)
    BY <1>5, <1>6, <1>8 DEF GoesWith
  <2>4. req' = [req EXCEPT ![p] = With(req[p], <<>> \o Tail(req[p].todo), c)]
    BY <1>1, <1>5, <1>8, <1>11, DoIs DEF IInv
  <2> QED BY <1>1, <1>5, <1>6, <2>1, <2>2, <2>3, <2>4, ExactlyNone, ListingKeeps
<1> QED BY <1>10, <1>11

(* The topic's subscriptions are listed for it.                            *)
LEMMA forwardKeeps ==
  ASSUME IInv, NEW p \in Procs, forward(p)
  PROVE  IInv'
<1>1. PICK r, j : r = req[p] /\ j = Head(r.todo)
  OBVIOUS
<1>2. PICK S, F, T, G : S = subs /\ F = Fits /\ T = topics /\ G = ActiveTargets
  OBVIOUS
<1>3. PICK L, X, b : /\ L = OfTopic(S, j.x.to)
                     /\ X = {Relayed(j.x, s) : s \in L}
                     /\ b = Jobs("deliver", L)
  OBVIOUS
<1>4. PICK a : a = [k \in DOMAIN b |-> [b[k] EXCEPT !.do = "relay", !.via = {j.x}]]
  OBVIOUS
<1>5. r.todo # <<>> /\ j.do = "forward" /\ KeepOthers /\ Do(p, a)
  BY <1>1, <1>2, <1>3, <1>4 DEF forward, Doing, The, SubsOf, OfTopic
<1>6. /\ r \in Request /\ Kept(r) /\ AllStand(standing[p], F, T, S, G)
      /\ IsFiniteSet(S) /\ \A x, y \in S : x.n = y.n => x = y
  BY <1>1, <1>2, AtRequest
<1>7. /\ j \in AJob /\ r.of # 0 /\ r.event /\ Delivering(r.todo, j.x)
      /\ j.x \in Target
  BY <1>1, <1>5, <1>6, Heads, JobTypes
<1>8. X \subseteq AJob /\ LeadsOn(j, X, standing[p])
  BY <1>3, <1>5, <1>6, <1>7, ForwardLeads
<1>9. \A s \in L : s \in S /\ s \in Subscription
  BY <1>3, <1>6 DEF OfTopic, AllStand
<1>10. Exactly(a, X)
  <2>1. IsFiniteSet(L) /\ (\A x \in L : x.n \in Nat)
        /\ \A x, y \in L : x.n = y.n => x = y
    BY <1>6, <1>9, FS_Subset DEF Subscription
  <2>2. PICK n, o : n = Cardinality(L) /\ o = InOrder(L)
    OBVIOUS
  <2>3. /\ n \in Nat /\ o \in [1..n -> L]
        /\ \A k, l \in 1..n : o[k] = o[l] => k = l
        /\ \A x \in L : \E k \in 1..n : o[k] = x
    BY <2>1, <2>2, Ranks
  <2>4. b = [k \in 1..n |-> Job("deliver", o[k])]
    BY <1>3, <2>2 DEF Jobs
  <2>5. \A k \in 1..n : [b[k] EXCEPT !.do = "relay", !.via = {j.x}] = Relayed(j.x, o[k])
    <3> TAKE k \in 1..n
    <3>1. PICK v : v = b[k]
      OBVIOUS
    <3>2. v = [do |-> "deliver", x |-> o[k], via |-> {}, to |-> Other]
      BY <2>4, <3>1 DEF Job
    <3>3. PICK u : u = [v EXCEPT !.do = "relay"]
      OBVIOUS
    <3>4. u = [do |-> "relay", x |-> o[k], via |-> {}, to |-> Other]
      BY <3>2, <3>3
    <3>5. [u EXCEPT !.via = {j.x}] = Relayed(j.x, o[k])
      BY <3>4 DEF Relayed
    <3>6. [v EXCEPT !.do = "relay", !.via = {j.x}] =
            [[v EXCEPT !.do = "relay"] EXCEPT !.via = {j.x}]
      OBVIOUS
    <3> QED BY <3>1, <3>3, <3>5, <3>6
  <2>6. DOMAIN b = 1..n
    BY <2>4
  <2>7. DOMAIN a = 1..n /\ \A k \in 1..n : a[k] = Relayed(j.x, o[k])
    BY <1>4, <2>5, <2>6
  <2>8. a = [k \in 1..n |-> a[k]]
    BY <1>4, <2>6
  <2>9. (\A k \in 1..n : a[k] \in X) /\ \A x \in X : \E k \in 1..n : a[k] = x
    BY <1>3, <2>3, <2>7
  <2>10. \A k, l \in 1..n : a[k] = a[l] => k = l
    <3>1. \A s, t : Relayed(j.x, s) = Relayed(j.x, t) => s = t
      BY DEF Relayed
    <3> QED BY <2>3, <2>7, <3>1
  <2> QED BY <1>8, <2>3, <2>7, <2>8, <2>9, <2>10, ExactlyEach
<1>11. \A x \in X : x.do = "relay" /\ x.via = {j.x}
  BY <1>3 DEF Relayed
<1>12. OpensOn(j, X)
  BY <1>8, <1>11, OpensNone
<1>13. PICK c \in Nat : c = r.sent
  BY <1>6 DEF Request
<1>14. X \subseteq Before(j.x)
  BY <1>8, <1>11 DEF Before
<1>15. GoesWith(r, j, X, a, c)
  BY <1>5, <1>7, <1>13, <1>14 DEF GoesWith
<1>16. req' = [req EXCEPT ![p] = With(req[p], a \o Tail(req[p].todo), c)]
  BY <1>1, <1>5, <1>13, DoIs DEF IInv
<1> QED BY <1>1, <1>5, <1>7, <1>8, <1>10, <1>12, <1>15, <1>16, ListingKeeps

(* A subscription of a target's topic, the queue once found.                *)
LEMMA relayKeeps ==
  ASSUME IInv, NEW p \in Procs, relay(p)
  PROVE  IInv'
<1>1. PICK r, j : r = req[p] /\ j = Head(r.todo)
  OBVIOUS
<1>2. PICK S, F, T, G : S = subs /\ F = Fits /\ T = topics /\ G = ActiveTargets
  OBVIOUS
<1>3. PICK k : k = [do |-> "insert", x |-> j.x, via |-> j.via, to |-> j.x.to]
  OBVIOUS
<1>4. r \in Request /\ Kept(r) /\ AllStand(standing[p], F, T, S, G)
  BY <1>1, <1>2, AtRequest
<1>5. r.todo # <<>> /\ j.do = "relay" /\ KeepOthers
  BY <1>1 DEF relay, Doing, The
<1>6. /\ j \in AJob /\ r.of # 0 /\ r.event
      /\ \E g \in Target : j.via = {g} /\ Delivering(r.todo, g)
  BY <1>1, <1>4, <1>5, Heads
<1>7. IF j.x.to \in F THEN Do(p, <<k>>) ELSE Skip(p)
  <2>1. PICK u : u = [j EXCEPT !.do = "insert"]
    OBVIOUS
  <2>2. u = [do |-> "insert", x |-> j.x, via |-> j.via, to |-> j.to]
    <3>1. j = [do |-> j.do, x |-> j.x, via |-> j.via, to |-> j.to]
      BY <1>6, JobTypes
    <3>2. PICK d, x, v, q : j = [do |-> d, x |-> x, via |-> v, to |-> q]
      BY <3>1
    <3> QED BY <2>1, <3>2
  <2>3. [u EXCEPT !.to = j.x.to] = k
    BY <1>3, <2>2
  <2>4. [j EXCEPT !.do = "insert", !.to = j.x.to] =
          [[j EXCEPT !.do = "insert"] EXCEPT !.to = j.x.to]
    OBVIOUS
  <2>5. [j EXCEPT !.do = "insert", !.to = j.x.to] = k
    BY <2>1, <2>3, <2>4
  <2> QED BY <1>1, <1>2, <2>5 DEF relay, The
<1>8. PICK c \in Nat : c = r.sent
  BY <1>4 DEF Request
<1>9. CASE j.x.to \in F
  <2>1. k \in AJob /\ LeadsOn(j, {k}, standing[p])
    BY <1>3, <1>4, <1>5, <1>6, <1>9, RelayLeads
  <2>2. k.do = "insert" /\ k.via = j.via
    BY <1>3
  <2>3. Exactly(<<k>>, {k})
    BY <2>1, ExactlyOne
  <2>4. OpensOn(j, {k})
    BY <2>1, <2>2, OpensNone
  <2>5. \A g : j.via = {g} => k \in Before(g)
    BY <2>1, <2>2 DEF Before
  <2>6. GoesWith(r, j, {k}, <<k>>, c)
    BY <1>5, <1>6, <1>8, <2>5 DEF GoesWith
  <2>7. req' = [req EXCEPT ![p] = With(req[p], <<k>> \o Tail(req[p].todo), c)]
    BY <1>1, <1>7, <1>8, <1>9, DoIs DEF IInv
  <2> QED BY <1>1, <1>5, <1>6, <2>1, <2>3, <2>4, <2>6, <2>7, ListingKeeps
<1>10. CASE j.x.to \notin F
  <2>1. LeadsOn(j, {}, standing[p])
    BY <1>3, <1>4, <1>5, <1>6, <1>10, RelayLeads
  <2>2. OpensOn(j, {})
    BY OpensNone
  <2>3. GoesWith(r, j, {}, <<>>, c)
    BY <1>5, <1>6, <1>8 DEF GoesWith
  <2>4. req' = [req EXCEPT ![p] = With(req[p], <<>> \o Tail(req[p].todo), c)]
    BY <1>1, <1>5, <1>7, <1>8, <1>10, SkipIs DEF IInv
  <2> QED BY <1>1, <1>5, <1>6, <2>1, <2>2, <2>3, <2>4, ExactlyNone, ListingKeeps
<1> QED BY <1>9, <1>10

-----------------------------------------------------------------------------
(* A message, and the log.                                                 *)

(* The message counts for the target that the request is at, which has no  *)
(* log yet: no line of the log says what is no longer true.                *)
LEMMA insertMessageKeeps ==
  ASSUME IInv, NEW p \in Procs, insertMessage(p)
  PROVE  IInv'
<1>1. PICK r, j : r = req[p] /\ j = Head(r.todo)
  OBVIOUS
<1>2. PICK W, ms, es : W = standing[p] /\ ms = messages /\ es = events
  OBVIOUS
<1>3. PICK m : m = [n |-> Cardinality(messages) + 1, of |-> req[p].of,
                    way |-> Way(j.via, Sub(j), j.to)]
  OBVIOUS
<1>4. r \in Request /\ Fine(r, W, ms, es)
  BY <1>1, <1>2, AtRequest
<1>5. /\ r.todo # <<>> /\ j.do = "insert" /\ messages' = messages \cup {m}
      /\ req' = [req EXCEPT ![p].sent = @ + 1, ![p].todo = Tail(@)]
      /\ UNCHANGED <<config, events, accepted, changes, standing>>
  BY <1>1, <1>3 DEF insertMessage, Doing, The
<1>6. m.of = r.of /\ m.way = Way(j.via, Sub(j), j.to) /\ m.way.target = j.via
  BY <1>1, <1>3 DEF Way
<1>7. PICK t, c : t = Tail(r.todo) /\ c = r.sent + 1
  OBVIOUS
<1>8. PICK q : q = With(r, t, c)
  OBVIOUS
<1>9. /\ r.of # 0 /\ q \in Request /\ Fine(q, W, ms \cup {m}, es)
      /\ \A e \in es : e.of = r.of => j.via # {e.target}
  <2>0. r.todo # <<>> /\ j.do = "insert" /\ j = Head(r.todo)
    BY <1>1, <1>5
  <2>1. AfterInsert(r, j.via, W, ms \cup {m}, es)
    BY <1>4, <1>6, <2>0, InsertFine
  <2> QED BY <1>7, <1>8, <2>1 DEF Unlogged, AfterInsert
<1>10. req' = [req EXCEPT ![p] = q]
  <2>1. req \in [Procs -> Request]
    BY DEF IInv, Types
  <2>2. req' = [req EXCEPT ![p] = [r EXCEPT !.sent = c, !.todo = t]]
    BY <1>1, <1>5, <1>7, <2>1
  <2>3. [r EXCEPT !.sent = c, !.todo = t] = With(r, t, c)
    BY <1>4, WithCountIs
  <2> QED BY <1>8, <2>2, <2>3
<1>11. LogTellsTruth'
  <2> SUFFICES ASSUME NEW e \in events
               PROVE  e.status = "DELIVERED"
                        <=> \E k \in messages' : k.of = e.of /\ k.way.target = {e.target}
    BY <1>5 DEF LogTellsTruth
  <2>1. e.status = "DELIVERED"
          <=> \E k \in messages : k.of = e.of /\ k.way.target = {e.target}
    BY DEF IInv, LogTellsTruth
  <2>2. ~(m.of = e.of /\ m.way.target = {e.target})
    BY <1>2, <1>6, <1>9
  <2> QED BY <1>5, <2>1, <2>2
<1>12. q.of = r.of
  BY <1>8 DEF With
<1>13. /\ messages \subseteq messages' /\ events \subseteq events'
       /\ (\A k \in messages' \ messages : k.of = q.of)
       /\ \A e \in events' \ events : e.of = q.of
  BY <1>5, <1>6, <1>12
<1>14. Fine(q, standing[p], messages', events')
  BY <1>2, <1>5, <1>9
<1> QED BY <1>1, <1>5, <1>9, <1>10, <1>11, <1>12, <1>13, <1>14, StepKeeps

(* And the log is written of a target by what has been counted for it.     *)
LEMMA logEventKeeps ==
  ASSUME IInv, NEW p \in Procs, logEvent(p)
  PROVE  IInv'
<1>1. PICK r, j : r = req[p] /\ j = Head(r.todo)
  OBVIOUS
<1>2. PICK W, ms, es : W = standing[p] /\ ms = messages /\ es = events
  OBVIOUS
<1>3. PICK e : e = [of |-> req[p].of, target |-> j.x, status |-> Status(r.sent)]
  OBVIOUS
<1>4. r \in Request /\ Fine(r, W, ms, es)
  BY <1>1, <1>2, AtRequest
<1>5. /\ r.todo # <<>> /\ j.do = "log" /\ events' = events \cup {e}
      /\ Do(p, <<>>)
      /\ UNCHANGED <<config, messages, accepted, changes, standing>>
  BY <1>1, <1>3 DEF logEvent, Doing, The
<1>6. e.of = r.of /\ e.target = j.x /\ e.status = Status(r.sent)
  BY <1>1, <1>3
<1>7. PICK q : q = With(r, <<>> \o Tail(r.todo), r.sent)
  OBVIOUS
<1>8. /\ r.of # 0 /\ ((r.sent > 0) <=> SentTo(ms, r.of, j.x))
      /\ q \in Request /\ Fine(q, W, ms, es \cup {e})
  <2>0. r.todo # <<>> /\ j.do = "log" /\ j = Head(r.todo)
    BY <1>1, <1>5
  <2>1. AfterLog(r, j.x, W, ms, es \cup {e})
    BY <1>4, <1>6, <2>0, LogFine
  <2> QED BY <1>7, <2>1, Zenon DEF AfterLog
<1>9. req' = [req EXCEPT ![p] = q]
  BY <1>1, <1>5, <1>7, DoIs DEF IInv
<1>10. LogTellsTruth'
  <2>1. \A f \in events : f.status = "DELIVERED"
          <=> \E k \in messages : k.of = f.of /\ k.way.target = {f.target}
    BY DEF IInv, LogTellsTruth
  <2>2. e.status = "DELIVERED"
          <=> \E k \in messages : k.of = e.of /\ k.way.target = {e.target}
    <3>1. SentTo(ms, r.of, j.x)
            <=> \E k \in messages : k.of = e.of /\ k.way.target = {e.target}
      BY <1>2, <1>6 DEF SentTo
    <3>2. e.status = "DELIVERED" <=> r.sent > 0
      BY <1>6 DEF Status
    <3> QED BY <1>8, <3>1, <3>2, Zenon
  <2> QED BY <1>5, <2>1, <2>2 DEF LogTellsTruth
<1>11. q.of = r.of
  BY <1>7 DEF With
<1>12. /\ messages \subseteq messages' /\ events \subseteq events'
       /\ (\A k \in messages' \ messages : k.of = q.of)
       /\ \A f \in events' \ events : f.of = q.of
  BY <1>5, <1>6, <1>11
<1>13. Fine(q, standing[p], messages', events')
  BY <1>2, <1>5, <1>8
<1> QED BY <1>1, <1>5, <1>8, <1>9, <1>10, <1>11, <1>12, <1>13, StepKeeps

-----------------------------------------------------------------------------
(* Who gets what changes.                                                  *)

(* A step of the configuration, of a request that publishes nothing.       *)
LEMMA ChangeKeeps ==
  ASSUME IInv, NEW p \in Procs, req[p].of = 0, Standing,
         UNCHANGED <<messages, events, accepted>>,
         NEW r \in Request, req' = [req EXCEPT ![p] = r],
         r.of = 0, All(r.todo, Changing), ~r.busy => r.todo = <<>>,
         queues' \subseteq Queues, topics' \subseteq Topics,
         enabled' \subseteq Rules,
         subs' \subseteq Subscription, IsFiniteSet(subs'),
         targets' \subseteq Target, IsFiniteSet(targets'), changes' \in Nat,
         Numbers'
  PROVE  IInv'
<1>1. Types /\ Numbers /\ Past /\ Apart
  BY DEF IInv
<1>2. req'[p] = r /\ \A q \in Procs : q # p => req'[q] = req[q]
  BY <1>1 DEF Types
<1>3. standing' = [q \in Procs |-> standing[q] \cap Ways']
  BY DEF Standing
<1>4. Types'
  <2>1. req' \in [Procs -> Request]
    BY <1>1 DEF Types
  <2>2. standing' \in [Procs -> SUBSET Ways']
    BY <1>3
  <2>3. accepted' \in Nat
    BY <1>1 DEF Types
  <2> QED BY <2>1, <2>2, <2>3 DEF Types
<1>5. Past'
  <2>1. \A q \in Procs : req'[q].of <= accepted'
    BY <1>1, <1>2 DEF Past
  <2> QED BY <1>1, <2>1 DEF Past
<1>6. Apart'
  BY <1>1, <1>2 DEF Apart
<1>7. LogTellsTruth'
  BY DEF IInv, LogTellsTruth
<1>8. \A q \in Procs : Fine(req[q], standing[q], messages, events)'
  <2> SUFFICES ASSUME NEW q \in Procs
               PROVE  Fine(req'[q], standing'[q], messages', events')
    OBVIOUS
  <2>1. Fine(req[q], standing[q], messages, events)
    BY DEF IInv
  <2>2. CASE q = p
    <3>1. standing[p] = {}
      BY <2>1, <2>2 DEF Fine
    <3>2. standing'[p] = {}
      BY <1>3, <3>1
    <3> QED BY <1>2, <2>2, <3>2 DEF Fine, Kept
  <2>3. CASE q # p
    <3>1. PICK W, V : W = standing[q] /\ V = standing'[q]
      OBVIOUS
    <3>2. V \in SUBSET W
      BY <1>3, <3>1
    <3>3. Fine(req[q], V, messages, events)
      BY <2>1, <3>1, <3>2, FineElse
    <3> QED BY <1>2, <2>3, <3>1, <3>3
  <2> QED BY <2>2, <2>3
<1> QED BY <1>1, <1>4, <1>5, <1>6, <1>7, <1>8 DEF IInv

(* The number of a subscription or a target, and how many there have been. *)
LEMMA Count ==
  ASSUME IInv
  PROVE  /\ AtFirst + changes \in Nat
         /\ \A x \in Subscription \cup Target : x.n \in Nat
         /\ NewNumber = AtFirst + changes + 1
<1>1. Cardinality(Subscribed) \in Nat /\ Cardinality(Targeted) \in Nat
  BY FanoutAssumption, FS_CardinalityType
<1>2. changes \in Nat
  BY DEF IInv, Types
<1>3. \A x \in Subscription \cup Target : x.n \in Nat
  BY DEF Subscription, Target
<1> QED BY <1>1, <1>2, <1>3 DEF AtFirst, NewNumber

(* Numbers, when at most one thing more is known, that has the next.       *)
LEMMA NumbersGrow ==
  ASSUME IInv, NEW z, z.n = NewNumber, \A x : Known(x)' => Known(x) \/ x = z,
         changes' = changes + 1
  PROVE  Numbers'
<1>1. PICK c \in Nat : c = AtFirst + changes
  BY Count
<1>2. NewNumber = c + 1 /\ \A x \in Subscription \cup Target : x.n \in Nat
  BY <1>1, Count
<1>3. AtFirst' + changes' = c + 1
  <2>1. AtFirst' = AtFirst /\ AtFirst \in Nat /\ changes \in Nat
    BY FanoutAssumption, FS_CardinalityType DEF AtFirst, IInv, Types
  <2> QED BY <1>1, <2>1
<1>4. ASSUME NEW X \in {Subscription, Target}, NumbersOf(X)
      PROVE  NumbersOf(X)'
  <2>1. /\ \A x \in X : Known(x) => x.n <= c
        /\ \A x, y \in X : Known(x) /\ Known(y) /\ x.n = y.n => x = y
        /\ \A x \in X : x.n \in Nat
    BY <1>1, <1>2, <1>4 DEF NumbersOf
  <2>2. \A x \in X : Known(x)' => x.n <= c + 1
    BY <1>2, <2>1
  <2>3. \A x, y \in X : Known(x)' /\ Known(y)' /\ x.n = y.n => x = y
    BY <1>2, <2>1
  <2> QED BY <1>3, <2>2, <2>3 DEF NumbersOf
<1> QED BY <1>4 DEF IInv, Numbers

(* Numbers, when nothing new is known.                                     *)
LEMMA NumbersKept ==
  ASSUME IInv, \A x : Known(x)' => Known(x), changes' \in Nat,
         changes <= changes'
  PROVE  Numbers'
<1>1. PICK c \in Nat : c = AtFirst + changes
  BY Count
<1>2. AtFirst' + changes' \in Nat /\ c <= AtFirst' + changes'
  <2>1. \A a, m, n \in Nat : m <= n => a + n \in Nat /\ a + m <= a + n
    OBVIOUS
  <2>2. AtFirst' = AtFirst /\ AtFirst \in Nat
    BY FanoutAssumption, FS_CardinalityType DEF AtFirst
  <2>3. changes \in Nat
    BY DEF IInv, Types
  <2>4. AtFirst + changes' \in Nat /\ AtFirst + changes <= AtFirst + changes'
    BY <2>1, <2>2, <2>3
  <2> QED BY <1>1, <2>2, <2>4
<1>3. ASSUME NEW X \in {Subscription, Target}, NumbersOf(X)
      PROVE  NumbersOf(X)'
  <2>1. /\ \A x \in X : Known(x) => x.n <= c
        /\ \A x, y \in X : Known(x) /\ Known(y) /\ x.n = y.n => x = y
        /\ \A x \in X : x.n \in Nat
    BY <1>1, <1>3, Count DEF NumbersOf
  <2>2. \A x \in X : Known(x)' => x.n <= AtFirst' + changes'
    BY <1>2, <2>1
  <2> QED BY <2>1, <2>2 DEF NumbersOf
<1> QED BY <1>3 DEF IInv, Numbers

(* The first job is done.                                                  *)
LEMMA Done ==
  ASSUME NEW r \in Request, Kept(r), r.of = 0, r.todo # <<>>, r.busy,
         NEW q, q = With(r, <<>> \o Tail(r.todo), r.sent)
  PROVE  /\ q \in Request /\ q.of = 0 /\ q.busy
         /\ All(q.todo, Changing)
         /\ \A J : Some(q.todo, J) => Some(r.todo, J)
<1>1. PICK s, t : s = r.todo /\ t = <<>> \o Tail(s)
  OBVIOUS
<1>2. s \in Seq(AJob) /\ s # <<>> /\ All(s, Changing)
  BY <1>1 DEF Request, Kept
<1>3. <<>> \in Seq(AJob) /\ \A J : All(<<>>, J)
  BY EmptySeq DEF All
<1>4. t \in Seq(AJob)
  BY <1>1, <1>2, <1>3, Replaced
<1>5. All(t, Changing)
  BY <1>1, <1>2, <1>3, AllOn
<1>6. \A J : Some(t, J) => Some(s, J)
  <2>1. /\ \A i \in 1..Len(t) :
             \/ i \in 1..Len(<<>>) /\ t[i] = <<>>[i]
             \/ i - Len(<<>>) + 1 \in 2..Len(s) /\ t[i] = s[i - Len(<<>>) + 1]
        /\ Len(s) \in Nat \ {0}
    BY <1>1, <1>2, <1>3, Replaced
  <2>2. Len(<<>>) = 0
    BY EmptySeq
  <2>3. \A i \in 1..Len(t) : i + 1 \in 1..Len(s) /\ t[i] = s[i + 1]
    BY <2>1, <2>2
  <2> QED BY <2>3 DEF Some
<1>7. /\ q.todo = t /\ q.of = r.of /\ q.busy = r.busy
      /\ q \in Request
  BY <1>1, <1>4 DEF With, Request
<1> QED BY <1>1, <1>5, <1>6, <1>7

(* A job that changes who gets what, once it is done.                      *)
LEMMA DoneKeeps ==
  ASSUME IInv, NEW p \in Procs, req[p].todo # <<>>, req[p].of = 0,
         Do(p, <<>>), Standing,
         UNCHANGED <<queues, enabled, messages, events, accepted, changes>>,
         topics' \subseteq Topics,
         subs' \subseteq Subscription, IsFiniteSet(subs'),
         targets' \subseteq Target, IsFiniteSet(targets'),
         \A x \in subs' \cup targets' : Known(x)
  PROVE  IInv'
<1>1. PICK r : r = req[p]
  OBVIOUS
<1>2. /\ r \in Request /\ Kept(r) /\ r.of = 0 /\ r.todo # <<>> /\ r.busy
  BY <1>1, AtRequest DEF Fine
<1>3. PICK q : q = With(r, <<>> \o Tail(r.todo), r.sent)
  OBVIOUS
<1>4. /\ q \in Request /\ q.of = 0 /\ q.busy
      /\ All(q.todo, Changing)
      /\ \A J : Some(q.todo, J) => Some(r.todo, J)
  BY <1>2, <1>3, Done
<1>5. req' = [req EXCEPT ![p] = q]
  BY <1>1, <1>3, DoIs DEF IInv
<1>6. \A x : Known(x)' => Known(x)
  <2>1. req \in [Procs -> Request]
    BY DEF IInv, Types
  <2>2. \A o \in Procs : \A J : Some(req'[o].todo, J) => Some(req[o].todo, J)
    BY <1>1, <1>4, <1>5, <2>1
  <2> QED BY <2>2 DEF Known
<1>7. /\ queues' \subseteq Queues /\ enabled' \subseteq Rules
      /\ changes' \in Nat /\ changes <= changes'
  BY DEF IInv, Types
<1>8. Numbers'
  BY <1>6, <1>7, NumbersKept
<1> QED BY <1>1, <1>2, <1>4, <1>5, <1>7, <1>8, ChangeKeeps

(* A subscription is inserted that was known.                              *)
LEMMA insertSubscriptionKeeps ==
  ASSUME IInv, NEW p \in Procs, insertSubscription(p)
  PROVE  IInv'
<1>1. PICK r, j : r = req[p] /\ j = Head(r.todo)
  OBVIOUS
<1>2. r.todo # <<>> /\ j.do = "subscribe" /\ subs' = subs \cup {j.x}
  BY <1>1 DEF insertSubscription, Doing, The
<1>3. /\ Do(p, <<>>) /\ Standing
      /\ UNCHANGED <<queues, enabled, messages, events, accepted, changes>>
      /\ topics' = topics /\ targets' = targets
  BY DEF insertSubscription
<1>4. r \in Request /\ Kept(r)
  BY <1>1, AtRequest
<1>5. j \in AJob /\ r.of = 0
  BY <1>1, <1>2, <1>4, Heads
<1>6. j.x \in Subscription /\ j = Job("subscribe", j.x)
  BY <1>2, <1>5, JobTypes
<1>7. Known(j.x)
  <2>1. r.todo \in Seq(AJob)
    BY <1>4 DEF Request
  <2>2. 1 \in 1..Len(r.todo) /\ r.todo[1] = j
    BY <1>1, <1>2, <2>1, EmptySeq
  <2> QED BY <1>1, <1>6, <2>2 DEF Known, Some, Inserts
<1>8. /\ subs \subseteq Subscription /\ IsFiniteSet(subs) /\ topics \subseteq Topics
      /\ targets \subseteq Target /\ IsFiniteSet(targets)
  BY DEF IInv, Types
<1>9. /\ subs' \subseteq Subscription /\ IsFiniteSet(subs') /\ topics' \subseteq Topics
      /\ targets' \subseteq Target /\ IsFiniteSet(targets')
  BY <1>2, <1>3, <1>6, <1>8, FS_AddElement
<1>10. \A x \in subs' \cup targets' : Known(x)
  BY <1>2, <1>3, <1>7 DEF Known
<1> QED BY <1>1, <1>2, <1>3, <1>5, <1>9, <1>10, DoneKeeps

(* So is a target.                                                         *)
LEMMA insertTargetKeeps ==
  ASSUME IInv, NEW p \in Procs, insertTarget(p)
  PROVE  IInv'
<1>1. PICK r, j : r = req[p] /\ j = Head(r.todo)
  OBVIOUS
<1>2. r.todo # <<>> /\ j.do = "target" /\ targets' = targets \cup {j.x}
  BY <1>1 DEF insertTarget, Doing, The
<1>3. /\ Do(p, <<>>) /\ Standing
      /\ UNCHANGED <<queues, enabled, messages, events, accepted, changes>>
      /\ topics' = topics /\ subs' = subs
  BY DEF insertTarget
<1>4. r \in Request /\ Kept(r)
  BY <1>1, AtRequest
<1>5. j \in AJob /\ r.of = 0
  BY <1>1, <1>2, <1>4, Heads
<1>6. j.x \in Target /\ j = Job("target", j.x)
  BY <1>2, <1>5, JobTypes
<1>7. Known(j.x)
  <2>1. r.todo \in Seq(AJob)
    BY <1>4 DEF Request
  <2>2. 1 \in 1..Len(r.todo) /\ r.todo[1] = j
    BY <1>1, <1>2, <2>1, EmptySeq
  <2> QED BY <1>1, <1>6, <2>2 DEF Known, Some, Inserts
<1>8. /\ subs \subseteq Subscription /\ IsFiniteSet(subs) /\ topics \subseteq Topics
      /\ targets \subseteq Target /\ IsFiniteSet(targets)
  BY DEF IInv, Types
<1>9. /\ subs' \subseteq Subscription /\ IsFiniteSet(subs') /\ topics' \subseteq Topics
      /\ targets' \subseteq Target /\ IsFiniteSet(targets')
  BY <1>2, <1>3, <1>6, <1>8, FS_AddElement
<1>10. \A x \in subs' \cup targets' : Known(x)
  BY <1>2, <1>3, <1>7 DEF Known
<1> QED BY <1>1, <1>2, <1>3, <1>5, <1>9, <1>10, DoneKeeps

(* One goes, and at last the topic.                                        *)
LEMMA deleteSubscriptionKeeps ==
  ASSUME IInv, NEW p \in Procs, deleteSubscription(p) \/ dropTopic(p)
  PROVE  IInv'
<1>1. PICK r, j : r = req[p] /\ j = Head(r.todo)
  OBVIOUS
<1>2. /\ r.todo # <<>> /\ j.do \in {"unsubscribe", "drop"}
      /\ subs' \subseteq subs /\ topics' \subseteq topics
      /\ subs' = subs \/ subs' = subs \ {j.x}
      /\ Do(p, <<>>) /\ Standing
      /\ UNCHANGED <<queues, enabled, messages, events, accepted, changes>>
      /\ targets' = targets
  BY <1>1 DEF deleteSubscription, dropTopic, Doing, The
<1>3. r \in Request /\ Kept(r)
  BY <1>1, AtRequest
<1>4. r.of = 0
  BY <1>1, <1>2, <1>3, Heads
<1>5. /\ subs \subseteq Subscription /\ IsFiniteSet(subs) /\ topics \subseteq Topics
      /\ targets \subseteq Target /\ IsFiniteSet(targets)
  BY DEF IInv, Types
<1>6. /\ subs' \subseteq Subscription /\ IsFiniteSet(subs') /\ topics' \subseteq Topics
      /\ targets' \subseteq Target /\ IsFiniteSet(targets')
  BY <1>2, <1>5, FS_Subset
<1>7. \A x \in subs' \cup targets' : Known(x)
  BY <1>2 DEF Known
<1> QED BY <1>1, <1>2, <1>4, <1>6, <1>7, DoneKeeps

(* A change that is one step takes nothing that is not known.              *)
LEMMA AtOnceKeeps ==
  ASSUME IInv, NEW p \in Procs, AtOnce(p),
         queues' \subseteq Queues, topics' \subseteq Topics,
         enabled' \subseteq Rules, subs' \subseteq subs, targets' \subseteq targets
  PROVE  IInv'
<1>1. PICK r : r = req[p]
  OBVIOUS
<1>2. r \in Request /\ Kept(r) /\ Fine(r, standing[p], messages, events)
  BY <1>1, AtRequest
<1>3. /\ ~r.busy /\ Standing /\ UNCHANGED <<messages, events, accepted>>
      /\ req' = req /\ changes' = changes + 1
  BY <1>1 DEF AtOnce, Change
<1>4. r.of = 0 /\ r.todo = <<>>
  BY <1>2, <1>3 DEF Fine
<1>5. All(r.todo, Changing)
  BY <1>2, <1>4 DEF Kept
<1>6. req' = [req EXCEPT ![p] = r]
  BY <1>1, <1>3 DEF IInv, Types
<1>7. /\ changes \in Nat /\ subs \subseteq Subscription /\ IsFiniteSet(subs)
      /\ targets \subseteq Target /\ IsFiniteSet(targets)
  BY DEF IInv, Types
<1>8. /\ subs' \subseteq Subscription /\ IsFiniteSet(subs')
      /\ targets' \subseteq Target /\ IsFiniteSet(targets')
  BY <1>7, FS_Subset
<1>9. changes' \in Nat /\ changes <= changes'
  BY <1>3, <1>7
<1>10. \A x : Known(x)' => Known(x)
  BY <1>3 DEF Known
<1>11. Numbers'
  BY <1>9, <1>10, NumbersKept
<1> QED BY <1>1, <1>2, <1>3, <1>4, <1>5, <1>6, <1>8, <1>9, <1>11, ChangeKeeps

(* One that goes on begins a request.                                      *)
LEMMA BegunChange ==
  ASSUME NEW a
  PROVE  [Idle EXCEPT !.busy = TRUE, !.todo = a] =
           [busy |-> TRUE, of |-> 0, event |-> FALSE, todo |-> a, sent |-> 0]
<1>1. PICK b, c : b = TRUE /\ c = FALSE
  OBVIOUS
<1>2. PICK i : i = Idle
  OBVIOUS
<1>3. i = [busy |-> c, of |-> 0, event |-> c, todo |-> <<>>, sent |-> 0]
  BY <1>1, <1>2 DEF Idle
<1>4. PICK v : v = [i EXCEPT !.busy = b]
  OBVIOUS
<1>5. v = [busy |-> b, of |-> 0, event |-> c, todo |-> <<>>, sent |-> 0]
  BY <1>3, <1>4
<1>6. PICK e : e = <<>>
  OBVIOUS
<1>7. [v EXCEPT !.todo = a] =
        [busy |-> b, of |-> 0, event |-> c, todo |-> a, sent |-> 0]
  <2>1. v = [busy |-> b, of |-> 0, event |-> c, todo |-> e, sent |-> 0]
    BY <1>5, <1>6
  <2> QED BY ONLY <2>1
<1>8. [i EXCEPT !.busy = b, !.todo = a] = [[i EXCEPT !.busy = b] EXCEPT !.todo = a]
  OBVIOUS
<1> QED BY <1>1, <1>2, <1>4, <1>7, <1>8

(* What it is to do changes who gets what, and what it is to insert has a   *)
(* number that nothing has.                                                 *)
LEMMA GoOnKeeps ==
  ASSUME IInv, NEW p \in Procs, NEW a \in Seq(AJob), GoOn(p, a),
         All(a, Changing),
         NEW z, z.n = NewNumber, \A x : Some(a, Inserts(x)) => x = z
  PROVE  IInv'
<1>1. PICK r : r = [Idle EXCEPT !.busy = TRUE, !.todo = a]
  OBVIOUS
<1>2. r = [busy |-> TRUE, of |-> 0, event |-> FALSE, todo |-> a, sent |-> 0]
  BY <1>1, BegunChange
<1>3. r \in Request /\ r.of = 0 /\ All(r.todo, Changing) /\ r.busy
  BY <1>2 DEF Request
<1>4. /\ UNCHANGED config /\ ~req[p].busy /\ changes' = changes + 1
      /\ UNCHANGED <<messages, events, accepted>> /\ Standing
      /\ req' = [req EXCEPT ![p] = r]
  BY <1>1 DEF GoOn, Change
<1>5. req[p].of = 0
  BY <1>4, AtRequest DEF Fine
<1>6. Types /\ Numbers
  BY DEF IInv
<1>7. /\ queues' \subseteq Queues /\ topics' \subseteq Topics
      /\ enabled' \subseteq Rules /\ subs' \subseteq Subscription
      /\ IsFiniteSet(subs') /\ changes' \in Nat
      /\ targets' \subseteq Target /\ IsFiniteSet(targets')
  BY <1>4, <1>6 DEF Types, config
<1>8. Numbers'
  <2>1. ASSUME NEW x, Known(x)'
        PROVE  Known(x) \/ x = z
    <3>1. req'[p].todo = a /\ \A q \in Procs : q # p => req'[q] = req[q]
      BY <1>2, <1>4, <1>6 DEF Types
    <3> QED BY <1>4, <2>1, <3>1 DEF Known, config
  <2> QED BY <1>4, <2>1, NumbersGrow
<1> QED BY <1>3, <1>4, <1>5, <1>7, <1>8, ChangeKeeps

(* A subscription to be inserted has the next number.                       *)
LEMMA subscribeKeeps ==
  ASSUME IInv, NEW p \in Procs, NEW t \in Topics, NEW e \in Queues,
         subscribe(p, t, e)
  PROVE  IInv'
<1>1. PICK x : x = [n |-> NewNumber, topic |-> t, to |-> e]
  OBVIOUS
<1>2. PICK j : j = Job("subscribe", x)
  OBVIOUS
<1>3. GoOn(p, <<j>>)
  BY <1>1, <1>2 DEF subscribe
<1>4. x \in Subscription /\ x.n = NewNumber
  <2>1. NewNumber \in Nat
    BY Count
  <2> QED BY <1>1, <2>1 DEF Subscription
<1>5. j \in AJob /\ j.do = "subscribe"
  BY <1>2, <1>4, AreJobs, JobFields
<1>6. <<j>> \in Seq(AJob) /\ Len(<<j>>) = 1 /\ <<j>>[1] = j
  BY <1>5
<1>7. All(<<j>>, Changing)
  BY <1>5, <1>6 DEF All, Changing
<1>8. \A y : Some(<<j>>, Inserts(y)) => y = x
  <2>1. \A y : j \in Inserts(y) => y = x
    BY <1>2, JobFields DEF Inserts
  <2> QED BY <1>6, <2>1 DEF Some
<1> QED BY <1>3, <1>4, <1>6, <1>7, <1>8, GoOnKeeps

(* So has a target.                                                         *)
LEMMA putTargetsKeeps ==
  ASSUME IInv, NEW p \in Procs, NEW r \in Rules,
         NEW e \in Queues \cup Topics, putTargets(p, r, e)
  PROVE  IInv'
<1>1. PICK x : x = [n |-> NewNumber, rule |-> r, to |-> e]
  OBVIOUS
<1>2. PICK j : j = Job("target", x)
  OBVIOUS
<1>3. GoOn(p, <<j>>)
  BY <1>1, <1>2 DEF putTargets
<1>4. x \in Target /\ x.n = NewNumber
  <2>1. NewNumber \in Nat
    BY Count
  <2> QED BY <1>1, <2>1 DEF Target
<1>5. j \in AJob /\ j.do = "target"
  BY <1>2, <1>4, AreJobs, JobFields
<1>6. <<j>> \in Seq(AJob) /\ Len(<<j>>) = 1 /\ <<j>>[1] = j
  BY <1>5
<1>7. All(<<j>>, Changing)
  BY <1>5, <1>6 DEF All, Changing
<1>8. \A y : Some(<<j>>, Inserts(y)) => y = x
  <2>1. \A y : j \in Inserts(y) => y = x
    BY <1>2, JobFields DEF Inserts
  <2> QED BY <1>6, <2>1 DEF Some
<1> QED BY <1>3, <1>4, <1>6, <1>7, <1>8, GoOnKeeps

(* A deletion of a topic goes over the subscriptions of the topic.          *)
LEMMA deleteTopicKeeps ==
  ASSUME IInv, NEW p \in Procs, NEW t \in Topics, deleteTopic(p, t)
  PROVE  IInv'
<1>1. PICK L, s, j, a : /\ L = SubsOf(t) /\ s = Jobs("unsubscribe", L)
                        /\ j = Job("drop", t) /\ a = s \o <<j>>
  OBVIOUS
<1>2. GoOn(p, a)
  BY <1>1 DEF deleteTopic
<1>3. /\ IsFiniteSet(subs) /\ subs \subseteq Subscription
      /\ \A x, y \in subs : x.n = y.n => x = y
  BY AtRequest
<1>4. L \subseteq subs /\ IsFiniteSet(L) /\ \A x \in L : x.n \in Nat
  BY <1>1, <1>3, FS_Subset DEF SubsOf, Subscription
<1>5. \A x \in L : Job("unsubscribe", x) \in AJob
  BY <1>3, <1>4, AreJobs
<1>6. Exactly(s, {Job("unsubscribe", x) : x \in L})
  BY <1>1, <1>3, <1>4, <1>5, ExactlyJobs
<1>7. \A x : Job("unsubscribe", x).do = "unsubscribe"
  BY JobFields
<1>8. s \in Seq(AJob) /\ \A i \in 1..Len(s) : s[i] \in AJob /\ s[i].do = "unsubscribe"
  BY <1>5, <1>6, <1>7 DEF Exactly
<1>9. j \in AJob /\ j.do = "drop"
  BY <1>1, AreJobs, JobFields
<1>10. <<j>> \in Seq(AJob) /\ Len(<<j>>) = 1 /\ <<j>>[1] = j
  BY <1>9
<1>11. /\ a \in Seq(AJob) /\ Len(a) = Len(s) + 1
       /\ \A i \in 1..(Len(s) + 1) : a[i] = IF i <= Len(s) THEN s[i]
                                            ELSE <<j>>[i - Len(s)]
  BY <1>1, <1>8, <1>10, ConcatProperties
<1>12. \A i \in 1..Len(a) : a[i] \in AJob /\ a[i].do \in {"unsubscribe", "drop"}
  <2> TAKE i \in 1..Len(a)
  <2>1. Len(s) \in Nat
    BY <1>8
  <2>2. CASE i <= Len(s)
    BY <1>8, <1>11, <2>1, <2>2
  <2>3. CASE ~(i <= Len(s))
    <3>1. i - Len(s) = 1
      BY <1>11, <2>1, <2>3
    <3> QED BY <1>9, <1>10, <1>11, <2>3, <3>1
  <2> QED BY <2>2, <2>3
<1>13. All(a, Changing)
  BY <1>12 DEF All, Changing
<1>14. \A y : ~Some(a, Inserts(y))
  BY <1>12, JobFields DEF Some, Inserts
<1>15. PICK z : z = [n |-> NewNumber]
  OBVIOUS
<1> QED BY <1>2, <1>11, <1>13, <1>14, <1>15, GoOnKeeps

(* All the changes.                                                        *)
LEMMA ChangesKeep ==
  ASSUME IInv, NEW p \in Procs, Changes(p)
  PROVE  IInv'
<1>1. /\ queues \subseteq Queues /\ topics \subseteq Topics
      /\ enabled \subseteq Rules
  BY DEF IInv, Types
<1>2. CASE \E q \in Queues : createQueue(p, q) \/ deleteQueue(p, q)
  BY <1>1, <1>2, AtOnceKeeps DEF createQueue, deleteQueue
<1>3. CASE \E t \in Topics : createTopic(p, t)
  BY <1>1, <1>3, AtOnceKeeps DEF createTopic
<1>4. CASE \E t \in Topics : deleteTopic(p, t)
  BY <1>4, deleteTopicKeeps
<1>5. CASE \E t \in Topics, e \in Queues : subscribe(p, t, e)
  BY <1>5, subscribeKeeps
<1>6. CASE \E s \in subs : unsubscribe(p, s)
  BY <1>1, <1>6, AtOnceKeeps DEF unsubscribe
<1>7. CASE \E g \in targets : removeTargets(p, g)
  BY <1>1, <1>7, AtOnceKeeps DEF removeTargets
<1>8. CASE \E r \in Rules : setRuleState(p, r)
  BY <1>1, <1>8, AtOnceKeeps DEF setRuleState
<1>9. CASE \E r \in Rules, e \in Queues \cup Topics : putTargets(p, r, e)
  BY <1>9, putTargetsKeeps
<1> QED BY <1>2, <1>3, <1>4, <1>5, <1>6, <1>7, <1>8, <1>9 DEF Changes

-----------------------------------------------------------------------------
(* Requests begin and end.                                                 *)

(* A request gives way to another of the same goroutine: one that           *)
(* publishes has a number of its own, and nothing has gone by it.           *)
LEMMA RequestKeeps ==
  ASSUME IInv, NEW p \in Procs, NEW r \in Request, NEW W \in SUBSET Ways,
         req' = [req EXCEPT ![p] = r], standing' = [standing EXCEPT ![p] = W],
         UNCHANGED <<config, messages, events, changes>>,
         \A x : ~Some(r.todo, Inserts(x)),
         accepted' \in Nat, accepted <= accepted',
         r.of # 0 => accepted < r.of /\ r.of <= accepted',
         Fine(r, W, messages, events)
  PROVE  IInv'
<1>1. Types /\ Numbers /\ Past /\ Apart
  BY DEF IInv
<1>2. req'[p] = r /\ \A q \in Procs : q # p => req'[q] = req[q]
  BY <1>1 DEF Types
<1>3. standing'[p] = W /\ \A q \in Procs : q # p => standing'[q] = standing[q]
  BY <1>1 DEF Types
<1>4. Types'
  <2>1. req' \in [Procs -> Request]
    BY <1>1 DEF Types
  <2>2. Ways' = Ways
    BY WaysKept
  <2>3. standing' \in [Procs -> SUBSET Ways']
    BY <1>1, <2>2 DEF Types
  <2> QED BY <1>1, <2>1, <2>3 DEF Types, config
<1>5. Numbers'
  <2>1. \A x : Known(x)' => Known(x)
    BY <1>2 DEF Known, config
  <2> QED BY <1>1, <2>1 DEF Numbers, NumbersOf
<1>6. \A q \in Procs : req[q].of \in Nat
  BY <1>1 DEF Types, Request
<1>7. accepted \in Nat /\ r.of \in Nat
  BY <1>1 DEF Types, Request
<1>8. Past'
  <2>1. \A q \in Procs : req'[q].of <= accepted'
    <3> TAKE q \in Procs
    <3>1. req[q].of <= accepted
      BY <1>1 DEF Past
    <3> QED BY <1>2, <1>6, <1>7, <3>1
  <2>2. \A m \in messages : m.of \in Nat /\ m.of <= accepted'
    BY <1>1, <1>7 DEF Past
  <2>3. \A e \in events : e.of \in Nat /\ e.of <= accepted'
    BY <1>1, <1>7 DEF Past
  <2> QED BY <2>1, <2>2, <2>3 DEF Past
<1>9. Apart'
  <2>1. \A q \in Procs : r.of # 0 => req[q].of # r.of
    <3> TAKE q \in Procs
    <3>1. req[q].of <= accepted
      BY <1>1 DEF Past
    <3> QED BY <1>6, <1>7, <3>1
  <2> QED BY <1>1, <1>2, <2>1 DEF Apart
<1>10. \A q \in Procs : Fine(req[q], standing[q], messages, events)'
  <2> SUFFICES ASSUME NEW q \in Procs
               PROVE  Fine(req'[q], standing'[q], messages', events')
    OBVIOUS
  <2>1. Fine(req[q], standing[q], messages, events)
    BY DEF IInv
  <2>2. messages' = messages /\ events' = events
    OBVIOUS
  <2> QED BY <1>2, <1>3, <2>1, <2>2
<1>11. LogTellsTruth'
  BY DEF IInv, LogTellsTruth
<1> QED BY <1>4, <1>5, <1>8, <1>9, <1>10, <1>11 DEF IInv

(* What is accepted has one job, that leads to every way that stands.      *)
LEMMA Fresh ==
  ASSUME NEW r \in Request, r.busy, r.of # 0, NEW j \in AJob, r.todo = <<j>>,
         NEW W, \A w \in W : j \in Leads(w), NEW ms, NEW es,
         \A m \in ms : m.of # r.of, \A e \in es : e.of # r.of,
         (~r.event /\ j \in Publishing) \/ (r.event /\ j \in Opening)
  PROVE  Fine(r, W, ms, es)
<1>1. Len(r.todo) = 1 /\ r.todo[1] = j /\ r.todo \in Seq(AJob)
  OBVIOUS
<1>2. \A J : Once(r.todo, J) /\ (j \in J => Some(r.todo, J) /\ All(r.todo, J))
  BY <1>1 DEF Once, Some, All
<1>3. Served(r, W, ms)
  BY <1>2 DEF Served, By
<1>4. Opened(r, ms, es)
  BY <1>2 DEF Opened, SentTo, Logged
<1>5. All(r.todo, Opening) \/ All(r.todo, Publishing)
  BY <1>2
<1>6. \A g \in Target : ~Delivering(r.todo, g)
  BY <1>1, <1>5, NoneDelivered
<1>7. Counted(r, ms, es)
  BY <1>6 DEF Counted
<1>8. Kept(r)
  BY <1>2 DEF Kept
<1> QED BY <1>3, <1>4, <1>7, <1>8 DEF Fine

(* The request of a publication or an event.                                *)
LEMMA BegunPublication ==
  ASSUME NEW n, NEW ev, NEW a
  PROVE  [Idle EXCEPT !.busy = TRUE, !.of = n, !.event = ev, !.todo = a] =
           [busy |-> TRUE, of |-> n, event |-> ev, todo |-> a, sent |-> 0]
<1>1. PICK b, c, i, e : b = TRUE /\ c = FALSE /\ i = Idle /\ e = <<>>
  OBVIOUS
<1>2. i = [busy |-> c, of |-> 0, event |-> c, todo |-> e, sent |-> 0]
  BY <1>1 DEF Idle
<1>3. PICK u : u = [i EXCEPT !.busy = b]
  OBVIOUS
<1>4. u = [busy |-> b, of |-> 0, event |-> c, todo |-> e, sent |-> 0]
  BY ONLY <1>2, <1>3
<1>5. PICK v : v = [u EXCEPT !.of = n]
  OBVIOUS
<1>6. v = [busy |-> b, of |-> n, event |-> c, todo |-> e, sent |-> 0]
  BY ONLY <1>4, <1>5
<1>7. PICK w : w = [v EXCEPT !.event = ev]
  OBVIOUS
<1>8. w = [busy |-> b, of |-> n, event |-> ev, todo |-> e, sent |-> 0]
  BY ONLY <1>6, <1>7
<1>9. [w EXCEPT !.todo = a] =
        [busy |-> b, of |-> n, event |-> ev, todo |-> a, sent |-> 0]
  BY ONLY <1>8
<1>10. [i EXCEPT !.busy = b, !.of = n, !.event = ev, !.todo = a] =
         [[[[i EXCEPT !.busy = b] EXCEPT !.of = n] EXCEPT !.event = ev]
            EXCEPT !.todo = a]
  OBVIOUS
<1> QED BY <1>1, <1>3, <1>5, <1>7, <1>9, <1>10

(* It begins with the ways that stand then.                                 *)
LEMMA AcceptKeeps ==
  ASSUME IInv, NEW p \in Procs, NEW ev \in BOOLEAN, NEW W \in SUBSET Ways,
         NEW j \in AJob, Accept(p, ev, W, <<j>>), \A w \in W : j \in Leads(w),
         (~ev /\ j \in Publishing) \/ (ev /\ j \in Opening)
  PROVE  IInv'
<1>1. PICK n : n = accepted + 1
  OBVIOUS
<1>2. PICK r : r = [busy |-> TRUE, of |-> n, event |-> ev, todo |-> <<j>>,
                    sent |-> 0]
  OBVIOUS
<1>3. /\ accepted' = n /\ standing' = [standing EXCEPT ![p] = W]
      /\ UNCHANGED <<config, messages, events, changes>>
  BY <1>1 DEF Accept
<1>4. req' = [req EXCEPT ![p] = r]
  <2>1. req' = [req EXCEPT ![p] = [Idle EXCEPT !.busy = TRUE, !.of = n,
                                               !.event = ev, !.todo = <<j>>]]
    BY <1>3 DEF Accept
  <2> QED BY <1>2, <2>1, BegunPublication
<1>5. accepted \in Nat /\ Past
  BY DEF IInv, Types
<1>6. n \in Nat /\ n # 0 /\ accepted < n /\ accepted <= n
  BY <1>1, <1>5
<1>7. /\ r \in Request /\ r.busy /\ r.of = n /\ r.event = ev /\ r.todo = <<j>>
  BY <1>2, <1>6 DEF Request
<1>8. (\A m \in messages : m.of # n) /\ \A e \in events : e.of # n
  BY <1>5, <1>6 DEF Past
<1>9. PICK ms, es : ms = messages /\ es = events
  OBVIOUS
<1>10. Fine(r, W, ms, es)
  <2>1. (\A m \in ms : m.of # r.of) /\ \A e \in es : e.of # r.of
    BY <1>7, <1>8, <1>9
  <2>2. (~r.event /\ j \in Publishing) \/ (r.event /\ j \in Opening)
    BY <1>7
  <2>3. r.of # 0
    BY <1>6, <1>7
  <2> QED BY <1>7, <2>1, <2>2, <2>3, Fresh
<1>11. \A x : ~Some(r.todo, Inserts(x))
  BY <1>6, <1>7, <1>10, NoSubscribing DEF Fine
<1>12. r.of # 0 => accepted < r.of /\ r.of <= accepted'
  BY <1>3, <1>6, <1>7
<1>13. Fine(r, W, messages, events)
  BY <1>9, <1>10
<1>14. accepted' \in Nat /\ accepted <= accepted'
  BY <1>3, <1>6
<1> QED BY <1>3, <1>4, <1>7, <1>11, <1>12, <1>13, <1>14, RequestKeeps

(* A publication, by the subscriptions of its topic.                        *)
LEMMA publishKeeps ==
  ASSUME IInv, NEW p \in Procs, NEW t \in Topics, publish(p, t)
  PROVE  IInv'
<1>1. PICK j, W, f : j = Job("subscriptions", t) /\ W = WaysOfTopic(t) /\ f = FALSE
  OBVIOUS
<1>2. t \in topics /\ Accept(p, f, W, <<j>>)
  BY <1>1 DEF publish
<1>3. j \in AJob /\ j.do = "subscriptions" /\ j.x = t
  BY <1>1, AreJobs, JobFields
<1>4. W \in SUBSET Ways
  BY <1>1, <1>2 DEF Ways
<1>5. \A w \in W : j \in Leads(w)
  <2> TAKE w \in W
  <2>1. PICK s \in subs : s.topic = t /\ w = Way({}, {s}, s.to)
    BY <1>1 DEF WaysOfTopic
  <2>2. w.target = {} /\ w.sub = {s}
    BY <2>1, WayFields
  <2>3. w.target = {} /\ \E o \in w.sub : o.topic = j.x
    BY <1>3, <2>1, <2>2
  <2> QED BY <1>3, <2>3, LeadsBy
<1>6. f \in BOOLEAN /\ ~f /\ j \in Publishing
  BY <1>1, <1>3 DEF Publishing
<1> QED BY <1>2, <1>3, <1>4, <1>5, <1>6, AcceptKeeps

(* An event, by the targets of the bus.                                     *)
LEMMA putEventsKeeps ==
  ASSUME IInv, NEW p \in Procs, putEvents(p)
  PROVE  IInv'
<1>1. PICK j, W, f : j = Job("rules", Other) /\ W = WaysOfBus /\ f = TRUE
  OBVIOUS
<1>2. Accept(p, f, W, <<j>>)
  BY <1>1 DEF putEvents
<1>3. j \in AJob /\ j.do = "rules"
  BY <1>1, AreJobs, JobFields
<1>4. W \in SUBSET Ways
  BY <1>1 DEF Ways
<1>5. \A w \in W : w.target # {}
  <2> TAKE w \in W
  <2>1. CASE \E g \in ActiveTargets : w = Way({g}, {}, g.to)
    BY <2>1, WayFields, NotEmpty
  <2>2. CASE \E g \in ActiveTargets : \E v \in WaysOfTopic(g.to) :
               w = Way({g}, v.sub, v.queue)
    BY <2>2, WayFields, NotEmpty
  <2>3. \/ \E g \in ActiveTargets : w = Way({g}, {}, g.to)
        \/ \E g \in ActiveTargets : \E v \in WaysOfTopic(g.to) :
             w = Way({g}, v.sub, v.queue)
    BY <1>1 DEF WaysOfBus
  <2> QED BY <2>1, <2>2, <2>3
<1>6. \A w \in W : j \in Leads(w)
  BY <1>3, <1>5, LeadsBy
<1>7. f \in BOOLEAN /\ f /\ j \in Opening
  BY <1>1, <1>3 DEF Opening
<1> QED BY <1>2, <1>3, <1>4, <1>6, <1>7, AcceptKeeps

(* The answer leaves nothing behind.                                        *)
LEMMA AnswerKeeps ==
  ASSUME IInv, NEW p \in Procs, Answer(p)
  PROVE  IInv'
<1>1. PICK r, W : r = Idle /\ W = {}
  OBVIOUS
<1>2. /\ req' = [req EXCEPT ![p] = r] /\ standing' = [standing EXCEPT ![p] = W]
      /\ UNCHANGED <<config, messages, events, changes>> /\ accepted' = accepted
  BY <1>1 DEF Answer
<1>3. r \in Request /\ r.of = 0 /\ r.todo = <<>> /\ ~r.busy
  BY <1>1, EmptySeq DEF Idle, Request
<1>4. (\A J : ~Some(r.todo, J)) /\ \A J : All(r.todo, J)
  BY <1>3 DEF Some, All
<1>5. Fine(r, W, messages, events)
  BY <1>1, <1>3, <1>4 DEF Fine, Kept
<1>6. W \in SUBSET Ways /\ accepted' \in Nat /\ accepted <= accepted'
  BY <1>1, <1>2 DEF IInv, Types
<1> QED BY <1>2, <1>3, <1>4, <1>5, <1>6, RequestKeeps

-----------------------------------------------------------------------------
(* Every step keeps the invariant.                                         *)
LEMMA NextKeeps ==
  ASSUME IInv, [Next]_vars
  PROVE  IInv'
<1>1. CASE UNCHANGED vars
  <2>1. UNCHANGED config /\ UNCHANGED <<messages, events, accepted, changes, standing, req>>
    BY <1>1 DEF vars, config
  <2>2. Ways' = Ways
    BY <2>1, WaysKept
  <2>3. Types'
    BY <2>1, <2>2 DEF IInv, Types, config
  <2>4. Numbers'
    BY <2>1 DEF IInv, Numbers, NumbersOf, Known, config
  <2>5. Past' /\ Apart' /\ LogTellsTruth'
    BY <2>1 DEF IInv, Past, Apart, LogTellsTruth
  <2>6. \A q \in Procs : Fine(req[q], standing[q], messages, events)'
    BY <2>1 DEF IInv
  <2> QED BY <2>3, <2>4, <2>5, <2>6 DEF IInv
<1>2. ASSUME NEW p \in Procs, GoesOn(p) PROVE IInv'
  <2>1. CASE listSubscriptions(p)
    BY <2>1, listSubscriptionsKeeps
  <2>2. CASE deliverToSubscription(p)
    BY <2>2, deliverToSubscriptionKeeps
  <2>3. CASE listRules(p)
    BY <2>3, listRulesKeeps
  <2>4. CASE listTargets(p)
    BY <2>4, listTargetsKeeps
  <2>5. CASE deliverToSQS(p)
    BY <2>5, deliverToSQSKeeps
  <2>6. CASE deliverToSNS(p)
    BY <2>6, deliverToSNSKeeps
  <2>7. CASE forward(p)
    BY <2>7, forwardKeeps
  <2>8. CASE relay(p)
    BY <2>8, relayKeeps
  <2>9. CASE insertMessage(p)
    BY <2>9, insertMessageKeeps
  <2>10. CASE logEvent(p)
    BY <2>10, logEventKeeps
  <2>11. CASE insertSubscription(p)
    BY <2>11, insertSubscriptionKeeps
  <2>12. CASE deleteSubscription(p) \/ dropTopic(p)
    BY <2>12, deleteSubscriptionKeeps
  <2>13. CASE Answer(p)
    BY <2>13, AnswerKeeps
  <2>14. CASE insertTarget(p)
    BY <2>14, insertTargetKeeps
  <2> QED BY <1>2, <2>1, <2>2, <2>3, <2>4, <2>5, <2>6, <2>7, <2>8, <2>9,
             <2>10, <2>11, <2>12, <2>13, <2>14 DEF GoesOn
<1>3. ASSUME NEW p \in Procs, NEW t \in Topics, publish(p, t) PROVE IInv'
  BY <1>3, publishKeeps
<1>4. ASSUME NEW p \in Procs, putEvents(p) PROVE IInv'
  BY <1>4, putEventsKeeps
<1>5. ASSUME NEW p \in Procs, Changes(p) PROVE IInv'
  BY <1>5, ChangesKeep
<1> QED BY <1>1, <1>2, <1>3, <1>4, <1>5 DEF Next

-----------------------------------------------------------------------------
(* The first state.                                                        *)

(* What is numbered.                                                       *)
LEMMA Numbering ==
  ASSUME NEW P, IsFiniteSet(P), NEW s, s = SetToSeq(P), NEW n, n = Cardinality(P)
  PROVE  /\ n \in Nat /\ s \in [1..n -> P]
         /\ Numbered(P) = {<<k, s[k][1], s[k][2]>> : k \in 1..n}
         /\ IsFiniteSet(Numbered(P))
<1>1. n \in Nat /\ s \in [1..n -> P]
  BY Enumerated
<1>2. Numbered(P) = {<<k, s[k][1], s[k][2]>> : k \in 1..n}
  BY <1>1 DEF Numbered
<1>3. PICK f : f = [k \in 1..n |-> <<k, s[k][1], s[k][2]>>]
  OBVIOUS
<1>4. f \in Surjection(1..n, Numbered(P))
  BY <1>2, <1>3 DEF Surjection
<1>5. IsFiniteSet(1..n)
  BY <1>1, FS_Interval
<1>6. IsFiniteSet(Numbered(P))
  BY <1>4, <1>5, FS_Surjection
<1> QED BY <1>1, <1>2, <1>6

(* The subscriptions there are at first.                                    *)
LEMMA SubsAre ==
  ASSUME NEW P, IsFiniteSet(P), P \subseteq Topics \X (Queues \cup {Other}),
         NEW S, S = Subs(Numbered(P))
  PROVE  /\ S \subseteq Subscription /\ IsFiniteSet(S)
         /\ \A x \in S : x.n <= Cardinality(P)
         /\ \A x, y \in S : x.n = y.n => x = y
<1>1. PICK s, n : s = SetToSeq(P) /\ n = Cardinality(P)
  OBVIOUS
<1>2. /\ n \in Nat /\ s \in [1..n -> P]
      /\ Numbered(P) = {<<k, s[k][1], s[k][2]>> : k \in 1..n}
      /\ IsFiniteSet(Numbered(P))
  BY <1>1, Numbering
<1>3. \A k \in 1..n : s[k][1] \in Topics /\ s[k][2] \in Queues \cup {Other}
  BY <1>2
<1>4. \A x \in S : \E k \in 1..n :
        x = [n |-> k, topic |-> s[k][1], to |-> s[k][2]]
  BY <1>2 DEF Subs
<1>5. S \subseteq Subscription
  BY <1>2, <1>3, <1>4 DEF Subscription
<1>6. \A x \in S : \E k \in 1..n : /\ x.n = k
                                   /\ x = [n |-> k, topic |-> s[k][1], to |-> s[k][2]]
  BY <1>4
<1>7. \A x \in S : x.n <= n
  BY <1>2, <1>6
<1>8. \A x, y \in S : x.n = y.n => x = y
  BY <1>6
<1>9. IsFiniteSet(S)
  <2>1. PICK f : f = [x \in Numbered(P) |-> [n |-> x[1], topic |-> x[2], to |-> x[3]]]
    OBVIOUS
  <2>2. f \in Surjection(Numbered(P), S)
    BY <2>1 DEF Surjection, Subs
  <2> QED BY <1>2, <2>2, FS_Surjection
<1> QED BY <1>1, <1>5, <1>7, <1>8, <1>9

(* And the targets.                                                         *)
LEMMA TargetsAre ==
  ASSUME NEW P, IsFiniteSet(P), P \subseteq Rules \X (Queues \cup Topics \cup {Other}),
         NEW S, S = Targets(Numbered(P))
  PROVE  /\ S \subseteq Target /\ IsFiniteSet(S)
         /\ \A x \in S : x.n <= Cardinality(P)
         /\ \A x, y \in S : x.n = y.n => x = y
<1>1. PICK s, n : s = SetToSeq(P) /\ n = Cardinality(P)
  OBVIOUS
<1>2. /\ n \in Nat /\ s \in [1..n -> P]
      /\ Numbered(P) = {<<k, s[k][1], s[k][2]>> : k \in 1..n}
      /\ IsFiniteSet(Numbered(P))
  BY <1>1, Numbering
<1>3. \A k \in 1..n : s[k][1] \in Rules /\ s[k][2] \in Queues \cup Topics \cup {Other}
  BY <1>2
<1>4. \A x \in S : \E k \in 1..n :
        x = [n |-> k, rule |-> s[k][1], to |-> s[k][2]]
  BY <1>2 DEF Targets
<1>5. S \subseteq Target
  BY <1>2, <1>3, <1>4 DEF Target
<1>6. \A x \in S : \E k \in 1..n : /\ x.n = k
                                   /\ x = [n |-> k, rule |-> s[k][1], to |-> s[k][2]]
  BY <1>4
<1>7. \A x \in S : x.n <= n
  BY <1>2, <1>6
<1>8. \A x, y \in S : x.n = y.n => x = y
  BY <1>6
<1>9. IsFiniteSet(S)
  <2>1. PICK f : f = [x \in Numbered(P) |-> [n |-> x[1], rule |-> x[2], to |-> x[3]]]
    OBVIOUS
  <2>2. f \in Surjection(Numbered(P), S)
    BY <2>1 DEF Surjection, Targets
  <2> QED BY <1>2, <2>2, FS_Surjection
<1> QED BY <1>1, <1>5, <1>8, <1>9, <1>7

(* The first state has no request, no message and no log.                   *)
LEMMA InitHolds == Init => IInv
<1> SUFFICES ASSUME Init PROVE IInv
  OBVIOUS
<1>1. /\ subs \subseteq Subscription /\ IsFiniteSet(subs)
      /\ \A x \in subs : x.n <= Cardinality(Subscribed)
      /\ \A x, y \in subs : x.n = y.n => x = y
  BY FanoutAssumption, SubsAre DEF Init
<1>2. /\ targets \subseteq Target /\ IsFiniteSet(targets)
      /\ \A x \in targets : x.n <= Cardinality(Targeted)
      /\ \A x, y \in targets : x.n = y.n => x = y
  BY FanoutAssumption, TargetsAre DEF Init
<1>3. Idle \in Request /\ Idle.of = 0 /\ Idle.todo = <<>> /\ ~Idle.busy
  BY EmptySeq DEF Idle, Request
<1>4. \A p \in Procs : req[p] = Idle /\ standing[p] = {}
  BY DEF Init
<1>5. (\A J : ~Some(<<>>, J)) /\ \A J : All(<<>>, J)
  BY DEF Some, All
<1>6. Types
  BY <1>1, <1>2, <1>3 DEF Init, Types
<1>7. /\ \A x \in Subscription : Known(x) => x \in subs
      /\ \A x \in Target : Known(x) => x \in targets
  <2>1. \A x : Known(x) => x \in subs \cup targets
    BY <1>3, <1>4, <1>5 DEF Known
  <2> QED BY <1>1, <1>2, <2>1, KindsApart
<1>8. Numbers
  <2>1. PICK s, t \in Nat : s = Cardinality(Subscribed) /\ t = Cardinality(Targeted)
    BY FanoutAssumption, FS_CardinalityType
  <2>2. AtFirst + changes = s + t
    BY <2>1 DEF Init, AtFirst
  <2>3. \A x \in Subscription \cup Target : x.n \in Nat
    BY DEF Subscription, Target
  <2>4. /\ \A x \in Subscription : Known(x) => x.n <= s + t
        /\ \A x \in Target : Known(x) => x.n <= s + t
    BY <1>1, <1>2, <1>7, <2>1, <2>3
  <2> QED BY <1>1, <1>2, <1>7, <2>2, <2>4 DEF Numbers, NumbersOf
<1>9. Past /\ Apart /\ LogTellsTruth
  BY <1>3, <1>4 DEF Init, Past, Apart, LogTellsTruth
<1>10. \A p \in Procs : Fine(req[p], standing[p], messages, events)
  BY <1>3, <1>4, <1>5 DEF Fine, Kept
<1> QED BY <1>6, <1>8, <1>9, <1>10 DEF IInv

-----------------------------------------------------------------------------
(* The theorems.                                                           *)

(* Every way that stands has its message, and no other, when nothing is    *)
(* left to do.                                                             *)
LEMMA InvariantServes == IInv => StandingIsServed
<1> SUFFICES ASSUME IInv, NEW p \in Procs, req[p].of # 0, req[p].todo = <<>>,
                    NEW w \in standing[p]
             PROVE  Cardinality(Sent(req[p].of, w)) = 1
  BY DEF StandingIsServed
<1>1. Served(req[p], standing[p], messages)
  BY AtRequest DEF Fine
<1>2. ~Some(req[p].todo, Leads(w))
  BY DEF Some
<1>3. \E m \in messages : By(messages, req[p].of, w) = {m}
  BY <1>1, <1>2 DEF Served
<1>4. By(messages, req[p].of, w) = Sent(req[p].of, w)
  BY DEF By, Sent
<1> QED BY <1>3, <1>4, FS_Singleton

(* The invariant holds.                                                    *)
THEOREM FanoutInvariant == Spec => []IInv
<1>1. Init => IInv
  BY InitHolds
<1>2. IInv /\ [Next]_vars => IInv'
  BY NextKeeps
<1> QED BY <1>1, <1>2, PTL DEF Spec

(* When a publication or an event is answered, every way to a queue that   *)
(* stood from its beginning has put one message there, no more and no      *)
(* less, whatever subscriptions, topics, rules, targets and queues came    *)
(* and went meanwhile.                                                     *)
THEOREM EveryWayIsServed == Spec => []StandingIsServed
<1>1. IInv => StandingIsServed
  BY InvariantServes
<1> QED BY <1>1, FanoutInvariant, PTL

(* EventBridge's log says DELIVERED of exactly the targets for which some  *)
(* queue has got the event.                                                *)
THEOREM LogIsTrue == Spec => []LogTellsTruth
<1>1. IInv => LogTellsTruth
  BY DEF IInv
<1> QED BY <1>1, FanoutInvariant, PTL

=============================================================================
