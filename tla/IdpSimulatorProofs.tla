-------------------------- MODULE IdpSimulatorProofs --------------------------
(***************************************************************************)
(* What is proved of the simulated identity provider: the orders to its timer *)
(* and, between two orders, the row that tells of it.                          *)
(***************************************************************************)
EXTENDS IdpSimulator, SequenceTheorems, TLAPS

----------------------------------------------------------------------------
(* The plans a call can have *)

wipe == Op("wipe", None, None)
pick == Op("pick", None, None)
tock == Order("tick")
clear == Op("clear", None, None)
halt == Order("halt")
run == Order("run")
arm == Op("arm", None, None)

Naming == [do : {"create", "insert", "ensure", "rename"}, on : Res, with : Names]
Switch == [do : {"change"}, on : Users, with : BOOLEAN]
Edge == [do : {"join", "part"}, on : Groups, with : Users]
Removal == [do : {"remove"}, on : Res, with : {None}]
EnsureUser == [do : {"ensure"}, on : Users, with : Names]
EnsureGroup == [do : {"ensure"}, on : Groups, with : Names]
Join == [do : {"join"}, on : Groups, with : Users]

IsOp(op) == op \in Naming \/ op \in Switch \/ op \in Edge \/ op \in Removal

ActPlan(p) == \E op : p = <<op>> /\ (IsOp(op) \/ op = wipe)
SeedPlan(p) == \E u \in EnsureUser, g \in EnsureGroup, j \in Join :
    p = <<u, g, j>> \/ p = <<g, j>> \/ p = <<j>>
TickPlan(p) == p = <<tock>>
    \/ \E op : p = <<op, tock>> /\ ((IsOp(op) /\ op.do # "ensure") \/ op = pick)
ClearPlan(p) == p = <<clear, halt, run, arm>> \/ p = <<clear, halt>> \/ p = <<clear, halt, wipe>>
OrderPlan(p) ==
    \/ ClearPlan(p)
    \/ p = <<halt, run, arm>> \/ p = <<run, arm>> \/ p = <<arm>>
    \/ p = <<halt>> \/ p = <<halt, wipe>>
Shaped(p) == p = <<>> \/ ActPlan(p) \/ SeedPlan(p) \/ TickPlan(p) \/ OrderPlan(p)

Thrown(p) == IF p[Len(p)] = tock THEN <<tock>> ELSE <<>>

Orderly == {clear, halt, run, arm}

LEMMA Joined ==
    ASSUME NEW a, NEW b, NEW c, NEW d
    PROVE  /\ <<a>> \o <<b>> = <<a, b>>
           /\ <<a, b>> \o <<c>> = <<a, b, c>>
<1> DEFINE A == {a, b, c, d}
<1>1. <<a, b>> \in Seq(A) /\ <<c>> \in Seq(A) /\ <<c, d>> \in Seq(A)
    OBVIOUS
<1>2. <<a, b, c>> \in Seq(A) /\ <<a, b, c, d>> \in Seq(A)
    OBVIOUS
<1>3. <<a, b>> \o <<c>> = <<a, b, c>>
    <2> DEFINE s == <<a, b>> \o <<c>>
    <2>1. s \in Seq(A) /\ Len(s) = 3 /\ \A i \in 1 .. 3 : s[i] = IF i <= 2 THEN <<a, b>>[i] ELSE <<c>>[i - 2]
        BY <1>1, ConcatProperties
    <2>2. s[1] = a /\ s[2] = b /\ s[3] = c
        BY <2>1
    <2>3. \A i \in 1 .. Len(s) : s[i] = <<a, b, c>>[i]
        BY <2>1, <2>2
    <2> HIDE DEF s
    <2> QED
        BY <2>1, <2>3, <1>2, SeqEqual DEF s
<1>5. <<a>> \o <<b>> = <<a, b>>
    <2> DEFINE s == <<a>> \o <<b>>
    <2>1. <<a>> \in Seq(A) /\ <<b>> \in Seq(A)
        OBVIOUS
    <2>2. s \in Seq(A) /\ Len(s) = 2 /\ \A i \in 1 .. 2 : s[i] = IF i <= 1 THEN <<a>>[i] ELSE <<b>>[i - 1]
        BY <2>1, ConcatProperties
    <2>3. s[1] = a /\ s[2] = b
        BY <2>2
    <2>4. \A i \in 1 .. Len(s) : s[i] = <<a, b>>[i]
        BY <2>2, <2>3
    <2> HIDE DEF s
    <2> QED
        BY <2>2, <2>4, <1>1, SeqEqual DEF s
<1> QED
    BY <1>3, <1>5

LEMMA FourJoined ==
    ASSUME NEW a, NEW b, NEW c, NEW d
    PROVE  <<a, b>> \o <<c, d>> = <<a, b, c, d>>
<1> DEFINE A == {a, b, c, d}
<1>1. <<a, b>> \in Seq(A) /\ <<c, d>> \in Seq(A) /\ <<a, b, c, d>> \in Seq(A)
    OBVIOUS
<1>2. <<a, b>> \o <<c, d>> = <<a, b, c, d>>
    <2> DEFINE s == <<a, b>> \o <<c, d>>
    <2>1. s \in Seq(A) /\ Len(s) = 4 /\ \A i \in 1 .. 4 : s[i] = IF i <= 2 THEN <<a, b>>[i] ELSE <<c, d>>[i - 2]
        BY <1>1, ConcatProperties
    <2>2. s[1] = a /\ s[2] = b /\ s[3] = c /\ s[4] = d
        BY <2>1
    <2>3. \A i \in 1 .. Len(s) : s[i] = <<a, b, c, d>>[i]
        BY <2>1, <2>2
    <2> HIDE DEF s
    <2> QED
        BY <2>1, <2>3, <1>1, SeqEqual DEF s
<1> QED
    BY <1>2

\* The tail of a plan that is written out.
LEMMA Tails ==
    ASSUME NEW a, NEW b, NEW c, NEW d
    PROVE  /\ Tail(<<a>>) = <<>> /\ Tail(<<a, b>>) = <<b>>
           /\ Tail(<<a, b, c>>) = <<b, c>> /\ Tail(<<a, b, c, d>>) = <<b, c, d>>
<1> DEFINE A == {a, b, c, d}
<1>1. <<a>> \in Seq(A) /\ <<a, b>> \in Seq(A) /\ <<a, b, c>> \in Seq(A) /\ <<a, b, c, d>> \in Seq(A)
    OBVIOUS
<1>2. <<b>> \in Seq(A) /\ <<b, c>> \in Seq(A) /\ <<b, c, d>> \in Seq(A) /\ <<>> \in Seq(A)
    OBVIOUS
<1>3. Tail(<<a>>) = <<>>
    BY <1>1, <1>2, HeadTailProperties, SeqEqual
<1>4. Tail(<<a, b>>) = <<b>>
    BY <1>1, <1>2, HeadTailProperties, SeqEqual
<1>5. Tail(<<a, b, c>>) = <<b, c>>
    BY <1>1, <1>2, HeadTailProperties, SeqEqual
<1>6. Tail(<<a, b, c, d>>) = <<b, c, d>>
    BY <1>1, <1>2, HeadTailProperties, SeqEqual
<1> QED
    BY <1>3, <1>4, <1>5, <1>6

LEMMA OrdersAre == Orders = Orderly /\ stop = <<clear, halt>>
    /\ start = <<clear, halt, run, arm>> /\ reset = <<clear, halt, wipe>>
<1>1. stop = <<clear, halt>> /\ start = stop \o <<run, arm>> /\ reset = stop \o <<wipe>>
    BY DEF stop, start, reset, clear, halt, run, arm, wipe
<1>2. Orders = Orderly
    BY DEF Orders, Orderly, clear, halt, run, arm
<1>3. <<clear, halt>> \o <<run, arm>> = <<clear, halt, run, arm>>
    BY FourJoined
<1>4. <<clear, halt>> \o <<wipe>> = <<clear, halt, wipe>>
    BY Joined
<1> QED
    BY <1>1, <1>2, <1>3, <1>4

\* What the words of a plan are.
LEMMA Words ==
    ASSUME NEW op, IsOp(op)
    PROVE  /\ op.do \in {"create", "insert", "ensure", "rename", "change", "join", "part", "remove"}
           /\ op.on \in Res
           /\ op.do \in {"create", "insert", "ensure", "rename"} => op.with \in Names
           /\ op.do = "change" => op.with \in BOOLEAN
           /\ op.do \in {"join", "part"} => op.on \in Groups /\ op.with \in Users
           /\ op \notin Orderly /\ op \notin {tock, wipe, pick}
BY DEF IsOp, Naming, Switch, Edge, Removal, Res, Orderly, clear, halt, run, arm, tock, wipe, pick, Op, Order

\* Orders, ticks, and operations are never in one plan.
LEMMA PlanPending ==
    ASSUME NEW p, Shaped(p)
    PROVE  /\ (\E i \in DOMAIN p : p[i] \in Orders) <=> OrderPlan(p)
           /\ (\E i \in DOMAIN p : p[i] \in {clear}) <=> ClearPlan(p)
           /\ (\E i \in DOMAIN p : p[i] = tock) <=> TickPlan(p)
<1>1. CASE p = <<>>
    BY <1>1 DEF OrderPlan, ClearPlan, TickPlan
<1>2. CASE ActPlan(p)
    <2>1. PICK op : p = <<op>> /\ (IsOp(op) \/ op = wipe)
        BY <1>2 DEF ActPlan
    <2>2. op \notin Orderly /\ op # tock
        BY <2>1, Words DEF Orderly, clear, halt, run, arm, tock, wipe, Op, Order
    <2> QED
        BY <2>1, <2>2, OrdersAre DEF OrderPlan, ClearPlan, TickPlan, Orderly
<1>3. CASE SeedPlan(p)
    <2>1. PICK u \in EnsureUser, g \in EnsureGroup, j \in Join :
              p = <<u, g, j>> \/ p = <<g, j>> \/ p = <<j>>
        BY <1>3 DEF SeedPlan
    <2>2. \A op \in {u, g, j} : op \notin Orderly /\ op # tock
        BY DEF Orderly, clear, halt, run, arm, tock, Op, Order, EnsureUser, EnsureGroup, Join
    <2>3. \A i \in DOMAIN p : p[i] \in {u, g, j}
        BY <2>1
    <2>4. ~OrderPlan(p) /\ ~ClearPlan(p) /\ ~TickPlan(p)
        BY <2>1, <2>2 DEF OrderPlan, ClearPlan, TickPlan, Orderly
    <2> QED
        BY <2>2, <2>3, <2>4, OrdersAre DEF Orderly
<1>4. CASE TickPlan(p)
    <2>1. tock \notin Orderly /\ pick \notin Orderly
        BY DEF Orderly, clear, halt, run, arm, tock, pick, Op, Order
    <2>2. \A op : IsOp(op) => op \notin Orderly
        BY Words
    <2>3. \A i \in DOMAIN p : p[i] \notin Orderly
        BY <1>4, <2>1, <2>2 DEF TickPlan
    <2>4. \E i \in DOMAIN p : p[i] = tock
        BY <1>4 DEF TickPlan
    <2>5. ~OrderPlan(p) /\ ~ClearPlan(p)
        BY <1>4, <2>1, <2>2 DEF TickPlan, OrderPlan, ClearPlan, Orderly
    <2> QED
        BY <1>4, <2>3, <2>4, <2>5, OrdersAre DEF Orderly
<1>5. CASE OrderPlan(p)
    <2>1. tock \notin Orderly /\ tock # wipe /\ wipe # clear /\ clear \notin {halt, run, arm}
        BY DEF Orderly, clear, halt, run, arm, tock, wipe, Op, Order
    <2>2. \A i \in DOMAIN p : p[i] # tock
        BY <1>5, <2>1 DEF OrderPlan, ClearPlan, Orderly
    <2>3. \E i \in DOMAIN p : p[i] \in Orderly
        BY <1>5 DEF OrderPlan, ClearPlan, Orderly
    <2>4. (\E i \in DOMAIN p : p[i] \in {clear}) <=> ClearPlan(p)
        BY <1>5, <2>1 DEF OrderPlan, ClearPlan
    <2>5. ~TickPlan(p)
        BY <2>2 DEF TickPlan
    <2> QED
        BY <1>5, <2>2, <2>3, <2>4, <2>5, OrdersAre
<1> QED
    BY <1>1, <1>2, <1>3, <1>4, <1>5 DEF Shaped

\* A seed gives no order.
LEMMA SeedIsNoOrder ==
    ASSUME NEW p, SeedPlan(p)
    PROVE  ~OrderPlan(p) /\ ~TickPlan(p)
<1>1. PICK u \in EnsureUser, g \in EnsureGroup, j \in Join :
          p = <<u, g, j>> \/ p = <<g, j>> \/ p = <<j>>
    BY DEF SeedPlan
<1>2. \A op \in {u, g, j} : op \notin Orderly /\ op # tock
    BY DEF Orderly, clear, halt, run, arm, tock, Op, Order, EnsureUser, EnsureGroup, Join
<1>3. \A q : q = <<u, g, j>> \/ q = <<g, j>> \/ q = <<j>> => \A i \in DOMAIN q : q[i] \in {u, g, j}
    OBVIOUS
<1> QED
    BY <1>1, <1>2, <1>3, PlanPending, OrdersAre DEF Shaped

\* A function on 1 .. n is the tuple of its values.
LEMMA Tuples ==
    ASSUME NEW A, NEW q, NEW a \in A, NEW b \in A
    PROVE  /\ q \in [1 .. 1 -> A] /\ q[1] = a => q = <<a>>
           /\ q \in [1 .. 2 -> A] /\ q[1] = a /\ q[2] = b => q = <<a, b>>
<1>1. ASSUME NEW n \in Nat, q \in [1 .. n -> A]
      PROVE  q \in Seq(A) /\ Len(q) = n
    <2>1. q \in Seq(A)
        BY <1>1, SeqDef
    <2>2. DOMAIN q = 1 .. n /\ DOMAIN q = 1 .. Len(q) /\ Len(q) \in Nat
        BY <1>1, <2>1, LenProperties
    <2> QED
        BY <2>1, <2>2
<1>2. ASSUME q \in [1 .. 1 -> A], q[1] = a
      PROVE  q = <<a>>
    BY <1>1, <1>2, SeqEqual, <<a>> \in Seq(A)
<1>3. ASSUME q \in [1 .. 2 -> A], q[1] = a, q[2] = b
      PROVE  q = <<a, b>>
    BY <1>1, <1>3, SeqEqual, <<a, b>> \in Seq(A)
<1> QED
    BY <1>2, <1>3

\* A seed for one person and one team.
LEMMA SeededPlan ==
    ASSUME NEW u \in Users, NEW g \in Groups, NEW n \in Names
    PROVE  /\ seedDirectory(<<u>>, g, <<n>>) = <<Op("ensure", u, n), Op("ensure", g, n), Op("join", g, u)>>
           /\ SeedPlan(seedDirectory(<<u>>, g, <<n>>))
<1> DEFINE eu == Op("ensure", u, n)
           eg == Op("ensure", g, n)
           j == Op("join", g, u)
           us == [i \in 1 .. Len(<<u>>) |-> Op("ensure", <<u>>[i], <<n>>[i])]
           js == [i \in 1 .. Len(<<u>>) |-> Op("join", g, <<u>>[i])]
<1>1. us = <<eu>>
    <2>1. us \in [1 .. 1 -> {eu}] /\ us[1] = eu
        BY DEF Op
    <2> QED
        BY <2>1, Tuples
<1>2. js = <<j>>
    <2>1. js \in [1 .. 1 -> {j}] /\ js[1] = j
        BY DEF Op
    <2> QED
        BY <2>1, Tuples
<1>3. seedDirectory(<<u>>, g, <<n>>) = us \o <<eg>> \o js
    BY DEF seedDirectory
<1>4. eu \in EnsureUser /\ eg \in EnsureGroup /\ j \in Join
    BY DEF EnsureUser, EnsureGroup, Join, Op
<1> HIDE DEF us, js, eu, eg, j
<1>5. <<eu>> \o <<eg>> = <<eu, eg>>
    BY Joined
<1>6. <<eu, eg>> \o <<j>> = <<eu, eg, j>>
    BY Joined
<1>7. seedDirectory(<<u>>, g, <<n>>) = <<eu, eg, j>>
    BY <1>1, <1>2, <1>3, <1>5, <1>6
<1> QED
    BY <1>4, <1>7 DEF SeedPlan, eu, eg, j

\* A plan goes on as a plan of its own kind.
\* What an order, and a tick, go on with.
LEMMA OrderTail ==
    ASSUME NEW p, OrderPlan(p)
    PROVE  Tail(p) \in {<<halt, run, arm>>, <<run, arm>>, <<arm>>, <<halt>>, <<halt, wipe>>, <<wipe>>, <<>>}
<1>1. Tail(<<clear, halt, run, arm>>) = <<halt, run, arm>> /\ Tail(<<clear, halt>>) = <<halt>>
      /\ Tail(<<clear, halt, wipe>>) = <<halt, wipe>>
    BY Tails
<1>2. Tail(<<halt, run, arm>>) = <<run, arm>> /\ Tail(<<run, arm>>) = <<arm>>
      /\ Tail(<<arm>>) = <<>> /\ Tail(<<halt>>) = <<>> /\ Tail(<<halt, wipe>>) = <<wipe>>
    BY Tails
<1> QED
    BY <1>1, <1>2 DEF OrderPlan, ClearPlan

LEMMA TickTail ==
    ASSUME NEW p, TickPlan(p)
    PROVE  Tail(p) = <<>> \/ Tail(p) = <<tock>>
<1>1. CASE p = <<tock>>
    BY <1>1, Tails
<1>2. ASSUME NEW op, p = <<op, tock>>
      PROVE  Tail(p) = <<tock>>
    BY <1>2, Tails
<1> QED
    BY <1>1, <1>2 DEF TickPlan

LEMMA PlanTail ==
    ASSUME NEW p, Shaped(p), p # <<>>
    PROVE  /\ Shaped(Tail(p))
           /\ ~OrderPlan(p) => ~OrderPlan(Tail(p))
           /\ TickPlan(Tail(p)) => TickPlan(p)
<1>1. CASE ActPlan(p)
    <2>1. Tail(p) = <<>>
        BY <1>1, Tails DEF ActPlan
    <2> QED
        BY <2>1 DEF Shaped, OrderPlan, ClearPlan, TickPlan
<1>2. CASE SeedPlan(p)
    <2>1. Tail(p) = <<>> \/ SeedPlan(Tail(p))
        <3>1. PICK u \in EnsureUser, g \in EnsureGroup, j \in Join :
                  p = <<u, g, j>> \/ p = <<g, j>> \/ p = <<j>>
            BY <1>2 DEF SeedPlan
        <3>2. Tail(<<u, g, j>>) = <<g, j>> /\ Tail(<<g, j>>) = <<j>> /\ Tail(<<j>>) = <<>>
            BY Tails
        <3> QED
            BY <3>1, <3>2 DEF SeedPlan
    <2>2. ~OrderPlan(Tail(p)) /\ ~TickPlan(Tail(p))
        <3>1. CASE Tail(p) = <<>>
            BY <3>1 DEF OrderPlan, ClearPlan, TickPlan
        <3>2. CASE SeedPlan(Tail(p))
            BY <3>2, SeedIsNoOrder
        <3> QED
            BY <2>1, <3>1, <3>2
    <2> QED
        BY <2>1, <2>2 DEF Shaped
<1>3. CASE TickPlan(p)
    <2>1. Tail(p) = <<>> \/ Tail(p) = <<tock>>
        BY <1>3, TickTail
    <2>2. Tail(p) = <<>> \/ TickPlan(Tail(p))
        BY <2>1 DEF TickPlan
    <2>3. ~OrderPlan(<<tock>>) /\ ~OrderPlan(<<>>)
        BY DEF OrderPlan, ClearPlan, clear, halt, run, arm, tock, Op, Order
    <2> QED
        BY <1>3, <2>1, <2>2, <2>3 DEF Shaped
<1>4. CASE OrderPlan(p)
    <2>1. Tail(p) \in {<<halt, run, arm>>, <<run, arm>>, <<arm>>, <<halt>>, <<halt, wipe>>, <<wipe>>, <<>>}
        BY <1>4, OrderTail
    <2>2. Shaped(Tail(p))
        BY <2>1 DEF Shaped, OrderPlan, ActPlan
    <2>3. ~TickPlan(Tail(p))
        BY <2>1 DEF TickPlan, tock, halt, run, arm, wipe, Op, Order
    <2> QED
        BY <1>4, <2>2, <2>3
<1> QED
    BY <1>1, <1>2, <1>3, <1>4 DEF Shaped

\* What an exception leaves of a plan: the tick's own row, or nothing.
LEMMA PlanThrown ==
    ASSUME NEW p, Shaped(p), p # <<>>, IsOp(Head(p))
    PROVE  /\ Shaped(Thrown(p)) /\ ~OrderPlan(Thrown(p)) /\ ~OrderPlan(p)
           /\ TickPlan(Thrown(p)) => TickPlan(p)
<1>1. ~OrderPlan(p)
    <2>1. Head(p) \notin Orderly
        BY Words
    <2> QED
        BY <2>1 DEF OrderPlan, ClearPlan, Orderly
<1>2. ~OrderPlan(<<tock>>) /\ TickPlan(<<tock>>) /\ ~OrderPlan(<<>>) /\ ~TickPlan(<<>>)
    BY DEF OrderPlan, ClearPlan, TickPlan, clear, halt, run, arm, tock, Op, Order
<1>3. Len(p) \in DOMAIN p
    BY <1>1 DEF Shaped, ActPlan, SeedPlan, TickPlan
<1>4. p[Len(p)] = tock => TickPlan(p)
    BY <1>3, PlanPending
<1> QED
    BY <1>1, <1>2, <1>4 DEF Thrown, Shaped

\* What the first word of a plan tells of it.
LEMMA PlanHead ==
    ASSUME NEW p, Shaped(p), p # <<>>
    PROVE  /\ IsOp(Head(p)) \/ Head(p) \in Orderly \cup {tock, wipe, pick}
           /\ Head(p) \in Orderly => OrderPlan(p)
           /\ Head(p) = pick => \E op : p = <<pick, tock>>
           /\ Head(p) = tock => p = <<tock>>
           /\ Head(p) = wipe => p = <<wipe>>
           /\ OrderPlan(p) => Head(p) \in Orderly
<1>1. CASE ActPlan(p)
    <2>1. PICK op : p = <<op>> /\ (IsOp(op) \/ op = wipe)
        BY <1>1 DEF ActPlan
    <2>2. op \notin Orderly /\ op \notin {tock, pick}
        BY <2>1, Words DEF Orderly, clear, halt, run, arm, tock, pick, wipe, Op, Order
    <2> QED
        BY <2>1, <2>2 DEF OrderPlan, ClearPlan, Orderly
<1>2. CASE SeedPlan(p)
    <2>1. PICK u \in EnsureUser, g \in EnsureGroup, j \in Join :
              p = <<u, g, j>> \/ p = <<g, j>> \/ p = <<j>>
        BY <1>2 DEF SeedPlan
    <2>2. IsOp(u) /\ IsOp(g) /\ IsOp(j)
        BY DEF IsOp, EnsureUser, EnsureGroup, Join, Naming, Edge, Res
    <2>3. IsOp(Head(p))
        BY <2>1, <2>2
    <2> QED
        BY <2>3, Words DEF OrderPlan, ClearPlan, Orderly
<1>3. CASE TickPlan(p)
    <2>1. pick \notin Orderly \cup {tock, wipe} /\ tock \notin Orderly \cup {pick, wipe}
        BY DEF Orderly, clear, halt, run, arm, tock, pick, wipe, Op, Order
    <2>2. CASE p = <<tock>>
        BY <2>1, <2>2 DEF OrderPlan, ClearPlan, Orderly
    <2>3. CASE \E op : p = <<op, tock>> /\ ((IsOp(op) /\ op.do # "ensure") \/ op = pick)
        <3>1. PICK op : p = <<op, tock>> /\ (IsOp(op) \/ op = pick)
            BY <2>3
        <3>2. IsOp(op) => op \notin Orderly /\ op \notin {tock, wipe, pick}
            BY Words
        <3> QED
            BY <2>1, <3>1, <3>2 DEF OrderPlan, ClearPlan, Orderly
    <2> QED
        BY <1>3, <2>2, <2>3 DEF TickPlan
<1>4. CASE OrderPlan(p)
    <2>1. Head(p) \in Orderly
        BY <1>4 DEF OrderPlan, ClearPlan, Orderly
    <2>2. tock \notin Orderly /\ wipe \notin Orderly /\ pick \notin Orderly
        BY DEF Orderly, clear, halt, run, arm, tock, pick, wipe, Op, Order
    <2> QED
        BY <1>4, <2>1, <2>2
<1> QED
    BY <1>1, <1>2, <1>3, <1>4 DEF Shaped

\* A word that names an operation on the directory is one.
LEMMA HeadIsOp ==
    ASSUME NEW p, Shaped(p), p # <<>>,
           Head(p).do \notin {"clear", "auto", "arm", "wipe", "pick"}
    PROVE  IsOp(Head(p))
BY PlanHead DEF Orderly, clear, halt, run, arm, tock, wipe, pick, Op, Order

\* Only a seed, or a call of one word, starts by looking for what is there.
LEMMA EnsureHeads ==
    ASSUME NEW p, Shaped(p), p # <<>>, Head(p).do = "ensure"
    PROVE  ActPlan(p) \/ \E u \in EnsureUser, g \in EnsureGroup, j \in Join : p = <<u, g, j>> \/ p = <<g, j>>
<1>1. Head(p) \notin Orderly \cup {tock, pick, wipe}
    BY DEF Orderly, clear, halt, run, arm, tock, pick, wipe, Op, Order
<1>2. ~OrderPlan(p)
    BY <1>1, PlanHead
<1>3. ~TickPlan(p)
    BY <1>1 DEF TickPlan
<1>4. \A j \in Join : p # <<j>>
    BY DEF Join
<1> QED
    BY <1>2, <1>3, <1>4 DEF Shaped, SeedPlan

\* A seed that finds its person or team goes on with the one it found.
LEMMA EnsuredPlan ==
    ASSUME NEW p, Shaped(p), p # <<>>, Head(p).do = "ensure", NEW s \in Kind(Head(p).on),
           NEW A, NEW q \in [1 .. Len(p) - 1 -> A],
           \A i \in 1 .. Len(p) - 1 : q[i] = Instead(p[i + 1], Head(p).on, s)
    PROVE  q = <<>> \/ SeedPlan(q)
<1>1. CASE ActPlan(p)
    <2>1. q \in [1 .. 0 -> A]
        BY <1>1 DEF ActPlan
    <2> QED
        BY <2>1
<1>2. ASSUME NEW u \in EnsureUser, NEW g \in EnsureGroup, NEW j \in Join, p = <<u, g, j>>
      PROVE  SeedPlan(q)
    <2>1. PICK r : r = u.on /\ r = Head(p).on
        BY <1>2
    <2>2. r \in Users /\ s \in Users
        BY <2>1 DEF EnsureUser, Kind
    <2>3. Instead(g, r, s) = g
        BY <2>2, NameAssumption DEF EnsureGroup, Res, Instead
    <2>4. Instead(j, r, s) \in Join
        BY <2>2, NameAssumption DEF Join, Res, Instead
    <2>5. q \in [1 .. 2 -> A] /\ q[1] = g /\ q[2] = Instead(j, r, s)
        BY <1>2, <2>1, <2>3
    <2>6. \A i \in 1 .. 2 : q[i] \in A
        BY <2>5
    <2>7. q = <<g, Instead(j, r, s)>>
        BY <2>5, <2>6, Tuples, 1 \in 1 .. 2, 2 \in 1 .. 2
    <2> QED
        BY <2>4, <2>7 DEF SeedPlan
<1>3. ASSUME NEW u \in EnsureUser, NEW g \in EnsureGroup, NEW j \in Join, p = <<g, j>>
      PROVE  SeedPlan(q)
    <2>1. PICK r : r = g.on /\ r = Head(p).on
        BY <1>3
    <2>2. r \in Groups /\ s \in Groups
        BY <2>1, NameAssumption DEF EnsureGroup, Kind, Res
    <2>3. Instead(j, r, s) \in Join
        BY <2>2, NameAssumption DEF Join, Res, Instead
    <2>4. q \in [1 .. 1 -> A] /\ q[1] = Instead(j, r, s)
        BY <1>3, <2>1
    <2>5. q = <<Instead(j, r, s)>>
        BY <2>4, Tuples, q[1] \in A
    <2> QED
        BY <2>3, <2>5 DEF SeedPlan
<1> QED
    BY <1>1, <1>2, <1>3, EnsureHeads

----------------------------------------------------------------------------
(* The calls: what each has left to do, and how far it is *)

AutoRow == [running : BOOLEAN, ticks : Nat]

Phase(c) ==
    /\ Idle(c) => at[c] = "look"
    /\ at[c] \in {"insert", "send", "failed"} => IsOp(Doing(c))
    /\ at[c] = "insert" => Creates(Doing(c))
    /\ at[c] = "save" => IsOp(Doing(c)) \/ (Doing(c).do = "auto" /\ seen[c] \in AutoRow)

CallType ==
    /\ plan = [c \in Caller |-> plan[c]] /\ DOMAIN at = Caller /\ DOMAIN seen = Caller
    /\ at \in [Caller -> {"look", "insert", "send", "save", "failed"}]
    /\ \A c \in Caller : Shaped(plan[c]) /\ Phase(c)
    /\ timer \in BOOLEAN /\ leaked \in Nat /\ auto \in AutoRow
    /\ wanted \in BOOLEAN /\ tangled \in BOOLEAN /\ used \subseteq Res

DataStep(c) == Pick(c) \/ Look(c) \/ Ensure(c) \/ Insert(c) \/ Send(c) \/ Break(c) \/ Save(c) \/ SaveRefused(c)

\* What an operation on the directory does to its call: the plan goes on as one
\* of its kind, and timer, row and orders are left alone.
DataEffect(c) ==
    /\ plan' = [plan EXCEPT ![c] = plan'[c]] /\ at' = [at EXCEPT ![c] = at'[c]]
    /\ Shaped(plan'[c]) /\ ~OrderPlan(plan[c]) /\ ~OrderPlan(plan'[c])
    /\ TickPlan(plan'[c]) => TickPlan(plan[c])
    /\ at'[c] \in {"look", "insert", "send", "save", "failed"}
    /\ plan'[c] = <<>> => at'[c] = "look"
    /\ at'[c] # "look" => IsOp(Head(plan'[c]))
    /\ at'[c] = "insert" => Creates(Head(plan'[c]))
    /\ used \subseteq used' /\ used' \subseteq used \cup Res
    /\ UNCHANGED <<clock, seen, wanted, tangled>>

\* Going on to the next word, and being thrown out.
LEMMA Advances ==
    ASSUME CallType, NEW c \in Caller, ~Idle(c), IsOp(Doing(c)),
           Advance(c) \/ Throw(c), UNCHANGED <<clock, seen, used, wanted, tangled>>
    PROVE  DataEffect(c)
<1>1. ~OrderPlan(plan[c])
    BY PlanThrown DEF CallType, Idle, Doing
<1>2. CASE Advance(c)
    <2>1. plan' = [plan EXCEPT ![c] = Tail(plan[c])] /\ at' = [at EXCEPT ![c] = "look"]
        BY <1>2 DEF Advance
    <2>2. plan'[c] = Tail(plan[c]) /\ at'[c] = "look"
        BY <2>1 DEF CallType
    <2>3. Shaped(Tail(plan[c])) /\ ~OrderPlan(Tail(plan[c])) /\ (TickPlan(Tail(plan[c])) => TickPlan(plan[c]))
        BY <1>1, PlanTail DEF CallType, Idle
    <2> QED
        BY <1>1, <2>1, <2>2, <2>3 DEF DataEffect
<1>3. CASE Throw(c)
    <2>1. plan' = [plan EXCEPT ![c] = Thrown(plan[c])] /\ at' = [at EXCEPT ![c] = "look"]
        BY <1>3 DEF Throw, Thrown, tock
    <2>2. plan'[c] = Thrown(plan[c]) /\ at'[c] = "look"
        BY <2>1 DEF CallType
    <2>3. Shaped(Thrown(plan[c])) /\ ~OrderPlan(Thrown(plan[c])) /\ (TickPlan(Thrown(plan[c])) => TickPlan(plan[c]))
        BY PlanThrown DEF CallType, Idle, Doing
    <2> QED
        BY <1>1, <2>1, <2>2, <2>3 DEF DataEffect
<1> QED
    BY <1>2, <1>3

\* Going on to the next step of the same word.
LEMMA GoesTo ==
    ASSUME CallType, NEW c \in Caller, ~Idle(c), IsOp(Doing(c)),
           NEW step \in {"insert", "send", "save", "failed"}, step = "insert" => Creates(Doing(c)),
           GoTo(c, step), UNCHANGED <<clock, seen, used, wanted, tangled>>
    PROVE  DataEffect(c)
<1>1. ~OrderPlan(plan[c])
    BY PlanThrown DEF CallType, Idle, Doing
<1>2. at' = [at EXCEPT ![c] = step] /\ at'[c] = step /\ plan' = plan
    BY DEF GoTo, CallType
<1> QED
    BY <1>1, <1>2 DEF DataEffect, CallType, Doing, Idle

\* Whatever a tick rolls is an operation, on a resource of its kind.
LEMMA PickIsOp ==
    ASSUME NEW c \in Caller, Pick(c)
    PROVE  \E op : Picked(c, op) /\ IsOp(op) /\ op.do # "ensure" /\ (Creates(op) => op.on \notin used)
<1>1. \/ \E r \in Res \ used, n \in Names : Picked(c, Op("insert", r, n))
      \/ \E u \in Users, v \in BOOLEAN : Picked(c, Op("change", u, v))
      \/ \E g \in Groups, u \in Users, do \in {"part", "join"} : Picked(c, Op(do, g, u))
      \/ \E u \in Users : Picked(c, Op("remove", u, None))
    BY DEF Pick, Local, Res
<1>2. ASSUME NEW r \in Res \ used, NEW n \in Names
      PROVE  IsOp(Op("insert", r, n)) /\ Op("insert", r, n).do # "ensure" /\ (Creates(Op("insert", r, n)) => Op("insert", r, n).on \notin used)
    BY DEF IsOp, Op, Creates, Naming
<1>3. ASSUME NEW u \in Users, NEW v \in BOOLEAN
      PROVE  IsOp(Op("change", u, v)) /\ Op("change", u, v).do # "ensure" /\ (Creates(Op("change", u, v)) => Op("change", u, v).on \notin used)
    BY DEF IsOp, Op, Creates, Switch
<1>4. ASSUME NEW g \in Groups, NEW u \in Users, NEW do \in {"part", "join"}
      PROVE  IsOp(Op(do, g, u)) /\ Op(do, g, u).do # "ensure" /\ (Creates(Op(do, g, u)) => Op(do, g, u).on \notin used)
    BY DEF IsOp, Op, Creates, Edge
<1>5. ASSUME NEW u \in Users
      PROVE  IsOp(Op("remove", u, None)) /\ Op("remove", u, None).do # "ensure" /\ (Creates(Op("remove", u, None)) => Op("remove", u, None).on \notin used)
    BY DEF IsOp, Op, Creates, Removal, Res
<1> QED
    BY <1>1, <1>2, <1>3, <1>4, <1>5

\* A tick that has picked its operation carries it out next.
LEMMA PickStep ==
    ASSUME CallType, NEW c \in Caller, Pick(c)
    PROVE  DataEffect(c)
<1>1. PICK op : /\ Is(c, {"pick"}, "look")
                /\ plan' = [plan EXCEPT ![c] = <<op>> \o Tail(@)]
                /\ IsOp(op) /\ op.do # "ensure"
                /\ used \subseteq used' /\ used' \subseteq used \cup Res
                /\ UNCHANGED <<clock, at, seen, wanted, tangled>>
    BY PickIsOp DEF Picked, history, Touches
<1>2. plan[c] = <<pick, tock>>
    <2>1. ~Idle(c) /\ Doing(c).do = "pick" /\ Shaped(plan[c])
        BY <1>1 DEF Is, CallType
    <2>2. Head(plan[c]) \notin Orderly \cup {tock, wipe}
        BY <2>1 DEF Doing, Orderly, clear, halt, run, arm, tock, wipe, Op, Order
    <2>3. ~IsOp(Head(plan[c]))
        BY <2>1, Words DEF Doing
    <2> QED
        BY <2>1, <2>2, <2>3, PlanHead DEF Idle
<1>3. Tail(plan[c]) = <<tock>> /\ <<op>> \o <<tock>> = <<op, tock>>
    <2>1. Tail(<<pick, tock>>) = <<tock>>
        BY Tails
    <2>2. <<op>> \o <<tock>> = <<op, tock>>
        BY Joined
    <2> QED
        BY <1>2, <2>1, <2>2
<1>4. plan'[c] = <<op, tock>> /\ at'[c] = "look" /\ at' = at
    BY <1>1, <1>3 DEF CallType, Is
<1>5. TickPlan(<<op, tock>>) /\ TickPlan(<<pick, tock>>)
    BY <1>1 DEF TickPlan
<1>6. Head(<<op, tock>>) = op /\ Head(<<pick, tock>>) = pick
    OBVIOUS
<1>7. ~OrderPlan(<<pick, tock>>)
    BY <1>5, <1>6, PlanHead DEF Shaped, Orderly, clear, halt, run, arm, pick, Op, Order
<1>8. ~OrderPlan(<<op, tock>>)
    BY <1>1, <1>5, <1>6, Words, PlanHead DEF Shaped
<1>9. <<op, tock>> # <<>>
    OBVIOUS
<1> QED
    BY <1>1, <1>2, <1>4, <1>5, <1>7, <1>8, <1>9 DEF DataEffect, Shaped, CallType, history

\* A word the actions on the directory name is an operation.
LEMMA WordIsOp ==
    ASSUME CallType, NEW c \in Caller, ~Idle(c),
           Doing(c).do \in {"create", "insert", "ensure", "change", "rename", "join", "part", "remove"}
    PROVE  IsOp(Doing(c)) /\ Shaped(plan[c]) /\ plan[c] # <<>>
BY HeadIsOp DEF CallType, Idle, Doing

LEMMA LookStep ==
    ASSUME CallType, NEW c \in Caller, Look(c)
    PROVE  DataEffect(c)
<1>1. ~Idle(c) /\ UNCHANGED <<clock, seen, used, wanted, tangled>>
    BY DEF Look, Is, Rests, Quiet
<1>2. \/ Advance(c)
      \/ GoTo(c, "insert") /\ Doing(c).do \in {"create", "insert"}
      \/ GoTo(c, "send") \/ GoTo(c, "save")
    BY DEF Look, Is
<1>3. Doing(c).do \in {"create", "insert", "ensure", "change", "rename", "join", "part", "remove"}
    BY DEF Look, Is
<1>4. IsOp(Doing(c))
    BY <1>1, <1>3, WordIsOp
<1> QED
    BY <1>1, <1>2, <1>4, Advances, GoesTo DEF Creates

LEMMA EnsureStep ==
    ASSUME CallType, NEW c \in Caller, Ensure(c)
    PROVE  DataEffect(c)
<1>1. ~Idle(c) /\ UNCHANGED <<clock, seen, used, wanted, tangled>> /\ Doing(c).do = "ensure" /\ at[c] = "look"
    BY DEF Ensure, Is, Rests, Quiet
<1>2. IsOp(Doing(c)) /\ Shaped(plan[c]) /\ plan[c] # <<>>
    BY <1>1, WordIsOp
<1> DEFINE there == Named(Doing(c).on, Doing(c).with)
           found == CHOOSE s \in there : TRUE
           q == [i \in 1 .. Len(plan[c]) - 1 |-> Instead(plan[c][i + 1], Doing(c).on, found)]
<1>3. CASE there = {}
    BY <1>1, <1>2, <1>3, GoesTo DEF Ensure, Creates
<1>4. CASE there # {}
    <2>1. plan' = [plan EXCEPT ![c] = q] /\ UNCHANGED at
        BY <1>4 DEF Ensure
    <2>2. found \in Kind(Doing(c).on)
        BY <1>4 DEF Named
    <2>3. q \in [1 .. Len(plan[c]) - 1 -> {Instead(plan[c][i + 1], Doing(c).on, found) : i \in 1 .. Len(plan[c]) - 1}]
        OBVIOUS
    <2>4. q = <<>> \/ SeedPlan(q)
        <3> HIDE DEF found, there
        <3>1. \A i \in 1 .. Len(plan[c]) - 1 : q[i] = Instead(plan[c][i + 1], Doing(c).on, found)
            OBVIOUS
        <3> HIDE DEF q
        <3> QED
            BY <1>1, <1>2, <2>2, <2>3, <3>1, EnsuredPlan DEF Doing
    <2> HIDE DEF q
    <2>5. plan'[c] = q
        BY <2>1 DEF CallType
    <2>6. ~OrderPlan(plan[c])
        BY <1>2, PlanThrown DEF Doing
    <2>7. ~OrderPlan(q) /\ ~TickPlan(q) /\ Shaped(q)
        <3>1. CASE q = <<>>
            BY <3>1 DEF OrderPlan, ClearPlan, TickPlan, Shaped
        <3>2. CASE SeedPlan(q)
            BY <3>2, SeedIsNoOrder DEF Shaped
        <3> QED
            BY <2>4, <3>1, <3>2
    <2> QED
        BY <1>1, <2>1, <2>5, <2>6, <2>7 DEF DataEffect, CallType
<1> QED
    BY <1>3, <1>4

LEMMA CallStep ==
    ASSUME CallType, NEW c \in Caller, Insert(c) \/ Send(c) \/ Break(c) \/ Save(c) \/ SaveRefused(c)
    PROVE  DataEffect(c)
<1>1. ~Idle(c) /\ UNCHANGED <<clock, seen, used, wanted, tangled>>
    BY DEF Insert, Send, Break, Save, SaveRefused, Saving, Is, Quiet
<1>2. Advance(c) \/ Throw(c) \/ GoTo(c, "send") \/ GoTo(c, "save") \/ GoTo(c, "failed")
    BY DEF Insert, Send, Break, Save, SaveRefused
<1>3. IsOp(Doing(c))
    BY <1>1, WordIsOp DEF Insert, Send, Break, Save, SaveRefused, Saving, Is, CallType, Phase
<1> QED
    BY <1>1, <1>2, <1>3, Advances, GoesTo

LEMMA DataSteps ==
    ASSUME CallType, NEW c \in Caller, DataStep(c)
    PROVE  DataEffect(c)
BY PickStep, LookStep, EnsureStep, CallStep DEF DataStep

----------------------------------------------------------------------------
(* The timer and its row *)

(* While nothing has crossed, at most one order is under way and no tick with *)
(* it.  How far the order is says what timer and row are; between two orders  *)
(* they agree with the last one.                                              *)
Carried(c) ==
    /\ plan[c] = <<clear, halt, run, arm>> => wanted
    /\ plan[c] = <<clear, halt>> \/ plan[c] = <<clear, halt, wipe>> => ~wanted
    /\ plan[c] = <<halt, run, arm>> \/ plan[c] = <<run, arm>> => ~timer /\ wanted
    /\ plan[c] = <<arm>> => ~timer /\ wanted /\ auto.running
    /\ plan[c] = <<halt>> \/ plan[c] = <<halt, wipe>> => ~timer /\ ~wanted

ClockInv == ~tangled =>
    /\ leaked = 0
    /\ \A c, d \in Caller : OrderPlan(plan[c]) /\ (OrderPlan(plan[d]) \/ TickPlan(plan[d])) => c = d
    /\ \A c \in Caller : Carried(c)
    /\ (\A c \in Caller : ~OrderPlan(plan[c])) => auto.running = timer /\ timer = wanted
    /\ \A c \in Caller : TickPlan(plan[c]) /\ at[c] = "save" /\ Doing(c) = tock
                            => seen[c].running = auto.running

LEMMA TickIsNoOrder ==
    ASSUME NEW p, TickPlan(p)
    PROVE  ~OrderPlan(p)
<1>1. Shaped(p) /\ p # <<>>
    BY DEF Shaped, TickPlan
<1>2. Head(p) = tock \/ IsOp(Head(p)) \/ Head(p) = pick
    BY DEF TickPlan
<1>3. Head(p) \notin Orderly
    BY <1>2, Words DEF Orderly, clear, halt, run, arm, tock, pick, Op, Order
<1> QED
    BY <1>1, <1>3, PlanHead

\* What a pending order, tick or clear is.
LEMMA Pendings ==
    ASSUME CallType, NEW c \in Caller
    PROVE  /\ Pending(c, Orders) <=> OrderPlan(plan[c])
           /\ Pending(c, Orders \cup {Order("tick")}) <=> OrderPlan(plan[c]) \/ TickPlan(plan[c])
           /\ Pending(c, {Op("clear", None, None)}) <=> ClearPlan(plan[c])
<1>1. Shaped(plan[c])
    BY DEF CallType
<1> QED
    BY <1>1, PlanPending DEF Pending, tock, clear

LEMMA DataKeepsClock ==
    ASSUME CallType, ClockInv, NEW c \in Caller, DataEffect(c)
    PROVE  ClockInv'
<1> SUFFICES ASSUME ~tangled'
             PROVE  /\ leaked' = 0
                    /\ \A d, e \in Caller : OrderPlan(plan'[d]) /\ (OrderPlan(plan'[e]) \/ TickPlan(plan'[e])) => d = e
                    /\ \A d \in Caller : Carried(d)'
                    /\ (\A d \in Caller : ~OrderPlan(plan'[d])) => auto'.running = timer' /\ timer' = wanted'
                    /\ \A d \in Caller : TickPlan(plan'[d]) /\ at'[d] = "save" /\ Head(plan'[d]) = tock
                                            => seen'[d].running = auto'.running
    BY DEF ClockInv, Doing
<1>1. ~tangled /\ UNCHANGED <<timer, leaked, auto, seen, wanted>>
    BY DEF DataEffect, clock
<1>2. \A d \in Caller : d # c => plan'[d] = plan[d] /\ at'[d] = at[d]
    BY DEF DataEffect, CallType
<1>3. ~OrderPlan(plan[c]) /\ ~OrderPlan(plan'[c]) /\ (TickPlan(plan'[c]) => TickPlan(plan[c]))
    BY DEF DataEffect
<1>4. at'[c] = "save" => Head(plan'[c]) # tock
    <2>1. ~IsOp(tock)
        BY Words
    <2> QED
        BY <2>1 DEF DataEffect
<1>5. Carried(c)'
    BY <1>3 DEF Carried, OrderPlan, ClearPlan
<1>6. ASSUME NEW d \in Caller, d # c
      PROVE  Carried(d)'
    BY <1>1, <1>2, <1>6 DEF Carried, ClockInv
<1>7. \A d, e \in Caller : OrderPlan(plan'[d]) /\ (OrderPlan(plan'[e]) \/ TickPlan(plan'[e])) => d = e
    BY <1>1, <1>2, <1>3 DEF ClockInv
<1>8. (\A d \in Caller : ~OrderPlan(plan'[d])) => auto'.running = timer' /\ timer' = wanted'
    BY <1>1, <1>2, <1>3 DEF ClockInv
<1>9. \A d \in Caller : TickPlan(plan'[d]) /\ at'[d] = "save" /\ Head(plan'[d]) = tock
                          => seen'[d].running = auto'.running
    BY <1>1, <1>2, <1>4 DEF ClockInv, Doing
<1> QED
    BY <1>1, <1>5, <1>6, <1>7, <1>8, <1>9 DEF ClockInv

\* What a call begins with, and the ids that are given out with it.
ActCalls(c) == \E op, fresh :
    /\ IsOp(op) /\ fresh \subseteq Res
    /\ Creates(op) => op.on \notin used /\ op.on \in fresh
    /\ Begin(c, <<op>>, fresh) /\ UNCHANGED <<wanted, tangled>>
SeedCalls(c) == \E u \in Users \ used, g \in Groups \ used, n \in Names :
    /\ Begin(c, <<Op("ensure", u, n), Op("ensure", g, n), Op("join", g, u)>>, {u, g})
    /\ UNCHANGED <<wanted, tangled>>
OrderCalls(c) == \E q :
    /\ Begin(c, q, {}) /\ ClearPlan(q) /\ wanted' = (q = <<clear, halt, run, arm>>)
    /\ tangled' = (tangled \/ \E d \in Caller : OrderPlan(plan[d]) \/ TickPlan(plan[d]))
TickCalls(c) ==
    /\ Begin(c, <<pick, tock>>, {}) /\ UNCHANGED wanted
    /\ tangled' = (tangled \/ \E d \in Caller : OrderPlan(plan[d]))

LEMMA ActBegins ==
    ASSUME CallType, NEW c \in Caller, Act(c)
    PROVE  ActCalls(c)
<1> DEFINE Calls(op) == Begin(c, <<op>>, Touches(op)) /\ UNCHANGED <<wanted, tangled>>
           Ready(op) == IsOp(op) /\ (Creates(op) => op.on \notin used /\ op.on \in Touches(op))
<1>1. \/ \E r \in Res \ used, n \in Names : Calls(Op("create", r, n))
      \/ \E u \in Users, v \in BOOLEAN : Calls(Op("change", u, v))
      \/ \E g \in Groups, n \in Names : Calls(Op("rename", g, n))
      \/ \E r \in used : Calls(Op("remove", r, None))
      \/ \E g \in Groups, u \in Users, do \in {"join", "part"} : Calls(Op(do, g, u))
    BY DEF Act
<1> HIDE DEF Calls
<1>2. ASSUME NEW r \in Res \ used, NEW n \in Names
      PROVE  Ready(Op("create", r, n))
    BY DEF IsOp, Op, Naming, Creates, Touches
<1>3. ASSUME NEW u \in Users, NEW v \in BOOLEAN
      PROVE  Ready(Op("change", u, v))
    BY DEF IsOp, Op, Switch, Creates
<1>4. ASSUME NEW g \in Groups, NEW n \in Names
      PROVE  Ready(Op("rename", g, n))
    BY DEF IsOp, Op, Naming, Creates, Res
<1>5. ASSUME NEW g \in Groups, NEW u \in Users, NEW do \in {"join", "part"}
      PROVE  Ready(Op(do, g, u))
    BY DEF IsOp, Op, Edge, Creates
<1>6. ASSUME NEW r \in used
      PROVE  Ready(Op("remove", r, None))
    BY DEF IsOp, Op, Removal, Creates, CallType
<1> HIDE DEF Ready
<1>7. \E op : Ready(op) /\ Calls(op)
    BY <1>1, <1>2, <1>3, <1>4, <1>5, <1>6
<1> QED
    BY <1>7 DEF ActCalls, Calls, Ready, Touches

LEMMA CallsBegin ==
    ASSUME CallType, NEW c \in Caller
    PROVE  /\ Seed(c) => SeedCalls(c)
           /\ Instruct(c) => OrderCalls(c)
           /\ Tick(c) => TickCalls(c)
<1>1. ASSUME Seed(c)
      PROVE  SeedCalls(c)
    BY <1>1, SeededPlan DEF Seed, SeedCalls
<1>2. ASSUME Instruct(c)
      PROVE  OrderCalls(c)
    <2>1. PICK q : /\ Begin(c, q, {}) /\ ClearPlan(q) /\ wanted' = (q = <<clear, halt, run, arm>>)
                   /\ tangled' = (tangled \/ \E d \in Caller : Pending(d, Orders \cup {Order("tick")}))
        BY <1>2, OrdersAre DEF Instruct, ClearPlan
    <2> QED
        BY <2>1, Pendings DEF OrderCalls
<1>3. ASSUME Tick(c)
      PROVE  TickCalls(c)
    <2>1. /\ Begin(c, <<pick, tock>>, {}) /\ UNCHANGED wanted
          /\ tangled' = (tangled \/ \E d \in Caller : Pending(d, Orders))
        BY <1>3 DEF Tick, pick, tock
    <2> QED
        BY <2>1, Pendings DEF TickCalls
<1> QED
    BY <1>1, <1>2, <1>3

\* How a call that begins leaves timer and row.
LEMMA BegunCall ==
    ASSUME CallType, NEW c \in Caller, NEW q, NEW fresh, Begin(c, q, fresh)
    PROVE  /\ plan[c] = <<>> /\ plan' = [plan EXCEPT ![c] = q] /\ plan'[c] = q
           /\ at'[c] = "look" /\ at' = [at EXCEPT ![c] = "look"]
           /\ \A d \in Caller : d # c => plan'[d] = plan[d] /\ at'[d] = at[d] /\ seen'[d] = seen[d]
           /\ UNCHANGED <<timer, leaked, auto>> /\ used' = used \cup fresh
BY DEF Begin, CallType, Idle, clock

LEMMA BeginKeepsClock ==
    ASSUME CallType, ClockInv, NEW c \in Caller, Act(c) \/ Seed(c) \/ Instruct(c) \/ Tick(c)
    PROVE  ClockInv'
<1>1. \E q, fresh : Begin(c, q, fresh)
    BY ActBegins, CallsBegin DEF ActCalls, SeedCalls, OrderCalls, TickCalls
<1>2. /\ plan[c] = <<>> /\ at'[c] = "look"
      /\ \A d \in Caller : d # c => plan'[d] = plan[d] /\ at'[d] = at[d] /\ seen'[d] = seen[d]
      /\ UNCHANGED <<timer, leaked, auto>>
    BY <1>1, BegunCall
<1>3. ~OrderPlan(<<>>) /\ ~TickPlan(<<>>)
    BY DEF OrderPlan, ClearPlan, TickPlan
<1>4. \A d \in Caller : TickPlan(plan'[d]) /\ at'[d] = "save" => d # c
    BY <1>2
<1>5. CASE ActCalls(c) \/ SeedCalls(c)
    <2>1. ~OrderPlan(plan'[c]) /\ ~TickPlan(plan'[c]) /\ UNCHANGED <<wanted, tangled>>
        <3>1. CASE ActCalls(c)
            <4>1. PICK op, fresh : IsOp(op) /\ Begin(c, <<op>>, fresh) /\ UNCHANGED <<wanted, tangled>>
                BY <3>1 DEF ActCalls
            <4>2. plan'[c] = <<op>>
                BY <4>1, BegunCall
            <4>3. op \notin Orderly /\ op # tock
                BY <4>1, Words
            <4> QED
                BY <4>1, <4>2, <4>3 DEF OrderPlan, ClearPlan, TickPlan, Orderly
        <3>2. CASE SeedCalls(c)
            <4>1. PICK u \in Users \ used, g \in Groups \ used, n \in Names :
                    /\ Begin(c, <<Op("ensure", u, n), Op("ensure", g, n), Op("join", g, u)>>, {u, g})
                    /\ UNCHANGED <<wanted, tangled>>
                BY <3>2 DEF SeedCalls
            <4>2. plan'[c] = <<Op("ensure", u, n), Op("ensure", g, n), Op("join", g, u)>>
                BY <4>1, BegunCall
            <4>3. SeedPlan(<<Op("ensure", u, n), Op("ensure", g, n), Op("join", g, u)>>)
                BY SeededPlan
            <4> QED
                BY <4>1, <4>2, <4>3, SeedIsNoOrder
        <3> QED
            BY <1>5, <3>1, <3>2
    <2>2. \A d \in Caller : d # c => (Carried(d)' <=> Carried(d))
        BY <1>2, <2>1 DEF Carried
    <2>3. Carried(c)'
        BY <2>1 DEF Carried, OrderPlan, ClearPlan
    <2> QED
        BY <1>2, <1>3, <1>4, <2>1, <2>2, <2>3 DEF ClockInv, Doing
<1>6. CASE OrderCalls(c)
    <2>1. PICK q : /\ Begin(c, q, {}) /\ ClearPlan(q) /\ wanted' = (q = <<clear, halt, run, arm>>)
                   /\ tangled' = (tangled \/ \E d \in Caller : OrderPlan(plan[d]) \/ TickPlan(plan[d]))
        BY <1>6 DEF OrderCalls
    <2>2. plan'[c] = q
        BY <2>1, BegunCall
    <2>3. OrderPlan(q) /\ ~TickPlan(q)
        BY <2>1, TickIsNoOrder DEF OrderPlan
    <2> SUFFICES ASSUME ~tangled'
                 PROVE  ClockInv'
        BY DEF ClockInv
    <2>4. ~tangled /\ \A d \in Caller : ~OrderPlan(plan[d]) /\ ~TickPlan(plan[d])
        BY <2>1
    <2>5. \A d \in Caller : d # c => ~OrderPlan(plan'[d]) /\ ~TickPlan(plan'[d])
        BY <1>2, <2>4
    <2>6. \A d \in Caller : d # c => Carried(d)'
        BY <2>5 DEF Carried, OrderPlan, ClearPlan
    <2>7. Carried(c)'
        <3>1. clear # halt /\ clear # run /\ clear # arm
            BY DEF clear, halt, run, arm, Op, Order
        <3>2. <<clear, halt, run, arm>> # <<clear, halt>> /\ <<clear, halt, run, arm>> # <<clear, halt, wipe>>
            OBVIOUS
        <3>3. wanted' <=> q = <<clear, halt, run, arm>>
            BY <2>1
        <3>4. q # <<halt, run, arm>> /\ q # <<run, arm>> /\ q # <<arm>> /\ q # <<halt>> /\ q # <<halt, wipe>>
            BY <2>1, <3>1 DEF ClearPlan
        <3> QED
            BY <2>2, <3>2, <3>3, <3>4 DEF Carried
    <2> QED
        BY <1>2, <1>4, <2>2, <2>3, <2>4, <2>5, <2>6, <2>7 DEF ClockInv, Doing
<1>7. CASE TickCalls(c)
    <2>1. /\ Begin(c, <<pick, tock>>, {}) /\ UNCHANGED wanted
          /\ tangled' = (tangled \/ \E d \in Caller : OrderPlan(plan[d]))
        BY <1>7 DEF TickCalls
    <2>2. plan'[c] = <<pick, tock>> /\ TickPlan(<<pick, tock>>)
        BY <2>1, BegunCall DEF TickPlan
    <2>3. ~OrderPlan(plan'[c])
        BY <2>2, TickIsNoOrder
    <2> SUFFICES ASSUME ~tangled'
                 PROVE  ClockInv'
        BY DEF ClockInv
    <2>4. ~tangled /\ \A d \in Caller : ~OrderPlan(plan[d])
        BY <2>1
    <2>5. \A d \in Caller : ~OrderPlan(plan'[d])
        BY <1>2, <2>3, <2>4
    <2>6. \A d \in Caller : Carried(d)'
        BY <2>5 DEF Carried, OrderPlan, ClearPlan
    <2> QED
        BY <1>2, <1>4, <2>1, <2>4, <2>5, <2>6 DEF ClockInv, Doing
<1> QED
    BY <1>5, <1>6, <1>7, ActBegins, CallsBegin

\* The words that carry out an order are met only in an order; a row is saved
\* for an order or for a tick.
LEMMA OrderWords ==
    ASSUME CallType, NEW c \in Caller, ~Idle(c)
    PROVE  /\ Doing(c).do = "clear" => ClearPlan(plan[c])
           /\ Doing(c).do = "arm" => plan[c] = <<arm>>
           /\ Doing(c).do = "wipe" => plan[c] = <<wipe>>
           /\ Doing(c).do = "auto" =>
                \/ plan[c] = <<tock>> /\ Doing(c).with = "tick" /\ Doing(c) = tock
                \/ plan[c] = <<run, arm>> /\ Doing(c).with = "run"
                \/ plan[c] \in {<<halt, run, arm>>, <<halt>>, <<halt, wipe>>} /\ Doing(c).with = "halt"
<1> DEFINE p == plan[c]
<1>1. Shaped(p) /\ p # <<>> /\ Doing(c) = Head(p)
    BY DEF CallType, Idle, Doing
<1>2. /\ clear.do = "clear" /\ halt.do = "auto" /\ run.do = "auto" /\ arm.do = "arm"
      /\ tock.do = "auto" /\ wipe.do = "wipe" /\ pick.do = "pick"
      /\ halt.with = "halt" /\ run.with = "run" /\ tock.with = "tick"
    BY DEF clear, halt, run, arm, tock, wipe, pick, Op, Order
<1> HIDE DEF p
<1>3. Doing(c).do \in {"clear", "auto", "arm", "wipe"} => ~IsOp(Head(p))
    BY <1>1, Words
<1>4. CASE OrderPlan(p)
    <2>1. CASE ClearPlan(p)
        BY <1>1, <1>2, <2>1 DEF ClearPlan, p
    <2>2. CASE p = <<halt, run, arm>> \/ p = <<halt>> \/ p = <<halt, wipe>>
        <3>1. Head(p) = halt
            BY <2>2
        <3> QED
            BY <1>1, <1>2, <2>2, <3>1 DEF p
    <2>3. CASE p = <<run, arm>>
        BY <1>1, <1>2, <2>3 DEF p
    <2>4. CASE p = <<arm>>
        BY <1>1, <1>2, <2>4 DEF p
    <2> QED
        BY <1>4, <2>1, <2>2, <2>3, <2>4 DEF OrderPlan
<1>5. CASE ~OrderPlan(p)
    <2>1. Head(p) \notin Orderly
        BY <1>1, <1>5, PlanHead
    <2>2. IsOp(Head(p)) \/ Head(p) = pick \/ p = <<tock>> \/ p = <<wipe>>
        BY <1>1, <2>1, PlanHead
    <2>3. CASE p = <<tock>>
        BY <1>1, <1>2, <2>3 DEF p
    <2>4. CASE p = <<wipe>>
        BY <1>1, <1>2, <2>4 DEF p
    <2> QED
        BY <1>1, <1>2, <1>3, <2>2, <2>3, <2>4
<1> QED
    BY <1>4, <1>5

\* The order under way is the only one, and no tick is with it.
LEMMA OrderAlone ==
    ASSUME CallType, ClockInv, ~tangled, NEW c \in Caller, OrderPlan(plan[c])
    PROVE  /\ leaked = 0 /\ Carried(c) /\ ~TickPlan(plan[c])
           /\ \A d \in Caller : d # c => ~OrderPlan(plan[d]) /\ ~TickPlan(plan[d])
BY TickIsNoOrder DEF ClockInv

\* It is enough to look at the call that is served, when it is alone.
LEMMA AloneKeepsClock ==
    ASSUME CallType, NEW c \in Caller,
           \A d \in Caller : d # c => ~OrderPlan(plan[d]) /\ ~TickPlan(plan[d]) /\ plan'[d] = plan[d],
           leaked' = 0, Carried(c)', ~TickPlan(plan'[c]),
           ~OrderPlan(plan'[c]) => auto'.running = timer' /\ timer' = wanted'
    PROVE  ClockInv'
<1>1. \A d \in Caller : d # c => ~OrderPlan(plan'[d]) /\ ~TickPlan(plan'[d])
    OBVIOUS
<1>2. \A d \in Caller : d # c => Carried(d)'
    BY <1>1 DEF Carried, OrderPlan, ClearPlan
<1>3. \A d, e \in Caller : OrderPlan(plan'[d]) /\ (OrderPlan(plan'[e]) \/ TickPlan(plan'[e])) => d = e
    BY <1>1
<1>4. \A d \in Caller : ~TickPlan(plan'[d])
    BY <1>1
<1>5. \A d \in Caller : Carried(d)'
    BY <1>2
<1>6. (\A d \in Caller : ~OrderPlan(plan'[d])) => auto'.running = timer' /\ timer' = wanted'
    OBVIOUS
<1> QED
    BY <1>3, <1>4, <1>5, <1>6 DEF ClockInv

\* Going on to the next word of an order.
LEMMA OrderGoesOn ==
    ASSUME CallType, NEW c \in Caller, Advance(c)
    PROVE  /\ plan'[c] = Tail(plan[c]) /\ at'[c] = "look"
           /\ plan' = [plan EXCEPT ![c] = Tail(plan[c])] /\ at' = [at EXCEPT ![c] = "look"]
           /\ \A d \in Caller : d # c => plan'[d] = plan[d] /\ at'[d] = at[d]
BY DEF Advance, CallType

LEMMA PlansDiffer ==
    /\ <<halt, run, arm>> # <<run, arm>> /\ <<halt, run, arm>> # <<arm>> /\ <<run, arm>> # <<arm>>
    /\ <<halt>> # <<arm>> /\ <<halt, wipe>> # <<run, arm>> /\ <<wipe>> # <<arm>> /\ <<halt>> # <<halt, wipe>>
    /\ <<halt, run, arm>> # <<halt>> /\ <<halt, run, arm>> # <<halt, wipe>> /\ <<run, arm>> # <<halt>>
    /\ <<run, arm>> # <<halt, wipe>> /\ <<arm>> # <<halt>> /\ <<arm>> # <<halt, wipe>>
    /\ <<halt>> # <<run, arm>> /\ <<halt, wipe>> # <<arm>>
    /\ ~ClearPlan(<<halt, run, arm>>) /\ ~ClearPlan(<<run, arm>>) /\ ~ClearPlan(<<arm>>)
    /\ ~ClearPlan(<<halt>>) /\ ~ClearPlan(<<halt, wipe>>)
    /\ ~OrderPlan(<<wipe>>) /\ ~OrderPlan(<<>>) /\ ~TickPlan(<<wipe>>) /\ ~TickPlan(<<>>)
<1>1. clear # halt /\ clear # run /\ clear # arm /\ halt # run /\ halt # arm /\ run # arm
      /\ wipe \notin {clear, halt, run, arm, tock}
    BY DEF clear, halt, run, arm, wipe, tock, Op, Order
<1> QED
    BY <1>1 DEF ClearPlan, OrderPlan, TickPlan

LEMMA ClearKeepsClock ==
    ASSUME CallType, ClockInv, NEW c \in Caller, Clear(c)
    PROVE  ClockInv'
<1>1. /\ ~Idle(c) /\ Advance(c) /\ timer' = FALSE /\ UNCHANGED <<leaked, auto, wanted, tangled>>
      /\ ClearPlan(plan[c])
    BY OrderWords DEF Clear, Is, Quiet
<1> SUFFICES ASSUME ~tangled
             PROVE  ClockInv'
    BY <1>1 DEF ClockInv
<1>2. OrderPlan(plan[c])
    BY <1>1 DEF OrderPlan
<1>3. leaked = 0 /\ Carried(c) /\ \A d \in Caller : d # c => ~OrderPlan(plan[d]) /\ ~TickPlan(plan[d])
    BY <1>2, OrderAlone
<1>4. /\ plan[c] = <<clear, halt, run, arm>> => plan'[c] = <<halt, run, arm>> /\ wanted
      /\ plan[c] = <<clear, halt>> => plan'[c] = <<halt>> /\ ~wanted
      /\ plan[c] = <<clear, halt, wipe>> => plan'[c] = <<halt, wipe>> /\ ~wanted
    <2>1. plan'[c] = Tail(plan[c])
        BY <1>1, OrderGoesOn
    <2>2. /\ Tail(<<clear, halt, run, arm>>) = <<halt, run, arm>> /\ Tail(<<clear, halt>>) = <<halt>>
          /\ Tail(<<clear, halt, wipe>>) = <<halt, wipe>>
        BY Tails
    <2> QED
        BY <1>3, <2>1, <2>2 DEF Carried
<1>5. OrderPlan(plan'[c]) /\ ~ClearPlan(plan'[c])
    BY <1>1, <1>4, PlansDiffer DEF OrderPlan, ClearPlan
<1>6. Carried(c)'
    BY <1>1, <1>4, <1>5, PlansDiffer DEF Carried, ClearPlan
<1>7. ~TickPlan(plan'[c])
    BY <1>5, TickIsNoOrder
<1> QED
    BY <1>1, <1>3, <1>5, <1>6, <1>7, OrderGoesOn, AloneKeepsClock

LEMMA ArmKeepsClock ==
    ASSUME CallType, ClockInv, NEW c \in Caller, Arm(c)
    PROVE  ClockInv'
<1>1. /\ ~Idle(c) /\ Advance(c) /\ timer' = TRUE /\ UNCHANGED <<auto, wanted, tangled>>
      /\ leaked' = leaked + (IF timer THEN 1 ELSE 0) /\ plan[c] = <<arm>>
    BY OrderWords DEF Arm, Is, Quiet
<1> SUFFICES ASSUME ~tangled
             PROVE  ClockInv'
    BY <1>1 DEF ClockInv
<1>2. leaked = 0 /\ Carried(c) /\ \A d \in Caller : d # c => ~OrderPlan(plan[d]) /\ ~TickPlan(plan[d])
    BY <1>1, OrderAlone DEF OrderPlan
<1>3. plan'[c] = <<>>
    BY <1>1, OrderGoesOn, Tail(<<arm>>) = <<>>, Tails
<1>4. ~timer /\ wanted /\ auto.running
    BY <1>1, <1>2 DEF Carried
<1>5. leaked' = 0 /\ auto'.running = timer' /\ timer' = wanted'
    BY <1>1, <1>2, <1>4 DEF CallType, AutoRow
<1>6. Carried(c)' /\ ~OrderPlan(plan'[c]) /\ ~TickPlan(plan'[c])
    BY <1>3, PlansDiffer DEF Carried
<1> QED
    BY <1>1, <1>2, <1>5, <1>6, OrderGoesOn, AloneKeepsClock

LEMMA WipeKeepsClock ==
    ASSUME CallType, ClockInv, NEW c \in Caller, Wipe(c)
    PROVE  ClockInv'
<1>1. ~Idle(c) /\ Advance(c) /\ UNCHANGED <<timer, leaked, auto, seen, wanted, tangled>> /\ plan[c] = <<wipe>>
    BY OrderWords DEF Wipe, Is, Quiet, clock
<1>2. plan'[c] = <<>> /\ \A d \in Caller : d # c => plan'[d] = plan[d] /\ at'[d] = at[d]
    BY <1>1, OrderGoesOn, Tail(<<wipe>>) = <<>>, Tails
<1>3. \A d \in Caller : (OrderPlan(plan'[d]) <=> OrderPlan(plan[d])) /\ (TickPlan(plan'[d]) <=> TickPlan(plan[d]))
    BY <1>1, <1>2, PlansDiffer
<1>4. ClockInv /\ ~tangled' => \A d \in Caller : Carried(d)'
    BY <1>1, <1>2, PlansDiffer DEF Carried, ClockInv
<1>5. \A d \in Caller : TickPlan(plan'[d]) => d # c
    BY <1>2, PlansDiffer
<1> QED
    BY <1>1, <1>2, <1>3, <1>4, <1>5 DEF ClockInv, Doing

LEMMA GetKeepsClock ==
    ASSUME CallType, ClockInv, NEW c \in Caller, getAutoState(c)
    PROVE  ClockInv'
<1>1. /\ ~Idle(c) /\ UNCHANGED <<plan, timer, leaked, auto, wanted, tangled>>
      /\ seen' = [seen EXCEPT ![c] = auto] /\ at' = [at EXCEPT ![c] = "save"]
    BY DEF getAutoState, Is, GoTo, clock, Quiet
<1>2. \A d \in Caller : d # c => seen'[d] = seen[d] /\ at'[d] = at[d]
    BY <1>1 DEF CallType
<1>3. seen'[c] = auto
    BY <1>1 DEF CallType
<1>4. ClockInv /\ ~tangled' => \A d \in Caller : Carried(d)'
    BY <1>1 DEF Carried, ClockInv
<1> QED
    BY <1>1, <1>2, <1>3, <1>4 DEF ClockInv, Doing

LEMMA SetKeepsClock ==
    ASSUME CallType, ClockInv, NEW c \in Caller, setAutoState(c)
    PROVE  ClockInv'
<1>1. /\ ~Idle(c) /\ Doing(c).do = "auto" /\ at[c] = "save" /\ Advance(c)
      /\ auto' = [running |-> Doing(c).with = "run" \/ (Doing(c).with = "tick" /\ seen[c].running),
                  ticks |-> seen[c].ticks + (IF Doing(c).with = "tick" THEN 1 ELSE 0)]
      /\ seen' = [seen EXCEPT ![c] = None]
      /\ UNCHANGED <<timer, leaked, wanted, tangled>>
    BY DEF setAutoState, Is, Quiet
<1>2. auto'.running = (Doing(c).with = "run" \/ (Doing(c).with = "tick" /\ seen[c].running))
    BY <1>1
<1> SUFFICES ASSUME ~tangled
             PROVE  ClockInv'
    BY <1>1 DEF ClockInv
<1>3. /\ plan'[c] = Tail(plan[c])
      /\ \A d \in Caller : d # c => plan'[d] = plan[d] /\ at'[d] = at[d] /\ seen'[d] = seen[d]
    BY <1>1, OrderGoesOn DEF CallType
<1>4. CASE plan[c] = <<tock>> /\ Doing(c).with = "tick" /\ Doing(c) = tock
    <2>1. TickPlan(plan[c])
        BY <1>4 DEF TickPlan
    <2>2. seen[c].running = auto.running
        BY <1>1, <1>4, <2>1 DEF ClockInv
    <2>3. seen[c] \in AutoRow
        BY <1>1, <1>4, Words DEF CallType, Phase
    <2>4. auto'.running = auto.running
        BY <1>2, <1>4, <2>2, <2>3 DEF AutoRow
    <2>5. plan'[c] = <<>>
        BY <1>3, <1>4, Tails
    <2>6. \A d \in Caller : ~OrderPlan(plan[d])
        BY <2>1, TickIsNoOrder DEF ClockInv
    <2>7. \A d \in Caller : ~OrderPlan(plan'[d])
        BY <1>3, <2>5, <2>6, PlansDiffer
    <2>8. \A d \in Caller : Carried(d)'
        BY <2>7 DEF Carried, OrderPlan, ClearPlan
    <2>9. \A d \in Caller : TickPlan(plan'[d]) => d # c
        BY <2>5, PlansDiffer
    <2>10. leaked' = 0 /\ auto.running = timer /\ timer = wanted
        BY <1>1, <2>6 DEF ClockInv
    <2> QED
        BY <1>1, <1>3, <2>4, <2>7, <2>8, <2>9, <2>10 DEF ClockInv, Doing
<1>5. CASE plan[c] = <<run, arm>> /\ Doing(c).with = "run"
    <2>1. /\ leaked = 0 /\ Carried(c)
          /\ \A d \in Caller : d # c => ~OrderPlan(plan[d]) /\ ~TickPlan(plan[d])
        BY <1>5, OrderAlone DEF OrderPlan
    <2>2. plan'[c] = <<arm>> /\ OrderPlan(<<arm>>)
        BY <1>3, <1>5, Tails DEF OrderPlan
    <2>3. auto'.running /\ ~timer /\ wanted
        BY <1>2, <1>5, <2>1 DEF Carried
    <2>4. Carried(c)'
        BY <1>1, <2>2, <2>3, PlansDiffer DEF Carried, ClearPlan
    <2> QED
        BY <1>1, <1>3, <2>1, <2>2, <2>4, TickIsNoOrder, AloneKeepsClock
<1>6. CASE plan[c] \in {<<halt, run, arm>>, <<halt>>, <<halt, wipe>>} /\ Doing(c).with = "halt"
    <2>1. /\ leaked = 0 /\ Carried(c)
          /\ \A d \in Caller : d # c => ~OrderPlan(plan[d]) /\ ~TickPlan(plan[d])
        BY <1>6, OrderAlone DEF OrderPlan
    <2>2. ~auto'.running
        BY <1>2, <1>6
    <2>3. /\ plan[c] = <<halt, run, arm>> => plan'[c] = <<run, arm>> /\ ~timer /\ wanted
          /\ plan[c] = <<halt>> => plan'[c] = <<>> /\ ~timer /\ ~wanted
          /\ plan[c] = <<halt, wipe>> => plan'[c] = <<wipe>> /\ ~timer /\ ~wanted
        <3>1. Tail(<<halt, run, arm>>) = <<run, arm>> /\ Tail(<<halt>>) = <<>> /\ Tail(<<halt, wipe>>) = <<wipe>>
            BY Tails
        <3> QED
            BY <1>3, <2>1, <3>1 DEF Carried
    <2>4. CASE plan[c] = <<halt, run, arm>>
        <3>1. OrderPlan(plan'[c])
            BY <2>3, <2>4 DEF OrderPlan
        <3>2. Carried(c)'
            BY <1>1, <2>3, <2>4, PlansDiffer DEF Carried, ClearPlan
        <3> QED
            BY <1>1, <1>3, <2>1, <3>1, <3>2, TickIsNoOrder, AloneKeepsClock
    <2>5. CASE plan[c] = <<halt>> \/ plan[c] = <<halt, wipe>>
        <3>1. ~OrderPlan(plan'[c]) /\ ~TickPlan(plan'[c])
            BY <2>3, <2>5, PlansDiffer
        <3>2. Carried(c)'
            BY <3>1 DEF Carried, OrderPlan, ClearPlan
        <3>3. auto'.running = timer' /\ timer' = wanted'
            BY <1>1, <1>2, <2>2, <2>3, <2>5 DEF CallType
        <3> QED
            BY <1>1, <1>3, <2>1, <3>1, <3>2, <3>3, AloneKeepsClock
    <2> QED
        BY <1>6, <2>4, <2>5
<1> QED
    BY <1>1, <1>4, <1>5, <1>6, OrderWords

LEMMA RestartKeepsClock ==
    ASSUME CallType, ClockInv, Restart
    PROVE  ClockInv'
<1>1. /\ plan' = [c \in Caller |-> <<>>] /\ timer' = FALSE /\ leaked' = 0 /\ wanted' = FALSE /\ auto' = auto
      /\ tangled' = (tangled \/ auto.running \/ \E c \in Caller : Pending(c, Orders))
    BY DEF Restart
<1> SUFFICES ASSUME ~tangled'
             PROVE  ClockInv'
    BY DEF ClockInv
<1>2. ~auto.running /\ auto.running \in BOOLEAN
    BY <1>1 DEF CallType, AutoRow
<1>3. \A c \in Caller : plan'[c] = <<>>
    BY <1>1
<1>4. \A c \in Caller : ~OrderPlan(plan'[c]) /\ ~TickPlan(plan'[c]) /\ Carried(c)'
    BY <1>3, PlansDiffer DEF Carried
<1> QED
    BY <1>1, <1>2, <1>4 DEF ClockInv

\* What a call reads and saves of the row, a wipe and a restart keep the types.
LEMMA ClockKeepsType ==
    ASSUME CallType, NEW c \in Caller,
           Clear(c) \/ Arm(c) \/ getAutoState(c) \/ setAutoState(c) \/ Wipe(c)
    PROVE  CallType'
<1>1. ~Idle(c) /\ Shaped(plan[c]) /\ plan[c] # <<>> /\ UNCHANGED <<used, tangled, wanted>>
    BY DEF Clear, Arm, getAutoState, setAutoState, Wipe, Is, Idle, CallType, Quiet
<1>2. timer' \in BOOLEAN /\ leaked' \in Nat
    <2>1. timer \in BOOLEAN /\ leaked \in Nat
        BY DEF CallType
    <2>2. CASE Arm(c)
        BY <2>1, <2>2 DEF Arm
    <2>3. CASE Clear(c) \/ getAutoState(c) \/ setAutoState(c) \/ Wipe(c)
        <3>1. leaked' = leaked /\ (timer' = timer \/ timer' = FALSE)
            BY <2>3 DEF Clear, getAutoState, setAutoState, Wipe, clock
        <3> QED
            BY <2>1, <3>1
    <2> QED
        BY <2>2, <2>3
<1>3. auto' \in AutoRow
    <2>1. CASE setAutoState(c)
        <3>1. Doing(c).do = "auto" /\ at[c] = "save" /\ seen[c] \in AutoRow
            BY <2>1, Words DEF setAutoState, Is, CallType, Phase
        <3>2. auto' = [running |-> Doing(c).with = "run" \/ (Doing(c).with = "tick" /\ seen[c].running),
                       ticks |-> seen[c].ticks + (IF Doing(c).with = "tick" THEN 1 ELSE 0)]
            BY <2>1 DEF setAutoState
        <3>3. seen[c].ticks + (IF Doing(c).with = "tick" THEN 1 ELSE 0) \in Nat
            BY <3>1 DEF AutoRow
        <3>4. (Doing(c).with = "run" \/ (Doing(c).with = "tick" /\ seen[c].running)) \in BOOLEAN
            OBVIOUS
        <3> QED
            BY <3>2, <3>3, <3>4 DEF AutoRow
    <2> QED
        BY <2>1 DEF Clear, Arm, getAutoState, Wipe, CallType, clock
<1>4. CASE Clear(c) \/ Arm(c) \/ setAutoState(c) \/ Wipe(c)
    <2>1. /\ plan' = [plan EXCEPT ![c] = Tail(plan[c])] /\ at' = [at EXCEPT ![c] = "look"]
          /\ plan'[c] = Tail(plan[c]) /\ at'[c] = "look"
        BY <1>4, OrderGoesOn DEF Clear, Arm, setAutoState, Wipe
    <2>2. Shaped(plan'[c])
        BY <1>1, <2>1, PlanTail
    <2>3. seen' = seen \/ seen' = [seen EXCEPT ![c] = None]
        BY <1>4 DEF Clear, Arm, setAutoState, Wipe
    <2>4. ASSUME NEW d \in Caller, d # c
          PROVE  Shaped(plan'[d]) /\ Phase(d)'
        BY <2>1, <2>3, <2>4 DEF CallType, Phase, Idle, Doing
    <2>5. Phase(c)'
        BY <2>1 DEF Phase
    <2> QED
        BY <1>1, <1>2, <1>3, <2>1, <2>2, <2>3, <2>4, <2>5 DEF CallType
<1>5. CASE getAutoState(c)
    <2>1. /\ plan' = plan /\ at' = [at EXCEPT ![c] = "save"] /\ seen' = [seen EXCEPT ![c] = auto]
          /\ Doing(c).do = "auto"
        BY <1>5 DEF getAutoState, GoTo, Is
    <2>2. ASSUME NEW d \in Caller
          PROVE  Phase(d)'
        <3>1. CASE d = c
            BY <1>1, <2>1, <3>1 DEF CallType, Phase, Idle, Doing
        <3>2. CASE d # c
            BY <2>1, <3>2 DEF CallType, Phase, Idle, Doing
        <3> QED
            BY <3>1, <3>2
    <2> QED
        BY <1>1, <1>2, <1>3, <2>1, <2>2 DEF CallType
<1> QED
    BY <1>4, <1>5

LEMMA BeginKeepsType ==
    ASSUME CallType, NEW c \in Caller, Act(c) \/ Seed(c) \/ Instruct(c) \/ Tick(c)
    PROVE  CallType'
<1>1. \E q, fresh : Begin(c, q, fresh) /\ Shaped(q) /\ fresh \subseteq Res
    <2>1. CASE Act(c)
        BY <2>1, ActBegins DEF ActCalls, Shaped, ActPlan
    <2>2. CASE Seed(c)
        <3>1. PICK u \in Users \ used, g \in Groups \ used, n \in Names :
                  Begin(c, <<Op("ensure", u, n), Op("ensure", g, n), Op("join", g, u)>>, {u, g})
            BY <2>2, CallsBegin DEF SeedCalls
        <3>2. SeedPlan(<<Op("ensure", u, n), Op("ensure", g, n), Op("join", g, u)>>)
            BY SeededPlan
        <3> QED
            BY <3>1, <3>2 DEF Shaped, Res
    <2>3. CASE Instruct(c)
        BY <2>3, CallsBegin DEF OrderCalls, Shaped, OrderPlan
    <2>4. CASE Tick(c)
        <3>1. TickPlan(<<pick, tock>>)
            BY DEF TickPlan
        <3> QED
            BY <2>4, <3>1, CallsBegin DEF TickCalls, Shaped
    <2> QED
        BY <2>1, <2>2, <2>3, <2>4
<1>2. PICK q, fresh : Begin(c, q, fresh) /\ Shaped(q) /\ fresh \subseteq Res
    BY <1>1
<1>3. /\ plan' = [plan EXCEPT ![c] = q] /\ plan'[c] = q
      /\ at'[c] = "look" /\ at' = [at EXCEPT ![c] = "look"]
      /\ UNCHANGED <<timer, leaked, auto>> /\ used' = used \cup fresh
    BY <1>2, BegunCall
<1>4. seen' = [seen EXCEPT ![c] = None]
    BY <1>2 DEF Begin
<1>5. wanted' \in BOOLEAN /\ tangled' \in BOOLEAN
    BY DEF Act, Seed, Instruct, Tick, CallType
<1>6. ASSUME NEW d \in Caller
      PROVE  Shaped(plan'[d]) /\ Phase(d)'
    <2>1. CASE d = c
        BY <1>2, <1>3, <2>1 DEF Phase
    <2>2. CASE d # c
        BY <1>3, <1>4, <2>2 DEF CallType, Phase, Idle, Doing
    <2> QED
        BY <2>1, <2>2
<1> QED
    BY <1>2, <1>3, <1>4, <1>5, <1>6 DEF CallType

LEMMA DataKeepsType ==
    ASSUME CallType, NEW c \in Caller, DataEffect(c)
    PROVE  CallType'
<1>1. ASSUME NEW d \in Caller
      PROVE  Shaped(plan'[d]) /\ Phase(d)'
    <2>1. CASE d = c
        BY <2>1 DEF DataEffect, Phase, Idle, Doing
    <2>2. CASE d # c
        BY <2>2 DEF DataEffect, CallType, Phase, Idle, Doing
    <2> QED
        BY <2>1, <2>2
<1>2. UNCHANGED <<timer, leaked, auto, seen, wanted, tangled>> /\ used' \subseteq Res
    BY DEF DataEffect, CallType, clock
<1> QED
    BY <1>1, <1>2 DEF DataEffect, CallType

LEMMA NextClock ==
    ASSUME CallType, ClockInv, [Next]_vars
    PROVE  CallType' /\ ClockInv'
<1>1. ASSUME NEW c \in Caller, Act(c) \/ Seed(c) \/ Instruct(c) \/ Tick(c)
      PROVE  CallType' /\ ClockInv'
    BY <1>1, BeginKeepsType, BeginKeepsClock
<1>2. ASSUME NEW c \in Caller, Clear(c) \/ Arm(c) \/ getAutoState(c) \/ setAutoState(c) \/ Wipe(c)
      PROVE  CallType' /\ ClockInv'
    BY <1>2, ClockKeepsType, ClearKeepsClock, ArmKeepsClock, GetKeepsClock, SetKeepsClock, WipeKeepsClock
<1>3. ASSUME NEW c \in Caller, DataStep(c)
      PROVE  CallType' /\ ClockInv'
    BY <1>3, DataSteps, DataKeepsType, DataKeepsClock
<1>4. CASE Restart
    <2>1. CallType'
        <3>1. \A c \in Caller : Shaped(plan'[c]) /\ Phase(c)'
            BY <1>4 DEF Restart, Shaped, Phase, Idle
        <3> QED
            BY <1>4, <3>1 DEF Restart, CallType, AutoRow
    <2> QED
        BY <1>4, <2>1, RestartKeepsClock
<1>5. CASE UNCHANGED vars
    <2>1. UNCHANGED <<plan, at, seen, used, timer, leaked, auto, wanted, tangled>>
        BY <1>5 DEF vars, calling, clock, history
    <2> QED
        BY <2>1 DEF CallType, ClockInv, Carried, Phase, Idle, Doing
<1> QED
    BY <1>1, <1>2, <1>3, <1>4, <1>5 DEF Next, DataStep

LEMMA InitClock ==
    ASSUME Init
    PROVE  CallType /\ ClockInv
<1>1. \A c \in Caller : plan[c] = <<>> /\ at[c] = "look"
    BY DEF Init
<1>2. ~OrderPlan(<<>>) /\ ~TickPlan(<<>>)
    BY PlansDiffer DEF OrderPlan, ClearPlan, TickPlan
<1>3. \A c \in Caller : Shaped(plan[c]) /\ Phase(c) /\ Carried(c)
    BY <1>1, <1>2 DEF Shaped, Phase, Idle, Carried, OrderPlan, ClearPlan
<1> QED
    BY <1>1, <1>2, <1>3 DEF Init, CallType, ClockInv, AutoRow

\* Orders given one at a time leave one timer, and it runs only while the last
\* one was to start or until the order under way has cleared it: startAuto,
\* stopAuto and reset each clear the map's timer before they do anything else.
THEOREM OrdersRuleTheTimer == Spec => []TimerObeys
<1>1. CallType /\ ClockInv => TimerObeys
    <2> SUFFICES ASSUME CallType, ClockInv, ~tangled
                 PROVE  leaked = 0 /\ (timer => wanted \/ \E c \in Caller : ClearPlan(plan[c]))
        BY Pendings DEF TimerObeys
    <2>1. CASE \A c \in Caller : ~OrderPlan(plan[c])
        BY <2>1 DEF ClockInv
    <2>2. ASSUME NEW c \in Caller, OrderPlan(plan[c])
          PROVE  ClearPlan(plan[c]) \/ ~timer
        BY <2>2 DEF ClockInv, Carried, OrderPlan
    <2> QED
        BY <2>1, <2>2 DEF ClockInv
<1> QED
    BY <1>1, InitClock, NextClock, PTL DEF Spec

\* Between two orders, with no tick across them, the row the panel reads says
\* what the timer does: each order writes it after it has set or cleared the timer
\* and a tick writes back the running it has read.
THEOREM TheRowTellsTheTimer == Spec => []RowTellsTimer
<1>1. CallType /\ ClockInv => RowTellsTimer
    BY Pendings DEF RowTellsTimer, ClockInv
<1> QED
    BY <1>1, InitClock, NextClock, PTL DEF Spec

----------------------------------------------------------------------------
(* The twins: every row and its account *)

\* What a plan still has to create.
Bears(p, r) == \E i \in DOMAIN p : Creates(p[i]) /\ p[i].on = r
Unborn(r) == row[r] = None /\ account[r] = None
Coming(c, r) == Bears(plan[c], r) /\ ~(at[c] \in {"send", "save", "failed"} /\ Doing(c).on = r)


\* Each id is given out once: nothing is stored of one that is still to come, and
\* only one call is to create it.
BirthInv ==
    /\ \A r \in Res \ used : Unborn(r)
    /\ \A c \in Caller, r \in Res : Bears(plan[c], r) => r \in used
    /\ \A c \in Caller, d \in Caller, r \in Res : Bears(plan[c], r) /\ Bears(plan[d], r) => c = d
    /\ \A c \in Caller, r \in Res : Coming(c, r) => Unborn(r)

Making(c, r) == at[c] # "look" /\ Creates(Doing(c)) /\ Doing(c).on = r

Holds(c, r) == ~Idle(c) /\ at[c] # "look" /\ r \in Touches(Doing(c))
Agrees(r) ==
    IF row[r] = None THEN account[r] = None
    ELSE row[r].linked /\ account[r] = [name |-> row[r].name, value |-> row[r].value]

\* A row and its account while the operation that holds them is half done.
Midst(c, r) ==
    LET op == Doing(c)
        made == row[r] = [name |-> op.with, value |-> TRUE, linked |-> FALSE] IN
    /\ at[c] # "failed"
    /\ at[c] = "insert" => Unborn(r)
    /\ at[c] = "send" => IF Creates(op) THEN made /\ account[r] = None ELSE Agrees(r)
    /\ at[c] = "save" =>
         /\ Creates(op) => made /\ account[r] = [name |-> op.with, value |-> TRUE]
         /\ op.do = "change" => Linked(r) /\ account[r] = [name |-> row[r].name, value |-> op.with]
         /\ op.do = "rename" => Linked(r) /\ account[r] = [name |-> op.with, value |-> row[r].value]
         /\ op.do = "remove" => account[r] = None
         /\ op.do \in {"join", "part"} => Agrees(r)

\* Two operations on one resource have upset it; one leaves it half done, and
\* what none holds agrees.
TwinInv ==
    /\ \A c \in Caller, d \in Caller, r \in Res : Holds(c, r) /\ Holds(d, r) => c = d \/ r \in upset
    /\ \A c \in Caller, r \in Res \ upset : Holds(c, r) => Midst(c, r)
    /\ \A r \in Res \ upset : (\A c \in Caller : ~Holds(c, r)) => Agrees(r)

Meets(c, g, u) ==
    LET op == Doing(c) IN
    /\ ~Idle(c) /\ at[c] = "save"
    /\ \/ op.do \in {"join", "part"} /\ op.on = g /\ op.with = u
       \/ op.do = "remove" /\ op.on \in {g, u}

\* A membership agrees unless an answered change of it is still to be saved.
LinkInv == \A g \in Groups \ upset, u \in Users \ upset :
    /\ (\A c \in Caller : ~Meets(c, g, u)) => (<<g, u>> \in edges <=> <<g, u>> \in links)
    /\ \A c \in Caller : Meets(c, g, u) => (<<g, u>> \in links <=> Doing(c).do = "join")

TwinType ==
    /\ row \in [Res -> Row \cup {None}] /\ account \in [Res -> Account \cup {None}]
    /\ edges \subseteq Groups \X Users /\ links \subseteq Groups \X Users

\* What a step of a call may do to the twins.
BirthEffect(c) ==
    /\ \A r \in Res : Bears(plan'[c], r) => r \in used' /\ (Bears(plan[c], r) \/ r \notin used)
    /\ \A r \in Res : Coming(c, r)' => (Coming(c, r) /\ ~Making(c, r)) \/ r \notin used
    /\ \A r \in Res : Unborn(r) /\ ~Making(c, r) => Unborn(r)'
    /\ used \subseteq used'

TwinEffect(c) ==
    /\ upset \subseteq upset'
    /\ \A r \in Res \ upset' :
         /\ ~Holds(c, r) => row'[r] = row[r] /\ account'[r] = account[r]
         /\ Holds(c, r)' => Midst(c, r)'
         /\ Holds(c, r) /\ ~Holds(c, r)' => Agrees(r)'
         /\ Holds(c, r)' => Holds(c, r) \/ ~Busy(r)

LinkEffect(c) ==
    \A g \in Groups \ upset', u \in Users \ upset' :
        /\ Meets(c, g, u)' => (<<g, u>> \in links' <=> Doing(c)'.do = "join")
        /\ Meets(c, g, u) /\ ~Meets(c, g, u)' => (<<g, u>> \in edges' <=> <<g, u>> \in links')
        /\ ~Meets(c, g, u) /\ ~Meets(c, g, u)' =>
              (<<g, u>> \in edges' <=> <<g, u>> \in edges) /\ (<<g, u>> \in links' <=> <<g, u>> \in links)
        /\ <<g, u>> \in links' \ links => Holds(c, g) /\ Holds(c, u)
        /\ <<g, u>> \in links \ links' => Holds(c, g) \/ Holds(c, u)

Locally(c) ==
    /\ plan' = [plan EXCEPT ![c] = plan'[c]] /\ at' = [at EXCEPT ![c] = at'[c]]

LEMMA OpKinds ==
    ASSUME NEW op, IsOp(op)
    PROVE  /\ op.on \in Res /\ op.on \in Touches(op)
           /\ op.do \in {"create", "insert", "ensure", "rename", "change", "remove", "join", "part"}
           /\ op.do \in {"create", "insert", "ensure", "rename"} => op.with \in Names
           /\ op.do = "change" => op.with \in BOOLEAN
           /\ op.do \in {"join", "part"} => /\ op.on \in Groups /\ op.with \in Users /\ op.with \in Res
                                           /\ Touches(op) = {op.on, op.with}
           /\ op.do \notin {"join", "part"} => Touches(op) = {op.on}
<1>1. CASE op \in Naming
    BY <1>1, NameAssumption DEF Naming, Touches
<1>2. CASE op \in Switch
    BY <1>2, NameAssumption DEF Switch, Touches, Res
<1>3. CASE op \in Edge
    BY <1>3, NameAssumption DEF Edge, Touches, Res
<1>4. CASE op \in Removal
    BY <1>4, NameAssumption DEF Removal, Touches
<1> QED
    BY <1>1, <1>2, <1>3, <1>4 DEF IsOp

LEMMA WordsTouchNothing ==
    \A op \in Orderly \cup {tock, wipe, pick} : Touches(op) = {} /\ ~Creates(op)
BY NameAssumption DEF Orderly, clear, halt, run, arm, tock, wipe, pick, Op, Order, Touches, Creates

Makes(op, r) == Creates(op) /\ op.on = r

\* Plans of the four lengths, word by word.
LEMMA BearsWords ==
    ASSUME NEW r
    PROVE  /\ ~Bears(<<>>, r)
           /\ \A a : Bears(<<a>>, r) <=> Makes(a, r)
           /\ \A a, b : Bears(<<a, b>>, r) <=> Makes(a, r) \/ Makes(b, r)
           /\ \A a, b, e : Bears(<<a, b, e>>, r) <=> Makes(a, r) \/ Makes(b, r) \/ Makes(e, r)
           /\ \A a, b, e, f : Bears(<<a, b, e, f>>, r) <=>
                 Makes(a, r) \/ Makes(b, r) \/ Makes(e, r) \/ Makes(f, r)
<1>1. ASSUME NEW p
      PROVE  Bears(p, r) <=> \E i \in DOMAIN p : Makes(p[i], r)
    BY DEF Bears, Makes
<1>2. ~Bears(<<>>, r)
    BY <1>1
<1>3. \A a : Bears(<<a>>, r) <=> Makes(a, r)
    <2>1. \A a : DOMAIN <<a>> = {1} /\ <<a>>[1] = a
        OBVIOUS
    <2> QED
        BY <2>1, <1>1
<1>4. \A a, b : Bears(<<a, b>>, r) <=> Makes(a, r) \/ Makes(b, r)
    <2>1. \A a, b : DOMAIN <<a, b>> = {1, 2} /\ <<a, b>>[1] = a /\ <<a, b>>[2] = b
        OBVIOUS
    <2> QED
        BY <2>1, <1>1
<1>5. \A a, b, e : Bears(<<a, b, e>>, r) <=> Makes(a, r) \/ Makes(b, r) \/ Makes(e, r)
    <2>1. \A a, b, e : /\ DOMAIN <<a, b, e>> = {1, 2, 3}
                       /\ <<a, b, e>>[1] = a /\ <<a, b, e>>[2] = b /\ <<a, b, e>>[3] = e
        OBVIOUS
    <2> QED
        BY <2>1, <1>1
<1>6. \A a, b, e, f : Bears(<<a, b, e, f>>, r) <=> Makes(a, r) \/ Makes(b, r) \/ Makes(e, r) \/ Makes(f, r)
    <2>1. \A a, b, e, f : /\ DOMAIN <<a, b, e, f>> = {1, 2, 3, 4}
                          /\ <<a, b, e, f>>[1] = a /\ <<a, b, e, f>>[2] = b
                          /\ <<a, b, e, f>>[3] = e /\ <<a, b, e, f>>[4] = f
        OBVIOUS
    <2> QED
        BY <2>1, <1>1
<1> QED
    BY <1>2, <1>3, <1>4, <1>5, <1>6

LEMMA OrdersBearNothing ==
    ASSUME NEW p, OrderPlan(p) \/ p = <<pick, tock>> \/ p = <<tock>> \/ p = <<wipe>>, NEW r
    PROVE  ~Bears(p, r)
<1>1. ~Creates(clear) /\ ~Creates(halt) /\ ~Creates(run) /\ ~Creates(arm) /\ ~Creates(wipe) /\ ~Creates(tock) /\ ~Creates(pick)
    BY WordsTouchNothing DEF Orderly
<1> QED
    BY <1>1, BearsWords DEF OrderPlan, ClearPlan, Makes

\* What is left of a plan is to create nothing its first word creates.
LEMMA TailBears ==
    ASSUME NEW p, Shaped(p), p # <<>>, NEW r, Bears(Tail(p), r)
    PROVE  Bears(p, r) /\ r # Head(p).on
<1>1. CASE ActPlan(p)
    BY <1>1, Tails, BearsWords DEF ActPlan
<1>2. ASSUME NEW u \in EnsureUser, NEW g \in EnsureGroup, NEW j \in Join, p = <<u, g, j>> \/ p = <<g, j>> \/ p = <<j>>
      PROVE  Bears(p, r) /\ r # Head(p).on
    <2>1. u.on \in Users /\ g.on \in Groups /\ ~Makes(j, r)
        BY DEF EnsureUser, EnsureGroup, Join, Makes, Creates
    <2>2. /\ Tail(<<u, g, j>>) = <<g, j>> /\ Tail(<<g, j>>) = <<j>> /\ Tail(<<j>>) = <<>>
          /\ Head(<<u, g, j>>) = u
        BY Tails
    <2>3. p = <<u, g, j>> /\ Makes(g, r)
        BY <1>2, <2>1, <2>2, BearsWords
    <2> QED
        BY <2>1, <2>2, <2>3, BearsWords, NameAssumption DEF Makes
<1>3. CASE TickPlan(p)
    <2>1. ~Bears(<<tock>>, r) /\ ~Bears(<<>>, r)
        BY OrdersBearNothing, BearsWords
    <2> QED
        BY <1>3, <2>1, TickTail
<1>4. CASE OrderPlan(p)
    <2>1. OrderPlan(Tail(p)) \/ Tail(p) = <<>> \/ Tail(p) = <<wipe>>
        BY <1>4, OrderTail DEF OrderPlan
    <2> QED
        BY <2>1, OrdersBearNothing, BearsWords
<1> QED
    BY <1>1, <1>2, <1>3, <1>4 DEF Shaped, SeedPlan

\* Nor is anything created by what an exception leaves.
LEMMA ThrownBears ==
    ASSUME NEW p, NEW r
    PROVE  ~Bears(Thrown(p), r)
BY OrdersBearNothing, BearsWords DEF Thrown

\* The other calls stay where they are.
LEMMA OthersStay ==
    ASSUME CallType, NEW c \in Caller, Locally(c), NEW d \in Caller, d # c
    PROVE  plan'[d] = plan[d] /\ at'[d] = at[d]
BY DEF Locally, CallType

LEMMA BirthStep ==
    ASSUME CallType, BirthInv, NEW c \in Caller, Locally(c), BirthEffect(c)
    PROVE  BirthInv'
<1>1. ASSUME NEW r \in Res, Making(c, r)
      PROVE  Bears(plan[c], r) /\ r \in used
    <2>1. plan[c] # <<>> /\ Shaped(plan[c])
        BY <1>1 DEF CallType, Phase, Idle, Making
    <2>2. 1 \in DOMAIN plan[c] /\ Head(plan[c]) = plan[c][1]
        BY <2>1 DEF Shaped, ActPlan, SeedPlan, TickPlan, OrderPlan, ClearPlan
    <2>3. Bears(plan[c], r)
        BY <1>1, <2>2 DEF Bears, Making, Doing
    <2> QED
        BY <2>3 DEF BirthInv
<1>2. \A r \in Res \ used' : Unborn(r)'
    BY <1>1 DEF BirthInv, BirthEffect
<1>3. ASSUME NEW d \in Caller, NEW r \in Res, Bears(plan'[d], r)
      PROVE  r \in used' /\ (d # c => Bears(plan[d], r))
    BY <1>3, OthersStay DEF BirthInv, BirthEffect
<1>4. ASSUME NEW d \in Caller, NEW e \in Caller, NEW r \in Res, Bears(plan'[d], r), Bears(plan'[e], r)
      PROVE  d = e
    BY <1>3, <1>4 DEF BirthInv, BirthEffect
<1>5. ASSUME NEW d \in Caller, NEW r \in Res, Coming(d, r)'
      PROVE  Unborn(r)'
    <2>1. CASE d = c
        BY <1>1, <1>5, <2>1 DEF BirthInv, BirthEffect
    <2>2. CASE d # c
        <3>1. Coming(d, r)
            BY <1>5, <2>2, OthersStay DEF Coming, Doing
        <3>2. ~Making(c, r)
            BY <1>1, <2>2, <3>1 DEF BirthInv, Coming
        <3> QED
            BY <3>1, <3>2 DEF BirthInv, BirthEffect
    <2> QED
        BY <2>1, <2>2
<1> QED
    BY <1>2, <1>3, <1>4, <1>5 DEF BirthInv

LEMMA TwinStep ==
    ASSUME CallType, TwinInv, NEW c \in Caller, Locally(c), TwinEffect(c)
    PROVE  TwinInv'
<1>1. ASSUME NEW d \in Caller, d # c, NEW r \in Res
      PROVE  Holds(d, r)' <=> Holds(d, r)
    BY <1>1, OthersStay DEF Holds, Idle, Doing
<1>2. ASSUME NEW r \in Res \ upset'
      PROVE  r \in Res \ upset
    BY DEF TwinEffect
<1>3. ASSUME NEW d \in Caller, d # c, NEW r \in Res \ upset', Holds(d, r)
      PROVE  ~Holds(c, r) /\ ~Holds(c, r)'
    BY <1>2, <1>3 DEF TwinEffect, TwinInv, Busy, Holds
<1>4. ASSUME NEW d \in Caller, NEW e \in Caller, NEW r \in Res, Holds(d, r)', Holds(e, r)', r \notin upset'
      PROVE  d = e
    <2>1. CASE d # c /\ e # c
        BY <1>1, <1>2, <1>4, <2>1 DEF TwinInv
    <2>2. CASE d = c /\ e # c
        BY <1>1, <1>3, <1>4, <2>2
    <2>3. CASE d # c /\ e = c
        BY <1>1, <1>3, <1>4, <2>3
    <2> QED
        BY <2>1, <2>2, <2>3
<1>5. ASSUME NEW d \in Caller, NEW r \in Res \ upset', Holds(d, r)'
      PROVE  Midst(d, r)'
    <2>1. CASE d = c
        BY <1>5, <2>1 DEF TwinEffect
    <2>2. CASE d # c
        <3>1. Holds(d, r) /\ ~Holds(c, r)
            BY <1>1, <1>3, <1>5, <2>2
        <3>2. Midst(d, r) /\ row'[r] = row[r] /\ account'[r] = account[r]
            BY <1>2, <3>1 DEF TwinInv, TwinEffect
        <3>3. Doing(d)' = Doing(d) /\ at'[d] = at[d]
            BY <2>2, OthersStay DEF Doing
        <3> QED
            BY <3>2, <3>3 DEF Midst, Unborn, Linked, Agrees
    <2> QED
        BY <2>1, <2>2
<1>6. ASSUME NEW r \in Res \ upset', \A d \in Caller : ~Holds(d, r)'
      PROVE  Agrees(r)'
    <2>1. CASE Holds(c, r)
        BY <1>6, <2>1 DEF TwinEffect
    <2>2. CASE ~Holds(c, r)
        <3>1. \A d \in Caller : ~Holds(d, r)
            BY <1>1, <1>6, <2>2
        <3> QED
            BY <1>2, <2>2, <3>1 DEF TwinInv, TwinEffect, Agrees
    <2> QED
        BY <2>1, <2>2
<1> QED
    BY <1>4, <1>5, <1>6 DEF TwinInv

\* A call that is to save a membership, or a removal, holds what it is about.
LEMMA MeetsHolds ==
    ASSUME CallType, NEW c \in Caller, NEW g \in Groups, NEW u \in Users, Meets(c, g, u)
    PROVE  /\ Doing(c).do # "remove" => Holds(c, g) /\ Holds(c, u)
           /\ Holds(c, g) \/ Holds(c, u)
<1>1. IsOp(Doing(c)) /\ ~Idle(c) /\ at[c] = "save"
    BY DEF Meets, CallType, Phase
<1> QED
    BY <1>1, OpKinds DEF Meets, Holds

LEMMA LinkStep ==
    ASSUME CallType, TwinInv, TwinInv', LinkInv, NEW c \in Caller, Locally(c), LinkEffect(c), upset \subseteq upset'
    PROVE  LinkInv'
<1> SUFFICES ASSUME NEW g \in Groups \ upset', NEW u \in Users \ upset'
             PROVE  /\ (\A d \in Caller : ~Meets(d, g, u)') => (<<g, u>> \in edges' <=> <<g, u>> \in links')
                    /\ \A d \in Caller : Meets(d, g, u)' => (<<g, u>> \in links' <=> Doing(d)'.do = "join")
    BY DEF LinkInv
<1>1. g \in Groups \ upset /\ u \in Users \ upset /\ g \in Res /\ u \in Res
    BY DEF Res
<1>2. ASSUME NEW d \in Caller, d # c
      PROVE  (Meets(d, g, u)' <=> Meets(d, g, u)) /\ Doing(d)' = Doing(d)
    BY <1>2, OthersStay DEF Meets, Idle, Doing
<1>3. ASSUME \A d \in Caller : ~Meets(d, g, u)'
      PROVE  <<g, u>> \in edges' <=> <<g, u>> \in links'
    <2>1. CASE Meets(c, g, u)
        BY <1>3, <2>1 DEF LinkEffect
    <2>2. CASE ~Meets(c, g, u)
        BY <1>1, <1>2, <1>3, <2>2 DEF LinkEffect, LinkInv
    <2> QED
        BY <2>1, <2>2
<1>4. ASSUME NEW d \in Caller, Meets(d, g, u)'
      PROVE  <<g, u>> \in links' <=> Doing(d)'.do = "join"
    <2>1. CASE d = c
        BY <1>4, <2>1 DEF LinkEffect
    <2>2. CASE d # c
        <3>1. Meets(d, g, u) /\ Doing(d)' = Doing(d) /\ (<<g, u>> \in links <=> Doing(d).do = "join")
            BY <1>1, <1>2, <1>4, <2>2 DEF LinkInv
        <3>2. ASSUME Holds(c, g), Holds(d, g)
              PROVE  FALSE
            BY <1>1, <2>2, <3>2 DEF TwinInv
        <3>3. ASSUME Holds(c, u), Holds(d, u)
              PROVE  FALSE
            BY <1>1, <2>2, <3>3 DEF TwinInv
        <3>4. Doing(d).do # "remove" => (<<g, u>> \in links' <=> <<g, u>> \in links)
            BY <3>1, <3>2, <3>3, MeetsHolds DEF LinkEffect
        <3>5. <<g, u>> \notin links \/ Doing(d).do # "remove"
            BY <3>1
        <3>6. Doing(d).do = "remove" => <<g, u>> \notin links'
            BY <3>1, <3>2, <3>3, <3>5, MeetsHolds DEF LinkEffect
        <3> QED
            BY <3>1, <3>4, <3>6
    <2> QED
        BY <2>1, <2>2
<1> QED
    BY <1>3, <1>4

\* A call that goes on to its next word, or is thrown out, holds nothing.
LEMMA LetsGo ==
    ASSUME CallType, NEW c \in Caller, ~Idle(c), Advance(c) \/ Throw(c)
    PROVE  /\ Locally(c) /\ at'[c] = "look"
           /\ \A r : Bears(plan'[c], r) => Bears(plan[c], r) /\ r # Doing(c).on
           /\ \A r : ~Holds(c, r)'
           /\ \A g, u : ~Meets(c, g, u)'
<1>1. Locally(c) /\ at'[c] = "look" /\ (plan'[c] = Tail(plan[c]) \/ plan'[c] = Thrown(plan[c]))
    BY DEF Advance, Throw, Thrown, tock, Locally, CallType
<1>2. Shaped(plan[c]) /\ plan[c] # <<>>
    BY DEF CallType, Idle
<1> QED
    BY <1>1, <1>2, TailBears, ThrownBears DEF Holds, Meets, Doing

\* A call at the next step of a word is still about that word.
LEMMA StaysOn ==
    ASSUME CallType, NEW c \in Caller, ~Idle(c), NEW step, GoTo(c, step)
    PROVE  /\ Locally(c) /\ at'[c] = step /\ plan'[c] = plan[c] /\ Doing(c)' = Doing(c) /\ ~Idle(c)'
           /\ \A r : step # "look" => (Holds(c, r)' <=> r \in Touches(Doing(c)))
<1>1. Locally(c) /\ at'[c] = step /\ plan' = plan
    BY DEF GoTo, Locally, CallType
<1> QED
    BY <1>1 DEF Holds, Doing, Idle

LEMMA OnwardBirths ==
    ASSUME CallType, BirthInv, NEW c \in Caller, ~Idle(c), used' = used,
           \/ Advance(c) \/ Throw(c)
           \/ \E step \in {"send", "save", "failed"} : GoTo(c, step)
           \/ GoTo(c, "insert") /\ at[c] = "look",
           \A r \in Res : Unborn(r) /\ ~Making(c, r) => Unborn(r)'
    PROVE  BirthEffect(c)
<1>1. CASE Advance(c) \/ Throw(c)
    BY <1>1, LetsGo DEF BirthEffect, BirthInv, Coming, Making
<1>2. ASSUME NEW step \in {"send", "save", "failed"}, GoTo(c, step)
      PROVE  BirthEffect(c)
    BY <1>2, StaysOn DEF BirthEffect, BirthInv, Coming, Making
<1>3. CASE GoTo(c, "insert") /\ at[c] = "look"
    BY <1>3, StaysOn DEF BirthEffect, BirthInv, Coming, Making
<1> QED
    BY <1>1, <1>2, <1>3

\* What the answered call changes upstream.
LEMMA DoesType ==
    ASSUME TwinType, NEW op, IsOp(op), Possible(op), Does(op)
    PROVE  /\ account' \in [Res -> Account \cup {None}] /\ links' \subseteq Groups \X Users
           /\ \A r \in Res : r # op.on => account'[r] = account[r]
           /\ Creates(op) => account'[op.on] = [name |-> op.with, value |-> TRUE]
           /\ op.do = "change" => account[op.on] # None /\ account'[op.on] = [account[op.on] EXCEPT !.value = op.with]
           /\ op.do = "rename" => account[op.on] # None /\ account'[op.on] = [account[op.on] EXCEPT !.name = op.with]
           /\ op.do = "remove" => account'[op.on] = None
           /\ op.do \in {"join", "part"} => account' = account
<1>1. CASE Creates(op)
    <2>1. account' = [account EXCEPT ![op.on] = [name |-> op.with, value |-> TRUE]] /\ links' = links
        BY <1>1 DEF Does, Creates
    <2>2. [name |-> op.with, value |-> TRUE] \in Account
        BY <1>1, OpKinds DEF Account, Creates
    <2> QED
        BY <1>1, <2>1, <2>2, OpKinds DEF TwinType, Creates
<1>2. CASE op.do = "change"
    <2>1. account' = [account EXCEPT ![op.on].value = op.with] /\ links' = links /\ account[op.on] # None
        BY <1>2 DEF Does, Creates, Possible
    <2>2. account[op.on] \in Account /\ [account[op.on] EXCEPT !.value = op.with] \in Account
        BY <1>2, <2>1, OpKinds DEF Account, TwinType
    <2> QED
        BY <1>2, <2>1, <2>2, OpKinds DEF TwinType, Creates
<1>3. CASE op.do = "rename"
    <2>1. account' = [account EXCEPT ![op.on].name = op.with] /\ links' = links /\ account[op.on] # None
        BY <1>3 DEF Does, Creates, Possible
    <2>2. account[op.on] \in Account /\ [account[op.on] EXCEPT !.name = op.with] \in Account
        BY <1>3, <2>1, OpKinds DEF Account, TwinType
    <2> QED
        BY <1>3, <2>1, <2>2, OpKinds DEF TwinType, Creates
<1>4. CASE op.do = "remove"
    <2>1. account' = [account EXCEPT ![op.on] = None] /\ links' \subseteq links
        BY <1>4 DEF Does, Creates
    <2> QED
        BY <1>4, <2>1, OpKinds DEF TwinType, Creates
<1>5. CASE op.do \in {"join", "part"}
    <2>1. account' = account /\ links' \subseteq links \cup {<<op.on, op.with>>}
        BY <1>5 DEF Does, Creates
    <2> QED
        BY <1>5, <2>1, OpKinds DEF TwinType, Creates
<1> QED
    BY <1>1, <1>2, <1>3, <1>4, <1>5, OpKinds DEF Creates

\* What the local tables take of an operation that nothing clashes with.
LEMMA SavedType ==
    ASSUME TwinType, NEW op, IsOp(op), NEW ok \in BOOLEAN
    PROVE  /\ Saved(op, ok) \in [Res -> Row \cup {None}]
           /\ \A r \in Res : r # op.on => Saved(op, ok)[r] = row[r]
           /\ row[op.on] = None => Saved(op, ok)[op.on] = None
           /\ Creates(op) /\ row[op.on] # None => 
                 Saved(op, ok)[op.on] = IF ok THEN [row[op.on] EXCEPT !.linked = TRUE] ELSE row[op.on]
           /\ op.do = "change" /\ row[op.on] # None => Saved(op, ok)[op.on] = [row[op.on] EXCEPT !.value = op.with]
           /\ op.do = "rename" /\ row[op.on] # None => Saved(op, ok)[op.on] = [row[op.on] EXCEPT !.name = op.with]
           /\ op.do = "remove" => Saved(op, ok)[op.on] = None
           /\ op.do \in {"join", "part"} => Saved(op, ok) = row
<1>1. row[op.on] # None => row[op.on] \in Row
    BY OpKinds DEF TwinType
<1>2. CASE Creates(op)
    <2>1. Saved(op, ok) = [row EXCEPT ![op.on] = IF row[op.on] # None /\ ok
                                                 THEN [row[op.on] EXCEPT !.linked = TRUE] ELSE row[op.on]]
        BY <1>2 DEF Saved, Creates
    <2>2. row[op.on] # None => [row[op.on] EXCEPT !.linked = TRUE] \in Row
        BY <1>1 DEF Row
    <2> QED
        BY <1>2, <2>1, <2>2, OpKinds DEF TwinType, Creates
<1>3. CASE op.do = "change"
    <2>1. Saved(op, ok) = [row EXCEPT ![op.on] = IF row[op.on] = None THEN None
                                                 ELSE [row[op.on] EXCEPT !.value = op.with]]
        BY <1>3 DEF Saved, Creates
    <2>2. row[op.on] # None => [row[op.on] EXCEPT !.value = op.with] \in Row
        BY <1>1, <1>3, OpKinds DEF Row
    <2> QED
        BY <1>3, <2>1, <2>2, OpKinds DEF TwinType, Creates
<1>4. CASE op.do = "rename"
    <2>1. Saved(op, ok) = [row EXCEPT ![op.on] = IF row[op.on] = None THEN None
                                                 ELSE [row[op.on] EXCEPT !.name = op.with]]
        BY <1>4 DEF Saved, Creates
    <2>2. row[op.on] # None => [row[op.on] EXCEPT !.name = op.with] \in Row
        BY <1>1, <1>4, OpKinds DEF Row
    <2> QED
        BY <1>4, <2>1, <2>2, OpKinds DEF TwinType, Creates
<1>5. CASE op.do = "remove"
    <2>1. Saved(op, ok) = [row EXCEPT ![op.on] = None]
        BY <1>5 DEF Saved, Creates
    <2> QED
        BY <1>5, <2>1, OpKinds DEF TwinType, Creates
<1>6. CASE op.do \in {"join", "part"}
    BY <1>6 DEF Saved, Creates, TwinType
<1> QED
    BY <1>2, <1>3, <1>4, <1>5, <1>6, OpKinds DEF Creates

\* And it creates only what it was to create.
LEMMA EnsuredBears ==
    ASSUME NEW p, Shaped(p), p # <<>>, Head(p).do = "ensure", NEW s \in Kind(Head(p).on),
           NEW A, NEW q \in [1 .. Len(p) - 1 -> A],
           \A i \in 1 .. Len(p) - 1 : q[i] = Instead(p[i + 1], Head(p).on, s),
           NEW r, Bears(q, r)
    PROVE  Bears(p, r)
<1>1. PICK i \in DOMAIN q : Creates(q[i]) /\ q[i].on = r
    BY DEF Bears
<1>2. i \in 1 .. Len(p) - 1 /\ i + 1 \in DOMAIN p /\ q[i] = Instead(p[i + 1], Head(p).on, s)
    <2>1. DOMAIN p = 1 .. Len(p) /\ Len(p) \in Nat
        BY DEF Shaped, ActPlan, SeedPlan, TickPlan, OrderPlan, ClearPlan
    <2> QED
        BY <1>1, <2>1
<1>3. PICK u \in EnsureUser, g \in EnsureGroup, j \in Join : p = <<u, g, j>> \/ p = <<g, j>>
    BY <1>2, EnsureHeads DEF ActPlan
<1>4. CASE p = <<u, g, j>>
    <2>1. u.on \in Users /\ g.on \in Groups /\ Head(p) = u
        BY <1>4 DEF EnsureUser, EnsureGroup
    <2>2. Instead(g, u.on, s).on = g.on /\ Instead(g, u.on, s).do = g.do /\ Instead(j, u.on, s).do = "join"
        BY <2>1, NameAssumption DEF Instead, EnsureGroup, Join
    <2>3. p[2] = g /\ p[3] = j /\ (i = 1 \/ i = 2)
        BY <1>2, <1>4
    <2>4. i = 1
        BY <1>1, <1>2, <2>1, <2>2, <2>3 DEF Creates
    <2> QED
        BY <1>1, <1>2, <2>1, <2>2, <2>3, <2>4 DEF Bears, Creates
<1>5. CASE p = <<g, j>>
    <2>1. Head(p) = g /\ p[2] = j /\ i = 1
        BY <1>2, <1>5
    <2>2. Instead(j, g.on, s).do = "join"
        BY DEF Instead, Join
    <2> QED
        BY <1>1, <1>2, <2>1, <2>2 DEF Creates
<1> QED
    BY <1>3, <1>4, <1>5

Twins == CallType /\ TwinType /\ BirthInv /\ TwinInv /\ LinkInv
Effects(c) == Locally(c) /\ TwinType' /\ BirthEffect(c) /\ TwinEffect(c) /\ LinkEffect(c)

\* What an operation starts on is free, or has been upset.
LEMMA Overlaps ==
    ASSUME NEW c \in Caller, at[c] = "look", Overlap(c)
    PROVE  upset \subseteq upset' /\ \A r \in Touches(Doing(c)) : r \notin upset' => ~Busy(r)
BY DEF Overlap, Busy

\* The first word of a plan, when it creates, is still to come until it is sent.
LEMMA HeadBears ==
    ASSUME Twins, NEW c \in Caller, ~Idle(c), IsOp(Doing(c)), Creates(Doing(c))
    PROVE  /\ Bears(plan[c], Doing(c).on) /\ Doing(c).on \in used
           /\ at[c] \in {"look", "insert"} => Unborn(Doing(c).on)
<1>1. plan[c] # <<>> /\ Shaped(plan[c])
    BY DEF CallType, Idle, Twins
<1>2. 1 \in DOMAIN plan[c] /\ Head(plan[c]) = plan[c][1]
    BY <1>1 DEF Shaped, ActPlan, SeedPlan, TickPlan, OrderPlan, ClearPlan
<1>3. Bears(plan[c], Doing(c).on)
    BY <1>2 DEF Bears, Doing
<1>4. Doing(c).on \in Res
    BY OpKinds
<1> QED
    BY <1>3, <1>4 DEF Twins, BirthInv, Coming

LEMMA StayedEffects ==
    ASSUME Twins, NEW c \in Caller, ~Idle(c), UNCHANGED <<tables, upstream>>, used' = used,
           upset \subseteq upset', \A r : ~Holds(c, r), \A g, u : ~Meets(c, g, u),
           Locally(c), BirthEffect(c),
           \A r \in Res \ upset' : Holds(c, r)' => Midst(c, r)' /\ ~Busy(r),
           \A g \in Groups \ upset', u \in Users \ upset' : ~Meets(c, g, u)'
    PROVE  Effects(c)
<1>1. row' = row /\ account' = account /\ edges' = edges /\ links' = links
    BY DEF tables, upstream
<1>2. TwinType'
    BY <1>1 DEF TwinType, Twins
<1>3. TwinEffect(c)
    BY <1>1 DEF TwinEffect
<1>4. LinkEffect(c)
    BY <1>1 DEF LinkEffect
<1> QED
    BY <1>2, <1>3, <1>4 DEF Effects

LEMMA LookEffects ==
    ASSUME Twins, NEW c \in Caller, Look(c)
    PROVE  Effects(c)
<1>1. /\ ~Idle(c) /\ at[c] = "look" /\ UNCHANGED <<tables, upstream>> /\ used' = used
      /\ \A r : ~Holds(c, r)
      /\ \A r \in Res : ~Making(c, r)
      /\ \A g, u : ~Meets(c, g, u)
    BY DEF Look, Is, Rests, Quiet, Holds, Making, Meets
<1>2. upset \subseteq upset' /\ \A r \in Touches(Doing(c)) : r \notin upset' => ~Busy(r)
    BY <1>1, Overlaps DEF Look
<1>3. IsOp(Doing(c))
    BY <1>1, WordIsOp DEF Look, Is, Twins
<1>4. row' = row /\ account' = account /\ \A r : Unborn(r)' <=> Unborn(r)
    BY <1>1 DEF tables, upstream, Unborn
<1>5. \A r \in Res : r \in Touches(Doing(c)) /\ r \notin upset' => Agrees(r)
    BY <1>2 DEF Twins, TwinInv, Busy, Holds
<1>6. CASE Advance(c)
    <2>1. BirthEffect(c)
        BY <1>1, <1>4, <1>6, OnwardBirths DEF Twins
    <2> QED
        BY <1>1, <1>2, <1>6, <2>1, LetsGo, StayedEffects DEF Twins
<1>7. ASSUME NEW step \in {"insert", "send", "save"}, GoTo(c, step),
             step = "insert" => Creates(Doing(c)),
             step = "send" => ~Creates(Doing(c)),
             step = "save" => Doing(c).do = "remove" /\ row[Doing(c).on] # None /\ ~Linked(Doing(c).on)
      PROVE  Effects(c)
    <2>1. BirthEffect(c)
        BY <1>1, <1>4, <1>7, OnwardBirths DEF Twins
    <2>2. /\ Locally(c) /\ at'[c] = step /\ Doing(c)' = Doing(c)
          /\ \A r : Holds(c, r)' <=> r \in Touches(Doing(c))
        BY <1>1, <1>7, StaysOn DEF Twins
    <2>3. ASSUME NEW r \in Res \ upset', Holds(c, r)'
          PROVE  Midst(c, r)' /\ ~Busy(r)
        <3>1. r \in Touches(Doing(c)) /\ ~Busy(r) /\ Agrees(r)
            BY <1>2, <1>5, <2>2, <2>3
        <3>2. CASE step = "insert"
            <4>1. r = Doing(c).on /\ Unborn(r)
                BY <1>1, <1>3, <1>7, <3>1, <3>2, OpKinds, HeadBears DEF Creates
            <4> QED
                BY <1>4, <2>2, <3>1, <3>2, <4>1 DEF Midst
        <3>3. CASE step = "send"
            BY <1>4, <1>7, <2>2, <3>1, <3>3 DEF Midst, Agrees
        <3>4. CASE step = "save"
            BY <1>3, <1>7, <3>1, <3>4, OpKinds DEF Agrees, Linked
        <3> QED
            BY <3>2, <3>3, <3>4
    <2>4. step = "save" => Doing(c).on \in upset'
        BY <1>3, <1>5, <1>7, OpKinds DEF Agrees, Linked
    <2>5. ASSUME NEW g \in Groups \ upset', NEW u \in Users \ upset'
          PROVE  ~Meets(c, g, u)'
        BY <1>7, <2>2, <2>4 DEF Meets
    <2> QED
        BY <1>1, <1>2, <2>1, <2>2, <2>3, <2>5, StayedEffects
<1> QED
    BY <1>3, <1>6, <1>7, OpKinds DEF Look, Is, Creates

LEMMA EnsureEffects ==
    ASSUME Twins, NEW c \in Caller, Ensure(c)
    PROVE  Effects(c)
<1>1. /\ ~Idle(c) /\ at[c] = "look" /\ UNCHANGED <<tables, upstream>> /\ used' = used
      /\ Doing(c).do = "ensure" /\ \A r \in Res : ~Making(c, r)
    BY DEF Ensure, Is, Rests, Quiet, Making
<1>2. upset \subseteq upset' /\ \A r \in Touches(Doing(c)) : r \notin upset' => ~Busy(r)
    BY <1>1, Overlaps DEF Ensure
<1>3. IsOp(Doing(c)) /\ Shaped(plan[c]) /\ plan[c] # <<>>
    BY <1>1, WordIsOp DEF Twins
<1>4. \A r : Unborn(r)' <=> Unborn(r)
    BY <1>1 DEF tables, upstream, Unborn
<1>5. (\A r : ~Holds(c, r)) /\ (\A g, u : ~Meets(c, g, u))
    BY <1>1 DEF Holds, Meets
<1>6. CASE GoTo(c, "insert")
    <2>1. BirthEffect(c)
        BY <1>1, <1>4, <1>6, OnwardBirths DEF Twins
    <2>2. /\ Locally(c) /\ at'[c] = "insert" /\ Doing(c)' = Doing(c)
          /\ \A r : Holds(c, r)' <=> r \in Touches(Doing(c))
        BY <1>1, <1>6, StaysOn DEF Twins
    <2>3. ASSUME NEW r \in Res \ upset', Holds(c, r)'
          PROVE  Midst(c, r)' /\ ~Busy(r)
        <3>1. r = Doing(c).on /\ Unborn(r) /\ ~Busy(r)
            BY <1>1, <1>2, <1>3, <2>2, <2>3, OpKinds, HeadBears DEF Creates
        <3> QED
            BY <1>4, <2>2, <3>1 DEF Midst
    <2>4. \A g, u : ~Meets(c, g, u)'
        BY <2>2 DEF Meets
    <2> QED
        BY <1>1, <1>2, <1>5, <2>1, <2>2, <2>3, <2>4, StayedEffects
<1>7. CASE UNCHANGED at
    <2> DEFINE there == Named(Doing(c).on, Doing(c).with)
               found == CHOOSE s \in there : TRUE
               q == [i \in 1 .. Len(plan[c]) - 1 |-> Instead(plan[c][i + 1], Doing(c).on, found)]
    <2>1. plan' = [plan EXCEPT ![c] = q] /\ there # {}
        BY <1>1, <1>7 DEF Ensure, GoTo, Twins, CallType
    <2>2. found \in Kind(Doing(c).on)
        BY <2>1 DEF Named
    <2>3. q \in [1 .. Len(plan[c]) - 1 -> {Instead(plan[c][i + 1], Doing(c).on, found) : i \in 1 .. Len(plan[c]) - 1}]
        OBVIOUS
    <2>4. \A r : Bears(q, r) => Bears(plan[c], r)
        <3> HIDE DEF found, there
        <3>1. \A i \in 1 .. Len(plan[c]) - 1 : q[i] = Instead(plan[c][i + 1], Doing(c).on, found)
            OBVIOUS
        <3> HIDE DEF q
        <3> QED
            BY <1>1, <1>3, <2>2, <2>3, <3>1, EnsuredBears DEF Doing
    <2> HIDE DEF q
    <2>5. Locally(c) /\ plan'[c] = q /\ at'[c] = "look"
        BY <1>1, <1>7, <2>1 DEF Locally, Twins, CallType
    <2>6. BirthEffect(c)
        BY <1>1, <1>4, <2>4, <2>5 DEF BirthEffect, Twins, BirthInv, Coming
    <2>7. (\A r : ~Holds(c, r)') /\ (\A g, u : ~Meets(c, g, u)')
        BY <2>5 DEF Holds, Meets
    <2> QED
        BY <1>1, <1>2, <1>5, <2>5, <2>6, <2>7, StayedEffects
<1> QED
    BY <1>6, <1>7 DEF Ensure

LEMMA InsertEffects ==
    ASSUME Twins, NEW c \in Caller, Insert(c)
    PROVE  Effects(c)
<1> DEFINE op == Doing(c)
<1>1. /\ ~Idle(c) /\ at[c] = "insert" /\ UNCHANGED <<edges, account, links>> /\ used' = used /\ upset' = upset
      /\ Creates(op)
    BY DEF Insert, Is, Quiet, Creates, upstream
<1>2. IsOp(op) /\ op.on \in Res /\ Touches(op) = {op.on} /\ op.with \in Names
    BY <1>1, OpKinds DEF Twins, CallType, Phase, Creates
<1>3. Unborn(op.on)
    BY <1>1, <1>2, HeadBears
<1>4. \A r : Holds(c, r) <=> r = op.on
    BY <1>1, <1>2 DEF Holds
<1>5. \A g, u : ~Meets(c, g, u)
    BY <1>1 DEF Meets
<1>6. \A r : Making(c, r) <=> r = op.on
    BY <1>1 DEF Making
<1>7. CASE Throw(c) /\ row' = row
    <2>1. BirthEffect(c)
        BY <1>1, <1>7, OnwardBirths DEF Unborn, Twins
    <2>2. Locally(c) /\ (\A r : ~Holds(c, r)') /\ (\A g, u : ~Meets(c, g, u)')
        BY <1>1, <1>7, LetsGo DEF Twins
    <2>3. TwinType'
        BY <1>1, <1>7 DEF Twins, TwinType
    <2>4. TwinEffect(c)
        BY <1>1, <1>3, <1>4, <1>7, <2>2 DEF TwinEffect, Agrees, Unborn
    <2>5. LinkEffect(c)
        BY <1>1, <1>5, <2>2 DEF LinkEffect
    <2> QED
        BY <2>1, <2>2, <2>3, <2>4, <2>5 DEF Effects
<1>8. CASE /\ row' = [row EXCEPT ![op.on] = [name |-> op.with, value |-> TRUE, linked |-> FALSE]]
           /\ GoTo(c, "send")
    <2>1. [name |-> op.with, value |-> TRUE, linked |-> FALSE] \in Row
        BY <1>2 DEF Row
    <2>2. /\ row' \in [Res -> Row \cup {None}] /\ row'[op.on] = [name |-> op.with, value |-> TRUE, linked |-> FALSE]
          /\ \A r \in Res : r # op.on => row'[r] = row[r]
        BY <1>2, <1>8, <2>1 DEF Twins, TwinType
    <2>3. BirthEffect(c)
        BY <1>1, <1>6, <1>8, <2>2, OnwardBirths DEF Unborn, Twins
    <2>4. /\ Locally(c) /\ at'[c] = "send" /\ Doing(c)' = op
          /\ \A r : Holds(c, r)' <=> r = op.on
        BY <1>1, <1>2, <1>8, StaysOn DEF Twins
    <2>5. \A g, u : ~Meets(c, g, u)'
        BY <2>4 DEF Meets
    <2>6. TwinType'
        BY <1>1, <2>2 DEF Twins, TwinType
    <2>7. Midst(c, op.on)'
        BY <1>1, <1>3, <2>2, <2>4 DEF Midst, Unborn
    <2>8. TwinEffect(c)
        BY <1>1, <1>4, <2>2, <2>4, <2>7 DEF TwinEffect
    <2>9. LinkEffect(c)
        BY <1>1, <1>5, <2>5 DEF LinkEffect
    <2> QED
        BY <2>3, <2>4, <2>6, <2>8, <2>9 DEF Effects
<1> QED
    BY <1>7, <1>8 DEF Insert

\* The call that holds a resource finds it as it left it.
LEMMA HeldMidst ==
    ASSUME Twins, NEW c \in Caller, NEW r \in Res \ upset, Holds(c, r)
    PROVE  Midst(c, r)
BY DEF Twins, TwinInv

LEMMA AnsweredSend ==
    ASSUME Twins, NEW c \in Caller, ~Idle(c), at[c] = "send", IsOp(Doing(c)), Possible(Doing(c)), Does(Doing(c)),
           NEW r \in Res \ upset, r \in Touches(Doing(c)), row' = row, at'[c] = "save", Doing(c)' = Doing(c)
    PROVE  Midst(c, r)'
<1> DEFINE op == Doing(c)
<1>1. Holds(c, r)
    BY DEF Holds
<1>2. IF Creates(op) THEN /\ row[r] = [name |-> op.with, value |-> TRUE, linked |-> FALSE]
                          /\ account[r] = None
                     ELSE Agrees(r)
    BY <1>1, HeldMidst DEF Midst
<1>3. row[r] # None => row[r] \in Row
    BY DEF Twins, TwinType
<1>4. CASE op.do \in {"join", "part"}
    BY <1>2, <1>4, DoesType, OpKinds DEF Midst, Agrees, Creates, Twins
<1>5. CASE op.do \notin {"join", "part"}
    <2>1. r = op.on
        BY <1>5, OpKinds
    <2>2. CASE Creates(op)
        BY <1>2, <2>1, <2>2, DoesType DEF Midst, Creates, Twins
    <2>3. CASE op.do = "change"
        <3>1. Linked(r) /\ account[r] = [name |-> row[r].name, value |-> row[r].value]
            BY <1>2, <2>1, <2>3, DoesType DEF Agrees, Linked, Creates, Twins
        <3>2. account'[r] = [account[r] EXCEPT !.value = op.with]
            BY <2>1, <2>3, DoesType DEF Twins
        <3>3. account'[r] = [name |-> row[r].name, value |-> op.with]
            BY <3>1, <3>2
        <3> QED
            BY <2>3, <3>1, <3>3 DEF Midst, Creates, Linked
    <2>4. CASE op.do = "rename"
        <3>1. Linked(r) /\ account[r] = [name |-> row[r].name, value |-> row[r].value]
            BY <1>2, <2>1, <2>4, DoesType DEF Agrees, Linked, Creates, Twins
        <3>2. account'[r] = [account[r] EXCEPT !.name = op.with]
            BY <2>1, <2>4, DoesType DEF Twins
        <3>3. account'[r] = [name |-> op.with, value |-> row[r].value]
            BY <3>1, <3>2
        <3> QED
            BY <2>4, <3>1, <3>3 DEF Midst, Creates, Linked
    <2>5. CASE op.do = "remove"
        BY <2>1, <2>5, DoesType DEF Midst, Creates, Twins
    <2> QED
        BY <1>5, <2>2, <2>3, <2>4, <2>5, OpKinds DEF Creates
<1> QED
    BY <1>4, <1>5

\* Upstream, memberships change only where the operation is.
LEMMA DoesLinks ==
    ASSUME NEW op, IsOp(op), Does(op), NEW g \in Groups, NEW u \in Users
    PROVE  /\ <<g, u>> \in links' \ links => g \in Touches(op) /\ u \in Touches(op)
           /\ <<g, u>> \in links \ links' => g \in Touches(op) \/ u \in Touches(op)
           /\ op.do \in {"join", "part"} /\ op.on = g /\ op.with = u => (<<g, u>> \in links' <=> op.do = "join")
           /\ op.do = "remove" /\ op.on \in {g, u} => <<g, u>> \notin links'
           /\ ~(op.do \in {"join", "part"} /\ op.on = g /\ op.with = u) /\ ~(op.do = "remove" /\ op.on \in {g, u})
                => (<<g, u>> \in links' <=> <<g, u>> \in links)
<1>1. <<g, u>>[1] = g /\ <<g, u>>[2] = u
    OBVIOUS
<1>2. CASE op.do = "join"
    <2>1. links' = links \cup {<<op.on, op.with>>}
        BY <1>2 DEF Does
    <2> QED
        BY <1>2, <2>1, OpKinds
<1>3. CASE op.do = "part"
    <2>1. links' = links \ {<<op.on, op.with>>}
        BY <1>3 DEF Does
    <2> QED
        BY <1>3, <2>1, OpKinds
<1>4. CASE op.do = "remove"
    <2>1. links' = {e \in links : op.on \notin {e[1], e[2]}}
        BY <1>4 DEF Does
    <2> QED
        BY <1>1, <1>4, <2>1, OpKinds
<1>5. CASE op.do \notin {"join", "part", "remove"}
    BY <1>5 DEF Does
<1> QED
    BY <1>2, <1>3, <1>4, <1>5

\* What is still to come stays so upstream, unless it is made.
LEMMA DoesBirths ==
    ASSUME Twins, NEW c \in Caller, at[c] = "send", IsOp(Doing(c)), Possible(Doing(c)), Does(Doing(c)),
           NEW r \in Res, Unborn(r), ~Making(c, r)
    PROVE  account'[r] = None
<1>1. CASE r # Doing(c).on
    BY <1>1, DoesType DEF Twins, Unborn
<1>2. CASE r = Doing(c).on
    <2>1. ~Creates(Doing(c))
        BY <1>2 DEF Making
    <2> QED
        BY <1>2, <2>1, DoesType, OpKinds DEF Twins, Unborn, Creates
<1> QED
    BY <1>1, <1>2

LEMMA SendEffects ==
    ASSUME Twins, NEW c \in Caller, Send(c)
    PROVE  Effects(c)
<1> DEFINE op == Doing(c)
<1>1. /\ ~Idle(c) /\ at[c] = "send" /\ row' = row /\ edges' = edges /\ used' = used
      /\ upset \subseteq upset'
    BY DEF Send, tables
<1>2. IsOp(op)
    BY <1>1 DEF Twins, CallType, Phase
<1>3. \A r : Holds(c, r) <=> r \in Touches(op)
    BY <1>1 DEF Holds
<1>4. \A g, u : ~Meets(c, g, u)
    BY <1>1 DEF Meets
<1>5. CASE Possible(op) /\ Does(op) /\ GoTo(c, "save") /\ upset' = upset
    <2>1. BirthEffect(c)
        <3>1. \A r \in Res : Unborn(r) /\ ~Making(c, r) => Unborn(r)'
            BY <1>1, <1>2, <1>5, DoesBirths DEF Unborn
        <3> QED
            BY <1>1, <1>5, <3>1, OnwardBirths DEF Twins
    <2>2. TwinType'
        BY <1>1, <1>2, <1>5, DoesType DEF Twins, TwinType
    <2>3. /\ Locally(c) /\ at'[c] = "save" /\ Doing(c)' = op /\ ~Idle(c)'
          /\ \A r : Holds(c, r)' <=> r \in Touches(op)
        BY <1>1, <1>5, StaysOn DEF Twins
    <2>4. TwinEffect(c)
        <3>1. ASSUME NEW r \in Res \ upset', r \in Touches(op)
              PROVE  Midst(c, r)'
            BY <1>1, <1>2, <1>5, <2>3, <3>1, AnsweredSend
        <3>2. ASSUME NEW r \in Res \ upset', r \notin Touches(op)
              PROVE  row'[r] = row[r] /\ account'[r] = account[r]
            <4>1. r \in Res /\ r # op.on
                BY <1>2, <3>2, OpKinds
            <4> QED
                BY <1>1, <1>2, <1>5, <4>1, DoesType DEF Twins
        <3> QED
            BY <1>1, <1>3, <2>3, <3>1, <3>2 DEF TwinEffect
    <2>5. LinkEffect(c)
        <3> SUFFICES ASSUME NEW g \in Groups \ upset', NEW u \in Users \ upset'
                     PROVE  /\ Meets(c, g, u)' => (<<g, u>> \in links' <=> op.do = "join")
                            /\ ~Meets(c, g, u)' => (<<g, u>> \in links' <=> <<g, u>> \in links)
                            /\ <<g, u>> \in links' \ links => Holds(c, g) /\ Holds(c, u)
                            /\ <<g, u>> \in links \ links' => Holds(c, g) \/ Holds(c, u)
            BY <1>1, <1>4, <2>3 DEF LinkEffect
        <3>1. Meets(c, g, u)' <=> \/ op.do \in {"join", "part"} /\ op.on = g /\ op.with = u
                                  \/ op.do = "remove" /\ op.on \in {g, u}
            BY <2>3 DEF Meets
        <3> QED
            BY <1>2, <1>3, <1>5, <3>1, DoesLinks
    <2> QED
        BY <2>1, <2>2, <2>3, <2>4, <2>5 DEF Effects
<1>6. CASE GoTo(c, "failed") /\ upset' = upset \cup Touches(op) /\ UNCHANGED upstream
    <2>1. BirthEffect(c)
        BY <1>1, <1>6, OnwardBirths DEF Twins, Unborn, upstream
    <2>2. /\ Locally(c) /\ at'[c] = "failed"
          /\ \A r : Holds(c, r)' <=> r \in Touches(op)
        BY <1>1, <1>6, StaysOn DEF Twins
    <2>3. TwinType'
        BY <1>1, <1>6 DEF Twins, TwinType, upstream
    <2>4. TwinEffect(c)
        BY <1>1, <1>3, <1>6, <2>2 DEF TwinEffect, upstream
    <2>5. LinkEffect(c)
        BY <1>1, <1>4, <1>6, <2>2 DEF LinkEffect, upstream, Meets
    <2> QED
        BY <2>1, <2>2, <2>3, <2>4, <2>5 DEF Effects
<1> QED
    BY <1>5, <1>6 DEF Send

LEMMA BreakEffects ==
    ASSUME Twins, NEW c \in Caller, Break(c)
    PROVE  Effects(c)
<1> DEFINE op == Doing(c)
<1>1. /\ ~Idle(c) /\ at[c] = "send" /\ row' = row /\ edges' = edges /\ used' = used
      /\ upset' = upset \cup Touches(op) /\ Throw(c)
      /\ (Possible(op) /\ Does(op)) \/ (account' = account /\ links' = links)
    BY DEF Break, tables, upstream
<1>2. IsOp(op)
    BY <1>1 DEF Twins, CallType, Phase
<1>3. \A g, u : ~Meets(c, g, u)
    BY <1>1 DEF Meets
<1>4. Locally(c) /\ (\A r : ~Holds(c, r)') /\ (\A g, u : ~Meets(c, g, u)')
    BY <1>1, LetsGo DEF Twins
<1>5. BirthEffect(c)
    <2>1. \A r \in Res : Unborn(r) /\ ~Making(c, r) => Unborn(r)'
        BY <1>1, <1>2, DoesBirths DEF Unborn
    <2> QED
        BY <1>1, <2>1, OnwardBirths DEF Twins
<1>6. TwinType'
    BY <1>1, <1>2, DoesType DEF Twins, TwinType
<1>7. \A r : Holds(c, r) <=> r \in Touches(op)
    BY <1>1 DEF Holds
<1>8. TwinEffect(c)
    <2>1. ASSUME NEW r \in Res \ upset'
          PROVE  row'[r] = row[r] /\ account'[r] = account[r]
        <3>1. r \in Res /\ r # op.on
            BY <1>1, <1>2, OpKinds
        <3> QED
            BY <1>1, <1>2, <3>1, DoesType DEF Twins
    <2> QED
        BY <1>1, <1>4, <1>7, <2>1 DEF TwinEffect
<1>9. LinkEffect(c)
    <2>1. ASSUME NEW g \in Groups \ upset', NEW u \in Users \ upset'
          PROVE  <<g, u>> \in links' <=> <<g, u>> \in links
        BY <1>1, <1>2, DoesLinks
    <2> QED
        BY <1>1, <1>3, <1>4, <2>1 DEF LinkEffect
<1> QED
    BY <1>4, <1>5, <1>6, <1>8, <1>9 DEF Effects

\* The saved change is the answered one.
LEMMA SavedAgrees ==
    ASSUME Twins, NEW c \in Caller, ~Idle(c), at[c] \in {"save", "failed"}, IsOp(Doing(c)),
           NEW r \in Res \ upset, r \in Touches(Doing(c)),
           at[c] = "save" => row' = Saved(Doing(c), TRUE), account'[r] = account[r]
    PROVE  Agrees(r)'
<1> DEFINE op == Doing(c)
<1>1. Midst(c, r)
    BY HeldMidst DEF Holds
<1>2. at[c] = "save" /\ row' = Saved(op, TRUE)
    BY <1>1 DEF Midst
<1>3. row[r] # None => row[r] \in Row
    BY DEF Twins, TwinType
<1>4. CASE op.do \in {"join", "part"}
    BY <1>1, <1>2, <1>4, SavedType DEF Midst, Agrees, Twins
<1>5. CASE op.do \notin {"join", "part"}
    <2>1. r = op.on
        BY <1>5, OpKinds
    <2>2. CASE Creates(op)
        <3>1. /\ row[r] = [name |-> op.with, value |-> TRUE, linked |-> FALSE]
              /\ account[r] = [name |-> op.with, value |-> TRUE]
            BY <1>1, <1>2, <2>2 DEF Midst
        <3>2. row[r] # None /\ row[r] \in Row
            <4>1. op.with \in Names
                BY <2>2, OpKinds DEF Creates
            <4>2. row[r] \in Row
                BY <3>1, <4>1 DEF Row
            <4> QED
                BY <4>2, NameAssumption
        <3>3. row'[r] = [row[r] EXCEPT !.linked = TRUE]
            BY <1>2, <2>1, <2>2, <3>2, SavedType DEF Twins
        <3>4. row'[r].name = row[r].name /\ row'[r].value = row[r].value /\ row'[r].linked
            BY <3>2, <3>3 DEF Row
        <3>5. row'[r] \in Row /\ row'[r] # None
            BY <3>2, <3>3, NameAssumption DEF Row
        <3>6. row[r].name = op.with /\ row[r].value = TRUE
            BY <3>1
        <3>7. account'[r] = [name |-> row'[r].name, value |-> row'[r].value]
            BY <3>1, <3>4, <3>6
        <3> QED
            BY <3>4, <3>5, <3>7 DEF Agrees
    <2>3. CASE op.do = "change"
        <3>1. Linked(r) /\ account[r] = [name |-> row[r].name, value |-> op.with]
            BY <1>1, <1>2, <2>3 DEF Midst
        <3>2. row'[r] = [row[r] EXCEPT !.value = op.with]
            BY <1>2, <2>1, <2>3, <3>1, SavedType DEF Twins, Linked
        <3>3. row'[r].value = op.with /\ row'[r].name = row[r].name /\ row'[r].linked
            BY <1>3, <3>1, <3>2 DEF Linked, Row
        <3>4. account'[r] = [name |-> row'[r].name, value |-> row'[r].value]
            BY <3>1, <3>3
        <3>5. row'[r] # None
            <4>1. row[r] \in Row /\ (op.with \in BOOLEAN)
                BY <1>3, <2>3, <3>1, OpKinds DEF Linked
            <4>2. row'[r] \in Row
                BY <3>2, <4>1 DEF Row
            <4> QED
                BY <4>2, NameAssumption
        <3> QED
            BY <3>3, <3>4, <3>5 DEF Agrees
    <2>4. CASE op.do = "rename"
        <3>1. Linked(r) /\ account[r] = [name |-> op.with, value |-> row[r].value]
            BY <1>1, <1>2, <2>4 DEF Midst
        <3>2. row'[r] = [row[r] EXCEPT !.name = op.with]
            BY <1>2, <2>1, <2>4, <3>1, SavedType DEF Twins, Linked
        <3>3. row'[r].value = row[r].value /\ row'[r].name = op.with /\ row'[r].linked
            BY <1>3, <3>1, <3>2 DEF Linked, Row
        <3>4. account'[r] = [name |-> row'[r].name, value |-> row'[r].value]
            BY <3>1, <3>3
        <3>5. row'[r] # None
            <4>1. row[r] \in Row /\ (op.with \in Names)
                BY <1>3, <2>4, <3>1, OpKinds DEF Linked
            <4>2. row'[r] \in Row
                BY <3>2, <4>1 DEF Row
            <4> QED
                BY <4>2, NameAssumption
        <3> QED
            BY <3>3, <3>4, <3>5 DEF Agrees
    <2>5. CASE op.do = "remove"
        BY <1>1, <1>2, <2>1, <2>5, SavedType DEF Midst, Agrees, Twins
    <2> QED
        BY <1>5, <2>2, <2>3, <2>4, <2>5, OpKinds DEF Creates
<1> QED
    BY <1>4, <1>5

LEMMA SaveEffects ==
    ASSUME Twins, NEW c \in Caller, Save(c)
    PROVE  Effects(c)
<1> DEFINE op == Doing(c)
           about(g, u) == \/ op.do \in {"join", "part"} /\ op.on = g /\ op.with = u
                          \/ op.do = "remove" /\ op.on \in {g, u}
<1>1. /\ ~Idle(c) /\ at[c] \in {"save", "failed"} /\ op.do # "auto" /\ Advance(c)
      /\ account' = account /\ links' = links /\ used' = used /\ upset' = upset
      /\ \E ok \in BOOLEAN : row' = Saved(op, ok) /\ (at[c] = "save" => ok = TRUE)
    BY DEF Save, Saving, upstream, Quiet
<1>2. IsOp(op) /\ op.on \in Res
    BY <1>1, OpKinds DEF Twins, CallType, Phase
<1>3. Locally(c) /\ (\A r : ~Holds(c, r)') /\ (\A g, u : ~Meets(c, g, u)')
    BY <1>1, LetsGo DEF Twins
<1>4. PICK ok \in BOOLEAN : row' = Saved(op, ok) /\ (at[c] = "save" => ok = TRUE)
    BY <1>1
<1>5. /\ row' \in [Res -> Row \cup {None}] /\ \A r \in Res : r # op.on => row'[r] = row[r]
      /\ row[op.on] = None => row'[op.on] = None
    <2>1. /\ Saved(op, ok) \in [Res -> Row \cup {None}] /\ \A r \in Res : r # op.on => Saved(op, ok)[r] = row[r]
          /\ row[op.on] = None => Saved(op, ok)[op.on] = None
        BY <1>2, SavedType DEF Twins
    <2>2. row' = Saved(op, ok)
        BY <1>4
    <2> QED
        BY <2>1, <2>2, Zenon
<1>6. ASSUME NEW g \in Groups, NEW u \in Users
      PROVE  /\ about(g, u) => (<<g, u>> \in edges' <=> op.do = "join")
             /\ ~about(g, u) => (<<g, u>> \in edges' <=> <<g, u>> \in edges)
    <2>1. <<g, u>>[1] = g /\ <<g, u>>[2] = u
        OBVIOUS
    <2>2. CASE op.do = "join"
        <3>1. edges' = edges \cup {<<op.on, op.with>>}
            BY <2>2 DEF Save
        <3> QED
            BY <2>2, <3>1
    <2>3. CASE op.do = "part"
        <3>1. edges' = edges \ {<<op.on, op.with>>}
            BY <2>3 DEF Save
        <3> QED
            BY <2>3, <3>1
    <2>4. CASE op.do = "remove"
        <3>1. edges' = {e \in edges : op.on \notin {e[1], e[2]}}
            BY <2>4 DEF Save
        <3> QED
            BY <2>1, <2>4, <3>1
    <2>5. CASE op.do \notin {"join", "part", "remove"}
        BY <2>5 DEF Save
    <2> QED
        BY <2>2, <2>3, <2>4, <2>5
<1>7. edges' \subseteq Groups \X Users
    <2>1. edges' \subseteq edges \cup (IF op.do \in {"join", "part"} THEN {<<op.on, op.with>>} ELSE {})
        BY DEF Save
    <2> QED
        BY <1>2, <2>1, OpKinds DEF Twins, TwinType
<1>8. TwinType'
    BY <1>1, <1>5, <1>7 DEF Twins, TwinType
<1>9. BirthEffect(c)
    <2>1. \A r \in Res : Unborn(r) => Unborn(r)'
        BY <1>1, <1>5 DEF Unborn
    <2> QED
        BY <1>1, <2>1, OnwardBirths DEF Twins
<1>10. \A r : Holds(c, r) <=> r \in Touches(op)
    BY <1>1 DEF Holds
<1>11. TwinEffect(c)
    <2>1. ASSUME NEW r \in Res \ upset', Holds(c, r)
          PROVE  Agrees(r)'
        BY <1>1, <1>2, <1>4, <1>10, <2>1, SavedAgrees
    <2>2. ASSUME NEW r \in Res \ upset', ~Holds(c, r)
          PROVE  row'[r] = row[r] /\ account'[r] = account[r]
        <3>1. r # op.on
            BY <1>2, <1>10, <2>2, OpKinds
        <3> QED
            BY <1>1, <1>5, <3>1
    <2> QED
        BY <1>1, <1>3, <2>1, <2>2 DEF TwinEffect
<1>12. LinkEffect(c)
    <2> SUFFICES ASSUME NEW g \in Groups \ upset, NEW u \in Users \ upset
                 PROVE  /\ Meets(c, g, u) => (<<g, u>> \in edges' <=> <<g, u>> \in links)
                        /\ ~Meets(c, g, u) => (<<g, u>> \in edges' <=> <<g, u>> \in edges)
        BY <1>1, <1>3 DEF LinkEffect
    <2>1. Meets(c, g, u) <=> about(g, u) /\ at[c] = "save"
        BY <1>1 DEF Meets
    <2>2. ASSUME about(g, u)
          PROVE  at[c] = "save"
        <3>1. op.on \in Res \ upset /\ Holds(c, op.on)
            BY <1>2, <1>10, <2>2, OpKinds
        <3> QED
            BY <1>1, <3>1, HeldMidst DEF Midst
    <2>3. CASE Meets(c, g, u)
        <3>1. <<g, u>> \in links <=> op.do = "join"
            BY <2>3 DEF Twins, LinkInv
        <3> QED
            BY <1>6, <2>1, <2>3, <3>1
    <2>4. CASE ~Meets(c, g, u)
        BY <1>6, <2>1, <2>2, <2>4
    <2> QED
        BY <2>3, <2>4
<1> QED
    BY <1>3, <1>8, <1>9, <1>11, <1>12 DEF Effects

LEMMA SaveRefusedEffects ==
    ASSUME Twins, NEW c \in Caller, SaveRefused(c)
    PROVE  Effects(c)
<1> DEFINE op == Doing(c)
<1>1. /\ ~Idle(c) /\ at[c] \in {"save", "failed"} /\ op.do = "rename" /\ Throw(c)
      /\ UNCHANGED <<row, edges, account, links>> /\ used' = used /\ upset' = upset \cup {op.on}
    BY DEF SaveRefused, Saving, Clashes, tables, upstream, Quiet
<1>2. IsOp(op) /\ Touches(op) = {op.on}
    BY <1>1, OpKinds DEF Twins, CallType, Phase
<1>3. Locally(c) /\ (\A r : ~Holds(c, r)') /\ (\A g, u : ~Meets(c, g, u)')
    BY <1>1, LetsGo DEF Twins
<1>4. TwinType'
    BY <1>1 DEF Twins, TwinType
<1>5. BirthEffect(c)
    BY <1>1, OnwardBirths DEF Twins, Unborn
<1>6. TwinEffect(c)
    BY <1>1, <1>2, <1>3 DEF TwinEffect, Holds
<1>7. LinkEffect(c)
    BY <1>1, <1>3 DEF LinkEffect, Meets
<1> QED
    BY <1>3, <1>4, <1>5, <1>6, <1>7 DEF Effects

\* A step that leaves tables and accounts alone, at a call that holds nothing.
LEMMA IdleEffects ==
    ASSUME Twins, NEW c \in Caller, UNCHANGED <<row, edges, account, links>>,
           upset \subseteq upset', \A r : ~Holds(c, r) /\ ~Holds(c, r)',
           \A g, u : ~Meets(c, g, u) /\ ~Meets(c, g, u)',
           Locally(c), BirthEffect(c)
    PROVE  Effects(c)
<1>1. TwinType'
    BY DEF Twins, TwinType
<1>2. TwinEffect(c) /\ LinkEffect(c)
    BY DEF TwinEffect, LinkEffect
<1> QED
    BY <1>1, <1>2 DEF Effects

LEMMA PickEffects ==
    ASSUME Twins, NEW c \in Caller, Pick(c)
    PROVE  Effects(c)
<1>1. PICK op : /\ Picked(c, op) /\ IsOp(op) /\ (Creates(op) => op.on \notin used)
    BY PickIsOp
<1>2. /\ ~Idle(c) /\ at[c] = "look" /\ plan' = [plan EXCEPT ![c] = <<op>> \o Tail(@)] /\ at' = at
      /\ used' = used \cup Touches(op) /\ UNCHANGED <<row, edges, account, links, upset>>
      /\ Doing(c).do = "pick"
    BY <1>1 DEF Picked, Is, tables, upstream, history
<1>3. plan[c] = <<pick, tock>>
    <2>1. ~IsOp(Doing(c)) /\ Doing(c) \notin Orderly \cup {tock, wipe}
        BY <1>2, Words DEF Orderly, clear, halt, run, arm, tock, wipe, Op, Order
    <2> QED
        BY <1>2, <2>1, PlanHead DEF Twins, CallType, Idle, Doing
<1>4. plan'[c] = <<op, tock>> /\ at'[c] = "look" /\ Locally(c)
    <2>1. Tail(<<pick, tock>>) = <<tock>> /\ <<op>> \o <<tock>> = <<op, tock>>
        BY Tails, Joined
    <2> QED
        BY <1>2, <1>3, <2>1 DEF Twins, CallType, Locally
<1>5. (\A r : ~Holds(c, r) /\ ~Holds(c, r)') /\ \A g, u : ~Meets(c, g, u) /\ ~Meets(c, g, u)'
    BY <1>2, <1>4 DEF Holds, Meets
<1>6. BirthEffect(c)
    <2>1. \A r : Bears(<<op, tock>>, r) <=> Makes(op, r)
        BY BearsWords, WordsTouchNothing DEF Makes
    <2>2. \A r \in Res : Bears(plan'[c], r) => r \notin used /\ r \in used'
        <3>1. op.on \in used'
            BY <1>1, <1>2, OpKinds
        <3> QED
            BY <1>1, <1>4, <2>1, <3>1 DEF Makes
    <2>3. \A r \in Res : Unborn(r) => Unborn(r)'
        BY <1>2 DEF Unborn
    <2> QED
        BY <1>2, <2>2, <2>3 DEF BirthEffect, Coming
<1> QED
    BY <1>2, <1>4, <1>5, <1>6, IdleEffects

LEMMA BeginEffects ==
    ASSUME Twins, NEW c \in Caller, Act(c) \/ Seed(c) \/ Instruct(c) \/ Tick(c)
    PROVE  Effects(c)
<1>1. PICK q, fresh : /\ Begin(c, q, fresh)
                      /\ \A r : Bears(q, r) => r \in fresh /\ r \notin used
    <2>1. CASE Act(c)
        <3>1. PICK op, fresh : Begin(c, <<op>>, fresh) /\ (Creates(op) => op.on \notin used /\ op.on \in fresh)
            BY <2>1, ActBegins DEF ActCalls, Twins
        <3> QED
            BY <3>1, BearsWords DEF Makes
    <2>2. CASE Seed(c)
        <3>1. PICK u \in Users \ used, g \in Groups \ used, n \in Names :
                  Begin(c, <<Op("ensure", u, n), Op("ensure", g, n), Op("join", g, u)>>, {u, g})
            BY <2>2, CallsBegin DEF SeedCalls, Twins
        <3>2. \A r : Bears(<<Op("ensure", u, n), Op("ensure", g, n), Op("join", g, u)>>, r) => r \in {u, g}
            <4>1. /\ \A r : Makes(Op("ensure", u, n), r) => r = u
                  /\ \A r : Makes(Op("ensure", g, n), r) => r = g
                  /\ \A r : ~Makes(Op("join", g, u), r)
                BY DEF Makes, Op, Creates
            <4> QED
                BY <4>1, BearsWords
        <3> QED
            BY <3>1, <3>2
    <2>3. CASE Instruct(c) \/ Tick(c)
        BY <2>3, CallsBegin, OrdersBearNothing DEF OrderCalls, TickCalls, OrderPlan, Twins
    <2> QED
        BY <2>1, <2>2, <2>3
<1>2. /\ Locally(c) /\ plan'[c] = q /\ at'[c] = "look" /\ Idle(c) /\ used' = used \cup fresh
      /\ UNCHANGED <<row, edges, account, links, upset>>
    BY <1>1 DEF Begin, Locally, Twins, CallType, tables, upstream
<1>3. (\A r : ~Holds(c, r) /\ ~Holds(c, r)') /\ \A g, u : ~Meets(c, g, u) /\ ~Meets(c, g, u)'
    BY <1>2 DEF Holds, Meets
<1>4. BirthEffect(c)
    BY <1>1, <1>2 DEF BirthEffect, Coming, Unborn
<1> QED
    BY <1>2, <1>3, <1>4, IdleEffects

\* The words of an order, of a tick's row and of a reset are about no resource.
LEMMA OrderEffects ==
    ASSUME Twins, NEW c \in Caller, Clear(c) \/ Arm(c) \/ setAutoState(c) \/ Wipe(c) \/ getAutoState(c)
    PROVE  Effects(c)
<1>1. ~Idle(c) /\ Doing(c).do \in {"clear", "arm", "auto", "wipe"}
    BY DEF Clear, Arm, setAutoState, getAutoState, Wipe, Is
<1>2. Doing(c) \in Orderly \cup {tock, wipe} /\ ~Creates(Doing(c)) /\ Touches(Doing(c)) = {}
    <2>1. ~IsOp(Doing(c)) /\ Doing(c) # pick
        BY <1>1, OpKinds DEF pick, Op
    <2>2. Doing(c) \in Orderly \cup {tock, wipe}
        BY <1>1, <2>1, PlanHead DEF Twins, CallType, Idle, Doing
    <2> QED
        BY <2>2, WordsTouchNothing
<1>3. (\A r : ~Holds(c, r)) /\ (\A g, u : ~Meets(c, g, u)) /\ (\A r : ~Making(c, r))
    BY <1>1, <1>2 DEF Holds, Meets, Making
<1>4. used' = used /\ account' = account /\ links' = links /\ \A r \in Res : Unborn(r) => Unborn(r)'
    BY DEF Clear, Arm, setAutoState, getAutoState, Wipe, Quiet, upstream, tables, Unborn
<1>5. CASE Clear(c) \/ Arm(c) \/ setAutoState(c)
    <2>1. Advance(c) /\ UNCHANGED <<row, edges, upset>>
        BY <1>5 DEF Clear, Arm, setAutoState, tables
    <2>2. BirthEffect(c)
        BY <1>1, <1>4, <2>1, OnwardBirths DEF Twins
    <2> QED
        BY <1>1, <1>3, <1>4, <2>1, <2>2, LetsGo, IdleEffects DEF Twins
<1>6. CASE getAutoState(c)
    <2>1. GoTo(c, "save") /\ UNCHANGED <<row, edges, upset>>
        BY <1>6 DEF getAutoState, tables
    <2>2. BirthEffect(c)
        BY <1>1, <1>4, <2>1, OnwardBirths DEF Twins
    <2>3. Locally(c) /\ Doing(c)' = Doing(c) /\ \A r : Holds(c, r)' <=> r \in Touches(Doing(c))
        BY <1>1, <2>1, StaysOn DEF Twins
    <2>4. \A g, u : ~Meets(c, g, u)'
        BY <1>1, <2>3 DEF Meets
    <2> QED
        BY <1>2, <1>3, <1>4, <2>1, <2>2, <2>3, <2>4, IdleEffects
<1>7. CASE Wipe(c)
    <2>1. /\ Advance(c) /\ row' = [r \in Res |-> None] /\ edges' = {e \in edges : row[e[1]] = None}
          /\ upset' = upset \cup used
        BY <1>7 DEF Wipe
    <2>2. BirthEffect(c)
        BY <1>1, <1>4, <2>1, OnwardBirths DEF Twins
    <2>3. Locally(c) /\ (\A r : ~Holds(c, r)') /\ (\A g, u : ~Meets(c, g, u)')
        BY <1>1, <2>1, LetsGo DEF Twins
    <2>4. \A r \in Res \ upset' : row[r] = None
        BY <2>1 DEF Twins, BirthInv, Unborn
    <2>5. TwinType'
        BY <1>4, <2>1 DEF Twins, TwinType
    <2>6. TwinEffect(c)
        BY <1>3, <1>4, <2>1, <2>3, <2>4 DEF TwinEffect
    <2>7. LinkEffect(c)
        <3>1. ASSUME NEW g \in Groups \ upset', NEW u \in Users \ upset'
              PROVE  <<g, u>> \in edges' <=> <<g, u>> \in edges
            <4>1. <<g, u>>[1] = g /\ row[g] = None
                BY <2>4 DEF Res
            <4> QED
                BY <2>1, <4>1
        <3> QED
            BY <1>3, <1>4, <2>3, <3>1 DEF LinkEffect
    <2> QED
        BY <2>2, <2>3, <2>5, <2>6, <2>7 DEF Effects
<1> QED
    BY <1>5, <1>6, <1>7

LEMMA EffectsKeepTwins ==
    ASSUME Twins, CallType', NEW c \in Caller, Effects(c)
    PROVE  Twins'
<1>1. BirthInv' /\ TwinInv'
    BY BirthStep, TwinStep DEF Twins, Effects
<1>2. LinkInv'
    BY <1>1, LinkStep DEF Twins, Effects, TwinEffect
<1> QED
    BY <1>1, <1>2 DEF Twins, Effects

\* A restart upsets what the calls it ends hold.
LEMMA RestartKeepsTwins ==
    ASSUME Twins, CallType', Restart
    PROVE  Twins'
<1>1. /\ \A c \in Caller : plan'[c] = <<>> /\ at'[c] = "look"
      /\ upset' = upset \cup {r \in Res : Busy(r)} /\ used' = used
      /\ row' = row /\ edges' = edges /\ account' = account /\ links' = links
    BY DEF Restart, tables, upstream
<1>2. \A c \in Caller : (\A r : ~Holds(c, r)') /\ (\A r : ~Bears(plan'[c], r)) /\ (\A g, u : ~Meets(c, g, u)')
    BY <1>1, BearsWords DEF Holds, Meets
<1>3. TwinType'
    BY <1>1 DEF Twins, TwinType
<1>4. BirthInv'
    BY <1>1, <1>2 DEF Twins, BirthInv, Coming, Unborn
<1>5. \A r \in Res \ upset' : r \notin upset /\ \A c \in Caller : ~Holds(c, r)
    BY <1>1 DEF Busy, Holds
<1>6. TwinInv'
    BY <1>1, <1>2, <1>5 DEF Twins, TwinInv, Agrees
<1>7. LinkInv'
    <2>1. ASSUME NEW g \in Groups \ upset', NEW u \in Users \ upset'
          PROVE  <<g, u>> \in edges <=> <<g, u>> \in links
        <3>1. g \in Groups \ upset /\ u \in Users \ upset /\ g \in Res \ upset' /\ u \in Res \ upset'
            BY <1>1 DEF Res
        <3>2. \A c \in Caller : ~Meets(c, g, u)
            BY <1>5, <3>1, MeetsHolds DEF Twins
        <3> QED
            BY <3>1, <3>2 DEF Twins, LinkInv
    <2> QED
        BY <1>1, <1>2, <2>1 DEF LinkInv
<1> QED
    BY <1>3, <1>4, <1>6, <1>7 DEF Twins

LEMMA NextTwins ==
    ASSUME Twins, ClockInv, [Next]_vars
    PROVE  Twins' /\ ClockInv'
<1>1. CallType' /\ ClockInv'
    BY NextClock DEF Twins
<1>2. ASSUME NEW c \in Caller,
             \/ Act(c) \/ Seed(c) \/ Instruct(c) \/ Tick(c)
             \/ Clear(c) \/ Arm(c) \/ getAutoState(c) \/ setAutoState(c) \/ Wipe(c) \/ Pick(c)
             \/ Look(c) \/ Ensure(c) \/ Insert(c) \/ Send(c) \/ Break(c) \/ Save(c) \/ SaveRefused(c)
      PROVE  Effects(c)
    BY <1>2, BeginEffects, OrderEffects, PickEffects, LookEffects, EnsureEffects, InsertEffects,
       SendEffects, BreakEffects, SaveEffects, SaveRefusedEffects
<1>3. CASE Restart
    BY <1>1, <1>3, RestartKeepsTwins
<1>4. CASE UNCHANGED vars
    <2>1. UNCHANGED <<row, edges, account, links, plan, at, used, upset>>
        BY <1>4 DEF vars, tables, upstream, calling, history
    <2>2. TwinType' /\ BirthInv'
        BY <2>1 DEF Twins, TwinType, BirthInv, Coming, Unborn, Doing
    <2>3. TwinInv'
        BY <2>1 DEF Twins, TwinInv, Holds, Midst, Agrees, Unborn, Linked, Doing, Idle
    <2>4. LinkInv'
        <3>1. \A c, g, u : (Meets(c, g, u)' <=> Meets(c, g, u)) /\ Doing(c)' = Doing(c)
            BY <2>1 DEF Meets, Doing, Idle
        <3> QED
            BY <2>1, <3>1 DEF Twins, LinkInv
    <2> QED
        BY <1>1, <2>2, <2>3, <2>4 DEF Twins
<1> QED
    BY <1>1, <1>2, <1>3, <1>4, EffectsKeepTwins DEF Next

LEMMA InitTwins ==
    ASSUME Init
    PROVE  Twins /\ ClockInv
<1>1. CallType /\ ClockInv
    BY InitClock
<1>2. /\ \A c \in Caller : plan[c] = <<>> /\ at[c] = "look"
      /\ \A r \in Res : Unborn(r) /\ Agrees(r)
      /\ edges = {} /\ links = {} /\ used = {}
    BY DEF Init, Unborn, Agrees
<1>3. \A c \in Caller : (\A r : ~Holds(c, r)) /\ (\A r : ~Bears(plan[c], r)) /\ (\A g, u : ~Meets(c, g, u))
    BY <1>2, BearsWords DEF Holds, Meets
<1>4. TwinType
    BY DEF Init, TwinType
<1> QED
    BY <1>1, <1>2, <1>3, <1>4 DEF Twins, BirthInv, TwinInv, LinkInv, Coming

\* Rows, memberships, accounts and the timer keep their types, and what is stored
\* has an id that was given out.
THEOREM SimulatorIsTyped == Spec => []TypeOK
<1>1. Twins => TypeOK
    BY DEF Twins, CallType, TwinType, BirthInv, Unborn, AutoRow, TypeOK
<1> QED
    BY <1>1, InitTwins, NextTwins, PTL DEF Spec

\* What no fault, no overlapping operation and no reset has touched is upstream as
\* it is in the simulator's tables, account for account and membership for
\* membership: the service sends each change before it saves it, and saves what it
\* has sent.
THEOREM TheTwinsAgree == Spec => []TwinsAgree
<1>1. Twins => TwinsAgree
    <2> SUFFICES ASSUME Twins
                 PROVE  TwinsAgree
        OBVIOUS
    <2>1. ASSUME NEW r \in Res, Settled(r)
          PROVE  r \notin upset /\ Agrees(r) /\ \A c \in Caller : ~Holds(c, r)
        BY <2>1 DEF Settled, Busy, Holds, Twins, TwinInv
    <2>2. ASSUME NEW g \in Groups, NEW u \in Users, Settled(g), Settled(u)
          PROVE  <<g, u>> \in edges <=> <<g, u>> \in links
        <3>1. g \in Groups \ upset /\ u \in Users \ upset /\ \A c \in Caller : ~Holds(c, g) /\ ~Holds(c, u)
            BY <2>1, <2>2 DEF Res
        <3>2. \A c \in Caller : ~Meets(c, g, u)
            BY <3>1, MeetsHolds DEF Twins
        <3> QED
            BY <3>1, <3>2 DEF Twins, LinkInv
    <2>3. used \subseteq Res
        BY DEF Twins, CallType
    <2> QED
        BY <2>1, <2>2, <2>3 DEF TwinsAgree, Agrees
<1> QED
    BY <1>1, InitTwins, NextTwins, PTL DEF Spec
=============================================================================
