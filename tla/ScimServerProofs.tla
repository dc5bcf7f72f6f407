--------------------------- MODULE ScimServerProofs ---------------------------
(***************************************************************************)
(* ScimServer for every number of resources, memberships and requests.     *)
(*                                                                         *)
(* What a request has still to run is a list in the order of Turn without  *)
(* repetitions but for Listing: so the first statement tells which are     *)
(* behind it.  ServerInd is what holds however requests interleave: types, *)
(* the lists, what a request knows of its row, and that what can refuse it *)
(* is behind one that wrote.                                               *)
(* AloneInv follows a request nothing runs beside.  The rows are those it  *)
(* met until its row is saved or erased; and the memberships there will be *)
(* when what is left has run (Ends) are at every moment those the request  *)
(* means, so that at the answer, with nothing left, they are the contract's. *)
(* LogInv says, while nothing overlaps and nothing was refused half way, how *)
(* the log lags behind the tables: until the answer it tells what the request *)
(* met (Unlogged), then what is left to tell closes the gap (Logged).      *)
(***************************************************************************)
EXTENDS ScimServer, FiniteSetTheorems, TLAPS

----------------------------------------------------------------------------
(* The order of a request's statements *)

Turn == [before |-> 0, find |-> 1, bad |-> 4, name |-> 5, free |-> 6, save |-> 7,
         clear |-> 8, leave |-> 8, add |-> 9, drop |-> 9, erase |-> 10,
         render |-> 11, count |-> 11, page |-> 12, reply |-> 13,
         row |-> 14, joined |-> 15, left |-> 16]
Stmt == [do : DOMAIN Turn, who : Users \cup {None}]
\* A PATCH changes the members before anything can refuse it.
Rank(verb, what) ==
    IF verb = "PATCH" /\ what \in {"clear", "add", "drop"} THEN Turn[what] - 6 ELSE Turn[what]
Listing == {"add", "drop", "joined", "left"}
Sooner(verb, s, t) == Rank(verb, s.do) < Rank(verb, t.do) \/ (s.do = t.do /\ s.do \in Listing)
InOrder(verb, s) == \A i, j \in DOMAIN s : i < j => Sooner(verb, s[i], s[j])

Left(q) == Range(todo[q])
Has(q, what) == \E s \in Left(q) : s.do = what

----------------------------------------------------------------------------
(* What a request may ask, and the statements that makes *)

BodyFits(rq) ==
    /\ rq.id \in Res
    /\ rq.verb \in {"POST", "PUT", "PATCH", "DELETE", "GET", "LIST"}
    /\ rq.name \in Names(rq.id) \cup {None}
    /\ rq.active \in BOOLEAN \cup {None} /\ rq.bad \in BOOLEAN
    /\ rq.op \in {None, "add", "remove", "replace"}
    /\ rq.who \in SUBSET Users
    /\ rq.verb \in {"POST", "PUT"} => rq.active = TRUE
    /\ rq.verb # "PATCH" => rq.op = None /\ ~rq.bad
    /\ rq.id \in Users => rq.op = None /\ rq.who = {}
    /\ rq.verb = "POST" => rq.header \in {None, rq.id}

Each1(what, set) == {To(what, u) : u \in set}
Setting(rq) == IF rq.id \in Groups THEN {Do("clear")} \cup Each1("add", rq.who) ELSE {}
Patching(rq) ==
    CASE rq.op = "add" -> Each1("add", rq.who)
      [] rq.op = "remove" -> Each1("drop", rq.who)
      [] rq.op = "replace" -> Setting(rq)
      [] OTHER -> {}
Only(c, s) == IF c THEN {Do(s)} ELSE {}
Planned(rq) ==
    Only(Emits /\ rq.verb \in {"PUT", "PATCH", "DELETE"}, "before")
    \cup Only(rq.verb \notin {"GET", "LIST"}, "reply")
    \cup (CASE rq.verb = "POST" -> {Do("name"), Do("save")} \cup Only(adopts(rq), "free") \cup Setting(rq)
            [] rq.verb = "PUT" -> IF mismatched(rq) THEN {Do("bad")}
                                  ELSE {Do("find"), Do("name"), Do("save")} \cup Setting(rq)
            [] rq.verb = "PATCH" -> {Do("find"), Do("name"), Do("save")} \cup Only(rq.bad, "bad") \cup Patching(rq)
            [] rq.verb = "DELETE" -> {Do(IF rq.id \in Users THEN "leave" ELSE "clear"), Do("erase")}
            [] rq.verb = "GET" -> {Do("find"), Do("render")}
            [] rq.verb = "LIST" -> {Do("count"), Do("page")})

----------------------------------------------------------------------------
(* What holds however requests interleave *)

Serving(q) == Active(q) /\ answer[q] = None
Telling(q) == Active(q) /\ answer[q] # None
RowType(r) == IF r \in Users THEN UserRow ELSE GroupNames
Saves(rq) == rq.verb \in {"POST", "PATCH"} \/ (rq.verb = "PUT" /\ ~mismatched(rq))

Tables ==
    /\ users \in [Users -> UserRow \cup {None}]
    /\ groups \in [Groups -> GroupNames \cup {None}]
    /\ members \in SUBSET (Groups \X Users)
    /\ \A r \in Res : RowOf(r) # None => r \in used
LogFits ==
    /\ told = [users |-> told.users, groups |-> told.groups, members |-> told.members]
    /\ told.users \in [Users -> UserRow \cup {None}]
    /\ told.groups = [g \in Groups |-> told.groups[g]]

Queued(q) ==
    /\ todo[q] \in Seq(Stmt) /\ InOrder(req[q].verb, todo[q])
    /\ DOMAIN local[q] = {"row", "before", "wrote", "seen"}
    /\ answer[q] \in Status \cup {None}
    /\ Active(q) => /\ BodyFits(req[q])
                    /\ req[q].verb # "LIST" => req[q].id \in used
    /\ Serving(q) => /\ Left(q) \subseteq Planned(req[q])
                     /\ req[q].verb \notin {"GET", "LIST"} => Has(q, "reply")
    /\ Telling(q) => /\ answer[q] = 200 /\ Emits /\ req[q].verb \notin {"GET", "LIST"}
                     /\ \A s \in Left(q) : s.do \in {"row", "joined", "left"}

\* A request knows the row it changes once it found it, and its name once that was looked up.
Knows(q) ==
    LET r == req[q].id IN
    /\ Serving(q) /\ (req[q].bad \/ (req[q].verb = "PUT" /\ mismatched(req[q]))) => Has(q, "bad")
    /\ Serving(q) /\ req[q].verb = "PATCH" /\ ~Has(q, "find") => local[q].row \in RowType(r)
    /\ Serving(q) /\ Saves(req[q]) /\ ~Has(q, "name") => Wanted(q) \in Names(r)
    /\ Telling(q) => local[q].row \in RowType(r) \cup {None}

\* What it read of a group before the write is users, of a user or a DELETE the row.
BeforeFits(q) == req[q].verb # "DELETE" => local[q].before \in SUBSET Users

\* What can refuse is behind a request that wrote, but for these.
Refusing == {"find", "bad", "name", "free", "save", "erase"}
Half(rq) == (rq.verb = "PATCH" /\ rq.id \in Groups) \/ rq.verb = "DELETE"
WroteLate(q) ==
    Serving(q) /\ local[q].wrote =>
        \/ Half(req[q])
        \/ \A s \in Left(q) : s.do \notin Refusing
Framed ==
    /\ todo = [q \in Req |-> todo[q]] /\ req = [q \in Req |-> req[q]]
    /\ local = [q \in Req |-> local[q]] /\ answer = [q \in Req |-> answer[q]]
    /\ was = [q \in Req |-> was[q]] /\ crossed = [q \in Req |-> crossed[q]]

ServerInd ==
    /\ role \in Roles /\ Framed /\ Tables /\ LogFits
    /\ blurred \in BOOLEAN /\ torn \in BOOLEAN
    /\ \A q \in Req : Queued(q) /\ Knows(q) /\ BeforeFits(q) /\ WroteLate(q) /\ crossed[q] \in BOOLEAN

----------------------------------------------------------------------------
(* A request nothing runs beside *)

Solo ==
    /\ \A p, q \in Req : Active(q) /\ ~crossed[q] /\ Active(p) => p = q
    /\ ~blurred => \A q \in Req : Active(q) => ~crossed[q]

Alone(q) == Serving(q) /\ ~crossed[q]
OldUsers(q) == was[q][1]
OldGroups(q) == was[q][2]
OldMembers(q) == was[q][3]
OldRow(q) == IF req[q].id \in Users THEN OldUsers(q)[req[q].id] ELSE OldGroups(q)[req[q].id]

EdgesOf(r, S, what) == {<<r, s.who>> : s \in {x \in S : x.do = what}}
\* The memberships there will be once the statements of a set have run.
EndsOf(r, es, S) ==
    LET base == IF \E s \in S : s.do = "clear" THEN {e \in es : e[1] # r}
                ELSE IF \E s \in S : s.do = "leave" THEN {e \in es : e[2] # r} ELSE es IN
    (base \cup EdgesOf(r, S, "add")) \ EdgesOf(r, S, "drop")
Ends(q) == EndsOf(req[q].id, members, Left(q))
Meant(rq, es) ==
    LET r == rq.id IN
    IF rq.verb = "DELETE" THEN {e \in es : r \notin {e[1], e[2]}}
    ELSE IF r \in Users \/ ~Saves(rq) \/ (rq.verb = "PATCH" /\ rq.op = None) THEN es
    ELSE IF rq.op = "add" THEN es \cup ({r} \X rq.who)
    ELSE IF rq.op = "remove" THEN es \ ({r} \X rq.who)
    ELSE {e \in es : e[1] # r} \cup ({r} \X rq.who)

Pending(q) == req[q].verb \in {"GET", "LIST"} \/ Has(q, "save") \/ Has(q, "erase") \/ Has(q, "bad")
Put(q, v) ==
    IF req[q].id \in Users
    THEN users = [OldUsers(q) EXCEPT ![req[q].id] = v] /\ groups = OldGroups(q)
    ELSE users = OldUsers(q) /\ groups = [OldGroups(q) EXCEPT ![req[q].id] = v]
Taken(q) ==
    LET r == req[q].id IN
    IF r \in Users THEN \E u \in Users \ {r} : OldUsers(q)[u] # None /\ OldUsers(q)[u].name = Wanted(q)
    ELSE \E g \in Groups \ {r} : OldGroups(q)[g] = Wanted(q)

WasFits(q) ==
    /\ was[q] = <<was[q][1], was[q][2], was[q][3]>>
    /\ OldUsers(q) \in [Users -> UserRow \cup {None}]
    /\ OldGroups(q) \in [Groups -> GroupNames \cup {None}]
    /\ OldMembers(q) \in SUBSET (Groups \X Users)
\* What finds and looks up comes while the write is still to run.
Chain(q) ==
    /\ Has(q, "before") => ~local[q].wrote
    /\ Saves(req[q]) /\ Has(q, "find") => Has(q, "name")
    /\ Saves(req[q]) /\ (Has(q, "name") \/ Has(q, "free")) => Has(q, "save")
Rows(q) ==
    IF Pending(q) THEN users = OldUsers(q) /\ groups = OldGroups(q)
    ELSE IF req[q].verb = "DELETE" THEN OldRow(q) # None /\ Put(q, None)
    ELSE Put(q, IF req[q].id \in Users THEN NewUser(q) ELSE Wanted(q))
Keeps(q) ==
    /\ WasFits(q) /\ Chain(q) /\ Rows(q)
    /\ Ends(q) = Meant(req[q], OldMembers(q))
    /\ ~local[q].wrote => <<users, groups, members>> = was[q]
Passed(q) ==
    LET rq == req[q] IN
    /\ (rq.verb \in {"PATCH", "GET"} \/ (rq.verb = "PUT" /\ ~mismatched(rq))) /\ ~Has(q, "find") =>
         /\ local[q].row = OldRow(q)
         /\ OldRow(q) # None \/ (rq.verb = "PUT" /\ createIfAbsent(rq))
    /\ rq.verb = "POST" /\ ~Has(q, "free") => OldRow(q) = None
    /\ Saves(rq) /\ ~Has(q, "name") => ~Taken(q)
    /\ rq.verb = "LIST" /\ ~Has(q, "count") =>
         local[q].row = Cardinality(Matching(rq, OldUsers(q), OldGroups(q)))
AloneInv == Solo /\ \A q \in Req : Alone(q) => Keeps(q) /\ Passed(q)

----------------------------------------------------------------------------
(* The log while nothing overlaps and nothing is refused half way *)

Calm == Emits /\ ~blurred /\ ~torn
Stand(us, gs, es) == \A e \in es : us[e[2]] # None /\ gs[e[1]] # None
Table == [users |-> users, groups |-> groups, members |-> members]
OldTable(q) == [users |-> OldUsers(q), groups |-> OldGroups(q), members |-> OldMembers(q)]
Unlogged(q) ==
    LET rq == req[q]  r == req[q].id IN
    /\ told = OldTable(q)
    /\ Stand(OldUsers(q), OldGroups(q), OldMembers(q))
    /\ \A u \in rq.who : OldUsers(q)[u] # None
    /\ rq.verb \in {"PUT", "PATCH", "DELETE"} /\ ~Has(q, "before") =>
         local[q].before = IF rq.verb # "DELETE" /\ r \in Groups
                           THEN {u \in Users : <<r, u>> \in OldMembers(q)}
                           ELSE {x \in {r} : OldRow(q) # None}
Toward(q, what) == EdgesOf(req[q].id, Left(q), what)
Logged(q) ==
    LET r == req[q].id  gone == local[q].row = None IN
    /\ Stand(users, groups, members)
    /\ r \in Users => Has(q, "row") /\ ~Has(q, "joined") /\ ~Has(q, "left")
    /\ \A s \in Left(q) : s.do # "row" => users[s.who] # None
    /\ IF Has(q, "row")
       THEN IF r \in Users
            THEN /\ users = [told.users EXCEPT ![r] = local[q].row] /\ groups = told.groups
                 /\ members = IF gone THEN {e \in told.members : e[2] # r} ELSE told.members
            ELSE /\ users = told.users /\ groups = [told.groups EXCEPT ![r] = local[q].row]
                 /\ members = IF gone THEN {e \in told.members : e[1] # r}
                              ELSE (told.members \cup Toward(q, "joined")) \ Toward(q, "left")
       ELSE /\ users = told.users /\ groups = told.groups
            /\ members = (told.members \cup Toward(q, "joined")) \ Toward(q, "left")
    /\ gone => ~Has(q, "joined") /\ ~Has(q, "left")
LogInv ==
    Calm =>
        /\ (\A q \in Req : ~Active(q)) => told = Table /\ Stand(users, groups, members)
        /\ \A q \in Req : Serving(q) => Unlogged(q)
        /\ \A q \in Req : Telling(q) => Logged(q)
----------------------------------------------------------------------------
(* Lists of statements *)

LEMMA SetIsListed ==
    ASSUME NEW S, IsFiniteSet(S)
    PROVE  SetToSeq(S) \in Seq(S) /\ Range(SetToSeq(S)) = S
<1> DEFINE n == Cardinality(S)
<1>1. n \in Nat /\ ExistsBijection(1..n, S)
  BY FS_CardinalityType
<1>2. \E f \in [1..n -> S] : IsInjective(f)
  BY <1>1 DEF ExistsBijection, Bijection, Injection
<1>3. SetToSeq(S) \in [1..n -> S] /\ IsInjective(SetToSeq(S))
  BY <1>2 DEF SetToSeq
<1>4. IsFiniteSet(1..n) /\ Cardinality(1..n) = n
  BY <1>1, FS_Interval
<1>5. SetToSeq(S) \in Injection(1..n, S)
  BY <1>3 DEF Injection
<1>6. SetToSeq(S) \in Surjection(1..n, S)
  BY <1>4, <1>5, FS_Injection
<1> QED
  BY <1>1, <1>3, <1>6 DEF Surjection, Range

LEMMA EachIsListed ==
    ASSUME NEW what, NEW S \in SUBSET Users
    PROVE  Each(what, S) \in Seq(Each1(what, S)) /\ Range(Each(what, S)) = Each1(what, S)
<1> DEFINE s == SetToSeq(S)
<1>1. s \in Seq(S) /\ Range(s) = S
  BY SetIsListed, FS_Subset, FiniteAssumption
<1>2. Each(what, S) = [i \in DOMAIN s |-> To(what, s[i])]
  BY DEF Each
<1>3. DOMAIN s = 1..Len(s) /\ Len(s) \in Nat /\ \A i \in DOMAIN s : s[i] \in S
  BY <1>1
<1>4. \A x \in S : \E i \in DOMAIN s : s[i] = x
  BY <1>1 DEF Range
<1> HIDE DEF s
<1>5. Each(what, S) \in Seq(Each1(what, S))
  BY <1>2, <1>3 DEF Each1
<1> QED
  BY <1>2, <1>3, <1>4, <1>5 DEF Range, Each1

(* A list of statements in order, and one list before another. *)
Ordered(verb, s) == s \in Seq(Stmt) /\ InOrder(verb, s)
Precede(verb, S, T) == \A x \in S, y \in T : Rank(verb, x.do) < Rank(verb, y.do)

LEMMA ListsJoin ==
    ASSUME NEW verb, NEW s, NEW t, Ordered(verb, s), Ordered(verb, t),
           Precede(verb, Range(s), Range(t))
    PROVE  Ordered(verb, s \o t) /\ Range(s \o t) = Range(s) \cup Range(t)
<1> DEFINE u == s \o t
<1>1. /\ s \in Seq(Stmt) /\ t \in Seq(Stmt) /\ u \in Seq(Stmt)
      /\ InOrder(verb, s) /\ InOrder(verb, t)
  BY DEF Ordered
<1>2. /\ Len(s) \in Nat /\ Len(t) \in Nat /\ DOMAIN s = 1..Len(s) /\ DOMAIN t = 1..Len(t)
      /\ DOMAIN u = 1..(Len(s) + Len(t))
      /\ \A i \in DOMAIN s : i \in DOMAIN u /\ u[i] = s[i] /\ s[i] \in Range(s)
      /\ \A i \in DOMAIN t : i + Len(s) \in DOMAIN u /\ u[i + Len(s)] = t[i] /\ t[i] \in Range(t)
      /\ \A i \in DOMAIN u : \/ i \in DOMAIN s
                             \/ i - Len(s) \in DOMAIN t /\ u[i] = t[i - Len(s)]
  BY <1>1 DEF Range
<1> HIDE DEF u
<1>3. Range(u) = Range(s) \cup Range(t)
  BY <1>2 DEF Range
<1>4. ASSUME NEW i \in DOMAIN u, NEW j \in DOMAIN u, i < j
      PROVE  Sooner(verb, u[i], u[j])
  <2>0. i \in Int /\ j \in Int
    BY <1>2
  <2>1. CASE j \in DOMAIN s
    BY <1>1, <1>2, <1>4, <2>0, <2>1 DEF InOrder
  <2>2. CASE j \notin DOMAIN s /\ i \in DOMAIN s
    <3>1. u[i] \in Range(s) /\ u[j] \in Range(t)
      BY <1>2, <2>2
    <3> QED
      BY <3>1 DEF Sooner, Precede
  <2>3. CASE j \notin DOMAIN s /\ i \notin DOMAIN s
    <3>1. /\ i - Len(s) \in DOMAIN t /\ u[i] = t[i - Len(s)]
          /\ j - Len(s) \in DOMAIN t /\ u[j] = t[j - Len(s)]
      BY <1>2, <2>3
    <3>2. i - Len(s) < j - Len(s)
      BY <1>2, <2>0, <1>4
    <3> QED
      BY <3>1, <3>2, <1>1 DEF InOrder
  <2> QED
    BY <2>1, <2>2, <2>3
<1> QED
  BY <1>1, <1>3, <1>4 DEF Ordered, InOrder, u

LEMMA OneIsListed ==
    ASSUME NEW verb, NEW what \in DOMAIN Turn
    PROVE  Ordered(verb, <<Do(what)>>) /\ Range(<<Do(what)>>) = {Do(what)}
<1> DEFINE x == Do(what)
           s == <<x>>
<1>1. x \in Stmt
  BY DEF Do, Stmt
<1> HIDE DEF x
<1>2. s \in Seq(Stmt) /\ DOMAIN s = {1} /\ s[1] = x
  BY <1>1
<1> HIDE DEF s
<1>3. Range(s) = {x}
  BY <1>2 DEF Range
<1> QED
  BY <1>1, <1>2, <1>3 DEF Ordered, InOrder, s, x

LEMMA NoneIsListed ==
    ASSUME NEW verb
    PROVE  Ordered(verb, <<>>) /\ Range(<<>>) = {}
BY DEF Ordered, InOrder, Range

LEMMA ManyAreListed ==
    ASSUME NEW verb, NEW what \in Listing, NEW S \in SUBSET Users
    PROVE  Ordered(verb, Each(what, S)) /\ Range(Each(what, S)) = Each1(what, S)
<1> DEFINE s == Each(what, S)
<1>1. s \in Seq(Each1(what, S)) /\ Range(s) = Each1(what, S)
  BY EachIsListed
<1>2. Each1(what, S) \subseteq Stmt /\ \A x \in Each1(what, S) : x.do = what
  <2> SUFFICES ASSUME NEW x \in Each1(what, S) PROVE x \in Stmt /\ x.do = what
    OBVIOUS
  <2>1. PICK u \in S : x = [do |-> what, who |-> u]
    BY DEF Each1, To
  <2>2. what \in DOMAIN Turn
    BY DEF Listing, Turn
  <2> QED
    BY <2>1, <2>2 DEF Stmt
<1> HIDE DEF s
<1>3. s \in Seq(Stmt) /\ \A i \in DOMAIN s : s[i].do = what
  BY <1>1, <1>2
<1>4. InOrder(verb, s)
  BY <1>3 DEF InOrder, Sooner
<1> QED
  BY <1>1, <1>3, <1>4 DEF Ordered, s

(* What is left after the first statement comes later, or lists more of the same. *)
LEMMA FirstThenRest ==
    ASSUME NEW verb, NEW s \in Seq(Stmt), s # <<>>, InOrder(verb, s)
    PROVE  /\ Head(s) \in Stmt /\ Tail(s) \in Seq(Stmt) /\ InOrder(verb, Tail(s))
           /\ Range(s) = {Head(s)} \cup Range(Tail(s))
           /\ \A x \in Range(Tail(s)) : Sooner(verb, Head(s), x)
<1> DEFINE t == Tail(s)
<1>1. /\ Len(s) \in Nat \ {0} /\ DOMAIN s = 1..Len(s) /\ t \in Seq(Stmt) /\ DOMAIN t = 1..(Len(s) - 1)
      /\ \A i \in DOMAIN t : t[i] = s[i + 1] /\ i + 1 \in DOMAIN s
      /\ Head(s) = s[1] /\ s[1] \in Stmt
  OBVIOUS
<1> HIDE DEF t
<1>2. InOrder(verb, t)
  BY <1>1 DEF InOrder
<1>3. Range(s) = {Head(s)} \cup Range(t)
  <2>1. \A i \in DOMAIN s : i = 1 \/ (i - 1 \in DOMAIN t /\ t[i - 1] = s[i])
    BY <1>1
  <2> QED
    BY <1>1, <2>1 DEF Range
<1>4. \A x \in Range(t) : Sooner(verb, Head(s), x)
  BY <1>1 DEF InOrder, Range
<1> QED
  BY <1>1, <1>2, <1>3, <1>4 DEF t

LEMMA Whats ==
    /\ "before" \in DOMAIN Turn /\ "find" \in DOMAIN Turn /\ "bad" \in DOMAIN Turn
    /\ "name" \in DOMAIN Turn /\ "free" \in DOMAIN Turn /\ "save" \in DOMAIN Turn
    /\ "clear" \in DOMAIN Turn /\ "leave" \in DOMAIN Turn /\ "erase" \in DOMAIN Turn
    /\ "render" \in DOMAIN Turn /\ "count" \in DOMAIN Turn /\ "page" \in DOMAIN Turn
    /\ "reply" \in DOMAIN Turn /\ "row" \in DOMAIN Turn
BY DEF Turn

LEMMA Ranks ==
    /\ \A v : /\ Rank(v, "before") = 0 /\ Rank(v, "find") = 1 /\ Rank(v, "bad") = 4
              /\ Rank(v, "name") = 5 /\ Rank(v, "free") = 6 /\ Rank(v, "save") = 7
              /\ Rank(v, "leave") = 8 /\ Rank(v, "erase") = 10 /\ Rank(v, "render") = 11
              /\ Rank(v, "count") = 11 /\ Rank(v, "page") = 12 /\ Rank(v, "reply") = 13
              /\ Rank(v, "row") = 14 /\ Rank(v, "joined") = 15 /\ Rank(v, "left") = 16
    /\ \A v : v # "PATCH" => Rank(v, "clear") = 8 /\ Rank(v, "add") = 9 /\ Rank(v, "drop") = 9
    /\ Rank("PATCH", "clear") = 2 /\ Rank("PATCH", "add") = 3 /\ Rank("PATCH", "drop") = 3
BY DEF Rank, Turn

(* What kinds of statement a set has. *)
Kinds(S) == {x.do : x \in S}
Lower(verb, A, B) == \A a \in A, b \in B : Rank(verb, a) < Rank(verb, b)

LEMMA KindsTell ==
    /\ \A what : Kinds({Do(what)}) = {what}
    /\ \A c, what : Kinds(Only(c, what)) \subseteq {what}
    /\ \A what, S : Kinds(Each1(what, S)) \subseteq {what}
    /\ \A S, T : Kinds(S \cup T) = Kinds(S) \cup Kinds(T)
    /\ Kinds({}) = {}
BY DEF Kinds, Do, Only, Each1, To

LEMMA KindsPrecede ==
    ASSUME NEW verb, NEW S, NEW T, NEW A, NEW B,
           Kinds(S) \subseteq A, Kinds(T) \subseteq B, Lower(verb, A, B)
    PROVE  Precede(verb, S, T)
BY DEF Precede, Kinds, Lower

(* A list in order, the set of its statements, and kinds that cover them. *)
Fits(verb, s, S, A) == Ordered(verb, s) /\ Range(s) = S /\ Kinds(S) \subseteq A

LEMMA FitsJoin ==
    ASSUME NEW verb, NEW s, NEW S, NEW A, NEW t, NEW T, NEW B,
           Fits(verb, s, S, A), Fits(verb, t, T, B), Lower(verb, A, B)
    PROVE  Fits(verb, s \o t, S \cup T, A \cup B)
BY ListsJoin, KindsPrecede, KindsTell DEF Fits

LEMMA FitsOne ==
    ASSUME NEW verb, NEW what \in DOMAIN Turn
    PROVE  Fits(verb, <<Do(what)>>, {Do(what)}, {what})
BY OneIsListed, KindsTell DEF Fits

LEMMA FitsWhen ==
    ASSUME NEW verb, NEW c \in BOOLEAN, NEW what \in DOMAIN Turn
    PROVE  Fits(verb, When(c, <<Do(what)>>), Only(c, what), {what})
<1>1. CASE c
  BY <1>1, FitsOne DEF When, Only
<1>2. CASE ~c
  BY <1>2, NoneIsListed, KindsTell DEF When, Only, Fits
<1> QED
  BY <1>1, <1>2

LEMMA FitsEach ==
    ASSUME NEW verb, NEW what \in Listing, NEW S \in SUBSET Users
    PROVE  Fits(verb, Each(what, S), Each1(what, S), {what})
BY ManyAreListed, KindsTell DEF Fits

LEMMA FitsTwo ==
    ASSUME NEW verb, NEW x \in DOMAIN Turn, NEW y \in DOMAIN Turn, Lower(verb, {x}, {y})
    PROVE  Fits(verb, <<Do(x), Do(y)>>, {Do(x), Do(y)}, {x, y})
<1> DEFINE s == <<Do(x)>>
           t == <<Do(y)>>
<1>1. Fits(verb, s, {Do(x)}, {x}) /\ Fits(verb, t, {Do(y)}, {y})
  BY FitsOne
<1>2. <<Do(x), Do(y)>> = s \o t
  OBVIOUS
<1>3. {Do(x), Do(y)} = {Do(x)} \cup {Do(y)} /\ {x, y} = {x} \cup {y}
  OBVIOUS
<1> HIDE DEF s, t
<1>4. Fits(verb, s \o t, {Do(x)} \cup {Do(y)}, {x} \cup {y})
  BY <1>1, FitsJoin
<1> QED
  BY <1>2, <1>3, <1>4

Editing == {"clear", "add", "drop"}

LEMMA FitsSetMembers ==
    ASSUME NEW verb, NEW S \in SUBSET Users
    PROVE  Fits(verb, SetMembers(S), {Do("clear")} \cup Each1("add", S), Editing)
<1>1. Fits(verb, <<Do("clear")>>, {Do("clear")}, {"clear"})
  BY FitsOne, Whats
<1>2. Fits(verb, Each("add", S), Each1("add", S), {"add"})
  BY FitsEach DEF Listing
<1>3. Lower(verb, {"clear"}, {"add"})
  BY Ranks DEF Lower
<1>4. Fits(verb, SetMembers(S), {Do("clear")} \cup Each1("add", S), {"clear"} \cup {"add"})
  BY <1>1, <1>2, <1>3, FitsJoin DEF SetMembers
<1> QED
  BY <1>4 DEF Fits, Editing

LEMMA FitsMembers ==
    ASSUME NEW rq, BodyFits(rq)
    PROVE  Fits(rq.verb, Members(rq), Setting(rq), Editing)
<1>1. CASE rq.id \in Groups
  <2>1. rq.who \in SUBSET Users
    BY DEF BodyFits
  <2> QED
    BY <1>1, <2>1, FitsSetMembers DEF Members, Setting
<1>2. CASE rq.id \notin Groups
  BY <1>2, NoneIsListed, KindsTell DEF Members, Setting, Fits
<1> QED
  BY <1>1, <1>2

LEMMA FitsCreate ==
    ASSUME NEW rq, BodyFits(rq), rq.verb = "POST"
    PROVE  Fits("POST", handleCreate(rq),
                {Do("name"), Do("save")} \cup Only(adopts(rq), "free") \cup Setting(rq),
                {"name", "free", "save"} \cup Editing)
<1> DEFINE a == <<Do("name")>>
           b == When(adopts(rq), <<Do("free")>>)
           c == <<Do("save")>>
           d == Members(rq)
           f == Only(adopts(rq), "free")
<1>1. Fits("POST", a, {Do("name")}, {"name"}) /\ Fits("POST", c, {Do("save")}, {"save"})
  BY FitsOne, Whats
<1>2. Fits("POST", b, f, {"free"})
  BY FitsWhen, Whats DEF adopts
<1>3. Fits("POST", d, Setting(rq), Editing)
  BY FitsMembers
<1>4. handleCreate(rq) = a \o b \o c \o d
  BY DEF handleCreate
<1>5. /\ Lower("POST", {"name"}, {"free"}) /\ Lower("POST", {"name"} \cup {"free"}, {"save"})
      /\ Lower("POST", {"name"} \cup {"free"} \cup {"save"}, Editing)
  BY Ranks DEF Lower, Editing
<1> HIDE DEF a, b, c, d, f
<1>6. Fits("POST", a \o b, {Do("name")} \cup f, {"name"} \cup {"free"})
  BY <1>1, <1>2, <1>5, FitsJoin
<1>7. Fits("POST", a \o b \o c, {Do("name")} \cup f \cup {Do("save")}, {"name"} \cup {"free"} \cup {"save"})
  BY <1>1, <1>6, <1>5, FitsJoin
<1>8. Fits("POST", a \o b \o c \o d, {Do("name")} \cup f \cup {Do("save")} \cup Setting(rq),
           {"name"} \cup {"free"} \cup {"save"} \cup Editing)
  BY <1>3, <1>7, <1>5, FitsJoin
<1>9. /\ {Do("name"), Do("save")} \cup f \cup Setting(rq) = {Do("name")} \cup f \cup {Do("save")} \cup Setting(rq)
      /\ {"name", "free", "save"} \cup Editing = {"name"} \cup {"free"} \cup {"save"} \cup Editing
  OBVIOUS
<1> QED
  BY <1>4, <1>8, <1>9 DEF f

LEMMA FitsPut ==
    ASSUME NEW rq, BodyFits(rq), rq.verb = "PUT"
    PROVE  Fits("PUT", handlePut(rq),
                IF mismatched(rq) THEN {Do("bad")}
                ELSE {Do("find"), Do("name"), Do("save")} \cup Setting(rq),
                {"bad", "find", "name", "save"} \cup Editing)
<1>1. CASE mismatched(rq)
  <2>1. Fits("PUT", <<Do("bad")>>, {Do("bad")}, {"bad"})
    BY FitsOne, Whats
  <2> QED
    BY <1>1, <2>1 DEF handlePut, Fits
<1>2. CASE ~mismatched(rq)
  <2> DEFINE a == <<Do("find"), Do("name")>>
             c == <<Do("save")>>
             d == Members(rq)
  <2>0. handlePut(rq) = a \o c \o d
    BY <1>2 DEF handlePut
  <2>1. /\ Lower("PUT", {"find"}, {"name"}) /\ Lower("PUT", {"find", "name"}, {"save"})
        /\ Lower("PUT", {"find", "name"} \cup {"save"}, Editing)
    BY Ranks DEF Lower, Editing
  <2>2. Fits("PUT", a, {Do("find"), Do("name")}, {"find", "name"})
    BY <2>1, FitsTwo, Whats
  <2>3. Fits("PUT", c, {Do("save")}, {"save"})
    BY FitsOne, Whats
  <2>4. Fits("PUT", d, Setting(rq), Editing)
    BY FitsMembers
  <2> HIDE DEF a, c, d
  <2>5. Fits("PUT", a \o c, {Do("find"), Do("name")} \cup {Do("save")}, {"find", "name"} \cup {"save"})
    BY <2>1, <2>2, <2>3, FitsJoin
  <2>6. Fits("PUT", a \o c \o d, {Do("find"), Do("name")} \cup {Do("save")} \cup Setting(rq),
             {"find", "name"} \cup {"save"} \cup Editing)
    BY <2>1, <2>4, <2>5, FitsJoin
  <2>7. {Do("find"), Do("name")} \cup {Do("save")} \cup Setting(rq)
          = {Do("find"), Do("name"), Do("save")} \cup Setting(rq)
    OBVIOUS
  <2> QED
    BY <1>2, <2>0, <2>6, <2>7 DEF Fits
<1> QED
  BY <1>1, <1>2

LEMMA FitsPatch ==
    ASSUME NEW rq, BodyFits(rq), rq.verb = "PATCH", NEW e, Fits("PATCH", e, Patching(rq), Editing)
    PROVE  Fits("PATCH", <<Do("find")>> \o e \o When(rq.bad, <<Do("bad")>>) \o <<Do("name"), Do("save")>>,
                {Do("find"), Do("name"), Do("save")} \cup Only(rq.bad, "bad") \cup Patching(rq),
                {"find", "bad", "name", "save"} \cup Editing)
<1> DEFINE a == <<Do("find")>>
           b == When(rq.bad, <<Do("bad")>>)
           c == <<Do("name"), Do("save")>>
           f == Only(rq.bad, "bad")
<1>1. /\ Lower("PATCH", {"find"}, Editing) /\ Lower("PATCH", {"find"} \cup Editing, {"bad"})
      /\ Lower("PATCH", {"find"} \cup Editing \cup {"bad"}, {"name", "save"})
      /\ Lower("PATCH", {"name"}, {"save"})
  BY Ranks DEF Lower, Editing
<1>2. Fits("PATCH", a, {Do("find")}, {"find"})
  BY FitsOne, Whats
<1>3. Fits("PATCH", b, f, {"bad"})
  BY FitsWhen, Whats DEF BodyFits
<1>4. Fits("PATCH", c, {Do("name"), Do("save")}, {"name", "save"})
  BY <1>1, FitsTwo, Whats
<1> HIDE DEF a, b, c, f
<1>5. Fits("PATCH", a \o e, {Do("find")} \cup Patching(rq), {"find"} \cup Editing)
  BY <1>1, <1>2, FitsJoin
<1>6. Fits("PATCH", a \o e \o b, {Do("find")} \cup Patching(rq) \cup f, {"find"} \cup Editing \cup {"bad"})
  BY <1>1, <1>3, <1>5, FitsJoin
<1>7. Fits("PATCH", a \o e \o b \o c, {Do("find")} \cup Patching(rq) \cup f \cup {Do("name"), Do("save")},
           {"find"} \cup Editing \cup {"bad"} \cup {"name", "save"})
  BY <1>1, <1>4, <1>6, FitsJoin
<1>8. /\ {Do("find")} \cup Patching(rq) \cup f \cup {Do("name"), Do("save")}
           = {Do("find"), Do("name"), Do("save")} \cup f \cup Patching(rq)
      /\ {"find"} \cup Editing \cup {"bad"} \cup {"name", "save"} = {"find", "bad", "name", "save"} \cup Editing
  OBVIOUS
<1> QED
  BY <1>7, <1>8 DEF a, b, c, f

LEMMA FitsPatchUser ==
    ASSUME NEW rq, BodyFits(rq), rq.verb = "PATCH", rq.id \in Users
    PROVE  Fits("PATCH", patchUser(rq),
                {Do("find"), Do("name"), Do("save")} \cup Only(rq.bad, "bad") \cup Patching(rq),
                {"find", "bad", "name", "save"} \cup Editing)
<1>1. rq.op = None
  BY DEF BodyFits
<1>2. Patching(rq) = {}
  BY <1>1, NoneAssumption DEF Patching
<1>3. Fits("PATCH", <<>>, Patching(rq), Editing)
  BY <1>2, NoneIsListed, KindsTell DEF Fits
<1>4. patchUser(rq) = <<Do("find")>> \o <<>> \o When(rq.bad, <<Do("bad")>>) \o <<Do("name"), Do("save")>>
  <2>1. <<Do("find")>> \o <<>> = <<Do("find")>>
    OBVIOUS
  <2> QED
    BY <2>1 DEF patchUser
<1> QED
  BY <1>3, <1>4, FitsPatch

LEMMA FitsPatchGroup ==
    ASSUME NEW rq, BodyFits(rq), rq.verb = "PATCH", rq.id \in Groups
    PROVE  Fits("PATCH", patchGroup(rq),
                {Do("find"), Do("name"), Do("save")} \cup Only(rq.bad, "bad") \cup Patching(rq),
                {"find", "bad", "name", "save"} \cup Editing)
<1> DEFINE e == CASE rq.op = "add" -> Each("add", rq.who)
                  [] rq.op = "remove" -> Each("drop", rq.who)
                  [] rq.op = "replace" -> SetMembers(rq.who)
                  [] OTHER -> <<>>
<1>0. rq.who \in SUBSET Users
  BY DEF BodyFits
<1>1. CASE rq.op = "add"
  <2>1. e = Each("add", rq.who) /\ Patching(rq) = Each1("add", rq.who)
    BY <1>1 DEF Patching
  <2>2. Fits("PATCH", Each("add", rq.who), Each1("add", rq.who), {"add"})
    BY <1>0, FitsEach DEF Listing
  <2>3. Fits("PATCH", e, Patching(rq), Editing)
    BY <2>1, <2>2 DEF Fits, Editing
  <2> QED
    BY <2>3, FitsPatch DEF patchGroup
<1>2. CASE rq.op = "remove"
  <2>1. e = Each("drop", rq.who) /\ Patching(rq) = Each1("drop", rq.who)
    BY <1>2 DEF Patching
  <2>2. Fits("PATCH", Each("drop", rq.who), Each1("drop", rq.who), {"drop"})
    BY <1>0, FitsEach DEF Listing
  <2>3. Fits("PATCH", e, Patching(rq), Editing)
    BY <2>1, <2>2 DEF Fits, Editing
  <2> QED
    BY <2>3, FitsPatch DEF patchGroup
<1>3. CASE rq.op = "replace"
  <2>1. e = SetMembers(rq.who) /\ Patching(rq) = {Do("clear")} \cup Each1("add", rq.who)
    BY <1>3 DEF Patching, Setting
  <2>3. Fits("PATCH", e, Patching(rq), Editing)
    BY <1>0, <2>1, FitsSetMembers
  <2> QED
    BY <2>3, FitsPatch DEF patchGroup
<1>4. CASE rq.op \notin {"add", "remove", "replace"}
  <2>1. e = <<>> /\ Patching(rq) = {}
    BY <1>4 DEF Patching
  <2>3. Fits("PATCH", e, Patching(rq), Editing)
    BY <2>1, NoneIsListed, KindsTell DEF Fits
  <2> QED
    BY <2>3, FitsPatch DEF patchGroup
<1> QED
  BY <1>1, <1>2, <1>3, <1>4

(* The statements of a request are the planned ones, in order. *)
LEMMA StatementsArePlanned ==
    ASSUME NEW rq, BodyFits(rq)
    PROVE  Ordered(rq.verb, Statements(rq)) /\ Range(Statements(rq)) = Planned(rq)
<1> DEFINE v == rq.verb
           early == Only(Emits /\ v \in {"PUT", "PATCH", "DELETE"}, "before")
           late == Only(v \notin {"GET", "LIST"}, "reply")
           a == captureMockBefore(rq)
           c == When(v \notin {"GET", "LIST"}, <<Do("reply")>>)
           Middle == (DOMAIN Turn) \ {"before", "reply", "row", "joined", "left"}
<1>1. Fits(v, a, early, {"before"})
  BY FitsWhen, Whats DEF captureMockBefore
<1>2. Fits(v, c, late, {"reply"})
  BY FitsWhen, Whats
<1>3. Lower(v, {"before"}, Middle) /\ Lower(v, {"before"} \cup Middle, {"reply"})
  BY Ranks DEF Lower, Turn
<1>4. ASSUME NEW b, NEW S, NEW A, Fits(v, b, S, A), A \subseteq Middle,
             Statements(rq) = a \o b \o c, Planned(rq) = early \cup late \cup S
      PROVE  Ordered(rq.verb, Statements(rq)) /\ Range(Statements(rq)) = Planned(rq)
  <2>0. Fits(v, b, S, Middle)
    BY <1>4 DEF Fits
  <2> HIDE DEF a, c, early, late, Middle
  <2>1. Fits(v, a \o b, early \cup S, {"before"} \cup Middle)
    BY <1>1, <1>3, <2>0, FitsJoin
  <2>2. Fits(v, a \o b \o c, early \cup S \cup late, {"before"} \cup Middle \cup {"reply"})
    BY <1>2, <1>3, <2>1, FitsJoin
  <2> QED
    BY <1>4, <2>2 DEF Fits
<1>5. v \in {"POST", "PUT", "PATCH", "DELETE", "GET", "LIST"}
  BY DEF BodyFits
<1>6. /\ {"name", "free", "save"} \cup Editing \subseteq Middle
      /\ {"bad", "find", "name", "save"} \cup Editing \subseteq Middle
      /\ {"find", "bad", "name", "save"} \cup Editing \subseteq Middle
      /\ {"leave", "erase"} \subseteq Middle /\ {"clear", "erase"} \subseteq Middle
      /\ {"find", "render"} \subseteq Middle /\ {"count", "page"} \subseteq Middle
  BY DEF Editing, Turn
<1>7. /\ Lower(v, {"leave"}, {"erase"}) /\ (v # "PATCH" => Lower(v, {"clear"}, {"erase"}))
      /\ Lower(v, {"find"}, {"render"}) /\ Lower(v, {"count"}, {"page"})
  BY Ranks DEF Lower
<1> HIDE DEF Middle, a, c, early, late
<1>8. CASE v = "POST"
  <2>1. /\ Statements(rq) = a \o handleCreate(rq) \o c
        /\ Planned(rq) = early \cup late \cup ({Do("name"), Do("save")} \cup Only(adopts(rq), "free") \cup Setting(rq))
    BY <1>8 DEF Statements, Planned, a, c, early, late
  <2> QED
    BY <1>4, <1>6, <1>8, <2>1, FitsCreate
<1>9. CASE v = "PUT"
  <2>1. /\ Statements(rq) = a \o handlePut(rq) \o c
        /\ Planned(rq) = early \cup late \cup (IF mismatched(rq) THEN {Do("bad")}
                                  ELSE {Do("find"), Do("name"), Do("save")} \cup Setting(rq))
    BY <1>9 DEF Statements, Planned, a, c, early, late
  <2> QED
    BY <1>4, <1>6, <1>9, <2>1, FitsPut
<1>10. CASE v = "PATCH"
  <2>0. rq.id \in Users \/ (rq.id \notin Users /\ rq.id \in Groups)
    BY DEF BodyFits, Res
  <2>1. /\ Statements(rq) = a \o (IF rq.id \in Users THEN patchUser(rq) ELSE patchGroup(rq)) \o c
        /\ Planned(rq) = early \cup late
             \cup ({Do("find"), Do("name"), Do("save")} \cup Only(rq.bad, "bad") \cup Patching(rq))
    BY <1>10 DEF Statements, Planned, a, c, early, late
  <2> QED
    BY <1>4, <1>6, <1>10, <2>0, <2>1, FitsPatchUser, FitsPatchGroup
<1>11. CASE v = "DELETE"
  <2>0. PICK x : x = IF rq.id \in Users THEN "leave" ELSE "clear"
    OBVIOUS
  <2>1. x \in DOMAIN Turn /\ "erase" \in DOMAIN Turn /\ Lower(v, {x}, {"erase"}) /\ {x, "erase"} \subseteq Middle
    BY <1>6, <1>7, <1>11, <2>0, Whats
  <2>2. Fits(v, <<Do(x), Do("erase")>>, {Do(x), Do("erase")}, {x, "erase"})
    BY <2>1, FitsTwo
  <2>3. /\ Statements(rq) = a \o <<Do(x), Do("erase")>> \o c
        /\ Planned(rq) = early \cup late \cup {Do(x), Do("erase")}
    BY <1>11, <2>0 DEF Statements, Planned, handleDelete, a, c, early, late
  <2>4. {x, "erase"} \subseteq Middle
    BY <2>1
  <2>5. PICK b, S, A : b = <<Do(x), Do("erase")>> /\ S = {Do(x), Do("erase")} /\ A = {x, "erase"}
    OBVIOUS
  <2>6. Fits(v, b, S, A) /\ A \subseteq Middle /\ Statements(rq) = a \o b \o c /\ Planned(rq) = early \cup late \cup S
    BY <2>2, <2>3, <2>4, <2>5
  <2> QED
    BY <1>4, <2>6
<1>12. CASE v = "GET"
  <2>2. Fits(v, <<Do("find"), Do("render")>>, {Do("find"), Do("render")}, {"find", "render"})
    BY <1>7, FitsTwo, Whats
  <2>3. /\ Statements(rq) = a \o <<Do("find"), Do("render")>> \o c
        /\ Planned(rq) = early \cup late \cup {Do("find"), Do("render")}
    BY <1>12 DEF Statements, Planned, handleGet, a, c, early, late
  <2> QED
    BY <1>4, <1>6, <2>2, <2>3
<1>13. CASE v = "LIST"
  <2>2. Fits(v, <<Do("count"), Do("page")>>, {Do("count"), Do("page")}, {"count", "page"})
    BY <1>7, FitsTwo, Whats
  <2>3. /\ Statements(rq) = a \o <<Do("count"), Do("page")>> \o c
        /\ Planned(rq) = early \cup late \cup {Do("count"), Do("page")}
    BY <1>13 DEF Statements, Planned, handleList, a, c, early, late
  <2> QED
    BY <1>4, <1>6, <2>2, <2>3
<1> QED
  BY <1>5, <1>8, <1>9, <1>10, <1>11, <1>12, <1>13

----------------------------------------------------------------------------
(* One statement of one request *)

(* What kinds of statement a request has, by what it asks. *)
LEMMA PlanTells ==
    ASSUME NEW rq, BodyFits(rq), NEW s \in Planned(rq)
    PROVE  /\ s.do \in {"before", "find", "bad", "name", "free", "save", "clear", "leave", "add",
                        "drop", "erase", "render", "count", "page", "reply"}
           /\ s.do = "render" => rq.verb = "GET"
           /\ s.do \in {"count", "page"} => rq.verb = "LIST"
           /\ s.do = "reply" => rq.verb \notin {"GET", "LIST"}
           /\ s.do \in {"leave", "erase"} => rq.verb = "DELETE"
           /\ s.do = "leave" => rq.id \in Users
           /\ s.do \in {"name", "save"} => Saves(rq)
           /\ s.do = "free" => rq.verb = "POST" /\ adopts(rq)
           /\ s.do = "find" => rq.verb \in {"PATCH", "GET"} \/ (rq.verb = "PUT" /\ ~mismatched(rq))
           /\ s.do = "bad" => rq.bad \/ (rq.verb = "PUT" /\ mismatched(rq))
           /\ s.do = "before" => Emits /\ rq.verb \in {"PUT", "PATCH", "DELETE"}
           /\ s.do \in {"add", "drop"} => Saves(rq) /\ rq.id \in Groups /\ s.who \in rq.who
           /\ s.do = "clear" => (Saves(rq) \/ rq.verb = "DELETE") /\ rq.id \notin Users
<1>0. rq.id \in Groups => rq.id \notin Users
  BY KindAssumption
<1>1. /\ \A what, S, t : t \in Each1(what, S) => t.do = what /\ t.who \in S
      /\ \A what : Do(what).do = what
      /\ \A c, what, t : t \in Only(c, what) => c /\ t.do = what
  BY DEF Each1, To, Do, Only
<1>2. /\ s \in Setting(rq) => rq.id \in Groups /\ (s.do = "clear" \/ (s.do = "add" /\ s.who \in rq.who))
      /\ s \in Patching(rq) => \/ s.do \in {"add", "drop"} /\ s.who \in rq.who /\ rq.op # None
                               \/ s \in Setting(rq)
  <2>1. /\ s \in Setting(rq) => rq.id \in Groups /\ (s.do = "clear" \/ (s.do = "add" /\ s.who \in rq.who))
    BY <1>1 DEF Setting
  <2>2. rq.op \in {None, "add", "remove", "replace"}
    BY DEF BodyFits
  <2> QED
    BY <1>1, <2>1, <2>2, NoneAssumption DEF Patching
<1>3. rq.op # None => rq.id \in Groups
  BY DEF BodyFits, Res
<1>4. CASE s \in Only(Emits /\ rq.verb \in {"PUT", "PATCH", "DELETE"}, "before") 
                 \cup Only(rq.verb \notin {"GET", "LIST"}, "reply")
  <2>1. \/ s.do = "before" /\ Emits /\ rq.verb \in {"PUT", "PATCH", "DELETE"}
        \/ s.do = "reply" /\ rq.verb \notin {"GET", "LIST"}
    BY <1>4 DEF Only, Do
  <2> QED
    BY <2>1
<1>5. CASE s \notin Only(Emits /\ rq.verb \in {"PUT", "PATCH", "DELETE"}, "before") 
                    \cup Only(rq.verb \notin {"GET", "LIST"}, "reply")
  <2>0. rq.verb \in {"POST", "PUT", "PATCH", "DELETE", "GET", "LIST"}
    BY DEF BodyFits
  <2>1. CASE rq.verb = "POST"
    <3>1. s \in {Do("name"), Do("save")} \cup Only(adopts(rq), "free") \cup Setting(rq)
      BY <1>5, <2>1 DEF Planned
    <3> QED
      BY <1>0, <1>1, <1>2, <2>1, <3>1 DEF Saves
  <2>2. CASE rq.verb = "PUT"
    <3>1. s \in IF mismatched(rq) THEN {Do("bad")} ELSE {Do("find"), Do("name"), Do("save")} \cup Setting(rq)
      BY <1>5, <2>2 DEF Planned
    <3> QED
      BY <1>0, <1>1, <1>2, <2>2, <3>1 DEF Saves
  <2>3. CASE rq.verb = "PATCH"
    <3>1. s \in {Do("find"), Do("name"), Do("save")} \cup Only(rq.bad, "bad") \cup Patching(rq)
      BY <1>5, <2>3 DEF Planned
    <3> QED
      BY <1>0, <1>1, <1>2, <1>3, <2>3, <3>1 DEF Saves
  <2>4. CASE rq.verb = "DELETE"
    <3>1. s \in {Do(IF rq.id \in Users THEN "leave" ELSE "clear"), Do("erase")}
      BY <1>5, <2>4 DEF Planned
    <3> QED
      BY <1>1, <2>4, <3>1
  <2>5. CASE rq.verb = "GET"
    <3>1. s \in {Do("find"), Do("render")}
      BY <1>5, <2>5 DEF Planned
    <3> QED
      BY <1>1, <2>5, <3>1
  <2>6. CASE rq.verb = "LIST"
    <3>1. s \in {Do("count"), Do("page")}
      BY <1>5, <2>6 DEF Planned
    <3> QED
      BY <1>1, <2>6, <3>1
  <2> QED
    BY <2>0, <2>1, <2>2, <2>3, <2>4, <2>5, <2>6
<1> QED
  BY <1>4, <1>5

(* What comes before a request's next statement is done. *)
LEMMA EarlierIsDone ==
    ASSUME NEW q \in Req, Queued(q), Active(q)
    PROVE  /\ Head(todo[q]) \in Left(q) /\ Head(todo[q]) \in Stmt
           /\ Has(q, Head(todo[q]).do)
           /\ \A what \in DOMAIN Turn :
                Rank(req[q].verb, what) < Rank(req[q].verb, Head(todo[q]).do) => ~Has(q, what)
<1> DEFINE h == Head(todo[q])
           v == req[q].verb
<1>1. todo[q] \in Seq(Stmt) /\ todo[q] # <<>> /\ InOrder(v, todo[q])
  BY DEF Queued, Active
<1>2. /\ h \in Stmt /\ Left(q) = {h} \cup Range(Tail(todo[q]))
      /\ \A x \in Range(Tail(todo[q])) : Sooner(v, h, x)
  BY <1>1, FirstThenRest DEF Left
<1>3. \A x \in Left(q) : x = h \/ Sooner(v, h, x)
  BY <1>2
<1>4. h.do \in DOMAIN Turn
  BY <1>2 DEF Stmt
<1>5. \A what \in DOMAIN Turn : Rank(v, what) \in Int
  BY DEF Rank, Turn
<1> HIDE DEF h, v
<1>6. ASSUME NEW what \in DOMAIN Turn, Rank(v, what) < Rank(v, h.do), NEW x \in Left(q), x.do = what
      PROVE  FALSE
  BY <1>3, <1>4, <1>5, <1>6 DEF Sooner
<1> QED
  BY <1>2, <1>6 DEF Has, h, v

LEMMA NextLeaves ==
    ASSUME NEW q \in Req, Framed, Queued(q), Active(q), Next1(q)
    PROVE  /\ todo'[q] \in Seq(Stmt) /\ InOrder(req[q].verb, todo'[q])
           /\ todo' = [p \in Req |-> todo'[p]]
           /\ \A p \in Req \ {q} : todo'[p] = todo[p]
           /\ Left(q)' \subseteq Left(q)
           /\ \A x \in Left(q) : x.do # Head(todo[q]).do => x \in Left(q)'
           /\ \A x \in Left(q) : x = Head(todo[q]) \/ x \in Left(q)'
           /\ \A what : what # Head(todo[q]).do => (Has(q, what)' <=> Has(q, what))
           /\ \A what : what = Head(todo[q]).do /\ what \notin Listing => ~Has(q, what)'
<1> DEFINE h == Head(todo[q])
           t == Tail(todo[q])
           v == req[q].verb
<1>1. todo[q] \in Seq(Stmt) /\ todo[q] # <<>> /\ InOrder(v, todo[q])
  BY DEF Queued, Active
<1>2. /\ h \in Stmt /\ t \in Seq(Stmt) /\ InOrder(v, t) /\ Left(q) = {h} \cup Range(t)
      /\ \A x \in Range(t) : Sooner(v, h, x)
  BY <1>1, FirstThenRest DEF Left
<1>3. /\ todo'[q] = t /\ \A p \in Req \ {q} : todo'[p] = todo[p]
      /\ todo' = [p \in Req |-> todo'[p]]
  BY DEF Framed, Next1
<1>4. Left(q)' = Range(t)
  BY <1>3 DEF Left
<1>5. h.do \in DOMAIN Turn /\ Rank(v, h.do) \in Int
  BY <1>2 DEF Stmt, Rank, Turn
<1> HIDE DEF h, t, v
<1>6. h.do \notin Listing => \A x \in Range(t) : x.do # h.do
  BY <1>2, <1>5 DEF Sooner
<1>7. \A what : Has(q, what)' <=> \E x \in Range(t) : x.do = what
  BY <1>4 DEF Has
<1>8. \A what : Has(q, what) <=> \E x \in {h} \cup Range(t) : x.do = what
  BY <1>2 DEF Has
<1>9. todo'[q] \in Seq(Stmt) /\ InOrder(v, todo'[q])
  BY <1>2, <1>3
<1>10. /\ Left(q)' \subseteq Left(q) /\ \A x \in Left(q) : x = h \/ x \in Left(q)'
  BY <1>2, <1>4
<1>11. \A x \in Left(q) : x.do # h.do => x \in Left(q)'
  BY <1>10
<1>12. \A what : what # h.do => (Has(q, what)' <=> Has(q, what))
  BY <1>7, <1>8
<1>13. \A what : what = h.do /\ what \notin Listing => ~Has(q, what)'
  BY <1>6, <1>7
<1> QED
  BY <1>3, <1>9, <1>10, <1>11, <1>12, <1>13 DEF h, v

----------------------------------------------------------------------------
(* What holds however requests interleave, step by step *)

Mine(q) == Queued(q) /\ Knows(q) /\ BeforeFits(q) /\ WroteLate(q)

LEMMA Stays ==
    ASSUME NEW q \in Req, role' = role, req'[q] = req[q]
    PROVE  /\ Planned(req[q])' = Planned(req[q]) /\ (Saves(req[q])' <=> Saves(req[q]))
           /\ (BodyFits(req[q])' <=> BodyFits(req[q])) /\ (Half(req[q])' <=> Half(req[q]))
           /\ (mismatched(req[q])' <=> mismatched(req[q])) /\ (Emits' <=> Emits)
           /\ (createIfAbsent(req[q])' <=> createIfAbsent(req[q]))
<1>1. Planned(req[q])' = Planned(req[q])
  BY DEF Planned, Emits, adopts, mismatched, Setting, Patching
<1>2. BodyFits(req[q])' <=> BodyFits(req[q])
  BY DEF BodyFits, Names
<1>3. /\ Saves(req[q])' <=> Saves(req[q]) 
  BY DEF Saves, mismatched
<1>4. /\ Half(req[q])' <=> Half(req[q])
  BY DEF Half
<1>5. /\ (mismatched(req[q])' <=> mismatched(req[q])) /\ (Emits' <=> Emits)
      /\ (createIfAbsent(req[q])' <=> createIfAbsent(req[q]))
  BY DEF mismatched, Emits, createIfAbsent
<1> QED
  BY <1>1, <1>2, <1>3, <1>4, <1>5

LEMMA OthersAreLeft ==
    ASSUME NEW p \in Req, Mine(p), role' = role, req'[p] = req[p], todo'[p] = todo[p],
           local'[p] = local[p], answer'[p] = answer[p], used \subseteq used'
    PROVE  Mine(p)'
<1>1. /\ Planned(req[p])' = Planned(req[p]) /\ (Saves(req[p])' <=> Saves(req[p]))
      /\ (BodyFits(req[p])' <=> BodyFits(req[p])) /\ (Half(req[p])' <=> Half(req[p]))
      /\ (mismatched(req[p])' <=> mismatched(req[p])) /\ (Emits' <=> Emits)
  BY Stays
<1>2. /\ Left(p)' = Left(p) /\ (Active(p)' <=> Active(p)) /\ (Serving(p)' <=> Serving(p))
      /\ (Telling(p)' <=> Telling(p))
  BY DEF Left, Active, Serving, Telling
<1>3. /\ \A what : Has(p, what)' <=> Has(p, what)
      /\ Wanted(p)' = Wanted(p)
  BY <1>2 DEF Has, Wanted
<1>4. Queued(p)'
  BY <1>1, <1>2, <1>3 DEF Queued, Mine
<1>5. Knows(p)'
  BY <1>1, <1>2, <1>3 DEF Knows, Mine
<1>6. WroteLate(p)'
  BY <1>1, <1>2, <1>3 DEF WroteLate, Mine
<1>7. BeforeFits(p)'
  BY DEF BeforeFits, Mine
<1> QED
  BY <1>4, <1>5, <1>6, <1>7 DEF Mine

(* A step of one request keeps the invariant when it keeps its own part and the tables'. *)
LEMMA ServerGoesOn ==
    ASSUME ServerInd, NEW q \in Req, Keep, Framed', Mine(q)', Tables', LogFits', torn' \in BOOLEAN,
           \A p \in Req \ {q} : todo'[p] = todo[p] /\ local'[p] = local[p] /\ answer'[p] = answer[p]
    PROVE  ServerInd'
<1>1. role' = role /\ used' = used /\ crossed' = crossed /\ blurred' = blurred /\ req' = req
  BY DEF Keep
<1>2. \A p \in Req : Mine(p)
  BY DEF ServerInd, Mine
<1>3. ASSUME NEW p \in Req \ {q} PROVE Mine(p)'
  BY <1>1, <1>2, OthersAreLeft
<1>4. \A p \in Req : Mine(p)'
  BY <1>3
<1> QED
  BY <1>1, <1>4 DEF ServerInd, Mine

LEMMA RefusalKeepsServer ==
    ASSUME ServerInd, NEW q \in Req, NEW status \in Status, Refuse(q, status)
    PROVE  ServerInd'
<1>1. /\ todo' = [todo EXCEPT ![q] = <<>>] /\ answer' = [answer EXCEPT ![q] = status]
      /\ torn' = (torn \/ local[q].wrote) /\ UNCHANGED <<rows, local, told>> /\ Keep
  BY DEF Refuse
<1>2. Framed'
  BY <1>1 DEF ServerInd, Framed, Keep
<1>3. /\ todo'[q] = <<>> /\ answer'[q] = status /\ local' = local
      /\ \A p \in Req \ {q} : todo'[p] = todo[p] /\ local'[p] = local[p] /\ answer'[p] = answer[p]
  BY <1>1 DEF ServerInd, Framed
<1>4. ~Active(q)'
  BY <1>3 DEF Active
<1>5. Queued(q)'
  BY <1>3, <1>4, status \in Status DEF Queued, InOrder, Serving, Telling, ServerInd
<1>9. BeforeFits(q)'
  BY <1>1, <1>3 DEF ServerInd, BeforeFits, Keep
<1>6. Mine(q)'
  BY <1>4, <1>5, <1>9 DEF Mine, Knows, WroteLate, Serving, Telling
<1>7. Tables' /\ LogFits'
  BY <1>1 DEF ServerInd, Tables, LogFits, rows, Keep, RowOf
<1>8. torn' \in BOOLEAN
  BY <1>1
<1> QED
  BY <1>1, <1>2, <1>3, <1>6, <1>7, <1>8, ServerGoesOn

(* A statement that neither refuses nor answers leaves the rest of its request as planned. *)
LEMMA AdvanceIsQueued ==
    ASSUME ServerInd, NEW q \in Req, Active(q), Next1(q), role' = role, req' = req, used' = used,
           Head(todo[q]).do # "reply", answer'[q] = answer[q],
           DOMAIN local'[q] = {"row", "before", "wrote", "seen"}
    PROVE  /\ Queued(q)' /\ (Serving(q)' => Serving(q)) /\ (Telling(q)' => Telling(q))
<1>1. Queued(q) /\ Framed
  BY DEF ServerInd
<1>2. /\ todo'[q] \in Seq(Stmt) /\ InOrder(req[q].verb, todo'[q]) /\ Left(q)' \subseteq Left(q)
      /\ (Has(q, "reply")' <=> Has(q, "reply"))
  BY <1>1, NextLeaves
<1>3. /\ Planned(req[q])' = Planned(req[q]) /\ (BodyFits(req[q])' <=> BodyFits(req[q])) /\ (Emits' <=> Emits)
  BY Stays
<1>4. (Serving(q)' => Serving(q)) /\ (Telling(q)' => Telling(q))
  BY DEF Serving, Telling
<1>5. /\ answer[q] \in Status \cup {None} /\ BodyFits(req[q])
      /\ req[q].verb # "LIST" => req[q].id \in used
  BY <1>1 DEF Queued
<1>6. Serving(q)' => /\ Left(q)' \subseteq Planned(req[q])'
                     /\ req[q].verb \notin {"GET", "LIST"} => Has(q, "reply")'
  BY <1>1, <1>2, <1>3, <1>4 DEF Queued
<1>7. Telling(q)' => /\ answer[q] = 200 /\ Emits' /\ req[q].verb \notin {"GET", "LIST"}
                     /\ \A s \in Left(q)' : s.do \in {"row", "joined", "left"}
  BY <1>1, <1>2, <1>3, <1>4 DEF Queued
<1>8. Queued(q)'
  BY <1>2, <1>3, <1>5, <1>6, <1>7 DEF Queued
<1> QED
  BY <1>4, <1>8

(* What a request knows stays so while it runs none of the statements it learns by. *)
LEMMA KnowledgeLasts ==
    ASSUME ServerInd, NEW q \in Req, Active(q), Next1(q), role' = role, req' = req,
           Head(todo[q]).do \notin {"find", "name", "bad", "reply"}, answer'[q] = answer[q],
           local'[q].row = local[q].row
    PROVE  Knows(q)'
<1>1. Queued(q) /\ Framed /\ Knows(q)
  BY DEF ServerInd
<1>2. /\ (Has(q, "find")' <=> Has(q, "find")) /\ (Has(q, "name")' <=> Has(q, "name"))
      /\ (Has(q, "bad")' <=> Has(q, "bad"))
  BY <1>1, NextLeaves
<1>3. /\ (Saves(req[q])' <=> Saves(req[q])) /\ (mismatched(req[q])' <=> mismatched(req[q]))
  BY Stays
<1>4. (Serving(q)' => Serving(q)) /\ (Telling(q)' => Telling(q)) /\ Wanted(q)' = Wanted(q)
  BY DEF Serving, Telling, Wanted
<1> QED
  BY <1>1, <1>2, <1>3, <1>4 DEF Knows

(* A request that has written since still has nothing to be refused by. *)
LEMMA WroteLateLasts ==
    ASSUME ServerInd, NEW q \in Req, Active(q), Next1(q), role' = role, req' = req,
           answer'[q] = answer[q], local'[q].wrote = local[q].wrote
    PROVE  WroteLate(q)'
<1>1. Queued(q) /\ Framed /\ WroteLate(q)
  BY DEF ServerInd
<1>2. Left(q)' \subseteq Left(q)
  BY <1>1, NextLeaves
<1>3. Half(req[q])' <=> Half(req[q])
  BY Stays
<1>4. Serving(q)' => Serving(q)
  BY DEF Serving
<1> QED
  BY <1>1, <1>2, <1>3, <1>4 DEF WroteLate

(* What a statement of a request being served tells of the request. *)
LEMMA ServedByPlan ==
    ASSUME NEW q \in Req, Queued(q), Serving(q)
    PROVE  /\ BodyFits(req[q]) /\ Head(todo[q]) \in Planned(req[q])
           /\ \A s \in Left(q) : s \in Planned(req[q])
BY EarlierIsDone DEF Queued, Serving

(* The statements before the answer are run while the request is served. *)
LEMMA ServedUntilAnswered ==
    ASSUME NEW q \in Req, Queued(q), Active(q), Head(todo[q]).do \notin {"row", "joined", "left"}
    PROVE  Serving(q)
BY EarlierIsDone DEF Queued, Serving, Telling

(* Where the tables stay as they are and no event is told. *)
LEMMA ReadingKeepsServer ==
    ASSUME ServerInd, NEW q \in Req, Active(q), Next1(q), ReadsOnly, Head(todo[q]).do # "reply",
           \A p \in Req \ {q} : local'[p] = local[p],
           local' = [p \in Req |-> local'[p]], DOMAIN local'[q] = {"row", "before", "wrote", "seen"},
           local'[q].wrote = local[q].wrote, Knows(q)', BeforeFits(q)'
    PROVE  ServerInd'
<1>1. /\ Keep /\ UNCHANGED <<rows, told, torn, answer>> /\ role' = role /\ req' = req /\ used' = used
  BY DEF ReadsOnly, Keep
<1>2. Queued(q) /\ Framed
  BY DEF ServerInd
<1>3. Queued(q)'
  BY <1>1, AdvanceIsQueued
<1>4. WroteLate(q)'
  BY <1>1, WroteLateLasts
<1>5. \A p \in Req \ {q} : todo'[p] = todo[p] /\ local'[p] = local[p] /\ answer'[p] = answer[p]
  BY <1>1, <1>2, NextLeaves
<1>6. todo' = [p \in Req |-> todo'[p]]
  BY <1>2, NextLeaves
<1>7. Framed'
  BY <1>1, <1>2, <1>6 DEF Framed, Keep
<1>8. Tables' /\ LogFits' /\ torn' \in BOOLEAN
  BY <1>1 DEF ServerInd, Tables, LogFits, rows, Keep, RowOf
<1> QED
  BY <1>1, <1>3, <1>4, <1>5, <1>7, <1>8, ServerGoesOn DEF Mine

LEMMA BeforeKeepsServer ==
    ASSUME ServerInd, NEW q \in Req, Before(q)
    PROVE  ServerInd'
<1>1. Active(q) /\ Head(todo[q]).do = "before" /\ Next1(q) /\ ReadsOnly
  BY DEF Before, Head1
<1>2. Framed /\ Queued(q)
  BY DEF ServerInd
<1>3. PICK b : /\ local' = [local EXCEPT ![q] = [@ EXCEPT !.before = b]]
               /\ b = IF req[q].verb # "DELETE" /\ req[q].id \in Groups THEN MembersOf(req[q].id)
                      ELSE {x \in {req[q].id} : RowOf(x) # None}
  BY DEF Before
<1>9. local' = [local EXCEPT ![q] = [@ EXCEPT !.before = b]]
  BY <1>3
<1>4. /\ \A p \in Req \ {q} : local'[p] = local[p]
      /\ local' = [p \in Req |-> local'[p]] /\ DOMAIN local'[q] = {"row", "before", "wrote", "seen"}
      /\ local'[q].wrote = local[q].wrote /\ local'[q].row = local[q].row
      /\ local'[q].before = b
  BY <1>2, <1>9 DEF Framed, Queued
<1>5. Knows(q)'
  BY <1>1, <1>4, KnowledgeLasts DEF ReadsOnly, Keep
<1>6. BeforeFits(q)'
  <2>1. req' = req
    BY <1>1 DEF ReadsOnly, Keep
  <2>2. BodyFits(req[q])
    BY <1>1, <1>2 DEF Queued
  <2>3. b = IF req[q].verb # "DELETE" /\ req[q].id \in Groups THEN MembersOf(req[q].id)
            ELSE {x \in {req[q].id} : RowOf(x) # None}
    BY <1>3
  <2>4. local'[q].before = b
    BY <1>4
  <2> QED
    BY <2>1, <2>2, <2>3, <2>4 DEF BeforeFits, MembersOf, BodyFits, Res
<1> QED
  BY <1>1, <1>4, <1>5, <1>6, ReadingKeepsServer

LEMMA FindKeepsServer ==
    ASSUME ServerInd, NEW q \in Req, Find(q)
    PROVE  ServerInd'
<1> DEFINE r == req[q].id
<1>1. Active(q) /\ Head(todo[q]).do = "find"
  BY DEF Find, Head1
<1>2. Framed /\ Queued(q) /\ Knows(q)
  BY DEF ServerInd
<1>3. CASE Refuse(q, 404)
  BY <1>3, RefusalKeepsServer DEF Status
<1>4. CASE ~Refuse(q, 404)
  <2>1. /\ RowOf(r) # None \/ (req[q].verb = "PUT" /\ createIfAbsent(req[q]))
        /\ local' = [local EXCEPT ![q] = [@ EXCEPT !.row = RowOf(r)]]
        /\ Next1(q) /\ ReadsOnly
    BY <1>4 DEF Find
  <2>2. /\ \A p \in Req \ {q} : local'[p] = local[p]
        /\ local' = [p \in Req |-> local'[p]] /\ DOMAIN local'[q] = {"row", "before", "wrote", "seen"}
        /\ local'[q].wrote = local[q].wrote /\ local'[q].row = RowOf(r)
        /\ local'[q].before = local[q].before
    <3>1. PICK v : v = RowOf(r)
      OBVIOUS
    <3>2. local' = [local EXCEPT ![q] = [@ EXCEPT !.row = v]]
      BY <2>1, <3>1
    <3> QED
      BY <1>2, <3>1, <3>2 DEF Framed, Queued
  <2>3. Knows(q)'
    <3>1. Serving(q) /\ BodyFits(req[q])
      BY <1>1, <1>2, ServedUntilAnswered, ServedByPlan
    <3>2. role' = role /\ req' = req /\ answer' = answer
      BY <2>1 DEF ReadsOnly, Keep
    <3>3. ~Telling(q)'
      BY <3>1, <3>2 DEF Telling, Serving
    <3>4. /\ (Has(q, "name")' <=> Has(q, "name")) /\ (Has(q, "bad")' <=> Has(q, "bad"))
      BY <1>1, <1>2, <2>1, NextLeaves
    <3>5. req[q].verb = "PATCH" => RowOf(r) \in RowType(r)
      BY <2>1, <3>1 DEF BodyFits, RowOf, RowType, ServerInd, Tables, Res
    <3>6. Saves(req[q]) /\ ~Has(q, "name") => Wanted(q)' \in Names(r)
      <4>1. CASE req[q].verb = "PATCH" /\ req[q].name = None
        <5>1. Wanted(q)' = IF r \in Users THEN RowOf(r).name ELSE RowOf(r)
          BY <2>2, <3>2, <4>1 DEF Wanted
        <5> QED
          BY <3>5, <4>1, <5>1 DEF RowType, UserRow, Names
      <4>2. CASE ~(req[q].verb = "PATCH" /\ req[q].name = None)
        <5>1. Wanted(q)' = req[q].name /\ Wanted(q) = req[q].name
          BY <3>2, <4>2 DEF Wanted
        <5> QED
          BY <1>2, <3>1, <5>1 DEF Knows
      <4> QED
        BY <4>1, <4>2
    <3>7. /\ (Saves(req[q])' <=> Saves(req[q])) /\ (mismatched(req[q])' <=> mismatched(req[q]))
      BY <3>2, Stays
    <3> QED
      BY <1>2, <2>2, <3>1, <3>2, <3>3, <3>4, <3>5, <3>6, <3>7 DEF Knows
  <2>4. BeforeFits(q)'
    BY <2>1, <2>2 DEF ServerInd, BeforeFits, ReadsOnly, Keep
  <2> QED
    BY <1>1, <2>1, <2>2, <2>3, <2>4, ReadingKeepsServer
<1> QED
  BY <1>3, <1>4

LEMMA CheckNameKeepsServer ==
    ASSUME ServerInd, NEW q \in Req, CheckName(q)
    PROVE  ServerInd'
<1> DEFINE r == req[q].id
<1>1. Active(q) /\ Head(todo[q]).do = "name"
  BY DEF CheckName, Head1
<1>2. Framed /\ Queued(q) /\ Knows(q)
  BY DEF ServerInd
<1>3. CASE Refuse(q, 400) \/ Refuse(q, 409)
  BY <1>3, RefusalKeepsServer DEF Status
<1>4. CASE ~(Refuse(q, 400) \/ Refuse(q, 409))
  <2>1. Wanted(q) # None /\ Next1(q) /\ ReadsOnly /\ local' = local
    BY <1>4 DEF CheckName
  <2>2. /\ local' = [p \in Req |-> local'[p]] /\ DOMAIN local'[q] = {"row", "before", "wrote", "seen"}
    BY <1>2, <2>1 DEF Framed, Queued
  <2>3. Knows(q)'
    <3>1. Serving(q) /\ BodyFits(req[q])
      BY <1>1, <1>2, ServedUntilAnswered, ServedByPlan
    <3>2. role' = role /\ req' = req /\ answer' = answer
      BY <2>1 DEF ReadsOnly, Keep
    <3>3. ~Telling(q)' /\ Wanted(q)' = Wanted(q)
      BY <2>1, <3>1, <3>2 DEF Telling, Serving, Wanted
    <3>4. /\ (Has(q, "find")' <=> Has(q, "find")) /\ (Has(q, "bad")' <=> Has(q, "bad"))
      BY <1>1, <1>2, <2>1, NextLeaves
    <3>5. Wanted(q) \in Names(r)
      <4>1. CASE req[q].verb = "PATCH" /\ req[q].name = None
        <5>1. ~Has(q, "find")
          BY <1>1, <1>2, EarlierIsDone, Ranks, Whats
        <5>2. local[q].row \in RowType(r)
          BY <1>2, <3>1, <4>1, <5>1 DEF Knows
        <5> QED
          BY <4>1, <5>2 DEF Wanted, RowType, UserRow, Names
      <4>2. CASE ~(req[q].verb = "PATCH" /\ req[q].name = None)
        BY <2>1, <3>1, <4>2 DEF Wanted, BodyFits
      <4> QED
        BY <4>1, <4>2
    <3>7. /\ (Saves(req[q])' <=> Saves(req[q])) /\ (mismatched(req[q])' <=> mismatched(req[q]))
      BY <3>2, Stays
    <3> QED
      BY <1>2, <2>1, <3>1, <3>2, <3>3, <3>4, <3>5, <3>7 DEF Knows
  <2>4. BeforeFits(q)'
    BY <2>1, <2>2 DEF ServerInd, BeforeFits, ReadsOnly, Keep
  <2> QED
    BY <1>1, <2>1, <2>2, <2>3, <2>4, ReadingKeepsServer
<1> QED
  BY <1>3, <1>4

LEMMA CheckFreeKeepsServer ==
    ASSUME ServerInd, NEW q \in Req, CheckFree(q)
    PROVE  ServerInd'
<1>1. Active(q) /\ Head(todo[q]).do = "free"
  BY DEF CheckFree, Head1
<1>2. Framed /\ Queued(q)
  BY DEF ServerInd
<1>3. CASE Refuse(q, 409)
  BY <1>3, RefusalKeepsServer DEF Status
<1>4. CASE ~Refuse(q, 409)
  <2>1. Next1(q) /\ ReadsOnly /\ local' = local
    BY <1>4 DEF CheckFree
  <2>2. /\ local' = [p \in Req |-> local'[p]] /\ DOMAIN local'[q] = {"row", "before", "wrote", "seen"}
    BY <1>2, <2>1 DEF Framed, Queued
  <2>3. Knows(q)'
    BY <1>1, <2>1, KnowledgeLasts DEF ReadsOnly, Keep
  <2>4. BeforeFits(q)'
    BY <2>1, <2>2 DEF ServerInd, BeforeFits, ReadsOnly, Keep
  <2> QED
    BY <1>1, <2>1, <2>2, <2>3, <2>4, ReadingKeepsServer
<1> QED
  BY <1>3, <1>4

LEMMA CountKeepsServer ==
    ASSUME ServerInd, NEW q \in Req, Count(q)
    PROVE  ServerInd'
<1>1. Active(q) /\ Head(todo[q]).do = "count" /\ Next1(q) /\ ReadsOnly
  BY DEF Count, Head1
<1>2. Framed /\ Queued(q) /\ Knows(q)
  BY DEF ServerInd
<1>3. PICK n : local' = [local EXCEPT ![q] = [@ EXCEPT !.row = n]]
  BY DEF Count
<1>4. /\ \A p \in Req \ {q} : local'[p] = local[p]
      /\ local' = [p \in Req |-> local'[p]] /\ DOMAIN local'[q] = {"row", "before", "wrote", "seen"}
      /\ local'[q].wrote = local[q].wrote /\ local'[q].before = local[q].before
  BY <1>2, <1>3 DEF Framed, Queued
<1>5. Knows(q)'
  <2>1. Serving(q) /\ BodyFits(req[q]) /\ req[q].verb = "LIST"
    BY <1>1, <1>2, ServedUntilAnswered, ServedByPlan, PlanTells
  <2>2. role' = role /\ req' = req /\ answer' = answer
    BY <1>1 DEF ReadsOnly, Keep
  <2>3. ~Telling(q)' /\ ~Saves(req[q])' /\ ~req'[q].bad
    BY <2>1, <2>2 DEF Telling, Serving, Saves, BodyFits
  <2> QED
    BY <2>1, <2>2, <2>3 DEF Knows
<1>6. BeforeFits(q)'
  BY <1>1, <1>4 DEF ServerInd, BeforeFits, ReadsOnly, Keep
<1> QED
  BY <1>1, <1>4, <1>5, <1>6, ReadingKeepsServer

LEMMA EmptyList ==
    ASSUME NEW s \in Seq(Stmt), Range(s) = {}
    PROVE  s = <<>>
<1>1. DOMAIN s = {}
  BY DEF Range
<1>2. DOMAIN s = 1..Len(s) /\ Len(s) \in Nat
  OBVIOUS
<1>3. Len(s) = 0
  BY <1>1, <1>2
<1> QED
  BY <1>3

(* The answer of a reader is its last statement. *)
LEMMA ReaderIsDone ==
    ASSUME ServerInd, NEW q \in Req, Active(q), Head(todo[q]).do \in {"render", "page"}, Next1(q)
    PROVE  todo'[q] = <<>> /\ Serving(q) /\ BodyFits(req[q])
           /\ (Head(todo[q]).do = "render" => req[q].verb = "GET")
           /\ (Head(todo[q]).do = "page" => req[q].verb = "LIST")
<1>1. Framed /\ Queued(q)
  BY DEF ServerInd
<1>2. Serving(q) /\ BodyFits(req[q]) /\ Head(todo[q]) \in Planned(req[q]) /\ Left(q) \subseteq Planned(req[q])
  BY <1>1, ServedUntilAnswered, ServedByPlan
<1>3. /\ (Head(todo[q]).do = "render" => req[q].verb = "GET")
      /\ (Head(todo[q]).do = "page" => req[q].verb = "LIST")
  BY <1>2, PlanTells
<1>4. \A s \in Left(q) : s.do \in {"find", "render", "count", "page"}
  BY <1>2, <1>3, PlanTells DEF Saves, BodyFits
<1>5. CASE Head(todo[q]).do = "render"
  <2>1. \A s \in Left(q) : s.do \in {"find", "render"}
    BY <1>2, <1>3, <1>4, <1>5, PlanTells
  <2>2. ~Has(q, "find")
    BY <1>1, <1>5, EarlierIsDone, Ranks, Whats
  <2>3. ~Has(q, "render")' /\ Left(q)' \subseteq Left(q)
    BY <1>1, <1>5, NextLeaves DEF Listing
  <2>4. Left(q)' = {}
    BY <2>1, <2>2, <2>3 DEF Has
  <2>5. todo'[q] \in Seq(Stmt)
    BY <1>1, NextLeaves
  <2> QED
    BY <1>2, <1>3, <2>4, <2>5, EmptyList DEF Left
<1>6. CASE Head(todo[q]).do = "page"
  <2>1. \A s \in Left(q) : s.do \in {"count", "page"}
    BY <1>2, <1>3, <1>4, <1>6, PlanTells
  <2>2. ~Has(q, "count")
    BY <1>1, <1>6, EarlierIsDone, Ranks, Whats
  <2>3. ~Has(q, "page")' /\ Left(q)' \subseteq Left(q)
    BY <1>1, <1>6, NextLeaves DEF Listing
  <2>4. Left(q)' = {}
    BY <2>1, <2>2, <2>3 DEF Has
  <2>5. todo'[q] \in Seq(Stmt)
    BY <1>1, NextLeaves
  <2> QED
    BY <1>2, <1>3, <2>4, <2>5, EmptyList DEF Left
<1> QED
  BY <1>5, <1>6

LEMMA AnsweringKeepsServer ==
    ASSUME ServerInd, NEW q \in Req, Active(q), Head(todo[q]).do \in {"render", "page"},
           NEW what, Answered(q, what)
    PROVE  ServerInd'
<1>1. /\ local' = [local EXCEPT ![q] = [@ EXCEPT !.seen = what]]
      /\ answer' = [answer EXCEPT ![q] = 200] /\ Next1(q)
      /\ UNCHANGED <<rows, told, torn>> /\ Keep
  BY DEF Answered
<1>2. Framed /\ Queued(q)
  BY DEF ServerInd
<1>3. todo'[q] = <<>>
  BY <1>1, ReaderIsDone
<1>4. /\ todo' = [p \in Req |-> todo'[p]] /\ \A p \in Req \ {q} : todo'[p] = todo[p]
  BY <1>1, <1>2, NextLeaves
<1>5. /\ local' = [p \in Req |-> local'[p]] /\ answer' = [p \in Req |-> answer'[p]]
      /\ \A p \in Req \ {q} : local'[p] = local[p] /\ answer'[p] = answer[p]
      /\ DOMAIN local'[q] = {"row", "before", "wrote", "seen"} /\ answer'[q] = 200
      /\ local'[q].before = local[q].before
  <2>1. /\ local' = [p \in Req |-> local'[p]] /\ \A p \in Req \ {q} : local'[p] = local[p]
        /\ DOMAIN local'[q] = {"row", "before", "wrote", "seen"}
        /\ local'[q].before = local[q].before
    BY <1>1, <1>2 DEF Framed, Queued
  <2>2. /\ answer' = [p \in Req |-> answer'[p]] /\ \A p \in Req \ {q} : answer'[p] = answer[p]
        /\ answer'[q] = 200
    BY <1>1, <1>2 DEF Framed
  <2> QED
    BY <2>1, <2>2
<1>6. Framed'
  BY <1>1, <1>2, <1>4, <1>5 DEF Framed, Keep
<1>7. ~Active(q)'
  BY <1>3 DEF Active
<1>8. Queued(q)'
  BY <1>3, <1>5, <1>7 DEF Queued, InOrder, Serving, Telling, Status
<1>11. BeforeFits(q)'
  BY <1>1, <1>5 DEF ServerInd, BeforeFits, Keep
<1>9. Mine(q)'
  BY <1>7, <1>8, <1>11 DEF Mine, Knows, WroteLate, Serving, Telling
<1>10. Tables' /\ LogFits' /\ torn' \in BOOLEAN
  BY <1>1 DEF ServerInd, Tables, LogFits, rows, Keep, RowOf
<1> QED
  BY <1>1, <1>4, <1>5, <1>6, <1>9, <1>10, ServerGoesOn

LEMMA UnsupportedKeepsServer ==
    ASSUME ServerInd, NEW q \in Req, Unsupported(q)
    PROVE  ServerInd'
BY RefusalKeepsServer DEF Unsupported, Status

(* What a write saves is a row of its kind. *)
LEMMA NewRowFits ==
    ASSUME ServerInd, NEW q \in Req, Serving(q), Saves(req[q]), Head(todo[q]).do \in {"save", "reply"}
    PROVE  /\ ~Has(q, "find") /\ ~Has(q, "name") /\ Wanted(q) \in Names(req[q].id)
           /\ req[q].id \in Users => NewUser(q) \in UserRow /\ Wanted(q) \in UserNames
           /\ req[q].id \notin Users => req[q].id \in Groups /\ Wanted(q) \in GroupNames
<1>1. Queued(q) /\ Knows(q) /\ Active(q)
  BY DEF ServerInd, Serving
<1>2. BodyFits(req[q])
  BY <1>1 DEF Queued
<1>3. ~Has(q, "find") /\ ~Has(q, "name")
  BY <1>1, EarlierIsDone, Ranks, Whats
<1>4. Wanted(q) \in Names(req[q].id)
  BY <1>1, <1>3 DEF Knows
<1>5. req[q].id \in Users => NewUser(q) \in UserRow
  <2>1. SUFFICES ASSUME req[q].id \in Users PROVE NewUser(q) \in UserRow
    OBVIOUS
  <2>2. Wanted(q) \in UserNames
    BY <1>4, <2>1 DEF Names
  <2>3. CASE req[q].active = None
    <3>1. req[q].verb = "PATCH"
      BY <1>2, <2>3, NoneAssumption DEF BodyFits, Saves
    <3>2. local[q].row \in UserRow
      BY <1>1, <1>3, <2>1, <3>1 DEF Knows, RowType
    <3> QED
      BY <2>2, <2>3, <3>2 DEF NewUser, UserRow
  <2>4. CASE req[q].active # None
    <3>1. req[q].active \in BOOLEAN
      BY <1>2, <2>4 DEF BodyFits
    <3> QED
      BY <2>2, <2>4, <3>1 DEF NewUser, UserRow
  <2> QED
    BY <2>3, <2>4
<1> QED
  BY <1>2, <1>3, <1>4, <1>5 DEF Names, BodyFits, Res

(* Where a statement writes: what it leaves keeps no refusal, or is of the kinds that may. *)
LEMMA WritingKeepsServer ==
    ASSUME ServerInd, NEW q \in Req, Active(q), Next1(q), Keep,
           Head(todo[q]).do \in {"save", "clear", "leave", "add", "drop", "erase"},
           NEW w \in BOOLEAN, local' = [local EXCEPT ![q] = [@ EXCEPT !.wrote = w]],
           UNCHANGED <<told, torn, answer>>, Tables'
    PROVE  ServerInd'
<1>0. role' = role /\ req' = req /\ used' = used
  BY DEF Keep
<1>1. Framed /\ Queued(q) /\ WroteLate(q)
  BY DEF ServerInd
<1>2. /\ \A p \in Req \ {q} : local'[p] = local[p]
      /\ local' = [p \in Req |-> local'[p]] /\ DOMAIN local'[q] = {"row", "before", "wrote", "seen"}
      /\ local'[q].row = local[q].row /\ local'[q].before = local[q].before
  BY <1>1 DEF Framed, Queued
<1>3. Queued(q)'
  BY <1>0, <1>2, AdvanceIsQueued
<1>4. Knows(q)'
  BY <1>0, <1>2, KnowledgeLasts
<1>5. WroteLate(q)'
  <2>1. Serving(q) /\ BodyFits(req[q]) /\ Head(todo[q]) \in Planned(req[q]) /\ Left(q) \subseteq Planned(req[q])
    BY <1>1, ServedUntilAnswered, ServedByPlan
  <2>2. Half(req[q])' <=> Half(req[q])
    BY <1>0, Stays
  <2>3. CASE Half(req[q])
    BY <2>2, <2>3 DEF WroteLate
  <2>4. CASE ~Half(req[q])
    <3>1. req[q].verb # "DELETE" /\ Head(todo[q]).do \notin {"leave", "erase"} /\ Saves(req[q])
      BY <2>1, <2>4, PlanTells DEF Half
    <3>2. req[q].verb # "PATCH" \/ Head(todo[q]).do = "save"
      BY <2>1, <2>4, <3>1, PlanTells DEF Half, BodyFits, Res
    <3>3. /\ ~Has(q, "find") /\ ~Has(q, "bad") /\ ~Has(q, "name") /\ ~Has(q, "free")
          /\ Head(todo[q]).do # "save" => ~Has(q, "save")
      BY <1>1, <3>1, <3>2, EarlierIsDone, Ranks, Whats
    <3>4. ~Has(q, "erase")
      BY <2>1, <3>1, PlanTells DEF Has
    <3>5. Left(q)' \subseteq Left(q) /\ ~Has(q, "save")'
      BY <1>1, <3>3, NextLeaves DEF Listing
    <3>6. \A s \in Left(q)' : s.do \notin Refusing
      BY <3>3, <3>4, <3>5 DEF Has, Refusing
    <3> QED
      BY <3>6 DEF WroteLate
  <2> QED
    BY <2>3, <2>4
<1>6. /\ todo' = [p \in Req |-> todo'[p]]
      /\ \A p \in Req \ {q} : todo'[p] = todo[p] /\ local'[p] = local[p] /\ answer'[p] = answer[p]
  BY <1>1, <1>2, NextLeaves
<1>7. Framed'
  BY <1>0, <1>1, <1>2, <1>6 DEF Framed, Keep
<1>8. LogFits' /\ torn' \in BOOLEAN
  BY DEF ServerInd, LogFits
<1>9. BeforeFits(q)'
  BY <1>0, <1>2 DEF ServerInd, BeforeFits
<1> QED
  BY <1>3, <1>4, <1>5, <1>6, <1>7, <1>8, <1>9, ServerGoesOn DEF Mine

LEMMA SaveKeepsServer ==
    ASSUME ServerInd, NEW q \in Req, Save(q)
    PROVE  ServerInd'
<1> DEFINE r == req[q].id
<1>1. Active(q) /\ Head(todo[q]).do = "save"
  BY DEF Save, Head1
<1>2. CASE Refuse(q, 500)
  BY <1>2, RefusalKeepsServer DEF Status
<1>3. CASE ~Refuse(q, 500)
  <2>1. /\ IF r \in Users
           THEN users' = [users EXCEPT ![r] = NewUser(q)] /\ UNCHANGED groups
           ELSE groups' = [groups EXCEPT ![r] = Wanted(q)] /\ UNCHANGED users
        /\ Writes(q) /\ Next1(q)
        /\ UNCHANGED <<members, told, torn, answer>> /\ Keep
    BY <1>3 DEF Save
  <2>2. Queued(q) /\ Tables
    BY DEF ServerInd
  <2>3. Serving(q) /\ BodyFits(req[q]) /\ Saves(req[q])
    BY <1>1, <2>2, ServedUntilAnswered, ServedByPlan, PlanTells
  <2>4. /\ r \in Users => NewUser(q) \in UserRow
        /\ r \notin Users => r \in Groups /\ Wanted(q) \in GroupNames
    BY <1>1, <2>3, NewRowFits
  <2>5. r \in used
    BY <1>1, <2>2, <2>3 DEF Queued, Saves
  <2>6. Tables'
    <3>1. members' = members /\ used' = used
      BY <2>1 DEF Keep
    <3>2. CASE r \in Users
      BY <2>1, <2>2, <2>4, <2>5, <3>1, <3>2 DEF Tables, RowOf, Res
    <3>3. CASE r \notin Users
      BY <2>1, <2>2, <2>4, <2>5, <3>1, <3>3 DEF Tables, RowOf, Res
    <3> QED
      BY <3>2, <3>3
  <2> QED
    BY <1>1, <2>1, <2>6, WritingKeepsServer DEF Writes
<1> QED
  BY <1>2, <1>3

LEMMA WriteMembersKeepsServer ==
    ASSUME ServerInd, NEW q \in Req, WriteMembers(q)
    PROVE  ServerInd'
<1>1. /\ Active(q) /\ Head(todo[q]).do \in {"clear", "leave", "add", "drop"}
      /\ members' = Edges(q) /\ Next1(q) /\ Keep
      /\ UNCHANGED <<users, groups, told, torn, answer>>
  BY DEF WriteMembers
<1>2. Queued(q) /\ Framed /\ Tables
  BY DEF ServerInd
<1>4. PICK w \in BOOLEAN : w = (local[q].wrote \/ members' # members)
  OBVIOUS
<1>5. local' = [local EXCEPT ![q] = [@ EXCEPT !.wrote = w]]
  BY <1>4 DEF WriteMembers
<1>6. Serving(q) /\ BodyFits(req[q]) /\ Head(todo[q]) \in Planned(req[q])
  BY <1>1, <1>2, ServedUntilAnswered, ServedByPlan
<1>7. members' \in SUBSET (Groups \X Users)
  <2>1. CASE Head(todo[q]).do \in {"clear", "leave"}
    BY <1>1, <1>2, <2>1 DEF Edges, Tables
  <2>2. CASE Head(todo[q]).do = "drop"
    BY <1>1, <1>2, <2>2 DEF Edges, Tables
  <2>3. CASE Head(todo[q]).do = "add"
    <3>1. req[q].id \in Groups /\ Head(todo[q]).who \in Users
      BY <1>6, <2>3, PlanTells DEF BodyFits
    <3>2. members' = members \cup {<<req[q].id, Head(todo[q]).who>>}
      BY <1>1, <2>3 DEF Edges
    <3> QED
      BY <1>2, <3>1, <3>2 DEF Tables
  <2> QED
    BY <1>1, <2>1, <2>2, <2>3
<1>8. Tables'
  BY <1>1, <1>2, <1>7 DEF Tables, RowOf, Keep
<1> QED
  BY <1>1, <1>5, <1>8, WritingKeepsServer

LEMMA EraseKeepsServer ==
    ASSUME ServerInd, NEW q \in Req, Erase(q)
    PROVE  ServerInd'
<1> DEFINE r == req[q].id
<1>1. Active(q) /\ Head(todo[q]).do = "erase"
  BY DEF Erase, Head1
<1>2. CASE Refuse(q, 404)
  BY <1>2, RefusalKeepsServer DEF Status
<1>3. CASE ~Refuse(q, 404)
  <2>1. /\ IF r \in Users THEN users' = [users EXCEPT ![r] = None] /\ UNCHANGED groups
           ELSE groups' = [groups EXCEPT ![r] = None] /\ UNCHANGED users
        /\ Writes(q) /\ Next1(q)
        /\ UNCHANGED <<members, told, torn, answer>> /\ Keep
    BY <1>3 DEF Erase
  <2>2. Queued(q) /\ Tables
    BY DEF ServerInd
  <2>3. r \in Res
    BY <1>1, <2>2 DEF Queued, BodyFits
  <2>6. Tables'
    <3>1. members' = members /\ used' = used
      BY <2>1 DEF Keep
    <3>2. CASE r \in Users
      BY <2>1, <2>2, <2>3, <3>1, <3>2 DEF Tables, RowOf, Res
    <3>3. CASE r \notin Users
      BY <2>1, <2>2, <2>3, <3>1, <3>3 DEF Tables, RowOf, Res
    <3> QED
      BY <3>2, <3>3
  <2> QED
    BY <1>1, <2>1, <2>6, WritingKeepsServer DEF Writes
<1> QED
  BY <1>2, <1>3

(* What the mock has to tell of a write: its row, then who joined, then who left. *)
LEMMA TellingIsListed ==
    ASSUME NEW verb, NEW J \in SUBSET Users, NEW L \in SUBSET Users
    PROVE  /\ Ordered(verb, <<Do("row")>> \o (Each("joined", J) \o Each("left", L)))
           /\ Range(<<Do("row")>> \o (Each("joined", J) \o Each("left", L)))
                = {Do("row")} \cup (Each1("joined", J) \cup Each1("left", L))
<1> DEFINE a == <<Do("row")>>
           b == Each("joined", J)
           c == Each("left", L)
<1>1. Fits(verb, a, {Do("row")}, {"row"})
  BY FitsOne, Whats
<1>2. Fits(verb, b, Each1("joined", J), {"joined"}) /\ Fits(verb, c, Each1("left", L), {"left"})
  BY FitsEach DEF Listing
<1>3. Lower(verb, {"joined"}, {"left"}) /\ Lower(verb, {"row"}, {"joined"} \cup {"left"})
  BY Ranks DEF Lower
<1> HIDE DEF a, b, c
<1>4. Fits(verb, b \o c, Each1("joined", J) \cup Each1("left", L), {"joined"} \cup {"left"})
  BY <1>2, <1>3, FitsJoin
<1>5. Fits(verb, a \o (b \o c), {Do("row")} \cup (Each1("joined", J) \cup Each1("left", L)),
           {"row"} \cup ({"joined"} \cup {"left"}))
  BY <1>1, <1>3, <1>4, FitsJoin
<1> QED
  BY <1>5 DEF Fits, a, b, c

(* A reply leaves nothing to tell, or the row and the members who came and went. *)
Had(q) == IF req[q].verb = "POST" THEN {} ELSE local[q].before
Got(q) == IF req[q].id \in Groups THEN MembersOf(req[q].id) ELSE {}
Untold(q) == ~Emits \/ (req[q].verb = "DELETE" /\ Had(q) = {})
Deltas(q) ==
    IF req[q].id \in Groups /\ req[q].verb # "DELETE"
    THEN Each1("joined", Got(q) \ Had(q)) \cup Each1("left", Had(q) \ Got(q)) ELSE {}

LEMMA ReplyTells ==
    ASSUME ServerInd, NEW q \in Req, Reply(q)
    PROVE  /\ todo'[q] \in Seq(Stmt) /\ InOrder(req[q].verb, todo'[q])
           /\ Left(q)' = IF Untold(q) THEN {} ELSE {Do("row")} \cup Deltas(q)
           /\ todo' = [p \in Req |-> todo'[p]] /\ \A p \in Req \ {q} : todo'[p] = todo[p]
<1> DEFINE r == req[q].id
           deltas == IF r \in Groups /\ req[q].verb # "DELETE"
                     THEN Each("joined", Got(q) \ Had(q)) \o Each("left", Had(q) \ Got(q)) ELSE <<>>
<1>1. todo' = [todo EXCEPT ![q] = IF Untold(q) THEN <<>> ELSE <<Do("row")>> \o deltas]
  BY DEF Reply, Untold, Had, Got
<1>2. Framed /\ BeforeFits(q)
  BY DEF ServerInd
<1>3. todo'[q] = IF Untold(q) THEN <<>> ELSE <<Do("row")>> \o deltas
  BY <1>1, <1>2 DEF Framed
<1>4. todo' = [p \in Req |-> todo'[p]] /\ \A p \in Req \ {q} : todo'[p] = todo[p]
  BY <1>1, <1>2 DEF Framed
<1>5. CASE Untold(q)
  BY <1>3, <1>4, <1>5, NoneIsListed DEF Ordered, Left
<1>6. CASE ~Untold(q) /\ ~(r \in Groups /\ req[q].verb # "DELETE")
  <2>1. todo'[q] = <<Do("row")>>
    <3>1. todo'[q] = <<Do("row")>> \o <<>>
      BY <1>3, <1>6
    <3>2. PICK x : x = Do("row")
      OBVIOUS
    <3>3. <<x>> \o <<>> = <<x>>
      OBVIOUS
    <3> QED
      BY <3>1, <3>2, <3>3
  <2>2. Deltas(q) = {}
    BY <1>6 DEF Deltas
  <2> QED
    BY <1>4, <1>6, <2>1, <2>2, OneIsListed, Whats DEF Ordered, Left
<1>7. CASE ~Untold(q) /\ r \in Groups /\ req[q].verb # "DELETE"
  <2>1. Had(q) \in SUBSET Users
    BY <1>2, <1>7 DEF BeforeFits, Had
  <2>2. Got(q) \in SUBSET Users
    BY DEF Got, MembersOf
  <2>3. todo'[q] = <<Do("row")>> \o (Each("joined", Got(q) \ Had(q)) \o Each("left", Had(q) \ Got(q)))
    BY <1>3, <1>7
  <2>4. Deltas(q) = Each1("joined", Got(q) \ Had(q)) \cup Each1("left", Had(q) \ Got(q))
    BY <1>7 DEF Deltas
  <2>5. Got(q) \ Had(q) \in SUBSET Users /\ Had(q) \ Got(q) \in SUBSET Users
    BY <2>1, <2>2
  <2> HIDE DEF deltas
  <2> DEFINE J == Got(q) \ Had(q)
             L == Had(q) \ Got(q)
  <2>7. todo'[q] = <<Do("row")>> \o (Each("joined", J) \o Each("left", L)) /\ J \in SUBSET Users /\ L \in SUBSET Users
    BY <2>3, <2>5
  <2> HIDE DEF J, L
  <2>8. /\ Ordered(req[q].verb, todo'[q])
        /\ Range(todo'[q]) = {Do("row")} \cup (Each1("joined", J) \cup Each1("left", L))
    BY <2>7, TellingIsListed
  <2>6. /\ Ordered(req[q].verb, todo'[q])
        /\ Range(todo'[q]) = {Do("row")} \cup (Each1("joined", Got(q) \ Had(q)) \cup Each1("left", Had(q) \ Got(q)))
    BY <2>8 DEF J, L
  <2> QED
    BY <1>4, <1>7, <2>4, <2>6 DEF Ordered, Left
<1> QED
  BY <1>5, <1>6, <1>7

LEMMA ReplyKeepsServer ==
    ASSUME ServerInd, NEW q \in Req, Reply(q)
    PROVE  ServerInd'
<1> DEFINE r == req[q].id
<1>1. Active(q) /\ Head(todo[q]).do = "reply" /\ Keep /\ UNCHANGED <<rows, told, torn>>
      /\ answer' = [answer EXCEPT ![q] = 200] /\ role' = role /\ req' = req /\ used' = used
  BY DEF Reply, Head1, Keep
<1>2. Framed /\ Queued(q) /\ Tables /\ BeforeFits(q)
  BY DEF ServerInd
<1>3. /\ Serving(q) /\ BodyFits(req[q]) /\ Head(todo[q]) \in Planned(req[q])
      /\ \A s \in Left(q) : s \in Planned(req[q])
  BY <1>1, <1>2, ServedUntilAnswered, ServedByPlan
<1>4. PICK v : /\ local' = [local EXCEPT ![q] = [@ EXCEPT !.row = v]]
               /\ v = IF req[q].verb = "DELETE" THEN None ELSE IF r \in Users THEN NewUser(q) ELSE Wanted(q)
  BY DEF Reply
<1>5. local' = [local EXCEPT ![q] = [@ EXCEPT !.row = v]]
  BY <1>4
<1>6. /\ \A p \in Req \ {q} : local'[p] = local[p]
      /\ local' = [p \in Req |-> local'[p]] /\ DOMAIN local'[q] = {"row", "before", "wrote", "seen"}
      /\ local'[q].row = v /\ local'[q].before = local[q].before
  BY <1>2, <1>5 DEF Framed, Queued
<1>7. /\ answer'[q] = 200 /\ answer' = [p \in Req |-> answer'[p]] /\ \A p \in Req \ {q} : answer'[p] = answer[p]
  BY <1>1, <1>2 DEF Framed
<1>8. /\ todo'[q] \in Seq(Stmt) /\ InOrder(req[q].verb, todo'[q])
      /\ Left(q)' = IF Untold(q) THEN {} ELSE {Do("row")} \cup Deltas(q)
      /\ todo' = [p \in Req |-> todo'[p]] /\ \A p \in Req \ {q} : todo'[p] = todo[p]
  BY ReplyTells
<1>9. Emits' <=> Emits
  BY <1>1 DEF Emits
<1>10. \A s \in Left(q)' : s.do \in {"row", "joined", "left"}
  BY <1>8 DEF Do, Deltas, Each1, To
<1>11. Active(q)' => Emits
  <2>1. CASE Untold(q)
    <3>1. Left(q)' = {}
      BY <1>8, <2>1
    <3>2. todo'[q] = <<>>
      BY <1>8, <3>1, EmptyList DEF Left
    <3> QED
      BY <3>2 DEF Active
  <2>2. CASE ~Untold(q)
    BY <2>2 DEF Untold
  <2> QED
    BY <2>1, <2>2
<1>12. ~Serving(q)'
  BY <1>7, NoneAssumption DEF Serving, Status
<1>13. req[q].verb \notin {"GET", "LIST"}
  BY <1>1, <1>3, PlanTells
<1>14. BodyFits(req[q])'
  BY <1>1, <1>3, Stays
<1>15. Queued(q)'
  BY <1>1, <1>2, <1>3, <1>6, <1>7, <1>8, <1>9, <1>10, <1>11, <1>12, <1>13, <1>14 DEF Queued, Telling, Status, Serving
<1>16. v \in RowType(r) \cup {None}
  <2>1. CASE req[q].verb = "DELETE"
    BY <1>4, <2>1
  <2>2. CASE req[q].verb # "DELETE"
    <3>1. CASE Saves(req[q])
      BY <1>1, <1>3, <1>4, <2>2, <3>1, NewRowFits DEF RowType
    <3>2. CASE ~Saves(req[q])
      <4>1. req[q].verb = "PUT" /\ mismatched(req[q])
        BY <1>3, <1>13, <2>2, <3>2 DEF Saves, BodyFits
      <4>2. Has(q, "bad")
        BY <1>3, <4>1 DEF ServerInd, Knows
      <4>3. ~Has(q, "bad")
        BY <1>1, <1>2, <1>3, EarlierIsDone, Ranks, Whats
      <4> QED
        BY <4>2, <4>3
    <3> QED
      BY <3>1, <3>2
  <2> QED
    BY <2>1, <2>2
<1>17. Knows(q)'
  BY <1>1, <1>6, <1>12, <1>16 DEF Knows, RowType
<1>18. BeforeFits(q)'
  BY <1>1, <1>2, <1>6 DEF BeforeFits
<1>19. WroteLate(q)'
  BY <1>12 DEF WroteLate
<1>20. Framed'
  BY <1>1, <1>2, <1>6, <1>7, <1>8 DEF Framed, Keep
<1>21. Tables' /\ LogFits' /\ torn' \in BOOLEAN
  BY <1>1 DEF ServerInd, Tables, LogFits, rows, Keep, RowOf
<1>22. \A p \in Req \ {q} : todo'[p] = todo[p] /\ local'[p] = local[p] /\ answer'[p] = answer[p]
  BY <1>6, <1>7, <1>8
<1> QED
  BY <1>1, <1>15, <1>17, <1>18, <1>19, <1>20, <1>21, <1>22, ServerGoesOn DEF Mine

(* Where an event is told, only the log changes. *)
LEMMA TellingKeepsServer ==
    ASSUME ServerInd, NEW q \in Req, Active(q), Next1(q), Keep, UNCHANGED <<rows, local, torn, answer>>,
           Head(todo[q]).do \in {"row", "joined", "left"}, LogFits'
    PROVE  ServerInd'
<1>0. role' = role /\ req' = req /\ used' = used
  BY DEF Keep
<1>1. Framed /\ Queued(q)
  BY DEF ServerInd
<1>2. Queued(q)'
  BY <1>0, <1>1, AdvanceIsQueued DEF Queued
<1>3. Knows(q)'
  BY <1>0, KnowledgeLasts
<1>4. WroteLate(q)'
  BY <1>0, WroteLateLasts
<1>5. BeforeFits(q)'
  BY <1>0 DEF ServerInd, BeforeFits
<1>6. /\ todo' = [p \in Req |-> todo'[p]]
      /\ \A p \in Req \ {q} : todo'[p] = todo[p] /\ local'[p] = local[p] /\ answer'[p] = answer[p]
  BY <1>1, NextLeaves
<1>7. Framed'
  BY <1>0, <1>1, <1>6 DEF Framed, Keep
<1>8. Tables' /\ torn' \in BOOLEAN
  BY <1>0 DEF ServerInd, Tables, rows, RowOf
<1> QED
  BY <1>2, <1>3, <1>4, <1>5, <1>6, <1>7, <1>8, ServerGoesOn DEF Mine

LEMMA TellRowKeepsServer ==
    ASSUME ServerInd, NEW q \in Req, TellRow(q)
    PROVE  ServerInd'
<1> DEFINE r == req[q].id
<1>1. /\ Active(q) /\ Head(todo[q]).do = "row" /\ Next1(q) /\ Keep
      /\ UNCHANGED <<rows, local, torn, answer>>
  BY DEF TellRow, Head1
<1>2. Queued(q) /\ Knows(q) /\ LogFits
  BY DEF ServerInd
<1>3. Telling(q)
  <2>1. ~Serving(q)
    <3>1. SUFFICES ASSUME Serving(q) PROVE FALSE
      OBVIOUS
    <3>2. BodyFits(req[q]) /\ Head(todo[q]) \in Planned(req[q])
      BY <1>2, <3>1, ServedByPlan
    <3> QED
      BY <1>1, <3>2, PlanTells
  <2> QED
    BY <1>1, <2>1 DEF Serving, Telling
<1>4. local[q].row \in RowType(r) \cup {None}
  BY <1>2, <1>3 DEF Knows
<1>5. PICK m : told' = IF r \in Users
               THEN [told EXCEPT !.users = [told.users EXCEPT ![r] = local[q].row], !.members = m]
               ELSE [told EXCEPT !.groups = [told.groups EXCEPT ![r] = local[q].row], !.members = m]
  BY DEF TellRow
<1>6. LogFits'
  <2>1. CASE r \in Users
    BY <1>2, <1>4, <1>5, <2>1 DEF LogFits, RowType
  <2>2. CASE r \notin Users
    BY <1>2, <1>5, <2>2 DEF LogFits
  <2> QED
    BY <2>1, <2>2
<1> QED
  BY <1>1, <1>6, TellingKeepsServer

LEMMA TellMemberKeepsServer ==
    ASSUME ServerInd, NEW q \in Req, TellMember(q)
    PROVE  ServerInd'
<1>1. /\ Active(q) /\ Head(todo[q]).do \in {"joined", "left"} /\ Next1(q) /\ Keep
      /\ UNCHANGED <<rows, local, torn, answer>>
  BY DEF TellMember
<1>2. LogFits
  BY DEF ServerInd
<1>3. told' = told \/ \E m : told' = [told EXCEPT !.members = m]
  BY DEF TellMember
<1>4. LogFits'
  BY <1>2, <1>3 DEF LogFits
<1> QED
  BY <1>1, <1>4, TellingKeepsServer

----------------------------------------------------------------------------
(* A request arrives *)

LEMMA BodiesFit ==
    ASSUME NEW r \in Res, NEW rq \in Bodies(r)
    PROVE  BodyFits(rq) /\ rq.id = r
<1> DEFINE b(v, h, n, a, o, w, x) == [verb |-> v, id |-> r, header |-> h, name |-> n,
                                      active |-> a, op |-> o, who |-> w, bad |-> x]
           lists == IF r \in Groups THEN SUBSET Users ELSE {{}}
           flags == IF r \in Users THEN {FALSE, None} ELSE {None}
           ops == IF r \in Groups THEN {"add", "remove", "replace"} ELSE {}
           other == CHOOSE h \in Res : h # r
           Named == {b(v, h, n, TRUE, None, w, FALSE) :
                       v \in {"POST", "PUT"}, h \in {None, r}, n \in Names(r), w \in lists}
           Nameless == {b(v, None, None, TRUE, None, {}, FALSE) : v \in {"POST", "PUT"}}
           Mixed == {b("PUT", other, n, TRUE, None, {}, FALSE) : n \in Names(r)}
           Patch == {b("PATCH", None, n, a, None, {}, FALSE) : n \in Names(r) \cup {None}, a \in flags}
           Wrong == {b("PATCH", None, n, None, None, {}, TRUE) : n \in Names(r)}
           Ops == {b("PATCH", None, None, None, o, w, x) : o \in ops, w \in lists, x \in BOOLEAN}
           Bare == {b(v, None, None, None, None, {}, FALSE) : v \in {"DELETE", "GET"}}
           Lists == {b("LIST", None, n, None, None, {}, FALSE) : n \in Names(r) \cup {None}}
<1>1. Bodies(r) = Named \cup Nameless \cup Mixed \cup Patch \cup Wrong \cup Ops \cup Bare \cup Lists
  BY DEF Bodies
<1>4. ASSUME NEW v, NEW h, NEW n, NEW a, NEW o, NEW w, NEW x, rq = b(v, h, n, a, o, w, x)
      PROVE  /\ rq.verb = v /\ rq.id = r /\ rq.header = h /\ rq.name = n
             /\ rq.active = a /\ rq.op = o /\ rq.who = w /\ rq.bad = x
  BY <1>4
<1> HIDE DEF lists, flags, ops, other
<1>2. /\ rq \in Named => \E v \in {"POST", "PUT"}, h \in {None, r}, n \in Names(r), w \in lists :
                           rq = b(v, h, n, TRUE, None, w, FALSE)
      /\ rq \in Nameless => \E v \in {"POST", "PUT"} : rq = b(v, None, None, TRUE, None, {}, FALSE)
      /\ rq \in Mixed => \E n \in Names(r) : rq = b("PUT", other, n, TRUE, None, {}, FALSE)
      /\ rq \in Patch => \E n \in Names(r) \cup {None}, a \in flags : rq = b("PATCH", None, n, a, None, {}, FALSE)
      /\ rq \in Wrong => \E n \in Names(r) : rq = b("PATCH", None, n, None, None, {}, TRUE)
      /\ rq \in Ops => \E o \in ops, w \in lists, x \in BOOLEAN : rq = b("PATCH", None, None, None, o, w, x)
      /\ rq \in Bare => \E v \in {"DELETE", "GET"} : rq = b(v, None, None, None, None, {}, FALSE)
      /\ rq \in Lists => \E n \in Names(r) \cup {None} : rq = b("LIST", None, n, None, None, {}, FALSE)
  <2>1. rq \in Named => \E v \in {"POST", "PUT"}, h \in {None, r}, n \in Names(r), w \in lists :
         rq = b(v, h, n, TRUE, None, w, FALSE)
    OBVIOUS
  <2>2. rq \in Nameless => \E v \in {"POST", "PUT"} : rq = b(v, None, None, TRUE, None, {}, FALSE)
    OBVIOUS
  <2>3. rq \in Mixed => \E n \in Names(r) : rq = b("PUT", other, n, TRUE, None, {}, FALSE)
    OBVIOUS
  <2>4. rq \in Patch => \E n \in Names(r) \cup {None}, a \in flags : rq = b("PATCH", None, n, a, None, {}, FALSE)
    OBVIOUS
  <2>5. rq \in Wrong => \E n \in Names(r) : rq = b("PATCH", None, n, None, None, {}, TRUE)
    OBVIOUS
  <2>6. rq \in Ops => \E o \in ops, w \in lists, x \in BOOLEAN : rq = b("PATCH", None, None, None, o, w, x)
    OBVIOUS
  <2>7. rq \in Bare => \E v \in {"DELETE", "GET"} : rq = b(v, None, None, None, None, {}, FALSE)
    OBVIOUS
  <2>8. rq \in Lists => \E n \in Names(r) \cup {None} : rq = b("LIST", None, n, None, None, {}, FALSE)
    OBVIOUS
  <2> HIDE DEF b, Named, Nameless, Mixed, Patch, Wrong, Ops, Bare, Lists
  <2> QED
    BY <2>1, <2>2, <2>3, <2>4, <2>5, <2>6, <2>7, <2>8
<1>3. /\ \A w \in lists : w \in SUBSET Users /\ (r \in Users => w = {})
      /\ \A a \in flags : a \in BOOLEAN \cup {None}
      /\ \A o \in ops : o \in {"add", "remove", "replace"} /\ r \notin Users
      /\ {} \in lists
  BY KindAssumption DEF lists, flags, ops
<1> HIDE DEF b, Named, Nameless, Mixed, Patch, Wrong, Ops, Bare, Lists
<1>5. CASE rq \in Named \cup Nameless
  <2>1. PICK v \in {"POST", "PUT"}, h \in {None, r}, n \in Names(r) \cup {None}, w \in lists :
          rq = b(v, h, n, TRUE, None, w, FALSE)
    BY <1>2, <1>3, <1>5
  <2>2. /\ rq.verb = v /\ rq.id = r /\ rq.header = h /\ rq.name = n
        /\ rq.active = TRUE /\ rq.op = None /\ rq.who = w /\ rq.bad = FALSE
    BY <2>1, <1>4
  <2> QED
    BY <2>2, <1>3 DEF BodyFits
<1>6. CASE rq \in Mixed
  <2>1. PICK n \in Names(r) : rq = b("PUT", other, n, TRUE, None, {}, FALSE)
    BY <1>2, <1>6
  <2>2. /\ rq.verb = "PUT" /\ rq.id = r /\ rq.header = other /\ rq.name = n
        /\ rq.active = TRUE /\ rq.op = None /\ rq.who = {} /\ rq.bad = FALSE
    BY <2>1, <1>4
  <2> QED
    BY <2>2, <1>3 DEF BodyFits
<1>7. CASE rq \in Patch \cup Wrong
  <2>1. PICK n \in Names(r) \cup {None}, a \in BOOLEAN \cup {None}, x \in BOOLEAN :
          rq = b("PATCH", None, n, a, None, {}, x)
    BY <1>2, <1>3, <1>7
  <2>2. /\ rq.verb = "PATCH" /\ rq.id = r /\ rq.header = None /\ rq.name = n
        /\ rq.active = a /\ rq.op = None /\ rq.who = {} /\ rq.bad = x
    BY <2>1, <1>4
  <2> QED
    BY <2>2, <1>3 DEF BodyFits
<1>8. CASE rq \in Ops
  <2>1. PICK o \in ops, w \in lists, x \in BOOLEAN : rq = b("PATCH", None, None, None, o, w, x)
    BY <1>2, <1>8
  <2>2. /\ rq.verb = "PATCH" /\ rq.id = r /\ rq.header = None /\ rq.name = None
        /\ rq.active = None /\ rq.op = o /\ rq.who = w /\ rq.bad = x
    BY <2>1, <1>4
  <2> QED
    BY <2>2, <1>3 DEF BodyFits
<1>9. CASE rq \in Bare \cup Lists
  <2>1. PICK v \in {"DELETE", "GET", "LIST"}, n \in Names(r) \cup {None} :
          rq = b(v, None, n, None, None, {}, FALSE)
    BY <1>2, <1>9
  <2>2. /\ rq.verb = v /\ rq.id = r /\ rq.header = None /\ rq.name = n
        /\ rq.active = None /\ rq.op = None /\ rq.who = {} /\ rq.bad = FALSE
    BY <2>1, <1>4
  <2> QED
    BY <2>2, <1>3 DEF BodyFits
<1> QED
  BY <1>1, <1>5, <1>6, <1>7, <1>8, <1>9

(* What a request that has arrived has still to run is what was planned. *)
LEMMA PlannedIsAsked ==
    ASSUME NEW rq, BodyFits(rq)
    PROVE  /\ \A x \in Planned(rq) : x.do \notin {"row", "joined", "left"}
           /\ rq.verb \notin {"GET", "LIST"} => \E x \in Planned(rq) : x.do = "reply"
           /\ rq.bad \/ (rq.verb = "PUT" /\ mismatched(rq)) => \E x \in Planned(rq) : x.do = "bad"
           /\ rq.verb = "PATCH" => \E x \in Planned(rq) : x.do = "find"
           /\ Saves(rq) => \E x \in Planned(rq) : x.do = "name"
<1>1. \A x \in Planned(rq) : x.do \notin {"row", "joined", "left"}
  BY PlanTells
<1>2. rq.verb \notin {"GET", "LIST"} => Do("reply") \in Planned(rq)
  BY DEF Planned, Only
<1>3. rq.verb = "PUT" /\ mismatched(rq) => Do("bad") \in Planned(rq)
  BY DEF Planned
<1>4. rq.bad => Do("bad") \in Planned(rq)
  <2>1. rq.bad => rq.verb = "PATCH"
    BY DEF BodyFits
  <2> QED
    BY <2>1 DEF Planned, Only
<1>5. rq.verb = "PATCH" => Do("find") \in Planned(rq)
  BY DEF Planned
<1>6. Saves(rq) => Do("name") \in Planned(rq)
  <2>1. CASE rq.verb = "POST"
    BY <2>1 DEF Planned
  <2>2. CASE rq.verb = "PATCH"
    BY <2>2 DEF Planned
  <2>3. CASE rq.verb = "PUT" /\ ~mismatched(rq)
    BY <2>3 DEF Planned
  <2> QED
    BY <2>1, <2>2, <2>3 DEF Saves
<1>7. \A what : Do(what).do = what
  BY DEF Do
<1> QED
  BY <1>1, <1>2, <1>3, <1>4, <1>5, <1>6, <1>7

LEMMA ReceiveKeepsServer ==
    ASSUME ServerInd, NEW q \in Req, NEW r \in Res, NEW rq \in Bodies(r), Receive(q, rq)
    PROVE  ServerInd'
<1>1. /\ req' = [req EXCEPT ![q] = rq] /\ todo' = [todo EXCEPT ![q] = Statements(rq)]
      /\ local' = [local EXCEPT ![q] = NoLocal] /\ answer' = [answer EXCEPT ![q] = None]
      /\ used' = (IF rq.verb = "LIST" THEN used ELSE used \cup {rq.id})
      /\ was' = [was EXCEPT ![q] = <<users, groups, members>>]
      /\ UNCHANGED <<role, rows, told, torn>>
  BY DEF Receive
<1>2. PICK beside : /\ crossed' = [p \in Req |-> IF p = q THEN beside # {} ELSE crossed[p] \/ p \in beside]
                    /\ blurred' = (blurred \/ beside # {})
  BY DEF Receive
<1>3. Framed /\ Tables /\ LogFits /\ torn \in BOOLEAN
  BY DEF ServerInd
<1>4. BodyFits(rq)
  BY BodiesFit
<1>5. Ordered(rq.verb, Statements(rq)) /\ Range(Statements(rq)) = Planned(rq)
  BY <1>4, StatementsArePlanned
<1>6. /\ req'[q] = rq /\ todo'[q] = Statements(rq) /\ local'[q] = NoLocal /\ answer'[q] = None
      /\ \A p \in Req \ {q} : req'[p] = req[p] /\ todo'[p] = todo[p] /\ local'[p] = local[p] /\ answer'[p] = answer[p]
  <2>1. /\ req'[q] = rq /\ todo'[q] = Statements(rq)
        /\ \A p \in Req \ {q} : req'[p] = req[p] /\ todo'[p] = todo[p]
    BY <1>1, <1>3 DEF Framed
  <2>2. /\ local'[q] = NoLocal /\ answer'[q] = None
        /\ \A p \in Req \ {q} : local'[p] = local[p] /\ answer'[p] = answer[p]
    BY <1>1, <1>3 DEF Framed
  <2> QED
    BY <2>1, <2>2
<1>7. Framed'
  <2>1. todo' = [p \in Req |-> todo'[p]] /\ req' = [p \in Req |-> req'[p]]
    BY <1>1, <1>3 DEF Framed
  <2>2. local' = [p \in Req |-> local'[p]] /\ answer' = [p \in Req |-> answer'[p]]
    BY <1>1, <1>3 DEF Framed
  <2>3. was' = [p \in Req |-> was'[p]]
    BY <1>1, <1>3 DEF Framed
  <2>4. crossed' = [p \in Req |-> crossed'[p]]
    BY <1>2
  <2> QED
    BY <2>1, <2>2, <2>3, <2>4 DEF Framed
<1>8. blurred' \in BOOLEAN /\ torn' \in BOOLEAN /\ \A p \in Req : crossed'[p] \in BOOLEAN
  BY <1>1, <1>2, <1>3
<1>9. used \subseteq used' /\ (rq.verb # "LIST" => rq.id \in used')
  BY <1>1
<1>10. Tables' /\ LogFits'
  BY <1>1, <1>3, <1>9 DEF Tables, LogFits, rows, RowOf
<1>11. ASSUME NEW p \in Req \ {q} PROVE Mine(p)'
  BY <1>1, <1>6, <1>9, OthersAreLeft DEF ServerInd, Mine
<1>12. Mine(q)'
  <2>1. ~Telling(q)' /\ DOMAIN NoLocal = {"row", "before", "wrote", "seen"} /\ ~NoLocal.wrote /\ NoLocal.before = {}
    BY <1>6 DEF Telling, NoLocal
  <2>2. /\ Planned(req[q])' = Planned(rq) /\ (BodyFits(req[q])' <=> BodyFits(rq)) /\ (Saves(req[q])' <=> Saves(rq))
        /\ (mismatched(req[q])' <=> mismatched(rq))
    <3>1. role' = role
      BY <1>1
    <3>2. Planned(req[q])' = Planned(rq)
      BY <1>6, <3>1 DEF Planned, Emits, adopts, mismatched, Setting, Patching
    <3>3. BodyFits(req[q])' <=> BodyFits(rq)
      BY <1>6 DEF BodyFits, Names
    <3>4. (Saves(req[q])' <=> Saves(rq)) /\ (mismatched(req[q])' <=> mismatched(rq))
      BY <1>6, <3>1 DEF Saves, mismatched
    <3> QED
      BY <3>2, <3>3, <3>4
  <2>3. Left(q)' = Planned(rq)
    BY <1>5, <1>6 DEF Left
  <2>4. \A what : Has(q, what)' <=> \E x \in Planned(rq) : x.do = what
    BY <2>3 DEF Has
  <2>5. Queued(q)'
    BY <1>4, <1>5, <1>6, <1>9, <2>1, <2>2, <2>3, <2>4, PlannedIsAsked DEF Queued, Ordered
  <2>6. Knows(q)'
    BY <1>4, <1>6, <2>1, <2>2, <2>4, PlannedIsAsked DEF Knows
  <2>7. BeforeFits(q)' /\ WroteLate(q)'
    BY <1>6, <2>1 DEF BeforeFits, WroteLate
  <2> QED
    BY <2>5, <2>6, <2>7 DEF Mine
<1> QED
  BY <1>1, <1>7, <1>8, <1>10, <1>11, <1>12 DEF ServerInd, Mine

----------------------------------------------------------------------------
(* The invariant of every interleaving *)

LEMMA ServerStarts ==
    ASSUME Init
    PROVE  ServerInd
<1>1. /\ role \in Roles /\ todo = [q \in Req |-> <<>>] /\ req = [q \in Req |-> NoReq]
      /\ local = [q \in Req |-> NoLocal] /\ answer = [q \in Req |-> None]
      /\ was = [q \in Req |-> None] /\ crossed = [q \in Req |-> FALSE]
      /\ torn = FALSE /\ blurred = FALSE
      /\ told = [users |-> users, groups |-> groups, members |-> members]
  BY DEF Init
<1>2. Framed
  BY <1>1 DEF Framed
<1>3. Tables
  <2>0. PICK there \in SUBSET Users : \E n \in [there -> UserNames], g \in SUBSET Groups :
        /\ \A u, v \in there : u # v => n[u] # n[v]
        /\ users = [u \in Users |-> IF u \in there THEN [name |-> n[u], active |-> TRUE] ELSE None]
        /\ groups = [x \in Groups |-> IF x \in g THEN CHOOSE m \in GroupNames : TRUE ELSE None]
        /\ Cardinality(g) <= 1
        /\ members = g \X there
        /\ used = there \cup g
    BY DEF Init
  <2>1. PICK n \in [there -> UserNames], g \in SUBSET Groups :
        /\ users = [u \in Users |-> IF u \in there THEN [name |-> n[u], active |-> TRUE] ELSE None]
        /\ groups = [x \in Groups |-> IF x \in g THEN CHOOSE m \in GroupNames : TRUE ELSE None]
        /\ members = g \X there
        /\ used = there \cup g
    BY <2>0
  <2>2. users \in [Users -> UserRow \cup {None}]
    BY <2>1 DEF UserRow
  <2>3. groups \in [Groups -> GroupNames \cup {None}]
    BY <2>1, NamesAssumption
  <2>4. members \in SUBSET (Groups \X Users)
    BY <2>1
  <2>5. \A r \in Res : RowOf(r) # None => r \in used
    BY <2>1 DEF RowOf, Res
  <2> QED
    BY <2>2, <2>3, <2>4, <2>5 DEF Tables
<1>4. LogFits
  BY <1>1, <1>3 DEF LogFits, Tables
<1>5. ASSUME NEW q \in Req
      PROVE  Queued(q) /\ Knows(q) /\ BeforeFits(q) /\ WroteLate(q) /\ crossed[q] \in BOOLEAN
  <2>1. todo[q] = <<>> /\ local[q] = NoLocal /\ answer[q] = None /\ crossed[q] = FALSE
    BY <1>1
  <2>2. ~Active(q)
    BY <2>1 DEF Active
  <2>3. Queued(q)
    BY <2>1, <2>2 DEF Queued, InOrder, Serving, Telling, NoLocal
  <2>4. Knows(q) /\ WroteLate(q)
    BY <2>2 DEF Knows, WroteLate, Serving, Telling
  <2>5. BeforeFits(q)
    BY <2>1 DEF BeforeFits, NoLocal
  <2> QED
    BY <2>1, <2>3, <2>4, <2>5
<1> QED
  BY <1>1, <1>2, <1>3, <1>4, <1>5 DEF ServerInd

(* One statement of a request, and a step of it. *)
Statement(q) ==
    \/ Before(q) \/ Find(q) \/ Render(q) \/ Count(q) \/ Page(q) \/ CheckName(q) \/ CheckFree(q) \/ Unsupported(q)
    \/ Save(q) \/ WriteMembers(q) \/ Erase(q) \/ Reply(q) \/ TellRow(q) \/ TellMember(q)
Step(q) == (\E r \in Res : \E rq \in Bodies(r) : Receive(q, rq)) \/ Statement(q)

LEMMA NextIsAStep == Next <=> \E q \in Req : Step(q)
BY DEF Next, Step, Statement

LEMMA ServerStays ==
    ASSUME ServerInd, [Next]_vars
    PROVE  ServerInd'
<1>1. ASSUME NEW q \in Req, Step(q) PROVE ServerInd'
  <2>1. ASSUME NEW r \in Res, NEW rq \in Bodies(r), Receive(q, rq) PROVE ServerInd'
    BY <2>1, ReceiveKeepsServer
  <2>2. CASE Before(q) \/ Find(q) \/ Count(q) \/ CheckName(q) \/ CheckFree(q) \/ Unsupported(q)
    BY <2>2, BeforeKeepsServer, FindKeepsServer, CountKeepsServer, CheckNameKeepsServer,
       CheckFreeKeepsServer, UnsupportedKeepsServer
  <2>3. CASE Render(q)
    BY <2>3, AnsweringKeepsServer DEF Render, Head1
  <2>4. CASE Page(q)
    BY <2>4, AnsweringKeepsServer DEF Page, Head1
  <2>5. CASE Save(q) \/ WriteMembers(q) \/ Erase(q)
    BY <2>5, SaveKeepsServer, WriteMembersKeepsServer, EraseKeepsServer
  <2>6. CASE Reply(q) \/ TellRow(q) \/ TellMember(q)
    BY <2>6, ReplyKeepsServer, TellRowKeepsServer, TellMemberKeepsServer
  <2> QED
    BY <1>1, <2>1, <2>2, <2>3, <2>4, <2>5, <2>6 DEF Step, Statement
<1>2. CASE UNCHANGED vars
  <2>1. /\ role' = role /\ users' = users /\ groups' = groups /\ members' = members /\ todo' = todo
        /\ req' = req /\ local' = local /\ answer' = answer /\ told' = told /\ used' = used
        /\ was' = was /\ crossed' = crossed /\ torn' = torn /\ blurred' = blurred
    BY <1>2 DEF vars, rows, client, history
  <2>2. Framed' /\ Tables' /\ LogFits'
    BY <2>1 DEF ServerInd, Framed, Tables, LogFits, RowOf
  <2>3. \A q \in Req : Mine(q)'
    BY <2>1, OthersAreLeft DEF ServerInd, Mine
  <2> QED
    BY <2>1, <2>2, <2>3 DEF ServerInd, Mine
<1> QED
  BY <1>1, <1>2, NextIsAStep

(* Every interleaving keeps the tables' types, each request's list in order, what it
   knows of its row, and what may refuse it ahead of its writes. *)
THEOREM ServerInvariant == Spec => []ServerInd
<1>1. Init => ServerInd
  BY ServerStarts
<1>2. ServerInd /\ [Next]_vars => ServerInd'
  BY ServerStays
<1> QED
  BY <1>1, <1>2, PTL DEF Spec

(* Type correctness of the bundled servers, for every number of requests at a time. *)
THEOREM ScimServerIsTyped == Spec => []TypeOK
<1>1. ServerInd => TypeOK
  <2> SUFFICES ASSUME ServerInd PROVE TypeOK
    OBVIOUS
  <2>1. \A q \in Req : answer[q] \in Status \cup {None}
    BY DEF ServerInd, Queued
  <2>2. /\ users \in [Users -> UserRow \cup {None}] /\ groups \in [Groups -> GroupNames \cup {None}]
        /\ members \subseteq Groups \X Users /\ \A r \in Res : RowOf(r) # None => r \in used
    BY DEF ServerInd, Tables
  <2>3. told.users \in [Users -> UserRow \cup {None}]
    BY DEF ServerInd, LogFits
  <2> QED
    BY <2>1, <2>2, <2>3 DEF TypeOK
<1> QED
  BY <1>1, ServerInvariant, PTL

----------------------------------------------------------------------------
(* User names *)

LEMMA NamesStart ==
    ASSUME Init
    PROVE  NamesAreUnique
<1>1. PICK there \in SUBSET Users : \E n \in [there -> UserNames], g \in SUBSET Groups :
      /\ \A u, v \in there : u # v => n[u] # n[v]
      /\ users = [u \in Users |-> IF u \in there THEN [name |-> n[u], active |-> TRUE] ELSE None]
      /\ groups = [x \in Groups |-> IF x \in g THEN CHOOSE m \in GroupNames : TRUE ELSE None]
      /\ Cardinality(g) <= 1
      /\ members = g \X there
      /\ used = there \cup g
  BY DEF Init
<1>2. PICK n \in [there -> UserNames] :
      /\ \A u, v \in there : u # v => n[u] # n[v]
      /\ users = [u \in Users |-> IF u \in there THEN [name |-> n[u], active |-> TRUE] ELSE None]
  BY <1>1
<1> QED
  BY <1>2 DEF NamesAreUnique

(* The users' table changes where a row is saved or erased. *)
LEMMA UsersChange ==
    ASSUME NEW q \in Req, Step(q), users' # users
    PROVE  \/ Save(q) /\ ~Refuse(q, 500) /\ req[q].id \in Users
           \/ Erase(q) /\ ~Refuse(q, 404) /\ req[q].id \in Users
<1>1. CASE \E r \in Res : \E rq \in Bodies(r) : Receive(q, rq)
  BY <1>1 DEF Receive, rows
<1>2. CASE Before(q) \/ Count(q)
  BY <1>2 DEF Before, Count, ReadsOnly, rows
<1>3. CASE Find(q) \/ CheckName(q) \/ CheckFree(q) \/ Unsupported(q)
  BY <1>3 DEF Find, CheckName, CheckFree, Unsupported, Refuse, ReadsOnly, rows
<1>4. CASE Render(q) \/ Page(q)
  BY <1>4 DEF Render, Page, Answered, rows
<1>5. CASE Save(q)
  BY <1>5 DEF Save, Refuse, rows
<1>6. CASE Erase(q)
  BY <1>6 DEF Erase, Refuse, rows
<1>7. CASE WriteMembers(q)
  BY <1>7 DEF WriteMembers
<1>8. CASE Reply(q) \/ TellRow(q) \/ TellMember(q)
  BY <1>8 DEF Reply, TellRow, TellMember, rows
<1> QED
  BY <1>1, <1>2, <1>3, <1>4, <1>5, <1>6, <1>7, <1>8 DEF Step, Statement

LEMMA NamesStayUnique ==
    ASSUME ServerInd, NamesAreUnique, [Next]_vars
    PROVE  NamesAreUnique'
<1>1. CASE users' = users
  BY <1>1 DEF NamesAreUnique
<1>2. CASE users' # users
  <2>1. PICK q \in Req : Step(q)
    BY <1>2, NextIsAStep DEF vars, rows
  <2> DEFINE r == req[q].id
  <2>2. users \in [Users -> UserRow \cup {None}]
    BY DEF ServerInd, Tables
  <2>3. CASE Save(q) /\ ~Refuse(q, 500) /\ r \in Users
    <3>1. /\ users' = [users EXCEPT ![r] = NewUser(q)]
          /\ Holders(r, Wanted(q)) \ {r} = {}
      BY <2>3 DEF Save
    <3>2. NewUser(q).name = Wanted(q)
      BY DEF NewUser
    <3>3. \A u \in Users : u # r /\ users[u] # None => users[u].name # Wanted(q)
      BY <2>3, <3>1 DEF Holders
    <3> HIDE DEF r
    <3>4. \A u \in Users : users'[u] = IF u = r THEN NewUser(q) ELSE users[u]
      BY <2>2, <3>1
    <3> QED
      BY <3>2, <3>3, <3>4 DEF NamesAreUnique
  <2>4. CASE Erase(q) /\ ~Refuse(q, 404) /\ r \in Users
    <3>1. users' = [users EXCEPT ![r] = None]
      BY <2>4 DEF Erase
    <3>2. \A u \in Users : users'[u] = IF u = r THEN None ELSE users[u]
      BY <2>2, <3>1
    <3> QED
      BY <3>2 DEF NamesAreUnique
  <2> QED
    BY <1>2, <2>1, <2>3, <2>4, UsersChange
<1> QED
  BY <1>1, <1>2

(* No two users share a name, however many requests interleave. *)
THEOREM UserNamesAreUnique == Spec => []NamesAreUnique
<1>1. Init => NamesAreUnique
  BY NamesStart
<1>2. ServerInd /\ NamesAreUnique /\ [Next]_vars => NamesAreUnique'
  BY NamesStayUnique
<1> QED
  BY <1>1, <1>2, ServerInvariant, PTL DEF Spec

----------------------------------------------------------------------------
(* What a refusal leaves behind *)

(* An error is answered by a statement that refuses; by an erasure it is a 404. *)
LEMMA ErrorsAreRefusals ==
    ASSUME ServerInd, NEW p \in Req, Step(p), NEW q \in Req,
           answer[q] = None, answer'[q] \in {400, 404, 409, 500}
    PROVE  /\ p = q /\ Active(q) /\ Head(todo[q]).do \in Refusing
           /\ Head(todo[q]).do = "erase" => answer'[q] = 404
<1>0. Framed
  BY DEF ServerInd
<1>1. answer' # answer
  BY NoneAssumption DEF Status
<1>2. ASSUME NEW status, Refuse(p, status) PROVE p = q /\ answer'[q] = status
  BY <1>0, <1>1, <1>2, NoneAssumption DEF Refuse, Framed, Status
<1>3. CASE \E r \in Res : \E rq \in Bodies(r) : Receive(p, rq)
  <2>1. answer' = [answer EXCEPT ![p] = None]
    BY <1>3 DEF Receive
  <2>2. answer'[q] = None \/ answer'[q] = answer[q]
    BY <1>0, <2>1 DEF Framed
  <2> QED
    BY <2>2, NoneAssumption DEF Status
<1>4. CASE Before(p) \/ Count(p) \/ WriteMembers(p) \/ TellRow(p) \/ TellMember(p)
  BY <1>1, <1>4 DEF Before, Count, ReadsOnly, WriteMembers, TellRow, TellMember
<1>5. CASE Render(p) \/ Page(p)
  BY <1>0, <1>5, NoneAssumption DEF Render, Page, Answered, Framed, Status
<1>6. CASE Reply(p)
  BY <1>0, <1>6, NoneAssumption DEF Reply, Framed, Status
<1>7. CASE Find(p)
  BY <1>1, <1>2, <1>7 DEF Find, Head1, ReadsOnly, Refusing
<1>8. CASE CheckName(p)
  BY <1>1, <1>2, <1>8 DEF CheckName, Head1, ReadsOnly, Refusing
<1>9. CASE CheckFree(p)
  BY <1>1, <1>2, <1>9 DEF CheckFree, Head1, ReadsOnly, Refusing
<1>10. CASE Unsupported(p)
  BY <1>2, <1>10 DEF Unsupported, Head1, Refusing
<1>11. CASE Save(p)
  BY <1>1, <1>2, <1>11 DEF Save, Head1, Refusing
<1>12. CASE Erase(p)
  BY <1>1, <1>2, <1>12 DEF Erase, Head1, Refusing
<1> QED
  BY <1>3, <1>4, <1>5, <1>6, <1>7, <1>8, <1>9, <1>10, <1>11, <1>12 DEF Step, Statement

(* An error answer means nothing was written, but for the members of a group's PATCH
   and the edges of a missing resource's DELETE. *)
THEOREM RefusalsWriteNothing == Spec => RefusalWritesNothing
<1>1. ASSUME ServerInd, [Next]_vars, NEW q \in Req,
             answer[q] = None, answer'[q] \in {400, 404, 409, 500}, local[q].wrote
      PROVE  \/ req[q].verb = "PATCH" /\ req[q].id \in Groups
             \/ req[q].verb = "DELETE" /\ answer'[q] = 404
  <2>1. answer' # answer
    BY <1>1, NoneAssumption DEF Status
  <2>2. PICK p \in Req : Step(p)
    BY <1>1, <2>1, NextIsAStep DEF vars, client
  <2>3. /\ Active(q) /\ Head(todo[q]).do \in Refusing
        /\ Head(todo[q]).do = "erase" => answer'[q] = 404
    BY <1>1, <2>2, ErrorsAreRefusals
  <2>4. Queued(q) /\ WroteLate(q) /\ Serving(q)
    BY <1>1, <2>3 DEF ServerInd, Serving
  <2>5. /\ Head(todo[q]) \in Left(q) /\ BodyFits(req[q]) /\ Head(todo[q]) \in Planned(req[q])
    BY <2>3, <2>4, EarlierIsDone, ServedByPlan
  <2>6. Half(req[q])
    BY <1>1, <2>3, <2>4, <2>5 DEF WroteLate
  <2>7. req[q].verb = "DELETE" => Head(todo[q]).do = "erase"
    BY <2>3, <2>5, PlanTells DEF Refusing, Saves, BodyFits
  <2> QED
    BY <2>3, <2>6, <2>7 DEF Half
<1>2. ServerInd /\ [Next]_vars
        => [\A q \in Req : (answer[q] = None /\ answer'[q] \in {400, 404, 409, 500} /\ local[q].wrote) =>
              \/ req[q].verb = "PATCH" /\ req[q].id \in Groups
              \/ req[q].verb = "DELETE" /\ answer'[q] = 404]_vars
  BY <1>1
<1> QED
  BY <1>2, ServerInvariant, PTL DEF Spec, RefusalWritesNothing

----------------------------------------------------------------------------
(* The memberships a request means *)

LEMMA EdgesAre ==
    ASSUME NEW r, NEW S, NEW what, NEW e
    PROVE  e \in EdgesOf(r, S, what) <=> \E s \in S : s.do = what /\ e = <<r, s.who>>
BY DEF EdgesOf

LEMMA EndsAre ==
    ASSUME NEW r, NEW es, NEW S, NEW e
    PROVE  e \in EndsOf(r, es, S) <=>
             /\ \/ /\ e \in es
                   /\ IF \E s \in S : s.do = "clear" THEN e[1] # r
                      ELSE (\E s \in S : s.do = "leave") => e[2] # r
                \/ \E s \in S : s.do = "add" /\ e = <<r, s.who>>
             /\ ~\E s \in S : s.do = "drop" /\ e = <<r, s.who>>
BY EdgesAre DEF EndsOf

(* The statements on members, and no others, tell how the memberships end. *)
LEMMA EndsByEdits ==
    ASSUME NEW r, NEW es, NEW S, NEW T,
           \A x : x.do \in {"clear", "leave", "add", "drop"} => (x \in S <=> x \in T)
    PROVE  EndsOf(r, es, S) = EndsOf(r, es, T)
<1>1. ASSUME NEW e PROVE e \in EndsOf(r, es, S) <=> e \in EndsOf(r, es, T)
  <2>1. \A what \in {"clear", "leave"} : (\E s \in S : s.do = what) <=> (\E s \in T : s.do = what)
    OBVIOUS
  <2>2. \A what \in {"add", "drop"} : (\E s \in S : s.do = what /\ e = <<r, s.who>>)
                                      <=> (\E s \in T : s.do = what /\ e = <<r, s.who>>)
    OBVIOUS
  <2> QED
    BY <2>1, <2>2, EndsAre
<1> QED
  BY <1>1

(* A request that names all the members of a group. *)
Lister(rq) ==
    rq.id \in Groups /\ (rq.verb = "POST" \/ (rq.verb = "PUT" /\ ~mismatched(rq))
                         \/ (rq.verb = "PATCH" /\ rq.op = "replace"))

LEMMA PlanEdits ==
    ASSUME NEW rq, BodyFits(rq), NEW s \in Planned(rq)
    PROVE  /\ s.do = "clear" => Lister(rq) \/ (rq.verb = "DELETE" /\ rq.id \notin Users)
           /\ s.do = "add" => s.who \in rq.who /\ (Lister(rq) \/ (rq.verb = "PATCH" /\ rq.op = "add"))
           /\ s.do = "drop" => s.who \in rq.who /\ rq.verb = "PATCH" /\ rq.op = "remove"
<1>1. /\ \A what, S, t : t \in Each1(what, S) => t.do = what /\ t.who \in S
      /\ \A what : Do(what).do = what
      /\ \A c, what, t : t \in Only(c, what) => t.do = what
  BY DEF Each1, To, Do, Only
<1>2. s \in Setting(rq) => rq.id \in Groups /\ (s.do = "clear" \/ (s.do = "add" /\ s.who \in rq.who))
  BY <1>1 DEF Setting
<1>3. s \in Patching(rq) => \/ s.do = "add" /\ s.who \in rq.who /\ rq.op = "add"
                            \/ s.do = "drop" /\ s.who \in rq.who /\ rq.op = "remove"
                            \/ s \in Setting(rq) /\ rq.op = "replace"
  BY <1>1 DEF Patching
<1>4. rq.verb \in {"POST", "PUT", "PATCH", "DELETE", "GET", "LIST"}
  BY DEF BodyFits
<1>5. CASE s.do \notin {"clear", "add", "drop"}
  BY <1>5
<1>6. CASE s.do \in {"clear", "add", "drop"}
  <2>0. s \notin Only(Emits /\ rq.verb \in {"PUT", "PATCH", "DELETE"}, "before")
                 \cup Only(rq.verb \notin {"GET", "LIST"}, "reply")
    BY <1>1, <1>6
  <2>1. CASE rq.verb = "POST"
    <3>1. s \in {Do("name"), Do("save")} \cup Only(adopts(rq), "free") \cup Setting(rq)
      BY <2>0, <2>1 DEF Planned
    <3> QED
      BY <1>1, <1>2, <1>6, <2>1, <3>1 DEF Lister
  <2>2. CASE rq.verb = "PUT"
    <3>1. s \in IF mismatched(rq) THEN {Do("bad")} ELSE {Do("find"), Do("name"), Do("save")} \cup Setting(rq)
      BY <2>0, <2>2 DEF Planned
    <3> QED
      BY <1>1, <1>2, <1>6, <2>2, <3>1 DEF Lister
  <2>3. CASE rq.verb = "PATCH"
    <3>1. s \in {Do("find"), Do("name"), Do("save")} \cup Only(rq.bad, "bad") \cup Patching(rq)
      BY <2>0, <2>3 DEF Planned
    <3> QED
      BY <1>1, <1>2, <1>3, <1>6, <2>3, <3>1 DEF Lister
  <2>4. CASE rq.verb = "DELETE"
    <3>1. s \in {Do(IF rq.id \in Users THEN "leave" ELSE "clear"), Do("erase")}
      BY <2>0, <2>4 DEF Planned
    <3> QED
      BY <1>1, <1>6, <2>4, <3>1
  <2>5. CASE rq.verb = "GET"
    <3>1. s \in {Do("find"), Do("render")}
      BY <2>0, <2>5 DEF Planned
    <3> QED
      BY <1>1, <1>6, <3>1
  <2>6. CASE rq.verb = "LIST"
    <3>1. s \in {Do("count"), Do("page")}
      BY <2>0, <2>6 DEF Planned
    <3> QED
      BY <1>1, <1>6, <3>1
  <2> QED
    BY <1>4, <2>1, <2>2, <2>3, <2>4, <2>5, <2>6
<1> QED
  BY <1>5, <1>6

LEMMA EditsArePlanned ==
    ASSUME NEW rq, BodyFits(rq)
    PROVE  /\ Lister(rq) => Do("clear") \in Planned(rq) /\ \A u \in rq.who : To("add", u) \in Planned(rq)
           /\ rq.verb = "PATCH" /\ rq.op = "add" => \A u \in rq.who : To("add", u) \in Planned(rq)
           /\ rq.verb = "PATCH" /\ rq.op = "remove" => \A u \in rq.who : To("drop", u) \in Planned(rq)
           /\ rq.verb = "DELETE" => Do(IF rq.id \in Users THEN "leave" ELSE "clear") \in Planned(rq)
<1>1. \A what, S : \A u \in S : To(what, u) \in Each1(what, S)
  BY DEF Each1
<1>2. rq.id \in Groups => Do("clear") \in Setting(rq) /\ \A u \in rq.who : To("add", u) \in Setting(rq)
  BY <1>1 DEF Setting
<1>3. Lister(rq) => Setting(rq) \subseteq Planned(rq)
  <2>1. CASE rq.verb = "POST"
    BY <2>1 DEF Planned
  <2>2. CASE rq.verb = "PUT" /\ ~mismatched(rq)
    BY <2>2 DEF Planned
  <2>3. CASE rq.verb = "PATCH" /\ rq.op = "replace"
    <3>1. Patching(rq) \subseteq Planned(rq)
      BY <2>3 DEF Planned
    <3>2. Patching(rq) = Setting(rq)
      BY <2>3 DEF Patching
    <3> QED
      BY <3>1, <3>2
  <2> QED
    BY <2>1, <2>2, <2>3 DEF Lister
<1>4. rq.verb = "PATCH" => Patching(rq) \subseteq Planned(rq)
  BY DEF Planned
<1>5. /\ rq.op = "add" => Patching(rq) = Each1("add", rq.who)
      /\ rq.op = "remove" => Patching(rq) = Each1("drop", rq.who)
  BY DEF Patching
<1>6. rq.verb = "DELETE" => Do(IF rq.id \in Users THEN "leave" ELSE "clear") \in Planned(rq)
  BY DEF Planned
<1> QED
  BY <1>1, <1>2, <1>3, <1>4, <1>5, <1>6 DEF Lister

(* Run to its end, a plan leaves the memberships the request means. *)
LEMMA PlanEnds ==
    ASSUME NEW rq, BodyFits(rq), NEW es \in SUBSET (Groups \X Users)
    PROVE  EndsOf(rq.id, es, Planned(rq)) = Meant(rq, es)
<1> DEFINE r == rq.id
           P == Planned(rq)
<1>0. /\ \A e \in es : e[1] \in Groups /\ e[2] \in Users
      /\ r \in Users \/ r \in Groups
      /\ r \in Users => r \notin Groups
  BY KindAssumption DEF BodyFits, Res
<1>1. \A what : Do(what).do = what /\ \A u : To(what, u).do = what /\ To(what, u).who = u
  BY DEF Do, To
<1>2. /\ rq.op \in {None, "add", "remove", "replace"} /\ (rq.verb # "PATCH" => rq.op = None)
      /\ r \in Users => rq.op = None
      /\ None \notin {"add", "remove", "replace"}
  BY NoneAssumption DEF BodyFits
<1>3. ASSUME NEW s \in P
      PROVE  /\ s.do = "clear" => Lister(rq) \/ (rq.verb = "DELETE" /\ r \notin Users)
             /\ s.do = "add" => s.who \in rq.who /\ (Lister(rq) \/ (rq.verb = "PATCH" /\ rq.op = "add"))
             /\ s.do = "drop" => s.who \in rq.who /\ rq.verb = "PATCH" /\ rq.op = "remove"
             /\ s.do = "leave" => rq.verb = "DELETE" /\ r \in Users
  BY PlanEdits, PlanTells
<1>4. /\ Lister(rq) => Do("clear") \in P /\ \A u \in rq.who : To("add", u) \in P
      /\ rq.verb = "PATCH" /\ rq.op = "add" => \A u \in rq.who : To("add", u) \in P
      /\ rq.verb = "PATCH" /\ rq.op = "remove" => \A u \in rq.who : To("drop", u) \in P
      /\ rq.verb = "DELETE" => Do(IF r \in Users THEN "leave" ELSE "clear") \in P
  BY EditsArePlanned
<1>5. \A e : e \in {r} \X rq.who <=> \E u \in rq.who : e = <<r, u>>
  OBVIOUS
<1> HIDE DEF P
<1>6. ASSUME NEW e
      PROVE  e \in EndsOf(r, es, P) <=>
             /\ \/ /\ e \in es
                   /\ IF \E s \in P : s.do = "clear" THEN e[1] # r
                      ELSE (\E s \in P : s.do = "leave") => e[2] # r
                \/ \E s \in P : s.do = "add" /\ e = <<r, s.who>>
             /\ ~\E s \in P : s.do = "drop" /\ e = <<r, s.who>>
  BY EndsAre
<1>7. CASE rq.verb = "DELETE"
  <2>1. ~Lister(rq)
    BY <1>7 DEF Lister
  <2>2. /\ (\E s \in P : s.do = "clear") <=> r \notin Users
        /\ (\E s \in P : s.do = "leave") <=> r \in Users
        /\ ~\E s \in P : s.do \in {"add", "drop"}
    BY <1>1, <1>3, <1>4, <1>7, <2>1
  <2>3. \A e : e \in EndsOf(r, es, P) <=> e \in es /\ r \notin {e[1], e[2]}
    BY <1>0, <1>6, <2>2
  <2> QED
    BY <1>7, <2>3 DEF Meant, P
<1>8. CASE Lister(rq)
  <2>1. /\ \E s \in P : s.do = "clear"
        /\ ~\E s \in P : s.do = "drop"
        /\ \A e : (\E s \in P : s.do = "add" /\ e = <<r, s.who>>) <=> e \in {r} \X rq.who
    <3>1. rq.op # "remove" /\ rq.verb # "DELETE"
      BY <1>2, <1>8 DEF Lister
    <3>2. (\E s \in P : s.do = "clear") /\ ~\E s \in P : s.do = "drop"
      BY <1>1, <1>3, <1>4, <1>8, <3>1
    <3>3. ASSUME NEW e PROVE (\E s \in P : s.do = "add" /\ e = <<r, s.who>>) <=> e \in {r} \X rq.who
      BY <1>1, <1>3, <1>4, <1>5, <1>8
    <3> QED
      BY <3>2, <3>3
  <2>2. \A e : e \in EndsOf(r, es, P) <=> (e \in es /\ e[1] # r) \/ e \in {r} \X rq.who
    BY <1>6, <2>1
  <2>3. Meant(rq, es) = {e \in es : e[1] # r} \cup ({r} \X rq.who)
    BY <1>0, <1>2, <1>8 DEF Lister, Meant, Saves
  <2> QED
    BY <2>2, <2>3 DEF P
<1>9. CASE rq.verb = "PATCH" /\ rq.op = "add"
  <2>1. ~Lister(rq) /\ rq.verb # "DELETE" /\ rq.op # "remove"
    BY <1>9 DEF Lister
  <2>2. /\ ~\E s \in P : s.do \in {"clear", "leave", "drop"}
    BY <1>3, <2>1
  <2>3. ASSUME NEW e PROVE (\E s \in P : s.do = "add" /\ e = <<r, s.who>>) <=> e \in {r} \X rq.who
    BY <1>1, <1>3, <1>4, <1>5, <1>9
  <2>4. \A e : e \in EndsOf(r, es, P) <=> e \in es \/ e \in {r} \X rq.who
    BY <1>6, <2>2, <2>3
  <2>5. Meant(rq, es) = es \cup ({r} \X rq.who)
    BY <1>2, <1>9 DEF Meant, Saves
  <2> QED
    BY <2>4, <2>5 DEF P
<1>10. CASE rq.verb = "PATCH" /\ rq.op = "remove"
  <2>1. ~Lister(rq) /\ rq.verb # "DELETE" /\ rq.op # "add"
    BY <1>10 DEF Lister
  <2>2. /\ ~\E s \in P : s.do \in {"clear", "leave", "add"}
    BY <1>3, <2>1
  <2>3. ASSUME NEW e PROVE (\E s \in P : s.do = "drop" /\ e = <<r, s.who>>) <=> e \in {r} \X rq.who
    BY <1>1, <1>3, <1>4, <1>5, <1>10
  <2>4. \A e : e \in EndsOf(r, es, P) <=> e \in es /\ e \notin {r} \X rq.who
    BY <1>6, <2>2, <2>3
  <2>5. Meant(rq, es) = es \ ({r} \X rq.who)
    BY <1>2, <1>10 DEF Meant, Saves
  <2> QED
    BY <2>4, <2>5 DEF P
<1>11. CASE ~(rq.verb = "DELETE") /\ ~Lister(rq) /\ ~(rq.verb = "PATCH" /\ rq.op \in {"add", "remove"})
  <2>1. ~\E s \in P : s.do \in {"clear", "leave", "add", "drop"}
    BY <1>3, <1>11
  <2>2. \A e : e \in EndsOf(r, es, P) <=> e \in es
    BY <1>6, <2>1
  <2>3. r \in Users \/ ~Saves(rq) \/ (rq.verb = "PATCH" /\ rq.op = None)
    BY <1>0, <1>2, <1>11 DEF Lister, Saves
  <2>4. Meant(rq, es) = es
    BY <1>11, <2>3 DEF Meant
  <2> QED
    BY <2>2, <2>4 DEF P
<1> QED
  BY <1>7, <1>8, <1>9, <1>10, <1>11

----------------------------------------------------------------------------
(* What a request alone keeps, statement by statement *)

LEMMA WasLasts ==
    ASSUME NEW q \in Req, role' = role, req'[q] = req[q], was'[q] = was[q]
    PROVE  /\ (WasFits(q)' <=> WasFits(q)) /\ OldRow(q)' = OldRow(q)
           /\ OldUsers(q)' = OldUsers(q) /\ OldGroups(q)' = OldGroups(q) /\ OldMembers(q)' = OldMembers(q)
           /\ Meant(req[q], OldMembers(q))' = Meant(req[q], OldMembers(q))
<1>1. OldUsers(q)' = OldUsers(q) /\ OldGroups(q)' = OldGroups(q) /\ OldMembers(q)' = OldMembers(q)
  BY DEF OldUsers, OldGroups, OldMembers
<1>2. (WasFits(q)' <=> WasFits(q)) /\ OldRow(q)' = OldRow(q)
  BY <1>1 DEF WasFits, OldRow
<1>3. Meant(req[q], OldMembers(q))' = Meant(req[q], OldMembers(q))
  BY <1>1 DEF Meant, Saves, mismatched
<1> QED
  BY <1>1, <1>2, <1>3

LEMMA ChainLasts ==
    ASSUME ServerInd, NEW q \in Req, Active(q), Next1(q), role' = role, req' = req, Chain(q),
           local'[q].wrote = local[q].wrote
             \/ Head(todo[q]).do \in {"save", "clear", "leave", "add", "drop", "erase"}
    PROVE  Chain(q)'
<1> DEFINE v == req[q].verb
<1>1. Framed /\ Queued(q)
  BY DEF ServerInd
<1>2. PICK h : h = Head(todo[q])
  OBVIOUS
<1>3. /\ \A what : what # h.do => (Has(q, what)' <=> Has(q, what))
      /\ \A what : what = h.do /\ what \notin Listing => ~Has(q, what)'
      /\ h.do \in DOMAIN Turn
  BY <1>1, <1>2, NextLeaves, EarlierIsDone DEF Stmt
<1>4. \A what \in DOMAIN Turn : Rank(v, what) < Rank(v, h.do) => ~Has(q, what)
  BY <1>1, <1>2, EarlierIsDone
<1>5. Saves(req[q])' <=> Saves(req[q])
  BY Stays
<1>6. Has(q, "before")' => ~local'[q].wrote
  <2>1. CASE h.do = "before"
    BY <1>3, <2>1 DEF Listing
  <2>2. CASE h.do \in {"save", "clear", "leave", "add", "drop", "erase"}
    <3>1. ~Has(q, "before")
      <4>1. Rank(v, "before") < Rank(v, h.do)
        BY <2>2, Ranks
      <4> QED
        BY <1>4, <4>1, Whats
    <3> QED
      BY <1>3, <2>2, <3>1
  <2>3. CASE h.do # "before" /\ local'[q].wrote = local[q].wrote
    BY <1>3, <2>3 DEF Chain
  <2> QED
    BY <1>2, <2>1, <2>2, <2>3
<1>7. Saves(req[q]) /\ Has(q, "find")' => Has(q, "name")'
  <2>1. CASE h.do = "name"
    <3>1. ~Has(q, "find")
      BY <1>4, <2>1, Ranks, Whats
    <3> QED
      BY <1>3, <2>1, <3>1
  <2>2. CASE h.do = "find"
    BY <1>3, <2>2 DEF Listing
  <2>3. CASE h.do \notin {"name", "find"}
    BY <1>3, <2>3 DEF Chain
  <2> QED
    BY <2>1, <2>2, <2>3
<1>8. Saves(req[q]) /\ (Has(q, "name")' \/ Has(q, "free")') => Has(q, "save")'
  <2>1. CASE h.do = "save"
    <3>1. ~Has(q, "name") /\ ~Has(q, "free")
      BY <1>4, <2>1, Ranks, Whats
    <3> QED
      BY <1>3, <2>1, <3>1
  <2>2. CASE h.do # "save"
    <3>1. (Has(q, "name")' => Has(q, "name")) /\ (Has(q, "free")' => Has(q, "free"))
      BY <1>3 DEF Listing
    <3> QED
      BY <1>3, <2>2, <3>1 DEF Chain
  <2> QED
    BY <2>1, <2>2
<1> QED
  BY <1>5, <1>6, <1>7, <1>8 DEF Chain

LEMMA RowsLast ==
    ASSUME ServerInd, NEW q \in Req, Active(q), Next1(q), role' = role, req' = req, was' = was, Rows(q),
           Head(todo[q]).do \notin {"save", "erase", "bad"}, users' = users, groups' = groups,
           local'[q].row = local[q].row \/ Pending(q)
    PROVE  Rows(q)' /\ (Pending(q)' <=> Pending(q))
<1>1. Framed /\ Queued(q)
  BY DEF ServerInd
<1>2. /\ (Has(q, "save")' <=> Has(q, "save")) /\ (Has(q, "erase")' <=> Has(q, "erase"))
      /\ (Has(q, "bad")' <=> Has(q, "bad"))
  BY <1>1, NextLeaves
<1>3. Pending(q)' <=> Pending(q)
  BY <1>2 DEF Pending
<1>4. OldUsers(q)' = OldUsers(q) /\ OldGroups(q)' = OldGroups(q) /\ OldRow(q)' = OldRow(q)
  BY WasLasts
<1>5. CASE Pending(q)
  BY <1>3, <1>4, <1>5 DEF Rows
<1>6. CASE ~Pending(q)
  <2>1. NewUser(q)' = NewUser(q) /\ Wanted(q)' = Wanted(q)
    BY <1>6 DEF NewUser, Wanted
  <2> QED
    BY <1>3, <1>4, <1>6, <2>1 DEF Rows, Put
<1> QED
  BY <1>3, <1>5, <1>6

LEMMA EndsLast ==
    ASSUME ServerInd, NEW q \in Req, Active(q), Next1(q), req' = req, members' = members,
           Head(todo[q]).do \notin {"clear", "leave", "add", "drop"}
    PROVE  Ends(q)' = Ends(q)
<1>1. Framed /\ Queued(q)
  BY DEF ServerInd
<1>2. /\ Left(q)' \subseteq Left(q)
      /\ \A x \in Left(q) : x.do # Head(todo[q]).do => x \in Left(q)'
  BY <1>1, NextLeaves
<1>3. PICK L : L = Left(q)'
  OBVIOUS
<1>4. \A x : x.do \in {"clear", "leave", "add", "drop"} => (x \in Left(q) <=> x \in L)
  BY <1>2, <1>3
<1>5. EndsOf(req[q].id, members, Left(q)) = EndsOf(req[q].id, members, L)
  BY <1>4, EndsByEdits
<1> QED
  BY <1>3, <1>5 DEF Ends

LEMMA EditEnds ==
    ASSUME ServerInd, NEW q \in Req, WriteMembers(q)
    PROVE  Ends(q)' = Ends(q)
<1> DEFINE r == req[q].id
           v == req[q].verb
<1>1. Framed /\ Queued(q) /\ Active(q) /\ Next1(q) /\ req' = req
  BY DEF ServerInd, WriteMembers, Keep
<1>2. PICK h : h = Head(todo[q])
  OBVIOUS
<1>3. h.do \in {"clear", "leave", "add", "drop"} /\ members' = Edges(q)
  BY <1>2 DEF WriteMembers
<1>4. /\ Serving(q) /\ BodyFits(req[q]) /\ h \in Planned(req[q])
      /\ \A s \in Left(q) : s \in Planned(req[q])
  BY <1>1, <1>2, <1>3, ServedUntilAnswered, ServedByPlan
<1>5. PICK L : L = Left(q)'
  OBVIOUS
<1>6. /\ L \subseteq Left(q) /\ h \in Left(q)
      /\ \A x \in Left(q) : x.do # h.do => x \in L
      /\ \A x \in Left(q) : x = h \/ x \in L
      /\ h.do \notin Listing => \A x \in L : x.do # h.do
  BY <1>1, <1>2, <1>5, NextLeaves, EarlierIsDone DEF Has
<1>7. \A what \in DOMAIN Turn : Rank(v, what) < Rank(v, h.do) => \A x \in Left(q) : x.do # what
  BY <1>1, <1>2, EarlierIsDone DEF Has
<1>8. \A s \in Left(q) :
        /\ s.do = "leave" => req[q].verb = "DELETE" /\ r \in Users
        /\ s.do = "clear" => (Saves(req[q]) \/ req[q].verb = "DELETE") /\ r \notin Users
        /\ s.do \in {"add", "drop"} => Saves(req[q])
        /\ s.do = "add" => Lister(req[q]) \/ (req[q].verb = "PATCH" /\ req[q].op = "add")
        /\ s.do = "drop" => req[q].verb = "PATCH" /\ req[q].op = "remove"
  BY <1>4, PlanTells, PlanEdits
<1>9. req[q].verb # "PATCH" => req[q].op # "remove"
  BY <1>4, NoneAssumption DEF BodyFits
<1>10. \A e : e \in Ends(q) <=>
             /\ \/ /\ e \in members
                   /\ IF \E s \in Left(q) : s.do = "clear" THEN e[1] # r
                      ELSE (\E s \in Left(q) : s.do = "leave") => e[2] # r
                \/ \E s \in Left(q) : s.do = "add" /\ e = <<r, s.who>>
             /\ ~\E s \in Left(q) : s.do = "drop" /\ e = <<r, s.who>>
  BY EndsAre DEF Ends
<1>11. PICK es : es = members'
  OBVIOUS
<1>12. Ends(q)' = EndsOf(r, es, L)
  BY <1>1, <1>5, <1>11 DEF Ends
<1>13. \A e : e \in EndsOf(r, es, L) <=>
             /\ \/ /\ e \in es
                   /\ IF \E s \in L : s.do = "clear" THEN e[1] # r
                      ELSE (\E s \in L : s.do = "leave") => e[2] # r
                \/ \E s \in L : s.do = "add" /\ e = <<r, s.who>>
             /\ ~\E s \in L : s.do = "drop" /\ e = <<r, s.who>>
  BY EndsAre
<1> HIDE DEF r, v
<1>14. CASE h.do = "clear"
  <2>1. es = {e \in members : e[1] # r}
    BY <1>2, <1>3, <1>11, <1>14 DEF Edges, r
  <2>2. /\ \A s \in L : s.do # "clear" /\ s.do # "leave"
        /\ \A x : x.do \in {"add", "drop"} => (x \in L <=> x \in Left(q))
    BY <1>6, <1>8, <1>14 DEF Listing
  <2>3. \A e : e \in Ends(q) <=> e \in EndsOf(r, es, L)
    BY <1>6, <1>10, <1>13, <1>14, <2>1, <2>2
  <2> QED
    BY <1>12, <2>3 DEF Ends, EndsOf
<1>15. CASE h.do = "leave"
  <2>1. es = {e \in members : e[2] # r}
    BY <1>2, <1>3, <1>11, <1>15 DEF Edges, r
  <2>2. /\ \A s \in Left(q) : s.do # "clear"
        /\ \A s \in L : s.do # "leave"
        /\ \A x : x.do \in {"add", "drop"} => (x \in L <=> x \in Left(q))
    BY <1>6, <1>8, <1>15 DEF Listing
  <2>3. \A e : e \in Ends(q) <=> e \in EndsOf(r, es, L)
    BY <1>6, <1>10, <1>13, <1>15, <2>1, <2>2
  <2> QED
    BY <1>12, <2>3 DEF Ends, EndsOf
<1>16. CASE h.do = "add"
  <2>1. es = members \cup {<<r, h.who>>}
    BY <1>2, <1>3, <1>11, <1>16 DEF Edges, r
  <2>2. \A s \in Left(q) : s.do # "clear"
    <3>1. Rank(v, "clear") < Rank(v, "add")
      BY Ranks
    <3> QED
      BY <1>7, <1>16, <3>1, Whats
  <2>3. \A s \in Left(q) : s.do # "leave" /\ s.do # "drop"
    BY <1>6, <1>8, <1>9, <1>16 DEF Lister, Saves
  <2>4. \A e : e \in Ends(q) <=> e \in EndsOf(r, es, L)
    BY <1>6, <1>10, <1>13, <1>16, <2>1, <2>2, <2>3
  <2> QED
    BY <1>12, <2>4 DEF Ends, EndsOf
<1>17. CASE h.do = "drop"
  <2>1. es = members \ {<<r, h.who>>}
    BY <1>2, <1>3, <1>11, <1>17 DEF Edges, r
  <2>2. \A s \in Left(q) : s.do # "clear" /\ s.do # "leave" /\ s.do # "add"
    <3>1. Rank(v, "clear") < Rank(v, "drop")
      BY Ranks
    <3>2. \A s \in Left(q) : s.do # "clear"
      BY <1>7, <1>17, <3>1, Whats
    <3> QED
      BY <1>6, <1>8, <1>17, <3>2 DEF Lister
  <2>4. \A e : e \in Ends(q) <=> e \in EndsOf(r, es, L)
    BY <1>6, <1>10, <1>13, <1>17, <2>1, <2>2
  <2> QED
    BY <1>12, <2>4 DEF Ends, EndsOf
<1> QED
  BY <1>3, <1>14, <1>15, <1>16, <1>17

LEMMA KeepsReading ==
    ASSUME ServerInd, NEW q \in Req, Active(q), Next1(q), ReadsOnly, Keeps(q),
           Head(todo[q]).do \in {"before", "find", "name", "free", "count"},
           local'[q].wrote = local[q].wrote, local'[q].row = local[q].row \/ Pending(q)
    PROVE  Keeps(q)'
<1>1. /\ role' = role /\ req' = req /\ was' = was
      /\ users' = users /\ groups' = groups /\ members' = members
  BY DEF ReadsOnly, Keep, rows
<1>2. WasFits(q)' /\ Meant(req[q], OldMembers(q))' = Meant(req[q], OldMembers(q))
  BY <1>1, WasLasts DEF Keeps
<1>3. Chain(q)'
  BY <1>1, ChainLasts DEF Keeps
<1>4. Rows(q)'
  BY <1>1, RowsLast DEF Keeps
<1>5. Ends(q)' = Ends(q)
  BY <1>1, EndsLast
<1>6. ~local'[q].wrote => <<users, groups, members>>' = was'[q]
  BY <1>1 DEF Keeps
<1> QED
  BY <1>2, <1>3, <1>4, <1>5, <1>6 DEF Keeps

LEMMA PassedLasts ==
    ASSUME ServerInd, NEW q \in Req, Active(q), Next1(q), role' = role, req' = req, was' = was, Passed(q),
           Head(todo[q]).do \notin {"find", "free", "name", "count"}, local'[q].row = local[q].row
    PROVE  Passed(q)'
<1>1. Framed /\ Queued(q)
  BY DEF ServerInd
<1>2. /\ (Has(q, "find")' <=> Has(q, "find")) /\ (Has(q, "free")' <=> Has(q, "free"))
      /\ (Has(q, "name")' <=> Has(q, "name")) /\ (Has(q, "count")' <=> Has(q, "count"))
  BY <1>1, NextLeaves
<1>3. /\ (Saves(req[q])' <=> Saves(req[q])) /\ (mismatched(req[q])' <=> mismatched(req[q]))
      /\ (createIfAbsent(req[q])' <=> createIfAbsent(req[q]))
  BY Stays
<1>4. OldUsers(q)' = OldUsers(q) /\ OldGroups(q)' = OldGroups(q) /\ OldRow(q)' = OldRow(q)
  BY WasLasts
<1>5. Wanted(q)' = Wanted(q)
  BY DEF Wanted
<1>6. Taken(q)' <=> Taken(q)
  BY <1>4, <1>5 DEF Taken
<1>7. Matching(req[q], OldUsers(q), OldGroups(q))' = Matching(req[q], OldUsers(q), OldGroups(q))
  BY <1>4 DEF Matching
<1> QED
  BY <1>2, <1>3, <1>4, <1>6, <1>7 DEF Passed

(* While it finds and looks up, the tables are as the request met them. *)
LEMMA StillPending ==
    ASSUME ServerInd, NEW q \in Req, Serving(q), Keeps(q),
           Head(todo[q]).do \in {"find", "name", "free", "count", "page", "render", "bad", "save", "erase"}
    PROVE  /\ Pending(q) /\ users = OldUsers(q) /\ groups = OldGroups(q)
           /\ RowOf(req[q].id) = OldRow(q)
<1>1. Queued(q) /\ Active(q)
  BY DEF ServerInd, Serving
<1>2. BodyFits(req[q]) /\ Head(todo[q]) \in Planned(req[q]) /\ Has(q, Head(todo[q]).do)
  BY <1>1, ServedByPlan, EarlierIsDone
<1>3. PICK h : h = Head(todo[q])
  OBVIOUS
<1>4. /\ h.do = "render" => req[q].verb = "GET"
      /\ h.do \in {"count", "page"} => req[q].verb = "LIST"
      /\ h.do = "name" => Saves(req[q])
      /\ h.do = "free" => req[q].verb = "POST"
      /\ h.do = "find" => req[q].verb \in {"PATCH", "GET"} \/ (req[q].verb = "PUT" /\ ~mismatched(req[q]))
  BY <1>2, <1>3, PlanTells
<1>5. Has(q, h.do)
  BY <1>2, <1>3
<1>6. Pending(q)
  BY <1>3, <1>4, <1>5 DEF Pending, Keeps, Chain, Saves
<1> QED
  BY <1>6 DEF Keeps, Rows, RowOf, OldRow

LEMMA BeforeKeepsAlone ==
    ASSUME ServerInd, NEW q \in Req, Before(q), Keeps(q), Passed(q)
    PROVE  Keeps(q)' /\ Passed(q)'
<1>1. /\ Active(q) /\ Head(todo[q]).do = "before" /\ Next1(q) /\ ReadsOnly
      /\ role' = role /\ req' = req /\ was' = was
  BY DEF Before, Head1, ReadsOnly, Keep
<1>2. Framed /\ Queued(q)
  BY DEF ServerInd
<1>3. PICK b : local' = [local EXCEPT ![q] = [@ EXCEPT !.before = b]]
  BY DEF Before
<1>4. local'[q].wrote = local[q].wrote /\ local'[q].row = local[q].row
  BY <1>2, <1>3 DEF Framed, Queued
<1> QED
  BY <1>1, <1>4, KeepsReading, PassedLasts

LEMMA FindKeepsAlone ==
    ASSUME ServerInd, NEW q \in Req, Find(q), ~Refuse(q, 404), Keeps(q), Passed(q)
    PROVE  Keeps(q)' /\ Passed(q)'
<1> DEFINE r == req[q].id
<1>1. /\ Active(q) /\ Head(todo[q]).do = "find" /\ Next1(q) /\ ReadsOnly
      /\ RowOf(r) # None \/ (req[q].verb = "PUT" /\ createIfAbsent(req[q]))
      /\ role' = role /\ req' = req /\ was' = was
  BY DEF Find, Head1, ReadsOnly, Keep
<1>2. Framed /\ Queued(q)
  BY DEF ServerInd
<1>3. PICK v : v = RowOf(r) /\ local' = [local EXCEPT ![q] = [@ EXCEPT !.row = v]]
  BY DEF Find
<1>4. local' = [local EXCEPT ![q] = [@ EXCEPT !.row = v]]
  BY <1>3
<1>5. local'[q].wrote = local[q].wrote /\ local'[q].row = v
  BY <1>2, <1>4 DEF Framed, Queued
<1>6. Serving(q) /\ BodyFits(req[q]) /\ Head(todo[q]) \in Planned(req[q])
  BY <1>1, <1>2, ServedUntilAnswered, ServedByPlan
<1>7. Pending(q) /\ v = OldRow(q) /\ RowOf(r) = OldRow(q)
  BY <1>1, <1>3, <1>6, StillPending
<1>8. Keeps(q)'
  BY <1>1, <1>5, <1>7, KeepsReading
<1>9. req[q].verb \in {"PATCH", "GET"} \/ (req[q].verb = "PUT" /\ ~mismatched(req[q]))
  BY <1>1, <1>6, PlanTells
<1>10. Saves(req[q]) => Has(q, "name")'
  <2>1. Has(q, "find") /\ (Has(q, "name")' <=> Has(q, "name"))
    BY <1>1, <1>2, NextLeaves, EarlierIsDone
  <2> QED
    BY <2>1 DEF Keeps, Chain
<1>11. /\ (Saves(req[q])' <=> Saves(req[q])) /\ OldRow(q)' = OldRow(q)
       /\ (createIfAbsent(req[q])' <=> createIfAbsent(req[q]))
  BY <1>1, Stays, WasLasts
<1>12. Passed(q)'
  BY <1>1, <1>5, <1>7, <1>9, <1>10, <1>11 DEF Passed
<1> QED
  BY <1>8, <1>12

(* Where no other row has the name, it is not taken. *)
LEMMA NameIsFree ==
    ASSUME ServerInd, NEW q \in Req, Serving(q), Keeps(q), Head(todo[q]).do \in {"name", "save"},
           Holders(req[q].id, Wanted(q)) \ {req[q].id} = {}
    PROVE  ~Taken(q)
<1>1. users = OldUsers(q) /\ groups = OldGroups(q)
  BY StillPending
<1> QED
  BY <1>1 DEF Taken, Holders

LEMMA CheckNameKeepsAlone ==
    ASSUME ServerInd, NEW q \in Req, CheckName(q), ~Refuse(q, 400), ~Refuse(q, 409), Keeps(q), Passed(q)
    PROVE  Keeps(q)' /\ Passed(q)'
<1>1. /\ Active(q) /\ Head(todo[q]).do = "name" /\ Next1(q) /\ ReadsOnly /\ local' = local
      /\ Holders(req[q].id, Wanted(q)) \ {req[q].id} = {}
      /\ role' = role /\ req' = req /\ was' = was
  BY DEF CheckName, Head1, ReadsOnly, Keep
<1>2. Framed /\ Queued(q)
  BY DEF ServerInd
<1>3. Serving(q) /\ BodyFits(req[q]) /\ Head(todo[q]) \in Planned(req[q])
  BY <1>1, <1>2, ServedUntilAnswered, ServedByPlan
<1>4. Keeps(q)'
  BY <1>1, KeepsReading
<1>5. ~Taken(q) /\ Saves(req[q])
  BY <1>1, <1>3, NameIsFree, PlanTells
<1>6. /\ (Saves(req[q])' <=> Saves(req[q])) /\ (mismatched(req[q])' <=> mismatched(req[q]))
      /\ (createIfAbsent(req[q])' <=> createIfAbsent(req[q])) /\ OldRow(q)' = OldRow(q)
      /\ OldUsers(q)' = OldUsers(q) /\ OldGroups(q)' = OldGroups(q) /\ Wanted(q)' = Wanted(q)
  BY <1>1, Stays, WasLasts DEF Wanted
<1>7. (Has(q, "find")' <=> Has(q, "find")) /\ (Has(q, "free")' <=> Has(q, "free"))
  BY <1>1, <1>2, NextLeaves
<1>8. ~Taken(q)'
  BY <1>1, <1>5, <1>6 DEF Taken
<1>9. req'[q].verb # "LIST"
  BY <1>1, <1>5 DEF Saves
<1>10. Passed(q)'
  BY <1>1, <1>6, <1>7, <1>8, <1>9 DEF Passed
<1> QED
  BY <1>4, <1>10

LEMMA CheckFreeKeepsAlone ==
    ASSUME ServerInd, NEW q \in Req, CheckFree(q), ~Refuse(q, 409), Keeps(q), Passed(q)
    PROVE  Keeps(q)' /\ Passed(q)'
<1>1. /\ Active(q) /\ Head(todo[q]).do = "free" /\ Next1(q) /\ ReadsOnly /\ local' = local
      /\ RowOf(req[q].id) = None
      /\ role' = role /\ req' = req /\ was' = was
  BY DEF CheckFree, Head1, ReadsOnly, Keep
<1>2. Framed /\ Queued(q)
  BY DEF ServerInd
<1>3. Serving(q) /\ BodyFits(req[q]) /\ Head(todo[q]) \in Planned(req[q])
  BY <1>1, <1>2, ServedUntilAnswered, ServedByPlan
<1>4. Keeps(q)'
  BY <1>1, KeepsReading
<1>5. OldRow(q) = None /\ req[q].verb = "POST"
  BY <1>1, <1>3, StillPending, PlanTells
<1>6. /\ OldRow(q)' = OldRow(q) /\ (Saves(req[q])' <=> Saves(req[q]))
      /\ OldUsers(q)' = OldUsers(q) /\ OldGroups(q)' = OldGroups(q) /\ Wanted(q)' = Wanted(q)
  BY <1>1, Stays, WasLasts DEF Wanted
<1>7. (Has(q, "name")' <=> Has(q, "name"))
  BY <1>1, <1>2, NextLeaves
<1>8. Taken(q)' <=> Taken(q)
  BY <1>1, <1>6 DEF Taken
<1>10. Passed(q)'
  BY <1>1, <1>5, <1>6, <1>7, <1>8 DEF Passed
<1> QED
  BY <1>4, <1>10

LEMMA CountKeepsAlone ==
    ASSUME ServerInd, NEW q \in Req, Count(q), Keeps(q), Passed(q)
    PROVE  Keeps(q)' /\ Passed(q)'
<1>1. /\ Active(q) /\ Head(todo[q]).do = "count" /\ Next1(q) /\ ReadsOnly
      /\ role' = role /\ req' = req /\ was' = was
  BY DEF Count, Head1, ReadsOnly, Keep
<1>2. Framed /\ Queued(q)
  BY DEF ServerInd
<1>3. PICK n : n = Cardinality(Matching(req[q], users, groups))
               /\ local' = [local EXCEPT ![q] = [@ EXCEPT !.row = n]]
  BY DEF Count
<1>4. local' = [local EXCEPT ![q] = [@ EXCEPT !.row = n]]
  BY <1>3
<1>5. local'[q].wrote = local[q].wrote /\ local'[q].row = n
  BY <1>2, <1>4 DEF Framed, Queued
<1>6. Serving(q) /\ BodyFits(req[q]) /\ Head(todo[q]) \in Planned(req[q])
  BY <1>1, <1>2, ServedUntilAnswered, ServedByPlan
<1>7. Pending(q) /\ users = OldUsers(q) /\ groups = OldGroups(q) /\ req[q].verb = "LIST"
  BY <1>1, <1>6, StillPending, PlanTells
<1>8. Keeps(q)'
  BY <1>1, <1>5, <1>7, KeepsReading
<1>9. OldUsers(q)' = OldUsers(q) /\ OldGroups(q)' = OldGroups(q)
  BY <1>1, WasLasts
<1>10. n = Cardinality(Matching(req[q], OldUsers(q), OldGroups(q)))
  BY <1>3, <1>7
<1>11. n = Cardinality(Matching(req[q], OldUsers(q), OldGroups(q)))'
  BY <1>1, <1>9, <1>10 DEF Matching
<1>12. Passed(q)'
  BY <1>1, <1>5, <1>7, <1>11 DEF Passed, Saves
<1> QED
  BY <1>8, <1>12

LEMMA SaveKeepsAlone ==
    ASSUME ServerInd, NEW q \in Req, Save(q), ~Refuse(q, 500), Keeps(q), Passed(q)
    PROVE  Keeps(q)' /\ Passed(q)'
<1> DEFINE r == req[q].id
<1>1. /\ Active(q) /\ Head(todo[q]).do = "save" /\ Next1(q)
      /\ IF r \in Users
         THEN users' = [users EXCEPT ![r] = NewUser(q)] /\ groups' = groups
         ELSE groups' = [groups EXCEPT ![r] = Wanted(q)] /\ users' = users
      /\ local' = [local EXCEPT ![q] = [@ EXCEPT !.wrote = TRUE]]
      /\ members' = members /\ role' = role /\ req' = req /\ was' = was
  BY DEF Save, Head1, Keep, Writes
<1>2. Framed /\ Queued(q)
  BY DEF ServerInd
<1>3. local'[q].wrote /\ local'[q].row = local[q].row
  BY <1>1, <1>2 DEF Framed, Queued
<1>4. Serving(q) /\ BodyFits(req[q]) /\ Head(todo[q]) \in Planned(req[q])
      /\ \A s \in Left(q) : s \in Planned(req[q])
  BY <1>1, <1>2, ServedUntilAnswered, ServedByPlan
<1>5. users = OldUsers(q) /\ groups = OldGroups(q) /\ Saves(req[q])
  BY <1>1, <1>4, StillPending, PlanTells
<1>6. /\ OldUsers(q)' = OldUsers(q) /\ OldGroups(q)' = OldGroups(q)
      /\ WasFits(q)' /\ Meant(req[q], OldMembers(q))' = Meant(req[q], OldMembers(q))
  BY <1>1, WasLasts DEF Keeps
<1>7. Chain(q)'
  BY <1>1, ChainLasts DEF Keeps
<1>8. Ends(q)' = Ends(q)
  BY <1>1, EndsLast
<1>9. NewUser(q)' = NewUser(q) /\ Wanted(q)' = Wanted(q)
  BY <1>1, <1>3 DEF NewUser, Wanted
<1>10. ~Pending(q)'
  <2>1. ~Has(q, "save")'
    BY <1>1, <1>2, NextLeaves DEF Listing
  <2>2. ~Has(q, "bad")
    BY <1>1, <1>2, EarlierIsDone, Ranks, Whats
  <2>3. ~Has(q, "erase")
    BY <1>4, <1>5, PlanTells DEF Has, Saves
  <2>4. ~Has(q, "bad")' /\ ~Has(q, "erase")'
    BY <1>1, <1>2, <2>2, <2>3, NextLeaves
  <2> QED
    BY <1>1, <1>5, <2>1, <2>4 DEF Pending, Saves
<1>11. req[q].verb # "DELETE"
  BY <1>5 DEF Saves
<1>12. Rows(q)'
  BY <1>1, <1>5, <1>6, <1>9, <1>10, <1>11 DEF Rows, Put
<1>13. Keeps(q)'
  BY <1>1, <1>3, <1>6, <1>7, <1>8, <1>12 DEF Keeps
<1>14. Passed(q)'
  BY <1>1, <1>3, PassedLasts
<1> QED
  BY <1>13, <1>14

LEMMA EraseKeepsAlone ==
    ASSUME ServerInd, NEW q \in Req, Erase(q), ~Refuse(q, 404), Keeps(q), Passed(q)
    PROVE  Keeps(q)' /\ Passed(q)'
<1> DEFINE r == req[q].id
<1>1. /\ Active(q) /\ Head(todo[q]).do = "erase" /\ Next1(q) /\ RowOf(r) # None
      /\ IF r \in Users THEN users' = [users EXCEPT ![r] = None] /\ groups' = groups
         ELSE groups' = [groups EXCEPT ![r] = None] /\ users' = users
      /\ local' = [local EXCEPT ![q] = [@ EXCEPT !.wrote = TRUE]]
      /\ members' = members /\ role' = role /\ req' = req /\ was' = was
  BY DEF Erase, Head1, Keep, Writes
<1>2. Framed /\ Queued(q)
  BY DEF ServerInd
<1>3. local'[q].wrote /\ local'[q].row = local[q].row
  BY <1>1, <1>2 DEF Framed, Queued
<1>4. Serving(q) /\ BodyFits(req[q]) /\ Head(todo[q]) \in Planned(req[q])
      /\ \A s \in Left(q) : s \in Planned(req[q])
  BY <1>1, <1>2, ServedUntilAnswered, ServedByPlan
<1>5. users = OldUsers(q) /\ groups = OldGroups(q) /\ req[q].verb = "DELETE" /\ OldRow(q) # None
  BY <1>1, <1>4, StillPending, PlanTells
<1>6. /\ OldUsers(q)' = OldUsers(q) /\ OldGroups(q)' = OldGroups(q) /\ OldRow(q)' = OldRow(q)
      /\ WasFits(q)' /\ Meant(req[q], OldMembers(q))' = Meant(req[q], OldMembers(q))
  BY <1>1, WasLasts DEF Keeps
<1>7. Chain(q)'
  BY <1>1, ChainLasts DEF Keeps
<1>8. Ends(q)' = Ends(q)
  BY <1>1, EndsLast
<1>10. ~Pending(q)'
  <2>1. ~Has(q, "erase")'
    BY <1>1, <1>2, NextLeaves DEF Listing
  <2>2. ~Has(q, "bad")
    BY <1>1, <1>2, EarlierIsDone, Ranks, Whats
  <2>3. ~Has(q, "save")
    BY <1>4, <1>5, PlanTells DEF Has, Saves
  <2>4. ~Has(q, "bad")' /\ ~Has(q, "save")'
    BY <1>1, <1>2, <2>2, <2>3, NextLeaves
  <2> QED
    BY <1>1, <1>5, <2>1, <2>4 DEF Pending
<1>12. Rows(q)'
  BY <1>1, <1>5, <1>6, <1>10 DEF Rows, Put
<1>13. Keeps(q)'
  BY <1>1, <1>3, <1>6, <1>7, <1>8, <1>12 DEF Keeps
<1>14. Passed(q)'
  BY <1>1, <1>3, PassedLasts
<1> QED
  BY <1>13, <1>14

LEMMA WriteMembersKeepsAlone ==
    ASSUME ServerInd, NEW q \in Req, WriteMembers(q), Keeps(q), Passed(q)
    PROVE  Keeps(q)' /\ Passed(q)'
<1>1. /\ Active(q) /\ Head(todo[q]).do \in {"clear", "leave", "add", "drop"} /\ Next1(q)
      /\ users' = users /\ groups' = groups /\ role' = role /\ req' = req /\ was' = was
  BY DEF WriteMembers, Keep
<1>2. Framed /\ Queued(q)
  BY DEF ServerInd
<1>3. PICK w \in BOOLEAN : w = (local[q].wrote \/ members' # members)
  OBVIOUS
<1>4. local' = [local EXCEPT ![q] = [@ EXCEPT !.wrote = w]]
  BY <1>3 DEF WriteMembers
<1>5. local'[q].wrote = w /\ local'[q].row = local[q].row
  BY <1>2, <1>4 DEF Framed, Queued
<1>6. WasFits(q)' /\ Meant(req[q], OldMembers(q))' = Meant(req[q], OldMembers(q))
  BY <1>1, WasLasts DEF Keeps
<1>7. Chain(q)'
  BY <1>1, ChainLasts DEF Keeps
<1>8. Rows(q)'
  BY <1>1, <1>5, RowsLast DEF Keeps
<1>9. Ends(q)' = Ends(q)
  BY EditEnds
<1>10. ~local'[q].wrote => <<users, groups, members>>' = was'[q]
  BY <1>1, <1>3, <1>5 DEF Keeps
<1>11. Keeps(q)'
  BY <1>6, <1>7, <1>8, <1>9, <1>10 DEF Keeps
<1>12. Passed(q)'
  BY <1>1, <1>5, PassedLasts
<1> QED
  BY <1>11, <1>12

LEMMA ReceiveStartsAlone ==
    ASSUME ServerInd, NEW q \in Req, NEW r \in Res, NEW rq \in Bodies(r), Receive(q, rq)
    PROVE  Keeps(q)' /\ Passed(q)'
<1>1. /\ req' = [req EXCEPT ![q] = rq] /\ todo' = [todo EXCEPT ![q] = Statements(rq)]
      /\ local' = [local EXCEPT ![q] = NoLocal]
      /\ was' = [was EXCEPT ![q] = <<users, groups, members>>]
      /\ users' = users /\ groups' = groups /\ members' = members /\ role' = role
      /\ Sendable(rq)
  BY DEF Receive, rows
<1>2. Framed /\ Tables
  BY DEF ServerInd
<1>3. BodyFits(rq) /\ rq.id \in Res
  BY BodiesFit DEF BodyFits
<1>4. Range(Statements(rq)) = Planned(rq)
  BY <1>3, StatementsArePlanned
<1>5. req'[q] = rq /\ todo'[q] = Statements(rq) /\ local'[q] = NoLocal /\ was'[q] = <<users, groups, members>>
  <2>1. req'[q] = rq /\ todo'[q] = Statements(rq)
    BY <1>1, <1>2 DEF Framed
  <2>2. local'[q] = NoLocal /\ was'[q] = <<users, groups, members>>
    BY <1>1, <1>2 DEF Framed
  <2> QED
    BY <2>1, <2>2
<1>6. Left(q)' = Planned(rq)
  BY <1>4, <1>5 DEF Left
<1>7. \A what : Has(q, what)' <=> \E x \in Planned(rq) : x.do = what
  BY <1>6 DEF Has
<1>8. OldUsers(q)' = users /\ OldGroups(q)' = groups /\ OldMembers(q)' = members
      /\ OldRow(q)' = RowOf(rq.id) /\ WasFits(q)'
  <2>1. OldUsers(q)' = users /\ OldGroups(q)' = groups /\ OldMembers(q)' = members
    BY <1>5 DEF OldUsers, OldGroups, OldMembers
  <2> QED
    BY <1>2, <1>5, <2>1 DEF OldRow, RowOf, WasFits, Tables
<1>9. /\ (Saves(req[q])' <=> Saves(rq)) /\ (mismatched(req[q])' <=> mismatched(rq))
      /\ (adopts(rq)' <=> adopts(rq))
  BY <1>1, <1>5 DEF Saves, mismatched, adopts
<1>10. /\ Saves(rq) => Do("save") \in Planned(rq) /\ Do("name") \in Planned(rq)
       /\ rq.verb = "DELETE" => Do("erase") \in Planned(rq)
       /\ rq.verb = "PUT" /\ mismatched(rq) => Do("bad") \in Planned(rq)
       /\ rq.verb = "POST" /\ adopts(rq) => Do("free") \in Planned(rq)
       /\ rq.verb \in {"PATCH", "GET"} \/ (rq.verb = "PUT" /\ ~mismatched(rq)) => Do("find") \in Planned(rq)
       /\ rq.verb = "LIST" => Do("count") \in Planned(rq)
  <2>1. CASE rq.verb = "POST"
    BY <2>1 DEF Planned, Saves, Only
  <2>2. CASE rq.verb = "PUT"
    BY <2>2 DEF Planned, Saves
  <2>3. CASE rq.verb = "PATCH"
    BY <2>3 DEF Planned, Saves
  <2>4. CASE rq.verb = "DELETE"
    BY <2>4 DEF Planned, Saves
  <2>5. CASE rq.verb = "GET"
    BY <2>5 DEF Planned, Saves
  <2>6. CASE rq.verb = "LIST"
    BY <2>6 DEF Planned, Saves
  <2> QED
    BY <1>3, <2>1, <2>2, <2>3, <2>4, <2>5, <2>6 DEF BodyFits
<1>11. \A what : Do(what).do = what
  BY DEF Do
<1>12. Pending(q)'
  BY <1>3, <1>5, <1>7, <1>10, <1>11 DEF Pending, BodyFits, Saves
<1>13. Rows(q)'
  BY <1>1, <1>8, <1>12 DEF Rows
<1>14. Chain(q)'
  BY <1>5, <1>7, <1>9, <1>10, <1>11 DEF Chain, NoLocal
<1>15. Ends(q)' = Meant(req[q], OldMembers(q))'
  <2>1. Ends(q)' = EndsOf(rq.id, members, Planned(rq))
    BY <1>1, <1>5, <1>6 DEF Ends
  <2>2. EndsOf(rq.id, members, Planned(rq)) = Meant(rq, members)
    BY <1>2, <1>3, PlanEnds DEF Tables
  <2>3. Meant(req[q], OldMembers(q))' = Meant(rq, members)
    BY <1>1, <1>5, <1>8 DEF Meant, Saves, mismatched
  <2> QED
    BY <2>1, <2>2, <2>3
<1>16. Keeps(q)'
  BY <1>1, <1>5, <1>8, <1>13, <1>14, <1>15 DEF Keeps
<1>17. rq.verb = "POST" /\ ~adopts(rq) => RowOf(rq.id) = None
  BY <1>1, <1>2, <1>3 DEF Sendable, Tables
<1>18. Passed(q)'
  BY <1>5, <1>7, <1>8, <1>9, <1>10, <1>11, <1>17 DEF Passed
<1> QED
  BY <1>16, <1>18

(* A statement is of an active request, and touches no other's. *)
LEMMA StatementIsOnes ==
    ASSUME ServerInd, NEW p \in Req, Statement(p)
    PROVE  /\ Active(p) /\ Keep
           /\ \A x \in Req \ {p} : todo'[x] = todo[x] /\ answer'[x] = answer[x]
<1>1. Framed
  BY DEF ServerInd
<1>2. Active(p) /\ Keep
  <2>1. CASE Before(p) \/ Find(p) \/ Count(p) \/ CheckName(p) \/ CheckFree(p) \/ Unsupported(p)
    BY <2>1 DEF Before, Find, Count, CheckName, CheckFree, Unsupported, Head1, ReadsOnly, Refuse
  <2>2. CASE Render(p) \/ Page(p) \/ Reply(p) \/ TellRow(p) \/ TellMember(p)
    BY <2>2 DEF Render, Page, Answered, Reply, TellRow, TellMember, Head1
  <2>3. CASE Save(p) \/ WriteMembers(p) \/ Erase(p)
    BY <2>3 DEF Save, WriteMembers, Erase, Refuse, Head1
  <2> QED
    BY <2>1, <2>2, <2>3 DEF Statement
<1>3. \E s : todo' = [todo EXCEPT ![p] = s]
  <2>1. Next1(p) \/ (\E status : Refuse(p, status)) \/ Reply(p)
    <3>1. CASE Before(p) \/ Find(p) \/ Count(p) \/ CheckName(p) \/ CheckFree(p) \/ Unsupported(p)
      BY <3>1 DEF Before, Find, Count, CheckName, CheckFree, Unsupported
    <3>2. CASE Render(p) \/ Page(p) \/ Reply(p) \/ TellRow(p) \/ TellMember(p)
      BY <3>2 DEF Render, Page, Answered, TellRow, TellMember
    <3>3. CASE Save(p) \/ WriteMembers(p) \/ Erase(p)
      BY <3>3 DEF Save, WriteMembers, Erase
    <3> QED
      BY <3>1, <3>2, <3>3 DEF Statement
  <2> QED
    BY <2>1 DEF Next1, Refuse, Reply
<1>4. answer' = answer \/ \E s : answer' = [answer EXCEPT ![p] = s]
  <2>1. CASE Before(p) \/ Find(p) \/ Count(p) \/ CheckName(p) \/ CheckFree(p) \/ Unsupported(p)
    BY <2>1 DEF Before, Find, Count, CheckName, CheckFree, Unsupported, ReadsOnly, Refuse
  <2>2. CASE Render(p) \/ Page(p) \/ Reply(p) \/ TellRow(p) \/ TellMember(p)
    BY <2>2 DEF Render, Page, Answered, Reply, TellRow, TellMember
  <2>3. CASE Save(p) \/ WriteMembers(p) \/ Erase(p)
    BY <2>3 DEF Save, WriteMembers, Erase, Refuse
  <2> QED
    BY <2>1, <2>2, <2>3 DEF Statement
<1>5. \A x \in Req \ {p} : todo'[x] = todo[x]
  BY <1>1, <1>3 DEF Framed
<1>6. \A x \in Req \ {p} : answer'[x] = answer[x]
  BY <1>1, <1>4 DEF Framed
<1> QED
  BY <1>2, <1>5, <1>6

(* A statement leaves its request served, and alone, as the contract needs; or answers it. *)
LEMMA StatementKeepsAlone ==
    ASSUME ServerInd, NEW q \in Req, Statement(q), Keeps(q), Passed(q), Alone(q)
    PROVE  Serving(q)' => Keeps(q)' /\ Passed(q)'
<1>1. Framed /\ Queued(q) /\ Active(q)
  BY DEF ServerInd, Alone, Serving
<1>2. ASSUME NEW status, Refuse(q, status) PROVE ~Serving(q)'
  <2>1. todo' = [todo EXCEPT ![q] = <<>>]
    BY <1>2 DEF Refuse
  <2>2. todo'[q] = <<>>
    BY <1>1, <2>1 DEF Framed
  <2> QED
    BY <2>2 DEF Serving, Active
<1>3. CASE Before(q)
  BY <1>3, BeforeKeepsAlone
<1>4. CASE Find(q)
  BY <1>2, <1>4, FindKeepsAlone
<1>5. CASE CheckName(q)
  BY <1>2, <1>5, CheckNameKeepsAlone
<1>6. CASE CheckFree(q)
  BY <1>2, <1>6, CheckFreeKeepsAlone
<1>7. CASE Count(q)
  BY <1>7, CountKeepsAlone
<1>8. CASE Save(q)
  BY <1>2, <1>8, SaveKeepsAlone
<1>9. CASE WriteMembers(q)
  BY <1>9, WriteMembersKeepsAlone
<1>10. CASE Erase(q)
  BY <1>2, <1>10, EraseKeepsAlone
<1>11. CASE Unsupported(q)
  BY <1>2, <1>11 DEF Unsupported
<1>12. CASE Render(q) \/ Page(q) \/ Reply(q)
  <2>1. answer' = [answer EXCEPT ![q] = 200]
    BY <1>12 DEF Render, Page, Answered, Reply
  <2>2. answer'[q] = 200
    BY <1>1, <2>1 DEF Framed
  <2> QED
    BY <2>2, NoneAssumption DEF Serving, Status
<1>13. CASE TellRow(q) \/ TellMember(q)
  <2>1. Head(todo[q]).do \in {"row", "joined", "left"}
    BY <1>13 DEF TellRow, TellMember, Head1
  <2>2. BodyFits(req[q]) /\ Head(todo[q]) \in Planned(req[q])
    BY <1>1, ServedByPlan DEF Alone
  <2> QED
    BY <2>1, <2>2, PlanTells
<1> QED
  BY <1>3, <1>4, <1>5, <1>6, <1>7, <1>8, <1>9, <1>10, <1>11, <1>12, <1>13 DEF Statement

LEMMA AloneStarts ==
    ASSUME Init
    PROVE  AloneInv
BY DEF Init, AloneInv, Solo, Alone, Serving, Active

LEMMA AloneStays ==
    ASSUME ServerInd, AloneInv, [Next]_vars
    PROVE  AloneInv'
<1>0. Framed
  BY DEF ServerInd
<1>1. ASSUME NEW p \in Req, Statement(p) PROVE AloneInv'
  <2>1. /\ Active(p) /\ crossed' = crossed /\ blurred' = blurred
        /\ \A x \in Req \ {p} : todo'[x] = todo[x] /\ answer'[x] = answer[x]
    BY <1>1, StatementIsOnes DEF Keep
  <2>2. \A x \in Req : Active(x)' => Active(x)
    BY <2>1 DEF Active
  <2>3. Solo'
    BY <2>1, <2>2 DEF AloneInv, Solo
  <2>4. ASSUME NEW q \in Req, Alone(q)' PROVE Keeps(q)' /\ Passed(q)'
    <3>1. Active(q) /\ ~crossed[q]
      BY <2>1, <2>2, <2>4 DEF Alone, Serving
    <3>2. p = q
      BY <2>1, <3>1 DEF AloneInv, Solo
    <3>3. CASE Serving(q)
      <4>1. Alone(q) /\ Keeps(q) /\ Passed(q)
        BY <3>1, <3>3 DEF Alone, AloneInv
      <4> QED
        BY <1>1, <2>4, <3>2, <4>1, StatementKeepsAlone DEF Alone
    <3>4. CASE ~Serving(q)
      <4>1. answer[q] # None
        BY <3>1, <3>4 DEF Serving
      <4>2. Queued(q) /\ Telling(q)
        BY <3>1, <4>1 DEF ServerInd, Telling
      <4>3. Head(todo[q]).do \in {"row", "joined", "left"}
        BY <3>1, <4>2, EarlierIsDone DEF Queued
      <4>4. TellRow(q) \/ TellMember(q)
        <5>1. ~(Before(q) \/ Find(q) \/ Render(q) \/ Count(q) \/ Page(q) \/ CheckName(q) \/ CheckFree(q))
          BY <4>3 DEF Before, Find, Render, Count, Page, CheckName, CheckFree, Head1
        <5>2. ~(Unsupported(q) \/ Save(q) \/ WriteMembers(q) \/ Erase(q) \/ Reply(q))
          BY <4>3 DEF Unsupported, Save, WriteMembers, Erase, Reply, Head1
        <5> QED
          BY <1>1, <3>2, <5>1, <5>2 DEF Statement
      <4>5. answer' = answer
        BY <4>4 DEF TellRow, TellMember
      <4> QED
        BY <2>4, <4>1, <4>5 DEF Alone, Serving
    <3> QED
      BY <3>3, <3>4
  <2> QED
    BY <2>3, <2>4 DEF AloneInv
<1>2. ASSUME NEW p \in Req, NEW r \in Res, NEW rq \in Bodies(r), Receive(p, rq) PROVE AloneInv'
  <2>1. PICK beside : /\ beside = {x \in Req \ {p} : Active(x)}
                      /\ crossed' = [x \in Req |-> IF x = p THEN beside # {} ELSE crossed[x] \/ x \in beside]
                      /\ blurred' = (blurred \/ beside # {})
    BY <1>2 DEF Receive
  <2>2. ~Active(p) /\ todo' = [todo EXCEPT ![p] = Statements(rq)]
    BY <1>2 DEF Receive
  <2>3. \A x \in Req \ {p} : todo'[x] = todo[x] /\ (Active(x)' <=> Active(x))
    BY <1>0, <2>2 DEF Framed, Active
  <2>4. ASSUME NEW q \in Req, Active(q)', ~crossed'[q]
        PROVE  q = p /\ beside = {}
    <3>1. CASE q = p
      BY <2>1, <2>4, <3>1
    <3>2. CASE q # p
      BY <2>1, <2>3, <2>4, <3>2
    <3> QED
      BY <3>1, <3>2
  <2>5. Solo'
    <3>1. ASSUME NEW x \in Req, NEW q \in Req, Active(q)', ~crossed'[q], Active(x)'
          PROVE  x = q
      BY <2>1, <2>3, <2>4, <3>1
    <3>2. ASSUME ~blurred', NEW q \in Req, Active(q)' PROVE ~crossed'[q]
      BY <2>1, <2>3, <3>2
    <3> QED
      BY <3>1, <3>2 DEF Solo
  <2>6. ASSUME NEW q \in Req, Alone(q)' PROVE Keeps(q)' /\ Passed(q)'
    <3>1. q = p
      BY <2>4, <2>6 DEF Alone, Serving
    <3> QED
      BY <1>2, <3>1, ReceiveStartsAlone
  <2> QED
    BY <2>5, <2>6 DEF AloneInv
<1>3. CASE UNCHANGED vars
  <2>1. /\ role' = role /\ users' = users /\ groups' = groups /\ members' = members /\ todo' = todo
        /\ req' = req /\ local' = local /\ answer' = answer /\ told' = told /\ used' = used
        /\ was' = was /\ crossed' = crossed /\ torn' = torn /\ blurred' = blurred
    BY <1>3 DEF vars, rows, client, history
  <2>2. Solo'
    BY <2>1 DEF AloneInv, Solo, Active
  <2>3. ASSUME NEW q \in Req, Alone(q)' PROVE Keeps(q)' /\ Passed(q)'
    <3>1. Alone(q)
      BY <2>1, <2>3 DEF Alone, Serving, Active
    <3>2. Keeps(q) /\ Passed(q)
      BY <3>1 DEF AloneInv
    <3>3. Left(q)' = Left(q) /\ \A what : Has(q, what)' <=> Has(q, what)
      BY <2>1 DEF Left, Has
    <3>4. /\ (Saves(req[q])' <=> Saves(req[q])) /\ (mismatched(req[q])' <=> mismatched(req[q]))
          /\ (createIfAbsent(req[q])' <=> createIfAbsent(req[q]))
          /\ (WasFits(q)' <=> WasFits(q)) /\ OldRow(q)' = OldRow(q)
          /\ OldUsers(q)' = OldUsers(q) /\ OldGroups(q)' = OldGroups(q)
          /\ Meant(req[q], OldMembers(q))' = Meant(req[q], OldMembers(q))
      BY <2>1, Stays, WasLasts
    <3>5. Wanted(q)' = Wanted(q) /\ NewUser(q)' = NewUser(q) /\ Ends(q)' = Ends(q) /\ (Pending(q)' <=> Pending(q))
      BY <2>1, <3>3 DEF Wanted, NewUser, Ends, Pending
    <3>6. (Taken(q)' <=> Taken(q)) /\ (Rows(q)' <=> Rows(q)) /\ (Chain(q)' <=> Chain(q))
      BY <2>1, <3>3, <3>4, <3>5 DEF Taken, Rows, Put, Chain
    <3>7. Matching(req[q], OldUsers(q), OldGroups(q))' = Matching(req[q], OldUsers(q), OldGroups(q))
      BY <2>1, <3>4 DEF Matching
    <3>8. Keeps(q)'
      BY <2>1, <3>2, <3>4, <3>5, <3>6 DEF Keeps
    <3>9. Passed(q)'
      BY <2>1, <3>2, <3>3, <3>4, <3>6, <3>7 DEF Passed
    <3> QED
      BY <3>8, <3>9
  <2> QED
    BY <2>2, <2>3 DEF AloneInv
<1> QED
  BY <1>1, <1>2, <1>3, NextIsAStep DEF Step

(* A request nothing runs beside sees the tables it met, changes its own row and
   memberships only, and knows how far it has come. *)
THEOREM AloneInvariant == Spec => []AloneInv
<1>1. Init => AloneInv
  BY AloneStarts
<1>2. ServerInd /\ AloneInv /\ [Next]_vars => AloneInv'
  BY AloneStays
<1> QED
  BY <1>1, <1>2, ServerInvariant, PTL DEF Spec

----------------------------------------------------------------------------
(* The contract, part by part *)

RowIn(us, gs, rq) == IF rq.id \in Users THEN us[rq.id] ELSE gs[rq.id]
NameIn(us, gs, rq) ==
    IF rq.verb = "PATCH" /\ rq.name = None
    THEN IF rq.id \in Users THEN RowIn(us, gs, rq).name ELSE RowIn(us, gs, rq) ELSE rq.name
TakenIn(us, gs, rq) ==
    IF rq.id \in Users THEN \E u \in Users \ {rq.id} : us[u] # None /\ us[u].name = NameIn(us, gs, rq)
    ELSE \E g \in Groups \ {rq.id} : gs[g] = NameIn(us, gs, rq)
ActiveIn(us, gs, rq) == IF rq.active = None THEN RowIn(us, gs, rq).active ELSE rq.active
SavedIn(us, gs, rq) ==
    IF rq.id \in Users
    THEN [us EXCEPT ![rq.id] = [name |-> NameIn(us, gs, rq), active |-> ActiveIn(us, gs, rq)]] ELSE us
NamedIn(us, gs, rq) == IF rq.id \in Users THEN gs ELSE [gs EXCEPT ![rq.id] = NameIn(us, gs, rq)]
ListedIn(es, rq) ==
    CASE rq.verb \in {"POST", "PUT"} \/ rq.op = "replace" -> rq.who
      [] rq.op = "add" -> {u \in Users : <<rq.id, u>> \in es} \cup rq.who
      [] rq.op = "remove" -> {u \in Users : <<rq.id, u>> \in es} \ rq.who
      [] OTHER -> {u \in Users : <<rq.id, u>> \in es}
EdgesIn(es, rq) ==
    IF rq.id \in Users THEN es ELSE {e \in es : e[1] # rq.id} \cup ({rq.id} \X ListedIn(es, rq))
GoneIn(es, rq) == {e \in es : rq.id \notin {e[1], e[2]}}
MissingIn(us, gs, rq) ==
    RowIn(us, gs, rq) = None /\ rq.verb # "POST" /\ ~(rq.verb = "PUT" /\ createIfAbsent(rq))

ContractIn(us, gs, es, rq, old) ==
    IF rq.verb = "LIST" THEN [status |-> 200, rows |-> old]
    ELSE IF rq.verb = "DELETE" THEN
        IF RowIn(us, gs, rq) = None THEN [status |-> 404, rows |-> <<us, gs, GoneIn(es, rq)>>]
        ELSE [status |-> 200, rows |-> IF rq.id \in Users THEN <<[us EXCEPT ![rq.id] = None], gs, GoneIn(es, rq)>>
                                       ELSE <<us, [gs EXCEPT ![rq.id] = None], GoneIn(es, rq)>>]
    ELSE IF rq.verb = "PUT" /\ mismatched(rq) THEN [status |-> 400, rows |-> old]
    ELSE IF MissingIn(us, gs, rq) THEN [status |-> 404, rows |-> old]
    ELSE IF rq.verb = "GET" THEN [status |-> 200, rows |-> old]
    ELSE IF rq.bad \/ NameIn(us, gs, rq) = None THEN [status |-> 400, rows |-> old]
    ELSE IF TakenIn(us, gs, rq) \/ (rq.verb = "POST" /\ RowIn(us, gs, rq) # None) THEN [status |-> 409, rows |-> old]
    ELSE [status |-> 200, rows |-> <<SavedIn(us, gs, rq), NamedIn(us, gs, rq), EdgesIn(es, rq)>>]

LEMMA ContractSays ==
    ASSUME NEW us, NEW gs, NEW es, NEW rq, NEW old, old = <<us, gs, es>>
    PROVE  Contract(old, rq) = ContractIn(us, gs, es, rq, old)
<1>1. old[1] = us /\ old[2] = gs /\ old[3] = es
  OBVIOUS
<1> QED
  BY <1>1 DEF Contract, RowIn, NameIn, TakenIn, ActiveIn, SavedIn, NamedIn, ListedIn, EdgesIn, GoneIn, MissingIn, ContractIn

(* What the contract says of a request that is alone, in terms of the tables it met. *)
LEMMA SaidOfWas ==
    ASSUME NEW q \in Req, Keeps(q)
    PROVE  LET rq == req[q]  us == OldUsers(q)  gs == OldGroups(q)  es == OldMembers(q) IN
           /\ was[q] = <<us, gs, es>>
           /\ RowIn(us, gs, rq) = OldRow(q)
           /\ Contract(was[q], rq) =
                IF rq.verb = "LIST" THEN [status |-> 200, rows |-> was[q]]
                ELSE IF rq.verb = "DELETE" THEN
                    IF OldRow(q) = None THEN [status |-> 404, rows |-> <<us, gs, GoneIn(es, rq)>>]
                    ELSE [status |-> 200,
                          rows |-> IF rq.id \in Users THEN <<[us EXCEPT ![rq.id] = None], gs, GoneIn(es, rq)>>
                                   ELSE <<us, [gs EXCEPT ![rq.id] = None], GoneIn(es, rq)>>]
                ELSE IF rq.verb = "PUT" /\ mismatched(rq) THEN [status |-> 400, rows |-> was[q]]
                ELSE IF MissingIn(us, gs, rq) THEN [status |-> 404, rows |-> was[q]]
                ELSE IF rq.verb = "GET" THEN [status |-> 200, rows |-> was[q]]
                ELSE IF rq.bad \/ NameIn(us, gs, rq) = None THEN [status |-> 400, rows |-> was[q]]
                ELSE IF TakenIn(us, gs, rq) \/ (rq.verb = "POST" /\ OldRow(q) # None)
                     THEN [status |-> 409, rows |-> was[q]]
                ELSE [status |-> 200, rows |-> <<SavedIn(us, gs, rq), NamedIn(us, gs, rq), EdgesIn(es, rq)>>]
<1>1. was[q] = <<OldUsers(q), OldGroups(q), OldMembers(q)>>
  BY DEF Keeps, WasFits, OldUsers, OldGroups, OldMembers
<1>2. RowIn(OldUsers(q), OldGroups(q), req[q]) = OldRow(q)
  BY DEF RowIn, OldRow
<1>3. Contract(was[q], req[q]) = ContractIn(OldUsers(q), OldGroups(q), OldMembers(q), req[q], was[q])
  BY <1>1, ContractSays
<1> QED
  BY <1>1, <1>2, <1>3 DEF ContractIn

(* Past the look-up the row is there, or may be made; the name is the contract's. *)
LEMMA PastTheFind ==
    ASSUME ServerInd, NEW q \in Req, Serving(q), Keeps(q), Passed(q),
           Head(todo[q]).do \in {"bad", "name", "free", "save", "render", "reply"},
           req[q].verb \notin {"LIST", "DELETE"}, ~(req[q].verb = "PUT" /\ mismatched(req[q]))
    PROVE  LET rq == req[q]  us == OldUsers(q)  gs == OldGroups(q) IN
           /\ ~MissingIn(us, gs, rq)
           /\ rq.verb \in {"PATCH", "GET"} => local[q].row = OldRow(q) /\ OldRow(q) # None
           /\ NameIn(us, gs, rq) = Wanted(q)
           /\ TakenIn(us, gs, rq) <=> Taken(q)
<1>1. Queued(q) /\ Active(q)
  BY DEF ServerInd, Serving
<1>2. BodyFits(req[q])
  BY <1>1 DEF Queued
<1>3. ~Has(q, "find")
  BY <1>1, EarlierIsDone, Ranks, Whats
<1>4. /\ req[q].verb \in {"PATCH", "GET"} \/ (req[q].verb = "PUT" /\ ~mismatched(req[q])) =>
           /\ local[q].row = OldRow(q)
           /\ OldRow(q) # None \/ (req[q].verb = "PUT" /\ createIfAbsent(req[q]))
  BY <1>3 DEF Passed
<1>5. RowIn(OldUsers(q), OldGroups(q), req[q]) = OldRow(q)
  BY DEF RowIn, OldRow
<1>6. ~MissingIn(OldUsers(q), OldGroups(q), req[q])
  BY <1>2, <1>4, <1>5 DEF MissingIn, BodyFits
<1>7. NameIn(OldUsers(q), OldGroups(q), req[q]) = Wanted(q)
  BY <1>4, <1>5 DEF NameIn, Wanted
<1>8. TakenIn(OldUsers(q), OldGroups(q), req[q]) <=> Taken(q)
  BY <1>7 DEF TakenIn, Taken
<1> QED
  BY <1>4, <1>6, <1>7, <1>8

LEMMA RefusalLeaves ==
    ASSUME ServerInd, NEW q \in Req, Keeps(q), NEW status, Refuse(q, status), ~torn'
    PROVE  answer'[q] = status /\ <<users', groups', members'>> = was[q]
<1>1. Framed
  BY DEF ServerInd
<1>2. answer' = [answer EXCEPT ![q] = status] /\ torn' = (torn \/ local[q].wrote)
      /\ users' = users /\ groups' = groups /\ members' = members
  BY DEF Refuse, rows
<1>3. answer'[q] = status
  BY <1>1, <1>2 DEF Framed
<1>4. ~local[q].wrote
  BY <1>2
<1> QED
  BY <1>2, <1>3, <1>4 DEF Keeps

(* A request alone is answered as the contract says, and leaves what it says. *)
Honoured(q, status, us, gs, es) ==
    LET said == Contract(was[q], req[q]) IN status = said.status /\ <<us, gs, es>> = said.rows

LEMMA HonouredAs ==
    ASSUME NEW q \in Req, NEW status, NEW us, NEW gs, NEW es, NEW t,
           Contract(was[q], req[q]) = [status |-> status, rows |-> t], <<us, gs, es>> = t
    PROVE  Honoured(q, status, us, gs, es)
BY DEF Honoured

LEMMA FindHonours ==
    ASSUME ServerInd, NEW q \in Req, Serving(q), Keeps(q), Find(q), Refuse(q, 404), ~torn',
           RowOf(req[q].id) = None, ~(req[q].verb = "PUT" /\ createIfAbsent(req[q]))
    PROVE  Honoured(q, 404, users', groups', members')
<1>1. Active(q) /\ Head(todo[q]).do = "find" /\ Queued(q)
  BY DEF Find, Head1, ServerInd
<1>2. /\ req[q].verb \in {"PATCH", "GET"} \/ (req[q].verb = "PUT" /\ ~mismatched(req[q]))
  BY <1>1, ServedByPlan, PlanTells
<1>3. RowOf(req[q].id) = None /\ ~(req[q].verb = "PUT" /\ createIfAbsent(req[q]))
  OBVIOUS
<1>4. OldRow(q) = None
  BY <1>1, <1>3, StillPending
<1>5. MissingIn(OldUsers(q), OldGroups(q), req[q])
  BY <1>2, <1>3, <1>4 DEF MissingIn, RowIn, OldRow
<1>6. Contract(was[q], req[q]) = [status |-> 404, rows |-> was[q]]
  BY <1>2, <1>5, SaidOfWas
<1>7. <<users', groups', members'>> = was[q]
  BY RefusalLeaves
<1> QED
  BY <1>6, <1>7, HonouredAs

LEMMA NamelessHonours ==
    ASSUME ServerInd, NEW q \in Req, Serving(q), Keeps(q), Passed(q), CheckName(q), Wanted(q) = None, ~torn'
    PROVE  Honoured(q, 400, users', groups', members') /\ Refuse(q, 400)
<1>1. Active(q) /\ Head(todo[q]).do = "name" /\ Queued(q) /\ Refuse(q, 400)
  BY DEF CheckName, Head1, ServerInd
<1>2. Saves(req[q])
  BY <1>1, ServedByPlan, PlanTells
<1>3. req[q].verb \notin {"LIST", "DELETE", "GET"} /\ ~(req[q].verb = "PUT" /\ mismatched(req[q]))
  BY <1>2 DEF Saves
<1>4. ~MissingIn(OldUsers(q), OldGroups(q), req[q]) /\ NameIn(OldUsers(q), OldGroups(q), req[q]) = None
  BY <1>1, <1>3, PastTheFind
<1>5. Contract(was[q], req[q]) = [status |-> 400, rows |-> was[q]]
  BY <1>3, <1>4, SaidOfWas
<1>6. <<users', groups', members'>> = was[q]
  BY <1>1, RefusalLeaves
<1> QED
  BY <1>1, <1>5, <1>6, HonouredAs

(* What is refused as unsupported is refused before the name is looked up. *)
LEMMA NotBad ==
    ASSUME ServerInd, NEW q \in Req, Serving(q), Head(todo[q]).do \in {"name", "free", "save", "reply"}
    PROVE  ~req[q].bad /\ ~(req[q].verb = "PUT" /\ mismatched(req[q]))
<1>1. Queued(q) /\ Active(q) /\ Knows(q)
  BY DEF ServerInd, Serving
<1>2. ~Has(q, "bad")
  BY <1>1, EarlierIsDone, Ranks, Whats
<1> QED
  BY <1>1, <1>2 DEF Knows

LEMMA TakenHonours ==
    ASSUME ServerInd, NEW q \in Req, Serving(q), Keeps(q), Passed(q), CheckName(q), Wanted(q) # None,
           Refuse(q, 409), ~torn',
           Holders(req[q].id, Wanted(q)) \ (IF req[q].verb = "POST" THEN {} ELSE {req[q].id}) # {}
    PROVE  Honoured(q, 409, users', groups', members')
<1>1. Active(q) /\ Head(todo[q]).do = "name" /\ Queued(q)
  BY DEF CheckName, Head1, ServerInd
<1>2. Saves(req[q]) /\ BodyFits(req[q])
  BY <1>1, ServedByPlan, PlanTells
<1>3. req[q].verb \notin {"LIST", "DELETE", "GET"} /\ ~(req[q].verb = "PUT" /\ mismatched(req[q])) /\ ~req[q].bad
  BY <1>1, <1>2, NotBad DEF Saves
<1>4. ~MissingIn(OldUsers(q), OldGroups(q), req[q]) /\ NameIn(OldUsers(q), OldGroups(q), req[q]) = Wanted(q)
      /\ (TakenIn(OldUsers(q), OldGroups(q), req[q]) <=> Taken(q))
  BY <1>1, <1>3, PastTheFind
<1>5. users = OldUsers(q) /\ groups = OldGroups(q)
  BY <1>1, StillPending
<1>6. Taken(q) \/ (req[q].verb = "POST" /\ OldRow(q) # None)
  <2>1. PICK x : x \in Holders(req[q].id, Wanted(q)) /\ (req[q].verb = "POST" \/ x # req[q].id)
    OBVIOUS
  <2>2. CASE x # req[q].id
    BY <1>5, <2>1, <2>2 DEF Holders, Taken
  <2>3. CASE x = req[q].id
    BY <1>5, <2>1, <2>3 DEF Holders, OldRow
  <2> QED
    BY <2>2, <2>3
<1>7. Contract(was[q], req[q]) = [status |-> 409, rows |-> was[q]]
  BY <1>3, <1>4, <1>6, SaidOfWas
<1>8. <<users', groups', members'>> = was[q]
  BY RefusalLeaves
<1> QED
  BY <1>7, <1>8, HonouredAs

LEMMA FreeHonours ==
    ASSUME ServerInd, NEW q \in Req, Serving(q), Keeps(q), Passed(q), CheckFree(q), Refuse(q, 409), ~torn',
           RowOf(req[q].id) # None
    PROVE  Honoured(q, 409, users', groups', members')
<1>1. Active(q) /\ Head(todo[q]).do = "free" /\ Queued(q) /\ Knows(q)
  BY DEF CheckFree, Head1, ServerInd
<1>2. req[q].verb = "POST" /\ BodyFits(req[q]) /\ ~req[q].bad
  BY <1>1, ServedByPlan, PlanTells, NotBad
<1>3. ~Has(q, "name")
  BY <1>1, EarlierIsDone, Ranks, Whats
<1>4. Wanted(q) \in Names(req[q].id)
  BY <1>1, <1>2, <1>3 DEF Knows, Saves
<1>5. Wanted(q) # None
  BY <1>2, <1>4, NoneAssumption DEF Names
<1>6. ~MissingIn(OldUsers(q), OldGroups(q), req[q]) /\ NameIn(OldUsers(q), OldGroups(q), req[q]) = Wanted(q)
  BY <1>1, <1>2, PastTheFind
<1>7. OldRow(q) # None
  BY <1>1, StillPending
<1>8. Contract(was[q], req[q]) = [status |-> 409, rows |-> was[q]]
  BY <1>2, <1>5, <1>6, <1>7, SaidOfWas
<1>9. <<users', groups', members'>> = was[q]
  BY RefusalLeaves
<1> QED
  BY <1>8, <1>9, HonouredAs

LEMMA UnsupportedHonours ==
    ASSUME ServerInd, NEW q \in Req, Serving(q), Keeps(q), Passed(q), Unsupported(q), ~torn'
    PROVE  Honoured(q, 400, users', groups', members')
<1>1. Active(q) /\ Head(todo[q]).do = "bad" /\ Queued(q) /\ Refuse(q, 400)
  BY DEF Unsupported, Head1, ServerInd
<1>2. BodyFits(req[q]) /\ (req[q].bad \/ (req[q].verb = "PUT" /\ mismatched(req[q])))
  BY <1>1, ServedByPlan, PlanTells
<1>3. CASE req[q].verb = "PUT" /\ mismatched(req[q])
  <2>1. Contract(was[q], req[q]) = [status |-> 400, rows |-> was[q]]
    BY <1>3, SaidOfWas
  <2>2. <<users', groups', members'>> = was[q]
    BY <1>1, RefusalLeaves
  <2> QED
    BY <2>1, <2>2, HonouredAs
<1>4. CASE req[q].bad /\ req[q].verb = "PATCH"
  <2>1. ~MissingIn(OldUsers(q), OldGroups(q), req[q])
    BY <1>1, <1>4, PastTheFind
  <2>2. Contract(was[q], req[q]) = [status |-> 400, rows |-> was[q]]
    BY <1>4, <2>1, SaidOfWas
  <2>3. <<users', groups', members'>> = was[q]
    BY <1>1, RefusalLeaves
  <2> QED
    BY <2>2, <2>3, HonouredAs
<1> QED
  BY <1>2, <1>3, <1>4 DEF BodyFits

(* The index of the table refuses nothing to a request that is alone. *)
LEMMA IndexAgrees ==
    ASSUME ServerInd, NEW q \in Req, Serving(q), Keeps(q), Passed(q), Save(q)
    PROVE  ~(req[q].id \in Users /\ Holders(req[q].id, Wanted(q)) \ {req[q].id} # {})
<1>1. Active(q) /\ Head(todo[q]).do = "save" /\ Queued(q)
  BY DEF Save, Head1, ServerInd
<1>2. Saves(req[q]) /\ ~Has(q, "name")
  BY <1>1, ServedByPlan, PlanTells, NewRowFits
<1>3. ~Taken(q)
  BY <1>2 DEF Passed
<1>4. users = OldUsers(q)
  BY <1>1, StillPending
<1> QED
  BY <1>3, <1>4 DEF Taken, Holders

(* With no edit of the memberships left, they are what they will be. *)
LEMMA NoEditsLeft ==
    ASSUME NEW q \in Req, ~Has(q, "clear"), ~Has(q, "leave"), ~Has(q, "add"), ~Has(q, "drop")
    PROVE  Ends(q) = members
<1>1. \A e : e \in Ends(q) <=> e \in members
  BY EndsAre DEF Ends, Has
<1> QED
  BY <1>1

LEMMA EraseHonours ==
    ASSUME ServerInd, NEW q \in Req, Serving(q), Keeps(q), Erase(q), Refuse(q, 404), RowOf(req[q].id) = None
    PROVE  Honoured(q, 404, users', groups', members')
<1>1. Active(q) /\ Head(todo[q]).do = "erase" /\ Queued(q)
  BY DEF Erase, Head1, ServerInd
<1>2. req[q].verb = "DELETE" /\ BodyFits(req[q])
  BY <1>1, ServedByPlan, PlanTells
<1>3. users = OldUsers(q) /\ groups = OldGroups(q) /\ OldRow(q) = None
  BY <1>1, StillPending
<1>4. ~Has(q, "clear") /\ ~Has(q, "leave") /\ ~Has(q, "add") /\ ~Has(q, "drop")
  <2>1. "add" \in DOMAIN Turn /\ "drop" \in DOMAIN Turn
    BY DEF Turn
  <2> QED
    BY <1>1, <1>2, <2>1, EarlierIsDone, Ranks, Whats
<1>5. members = GoneIn(OldMembers(q), req[q])
  BY <1>2, <1>4, NoEditsLeft DEF Keeps, Meant, GoneIn
<1>6. Contract(was[q], req[q])
        = [status |-> 404, rows |-> <<OldUsers(q), OldGroups(q), GoneIn(OldMembers(q), req[q])>>]
  BY <1>2, <1>3, SaidOfWas
<1>7. users' = users /\ groups' = groups /\ members' = members
  BY DEF Refuse, rows
<1> QED
  BY <1>3, <1>5, <1>6, <1>7, HonouredAs

(* A reader finds the tables as they were, and shows them. *)
LEMMA ReaderSees ==
    ASSUME ServerInd, NEW q \in Req, Serving(q), Keeps(q),
           Head(todo[q]).do \in {"render", "page"} \/ req[q].verb \in {"GET", "LIST"}
    PROVE  /\ req[q].verb \in {"GET", "LIST"} /\ BodyFits(req[q])
           /\ users = OldUsers(q) /\ groups = OldGroups(q) /\ members = OldMembers(q)
           /\ <<users, groups, members>> = was[q]
<1>1. Queued(q) /\ Active(q)
  BY DEF Serving, ServerInd
<1>2. req[q].verb \in {"GET", "LIST"} /\ BodyFits(req[q])
  BY <1>1, ServedByPlan, PlanTells
<1>3. users = OldUsers(q) /\ groups = OldGroups(q)
  <2>1. Head(todo[q]).do \in {"find", "render", "count", "page"}
    BY <1>1, <1>2, ServedByPlan, PlanTells DEF Saves, BodyFits
  <2> QED
    BY <1>1, <2>1, StillPending
<1>4. ~Has(q, "clear") /\ ~Has(q, "leave") /\ ~Has(q, "add") /\ ~Has(q, "drop")
  <2>1. \A s \in Left(q) : s \in Planned(req[q])
    BY <1>1, ServedByPlan
  <2>2. ~Saves(req[q])
    BY <1>2 DEF Saves
  <2> QED
    BY <1>2, <2>1, <2>2, PlanTells DEF Has
<1>5. members = OldMembers(q)
  <2>1. Meant(req[q], OldMembers(q)) = OldMembers(q)
    BY <1>2 DEF Meant, Saves
  <2> QED
    BY <1>4, <2>1, NoEditsLeft DEF Keeps
<1> QED
  BY <1>2, <1>3, <1>5, SaidOfWas

LEMMA RenderHonours ==
    ASSUME ServerInd, NEW q \in Req, Serving(q), Keeps(q), Passed(q), Render(q)
    PROVE  /\ answer'[q] = 200 /\ Honoured(q, 200, users', groups', members')
           /\ Shows(req[q], local'[q].seen, was[q])
<1> DEFINE what == <<local[q].row, MembersOf(req[q].id)>>
<1>1. Active(q) /\ Head(todo[q]).do = "render" /\ Queued(q) /\ Answered(q, what) /\ Framed
  BY DEF Render, Head1, ServerInd
<1>2. req[q].verb = "GET" /\ BodyFits(req[q])
  BY <1>1, ServedByPlan, PlanTells
<1>3. /\ users = OldUsers(q) /\ groups = OldGroups(q) /\ members = OldMembers(q)
      /\ <<users, groups, members>> = was[q]
  BY <1>1, ReaderSees
<1>4. local[q].row = OldRow(q) /\ ~MissingIn(OldUsers(q), OldGroups(q), req[q])
  BY <1>1, <1>2, PastTheFind
<1>5. Contract(was[q], req[q]) = [status |-> 200, rows |-> was[q]]
  BY <1>2, <1>4, SaidOfWas
<1> HIDE DEF what
<1>6. answer' = [answer EXCEPT ![q] = 200] /\ local' = [local EXCEPT ![q] = [@ EXCEPT !.seen = what]]
      /\ users' = users /\ groups' = groups /\ members' = members
  BY <1>1 DEF Answered, rows
<1>7. answer'[q] = 200 /\ local'[q].seen = what
  BY <1>1, <1>6 DEF Framed, Queued
<1>8. what = <<OldRow(q), {u \in Users : <<req[q].id, u>> \in OldMembers(q)}>>
  BY <1>3, <1>4 DEF what, MembersOf
<1>9. Shows(req[q], local'[q].seen, was[q])
  BY <1>2, <1>7, <1>8 DEF Shows, OldRow, OldUsers, OldGroups, OldMembers
<1> QED
  BY <1>3, <1>5, <1>6, <1>7, <1>9, HonouredAs

LEMMA PageHonours ==
    ASSUME ServerInd, NEW q \in Req, Serving(q), Keeps(q), Passed(q), Page(q)
    PROVE  /\ answer'[q] = 200 /\ Honoured(q, 200, users', groups', members')
           /\ Shows(req[q], local'[q].seen, was[q])
<1> DEFINE found == Matching(req[q], users, groups)
           what == <<local[q].row, found>>
<1>1. Active(q) /\ Head(todo[q]).do = "page" /\ Queued(q) /\ Answered(q, what) /\ Framed
  BY DEF Page, Head1, ServerInd
<1>2. req[q].verb = "LIST" /\ BodyFits(req[q])
  BY <1>1, ServedByPlan, PlanTells
<1>3. /\ users = OldUsers(q) /\ groups = OldGroups(q)
      /\ <<users, groups, members>> = was[q]
  BY <1>1, ReaderSees
<1>4. ~Has(q, "count")
  BY <1>1, EarlierIsDone, Ranks, Whats
<1>5. local[q].row = Cardinality(found)
  BY <1>2, <1>3, <1>4 DEF Passed
<1>6. Contract(was[q], req[q]) = [status |-> 200, rows |-> was[q]]
  BY <1>2, SaidOfWas
<1> HIDE DEF found
<1>7. what = <<Cardinality(found), found>>
  BY <1>5
<1> HIDE DEF what
<1>8. answer' = [answer EXCEPT ![q] = 200] /\ local' = [local EXCEPT ![q] = [@ EXCEPT !.seen = what]]
      /\ users' = users /\ groups' = groups /\ members' = members
  BY <1>1 DEF Answered, rows
<1>9. answer'[q] = 200 /\ local'[q].seen = what
  BY <1>1, <1>8 DEF Framed, Queued
<1>10. found = Matching(req[q], was[q][1], was[q][2])
  BY <1>3 DEF found, OldUsers, OldGroups
<1>11. Shows(req[q], local'[q].seen, was[q])
  BY <1>2, <1>7, <1>9, <1>10 DEF Shows
<1>12. Honoured(q, 200, users', groups', members')
  BY <1>3, <1>6, <1>8, HonouredAs
<1> QED
  BY <1>9, <1>11, <1>12

(* The memberships a write means are those the contract lists. *)
LEMMA EdgesMeant ==
    ASSUME NEW rq, BodyFits(rq), Saves(rq), NEW es \in SUBSET (Groups \X Users)
    PROVE  EdgesIn(es, rq) = Meant(rq, es)
<1> DEFINE r == rq.id
           there == {u \in Users : <<r, u>> \in es}
<1>1. rq.verb # "DELETE"
  BY DEF Saves
<1>2. CASE r \in Users
  BY <1>1, <1>2 DEF EdgesIn, Meant
<1>3. CASE r \notin Users
  <2>1. r \in Groups /\ rq.who \in SUBSET Users
    BY <1>3 DEF BodyFits, Res
  <2>2. es = {e \in es : e[1] # r} \cup ({r} \X there)
    OBVIOUS
  <2>3. EdgesIn(es, rq) = {e \in es : e[1] # r} \cup ({r} \X ListedIn(es, rq))
    BY <1>3 DEF EdgesIn
  <2>4. CASE rq.verb \in {"POST", "PUT"}
    <3>1. rq.op = None
      BY <2>4 DEF BodyFits
    <3>2. ListedIn(es, rq) = rq.who
      BY <2>4, <3>1, NoneAssumption DEF ListedIn
    <3>3. Meant(rq, es) = {e \in es : e[1] # r} \cup ({r} \X rq.who)
      BY <1>1, <1>3, <2>4, <3>1, NoneAssumption DEF Meant
    <3> QED
      BY <2>3, <3>2, <3>3
  <2>5. CASE rq.verb = "PATCH" /\ rq.op = None
    <3>1. ListedIn(es, rq) = there
      BY <2>5, NoneAssumption DEF ListedIn
    <3>2. Meant(rq, es) = es
      BY <1>1, <2>5 DEF Meant
    <3> QED
      BY <2>2, <2>3, <3>1, <3>2
  <2>6. CASE rq.verb = "PATCH" /\ rq.op = "add"
    <3>1. ListedIn(es, rq) = there \cup rq.who
      BY <2>6 DEF ListedIn
    <3>2. Meant(rq, es) = es \cup ({r} \X rq.who)
      BY <1>1, <1>3, <2>6, NoneAssumption DEF Meant
    <3>3. {r} \X (there \cup rq.who) = ({r} \X there) \cup ({r} \X rq.who)
      OBVIOUS
    <3> HIDE DEF there
    <3> QED
      BY <2>2, <2>3, <3>1, <3>2, <3>3
  <2>7. CASE rq.verb = "PATCH" /\ rq.op = "remove"
    <3>1. ListedIn(es, rq) = there \ rq.who
      BY <2>7 DEF ListedIn
    <3>2. Meant(rq, es) = es \ ({r} \X rq.who)
      BY <1>1, <1>3, <2>7, NoneAssumption DEF Meant
    <3>3. {r} \X (there \ rq.who) = ({r} \X there) \ ({r} \X rq.who)
      OBVIOUS
    <3>4. \A e \in es : e[1] # r => e \notin {r} \X rq.who
      OBVIOUS
    <3> HIDE DEF there
    <3> QED
      BY <2>2, <2>3, <3>1, <3>2, <3>3, <3>4
  <2>8. CASE rq.verb = "PATCH" /\ rq.op = "replace"
    <3>1. ListedIn(es, rq) = rq.who
      BY <2>8 DEF ListedIn
    <3>2. Meant(rq, es) = {e \in es : e[1] # r} \cup ({r} \X rq.who)
      BY <1>1, <1>3, <2>8, NoneAssumption DEF Meant
    <3> QED
      BY <2>3, <3>1, <3>2
  <2> QED
    BY <2>4, <2>5, <2>6, <2>7, <2>8 DEF Saves, BodyFits
<1> QED
  BY <1>2, <1>3

(* At the answer to a write all of it has run: the tables are as it meant them. *)
LEMMA WriteIsDone ==
    ASSUME ServerInd, NEW q \in Req, Serving(q), Keeps(q), Head(todo[q]).do = "reply"
    PROVE  /\ req[q].verb \notin {"GET", "LIST"} /\ BodyFits(req[q])
           /\ ~Pending(q) /\ members = Meant(req[q], OldMembers(q))
           /\ req[q].verb # "DELETE" => Saves(req[q])
<1>1. Queued(q) /\ Active(q)
  BY DEF Serving, ServerInd
<1>2. req[q].verb \notin {"GET", "LIST"} /\ BodyFits(req[q])
  BY <1>1, ServedByPlan, PlanTells
<1>3. /\ ~Has(q, "save") /\ ~Has(q, "erase") /\ ~Has(q, "bad")
      /\ ~Has(q, "clear") /\ ~Has(q, "leave") /\ ~Has(q, "add") /\ ~Has(q, "drop")
  <2>1. "add" \in DOMAIN Turn /\ "drop" \in DOMAIN Turn
    BY DEF Turn
  <2>2. Rank(req[q].verb, "clear") < 13 /\ Rank(req[q].verb, "add") < 13 /\ Rank(req[q].verb, "drop") < 13
    BY Ranks
  <2> QED
    BY <1>1, <2>1, <2>2, EarlierIsDone, Ranks, Whats
<1>4. members = Meant(req[q], OldMembers(q))
  BY <1>3, NoEditsLeft DEF Keeps
<1>5. req[q].verb # "DELETE" => Saves(req[q])
  BY <1>1, <1>2, NotBad DEF Saves, BodyFits
<1> QED
  BY <1>2, <1>3, <1>4, <1>5 DEF Pending

LEMMA ReplyHonours ==
    ASSUME ServerInd, NEW q \in Req, Serving(q), Keeps(q), Passed(q), Reply(q)
    PROVE  /\ answer'[q] = 200 /\ Honoured(q, 200, users', groups', members')
           /\ Shows(req[q], local'[q].seen, was[q])
<1>1. Active(q) /\ Head(todo[q]).do = "reply" /\ Queued(q) /\ Framed /\ Knows(q)
  BY DEF Reply, Head1, ServerInd
<1>2. answer' = [answer EXCEPT ![q] = 200] /\ users' = users /\ groups' = groups /\ members' = members
  BY DEF Reply, rows
<1>3. answer'[q] = 200
  BY <1>1, <1>2 DEF Framed
<1>4. /\ req[q].verb \notin {"GET", "LIST"} /\ BodyFits(req[q])
      /\ ~Pending(q) /\ members = Meant(req[q], OldMembers(q))
      /\ req[q].verb # "DELETE" => Saves(req[q])
  BY <1>1, WriteIsDone
<1>5. Shows(req[q], local'[q].seen, was[q])
  BY <1>4 DEF Shows
<1>6. CASE req[q].verb = "DELETE"
  <2>1. OldRow(q) # None /\ Put(q, None)
    BY <1>4, <1>6 DEF Keeps, Rows
  <2>2. members = GoneIn(OldMembers(q), req[q])
    BY <1>4, <1>6 DEF Meant, GoneIn
  <2>3. CASE req[q].id \in Users
    <3>1. Contract(was[q], req[q])
            = [status |-> 200, rows |-> <<[OldUsers(q) EXCEPT ![req[q].id] = None], OldGroups(q),
                                          GoneIn(OldMembers(q), req[q])>>]
      BY <1>6, <2>1, <2>3, SaidOfWas
    <3>2. users = [OldUsers(q) EXCEPT ![req[q].id] = None] /\ groups = OldGroups(q)
      BY <2>1, <2>3 DEF Put
    <3> QED
      BY <1>2, <1>3, <1>5, <2>2, <3>1, <3>2, HonouredAs
  <2>4. CASE req[q].id \notin Users
    <3>1. Contract(was[q], req[q])
            = [status |-> 200, rows |-> <<OldUsers(q), [OldGroups(q) EXCEPT ![req[q].id] = None],
                                          GoneIn(OldMembers(q), req[q])>>]
      BY <1>6, <2>1, <2>4, SaidOfWas
    <3>2. users = OldUsers(q) /\ groups = [OldGroups(q) EXCEPT ![req[q].id] = None]
      BY <2>1, <2>4 DEF Put
    <3> QED
      BY <1>2, <1>3, <1>5, <2>2, <3>1, <3>2, HonouredAs
  <2> QED
    BY <2>3, <2>4
<1>7. CASE req[q].verb # "DELETE"
  <2>1. Saves(req[q]) /\ ~req[q].bad /\ ~(req[q].verb = "PUT" /\ mismatched(req[q]))
    BY <1>1, <1>4, <1>7, NotBad
  <2>2. ~Has(q, "name") /\ Wanted(q) \in Names(req[q].id)
    BY <1>1, <2>1, NewRowFits
  <2>3. Wanted(q) # None
    BY <2>2, NoneAssumption DEF Names
  <2>4. /\ ~MissingIn(OldUsers(q), OldGroups(q), req[q])
        /\ req[q].verb = "PATCH" => local[q].row = OldRow(q)
        /\ NameIn(OldUsers(q), OldGroups(q), req[q]) = Wanted(q)
        /\ TakenIn(OldUsers(q), OldGroups(q), req[q]) <=> Taken(q)
    BY <1>1, <1>4, <1>7, <2>1, PastTheFind
  <2>5. ~Taken(q) /\ (req[q].verb = "POST" => OldRow(q) = None)
    <3>1. ~Has(q, "free")
      BY <1>1, EarlierIsDone, Ranks, Whats
    <3> QED
      BY <2>1, <2>2, <3>1 DEF Passed
  <2>6. Contract(was[q], req[q])
          = [status |-> 200, rows |-> <<SavedIn(OldUsers(q), OldGroups(q), req[q]),
                                        NamedIn(OldUsers(q), OldGroups(q), req[q]),
                                        EdgesIn(OldMembers(q), req[q])>>]
    BY <1>4, <1>7, <2>1, <2>3, <2>4, <2>5, SaidOfWas
  <2>7. members = EdgesIn(OldMembers(q), req[q])
    BY <1>4, <2>1, EdgesMeant DEF Keeps, WasFits
  <2>8. Put(q, IF req[q].id \in Users THEN NewUser(q) ELSE Wanted(q))
    BY <1>4, <1>7 DEF Keeps, Rows
  <2>9. CASE req[q].id \in Users
    <3>1. NewUser(q) = [name |-> NameIn(OldUsers(q), OldGroups(q), req[q]),
                        active |-> ActiveIn(OldUsers(q), OldGroups(q), req[q])]
      <4>1. req[q].active = None => req[q].verb = "PATCH"
        BY <1>4, <2>1, NoneAssumption DEF BodyFits, Saves
      <4>2. RowIn(OldUsers(q), OldGroups(q), req[q]) = OldRow(q)
        BY DEF RowIn, OldRow
      <4> QED
        BY <2>4, <4>1, <4>2 DEF NewUser, ActiveIn
    <3>2. users = SavedIn(OldUsers(q), OldGroups(q), req[q]) /\ groups = NamedIn(OldUsers(q), OldGroups(q), req[q])
      BY <2>8, <2>9, <3>1 DEF Put, SavedIn, NamedIn
    <3> QED
      BY <1>2, <1>3, <1>5, <2>6, <2>7, <3>2, HonouredAs
  <2>10. CASE req[q].id \notin Users
    <3>1. users = SavedIn(OldUsers(q), OldGroups(q), req[q]) /\ groups = NamedIn(OldUsers(q), OldGroups(q), req[q])
      BY <2>4, <2>8, <2>10 DEF Put, SavedIn, NamedIn
    <3> QED
      BY <1>2, <1>3, <1>5, <2>6, <2>7, <3>1, HonouredAs
  <2> QED
    BY <2>9, <2>10
<1> QED
  BY <1>6, <1>7

(* An answer is given by a statement of the request itself, which had none yet. *)
LEMMA AnswerIsOnes ==
    ASSUME ServerInd, NEW p \in Req, Step(p), NEW q \in Req, answer[q] = None, answer'[q] # None
    PROVE  p = q /\ Statement(q) /\ Serving(q)
<1>1. Framed
  BY DEF ServerInd
<1>2. ASSUME NEW r \in Res, NEW rq \in Bodies(r), Receive(p, rq) PROVE FALSE
  <2>1. answer' = [answer EXCEPT ![p] = None]
    BY <1>2 DEF Receive
  <2> QED
    BY <1>1, <2>1 DEF Framed
<1>3. Statement(p)
  BY <1>2 DEF Step
<1>4. Active(p) /\ \A x \in Req \ {p} : answer'[x] = answer[x]
  BY <1>3, StatementIsOnes
<1>5. p = q
  BY <1>4
<1> QED
  BY <1>3, <1>4, <1>5 DEF Serving

LEMMA RefusalAnswers ==
    ASSUME ServerInd, NEW q \in Req, NEW status, Refuse(q, status)
    PROVE  answer'[q] = status
<1>1. answer' = [answer EXCEPT ![q] = status]
  BY DEF Refuse
<1> QED
  BY <1>1 DEF ServerInd, Framed

LEMMA StatementHonours ==
    ASSUME ServerInd, NEW q \in Req, Statement(q), Serving(q), Keeps(q), Passed(q), answer'[q] # None, ~torn'
    PROVE  /\ Honoured(q, answer'[q], users', groups', members')
           /\ answer'[q] = 200 => Shows(req[q], local'[q].seen, was[q])
<1>1. answer' # answer
  BY DEF Serving
<1>2. ~Before(q) /\ ~Count(q) /\ ~WriteMembers(q) /\ ~TellRow(q) /\ ~TellMember(q)
  BY <1>1 DEF Before, Count, ReadsOnly, WriteMembers, TellRow, TellMember
<1>3. CASE Find(q)
  <2>1. Refuse(q, 404) /\ RowOf(req[q].id) = None /\ ~(req[q].verb = "PUT" /\ createIfAbsent(req[q]))
    BY <1>1, <1>3 DEF Find, ReadsOnly
  <2>2. answer'[q] = 404
    BY <2>1, RefusalAnswers
  <2> QED
    BY <1>3, <2>1, <2>2, FindHonours
<1>4. CASE CheckName(q)
  <2>1. CASE Wanted(q) = None
    <3>1. Refuse(q, 400) /\ Honoured(q, 400, users', groups', members')
      BY <1>4, <2>1, NamelessHonours
    <3>2. answer'[q] = 400
      BY <3>1, RefusalAnswers
    <3> QED
      BY <3>1, <3>2
  <2>2. CASE Wanted(q) # None
    <3>1. /\ Refuse(q, 409)
          /\ Holders(req[q].id, Wanted(q)) \ (IF req[q].verb = "POST" THEN {} ELSE {req[q].id}) # {}
      BY <1>1, <1>4, <2>2 DEF CheckName, ReadsOnly
    <3>2. answer'[q] = 409
      BY <3>1, RefusalAnswers
    <3> QED
      BY <1>4, <2>2, <3>1, <3>2, TakenHonours
  <2> QED
    BY <2>1, <2>2
<1>5. CASE CheckFree(q)
  <2>1. Refuse(q, 409) /\ RowOf(req[q].id) # None
    BY <1>1, <1>5 DEF CheckFree, ReadsOnly
  <2>2. answer'[q] = 409
    BY <2>1, RefusalAnswers
  <2> QED
    BY <1>5, <2>1, <2>2, FreeHonours
<1>6. CASE Unsupported(q)
  <2>1. answer'[q] = 400
    BY <1>6, RefusalAnswers DEF Unsupported
  <2> QED
    BY <1>6, <2>1, UnsupportedHonours
<1>7. CASE Save(q)
  BY <1>1, <1>7, IndexAgrees DEF Save
<1>8. CASE Erase(q)
  <2>1. Refuse(q, 404) /\ RowOf(req[q].id) = None
    BY <1>1, <1>8 DEF Erase
  <2>2. answer'[q] = 404
    BY <2>1, RefusalAnswers
  <2> QED
    BY <1>8, <2>1, <2>2, EraseHonours
<1>9. CASE Render(q)
  BY <1>9, RenderHonours
<1>10. CASE Page(q)
  BY <1>10, PageHonours
<1>11. CASE Reply(q)
  BY <1>11, ReplyHonours
<1> QED
  BY <1>2, <1>3, <1>4, <1>5, <1>6, <1>7, <1>8, <1>9, <1>10, <1>11 DEF Statement

(* MeetsTheContract: the statements of scim-server.ts, run one by one for a request
   nothing runs beside, answer what the contract of its verb says and leave the
   tables so, and a reader is shown all of it; for every number of resources,
   memberships and requests. *)
THEOREM ServersMeetTheContract == Spec => MeetsTheContract
<1>1. ASSUME ServerInd, AloneInv, [Next]_vars, NEW q \in Req,
             answer[q] = None, answer'[q] # None, ~crossed[q], ~torn'
      PROVE  /\ Honoured(q, answer'[q], users', groups', members')
             /\ answer'[q] = 200 => Shows(req[q], local'[q].seen, was[q])
  <2>1. Next
    BY <1>1 DEF vars, client
  <2>2. Statement(q) /\ Serving(q)
    BY <1>1, <2>1, NextIsAStep, AnswerIsOnes
  <2>3. Keeps(q) /\ Passed(q)
    BY <1>1, <2>2 DEF AloneInv, Alone
  <2> QED
    BY <1>1, <2>2, <2>3, StatementHonours
<1>2. ServerInd /\ AloneInv /\ [Next]_vars =>
        [\A q \in Req : (answer[q] = None /\ answer'[q] # None /\ ~crossed[q] /\ ~torn') =>
           LET said == Contract(was[q], req[q]) IN
           /\ answer'[q] = said.status /\ <<users', groups', members'>> = said.rows
           /\ answer'[q] = 200 => Shows(req[q], local'[q].seen, was[q])]_vars
  BY <1>1 DEF Honoured
<1> QED
  BY <1>2, ServerInvariant, AloneInvariant, PTL DEF Spec, MeetsTheContract

----------------------------------------------------------------------------
(* The log, while nothing overlaps and nothing is refused half way *)

(* While nothing has overlapped there is at most one request at work. *)
LEMMA OnlyOne ==
    ASSUME AloneInv, ~blurred, NEW q \in Req, Active(q)
    PROVE  /\ \A p \in Req \ {q} : todo[p] = <<>>
           /\ Serving(q) => Keeps(q) /\ Passed(q)
BY DEF AloneInv, Solo, Alone, Active

LEMMA CalmBefore ==
    ASSUME NEW q \in Req, Step(q), Calm', torn \in BOOLEAN, blurred \in BOOLEAN
    PROVE  Calm
<1>1. ASSUME NEW r \in Res, NEW rq \in Bodies(r), Receive(q, rq) PROVE Calm
  <2>1. role' = role /\ torn' = torn /\ (~blurred' => ~blurred)
    BY <1>1 DEF Receive
  <2> QED
    BY <2>1 DEF Calm, Emits
<1>2. CASE Statement(q)
  <2>1. role' = role /\ blurred' = blurred
    BY <1>2 DEF Statement, Before, Find, Render, Count, Page, CheckName, CheckFree, Unsupported, Save,
                WriteMembers, Erase, Reply, TellRow, TellMember, Answered, Refuse, ReadsOnly, Keep
  <2>2. ~torn' => ~torn
    BY <1>2 DEF Statement, Before, Find, Render, Count, Page, CheckName, CheckFree, Unsupported, Save,
                WriteMembers, Erase, Reply, TellRow, TellMember, Answered, Refuse, ReadsOnly
  <2> QED
    BY <2>1, <2>2 DEF Calm, Emits
<1> QED
  BY <1>1, <1>2 DEF Step

(* It is enough to look at one request when no other is at work. *)
LEMMA LogIsOnes ==
    ASSUME NEW q \in Req, \A p \in Req \ {q} : todo'[p] = <<>>,
           Serving(q)' => Unlogged(q)', Telling(q)' => Logged(q)',
           todo'[q] = <<>> => told' = Table' /\ Stand(users', groups', members')
    PROVE  LogInv'
BY DEF LogInv, Serving, Telling, Active

LEMMA UnloggedLasts ==
    ASSUME NEW q \in Req, role' = role, req'[q] = req[q], was'[q] = was[q], told' = told, Unlogged(q),
           (Has(q, "before")' <=> Has(q, "before")), local'[q].before = local[q].before
    PROVE  Unlogged(q)'
<1>1. OldUsers(q)' = OldUsers(q) /\ OldGroups(q)' = OldGroups(q) /\ OldMembers(q)' = OldMembers(q)
      /\ OldRow(q)' = OldRow(q)
  BY WasLasts
<1>2. OldTable(q)' = OldTable(q)
  BY <1>1 DEF OldTable
<1> QED
  BY <1>1, <1>2 DEF Unlogged

LEMMA Untouched ==
    ASSUME NEW q \in Req, Keeps(q), ~local[q].wrote
    PROVE  users = OldUsers(q) /\ groups = OldGroups(q) /\ members = OldMembers(q)
<1>1. was[q] = <<OldUsers(q), OldGroups(q), OldMembers(q)>>
  BY SaidOfWas
<1>2. <<users, groups, members>> = was[q]
  BY DEF Keeps
<1> QED
  BY <1>1, <1>2

(* A statement that gives no answer goes on to the next and tells nothing. *)
LEMMA ServedOn ==
    ASSUME ServerInd, NEW q \in Req, Serving(q), Statement(q), answer'[q] = None
    PROVE  /\ Next1(q) /\ told' = told
           /\ Before(q) \/ Find(q) \/ CheckName(q) \/ CheckFree(q) \/ Count(q) \/ Save(q) \/ WriteMembers(q) \/ Erase(q)
           /\ Head(todo[q]).do # "reply"
           /\ req[q].verb \in {"GET", "LIST"} => users' = users /\ groups' = groups /\ members' = members
<1>1. Active(q) /\ Queued(q) /\ Framed
  BY DEF Serving, ServerInd
<1>2. Head(todo[q]) \in Planned(req[q]) /\ BodyFits(req[q])
  BY <1>1, ServedByPlan
<1>3. \A status \in Status : ~Refuse(q, status)
  BY RefusalAnswers, NoneAssumption
<1>4. ~Refuse(q, 400) /\ ~Refuse(q, 404) /\ ~Refuse(q, 409) /\ ~Refuse(q, 500)
  BY <1>3 DEF Status
<1>5. ~TellRow(q) /\ ~TellMember(q)
  BY <1>2, PlannedIsAsked DEF TellRow, TellMember, Head1
<1>6. answer' # [answer EXCEPT ![q] = 200]
  BY <1>1, NoneAssumption DEF Framed, Status
<1>7. ~Render(q) /\ ~Page(q) /\ ~Reply(q) /\ ~Unsupported(q)
  BY <1>4, <1>6 DEF Render, Page, Reply, Answered, Unsupported
<1>8. Before(q) \/ Find(q) \/ CheckName(q) \/ CheckFree(q) \/ Count(q) \/ Save(q) \/ WriteMembers(q) \/ Erase(q)
  BY <1>5, <1>7 DEF Statement
<1>9. Next1(q) /\ told' = told
  BY <1>4, <1>8 DEF Before, Find, CheckName, CheckFree, Count, Save, WriteMembers, Erase, ReadsOnly
<1>10. Head(todo[q]).do # "reply"
  BY <1>8 DEF Before, Find, CheckName, CheckFree, Count, Save, WriteMembers, Erase, Head1
<1>11. ASSUME req[q].verb \in {"GET", "LIST"} PROVE users' = users /\ groups' = groups /\ members' = members
  <2>1. Head(todo[q]).do \in {"find", "render", "count", "page"}
    BY <1>2, <1>11, PlanTells DEF Saves, BodyFits
  <2>2. Find(q) \/ Count(q)
    BY <1>8, <2>1 DEF Before, CheckName, CheckFree, Save, WriteMembers, Erase, Head1
  <2> QED
    BY <1>4, <2>2 DEF Find, Count, ReadsOnly, rows
<1> QED
  BY <1>8, <1>9, <1>10, <1>11

LEMMA ServingKeepsLog ==
    ASSUME ServerInd, AloneInv, LogInv, Calm', NEW q \in Req, Serving(q), Statement(q), answer'[q] = None
    PROVE  LogInv'
<1>1. Active(q) /\ Queued(q) /\ Framed /\ Keep
  BY StatementIsOnes DEF Serving, ServerInd
<1>2. Calm
  BY CalmBefore DEF ServerInd, Step
<1>3. \A p \in Req \ {q} : todo'[p] = <<>>
  BY <1>1, <1>2, OnlyOne, StatementIsOnes DEF Calm
<1>4. Keeps(q) /\ Passed(q) /\ Unlogged(q)
  BY <1>1, <1>2, OnlyOne DEF Calm, LogInv
<1>5. Next1(q) /\ told' = told /\ Head(todo[q]).do # "reply"
  BY ServedOn
<1>6. role' = role /\ req' = req /\ was' = was
  BY <1>1 DEF Keep
<1>7. todo'[q] = <<>> => told' = Table' /\ Stand(users', groups', members')
  <2>1. CASE req[q].verb \notin {"GET", "LIST"}
    <3>1. Has(q, "reply")
      BY <2>1 DEF ServerInd, Queued
    <3>2. Has(q, "reply")'
      BY <1>1, <1>5, <3>1, NextLeaves
    <3> QED
      BY <3>2 DEF Has, Left, Range
  <2>2. CASE req[q].verb \in {"GET", "LIST"}
    <3>1. users = OldUsers(q) /\ groups = OldGroups(q) /\ members = OldMembers(q)
      BY <1>4, <2>2, ReaderSees
    <3>2. users' = users /\ groups' = groups /\ members' = members
      BY <2>2, ServedOn
    <3>3. told = OldTable(q) /\ Stand(OldUsers(q), OldGroups(q), OldMembers(q))
      BY <1>4 DEF Unlogged
    <3> QED
      BY <1>5, <3>1, <3>2, <3>3 DEF Table, OldTable
  <2> QED
    BY <2>1, <2>2
<1>8. CASE Before(q)
  <2>1. Head(todo[q]).do = "before"
    BY <1>8 DEF Before, Head1
  <2>2. Has(q, "before") /\ req[q].verb \in {"PUT", "PATCH", "DELETE"} /\ BodyFits(req[q])
    BY <1>1, <2>1, EarlierIsDone, ServedByPlan, PlanTells
  <2>3. users = OldUsers(q) /\ groups = OldGroups(q) /\ members = OldMembers(q)
    <3>1. ~local[q].wrote
      BY <1>4, <2>2 DEF Keeps, Chain
    <3> QED
      BY <1>4, <3>1, Untouched
  <2>4. PICK b : /\ local' = [local EXCEPT ![q] = [@ EXCEPT !.before = b]]
                 /\ b = IF req[q].verb # "DELETE" /\ req[q].id \in Groups THEN MembersOf(req[q].id)
                        ELSE {x \in {req[q].id} : RowOf(x) # None}
    BY <1>8 DEF Before
  <2>5. b = IF req[q].verb # "DELETE" /\ req[q].id \in Groups
            THEN {u \in Users : <<req[q].id, u>> \in OldMembers(q)}
            ELSE {x \in {req[q].id} : OldRow(q) # None}
    BY <2>3, <2>4 DEF MembersOf, RowOf, OldRow
  <2>6. local'[q].before = b
    <3>1. local' = [local EXCEPT ![q] = [@ EXCEPT !.before = b]]
      BY <2>4
    <3> QED
      BY <1>1, <3>1 DEF Framed, Queued
  <2>7. OldUsers(q)' = OldUsers(q) /\ OldGroups(q)' = OldGroups(q) /\ OldMembers(q)' = OldMembers(q)
        /\ OldRow(q)' = OldRow(q)
    BY <1>6, WasLasts
  <2>8. OldTable(q)' = OldTable(q)
    BY <2>7 DEF OldTable
  <2>9. Unlogged(q)'
    BY <1>4, <1>5, <1>6, <2>5, <2>6, <2>7, <2>8 DEF Unlogged
  <2> QED
    BY <1>2, <1>3, <1>7, <2>9, LogIsOnes DEF Telling
<1>9. CASE ~Before(q)
  <2>1. Head(todo[q]).do # "before"
    BY <1>9, ServedOn DEF Find, CheckName, CheckFree, Count, Save, WriteMembers, Erase, Head1
  <2>2. Has(q, "before")' <=> Has(q, "before")
    BY <1>1, <1>5, <2>1, NextLeaves
  <2>3. local'[q].before = local[q].before
    <3>1. CASE Find(q)
      BY <1>1, <1>5, <3>1
      DEF Find, Refuse, Framed, Queued
    <3>2. CASE CheckName(q) \/ CheckFree(q)
      BY <3>2 DEF CheckName, CheckFree, Refuse
    <3>3. CASE Count(q)
      <4>1. PICK b : local' = [local EXCEPT ![q] = [@ EXCEPT !.row = b]]
        BY <3>3 DEF Count
      <4> QED
        BY <1>1, <4>1 DEF Framed, Queued
    <3>4. CASE Save(q) \/ WriteMembers(q) \/ Erase(q)
      <4>1. local' = local \/ \E b : local' = [local EXCEPT ![q] = [@ EXCEPT !.wrote = b]]
        BY <3>4 DEF Save, WriteMembers, Erase, Writes, Refuse
      <4> QED
        BY <1>1, <4>1 DEF Framed, Queued
    <3> QED
      BY <1>9, <3>1, <3>2, <3>3, <3>4, ServedOn
  <2>4. Unlogged(q)'
    BY <1>4, <1>5, <1>6, <2>2, <2>3, UnloggedLasts
  <2> QED
    BY <1>3, <1>7, <2>4, LogIsOnes DEF Telling
<1> QED
  BY <1>8, <1>9

(* A refusal before anything was written leaves what the log tells. *)
LEMMA RefusalKeepsLog ==
    ASSUME ServerInd, AloneInv, LogInv, Calm', NEW q \in Req, Serving(q), Statement(q),
           NEW status, Refuse(q, status)
    PROVE  LogInv'
<1>1. Active(q) /\ Framed /\ Keep
  BY StatementIsOnes DEF Serving, ServerInd
<1>2. Calm
  BY CalmBefore DEF ServerInd, Step
<1>3. \A p \in Req \ {q} : todo'[p] = <<>>
  BY <1>1, <1>2, OnlyOne, StatementIsOnes DEF Calm
<1>4. Keeps(q) /\ Unlogged(q)
  BY <1>1, <1>2, OnlyOne DEF Calm, LogInv
<1>5. told' = told /\ users' = users /\ groups' = groups /\ members' = members /\ todo'[q] = <<>>
  BY <1>1 DEF Refuse, rows, Framed
<1>6. ~local[q].wrote
  BY DEF Refuse, Calm
<1>7. users = OldUsers(q) /\ groups = OldGroups(q) /\ members = OldMembers(q)
  BY <1>4, <1>6, Untouched
<1>8. told' = Table' /\ Stand(users', groups', members')
  BY <1>4, <1>5, <1>7 DEF Unlogged, Table, OldTable
<1> QED
  BY <1>3, <1>5, <1>8, LogIsOnes DEF Serving, Telling, Active

LEMMA ReaderKeepsLog ==
    ASSUME ServerInd, AloneInv, LogInv, Calm', NEW q \in Req, Serving(q), Render(q) \/ Page(q)
    PROVE  LogInv'
<1>1. Active(q) /\ Head(todo[q]).do \in {"render", "page"} /\ Next1(q) /\ Statement(q)
  BY DEF Serving, Render, Page, Head1, Answered, Statement
<1>2. Calm
  BY <1>1, CalmBefore DEF ServerInd, Step
<1>3. \A p \in Req \ {q} : todo'[p] = <<>>
  BY <1>1, <1>2, OnlyOne, StatementIsOnes DEF Calm
<1>4. Keeps(q) /\ Unlogged(q)
  BY <1>1, <1>2, OnlyOne DEF Calm, LogInv
<1>5. told' = told /\ users' = users /\ groups' = groups /\ members' = members
  BY DEF Render, Page, Answered, rows
<1>6. todo'[q] = <<>>
  BY <1>1, ReaderIsDone
<1>7. users = OldUsers(q) /\ groups = OldGroups(q) /\ members = OldMembers(q)
  BY <1>1, <1>4, ReaderSees
<1>8. told' = Table' /\ Stand(users', groups', members')
  BY <1>4, <1>5, <1>7 DEF Unlogged, Table, OldTable
<1> QED
  BY <1>3, <1>6, <1>8, LogIsOnes DEF Serving, Telling, Active

(* The answer of a write leaves the log to be told the row, and what members were
   gained and lost. *)
LEMMA WhatWasRead ==
    ASSUME ServerInd, NEW q \in Req, Serving(q), Keeps(q), Passed(q), Unlogged(q), Emits, Reply(q)
    PROVE  /\ req[q].verb # "DELETE" /\ req[q].id \in Groups =>
                Had(q) = {u \in Users : <<req[q].id, u>> \in OldMembers(q)}
           /\ req[q].verb = "DELETE" => OldRow(q) # None /\ Had(q) = {req[q].id}
           /\ ~Untold(q)
<1>1. Active(q) /\ Head(todo[q]).do = "reply" /\ Queued(q)
  BY DEF Reply, Head1, ServerInd
<1>2. /\ req[q].verb \notin {"GET", "LIST"} /\ BodyFits(req[q])
      /\ ~Pending(q) /\ (req[q].verb # "DELETE" => Saves(req[q]))
  BY <1>1, WriteIsDone
<1>3. ~Has(q, "before") /\ ~Has(q, "free")
  BY <1>1, EarlierIsDone, Ranks, Whats
<1>4. req[q].verb = "DELETE" => OldRow(q) # None
  BY <1>2 DEF Keeps, Rows
<1>5. CASE req[q].verb = "POST"
  <2>1. OldRow(q) = None
    BY <1>3, <1>5 DEF Passed
  <2>2. Stand(OldUsers(q), OldGroups(q), OldMembers(q))
    BY DEF Unlogged
  <2>3. req[q].id \in Groups => \A u \in Users : <<req[q].id, u>> \notin OldMembers(q)
    <3>1. req[q].id \in Groups => OldGroups(q)[req[q].id] = None
      BY <2>1, KindAssumption DEF OldRow
    <3> QED
      BY <2>2, <3>1 DEF Stand
  <2> QED
    BY <1>5, <2>3 DEF Had, Untold
<1>6. CASE req[q].verb # "POST"
  <2>1. req[q].verb \in {"PUT", "PATCH", "DELETE"}
    BY <1>2, <1>6 DEF BodyFits
  <2>2. Had(q) = IF req[q].verb # "DELETE" /\ req[q].id \in Groups
                 THEN {u \in Users : <<req[q].id, u>> \in OldMembers(q)}
                 ELSE {x \in {req[q].id} : OldRow(q) # None}
    BY <1>3, <1>6, <2>1 DEF Unlogged, Had
  <2>3. req[q].verb = "DELETE" => Had(q) = {req[q].id}
    BY <1>4, <2>2
  <2> QED
    BY <1>4, <2>2, <2>3 DEF Untold
<1> QED
  BY <1>5, <1>6

(* A write leaves no membership of what is not there. *)
LEMMA WriteStands ==
    ASSUME ServerInd, NEW q \in Req, Serving(q), Keeps(q), Unlogged(q), Head(todo[q]).do = "reply"
    PROVE  Stand(users, groups, members)
<1>1. /\ req[q].verb \notin {"GET", "LIST"} /\ BodyFits(req[q])
      /\ ~Pending(q) /\ members = Meant(req[q], OldMembers(q))
      /\ req[q].verb # "DELETE" => Saves(req[q])
  BY WriteIsDone
<1>2. /\ Stand(OldUsers(q), OldGroups(q), OldMembers(q))
      /\ \A u \in req[q].who : OldUsers(q)[u] # None
  BY DEF Unlogged
<1>3. /\ OldUsers(q) \in [Users -> UserRow \cup {None}] /\ OldGroups(q) \in [Groups -> GroupNames \cup {None}]
      /\ OldMembers(q) \in SUBSET (Groups \X Users)
  BY DEF Keeps, WasFits
<1>4. CASE req[q].verb = "DELETE"
  <2>1. members = {e \in OldMembers(q) : req[q].id \notin {e[1], e[2]}}
    BY <1>1, <1>4 DEF Meant
  <2>2. Put(q, None)
    BY <1>1, <1>4 DEF Keeps, Rows
  <2>3. \A e \in members : users[e[2]] = OldUsers(q)[e[2]] /\ groups[e[1]] = OldGroups(q)[e[1]]
    BY <1>3, <2>1, <2>2 DEF Put
  <2> QED
    BY <1>2, <2>1, <2>3 DEF Stand
<1>5. CASE req[q].verb # "DELETE"
  <2> DEFINE v == IF req[q].id \in Users THEN NewUser(q) ELSE Wanted(q)
  <2>1. Put(q, v)
    BY <1>1, <1>5 DEF Keeps, Rows
  <2>2. v # None
    BY <1>1, <1>5, NewRowFits, NoneAssumption
  <2> HIDE DEF v
  <2>3. \A u \in Users : OldUsers(q)[u] # None => users[u] # None
    BY <1>3, <2>1, <2>2 DEF Put
  <2>4. \A g \in Groups : OldGroups(q)[g] # None \/ g = req[q].id => groups[g] # None
    BY <1>3, <2>1, <2>2, KindAssumption DEF Put
  <2>5. \A e \in members : e \in OldMembers(q) \/ (e[1] = req[q].id /\ e[1] \in Groups /\ e[2] \in req[q].who)
    <3>1. req[q].id \in Groups \/ req[q].id \in Users
      BY <1>1 DEF BodyFits, Res
    <3> QED
      BY <1>1, <1>5, <3>1 DEF Meant
  <2>6. req[q].who \in SUBSET Users
    BY <1>1 DEF BodyFits
  <2>7. ASSUME NEW e \in members PROVE users[e[2]] # None /\ groups[e[1]] # None
    <3>1. CASE e \in OldMembers(q)
      <4>1. e[1] \in Groups /\ e[2] \in Users
        BY <1>3, <3>1
      <4> QED
        BY <1>2, <2>3, <2>4, <3>1, <4>1 DEF Stand
    <3>2. CASE e[1] = req[q].id /\ e[1] \in Groups /\ e[2] \in req[q].who
      BY <1>2, <2>3, <2>4, <2>6, <3>2
    <3> QED
      BY <2>5, <3>1, <3>2
  <2> QED
    BY <2>7 DEF Stand
<1> QED
  BY <1>4, <1>5

LEMMA TowardIs ==
    ASSUME NEW q \in Req, NEW what \in {"joined", "left"}, NEW J, NEW L,
           Left(q)' = {Do("row")} \cup (Each1("joined", J) \cup Each1("left", L)), req' = req
    PROVE  Toward(q, what)' = {req[q].id} \X (IF what = "joined" THEN J ELSE L)
<1>1. \A e : e \in Toward(q, what)' <=> \E s \in Left(q)' : s.do = what /\ e = <<req[q].id, s.who>>
  BY DEF Toward, EdgesOf
<1> DEFINE W == IF what = "joined" THEN J ELSE L
<1>2. ASSUME NEW s \in Left(q)', s.do = what PROVE \E u \in W : s = [do |-> what, who |-> u]
  BY <1>2 DEF Do, Each1, To
<1>3. ASSUME NEW u \in W PROVE [do |-> what, who |-> u] \in Left(q)'
  <2>1. [do |-> what, who |-> u] \in Each1(what, W)
    BY DEF Each1, To
  <2> QED
    BY <2>1
<1> HIDE DEF W
<1>4. \A e : (\E s \in Left(q)' : s.do = what /\ e = <<req[q].id, s.who>>) <=> (\E u \in W : e = <<req[q].id, u>>)
  <2>1. ASSUME NEW e, NEW s \in Left(q)', s.do = what, e = <<req[q].id, s.who>>
        PROVE  \E u \in W : e = <<req[q].id, u>>
    BY <1>2, <2>1
  <2>2. ASSUME NEW e, NEW u \in W, e = <<req[q].id, u>>
        PROVE  \E s \in Left(q)' : s.do = what /\ e = <<req[q].id, s.who>>
    <3> DEFINE s == [do |-> what, who |-> u]
    <3>1. s \in Left(q)' /\ s.do = what /\ s.who = u
      BY <1>3
    <3> HIDE DEF s
    <3> QED
      BY <2>2, <3>1
  <2> QED
    BY <2>1, <2>2
<1>5. \A e : e \in {req[q].id} \X W <=> \E u \in W : e = <<req[q].id, u>>
  OBVIOUS
<1>6. Toward(q, what)' = {req[q].id} \X W
  <2>1. \A e : e \in Toward(q, what)' <=> e \in {req[q].id} \X W
    BY <1>1, <1>4, <1>5
  <2>2. Toward(q, what)' \subseteq {req[q].id} \X W /\ {req[q].id} \X W \subseteq Toward(q, what)'
    BY <2>1
  <2> QED
    BY <2>2
<1> QED
  BY <1>6 DEF W

(* For a group, what was is turned into what is by those gained and lost. *)
LEMMA GainedAndLost ==
    ASSUME ServerInd, NEW q \in Req, Keeps(q), req[q].id \in Groups, Saves(req[q]), BodyFits(req[q]),
           members = Meant(req[q], OldMembers(q)),
           Had(q) = {u \in Users : <<req[q].id, u>> \in OldMembers(q)}
    PROVE  members = (OldMembers(q) \cup ({req[q].id} \X (Got(q) \ Had(q)))) \ ({req[q].id} \X (Had(q) \ Got(q)))
<1> DEFINE r == req[q].id
<1>1. members \in SUBSET (Groups \X Users) /\ OldMembers(q) \in SUBSET (Groups \X Users)
  BY DEF ServerInd, Tables, Keeps, WasFits
<1>2. Got(q) = {u \in Users : <<r, u>> \in members}
  BY DEF Got, MembersOf
<1>3. \A e : e[1] # r => (e \in members <=> e \in OldMembers(q))
  <2>1. r \notin Users /\ req[q].verb # "DELETE"
    BY KindAssumption DEF Saves
  <2> QED
    BY <2>1 DEF Meant
<1> HIDE DEF r
<1>4. ASSUME NEW g \in Groups, NEW u \in Users
      PROVE  <<g, u>> \in members
               <=> <<g, u>> \in (OldMembers(q) \cup ({r} \X (Got(q) \ Had(q)))) \ ({r} \X (Had(q) \ Got(q)))
  <2>1. CASE g = r
    <3>1. (u \in Got(q) <=> <<r, u>> \in members) /\ (u \in Had(q) <=> <<r, u>> \in OldMembers(q))
      BY <1>2 DEF r
    <3> QED
      BY <2>1, <3>1
  <2>2. CASE g # r
    <3>1. <<g, u>> \in members <=> <<g, u>> \in OldMembers(q)
      BY <1>3, <2>2
    <3> QED
      BY <2>2, <3>1
  <2> QED
    BY <2>1, <2>2
<1>5. (OldMembers(q) \cup ({r} \X (Got(q) \ Had(q)))) \ ({r} \X (Had(q) \ Got(q))) \in SUBSET (Groups \X Users)
  <2>1. r \in Groups /\ Got(q) \in SUBSET Users
    BY <1>2 DEF r
  <2> QED
    BY <1>1, <2>1
<1> HIDE DEF r
<1>6. members = (OldMembers(q) \cup ({r} \X (Got(q) \ Had(q)))) \ ({r} \X (Had(q) \ Got(q)))
  BY <1>1, <1>4, <1>5
<1> QED
  BY <1>6 DEF r

(* What the log still has to be told once a write is answered. *)
LEMMA ReplyLeaves ==
    ASSUME ServerInd, NEW q \in Req, Serving(q), Keeps(q), Reply(q), ~Untold(q)
    PROVE  /\ Left(q)' = {Do("row")} \cup Deltas(q) /\ todo'[q] # <<>>
           /\ Has(q, "row")' /\ (Deltas(q) = {} => ~Has(q, "joined")' /\ ~Has(q, "left")')
           /\ answer'[q] # None /\ req' = req /\ told' = told
           /\ users' = users /\ groups' = groups /\ members' = members
           /\ local'[q].row = IF req[q].verb = "DELETE" THEN None
                              ELSE IF req[q].id \in Users THEN NewUser(q) ELSE Wanted(q)
           /\ local'[q].row = None <=> req[q].verb = "DELETE"
<1>1. Active(q) /\ Head(todo[q]).do = "reply" /\ Queued(q) /\ Framed
  BY DEF Reply, Head1, ServerInd
<1>2. Left(q)' = {Do("row")} \cup Deltas(q)
  BY ReplyTells
<1>3. todo'[q] # <<>>
  BY <1>2 DEF Left, Range
<1>4. Has(q, "row")'
  <2>1. Do("row") \in Left(q)' /\ Do("row").do = "row"
    BY <1>2 DEF Do
  <2> QED
    BY <2>1 DEF Has
<1>5. Deltas(q) = {} => ~Has(q, "joined")' /\ ~Has(q, "left")'
  BY <1>2 DEF Has, Do
<1>6. answer'[q] = 200 /\ req' = req /\ told' = told /\ users' = users /\ groups' = groups /\ members' = members
  BY <1>1 DEF Reply, Keep, rows, Framed
<1>7. 200 # None
  BY NoneAssumption DEF Status
<1>8. PICK v : /\ v = IF req[q].verb = "DELETE" THEN None
                      ELSE IF req[q].id \in Users THEN NewUser(q) ELSE Wanted(q)
               /\ local' = [local EXCEPT ![q] = [@ EXCEPT !.row = v]]
  BY DEF Reply
<1>9. local'[q].row = v
  <2>1. local' = [local EXCEPT ![q] = [@ EXCEPT !.row = v]]
    BY <1>8
  <2> QED
    BY <1>1, <2>1 DEF Framed, Queued
<1>10. v = None <=> req[q].verb = "DELETE"
  <2>1. CASE req[q].verb = "DELETE"
    BY <1>8, <2>1
  <2>2. CASE req[q].verb # "DELETE"
    <3>1. Saves(req[q])
      BY <1>1, <2>2, WriteIsDone
    <3> QED
      BY <1>1, <1>8, <2>2, <3>1, NewRowFits, NoneAssumption
  <2> QED
    BY <2>1, <2>2
<1> QED
  BY <1>2, <1>3, <1>4, <1>5, <1>6, <1>7, <1>8, <1>9, <1>10

LEMMA ReplyLogs ==
    ASSUME ServerInd, NEW q \in Req, Serving(q), Keeps(q), Passed(q), Unlogged(q), Emits, Reply(q)
    PROVE  Logged(q)'
<1> DEFINE r == req[q].id
           v == IF req[q].verb = "DELETE" THEN None ELSE IF r \in Users THEN NewUser(q) ELSE Wanted(q)
<1>1. Active(q) /\ Head(todo[q]).do = "reply" /\ Queued(q)
  BY DEF Reply, Head1, ServerInd
<1>2. /\ req[q].verb \notin {"GET", "LIST"} /\ BodyFits(req[q])
      /\ ~Pending(q) /\ members = Meant(req[q], OldMembers(q))
      /\ req[q].verb # "DELETE" => Saves(req[q])
  BY <1>1, WriteIsDone
<1>3. /\ req[q].verb # "DELETE" /\ r \in Groups => Had(q) = {u \in Users : <<r, u>> \in OldMembers(q)}
      /\ ~Untold(q)
  BY WhatWasRead
<1>4. /\ Left(q)' = {Do("row")} \cup Deltas(q) /\ todo'[q] # <<>>
      /\ Has(q, "row")' /\ (Deltas(q) = {} => ~Has(q, "joined")' /\ ~Has(q, "left")')
      /\ req' = req /\ told' = told
      /\ users' = users /\ groups' = groups /\ members' = members
      /\ local'[q].row = v
      /\ local'[q].row = None <=> req[q].verb = "DELETE"
  BY <1>3, ReplyLeaves
<1>5. Stand(users', groups', members')
  BY <1>1, <1>4, WriteStands
<1>6. told = [users |-> OldUsers(q), groups |-> OldGroups(q), members |-> OldMembers(q)]
  BY DEF Unlogged, OldTable
<1>7. Put(q, v)
  BY <1>2 DEF Keeps, Rows
<1> HIDE DEF v
<1>8. CASE r \in Users
  <2>1. r \notin Groups /\ Deltas(q) = {}
    BY <1>8, KindAssumption DEF Deltas
  <2>2. \A s \in Left(q)' : s.do = "row"
    BY <1>4, <2>1 DEF Do
  <2>3. users = [told.users EXCEPT ![r] = v] /\ groups = told.groups
    BY <1>6, <1>7, <1>8 DEF Put
  <2>4. members = IF v = None THEN {e \in told.members : e[2] # r} ELSE told.members
    <3>1. CASE req[q].verb = "DELETE"
      <4>1. members = {e \in OldMembers(q) : r \notin {e[1], e[2]}}
        BY <1>2, <3>1 DEF Meant
      <4>2. \A e \in OldMembers(q) : e[1] # r
        BY <2>1 DEF Keeps, WasFits
      <4>3. v = None
        BY <3>1 DEF v
      <4> QED
        BY <1>6, <4>1, <4>2, <4>3
    <3>2. CASE req[q].verb # "DELETE"
      <4>1. members = OldMembers(q)
        BY <1>2, <1>8, <3>2 DEF Meant
      <4> QED
        BY <1>4, <1>6, <3>2, <4>1
    <3> QED
      BY <3>1, <3>2
  <2>5. ~Has(q, "joined")' /\ ~Has(q, "left")'
    BY <1>4, <2>1
  <2> QED
    BY <1>4, <1>5, <1>8, <2>2, <2>3, <2>4, <2>5 DEF Logged
<1>9. CASE r \notin Users
  <2>1. r \in Groups
    BY <1>2, <1>9 DEF BodyFits, Res
  <2>2. users = told.users /\ groups = [told.groups EXCEPT ![r] = v]
    BY <1>6, <1>7, <1>9 DEF Put
  <2>3. CASE req[q].verb = "DELETE"
    <3>1. Deltas(q) = {}
      BY <2>3 DEF Deltas
    <3>2. \A s \in Left(q)' : s.do = "row"
      BY <1>4, <3>1 DEF Do
    <3>3. members = {e \in told.members : e[1] # r}
      <4>1. members = {e \in OldMembers(q) : r \notin {e[1], e[2]}}
        BY <1>2, <2>3 DEF Meant
      <4>2. \A e \in OldMembers(q) : e[2] # r
        BY <1>9 DEF Keeps, WasFits
      <4> QED
        BY <1>6, <4>1, <4>2
    <3>4. ~Has(q, "joined")' /\ ~Has(q, "left")'
      BY <1>4, <3>1
    <3> QED
      BY <1>4, <1>5, <1>9, <2>2, <2>3, <3>2, <3>3, <3>4 DEF Logged
  <2>4. CASE req[q].verb # "DELETE"
    <3> DEFINE J == Got(q) \ Had(q)
               L == Had(q) \ Got(q)
    <3>1. Had(q) = {u \in Users : <<r, u>> \in OldMembers(q)} /\ Got(q) = {u \in Users : <<r, u>> \in members}
      BY <1>3, <2>1, <2>4 DEF Got, MembersOf
    <3>2. members = (OldMembers(q) \cup ({r} \X J)) \ ({r} \X L)
      BY <1>2, <2>1, <2>4, <3>1, GainedAndLost
    <3>3. Left(q)' = {Do("row")} \cup (Each1("joined", J) \cup Each1("left", L))
      BY <1>4, <2>1, <2>4 DEF Deltas
    <3>4. \A u \in J \cup L : users[u] # None
      <4>1. \A u \in Got(q) : users[u] # None
        BY <1>4, <1>5, <3>1 DEF Stand
      <4>2. \A u \in Had(q) : OldUsers(q)[u] # None
        BY <3>1 DEF Unlogged, Stand
      <4>3. users = OldUsers(q)
        BY <1>6, <2>2
      <4> QED
        BY <4>1, <4>2, <4>3
    <3> HIDE DEF J, L
    <3>5. Toward(q, "joined")' = {r} \X J /\ Toward(q, "left")' = {r} \X L
      BY <1>4, <3>3, TowardIs
    <3>6. \A s \in Left(q)' : s.do # "row" => users'[s.who] # None
      BY <1>4, <3>3, <3>4 DEF Do, Each1, To
    <3>7. v # None
      BY <1>4, <2>4
    <3>8. members' = (told'.members \cup Toward(q, "joined")') \ Toward(q, "left")'
      BY <1>4, <1>6, <3>2, <3>5
    <3> QED
      BY <1>4, <1>5, <1>9, <2>2, <2>4, <3>6, <3>7, <3>8 DEF Logged
  <2> QED
    BY <2>3, <2>4
<1> QED
  BY <1>8, <1>9

LEMMA ReplyKeepsLog ==
    ASSUME ServerInd, AloneInv, LogInv, Calm', NEW q \in Req, Serving(q), Reply(q)
    PROVE  LogInv'
<1>1. Active(q) /\ Statement(q)
  BY DEF Serving, Statement
<1>2. Calm
  BY <1>1, CalmBefore DEF ServerInd, Step
<1>3. \A p \in Req \ {q} : todo'[p] = <<>>
  BY <1>1, <1>2, OnlyOne, StatementIsOnes DEF Calm
<1>4. Keeps(q) /\ Passed(q) /\ Unlogged(q) /\ Emits
  BY <1>1, <1>2, OnlyOne DEF Calm, LogInv
<1>5. Logged(q)'
  BY <1>4, ReplyLogs
<1>6. todo'[q] # <<>> /\ answer'[q] # None
  BY <1>4, WhatWasRead, ReplyLeaves
<1> QED
  BY <1>3, <1>5, <1>6, LogIsOnes DEF Serving

(* The log is told by requests that are answered. *)
LEMMA TellerIsAnswered ==
    ASSUME ServerInd, NEW q \in Req, Active(q), Head(todo[q]).do \in {"row", "joined", "left"}
    PROVE  Telling(q)
<1>1. Queued(q)
  BY DEF ServerInd
<1> QED
  BY <1>1, ServedByPlan, PlannedIsAsked DEF Serving, Telling

LEMMA NothingLeft ==
    ASSUME NEW q \in Req, todo'[q] \in Seq(Stmt), \A s \in Left(q)' : s.do \in {"row", "joined", "left"},
           ~Has(q, "row")', ~Has(q, "joined")', ~Has(q, "left")'
    PROVE  todo'[q] = <<>>
<1>1. Left(q)' = {}
  BY DEF Has
<1> QED
  BY <1>1, EmptyList DEF Left

LEMMA TellerGoesOn ==
    ASSUME ServerInd, NEW q \in Req, Active(q), Next1(q), Keep, answer' = answer,
           Head(todo[q]).do \in {"row", "joined", "left"}
    PROVE  /\ todo'[q] \in Seq(Stmt) /\ Left(q)' \subseteq Left(q)
           /\ \A s \in Left(q)' : s.do \in {"row", "joined", "left"}
           /\ req' = req /\ ~Serving(q)'
           /\ \A what : what # Head(todo[q]).do => (Has(q, what)' <=> Has(q, what))
           /\ \A what : what # Head(todo[q]).do => Toward(q, what)' = Toward(q, what)
           /\ Head(todo[q]) \in Left(q) /\ Head(todo[q]) \in Stmt
           /\ \A x \in Left(q) : x = Head(todo[q]) \/ x \in Left(q)'
<1>1. Queued(q) /\ Framed /\ Telling(q)
  BY TellerIsAnswered DEF ServerInd
<1>2. req' = req
  BY DEF Keep
<1>3. /\ todo'[q] \in Seq(Stmt) /\ Left(q)' \subseteq Left(q)
      /\ \A x \in Left(q) : x.do # Head(todo[q]).do => x \in Left(q)'
      /\ \A x \in Left(q) : x = Head(todo[q]) \/ x \in Left(q)'
      /\ \A what : what # Head(todo[q]).do => (Has(q, what)' <=> Has(q, what))
  BY <1>1, NextLeaves
<1>4. \A s \in Left(q) : s.do \in {"row", "joined", "left"}
  BY <1>1 DEF Queued
<1>5. ASSUME NEW what, what # Head(todo[q]).do PROVE Toward(q, what)' = Toward(q, what)
  <2>1. \A x : x.do = what => (x \in Left(q)' <=> x \in Left(q))
    BY <1>3, <1>5
  <2>2. {x \in Left(q)' : x.do = what} = {x \in Left(q) : x.do = what}
    BY <2>1
  <2> QED
    BY <1>2, <2>2 DEF Toward, EdgesOf
<1>6. ~Serving(q)'
  BY <1>1 DEF Serving, Telling
<1> QED
  BY <1>1, <1>2, <1>3, <1>4, <1>5, <1>6, EarlierIsDone

(* With nothing left to tell, the log tells the state. *)
LEMMA AllIsTold ==
    ASSUME NEW q \in Req, todo'[q] = <<>>, Logged(q)', LogFits'
    PROVE  told' = Table' /\ Stand(users', groups', members')
<1>1. Left(q)' = {}
  BY DEF Left, Range
<1>2. ~Has(q, "row")' /\ Toward(q, "joined")' = {} /\ Toward(q, "left")' = {}
  BY <1>1 DEF Has, Toward, EdgesOf
<1>3. users' = told'.users /\ groups' = told'.groups /\ members' = told'.members
  BY <1>2 DEF Logged
<1>4. told' = [users |-> told'.users, groups |-> told'.groups, members |-> told'.members]
  BY DEF LogFits
<1> QED
  BY <1>3, <1>4 DEF Table, Logged

LEMMA TellRowKeepsLog ==
    ASSUME ServerInd, AloneInv, LogInv, Calm', NEW q \in Req, TellRow(q)
    PROVE  LogInv'
<1> DEFINE r == req[q].id
           v == local[q].row
<1>1. Active(q) /\ Head(todo[q]).do = "row" /\ Statement(q) /\ Next1(q) /\ Keep /\ answer' = answer
      /\ users' = users /\ groups' = groups /\ members' = members /\ local' = local
  BY DEF TellRow, Head1, Statement, rows
<1>2. Calm
  BY <1>1, CalmBefore DEF ServerInd, Step
<1>3. \A p \in Req \ {q} : todo'[p] = <<>>
  BY <1>1, <1>2, OnlyOne, StatementIsOnes DEF Calm
<1>4. Telling(q) /\ Logged(q)
  BY <1>1, <1>2, TellerIsAnswered DEF LogInv
<1>5. /\ todo'[q] \in Seq(Stmt) /\ Left(q)' \subseteq Left(q)
      /\ \A s \in Left(q)' : s.do \in {"row", "joined", "left"}
      /\ req' = req /\ ~Serving(q)'
      /\ (Has(q, "joined")' <=> Has(q, "joined")) /\ (Has(q, "left")' <=> Has(q, "left"))
      /\ Toward(q, "joined")' = Toward(q, "joined") /\ Toward(q, "left")' = Toward(q, "left")
  BY <1>1, TellerGoesOn
<1>6. Has(q, "row") /\ ~Has(q, "row")'
  <2>1. Queued(q) /\ Framed
    BY DEF ServerInd
  <2>2. \A what : what = Head(todo[q]).do /\ what \notin Listing => ~Has(q, what)'
    BY <1>1, <2>1, NextLeaves
  <2>3. Has(q, Head(todo[q]).do)
    BY <1>1, <2>1, EarlierIsDone
  <2> QED
    BY <1>1, <2>2, <2>3 DEF Listing
<1>7. LogFits' /\ LogFits
  BY TellRowKeepsServer DEF ServerInd
<1>8. told' = [users |-> told'.users, groups |-> told'.groups, members |-> told'.members]
  BY <1>7 DEF LogFits
<1>9. Stand(users', groups', members')
  BY <1>1, <1>4 DEF Logged
<1>10. CASE r \in Users
  <2>1. told' = [told EXCEPT !.users = [@ EXCEPT ![r] = v],
                             !.members = IF v = None THEN {e \in @ : e[2] # r} ELSE @]
    BY <1>10 DEF TellRow
  <2>2. /\ told'.users = [told.users EXCEPT ![r] = v] /\ told'.groups = told.groups
        /\ told'.members = IF v = None THEN {e \in told.members : e[2] # r} ELSE told.members
    <3> HIDE DEF r, v
    <3>1. told = [users |-> told.users, groups |-> told.groups, members |-> told.members]
      BY <1>7 DEF LogFits
    <3> QED
      BY <2>1, <3>1
  <2>3. /\ users = [told.users EXCEPT ![r] = v] /\ groups = told.groups
        /\ members = IF v = None THEN {e \in told.members : e[2] # r} ELSE told.members
        /\ ~Has(q, "joined") /\ ~Has(q, "left")
    BY <1>4, <1>6, <1>10 DEF Logged
  <2>4. todo'[q] = <<>>
    BY <1>5, <1>6, <2>3, NothingLeft
  <2>5. told' = Table'
    BY <1>1, <1>8, <2>2, <2>3 DEF Table
  <2> QED
    BY <1>3, <1>9, <2>4, <2>5, LogIsOnes DEF Serving, Telling, Active
<1>11. CASE r \notin Users
  <2>1. told' = [told EXCEPT !.groups = [@ EXCEPT ![r] = v],
                             !.members = IF v = None THEN {e \in @ : e[1] # r} ELSE @]
    BY <1>11 DEF TellRow
  <2>2. /\ told'.users = told.users /\ told'.groups = [told.groups EXCEPT ![r] = v]
        /\ told'.members = IF v = None THEN {e \in told.members : e[1] # r} ELSE told.members
    <3> HIDE DEF r, v
    <3>1. told = [users |-> told.users, groups |-> told.groups, members |-> told.members]
      BY <1>7 DEF LogFits
    <3> QED
      BY <2>1, <3>1
  <2>3. /\ users = told.users /\ groups = [told.groups EXCEPT ![r] = v]
        /\ members = IF v = None THEN {e \in told.members : e[1] # r}
                     ELSE (told.members \cup Toward(q, "joined")) \ Toward(q, "left")
        /\ \A s \in Left(q) : s.do # "row" => users[s.who] # None
        /\ v = None => ~Has(q, "joined") /\ ~Has(q, "left")
    BY <1>4, <1>6, <1>11 DEF Logged
  <2>4. v = None => Toward(q, "joined") = {} /\ Toward(q, "left") = {}
    BY <2>3 DEF Toward, EdgesOf, Has
  <2>5. members = (told'.members \cup Toward(q, "joined")) \ Toward(q, "left")
    BY <2>2, <2>3, <2>4
  <2> HIDE DEF r
  <2>6. Logged(q)'
    <3>1. req'[q].id \notin Users
      BY <1>5, <1>11 DEF r
    <3>2. local'[q].row = v
      BY <1>1
    <3>3. \A s \in Left(q)' : s.do # "row" => users'[s.who] # None
      BY <1>1, <1>5, <2>3
    <3>4. users' = told'.users /\ groups' = told'.groups
      BY <1>1, <2>2, <2>3
    <3>5. members' = (told'.members \cup Toward(q, "joined")') \ Toward(q, "left")'
      BY <1>1, <1>5, <2>5
    <3>6. v = None => ~Has(q, "joined")' /\ ~Has(q, "left")'
      BY <1>5, <2>3
    <3> HIDE DEF v
    <3> QED
      BY <1>6, <1>9, <3>1, <3>2, <3>3, <3>4, <3>5, <3>6 DEF Logged
  <2>7. todo'[q] = <<>> => told' = Table' /\ Stand(users', groups', members')
    BY <1>7, <2>6, AllIsTold
  <2> QED
    BY <1>3, <1>5, <2>6, <2>7, LogIsOnes
<1> QED
  BY <1>10, <1>11

(* The memberships of a group are told one by one, first those gained. *)
LEMMA TellMemberKeepsLog ==
    ASSUME ServerInd, AloneInv, LogInv, Calm', NEW q \in Req, TellMember(q)
    PROVE  LogInv'
<1> DEFINE r == req[q].id
<1>0. PICK h : h = Head(todo[q])
  OBVIOUS
<1>1. Active(q) /\ h.do \in {"joined", "left"} /\ Statement(q) /\ Next1(q) /\ Keep /\ answer' = answer
      /\ users' = users /\ groups' = groups /\ members' = members /\ local' = local
  BY <1>0 DEF TellMember, Statement, rows
<1>2. Calm
  BY <1>1, CalmBefore DEF ServerInd, Step
<1>3. \A p \in Req \ {q} : todo'[p] = <<>>
  BY <1>1, <1>2, OnlyOne, StatementIsOnes DEF Calm
<1>4. Telling(q) /\ Logged(q)
  BY <1>0, <1>1, <1>2, TellerIsAnswered DEF LogInv
<1>5. /\ todo'[q] \in Seq(Stmt) /\ Left(q)' \subseteq Left(q)
      /\ req' = req /\ ~Serving(q)'
      /\ \A what : what # h.do => (Has(q, what)' <=> Has(q, what))
      /\ \A what : what # h.do => Toward(q, what)' = Toward(q, what)
      /\ h \in Left(q) /\ \A x \in Left(q) : x = h \/ x \in Left(q)'
  BY <1>0, <1>1, TellerGoesOn
<1>6. ~Has(q, "row") /\ (h.do = "left" => ~Has(q, "joined"))
  <2>1. Queued(q)
    BY DEF ServerInd
  <2>2. "joined" \in DOMAIN Turn
    BY DEF Turn
  <2> QED
    BY <1>0, <1>1, <2>1, <2>2, EarlierIsDone, Ranks, Whats
<1>7. LogFits' /\ LogFits
  BY TellMemberKeepsServer DEF ServerInd
<1>8. /\ r \notin Users /\ Stand(users, groups, members)
      /\ \A s \in Left(q) : s.do # "row" => users[s.who] # None
      /\ users = told.users /\ groups = told.groups
      /\ members = (told.members \cup Toward(q, "joined")) \ Toward(q, "left")
      /\ local[q].row # None
  BY <1>1, <1>4, <1>5, <1>6 DEF Logged, Has
<1>9. users[h.who] # None
  BY <1>1, <1>5, <1>8
<1>10. told' = [told EXCEPT !.members = IF h.do = "joined" THEN @ \cup {<<r, h.who>>} ELSE @ \ {<<r, h.who>>}]
  BY <1>0, <1>9 DEF TellMember
<1>11. /\ told'.users = told.users /\ told'.groups = told.groups
       /\ told'.members = IF h.do = "joined" THEN told.members \cup {<<r, h.who>>}
                          ELSE told.members \ {<<r, h.who>>}
  <2> HIDE DEF r
  <2>1. told = [users |-> told.users, groups |-> told.groups, members |-> told.members]
    BY <1>7 DEF LogFits
  <2> QED
    BY <1>10, <2>1
<1>12. \A what : what = h.do => Toward(q, what)' \cup {<<r, h.who>>} = Toward(q, what)
  <2> SUFFICES ASSUME NEW what, what = h.do
               PROVE  Toward(q, what)' \cup {<<r, h.who>>} = Toward(q, what)
    OBVIOUS
  <2>1. {x \in Left(q) : x.do = what} = {x \in Left(q)' : x.do = what} \cup {h}
    BY <1>5
  <2>2. \A e : e \in Toward(q, what) <=> \E s \in Left(q) : s.do = what /\ e = <<r, s.who>>
    BY DEF Toward, EdgesOf
  <2>3. \A e : e \in Toward(q, what)' <=> \E s \in Left(q)' : s.do = what /\ e = <<r, s.who>>
    BY <1>5 DEF Toward, EdgesOf
  <2> HIDE DEF r
  <2>4. \A e : e \in Toward(q, what) <=> e \in Toward(q, what)' \/ e = <<r, h.who>>
    BY <1>5, <2>2, <2>3
  <2> QED
    BY <2>4
<1> HIDE DEF r
<1>13. members = (told'.members \cup Toward(q, "joined")') \ Toward(q, "left")'
  <2>1. CASE h.do = "joined"
    <3>1. Toward(q, "joined")' \cup {<<r, h.who>>} = Toward(q, "joined") /\ Toward(q, "left")' = Toward(q, "left")
      BY <1>5, <1>12, <2>1
    <3> QED
      BY <1>8, <1>11, <2>1, <3>1
  <2>2. CASE h.do = "left"
    <3>1. Toward(q, "left")' \cup {<<r, h.who>>} = Toward(q, "left") /\ Toward(q, "joined")' = Toward(q, "joined")
      BY <1>5, <1>12, <2>2
    <3>2. Toward(q, "joined") = {}
      BY <1>6, <2>2 DEF Toward, EdgesOf, Has
    <3> QED
      BY <1>8, <1>11, <2>2, <3>1, <3>2
  <2> QED
    BY <1>1, <2>1, <2>2
<1>14. Logged(q)'
  <2>1. req'[q].id \notin Users
    BY <1>5, <1>8 DEF r
  <2>2. ~Has(q, "row")'
    BY <1>1, <1>5, <1>6
  <2>3. \A s \in Left(q)' : s.do # "row" => users'[s.who] # None
    BY <1>1, <1>5, <1>8
  <2> QED
    BY <1>1, <1>8, <1>11, <1>13, <2>1, <2>2, <2>3 DEF Logged
<1>15. todo'[q] = <<>> => told' = Table' /\ Stand(users', groups', members')
  BY <1>7, <1>14, AllIsTold
<1> QED
  BY <1>3, <1>5, <1>14, <1>15, LogIsOnes

LEMMA ReceiveKeepsLog ==
    ASSUME ServerInd, LogInv, Calm', NEW q \in Req, NEW r \in Res, NEW rq \in Bodies(r), Receive(q, rq)
    PROVE  LogInv'
<1>1. Framed /\ todo[q] = <<>> /\ BodyFits(rq) /\ blurred \in BOOLEAN /\ torn \in BOOLEAN
  BY BodiesFit DEF ServerInd, Receive, Active
<1>2. /\ req' = [req EXCEPT ![q] = rq] /\ todo' = [todo EXCEPT ![q] = Statements(rq)]
      /\ was' = [was EXCEPT ![q] = <<users, groups, members>>] /\ answer' = [answer EXCEPT ![q] = None]
      /\ role' = role /\ users' = users /\ groups' = groups /\ members' = members /\ told' = told
      /\ Sendable(rq)
  BY DEF Receive, rows
<1>3. /\ req'[q] = rq /\ todo'[q] = Statements(rq) /\ was'[q] = <<users, groups, members>> /\ answer'[q] = None
      /\ \A p \in Req \ {q} : todo'[p] = todo[p]
  BY <1>1, <1>2 DEF Framed
<1>4. Calm
  BY CalmBefore DEF ServerInd, Step
<1>5. \A p \in Req \ {q} : todo[p] = <<>>
  BY <1>1 DEF Receive, Calm, Active
<1>6. told = Table /\ Stand(users, groups, members)
  BY <1>1, <1>4, <1>5 DEF LogInv, Active
<1>7. OldUsers(q)' = users /\ OldGroups(q)' = groups /\ OldMembers(q)' = members
  BY <1>3 DEF OldUsers, OldGroups, OldMembers
<1>8. \A u \in rq.who : users[u] # None
  BY <1>1, <1>2 DEF Sendable, BodyFits, Res
<1>9. rq.verb \in {"PUT", "PATCH", "DELETE"} => Has(q, "before")'
  <2>1. Emits
    BY <1>4 DEF Calm
  <2>2. rq.verb \in {"PUT", "PATCH", "DELETE"} => Do("before") \in Planned(rq)
    BY <2>1 DEF Planned, Only
  <2>3. Left(q)' = Planned(rq)
    BY <1>1, <1>3, StatementsArePlanned DEF Left
  <2>4. Do("before").do = "before"
    BY DEF Do
  <2> QED
    BY <2>2, <2>3, <2>4 DEF Has
<1>10. Unlogged(q)'
  <2>1. told' = OldTable(q)' /\ Stand(OldUsers(q), OldGroups(q), OldMembers(q))'
    BY <1>2, <1>6, <1>7 DEF Table, OldTable, Stand
  <2>2. (\A u \in req[q].who : OldUsers(q)[u] # None)'
    BY <1>3, <1>7, <1>8
  <2> QED
    BY <1>3, <1>9, <2>1, <2>2 DEF Unlogged
<1>11. told' = Table' /\ Stand(users', groups', members')
  BY <1>2, <1>6 DEF Table
<1> QED
  BY <1>3, <1>5, <1>10, <1>11, LogIsOnes DEF Telling

LEMMA LogStarts ==
    ASSUME Init
    PROVE  LogInv
<1>1. \A q \in Req : ~Active(q)
  BY DEF Init, Active
<1>2. told = Table
  BY DEF Init, Table
<1>3. Stand(users, groups, members)
  <2>1. PICK there \in SUBSET Users, g \in SUBSET Groups :
          \E n \in [there -> UserNames] :
            /\ users = [u \in Users |-> IF u \in there THEN [name |-> n[u], active |-> TRUE] ELSE None]
            /\ groups = [x \in Groups |-> IF x \in g THEN CHOOSE m \in GroupNames : TRUE ELSE None]
            /\ members = g \X there
    BY DEF Init
  <2>2. PICK n \in [there -> UserNames] :
            users = [u \in Users |-> IF u \in there THEN [name |-> n[u], active |-> TRUE] ELSE None]
    BY <2>1
  <2>3. groups = [x \in Groups |-> IF x \in g THEN CHOOSE m \in GroupNames : TRUE ELSE None] /\ members = g \X there
    BY <2>1
  <2>4. \A u \in there : users[u] # None
    <3> SUFFICES ASSUME NEW u \in there PROVE users[u] # None
      OBVIOUS
    <3>1. users[u] = [name |-> n[u], active |-> TRUE] /\ n[u] \in UserNames
      BY <2>2
    <3>2. users[u] \in UserRow
      BY <3>1 DEF UserRow
    <3> QED
      BY <3>2, NoneAssumption
  <2>5. \A x \in g : groups[x] # None
    <3>1. (CHOOSE m \in GroupNames : TRUE) \in GroupNames
      BY NamesAssumption
    <3>2. (CHOOSE m \in GroupNames : TRUE) # None
      BY <3>1, NoneAssumption
    <3> QED
      BY <2>3, <3>2
  <2> QED
    BY <2>3, <2>4, <2>5 DEF Stand
<1> QED
  BY <1>1, <1>2, <1>3 DEF LogInv, Serving, Telling

LEMMA StatementKeepsLog ==
    ASSUME ServerInd, AloneInv, LogInv, Calm', NEW q \in Req, Statement(q)
    PROVE  LogInv'
<1>1. Active(q) /\ Queued(q)
  BY StatementIsOnes DEF ServerInd
<1>2. CASE Telling(q)
  <2>1. Head(todo[q]).do \in {"row", "joined", "left"}
    BY <1>1, <1>2, EarlierIsDone DEF Queued
  <2>2. TellRow(q) \/ TellMember(q)
    BY <2>1 DEF Statement, Before, Find, Render, Count, Page, CheckName, CheckFree, Unsupported, Save,
                WriteMembers, Erase, Reply, Head1
  <2> QED
    BY <2>2, TellRowKeepsLog, TellMemberKeepsLog
<1>3. CASE Serving(q) /\ answer'[q] = None
  BY <1>3, ServingKeepsLog
<1>4. CASE Serving(q) /\ answer'[q] # None
  <2>1. answer' # answer
    BY <1>4 DEF Serving
  <2>2. \/ \E status : Refuse(q, status)
        \/ Render(q) \/ Page(q) \/ Reply(q)
    BY <2>1 DEF Statement, Before, Find, Count, CheckName, CheckFree, Unsupported, Save,
                WriteMembers, Erase, TellRow, TellMember, ReadsOnly
  <2> QED
    BY <1>4, <2>2, RefusalKeepsLog, ReaderKeepsLog, ReplyKeepsLog
<1> QED
  BY <1>1, <1>2, <1>3, <1>4 DEF Serving, Telling

LEMMA LogStays ==
    ASSUME ServerInd, AloneInv, LogInv, [Next]_vars
    PROVE  LogInv'
<1>1. CASE UNCHANGED vars
  BY <1>1 DEF vars, rows, client, history, LogInv, Calm, Emits, Active, Serving, Telling, Unlogged, Logged,
     Table, OldTable, OldUsers, OldGroups, OldMembers, OldRow, Has, Left, Toward
<1>2. CASE Next /\ ~Calm'
  BY <1>2 DEF LogInv
<1>3. CASE Next /\ Calm'
  <2>1. PICK q \in Req : Step(q)
    BY <1>3, NextIsAStep
  <2> QED
    BY <1>3, <2>1, ReceiveKeepsLog, StatementKeepsLog DEF Step
<1> QED
  BY <1>1, <1>2, <1>3

(* LogTellsTheState: what mock-emitter.ts logs of each answered write, from the
   members it captured before it and those it reads at the answer, is enough to
   rebuild the tables; for any tables and any number of requests one after another,
   refused, read or carried out. *)
THEOREM TheLogTellsTheState == Spec => []LogTellsTheState
<1>1. Init => LogInv
  BY LogStarts
<1>2. ServerInd /\ AloneInv /\ LogInv /\ [Next]_vars => LogInv'
  BY LogStays
<1>3. LogInv => LogTellsTheState
  BY DEF LogInv, Calm, LogTellsTheState, Table
<1> QED
  BY <1>1, <1>2, <1>3, ServerInvariant, AloneInvariant, PTL DEF Spec
=============================================================================
