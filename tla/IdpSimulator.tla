----------------------------- MODULE IdpSimulator -----------------------------
(***************************************************************************)
(* The simulated identity provider: its own directory of users and groups,    *)
(* the SCIM calls that carry each change to the proxy, and the timer that     *)
(* makes it churn by itself; workers/idp/.  Every call is read, then send,    *)
(* then save, and nothing keeps two calls, or two ticks, from overlapping.    *)
(* What answers behind the proxy is external: an upstream of accounts.        *)
(***************************************************************************)
EXTENDS Integers, Sequences, FiniteSets

CONSTANTS
    Users, Groups,      \* local ids
    Names,              \* user names and display names
    Caller,             \* calls and ticks served at a time
    MinUsers, MaxUsers, \* auto.ts: the size a tick keeps the directory in
    MaxCalls,           \* bound on the calls and ticks in all
    MaxFaults,          \* bound on refusals, lost answers and restarts
    None

VARIABLES
    row, edges,         \* the simulator's tables
    account, links,     \* upstream: accounts by the local id they were made for
    timer, leaked,      \* the timer in the map; timers nothing can clear
    auto,               \* the row the panel shows
    plan, at, seen,     \* each call: operations left, step of the first, what it read
    used, calls, faults,
    upset,              \* history: resources a fault, an overlap or a reset touched
    wanted, tangled     \* history: the last order; orders, ticks or a restart crossed

tables == <<row, edges>>
upstream == <<account, links>>
clock == <<timer, leaked, auto>>
calling == <<plan, at, seen>>
history == <<upset, wanted, tangled>>
vars == <<tables, upstream, clock, calling, used, calls, faults, history>>

Res == Users \cup Groups
Row == [name : Names, value : BOOLEAN, linked : BOOLEAN]
Account == [name : Names, value : BOOLEAN]
ASSUME NameAssumption ==
    /\ Users \cap Groups = {} /\ Names \cap Res = {}
    /\ None \notin Res \cup Row \cup Account
    /\ BOOLEAN \cap Res = {} /\ {"halt", "run", "tick"} \cap Res = {}

Op(do, r, with) == [do |-> do, on |-> r, with |-> with]
Order(what) == Op("auto", None, what)

Idle(c) == plan[c] = <<>>
Doing(c) == Head(plan[c])
Is(c, what, step) == ~Idle(c) /\ Doing(c).do \in what /\ at[c] = step

Touches(op) == ({op.on} \cup {op.with}) \cap Res
Busy(r) == \E c \in Caller : ~Idle(c) /\ at[c] # "look" /\ r \in Touches(Doing(c))

Kind(r) == IF r \in Users THEN Users ELSE Groups
Named(r, n) == {s \in Kind(r) : row[s] # None /\ row[s].name = n}
Local(set) == {r \in set : row[r] # None}
Linked(r) == row[r] # None /\ row[r].linked

GoTo(c, step) == at' = [at EXCEPT ![c] = step] /\ UNCHANGED plan
Advance(c) == plan' = [plan EXCEPT ![c] = Tail(@)] /\ at' = [at EXCEPT ![c] = "look"]

\* An exception ends the call; a tick still counts itself.
Throw(c) ==
    /\ plan' = [plan EXCEPT ![c] = IF @[Len(@)] = Order("tick") THEN <<Order("tick")>> ELSE <<>>]
    /\ at' = [at EXCEPT ![c] = "look"]

----------------------------------------------------------------------------
(* Calls begin *)

\* Mutant: the timer is left to find out from the row.
stopByRow == <<Order("halt")>>

stop == <<Op("clear", None, None), Order("halt")>>

start == stop \o <<Order("run"), Op("arm", None, None)>>

reset == stop \o <<Op("wipe", None, None)>>

\* Mutant: the arguments of a membership are swapped.
seedDirectorySwapped(us, g, n) ==
    [i \in 1 .. Len(us) |-> Op("ensure", us[i], n[i])]
    \o <<Op("ensure", g, n[1])>> \o [i \in 1 .. Len(us) |-> Op("join", us[i], g)]

\* The teams and people of a seed, then who is in which; ids are reserved for
\* those it will have to create.
seedDirectory(us, g, n) ==
    [i \in 1 .. Len(us) |-> Op("ensure", us[i], n[i])]
    \o <<Op("ensure", g, n[1])>> \o [i \in 1 .. Len(us) |-> Op("join", g, us[i])]

Begin(c, ops, fresh) ==
    /\ Idle(c) /\ calls < MaxCalls
    /\ plan' = [plan EXCEPT ![c] = ops]
    /\ at' = [at EXCEPT ![c] = "look"]
    /\ seen' = [seen EXCEPT ![c] = None]
    /\ used' = used \cup fresh
    /\ calls' = calls + 1
    /\ UNCHANGED <<tables, upstream, clock, faults, upset>>

Pending(c, ops) == \E i \in DOMAIN plan[c] : plan[c][i] \in ops
Orders == {Op("clear", None, None), Order("halt"), Order("run"), Op("arm", None, None)}

\* handleAction
Act(c) ==
    LET Calls(op) == Begin(c, <<op>>, Touches(op)) /\ UNCHANGED <<wanted, tangled>> IN
    \/ \E r \in Res \ used, n \in Names : Calls(Op("create", r, n))
    \/ \E u \in used \cap Users, v \in BOOLEAN : Calls(Op("change", u, v))
    \/ \E g \in used \cap Groups, n \in Names : Calls(Op("rename", g, n))
    \/ \E r \in used : Calls(Op("remove", r, None))
    \/ \E g \in used \cap Groups, u \in used \cap Users, do \in {"join", "part"} : Calls(Op(do, g, u))

Seed(c) ==
    \E u \in Users \ used, g \in Groups \ used, n \in Names :
        Begin(c, seedDirectory(<<u>>, g, <<n>>), {u, g}) /\ UNCHANGED <<wanted, tangled>>

Instruct(c) ==
    \E orders \in {start, stop, reset} :
        /\ Begin(c, orders, {})
        /\ wanted' = (orders = start)
        /\ tangled' = (tangled \/ \E d \in Caller : Pending(d, Orders \cup {Order("tick")}))

Tick(c) ==
    /\ timer \/ leaked > 0
    /\ Begin(c, <<Op("pick", None, None), Order("tick")>>, {})
    /\ tangled' = (tangled \/ \E d \in Caller : Pending(d, Orders))
    /\ UNCHANGED wanted

----------------------------------------------------------------------------
(* The timer and the row that tells of it *)

Quiet == UNCHANGED <<used, calls, faults, tangled>>

Clear(c) ==
    /\ Is(c, {"clear"}, "look")
    /\ timer' = FALSE
    /\ Advance(c)
    /\ UNCHANGED <<tables, upstream, leaked, auto, seen, upset, wanted>> /\ Quiet

\* setInterval and timers.set: a timer already in the map is dropped from it live.
Arm(c) ==
    /\ Is(c, {"arm"}, "look")
    /\ leaked' = leaked + (IF timer THEN 1 ELSE 0)
    /\ timer' = TRUE
    /\ Advance(c)
    /\ UNCHANGED <<tables, upstream, auto, seen, upset, wanted>> /\ Quiet

getAutoState(c) ==
    /\ Is(c, {"auto"}, "look")
    /\ seen' = [seen EXCEPT ![c] = auto]
    /\ GoTo(c, "save")
    /\ UNCHANGED <<tables, upstream, clock, upset, wanted>> /\ Quiet

\* Mutant: only what the order names is written.
setAutoStateKeeps(c) ==
    LET order == Doing(c).with IN
    /\ Is(c, {"auto"}, "save")
    /\ auto' = [running |-> IF order = "run" THEN TRUE ELSE auto.running,
                ticks |-> seen[c].ticks + (IF order = "tick" THEN 1 ELSE 0)]
    /\ Advance(c)
    /\ seen' = [seen EXCEPT ![c] = None]
    /\ UNCHANGED <<tables, upstream, timer, leaked, upset, wanted>> /\ Quiet

\* The whole row is written from what was read and what the order changes.
setAutoState(c) ==
    LET order == Doing(c).with IN
    /\ Is(c, {"auto"}, "save")
    /\ auto' = [running |-> order = "run" \/ (order = "tick" /\ seen[c].running),
                ticks |-> seen[c].ticks + (IF order = "tick" THEN 1 ELSE 0)]
    /\ Advance(c)
    /\ seen' = [seen EXCEPT ![c] = None]
    /\ UNCHANGED <<tables, upstream, timer, leaked, upset, wanted>> /\ Quiet

\* The simulator's tables go; the accounts it made upstream stay.
Wipe(c) ==
    /\ Is(c, {"wipe"}, "look")
    /\ row' = [r \in Res |-> None]
    /\ edges' = {e \in edges : row[e[1]] = None}
    /\ upset' = upset \cup used
    /\ Advance(c)
    /\ UNCHANGED <<upstream, clock, seen, wanted>> /\ Quiet

Picked(c, op) ==
    /\ Is(c, {"pick"}, "look")
    /\ plan' = [plan EXCEPT ![c] = <<op>> \o Tail(@)]
    /\ used' = used \cup Touches(op)
    /\ UNCHANGED <<tables, upstream, clock, at, seen, calls, faults, history>>

\* performTick: which of these is rolled is left open.
Pick(c) ==
    LET us == Local(Users)  gs == Local(Groups)  on == {u \in us : row[u].value} IN
    \/ /\ Cardinality(us) < MaxUsers \/ Cardinality(us) <= MinUsers
       /\ \E u \in Users \ used, n \in Names : Picked(c, Op("insert", u, n))
    \/ \E g \in Groups \ used, n \in {m \in Names : \A h \in gs : row[h].name # m} :
           Picked(c, Op("insert", g, n))
    \/ Cardinality(on) > MinUsers /\ \E u \in on : Picked(c, Op("change", u, FALSE))
    \/ \E u \in us : Picked(c, Op("change", u, TRUE))
    \/ \E g \in gs, u \in on : Picked(c, Op(IF <<g, u>> \in edges THEN "part" ELSE "join", g, u))
    \/ Cardinality(us) > MinUsers /\ \E u \in us : Picked(c, Op("remove", u, None))

----------------------------------------------------------------------------
(* One operation: look, send, save *)

\* From its look on, an operation that shares a resource with another upsets it.
Overlap(c) ==
    upset' = upset \cup UNION {Touches(Doing(c)) \cap Touches(Doing(d)) :
                               d \in {d \in Caller \ {c} : ~Idle(d) /\ at[d] # "look"}}

Rests == UNCHANGED <<tables, upstream, clock, wanted>> /\ Quiet

\* What is found decides whether the operation goes on, and with what.
Look(c) ==
    LET op == Doing(c)
        taken == Named(op.on, op.with) # {} IN
    /\ \/ /\ Is(c, {"create"}, "look") /\ IF taken THEN Advance(c) ELSE GoTo(c, "insert")
          /\ UNCHANGED seen
       \/ /\ Is(c, {"insert"}, "look") /\ GoTo(c, "insert")
          /\ UNCHANGED seen
       \/ /\ Is(c, {"change", "rename"}, "look")
          /\ IF Linked(op.on) THEN GoTo(c, "send") ELSE Advance(c)
          /\ UNCHANGED seen
       \/ /\ Is(c, {"join", "part"}, "look")
          /\ IF Linked(op.on) /\ Linked(op.with) THEN GoTo(c, "send") ELSE Advance(c)
          /\ UNCHANGED seen
       \/ /\ Is(c, {"remove"}, "look")
          /\ IF row[op.on] = None THEN Advance(c)
             ELSE GoTo(c, IF Linked(op.on) THEN "send" ELSE "save")
          /\ UNCHANGED seen
    /\ Overlap(c) /\ Rests

Instead(op, r, s) ==
    [op EXCEPT !.on = IF @ = r THEN s ELSE @, !.with = IF @ = r THEN s ELSE @]

\* A seed takes the person or team that is there; its later steps name that one.
Ensure(c) ==
    LET op == Doing(c)
        there == Named(op.on, op.with) IN
    /\ Is(c, {"ensure"}, "look")
    /\ IF there = {} THEN GoTo(c, "insert")
       ELSE LET found == CHOOSE s \in there : TRUE IN
            /\ plan' = [plan EXCEPT ![c] = [i \in 1 .. Len(@) - 1 |-> Instead(@[i + 1], op.on, found)]]
            /\ UNCHANGED at
    /\ UNCHANGED seen /\ Overlap(c) /\ Rests

\* The row first, without an account; names are unique by index.
Insert(c) ==
    LET op == Doing(c) IN
    /\ Is(c, {"create", "insert", "ensure"}, "insert")
    /\ IF Named(op.on, op.with) # {} THEN Throw(c) /\ UNCHANGED row
       ELSE /\ row' = [row EXCEPT ![op.on] = [name |-> op.with, value |-> TRUE, linked |-> FALSE]]
            /\ GoTo(c, "send")
    /\ UNCHANGED <<edges, upstream, clock, seen, upset, wanted>> /\ Quiet

Creates(op) == op.do \in {"create", "insert", "ensure"}

\* Whether upstream can do what is asked: 409 on a name it has, 404 on a missing id.
Possible(op) ==
    LET free == \A r \in Kind(op.on) \ {op.on} : account[r] # None => account[r].name # op.with IN
    IF Creates(op) THEN free
    ELSE account[op.on] # None /\ (op.do = "rename" => free)

Does(op) ==
    /\ account' = CASE Creates(op) -> [account EXCEPT ![op.on] = [name |-> op.with, value |-> TRUE]]
                    [] op.do = "change" -> [account EXCEPT ![op.on].value = op.with]
                    [] op.do = "rename" -> [account EXCEPT ![op.on].name = op.with]
                    [] op.do = "remove" -> [account EXCEPT ![op.on] = None]
                    [] OTHER -> account
    /\ links' = CASE op.do = "join" -> links \cup {<<op.on, op.with>>}
                  [] op.do = "part" -> links \ {<<op.on, op.with>>}
                  [] op.do = "remove" -> {e \in links : op.on \notin {e[1], e[2]}}
                  [] OTHER -> links

\* The call is answered: done, or refused.
Send(c) ==
    LET op == Doing(c) IN
    /\ ~Idle(c) /\ at[c] = "send"
    /\ \/ /\ Possible(op) /\ Does(op)
          /\ GoTo(c, "save")
          /\ UNCHANGED <<upset, faults>>
       \/ /\ Possible(op) => faults < MaxFaults
          /\ faults' = faults + (IF Possible(op) THEN 1 ELSE 0)
          /\ GoTo(c, "failed")
          /\ upset' = upset \cup Touches(op)
          /\ UNCHANGED upstream
    /\ UNCHANGED <<tables, clock, seen, used, calls, wanted, tangled>>

\* The call throws: nobody was there, or the answer was lost.
Break(c) ==
    LET op == Doing(c) IN
    /\ ~Idle(c) /\ at[c] = "send" /\ faults < MaxFaults
    /\ (Possible(op) /\ Does(op)) \/ UNCHANGED upstream
    /\ Throw(c)
    /\ upset' = upset \cup Touches(op) /\ faults' = faults + 1
    /\ UNCHANGED <<tables, clock, seen, used, calls, wanted, tangled>>

\* Mutant: who is active is not kept.
SavedForgets(op, ok) ==
    CASE Creates(op) -> [row EXCEPT ![op.on] =
                           IF @ # None /\ ok THEN [@ EXCEPT !.linked = TRUE] ELSE @]
      [] op.do = "rename" -> [row EXCEPT ![op.on] =
                               IF @ = None THEN None ELSE [@ EXCEPT !.name = op.with]]
      [] op.do = "remove" -> [row EXCEPT ![op.on] = None]
      [] OTHER -> row

Saved(op, ok) ==
    CASE Creates(op) -> [row EXCEPT ![op.on] =
                           IF @ # None /\ ok THEN [@ EXCEPT !.linked = TRUE] ELSE @]
      [] op.do = "change" -> [row EXCEPT ![op.on] =
                               IF @ = None THEN None ELSE [@ EXCEPT !.value = op.with]]
      [] op.do = "rename" -> [row EXCEPT ![op.on] =
                               IF @ = None THEN None ELSE [@ EXCEPT !.name = op.with]]
      [] op.do = "remove" -> [row EXCEPT ![op.on] = None]
      [] OTHER -> row

\* The local index refuses a name that upstream has let through.
Clashes(op) == op.do = "rename" /\ row[op.on] # None /\ Named(op.on, op.with) \ {op.on} # {}
Saving(c) == ~Idle(c) /\ at[c] \in {"save", "failed"} /\ Doing(c).do # "auto"
SaveRefused(c) ==
    /\ Saving(c) /\ Clashes(Doing(c))
    /\ Throw(c)
    /\ upset' = upset \cup {Doing(c).on}
    /\ UNCHANGED <<tables, upstream, clock, seen, wanted>> /\ Quiet

\* The local tables take the change, whatever the answer was.
Save(c) ==
    LET op == Doing(c) IN
    /\ Saving(c) /\ ~Clashes(op)
    /\ row' = Saved(op, at[c] = "save")
    /\ edges' = CASE op.do = "join" -> edges \cup {<<op.on, op.with>>}
                  [] op.do = "part" -> edges \ {<<op.on, op.with>>}
                  [] op.do = "remove" -> {e \in edges : op.on \notin {e[1], e[2]}}
                  [] OTHER -> edges
    /\ Advance(c)
    /\ UNCHANGED <<upstream, clock, seen, upset, wanted>> /\ Quiet

\* The process dies: calls and timers are gone, the tables stay.
Restart ==
    /\ faults < MaxFaults
    /\ upset' = upset \cup {r \in Res : Busy(r)}
    /\ plan' = [c \in Caller |-> <<>>] /\ at' = [c \in Caller |-> "look"]
    /\ seen' = [c \in Caller |-> None]
    /\ timer' = FALSE /\ leaked' = 0 /\ wanted' = FALSE
    /\ tangled' = (tangled \/ auto.running \/ \E c \in Caller : Pending(c, Orders))
    /\ faults' = faults + 1
    /\ UNCHANGED <<tables, upstream, auto, used, calls>>

Init ==
    /\ row = [r \in Res |-> None] /\ edges = {}
    /\ account = [r \in Res |-> None] /\ links = {}
    /\ timer = FALSE /\ leaked = 0
    /\ auto = [running |-> FALSE, ticks |-> 0]
    /\ plan = [c \in Caller |-> <<>>] /\ at = [c \in Caller |-> "look"]
    /\ seen = [c \in Caller |-> None]
    /\ used = {} /\ calls = 0 /\ faults = 0
    /\ upset = {} /\ wanted = FALSE /\ tangled = FALSE

Next ==
    \/ \E c \in Caller :
        \/ Act(c) \/ Seed(c) \/ Instruct(c) \/ Tick(c)
        \/ Clear(c) \/ Arm(c) \/ getAutoState(c) \/ setAutoState(c) \/ Wipe(c) \/ Pick(c)
        \/ Look(c) \/ Ensure(c) \/ Insert(c) \/ Send(c) \/ Break(c) \/ Save(c) \/ SaveRefused(c)
    \/ Restart

Spec == Init /\ [][Next]_vars

----------------------------------------------------------------------------
(* Properties *)

\* Rows, memberships and accounts keep their types, and what is stored here or
\* upstream has an id that was given out.
TypeOK ==
    /\ row \in [Res -> Row \cup {None}] /\ account \in [Res -> Account \cup {None}]
    /\ edges \subseteq Groups \X Users /\ links \subseteq Groups \X Users
    /\ \A r \in Res \ used : row[r] = None /\ account[r] = None
    /\ timer \in BOOLEAN /\ leaked \in Nat /\ auto.running \in BOOLEAN

\* What no fault, no overlapping operation and no reset touched is upstream as it
\* is here: account for account, and for memberships whose ends are both such.
Settled(r) == r \notin upset /\ ~Busy(r)
TwinsAgree ==
    /\ \A r \in used : Settled(r) =>
         IF row[r] = None THEN account[r] = None
         ELSE row[r].linked /\ account[r] = [name |-> row[r].name, value |-> row[r].value]
    /\ \A g \in Groups, u \in Users : Settled(g) /\ Settled(u) =>
         (<<g, u>> \in edges <=> <<g, u>> \in links)

\* Orders given one at a time: there is one timer, and it runs only while the
\* last order was to start, or until the order under way has cleared it.
TimerObeys ==
    ~tangled => /\ leaked = 0
                /\ timer => wanted \/ \E c \in Caller : Pending(c, {Op("clear", None, None)})

\* And once they are carried out, with no tick across them, the panel's row says
\* what the timer does.
RowTellsTimer ==
    (~tangled /\ \A c \in Caller : ~Pending(c, Orders)) => auto.running = timer

\* However orders cross, there is one timer, as the scheduler's comment has it.
OneTimer == leaked = 0
=============================================================================
