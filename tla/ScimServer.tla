------------------------------ MODULE ScimServer ------------------------------
(***************************************************************************)
(* The bundled SCIM servers, statement by statement: the native app's, which *)
(* creates on a PUT that carries the migrated id, and the mock WorkOS        *)
(* directory's, which adopts the id on POST and tells every write in a log   *)
(* of Directory Sync events; workers/native/scim-server.ts, store.ts,        *)
(* mock-emitter.ts and index.ts.  Nothing ties the statements of a request   *)
(* together: no transaction, and no version on a row.                        *)
(* A request is the sequence of the statements it has still to run.          *)
(***************************************************************************)
EXTENDS Integers, Sequences, FiniteSets, SequencesExt

CONSTANTS
    Users, Groups,      \* ids
    UserNames, GroupNames,
    Req,                \* requests served at a time
    Roles,              \* migratedIdMode of the servers considered
    MaxRequests,        \* bound on the requests in all
    None

ASSUME RoleAssumption == Roles \subseteq {"off", "put-upsert", "post-create"}
ASSUME KindAssumption == Users \cap Groups = {}
ASSUME FiniteAssumption == IsFiniteSet(Users)
ASSUME NamesAssumption == GroupNames # {}

VARIABLES
    role,               \* config.migratedIdMode
    users, groups,      \* rows by id
    members,            \* the membership table: pairs of a group and a user
    todo, req, local,   \* each request: statements left, body, what it has read
    told,               \* what the mock's event log says, read from its start
    used,               \* ids that have been given out
    answer,             \* the last answer of each client
    was, crossed,       \* history: the tables when a request began, and whether
                        \* another has run beside it
    torn, blurred,      \* history: a write was refused half way; two overlapped
    served              \* how much of MaxRequests is used

rows == <<users, groups, members>>
client == <<todo, req, local, answer>>
history == <<was, crossed, torn, blurred>>
vars == <<role, rows, client, told, used, history, served>>

Res == Users \cup Groups
Names(r) == IF r \in Users THEN UserNames ELSE GroupNames
UserRow == [name : UserNames, active : BOOLEAN]
Status == {200, 400, 404, 409, 500}
\* What is absent, or not asked for, is nothing that could be there.
ASSUME NoneAssumption ==
    /\ None \notin Res /\ None \notin UserNames /\ None \notin GroupNames
    /\ None \notin UserRow /\ None \notin BOOLEAN /\ None \notin Status
    /\ None \notin {"add", "remove", "replace"}
Emits == role = "post-create"

Do(what) == [do |-> what, who |-> None]
To(what, u) == [do |-> what, who |-> u]
NoReq == [verb |-> None, id |-> None, header |-> None, name |-> None, active |-> FALSE,
          op |-> None, who |-> {}, bad |-> FALSE]
NoLocal == [row |-> None, before |-> {}, wrote |-> FALSE, seen |-> None]

RowOf(r) == IF r \in Users THEN users[r] ELSE groups[r]
MembersOf(g) == {u \in Users : <<g, u>> \in members}

----------------------------------------------------------------------------
(* The statements each verb runs *)

createIfAbsent(rq) == role = "put-upsert" /\ rq.header = rq.id
adopts(rq) == role = "post-create" /\ rq.header # None
mismatched(rq) == role # "off" /\ rq.header # None /\ rq.header # rq.id

Each(what, set) == LET s == SetToSeq(set) IN [i \in DOMAIN s |-> To(what, s[i])]
\* Mutant: the list is added to the members there are.
SetMembersAdded(set) == Each("add", set)

SetMembers(set) == <<Do("clear")>> \o Each("add", set)
Members(rq) == IF rq.id \in Groups THEN SetMembers(rq.who) ELSE <<>>
When(c, s) == IF c THEN s ELSE <<>>

handleCreate(rq) ==
    <<Do("name")>> \o When(adopts(rq), <<Do("free")>>) \o <<Do("save")>> \o Members(rq)

\* Mutant: the row is written before its name is looked up.
handlePutSaveFirst(rq) ==
    IF mismatched(rq) THEN <<Do("bad")>>
    ELSE <<Do("find"), Do("save"), Do("name")>> \o Members(rq)

handlePut(rq) ==
    IF mismatched(rq) THEN <<Do("bad")>>
    ELSE <<Do("find"), Do("name"), Do("save")>> \o Members(rq)

patchUser(rq) ==
    <<Do("find")>> \o When(rq.bad, <<Do("bad")>>) \o <<Do("name"), Do("save")>>

\* The operations on members are run as they are met, ahead of any refusal.
patchGroup(rq) ==
    <<Do("find")>>
    \o (CASE rq.op = "add" -> Each("add", rq.who)
          [] rq.op = "remove" -> Each("drop", rq.who)
          [] rq.op = "replace" -> SetMembers(rq.who)
          [] OTHER -> <<>>)
    \o When(rq.bad, <<Do("bad")>>) \o <<Do("name"), Do("save")>>

handleGet(rq) == <<Do("find"), Do("render")>>

\* The total is counted by a statement of its own, ahead of the page.
handleList(rq) == <<Do("count"), Do("page")>>

handleDelete(rq) == <<Do(IF rq.id \in Users THEN "leave" ELSE "clear"), Do("erase")>>

\* Mutant: a PUT is taken to name all there is to know.
captureMockBeforePatchOnly(rq) == When(Emits /\ rq.verb \in {"PATCH", "DELETE"}, <<Do("before")>>)

\* The mock reads what a write may erase before it runs it.
captureMockBefore(rq) == When(Emits /\ rq.verb \in {"PUT", "PATCH", "DELETE"}, <<Do("before")>>)

Statements(rq) ==
    captureMockBefore(rq)
    \o (CASE rq.verb = "POST" -> handleCreate(rq)
          [] rq.verb = "PUT" -> handlePut(rq)
          [] rq.verb = "PATCH" -> IF rq.id \in Users THEN patchUser(rq) ELSE patchGroup(rq)
          [] rq.verb = "DELETE" -> handleDelete(rq)
          [] rq.verb = "GET" -> handleGet(rq)
          [] rq.verb = "LIST" -> handleList(rq))
    \o When(rq.verb \notin {"GET", "LIST"}, <<Do("reply")>>)

----------------------------------------------------------------------------
(* A request arrives *)

\* Ids a client may use: POST has a fresh one minted or brings the one another
\* system minted; the other verbs name one that has been given out.
Sendable(rq) ==
    /\ rq.id \in Groups => rq.who \subseteq {u \in Users : users[u] # None}
    /\ rq.verb = "POST" /\ rq.header # None => Emits
    /\ (rq.verb = "POST" /\ ~adopts(rq)) => rq.id \notin used
    /\ rq.verb \in {"PATCH", "DELETE", "GET"} => rq.id \in used
    /\ rq.verb = "PUT" /\ rq.id \notin used => rq.header = rq.id

Bodies(r) ==
    LET b(v, h, n, a, o, w, x) == [verb |-> v, id |-> r, header |-> h, name |-> n,
                                   active |-> a, op |-> o, who |-> w, bad |-> x]
        lists == IF r \in Groups THEN SUBSET Users ELSE {{}}
        flags == IF r \in Users THEN {FALSE, None} ELSE {None} IN
    {b(v, h, n, TRUE, None, w, FALSE) :
        v \in {"POST", "PUT"}, h \in {None, r}, n \in Names(r), w \in lists}
    \cup {b(v, None, None, TRUE, None, {}, FALSE) : v \in {"POST", "PUT"}}
    \cup {b("PUT", CHOOSE h \in Res : h # r, n, TRUE, None, {}, FALSE) : n \in Names(r)}
    \cup {b("PATCH", None, n, a, None, {}, FALSE) : n \in Names(r) \cup {None}, a \in flags}
    \cup {b("PATCH", None, n, None, None, {}, TRUE) : n \in Names(r)}
    \cup {b("PATCH", None, None, None, o, w, x) :
        o \in (IF r \in Groups THEN {"add", "remove", "replace"} ELSE {}),
        w \in lists, x \in BOOLEAN}
    \cup {b(v, None, None, None, None, {}, FALSE) : v \in {"DELETE", "GET"}}
    \cup {b("LIST", None, n, None, None, {}, FALSE) : n \in Names(r) \cup {None}}

Active(q) == todo[q] # <<>>

Receive(q, rq) ==
    /\ ~Active(q) /\ served < MaxRequests
    /\ Sendable(rq)
    /\ req' = [req EXCEPT ![q] = rq]
    /\ todo' = [todo EXCEPT ![q] = Statements(rq)]
    /\ local' = [local EXCEPT ![q] = NoLocal]
    /\ answer' = [answer EXCEPT ![q] = None]
    /\ used' = IF rq.verb = "LIST" THEN used ELSE used \cup {rq.id}
    /\ was' = [was EXCEPT ![q] = <<users, groups, members>>]
    /\ LET beside == {p \in Req \ {q} : Active(p)} IN
       /\ crossed' = [p \in Req |-> IF p = q THEN beside # {} ELSE crossed[p] \/ p \in beside]
       /\ blurred' = (blurred \/ beside # {})
    /\ served' = served + 1
    /\ UNCHANGED <<role, rows, told, torn>>

----------------------------------------------------------------------------
(* One statement *)

Next1(q) == todo' = [todo EXCEPT ![q] = Tail(@)]
Head1(q, what) == Active(q) /\ Head(todo[q]).do = what
Keep == UNCHANGED <<role, used, was, crossed, blurred, served, req>>
ReadsOnly == UNCHANGED <<rows, told, torn, answer>> /\ Keep
Writes(q) == local' = [local EXCEPT ![q] = [@ EXCEPT !.wrote = TRUE]]

\* The request ends with an error status; no event is told of it.
Refuse(q, status) ==
    /\ todo' = [todo EXCEPT ![q] = <<>>]
    /\ answer' = [answer EXCEPT ![q] = status]
    /\ torn' = (torn \/ local[q].wrote)
    /\ UNCHANGED <<rows, local, told>> /\ Keep

\* The name the row will have: the body's, or for a PATCH without one the row's.
Wanted(q) ==
    IF req[q].verb = "PATCH" /\ req[q].name = None
    THEN IF req[q].id \in Users THEN local[q].row.name ELSE local[q].row
    ELSE req[q].name

Holders(r, n) ==
    IF r \in Users THEN {u \in Users : users[u] # None /\ users[u].name = n}
    ELSE {g \in Groups : groups[g] = n}

Before(q) ==
    LET r == req[q].id IN
    /\ Head1(q, "before")
    /\ local' = [local EXCEPT ![q] = [@ EXCEPT !.before =
                   IF req[q].verb # "DELETE" /\ r \in Groups THEN MembersOf(r)
                   ELSE {x \in {r} : RowOf(x) # None}]]
    /\ Next1(q) /\ ReadsOnly

Find(q) ==
    LET r == req[q].id IN
    /\ Head1(q, "find")
    /\ IF RowOf(r) = None /\ ~(req[q].verb = "PUT" /\ createIfAbsent(req[q]))
       THEN Refuse(q, 404)
       ELSE /\ local' = [local EXCEPT ![q] = [@ EXCEPT !.row = RowOf(r)]]
            /\ Next1(q) /\ ReadsOnly

\* A body without a name, or a name another row has.
CheckName(q) ==
    LET others == Holders(req[q].id, Wanted(q))
                  \ (IF req[q].verb = "POST" THEN {} ELSE {req[q].id}) IN
    /\ Head1(q, "name")
    /\ IF Wanted(q) = None THEN Refuse(q, 400)
       ELSE IF others # {} THEN Refuse(q, 409)
       ELSE Next1(q) /\ ReadsOnly /\ UNCHANGED local

CheckFree(q) ==
    /\ Head1(q, "free")
    /\ IF RowOf(req[q].id) # None THEN Refuse(q, 409)
       ELSE Next1(q) /\ ReadsOnly /\ UNCHANGED local

\* What a GET or a list has read; the answer of a reader.
Answered(q, what) ==
    /\ local' = [local EXCEPT ![q] = [@ EXCEPT !.seen = what]]
    /\ answer' = [answer EXCEPT ![q] = 200]
    /\ Next1(q)
    /\ UNCHANGED <<rows, told, torn>> /\ Keep

Render(q) == Head1(q, "render") /\ Answered(q, <<local[q].row, MembersOf(req[q].id)>>)

Matching(rq, us, gs) ==
    IF rq.id \in Users
    THEN {u \in Users : us[u] # None /\ rq.name \in {None, us[u].name}}
    ELSE {g \in Groups : gs[g] # None /\ rq.name \in {None, gs[g]}}

Count(q) ==
    /\ Head1(q, "count")
    /\ local' = [local EXCEPT ![q] = [@ EXCEPT !.row = Cardinality(Matching(req[q], users, groups))]]
    /\ Next1(q) /\ ReadsOnly

Page(q) == Head1(q, "page") /\ Answered(q, <<local[q].row, Matching(req[q], users, groups)>>)

Unsupported(q) == Head1(q, "bad") /\ Refuse(q, 400)

\* Mutant: the name is taken from the body alone.
NewUserOfBody(q) == [name |-> req[q].name,
                     active |-> IF req[q].active = None THEN local[q].row.active ELSE req[q].active]

NewUser(q) == [name |-> Wanted(q),
               active |-> IF req[q].active = None THEN local[q].row.active ELSE req[q].active]

\* Mutant: the table has no unique index.
SaveUnindexed(q) ==
    LET r == req[q].id IN
    /\ Head1(q, "save")
    /\ IF r \in Users
       THEN users' = [users EXCEPT ![r] = NewUser(q)] /\ UNCHANGED groups
       ELSE groups' = [groups EXCEPT ![r] = Wanted(q)] /\ UNCHANGED users
    /\ Writes(q) /\ Next1(q)
    /\ UNCHANGED <<members, told, torn, answer>> /\ Keep

\* upsertUser and upsertGroup: a row under the id is overwritten; user names
\* have a unique index, group names have none.
Save(q) ==
    LET r == req[q].id IN
    /\ Head1(q, "save")
    /\ IF r \in Users /\ Holders(r, Wanted(q)) \ {r} # {} THEN Refuse(q, 500)
       ELSE /\ IF r \in Users
               THEN users' = [users EXCEPT ![r] = NewUser(q)] /\ UNCHANGED groups
               ELSE groups' = [groups EXCEPT ![r] = Wanted(q)] /\ UNCHANGED users
            /\ Writes(q) /\ Next1(q)
            /\ UNCHANGED <<members, told, torn, answer>> /\ Keep

Edges(q) ==
    LET r == req[q].id  s == Head(todo[q]) IN
    CASE s.do = "clear" -> {e \in members : e[1] # r}
      [] s.do = "leave" -> {e \in members : e[2] # r}
      [] s.do = "add" -> members \cup {<<r, s.who>>}
      [] s.do = "drop" -> members \ {<<r, s.who>>}

WriteMembers(q) ==
    /\ Active(q) /\ Head(todo[q]).do \in {"clear", "leave", "add", "drop"}
    /\ members' = Edges(q)
    /\ local' = [local EXCEPT ![q] = [@ EXCEPT !.wrote = (local[q].wrote \/ members' # members)]]
    /\ Next1(q)
    /\ UNCHANGED <<users, groups, told, torn, answer>> /\ Keep

Erase(q) ==
    LET r == req[q].id IN
    /\ Head1(q, "erase")
    /\ IF RowOf(r) = None THEN Refuse(q, 404)
       ELSE /\ IF r \in Users THEN users' = [users EXCEPT ![r] = None] /\ UNCHANGED groups
               ELSE groups' = [groups EXCEPT ![r] = None] /\ UNCHANGED users
            /\ Writes(q) /\ Next1(q)
            /\ UNCHANGED <<members, told, torn, answer>> /\ Keep

\* The answer is made, with a group's members as they are by then; the mock has
\* still to tell the events of the write.
Reply(q) ==
    LET r == req[q].id
        after == IF r \in Groups THEN MembersOf(r) ELSE {}
        before == IF req[q].verb = "POST" THEN {} ELSE local[q].before
        deltas == IF r \in Groups /\ req[q].verb # "DELETE"
                  THEN Each("joined", after \ before) \o Each("left", before \ after) ELSE <<>> IN
    /\ Head1(q, "reply")
    /\ local' = [local EXCEPT ![q] = [@ EXCEPT !.row =
                   IF req[q].verb = "DELETE" THEN None
                   ELSE IF r \in Users THEN NewUser(q) ELSE Wanted(q)]]
    /\ todo' = [todo EXCEPT ![q] =
                  IF ~Emits \/ (req[q].verb = "DELETE" /\ before = {}) THEN <<>>
                  ELSE <<Do("row")>> \o deltas]
    /\ answer' = [answer EXCEPT ![q] = 200]
    /\ UNCHANGED <<rows, told, torn>> /\ Keep

\* dsync.user.* and dsync.group.*, from the body of the answer.
TellRow(q) ==
    LET r == req[q].id IN
    /\ Head1(q, "row")
    /\ told' = IF r \in Users
               THEN [told EXCEPT !.users = [@ EXCEPT ![r] = local[q].row],
                                 !.members = IF local[q].row = None
                                             THEN {e \in @ : e[2] # r} ELSE @]
               ELSE [told EXCEPT !.groups = [@ EXCEPT ![r] = local[q].row],
                                 !.members = IF local[q].row = None
                                             THEN {e \in @ : e[1] # r} ELSE @]
    /\ Next1(q)
    /\ UNCHANGED <<rows, local, torn, answer>> /\ Keep

\* dsync.group.user_added and user_removed, of users there still are.
TellMember(q) ==
    LET r == req[q].id  s == Head(todo[q]) IN
    /\ Active(q) /\ s.do \in {"joined", "left"}
    /\ told' = IF users[s.who] = None THEN told
               ELSE [told EXCEPT !.members = IF s.do = "joined" THEN @ \cup {<<r, s.who>>}
                                             ELSE @ \ {<<r, s.who>>}]
    /\ Next1(q)
    /\ UNCHANGED <<rows, local, torn, answer>> /\ Keep

Init ==
    /\ role \in Roles
    /\ \E there \in SUBSET Users : \E n \in [there -> UserNames], g \in SUBSET Groups :
        /\ \A u, v \in there : u # v => n[u] # n[v]
        /\ users = [u \in Users |-> IF u \in there THEN [name |-> n[u], active |-> TRUE] ELSE None]
        /\ groups = [x \in Groups |-> IF x \in g THEN CHOOSE m \in GroupNames : TRUE ELSE None]
        /\ Cardinality(g) <= 1
        /\ members = g \X there
        /\ used = there \cup g
    /\ told = [users |-> users, groups |-> groups, members |-> members]
    /\ todo = [q \in Req |-> <<>>] /\ req = [q \in Req |-> NoReq]
    /\ local = [q \in Req |-> NoLocal] /\ answer = [q \in Req |-> None]
    /\ was = [q \in Req |-> None] /\ crossed = [q \in Req |-> FALSE]
    /\ torn = FALSE /\ blurred = FALSE /\ served = 0

Next ==
    \E q \in Req :
        \/ \E r \in Res : \E rq \in Bodies(r) : Receive(q, rq)
        \/ Before(q) \/ Find(q) \/ Render(q) \/ Count(q) \/ Page(q) \/ CheckName(q) \/ CheckFree(q) \/ Unsupported(q)
        \/ Save(q) \/ WriteMembers(q) \/ Erase(q) \/ Reply(q) \/ TellRow(q) \/ TellMember(q)

Spec == Init /\ [][Next]_vars

----------------------------------------------------------------------------
(* The contract: what each verb does and answers, in one step *)

Contract(old, rq) ==
    LET us == old[1]  gs == old[2]  es == old[3]  r == rq.id
        user == r \in Users
        row == IF user THEN us[r] ELSE gs[r]
        name == IF rq.verb = "PATCH" /\ rq.name = None
                THEN IF user THEN row.name ELSE row ELSE rq.name
        taken == IF user THEN \E u \in Users \ {r} : us[u] # None /\ us[u].name = name
                 ELSE \E g \in Groups \ {r} : gs[g] = name
        active == IF rq.active = None THEN row.active ELSE rq.active
        saved == IF user THEN [us EXCEPT ![r] = [name |-> name, active |-> active]] ELSE us
        named == IF user THEN gs ELSE [gs EXCEPT ![r] = name]
        listed == CASE rq.verb \in {"POST", "PUT"} \/ rq.op = "replace" -> rq.who
                    [] rq.op = "add" -> {u \in Users : <<r, u>> \in es} \cup rq.who
                    [] rq.op = "remove" -> {u \in Users : <<r, u>> \in es} \ rq.who
                    [] OTHER -> {u \in Users : <<r, u>> \in es}
        edges == IF user THEN es ELSE {e \in es : e[1] # r} \cup ({r} \X listed)
        gone == {e \in es : r \notin {e[1], e[2]}}
        missing == row = None /\ rq.verb # "POST" /\ ~(rq.verb = "PUT" /\ createIfAbsent(rq)) IN
    IF rq.verb = "LIST" THEN [status |-> 200, rows |-> old]
    ELSE IF rq.verb = "DELETE" THEN
        IF row = None THEN [status |-> 404, rows |-> <<us, gs, gone>>]
        ELSE [status |-> 200, rows |-> IF user THEN <<[us EXCEPT ![r] = None], gs, gone>>
                                       ELSE <<us, [gs EXCEPT ![r] = None], gone>>]
    ELSE IF rq.verb = "PUT" /\ mismatched(rq) THEN [status |-> 400, rows |-> old]
    ELSE IF missing THEN [status |-> 404, rows |-> old]
    ELSE IF rq.verb = "GET" THEN [status |-> 200, rows |-> old]
    ELSE IF rq.bad \/ name = None THEN [status |-> 400, rows |-> old]
    ELSE IF taken \/ (rq.verb = "POST" /\ row # None) THEN [status |-> 409, rows |-> old]
    ELSE [status |-> 200, rows |-> <<saved, named, edges>>]

\* What a reader is told: the row and its members, or a count and what matches.
Shows(rq, seen, old) ==
    /\ rq.verb = "GET" =>
         seen = <<IF rq.id \in Users THEN old[1][rq.id] ELSE old[2][rq.id],
                  {u \in Users : <<rq.id, u>> \in old[3]}>>
    /\ rq.verb = "LIST" =>
         LET found == Matching(rq, old[1], old[2]) IN seen = <<Cardinality(found), found>>

----------------------------------------------------------------------------
(* Properties *)

\* The tables hold rows of their kind under ids that were given out, an answer is
\* one of the statuses the server sends, and the log tells of such rows.
TypeOK ==
    /\ users \in [Users -> UserRow \cup {None}]
    /\ groups \in [Groups -> GroupNames \cup {None}]
    /\ members \subseteq Groups \X Users
    /\ \A r \in Res : RowOf(r) # None => r \in used
    /\ \A q \in Req : answer[q] \in Status \cup {None}
    /\ told.users \in [Users -> UserRow \cup {None}]

\* No two users ever share a name, however their requests interleave: what the
\* look-up before the write misses, the index of the table refuses.
NamesAreUnique ==
    \A u, v \in Users :
        u # v /\ users[u] # None /\ users[v] # None => users[u].name # users[v].name

\* A request nothing ran beside does what the contract says, answers so, and a
\* reader sees all of it; but for a PATCH of a group that is refused after its
\* members were changed.
MeetsTheContract ==
    [][\A q \in Req : (answer[q] = None /\ answer'[q] # None /\ ~crossed[q] /\ ~torn') =>
         LET said == Contract(was[q], req[q]) IN
         /\ answer'[q] = said.status /\ <<users', groups', members'>> = said.rows
         /\ answer'[q] = 200 => Shows(req[q], local'[q].seen, was[q])]_vars

\* An error answer means nothing was written, except that the members a PATCH of a
\* group names are changed before it is refused, and edges of a missing resource
\* are cleared by its DELETE.
RefusalWritesNothing ==
    [][\A q \in Req : (answer[q] = None /\ answer'[q] \in {400, 404, 409, 500} /\ local[q].wrote) =>
         \/ req[q].verb = "PATCH" /\ req[q].id \in Groups
         \/ req[q].verb = "DELETE" /\ answer'[q] = 404]_vars

\* The mock's log, read from its start, tells what the mock holds once every
\* answer is out, unless writes overlapped or one was refused half way.
LogTellsTheState ==
    (Emits /\ ~blurred /\ ~torn /\ \A q \in Req : ~Active(q)) =>
        told = [users |-> users, groups |-> groups, members |-> members]
=============================================================================
