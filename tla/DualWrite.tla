------------------------------ MODULE DualWrite ------------------------------
(***************************************************************************)
(* The rungs of the migration on which one side leads: passthrough and     *)
(* dual-write (native answers, WorkOS follows), workos-only (WorkOS        *)
(* answers, native is not written), and the backfill that replays native   *)
(* into WorkOS; src/workers/proxy/index.ts, src/workers/shared/scim.ts and *)
(* src/workers/shared/backfill.ts.  The IdP is the one the simulator plays *)
(* (src/workers/idp): one request per resource, the next when the last was *)
(* answered.  A dual-write request is answered after its native leg, so    *)
(* its mirror runs beside whatever comes next.                             *)
(* A resource is named by the id native minted for it; WorkOS adopts that  *)
(* id or makes up its own.  Names are unique per resource.  workos-primary *)
(* is the subject of PrimaryIdentity and PrimaryLedger.                    *)
(***************************************************************************)
EXTENDS Integers, Sequences, FiniteSets

CONSTANTS
    Users, Groups,   \* ids of the resources the IdP manages
    Req,             \* requests the proxy serves at a time
    Filler,          \* the backfill's worker
    Sites,           \* the kinds of site considered, see Init
    PageSize, FlushSize,
    MaxActors,       \* bound: requests and backfills under way at a time
    MaxSpent,        \* bound: writes, faults, backfills and moves in all
    None

ASSUME KindAssumption == Users \cap Groups = {} /\ None \notin Users \cup Groups
ASSUME FiniteAssumption == IsFiniteSet(Users) /\ IsFiniteSet(Groups)
ASSUME WorkerAssumption == Filler \notin Req
ASSUME SiteAssumption == Sites \subseteq {"own app", "shared app", "tombstones"}
ASSUME SizeAssumption == PageSize \in Nat \ {0} /\ FlushSize \in Nat \ {0}

VARIABLES
    site,          \* what kind of native app and WorkOS directory this is
    mode,          \* directories.mode
    native, born,  \* native rows, and the ids each of its two listings has, oldest first
    workos,        \* WorkOS rows
    map,           \* id_mappings: native id to WorkOS id
    gap,           \* native_write_failures left by workos-primary
    pc, req,       \* where each request is, and what it asks for
    body, row,     \* its translated content, and the WorkOS row it addresses
    stage, snap, sink,  \* the backfill: phase, rows to replay, unwritten mappings
    want,          \* history: what the IdP was last told it has
    oldN, oldW,    \* history: resources known to differ on native, on WorkOS
    crossed,       \* history: requests another writer ran across
    stale,         \* history: resources written after the backfill read them
    held,          \* history: users native has had since the backfill began
    before, ever,  \* history: resources there were at first, and have ever been
    wrote,         \* history: resources native has accepted a write of
    spent          \* how much of MaxSpent is used

setting == <<site, before>>
upstreams == <<native, born, workos>>
tables == <<setting, mode, map, gap>>
procs == <<pc, req, body, row>>
fill == <<stage, snap, sink>>
history == <<want, oldN, oldW, crossed, stale, held, ever, wrote>>
vars == <<upstreams, tables, procs, fill, history, spent>>

Res == Users \cup Groups
Proc == Req \cup {Filler}
Mint(r) == <<r>>
ASSUME MintAssumption == \A r \in Res : Mint(r) \notin Res \cup {None}
Row == Res \cup {Mint(r) : r \in Res}
Of(w) == CHOOSE r \in Res : w \in {r, Mint(r)}
\* Another directory fronts the same native app (shared_namespace); WorkOS keeps
\* a deleted user as an inactive resource.
Shared == site = "shared app"
Retains == site = "tombstones"

Flag == {"active", "inactive"}
\* What a row can be told from its absence.
ASSUME NoneAssumption == None \notin Flag /\ \A v \in SUBSET Row : v # None
Mode == {"passthrough", "dual-write", "workos-only"}
Op == {"POST", "PUT", "PATCH", "ADD", "REMOVE", "DELETE"}
NoReq == [op |-> None, res |-> None, val |-> None, mode |-> None, absent |-> FALSE]
Elements(s) == {s[i] : i \in DOMAIN s}
Lists(s, set) == Elements(s) = set /\ \A i, j \in DOMAIN s : s[i] = s[j] => i = j

\* The members a request carries, and the resource each worker is busy with.
Members(rq) == IF rq.res \in Groups THEN rq.val ELSE {}
Busy(p) == pc[p] \notin {"idle", "native"}

----------------------------------------------------------------------------
(* The two upstreams, as the bundled SCIM servers behave *)

After(old, op, v) ==
    CASE op \in {"POST", "PUT", "PATCH"} -> v
      [] op = "ADD" -> old \cup v
      [] op = "REMOVE" -> old \ v
      [] OTHER -> None

\* Deleting a user takes the memberships with it.
Without(groups, r) ==
    [x \in DOMAIN groups |->
        IF x \in Groups \/ x \in {Mint(g) : g \in Groups}
        THEN IF groups[x] = None THEN None ELSE groups[x] \ {r} ELSE groups[x]]

Applied(table, r, op, v) ==
    IF op # "DELETE" THEN [table EXCEPT ![r] = After(@, op, v)]
    ELSE IF r \in Users THEN [Without(table, r) EXCEPT ![r] = None]
    ELSE [table EXCEPT ![r] = None]

Endpoint(r) == IF r \in Users THEN "users" ELSE "groups"
Drop(s, r) == LET at == CHOOSE i \in DOMAIN s : s[i] = r IN
              [i \in 1..(Len(s) - 1) |-> IF i < at THEN s[i] ELSE s[i + 1]]

NativeAccepts(r, op) == (native[r] = None) = (op = "POST")

\* Mutant: the lookup that resolves a conflict takes whatever the list has.
StandingAnyone(r) == {w \in Row : workos[w] # None /\ (Of(w) \in Users) = (r \in Users)}

Standing(r) == {w \in {r, Mint(r)} : workos[w] # None}

WorkosDeletes(w) ==
    IF workos[w] = None THEN workos
    ELSE IF Retains /\ Of(w) \in Users THEN [workos EXCEPT ![w] = "inactive"]
    ELSE IF Of(w) \in Users THEN [Without(workos, w) EXCEPT ![w] = None]
    ELSE [workos EXCEPT ![w] = None]

----------------------------------------------------------------------------
(* What makes the two sides differ, kept for the properties *)

\* Requests and the backfill's copy that a write of rq runs across.
Touches(a, b) == a.res = b.res \/ a.res \in Members(b) \/ b.res \in Members(a)
Across(q, rq) == {p \in Req \ {q} : Busy(p) /\ Touches(req[p], rq)}
Captured == {s[1] : s \in Elements(snap)} \cup {s[1] : s \in Elements(sink)}
            \cup (IF pc[Filler] = "idle" THEN {} ELSE {req[Filler].res})

\* Groups the backfill has still to write with r among their members.
Copying(r) == {s[1] : s \in {s \in Elements(snap) : s[1] \in Groups /\ r \in s[2]}}
              \cup {req[Filler].res : x \in {r} \cap Members(req[Filler])}

Cross(q, rq) ==
    /\ crossed' = [p \in Proc |-> IF p = q THEN Across(q, rq) # {} \/ rq.res \in Captured
                                  ELSE crossed[p] \/ p \in Across(q, rq)]
    /\ stale' = stale \cup ({rq.res} \cap Captured) \cup Copying(rq.res)

\* A new WorkOS id for r dangles wherever the old one was written as a member.
Rename(m, r, w) ==
    /\ map' = [m EXCEPT ![r] = w]
    /\ LET moved == w # (IF m[r] = None THEN r ELSE m[r]) IN
       crossed' = [p \in Proc |-> crossed[p] \/ (moved /\ r \in Members(req[p]))]

GroupsOf(r) == {g \in Groups : want[g] # None /\ r \in want[g]}
Translate(m, r) == IF m[r] = None THEN r ELSE m[r]
Moved(r, w) == IF w = Translate(map, r) THEN {} ELSE GroupsOf(r)

----------------------------------------------------------------------------
(* The IdP, and handleScim's dispatch on the mode it reads *)

Own == ever \ before
Known == {u \in Users : want[u] # None /\ (native[u] # None \/ u \in Own)}

Legal(op, r, v) ==
    /\ r \in Users => op \notin {"ADD", "REMOVE"}
    /\ r \in Groups => op # "PATCH"
    /\ op = "POST" => want[r] = None /\ native[r] = None /\ r \notin ever
    /\ op # "POST" => want[r] # None
    /\ v \in (IF op = "DELETE" THEN {IF r \in Users THEN "inactive" ELSE {}}
              ELSE IF r \in Users THEN Flag
              ELSE IF op \in {"ADD", "REMOVE"} THEN {{u} : u \in Known}
              ELSE SUBSET Known)

Actors == Cardinality({p \in Req : pc[p] # "idle"}) + (IF stage = "off" THEN 0 ELSE 1)
Unanswered(p) == pc[p] = "native" \/ (Busy(p) /\ req[p].mode = "workos-only")

Receive(q, op, r, v) ==
    LET rq == [op |-> op, res |-> r, val |-> v, mode |-> mode, absent |-> FALSE] IN
    /\ pc[q] = "idle" /\ spent < MaxSpent /\ Actors < MaxActors
    /\ \A p \in Req : Unanswered(p) => req[p].res # r
    /\ Legal(op, r, v)
    /\ req' = [req EXCEPT ![q] = rq]
    /\ spent' = spent + 1
    /\ IF mode = "workos-only"
       THEN /\ pc' = [pc EXCEPT ![q] = "load"]
            /\ Cross(q, rq)
            /\ ever' = IF op = "POST" THEN ever \cup {r} ELSE ever
       ELSE /\ pc' = [pc EXCEPT ![q] = "native"]
            /\ UNCHANGED <<crossed, stale, ever>>
    /\ UNCHANGED <<upstreams, tables, body, row, fill, want, oldN, oldW, held, wrote>>

Reset(q) ==
    /\ pc' = [pc EXCEPT ![q] = "idle"]
    /\ req' = [req EXCEPT ![q] = NoReq]
    /\ body' = [body EXCEPT ![q] = None]
    /\ row' = [row EXCEPT ![q] = None]

\* The effect on native of a request it accepts.
NativeWrites(q) ==
    LET r == req[q].res  op == req[q].op IN
    /\ native' = Applied(native, r, op, req[q].val)
    /\ born' = [born EXCEPT ![Endpoint(r)] = IF op = "POST" THEN Append(@, r)
                                            ELSE IF op = "DELETE" THEN Drop(@, r) ELSE @]
    /\ held' = IF op = "DELETE" THEN held \ {r} ELSE held
    /\ ever' = IF op = "POST" THEN ever \cup {r} ELSE ever
    /\ wrote' = wrote \cup {r}

\* The native leg succeeds and the IdP is answered; the rest is waitUntil.
NativeLeg(q) ==
    LET r == req[q].res  op == req[q].op IN
    /\ pc[q] = "native" /\ NativeAccepts(r, op)
    /\ NativeWrites(q)
    /\ pc' = [pc EXCEPT ![q] = "clear"]
    /\ want' = Applied(want, r, op, req[q].val)
    /\ oldN' = IF op \in {"POST", "PUT", "DELETE"} THEN oldN \ {r} ELSE oldN
    /\ oldW' = IF req[q].mode = "passthrough" THEN oldW \cup {r} ELSE oldW
    /\ Cross(q, req[q])
    /\ UNCHANGED <<workos, tables, req, body, row, fill, spent>>

\* Native refuses.  A DELETE of a resource native lacks is done already, and
\* dual-write mirrors it; any other refusal ends the request.
NativeRefuses(q) ==
    LET r == req[q].res  done == req[q].op = "DELETE" IN
    /\ pc[q] = "native" /\ ~NativeAccepts(r, req[q].op)
    /\ UNCHANGED <<upstreams, tables, fill, held, ever, wrote, oldN, spent>>
    /\ want' = IF done THEN Applied(want, r, "DELETE", None) ELSE want
    /\ IF done /\ req[q].mode = "dual-write"
       THEN /\ pc' = [pc EXCEPT ![q] = "load"]
            /\ req' = [req EXCEPT ![q] = [@ EXCEPT !.absent = TRUE]]
            /\ Cross(q, req[q])
            /\ UNCHANGED <<body, row, oldW>>
       ELSE /\ Reset(q)
            /\ oldW' = oldW \cup (IF done THEN {r} ELSE {})
            /\ IF done THEN Cross(q, req[q]) ELSE UNCHANGED <<crossed, stale>>

\* Native applied the write and its answer is lost: 502, and no mirror.
NativeAnswerLost(q) ==
    LET r == req[q].res IN
    /\ pc[q] = "native" /\ NativeAccepts(r, req[q].op) /\ spent < MaxSpent
    /\ NativeWrites(q)
    /\ Reset(q)
    /\ oldN' = oldN \cup {r} \cup {g \in Groups : native[g] # native'[g]}
    /\ oldW' = oldW \cup {r}
    /\ stale' = IF r \in Captured THEN stale \cup {r} ELSE stale
    /\ spent' = spent + 1
    /\ UNCHANGED <<workos, tables, fill, want, crossed>>

\* clearDivergenceForWrite, and the end of a passthrough request.
ClearGap(q) ==
    /\ pc[q] = "clear"
    /\ gap' = [gap EXCEPT ![req[q].res] = None]
    /\ IF req[q].mode = "passthrough" THEN Reset(q)
       ELSE pc' = [pc EXCEPT ![q] = "load"] /\ UNCHANGED <<req, body, row>>
    /\ UNCHANGED <<upstreams, setting, mode, map, fill, history, spent>>

----------------------------------------------------------------------------
(* mirrorDualWrite, and the workos-only verbs, which run the same dance *)

\* What a mirror that ended well or badly leaves known about its resource, and
\* about the groups its new WorkOS id dangles in.
SettleAside(q, ok, aside) ==
    LET r == req[q].res  op == req[q].op  only == req[q].mode = "workos-only" IN
    /\ want' = IF only /\ ok THEN Applied(want, r, op, req[q].val) ELSE want
    /\ oldN' = IF only /\ ok THEN oldN \cup {r} ELSE oldN
    /\ oldW' = aside \cup (IF ~ok \/ crossed[q] THEN oldW \cup {r}
                           ELSE IF op \in {"POST", "PUT"} THEN oldW \ {r} ELSE oldW)

Settle(q, ok) == SettleAside(q, ok, {})

\* Mutant: the namespace is not looked at.
RefusedNever(q) == FALSE

Refused(q) == Shared /\ map[req[q].res] = None

\* A PUT of an id this directory does not map mints a mapping, so in a shared
\* namespace the mirror is skipped (and the workos-only replace answers 404).
SkipReplace(q) ==
    /\ pc[q] = "load" /\ req[q].op = "PUT" /\ Refused(q)
    /\ Settle(q, FALSE)
    /\ Reset(q)
    /\ UNCHANGED <<upstreams, tables, fill, crossed, stale, held, ever, wrote, spent>>

\* Mutant: members are sent to WorkOS under their native ids.
LoadUntranslated(q) ==
    LET r == req[q].res  op == req[q].op IN
    /\ pc[q] = "load" /\ ~(op = "PUT" /\ Refused(q))
    /\ body' = [body EXCEPT ![q] = req[q].val]
    /\ row' = [row EXCEPT ![q] = Translate(map, r)]
    /\ pc' = [pc EXCEPT ![q] = IF op = "DELETE" THEN "delete"
                               ELSE IF op \in {"POST", "PUT"} THEN "put" ELSE "patch"]
    /\ UNCHANGED <<upstreams, tables, req, fill, history, spent>>

\* loadIdMaps and the mapping of the resource itself.
Load(q) ==
    LET r == req[q].res  op == req[q].op IN
    /\ pc[q] = "load" /\ ~(op = "PUT" /\ Refused(q))
    /\ body' = [body EXCEPT ![q] =
                  IF r \in Groups THEN {Translate(map, u) : u \in req[q].val} ELSE req[q].val]
    /\ row' = [row EXCEPT ![q] = Translate(map, r)]
    /\ crossed' = [crossed EXCEPT ![q] = @ \/ \E u \in Members(req[q]) : map[u] = None]
    /\ pc' = [pc EXCEPT ![q] = IF op = "DELETE" THEN "delete"
                               ELSE IF op \in {"POST", "PUT"} THEN "put" ELSE "patch"]
    /\ UNCHANGED <<upstreams, tables, req, fill, want, oldN, oldW, stale, held, ever, wrote, spent>>

Overwrite(q, w) == workos' = [workos EXCEPT ![w] = body[q]]
MirrorUnchanged == <<native, born, tables, fill, history, spent>>

\* mirrorUpsert: PUT by the mapped id, or by the shared id at first touch.
PutHits(q) ==
    /\ pc[q] = "put" /\ workos[row[q]] # None
    /\ Overwrite(q, row[q])
    /\ pc' = [pc EXCEPT ![q] = "record"]
    /\ UNCHANGED <<req, body, row, MirrorUnchanged>>

PutMisses(q) ==
    /\ pc[q] = "put" /\ workos[row[q]] = None
    /\ pc' = [pc EXCEPT ![q] = "post"]
    /\ UNCHANGED <<workos, req, body, row, MirrorUnchanged>>

\* createViaPost: WorkOS adopts the id in the header, or makes up its own.
PostCreates(q, adopts) ==
    LET r == req[q].res  w == IF adopts THEN r ELSE Mint(r) IN
    /\ pc[q] = "post" /\ Standing(r) = {}
    /\ Overwrite(q, w)
    /\ row' = [row EXCEPT ![q] = w]
    /\ pc' = [pc EXCEPT ![q] = "record"]
    /\ UNCHANGED <<req, body, MirrorUnchanged>>

PostConflicts(q) ==
    /\ pc[q] = "post" /\ Standing(req[q].res) # {}
    /\ pc' = [pc EXCEPT ![q] = "reput"]
    /\ UNCHANGED <<workos, req, body, row, MirrorUnchanged>>

\* resolveCreateRace: the shared id again, else the row that has the name.
Reput(q) ==
    LET r == req[q].res IN
    /\ pc[q] = "reput"
    /\ IF workos[r] # None
       THEN Overwrite(q, r) /\ row' = [row EXCEPT ![q] = r] /\ pc' = [pc EXCEPT ![q] = "record"]
       ELSE UNCHANGED <<workos, row>> /\ pc' = [pc EXCEPT ![q] = "lookup"]
    /\ UNCHANGED <<req, body, MirrorUnchanged>>

Lookup(q) ==
    /\ pc[q] = "lookup"
    /\ \E w \in Standing(req[q].res) : row' = [row EXCEPT ![q] = w]
    /\ pc' = [pc EXCEPT ![q] = "sync"]
    /\ UNCHANGED <<workos, req, body, MirrorUnchanged>>

Sync(q) ==
    /\ pc[q] = "sync" /\ workos[row[q]] # None
    /\ Overwrite(q, row[q])
    /\ pc' = [pc EXCEPT ![q] = "record"]
    /\ UNCHANGED <<req, body, row, MirrorUnchanged>>

\* upsertMapping closes the dance.
Record(q) ==
    /\ pc[q] = "record" /\ q # Filler
    /\ Rename(map, req[q].res, row[q])
    /\ SettleAside(q, TRUE, Moved(req[q].res, row[q]))
    /\ stale' = stale \cup (Moved(req[q].res, row[q]) \cap {s[1] : s \in Elements(sink)})
    /\ Reset(q)
    /\ UNCHANGED <<upstreams, setting, mode, gap, fill, held, ever, wrote, spent>>

\* A translated PATCH, sent to the row the maps name.
PatchHits(q) ==
    /\ pc[q] = "patch" /\ workos[row[q]] # None
    /\ workos' = [workos EXCEPT ![row[q]] = After(@, req[q].op, body[q])]
    /\ Settle(q, TRUE)
    /\ Reset(q)
    /\ UNCHANGED <<native, born, tables, fill, crossed, stale, held, ever, wrote, spent>>

\* WorkOS applied the PATCH and its answer is lost.
PatchAnswerLost(q) ==
    /\ pc[q] = "patch" /\ workos[row[q]] # None /\ spent < MaxSpent
    /\ workos' = [workos EXCEPT ![row[q]] = After(@, req[q].op, body[q])]
    /\ Settle(q, FALSE)
    /\ Reset(q)
    /\ spent' = spent + 1
    /\ UNCHANGED <<native, born, tables, fill, crossed, stale, held, ever, wrote>>

\* Mutant: any answer of WorkOS to a DELETE is as good as a 404.
DeleteRowAnyAnswer(q) ==
    /\ pc[q] = "delete"
    /\ workos' \in {workos, WorkosDeletes(row[q])}
    /\ pc' = [pc EXCEPT ![q] = "prune"]
    /\ UNCHANGED <<req, body, row, MirrorUnchanged>>

\* DELETE: a WorkOS 404 is as good as a 204.
DeleteRow(q) ==
    /\ pc[q] = "delete"
    /\ workos' = WorkosDeletes(row[q])
    /\ pc' = [pc EXCEPT ![q] = "prune"]
    /\ UNCHANGED <<req, body, row, MirrorUnchanged>>

PruneMapping(q) ==
    /\ pc[q] = "prune"
    /\ map' = [map EXCEPT ![req[q].res] = None]
    /\ IF req[q].absent
       THEN pc' = [pc EXCEPT ![q] = "retire"] /\ UNCHANGED <<req, body, row, want, oldN, oldW>>
       ELSE Settle(q, TRUE) /\ Reset(q)
    /\ UNCHANGED <<upstreams, setting, mode, gap, fill, crossed, stale, held, ever, wrote, spent>>

\* Native and WorkOS both lack the resource: its gap is closed.
Retire(q) ==
    /\ pc[q] = "retire"
    /\ gap' = [gap EXCEPT ![req[q].res] = None]
    /\ Settle(q, TRUE)
    /\ Reset(q)
    /\ UNCHANGED <<upstreams, setting, mode, map, fill, crossed, stale, held, ever, wrote, spent>>

\* WorkOS refuses: nothing by that id or name, or a row gone meanwhile.
Misses(q) ==
    \/ pc[q] \in {"patch", "sync"} /\ workos[row[q]] = None
    \/ pc[q] = "lookup" /\ Standing(req[q].res) = {}

\* WorkOS or the datastore fails.  Between a write that hit and its record, that
\* is an answer nobody could use.
Fails(q) ==
    pc[q] \in {"put", "post", "reput", "lookup", "sync", "record", "patch", "delete"}

MirrorFails(q) ==
    /\ q # Filler
    /\ \/ Misses(q) /\ spent' = spent
       \/ Fails(q) /\ spent < MaxSpent /\ spent' = spent + 1
    /\ Settle(q, FALSE)
    /\ Reset(q)
    /\ UNCHANGED <<upstreams, tables, fill, crossed, stale, held, ever, wrote>>

\* The mapping of a deleted resource stays behind.  After cutover the IdP is
\* told the delete is done all the same.
PruneFails(q) ==
    /\ pc[q] = "prune" /\ spent < MaxSpent
    /\ LET r == req[q].res  only == req[q].mode = "workos-only" IN
       /\ want' = IF only THEN Applied(want, r, "DELETE", None) ELSE want
       /\ oldN' = IF only THEN oldN \cup {r} ELSE oldN
       /\ oldW' = oldW \cup {r}
    /\ Reset(q)
    /\ spent' = spent + 1
    /\ UNCHANGED <<upstreams, tables, fill, crossed, stale, held, ever, wrote>>

----------------------------------------------------------------------------
(* runBackfill: users, then groups whose members the flushed mappings name *)

FillCost == 2

StartFill ==
    /\ stage = "off" /\ mode = "dual-write" /\ spent + FillCost <= MaxSpent /\ Actors < MaxActors
    /\ stage' = "users"
    /\ held' = {u \in Users : native[u] # None}
    /\ spent' = spent + FillCost
    /\ UNCHANGED <<upstreams, tables, procs, snap, sink, want, oldN, oldW, crossed, stale,
                   ever, wrote>>

\* snapshot: pages by offset into the listing as it is at each read, until it
\* has as many rows as the listing counts.  A failed page ends it short.
Listing == born[stage]
Page(from) == SubSeq(Listing, from, IF from + PageSize - 1 < Len(Listing)
                                    THEN from + PageSize - 1 ELSE Len(Listing))
Copy(rows) == [i \in DOMAIN rows |-> <<rows[i], native[rows[i]]>>]

Beside(rows) == {q \in Req : Busy(q) /\ req[q].res \in {s[1] : s \in Elements(rows)}}

FillPage ==
    LET next == snap \o Copy(Page(Len(snap) + 1)) IN
    /\ stage \in {"users", "groups"}
    /\ snap' = next
    /\ stage' = IF Len(next) < Len(Listing) THEN stage
                ELSE IF stage = "users" THEN "user-rows" ELSE "flush"
    /\ stale' = stale \cup {req[q].res : q \in Beside(next)}
    /\ crossed' = [p \in Proc |-> crossed[p] \/ p \in Beside(next)]
    /\ UNCHANGED <<upstreams, tables, procs, sink, want, oldN, oldW, held, ever, wrote, spent>>

FillPageFails ==
    /\ stage \in {"users", "groups"} /\ spent < MaxSpent
    /\ stage' = IF stage = "users" THEN "user-rows" ELSE "flush"
    /\ spent' = spent + 1
    /\ UNCHANGED <<upstreams, tables, procs, snap, sink, history>>

Full == Len(sink) >= FlushSize
Rows == {"user-rows", "group-rows"}

\* mirrorResource skips a row it cannot attribute to this directory.
FillSkips ==
    /\ stage \in Rows /\ pc[Filler] = "idle" /\ ~Full /\ snap # <<>>
    /\ Shared /\ map[Head(snap)[1]] = None
    /\ snap' = Tail(snap)
    /\ UNCHANGED <<upstreams, tables, procs, stage, sink, history, spent>>

FillRow ==
    LET r == Head(snap)[1]  v == Head(snap)[2]
        members == IF r \in Groups THEN v ELSE {} IN
    /\ stage \in Rows /\ pc[Filler] = "idle" /\ ~Full /\ snap # <<>>
    /\ ~(Shared /\ map[r] = None)
    /\ snap' = Tail(snap)
    /\ req' = [req EXCEPT ![Filler] = [op |-> "PUT", res |-> r, val |-> v, mode |-> None,
                                        absent |-> FALSE]]
    /\ body' = [body EXCEPT ![Filler] =
                  IF r \in Groups THEN {Translate(map, u) : u \in v} ELSE v]
    /\ row' = [row EXCEPT ![Filler] = Translate(map, r)]
    /\ pc' = [pc EXCEPT ![Filler] = "put"]
    /\ stale' = IF \E u \in members : map[u] = None THEN stale \cup {r} ELSE stale
    /\ crossed' = [crossed EXCEPT ![Filler] = FALSE]
    /\ UNCHANGED <<upstreams, tables, stage, sink, want, oldN, oldW, held, ever, wrote, spent>>

\* recordMapping queues the mapping.
FillRecord ==
    LET r == req[Filler].res IN
    /\ pc[Filler] = "record"
    /\ sink' = Append(sink, <<r, row[Filler]>>)
    /\ Reset(Filler)
    /\ stale' = IF crossed[Filler] THEN stale \cup {r} ELSE stale
    /\ UNCHANGED <<upstreams, tables, stage, snap, want, oldN, oldW, crossed, held, ever, wrote, spent>>

FillFails ==
    /\ \/ Misses(Filler) /\ spent' = spent
       \/ Fails(Filler) /\ spent < MaxSpent /\ spent' = spent + 1
    /\ oldW' = oldW \cup {req[Filler].res}
    /\ Reset(Filler)
    /\ UNCHANGED <<upstreams, tables, fill, want, oldN, crossed, stale, held, ever, wrote>>

\* flushMappings: one batch, written or lost as a whole.
AfterFlush ==
    CASE Full -> stage
      [] stage = "flush" -> "group-rows"
      [] OTHER -> "off"
FlushDue == Full \/ stage = "flush" \/ (stage = "group-rows" /\ snap = <<>>)
Queued(r) == \E i \in DOMAIN sink : sink[i][1] = r
SinkRow(r) == sink[CHOOSE i \in DOMAIN sink : sink[i][1] = r][2]

Flush(written) ==
    LET rows == {r \in Res : Queued(r)}
        renamed == {r \in rows : written /\ SinkRow(r) # Translate(map, r)}
        good == {r \in rows : written /\ r \notin stale \cup oldN} IN
    /\ pc[Filler] = "idle" /\ FlushDue /\ stage \in Rows \cup {"flush"}
    /\ map' = [r \in Res |-> IF written /\ r \in rows THEN SinkRow(r) ELSE map[r]]
    /\ crossed' = [p \in Proc |-> crossed[p] \/ renamed \cap Members(req[p]) # {}]
    /\ oldW' = ((oldW \ good) \cup (rows \ good)) \cup UNION {GroupsOf(r) : r \in renamed}
    /\ sink' = <<>>
    /\ stage' = AfterFlush
    /\ stale' = IF AfterFlush = "off" THEN {} ELSE stale
    /\ UNCHANGED <<upstreams, setting, mode, gap, procs, snap, want, oldN, held, ever, wrote>>

FlushWrites == Flush(TRUE) /\ UNCHANGED spent
FlushFails == sink # <<>> /\ spent < MaxSpent /\ Flush(FALSE)
              /\ spent' = spent + 1

\* The users are replayed; the groups are listed before the flush.
FillUsersDone ==
    /\ stage = "user-rows" /\ pc[Filler] = "idle" /\ ~Full /\ snap = <<>>
    /\ stage' = "groups"
    /\ UNCHANGED <<upstreams, tables, procs, snap, sink, history, spent>>

----------------------------------------------------------------------------
(* The operator, and the process *)

SetMode(m) ==
    /\ m # mode /\ spent < MaxSpent
    /\ mode' = m
    /\ spent' = spent + 1
    /\ UNCHANGED <<upstreams, setting, map, gap, procs, fill, history>>

\* The panel's clean-workos: a DELETE for every row it listed.
CleanWorkos ==
    /\ spent < MaxSpent
    /\ workos' = [w \in Row |-> IF Retains /\ Of(w) \in Users /\ workos[w] # None
                                THEN "inactive" ELSE None]
    /\ oldW' = oldW \cup Res
    /\ crossed' = [p \in Proc |-> TRUE] /\ stale' = stale \cup Captured
    /\ spent' = spent + 1
    /\ UNCHANGED <<native, born, tables, procs, fill, want, oldN, held, ever, wrote>>

\* The process dies with its requests, its mirrors and its backfill.
Crash ==
    /\ spent < MaxSpent
    /\ \E p \in Proc : pc[p] # "idle" \/ stage # "off"
    /\ pc' = [p \in Proc |-> "idle"] /\ req' = [p \in Proc |-> NoReq]
    /\ body' = [p \in Proc |-> None] /\ row' = [p \in Proc |-> None]
    /\ stage' = "off" /\ snap' = <<>> /\ sink' = <<>> /\ stale' = {}
    /\ oldW' = oldW \cup {req[p].res : p \in {p \in Proc : Busy(p)}} \cup {s[1] : s \in Elements(sink)}
                     \cup UNION {GroupsOf(req[p].res) : p \in {p \in Proc : pc[p] = "prune"}}
    /\ spent' = spent + 1
    /\ UNCHANGED <<upstreams, tables, want, oldN, crossed, held, ever, wrote>>

----------------------------------------------------------------------------
\* An app with users and groups in it, all but one of Res, and an empty WorkOS
\* directory; or an app of its own rolled back from workos-primary with a row in
\* the ledger: a delete native refused, or a create, known by the id WorkOS gave.
Init ==
    /\ site \in Sites /\ mode = "dual-write"
    /\ \E there \in SUBSET Res : \E order \in [1..Cardinality(there \cap Users) -> there \cap Users] :
        /\ Cardinality(Res \ there) <= 1 /\ Lists(order, there \cap Users)
        /\ \E rest \in [1..Cardinality(there \cap Groups) -> there \cap Groups] :
            Lists(rest, there \cap Groups) /\ born = [users |-> order, groups |-> rest]
        /\ native = [r \in Res |-> IF r \notin there THEN None
                                   ELSE IF r \in Users THEN "active" ELSE there \cap Users]
        /\ \E listed \in {{}} \cup {{u} : u \in Users} :
            /\ listed # {} => site = "own app" /\ Res \ there \subseteq listed
            /\ gap = [r \in Res |-> IF r \notin listed THEN None
                                    ELSE IF r \in there THEN "DELETE" ELSE "POST"]
            /\ oldN = listed \ there
            /\ want = [r \in Res |-> IF r \in oldN THEN "active" ELSE native[r]]
            /\ workos = [w \in Row |-> IF w \in oldN THEN "active" ELSE None]
    /\ map = [r \in Res |-> None]
    /\ pc = [p \in Proc |-> "idle"] /\ req = [p \in Proc |-> NoReq]
    /\ body = [p \in Proc |-> None] /\ row = [p \in Proc |-> None]
    /\ stage = "off" /\ snap = <<>> /\ sink = <<>>
    /\ oldW = {r \in Res : want[r] # None}
    /\ crossed = [p \in Proc |-> FALSE]
    /\ before = {r \in Res : want[r] # None} /\ ever = before
    /\ stale = {} /\ held = {} /\ wrote = {}
    /\ spent = 0

Dance(q) ==
    \/ PutHits(q) \/ PutMisses(q) \/ (\E adopts \in BOOLEAN : PostCreates(q, adopts))
    \/ PostConflicts(q) \/ Reput(q) \/ Lookup(q) \/ Sync(q)

Proxy(q) ==
    \/ NativeLeg(q) \/ NativeRefuses(q) \/ NativeAnswerLost(q) \/ ClearGap(q)
    \/ SkipReplace(q) \/ Load(q) \/ Record(q) \/ PatchHits(q) \/ PatchAnswerLost(q)
    \/ DeleteRow(q) \/ PruneMapping(q) \/ PruneFails(q) \/ Retire(q) \/ MirrorFails(q)

Backfill ==
    \/ StartFill \/ FillPage \/ FillPageFails \/ FillSkips \/ FillRow \/ FillRecord
    \/ FillFails \/ FlushWrites \/ FlushFails \/ FillUsersDone

Next ==
    \/ \E q \in Req, op \in Op, r \in Res :
        \E v \in (IF r \in Users THEN Flag ELSE SUBSET Users) : Receive(q, op, r, v)
    \/ \E q \in Req : Proxy(q)
    \/ \E q \in Proc : Dance(q)
    \/ Backfill
    \/ \E m \in Mode : SetMode(m)
    \/ CleanWorkos \/ Crash

Spec == Init /\ [][Next]_vars

----------------------------------------------------------------------------
(* The panel's live state: three listings, compared by name (reconcile.ts) *)

Presence(x) == IF x = None THEN "absent" ELSE x
NativeSees(u) == Presence(native[u])
WorkosSees(u) == IF Standing(u) = {} THEN "absent"
                 ELSE workos[CHOOSE w \in Standing(u) : TRUE]
IdpSees(u) == Presence(want[u])

\* Mutant: what WorkOS keeps of a deleted user is a user.
TombstoneNever(u) == FALSE

\* isTombstone and isNativeTombstone: what one side keeps of a deleted user.
Tombstone(u) ==
    \/ WorkosSees(u) = "inactive" /\ NativeSees(u) = "absent"
    \/ NativeSees(u) = "inactive" /\ WorkosSees(u) = "absent" /\ IdpSees(u) = "absent"

UserDiverged(u) == NativeSees(u) # WorkosSees(u) /\ ~Tombstone(u)

\* A WorkOS member is named by the row its id finds, or by the bare id.
NameOf(w) == IF w \in Row /\ workos[w] # None THEN Of(w) ELSE w
NativeEdges(g) == IF native[g] = None THEN {} ELSE native[g]
WorkosEdges(g) ==
    UNION {{NameOf(w) : w \in workos[x]} : x \in Standing(g)}

EdgeDiverged(g, n) ==
    /\ (n \in NativeEdges(g)) # (n \in WorkosEdges(g))
    /\ ~(n \in Users /\ Tombstone(n))

PresenceDiverged(g) == (native[g] = None) # (Standing(g) = {})

----------------------------------------------------------------------------
(* Properties *)

Content(r) == IF r \in Users THEN Flag ELSE SUBSET Users
RowContent(w) == IF Of(w) \in Users THEN Flag ELSE SUBSET Row

\* Rows, mappings, the ledger and what is under way keep their types: native lists
\* the ids of its rows, and a mapping names the id or a minted one.
TypeOK ==
    /\ mode \in Mode
    /\ \A r \in Res : /\ native[r] = None \/ native[r] \in Content(r)
                      /\ want[r] = None \/ want[r] \in Content(r)
    /\ Lists(born["users"], {r \in Users : native[r] # None})
    /\ Lists(born["groups"], {r \in Groups : native[r] # None})
    /\ \A w \in Row : workos[w] = None \/ workos[w] \in RowContent(w)
    /\ \A r \in Res : map[r] \in {None, r, Mint(r)}
    /\ gap \in [Res -> {None, "DELETE", "POST"}]
    /\ \A p \in Proc : pc[p] # "idle" => req[p].res \in Res
    /\ \A q \in Req : pc[q] \in {"idle", "native", "clear", "load", "put", "post", "reput",
                                 "lookup", "sync", "record", "patch", "delete", "prune", "retire"}
    /\ stage \in {"off", "users", "groups", "flush"} \cup Rows
    /\ oldN \subseteq Res /\ oldW \subseteq Res /\ before \subseteq ever /\ ever \subseteq Res

Quiet == stage = "off" /\ \A p \in Proc : pc[p] = "idle"

\* WorkOS holds r as the IdP was told: one row, with its content and mapped;
\* or, once deleted, no row but what WorkOS keeps of a user.
WorkosHolds(r) ==
    IF want[r] = None
    THEN map[r] = None /\ \A w \in Standing(r) : Retains /\ workos[w] = "inactive"
    ELSE /\ Standing(r) = {map[r]}
         /\ IF r \in Users THEN workos[map[r]] = want[r]
            ELSE {w \in workos[map[r]] : Of(w) \notin oldW /\ want[Of(w)] # None}
                 = {map[u] : u \in want[r] \ oldW}

NativeHolds(r) ==
    IF r \in Users \/ want[r] = None \/ native[r] = None THEN native[r] = want[r]
    ELSE native[r] \ oldN = want[r] \ oldN

\* When nothing is under way, both sides hold what the IdP was last told,
\* member ids translated, but for resources something is known to have
\* happened to: a passthrough or workos-only write, a failed leg, a crash, or a
\* mirror another writer ran across.  A completed replace or backfill repairs
\* whatever went before.
MirrorsConverge ==
    Quiet => /\ \A r \in Res \ oldW : WorkosHolds(r)
             /\ \A r \in Res \ oldN : NativeHolds(r)

\* The live state then shows no divergence among those resources: what WorkOS
\* keeps of deleted users and their memberships is a tombstone, not drift.
PanelShowsNoDrift ==
    Quiet => LET known == Res \ (oldN \cup oldW) IN
        /\ \A u \in Users \cap known : ~UserDiverged(u)
        /\ \A g \in Groups \cap known :
            /\ ~PresenceDiverged(g)
            /\ \A n \in NativeEdges(g) \cup WorkosEdges(g) : Of(n) \in known => ~EdgeDiverged(g, n)

\* Where another directory fronts the same native app, only resources created
\* through this one are ever mapped: no request, and no backfill of the unscoped
\* native listing, claims a neighbour's row.
MapsOnlyItsOwn == Shared => \A r \in Res : map[r] # None => r \in Own

\* WorkOS has no row by that id, but for what it keeps of a user.
Gone(w) == workos[w] = None \/ (Retains /\ workos[w] = "inactive")

\* A row of the ledger is retired only when native took a write of its
\* resource, or when native lacks it and WorkOS no longer holds the row it was
\* asked to delete: the one the directory's mappings knew.
GapsCloseForCause ==
    [][\A r \in Res : gap[r] # None /\ gap'[r] = None =>
         \/ r \in wrote
         \/ /\ native[r] = None
            /\ \A q \in Req : pc[q] = "retire" /\ req[q].res = r => Gone(row[q])]_vars

\* "Every way the enumeration can come up short ... records an error": a
\* listing read without one has every user native had throughout.
SnapshotIsComplete ==
    [][stage = "users" /\ stage' = "user-rows" /\ FillPage =>
         held \subseteq {s[1] : s \in Elements(snap')}]_vars
=============================================================================
