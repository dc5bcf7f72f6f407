---------------------------- MODULE DsyncListener ----------------------------
(***************************************************************************)
(* The native app's Directory Sync listener (src/workers/native/           *)
(* listener.ts) for one directory.  WorkOS keeps the directory, stamps     *)
(* every change with its time, and delivers each event at least once, in   *)
(* any order.  A delivery is handled in the steps the code awaits: the     *)
(* instruction, the duplicate test and the last-writer-wins test; the      *)
(* identity of the user and the group (event links); one read of the rows  *)
(* that decides what to write; then every write, version and log record    *)
(* as a statement of its own, each of which may fail.                      *)
(*                                                                         *)
(* Two ways an event names its resource live side by side in the code and  *)
(* in "scheme": real events carry a Directory Sync id ("dsync"), the       *)
(* bundled emitter's carry none and are matched on attributes ("legacy").  *)
(*                                                                         *)
(* An event's time is its position in log: isNewestEvent compares the ISO  *)
(* timestamps as strings, and WorkOS' order of emission is that order.     *)
(***************************************************************************)
EXTENDS Integers, FiniteSets, Sequences, SequencesExt

CONSTANTS
    Person,        \* users of the WorkOS directory, one per Directory Sync id
    Group,         \* groups of the WorkOS directory
    Key,           \* values of a user's idp_id
    GroupKeyOf,    \* a group's idp_id: [Group -> group keys]
    KeysOf,        \* the idp_ids a person may have: [Person -> SUBSET Key]
    NameOf,        \* the user name that goes with an idp_id: [Key -> names]
    Handler,       \* deliveries in progress at one time
    Scheme,        \* how events name resources: SUBSET {"dsync", "legacy"}
    LiveFromStart, \* the directory is already cut over in the initial state
    MaxEvents,     \* bound: events WorkOS emits
    MaxEarly,      \* bound: those of them before the cutover
    MaxFaults,     \* bound: failed statements and process deaths
    None           \* SQL NULL, no row, no event

Name == {NameOf[k] : k \in Key}
GroupKey == {GroupKeyOf[g] : g \in Group}

ASSUME PersonAssumption == KeysOf \in [Person -> SUBSET Key]
ASSUME BoundAssumption == MaxEvents \in Nat /\ MaxEarly \in Nat /\ MaxFaults \in Nat
ASSUME LiveAssumption == LiveFromStart \in BOOLEAN
ASSUME SchemeAssumption == Scheme \subseteq {"dsync", "legacy"}
ASSUME NoneAssumption ==
    None \notin Key \cup Person \cup Group \cup GroupKey \cup Name

\* Directory Sync ids of users and of groups differ, native mints its own, and
\* neither is an idp_id.
ASSUME IdAssumption == Person \cap (Group \cup Key) = {} /\ Group \cap GroupKey = {}

VARIABLES
    log,        \* every event WorkOS has emitted, oldest first
    person,     \* WorkOS: state and idp_id of each person
    group,      \* WorkOS: state of each group
    edges,      \* WorkOS: memberships
    scheme,     \* how this directory's events name resources
    live,       \* the status endpoint's apply_dsync_events
    users,      \* native_users: a row per native id, or None
    groups,     \* native_groups: a row per native id, or None
    members,    \* native_group_members
    links,      \* dsync_event_links: the Directory Sync ids bound to a native id
    versions,   \* listener_versions: scope -> event time
    processed,  \* listener_events: events recorded as applied or skipped
    ignored,    \* listener_events: events recorded as ignored
    run,        \* the deliveries in progress
    faults      \* faults so far

workos == <<log, person, group, edges>>
native == <<users, groups, members>>
ledger == <<versions, processed, ignored>>
vars == <<workos, scheme, live, native, links, ledger, run, faults>>

----------------------------------------------------------------------------
(* Rows and events *)

Event == [type : {"user", "deleted", "group", "groupDeleted", "added", "removed"},
          user : Person \cup {None}, group : Group \cup {None},
          key : Key \cup {None}, active : BOOLEAN]

\* A native id: the mapped SCIM id in the dsync scheme, idp_id in the legacy one.
UserId == Person \cup Key
GroupId == Group \cup GroupKey

UserRow == [ext : Key, name : Name, active : BOOLEAN]
GroupRow == [ext : GroupKey]

ASSUME RowAssumption == None \notin UserRow /\ None \notin GroupRow

Scope == ({"user"} \X Key) \cup ({"group"} \X GroupKey)
         \cup ({"member"} \X GroupKey \X Key)
         \cup ({"dsync-resource"} \X (Person \cup Group))
         \cup ({"dsync-member"} \X Group \X Person)

Statement ==
    [op : {"putUser"}, id : UserId, row : UserRow]
    \cup [op : {"clear"}, id : UserId]
    \cup [op : {"putGroup"}, id : GroupId, row : GroupRow]
    \cup [op : {"clearGroup", "dropGroup"}, id : GroupId]
    \cup [op : {"addMember", "removeMember"}, edge : GroupId \X UserId]
    \cup [op : {"version"}, scope : Scope]
    \cup [op : {"record"}, action : {"processed", "ignored"}]

Idle == [pc |-> "idle", event |-> None, scopes |-> <<>>, todo |-> <<>>]

MembershipEvent(e) == log[e].type \in {"added", "removed"}
UserEvent(e) == log[e].type \in {"user", "deleted"}

----------------------------------------------------------------------------
(* Scopes and the last-writer-wins ledger *)

\* scopeFor.
UserScopes(key) == {<<"user", key>>}
GroupScopes(gk) == {<<"group", gk>>}
MemberScopes(gk, key) == {<<"member", gk, key>>}

Stable(s) == IF scheme = "dsync" THEN {s} ELSE {}

\* The row a linked id stands for, which may carry a newer idp_id than the event.
LinkedUser(p) == IF p \in links /\ scheme = "dsync" THEN users[p] ELSE None

CurrentKey(row, key) == IF row = None THEN key ELSE row.ext

UserEventScopes(p, key) ==
    UserScopes(key) \cup Stable(<<"dsync-resource", p>>)
    \cup UserScopes(CurrentKey(LinkedUser(p), key))

GroupEventScopes(g) ==
    GroupScopes(GroupKeyOf[g]) \cup Stable(<<"dsync-resource", g>>)

EventScopes(e) ==
    LET ev == log[e] IN
    CASE UserEvent(e) -> UserEventScopes(ev.user, ev.key)
      [] MembershipEvent(e) ->
            MemberScopes(GroupKeyOf[ev.group], ev.key)
            \cup Stable(<<"dsync-member", ev.group, ev.user>>)
            \cup MemberScopes(GroupKeyOf[ev.group],
                              CurrentKey(LinkedUser(ev.user), ev.key))
      [] OTHER -> GroupEventScopes(ev.group)

\* Mutant: arrival order decides.
IsNewestNever(scopes, e) == TRUE
IsNewestAcross(scopes, e) == \A s \in scopes : e >= versions[s]

----------------------------------------------------------------------------
(* Which row an event is about *)

Present(p) == person[p].state \in {"active", "inactive"}

\* verifyDsyncEventIdentity: the live directory still shows the event's identity.
ConfirmedUser(p, key) ==
    Present(p) /\ person[p].key = key

\* nativeIdForEvent for an id without a link: learned only for an event that
\* may create, and only while WorkOS confirms the identity.
CanResolveUser(e) ==
    \/ scheme = "legacy"
    \/ log[e].user \in links
    \/ log[e].active /\ ConfirmedUser(log[e].user, log[e].key)

CanResolveGroup(e) ==
    \/ scheme = "legacy"
    \/ log[e].group \in links
    \/ log[e].type \in {"group", "added"} /\ group[log[e].group] = "present"

FindUser(e) ==
    LET ev == log[e]
        ByExternalId == {i \in UserId : users[i] # None /\ users[i].ext = ev.key}
        ByUserName == {i \in UserId : users[i] # None /\ users[i].name = NameOf[ev.key]}
    IN IF scheme = "dsync"
       THEN IF users[ev.user] = None THEN None ELSE ev.user
       ELSE IF ByExternalId # {}
            THEN CHOOSE i \in ByExternalId : TRUE
            ELSE IF ByUserName # {} THEN CHOOSE i \in ByUserName : TRUE ELSE None

FindGroup(e) ==
    LET g == log[e].group
        ByExternalId ==
            {i \in GroupId : groups[i] # None /\ groups[i].ext = GroupKeyOf[g]}
    IN IF scheme = "dsync"
       THEN IF groups[g] = None THEN None ELSE g
       ELSE IF ByExternalId # {} THEN CHOOSE i \in ByExternalId : TRUE ELSE None

\* idForNewEventResource: the mapped id, or idp_id where events carry no id.
\* Mutant: the row that was looked up gives the id of the row to create.
NewUserIdOfRow(e) == FindUser(e)
NewUserId(e) == IF scheme = "dsync" THEN log[e].user ELSE log[e].key
NewGroupId(e) == IF scheme = "dsync" THEN log[e].group ELSE GroupKeyOf[log[e].group]

----------------------------------------------------------------------------
(* What an event writes: the statements in the order the code issues them *)

PutUser(i, row) == [op |-> "putUser", id |-> i, row |-> row]
UserRowOf(ev) == [ext |-> ev.key, name |-> NameOf[ev.key], active |-> ev.active]

\* Mutant: the row is handed over before its memberships are cleared.
UpsertThenClear(e) ==
    LET i == FindUser(e)
        row == UserRowOf(log[e])
        changesHands == users[i].ext # row.ext
    IN IF i = None THEN <<PutUser(NewUserId(e), row)>>
       ELSE IF users[i] = row THEN <<>>
       ELSE <<PutUser(i, row)>>
            \o (IF changesHands THEN <<[op |-> "clear", id |-> i]>> ELSE <<>>)

\* upsertUserFromEvent: a row that changes hands loses its memberships first.
UpsertUser(e) ==
    LET i == FindUser(e)
        row == UserRowOf(log[e])
        changesHands == users[i].ext # row.ext
    IN IF i = None THEN <<PutUser(NewUserId(e), row)>>
       ELSE IF users[i] = row THEN <<>>
       ELSE (IF changesHands THEN <<[op |-> "clear", id |-> i]>> ELSE <<>>)
            \o <<PutUser(i, row)>>

\* deleteUserFromEvent: deactivate in place, never delete.
DeleteUser(e) ==
    LET i == FindUser(e)
    IN IF i = None THEN <<>>
       ELSE <<PutUser(i, [users[i] EXCEPT !.ext = log[e].key, !.active = FALSE])>>

\* ScimStore.deleteGroup removes the edges, then the row.
UpsertGroup(e) ==
    IF FindGroup(e) # None THEN <<>>
    ELSE <<[op |-> "putGroup", id |-> NewGroupId(e),
            row |-> [ext |-> GroupKeyOf[log[e].group]]]>>

DeleteGroup(e) ==
    LET i == FindGroup(e)
    IN IF i = None THEN <<>>
       ELSE <<[op |-> "clearGroup", id |-> i], [op |-> "dropGroup", id |-> i]>>

\* changeMembership, op = "add": stubs for what is missing, each only when no
\* newer event of that user or group has been recorded.
StubUser(e) == IF FindUser(e) # None THEN <<>>
               ELSE <<PutUser(NewUserId(e), UserRowOf(log[e]))>>
StubGroup(e) == UpsertGroup(e)

GroupGate(e) == FindGroup(e) # None \/ IsNewestAcross(GroupEventScopes(log[e].group), e)
\* Mutant: a membership stub is not gated on the user's own timeline.
UserGateOpen(e) == TRUE
UserGate(e) ==
    FindUser(e) # None \/ IsNewestAcross(UserEventScopes(log[e].user, log[e].key), e)

AddMember(e) ==
    LET u == IF FindUser(e) = None THEN NewUserId(e) ELSE FindUser(e)
        g == IF FindGroup(e) = None THEN NewGroupId(e) ELSE FindGroup(e)
    IN IF ~GroupGate(e) \/ ~UserGate(e) THEN <<>>
       ELSE StubUser(e) \o StubGroup(e) \o <<[op |-> "addMember", edge |-> <<g, u>>]>>

RemoveMember(e) ==
    IF FindUser(e) = None \/ FindGroup(e) = None THEN <<>>
    ELSE <<[op |-> "removeMember", edge |-> <<FindGroup(e), FindUser(e)>>]>>

ApplyEvent(e) ==
    CASE log[e].type = "user" -> UpsertUser(e)
      [] log[e].type = "deleted" -> DeleteUser(e)
      [] log[e].type = "group" -> UpsertGroup(e)
      [] log[e].type = "groupDeleted" -> DeleteGroup(e)
      [] log[e].type = "added" -> AddMember(e)
      [] log[e].type = "removed" -> RemoveMember(e)

RecordVersions(scopes) ==
    [i \in 1..Len(scopes) |-> [op |-> "version", scope |-> scopes[i]]]
RecordEvent(action) == <<[op |-> "record", action |-> action]>>

----------------------------------------------------------------------------
(* The handler: processDsyncEvent and dispatch *)

Idling == \A h \in Handler : run[h].pc = "idle"
Recorded(e) == e \in processed \cup ignored

\* processDsyncEvent up to the last-writer-wins test.  While the bridge says
\* "stay inert" the event only advances its scopes.  A duplicate, or an event
\* older than one of its scopes, is recorded and nothing else.
Deliver(h, e) ==
    LET scopes == SetToSeq(EventScopes(e)) IN
    /\ run[h].pc = "idle"
    /\ e \notin processed
    /\ run' = [run EXCEPT ![h] =
          IF ~live
          THEN [pc |-> "write", event |-> e, scopes |-> scopes,
                todo |-> RecordVersions(scopes) \o RecordEvent("ignored")]
          ELSE IF ~IsNewestAcross(EventScopes(e), e)
          THEN [pc |-> "write", event |-> e, scopes |-> scopes,
                todo |-> RecordEvent("processed")]
          ELSE [pc |-> "resolve", event |-> e, scopes |-> scopes, todo |-> <<>>]]
    /\ UNCHANGED <<workos, scheme, live, native, links, ledger, faults>>

\* resolveNativeEventId for the user, then for the group.  What it learns it
\* binds at once; what it cannot learn fails the delivery, to be retried.
Resolve(h) ==
    LET e == run[h].event
        user == IF log[e].user # None THEN {log[e].user} ELSE {}
        grp == IF log[e].group # None THEN {log[e].group} ELSE {}
        userKnown == user = {} \/ CanResolveUser(e)
        groupKnown == grp = {} \/ CanResolveGroup(e)
        bound == IF scheme = "legacy" \/ ~userKnown THEN {}
                 ELSE IF ~groupKnown THEN user ELSE user \cup grp
    IN /\ run[h].pc = "resolve"
       /\ links' = links \cup bound
       /\ run' = [run EXCEPT ![h] =
             IF userKnown /\ groupKnown THEN [run[h] EXCEPT !.pc = "plan"] ELSE Idle]
       /\ UNCHANGED <<workos, scheme, live, native, ledger, faults>>

\* applyEvent reads the rows it needs and settles what it will write; dispatch
\* then advances every scope it read at the start, and the event is recorded.
Plan(h) ==
    /\ run[h].pc = "plan"
    /\ run' = [run EXCEPT ![h] = [run[h] EXCEPT !.pc = "write",
            !.todo = ApplyEvent(run[h].event) \o RecordVersions(run[h].scopes)
                     \o RecordEvent("processed")]]
    /\ UNCHANGED <<workos, scheme, live, native, links, ledger, faults>>

\* native_users.user_name is UNIQUE, whatever the upsert's conflict target.
NameTaken(st) ==
    /\ st.op = "putUser"
    /\ \E i \in UserId \ {st.id} : users[i] # None /\ users[i].name = st.row.name

EdgesOfUser(i) == {m \in members : m[2] = i}
EdgesOfGroup(i) == {m \in members : m[1] = i}

UsersAfter(st) ==
    CASE st.op = "putUser" -> [users EXCEPT ![st.id] = st.row]
      [] OTHER -> users
GroupsAfter(st) ==
    CASE st.op = "putGroup" -> [groups EXCEPT ![st.id] = st.row]
      [] st.op = "dropGroup" -> [groups EXCEPT ![st.id] = None]
      [] OTHER -> groups
MembersAfter(st) ==
    CASE st.op = "clear" -> members \ EdgesOfUser(st.id)
      [] st.op = "clearGroup" -> members \ EdgesOfGroup(st.id)
      [] st.op = "addMember" -> members \cup {st.edge}
      [] st.op = "removeMember" -> members \ {st.edge}
      [] OTHER -> members
VersionsAfter(st, e) ==
    IF st.op = "version" /\ versions[st.scope] < e
    THEN [versions EXCEPT ![st.scope] = e] ELSE versions

\* One statement.  The last one records the event and ends the delivery.
Write(h) ==
    LET st == Head(run[h].todo)
        e == run[h].event
    IN /\ run[h].pc = "write"
       /\ ~NameTaken(st)
       /\ users' = UsersAfter(st)
       /\ groups' = GroupsAfter(st)
       /\ members' = MembersAfter(st)
       /\ versions' = VersionsAfter(st, e)
       /\ processed' = IF st.op = "record" /\ st.action = "processed"
                        THEN processed \cup {e} ELSE processed
       /\ ignored' = IF st.op = "record" /\ st.action = "ignored"
                      THEN ignored \cup {e} ELSE ignored
       /\ run' = [run EXCEPT ![h] = IF Len(run[h].todo) = 1 THEN Idle
                     ELSE [run[h] EXCEPT !.todo = Tail(run[h].todo)]]
       /\ UNCHANGED <<workos, scheme, live, links, faults>>

\* The UNIQUE constraint refuses the row: a handler error, answered 503.
WriteRefused(h) ==
    /\ run[h].pc = "write"
    /\ NameTaken(Head(run[h].todo))
    /\ run' = [run EXCEPT ![h] = Idle]
    /\ UNCHANGED <<workos, scheme, live, native, links, ledger, faults>>

\* Mutant: a handler error is recorded under the event's id.
FaultRecorded(h) ==
    /\ run[h].pc # "idle"
    /\ faults < MaxFaults
    /\ faults' = faults + 1
    /\ processed' = processed \cup {run[h].event}
    /\ run' = [run EXCEPT ![h] = Idle]
    /\ UNCHANGED <<workos, scheme, live, native, links, versions, ignored>>

\* A statement or a lookup fails, or the process dies: the delivery is not
\* acknowledged (a handler error is logged without its event id) and WorkOS
\* delivers it again.
Fault(h) ==
    /\ run[h].pc # "idle"
    /\ faults < MaxFaults
    /\ faults' = faults + 1
    /\ run' = [run EXCEPT ![h] = Idle]
    /\ UNCHANGED <<workos, scheme, live, native, links, ledger>>

----------------------------------------------------------------------------
(* WorkOS and the cutover *)

\* Before cutover the proxy writes the native app itself, under its own ids.
DirectWrite(ev, newEdges) ==
    IF live THEN UNCHANGED native
    ELSE /\ users' = [p \in UserId |->
              IF p # ev.user \/ ev.type \notin {"user", "deleted"} THEN users[p]
              ELSE IF person'[p].state = "gone" THEN None
              ELSE UserRowOf(ev)]
         /\ groups' = [g \in GroupId |->
              IF g # ev.group \/ ev.type \notin {"group", "groupDeleted"} THEN groups[g]
              ELSE IF ev.type = "groupDeleted" THEN None
              ELSE [ext |-> GroupKeyOf[g]]]
         /\ members' = newEdges

Emit(ev) ==
    /\ Len(log) < MaxEvents /\ (live \/ Len(log) < MaxEarly)
    /\ log' = Append(log, ev)
    /\ DirectWrite(ev, edges')
    /\ UNCHANGED <<scheme, live, links, ledger, run, faults>>

EventOf(type, p, g, key, active) ==
    [type |-> type, user |-> p, group |-> g, key |-> key, active |-> active]

SetPerson(p, state, key) == person' = [person EXCEPT ![p] = [state |-> state, key |-> key]]

\* An idp_id and the user name that goes with it belong to one person at a time.
FreeKey(p, k) ==
    \A q \in {q \in Person \ {p} : Present(q)} : NameOf[person[q].key] # NameOf[k]

Hire(p, k) ==
    /\ person[p].state = "none" /\ k \in KeysOf[p] /\ FreeKey(p, k)
    /\ SetPerson(p, "active", k)
    /\ UNCHANGED <<group, edges>>
    /\ Emit(EventOf("user", p, None, k, TRUE))

\* A change of the idp_id.  A change of other attributes leaves the modelled
\* columns as they are.
Update(p, k) ==
    /\ person[p].state = "active" /\ k \in KeysOf[p] \ {person[p].key} /\ FreeKey(p, k)
    /\ SetPerson(p, "active", k)
    /\ UNCHANGED <<group, edges>>
    /\ Emit(EventOf("user", p, None, k, TRUE))

\* A suspension: an update to inactive, or, with the environment's suspension
\* flag off, user.deleted while WorkOS keeps the user and the memberships.
Suspend(p, type) ==
    /\ person[p].state = "active"
    /\ SetPerson(p, "inactive", person[p].key)
    /\ UNCHANGED <<group, edges>>
    /\ Emit(EventOf(type, p, None, person[p].key, FALSE))

Rehire(p) ==
    /\ person[p].state = "inactive"
    /\ SetPerson(p, "active", person[p].key)
    /\ UNCHANGED <<group, edges>>
    /\ Emit(EventOf("user", p, None, person[p].key, TRUE))

Terminate(p) ==
    /\ Present(p)
    /\ SetPerson(p, "gone", person[p].key)
    /\ edges' = {m \in edges : m[2] # p}
    /\ UNCHANGED group
    /\ Emit(EventOf("deleted", p, None, person[p].key, FALSE))

CreateGroup(g) ==
    /\ group[g] = "none"
    /\ \A g2 \in Group \ {g} : group[g2] # "present" \/ GroupKeyOf[g2] # GroupKeyOf[g]
    /\ group' = [group EXCEPT ![g] = "present"]
    /\ UNCHANGED <<person, edges>>
    /\ Emit(EventOf("group", None, g, None, TRUE))

RemoveGroup(g) ==
    /\ group[g] = "present"
    /\ group' = [group EXCEPT ![g] = "gone"]
    /\ edges' = {m \in edges : m[1] # g}
    /\ UNCHANGED person
    /\ Emit(EventOf("groupDeleted", None, g, None, FALSE))

Join(p, g) ==
    /\ person[p].state = "active" /\ group[g] = "present" /\ <<g, p>> \notin edges
    /\ edges' = edges \cup {<<g, p>>}
    /\ UNCHANGED <<person, group>>
    /\ Emit(EventOf("added", p, g, person[p].key, TRUE))

Leave(p, g) ==
    /\ <<g, p>> \in edges /\ person[p].state = "active"
    /\ edges' = edges \ {<<g, p>>}
    /\ UNCHANGED <<person, group>>
    /\ Emit(EventOf("removed", p, g, person[p].key, FALSE))

WorkosStep ==
    \/ \E p \in Person, k \in Key : Hire(p, k) \/ Update(p, k)
    \/ \E p \in Person : Rehire(p) \/ Terminate(p)
    \/ \E p \in Person, type \in {"user", "deleted"} : Suspend(p, type)
    \/ \E g \in Group : CreateGroup(g) \/ RemoveGroup(g)
    \/ \E p \in Person, g \in Group : Join(p, g) \/ Leave(p, g)

\* The operator sets the directory to workos-only.
Cutover ==
    /\ ~live
    /\ live' = TRUE
    /\ UNCHANGED <<workos, scheme, native, links, ledger, run, faults>>

----------------------------------------------------------------------------
Init ==
    /\ log = <<>>
    /\ person = [p \in Person |-> [state |-> "none", key |-> None]]
    /\ group = [g \in Group |-> "none"]
    /\ edges = {}
    /\ scheme \in Scheme
    /\ live = LiveFromStart
    /\ users = [i \in UserId |-> None]
    /\ groups = [i \in GroupId |-> None]
    /\ members = {}
    /\ links = {}
    /\ versions = [s \in Scope |-> 0]
    /\ processed = {}
    /\ ignored = {}
    /\ run = [h \in Handler |-> Idle]
    /\ faults = 0

HandlerStep(h) == Resolve(h) \/ Plan(h) \/ Write(h) \/ WriteRefused(h)

Next ==
    \/ WorkosStep
    \/ Cutover
    \/ \E h \in Handler : HandlerStep(h) \/ Fault(h) \/ \E e \in 1..Len(log) : Deliver(h, e)

Spec == Init /\ [][Next]_vars

----------------------------------------------------------------------------
(* Properties *)

\* WorkOS' directory, the native rows, the links and the ledger keep their types,
\* and a delivery in progress has only the statements of its own event left.
TypeOK ==
    /\ log \in Seq(Event)
    /\ person \in [Person -> [state : {"none", "active", "inactive", "gone"},
                               key : Key \cup {None}]]
    /\ group \in [Group -> {"none", "present", "gone"}]
    /\ edges \subseteq Group \X Person
    /\ scheme \in Scheme
    /\ live \in BOOLEAN
    /\ users \in [UserId -> UserRow \cup {None}]
    /\ groups \in [GroupId -> GroupRow \cup {None}]
    /\ members \subseteq GroupId \X UserId
    /\ links \subseteq Person \cup Group
    /\ versions \in [Scope -> 0..MaxEvents]
    /\ processed \subseteq 1..Len(log)
    /\ ignored \subseteq 1..Len(log)
    /\ run \in [Handler -> [pc : {"idle", "resolve", "plan", "write"},
                             event : (1..Len(log)) \cup {None},
                             scopes : Seq(Scope), todo : Seq(Statement)]]
    /\ faults \in 0..MaxFaults

\* Every event emitted has been recorded, and nothing is in progress.
Quiet == live /\ Idling /\ \A e \in 1..Len(log) : Recorded(e)

\* A person nobody else has shared an idp_id or a name with, and, where rows are
\* found by attributes, whose idp_id never changed: a new one names another row.
OwnIdentity(p) ==
    /\ \A e \in 1..Len(log) : log[e].user \notin {p, None} =>
          NameOf[log[e].key] \notin {NameOf[k] : k \in KeysOf[p]}
    /\ scheme = "legacy" => \A e, e2 \in 1..Len(log) :
          log[e].user = p /\ log[e2].user = p => log[e].key = log[e2].key
OwnGroup(g) == \A g2 \in Group \ {g} : GroupKeyOf[g2] = GroupKeyOf[g] => group[g2] = "none"

RowsOf(p) == {i \in UserId : users[i] # None /\ users[i].ext \in KeysOf[p]}
GroupRowsOf(g) == {i \in GroupId : groups[i] # None /\ groups[i].ext = GroupKeyOf[g]}

\* Whatever order, however often and with whatever faults in between the events
\* arrived: once all of them are recorded, an active person has an active row
\* under the current idp_id, and a suspended or terminated one has none.
UserConverges ==
    Quiet => \A p \in Person : OwnIdentity(p) =>
        IF person[p].state = "active"
        THEN \E i \in RowsOf(p) : users[i].active /\ users[i].ext = person[p].key
        ELSE \A i \in RowsOf(p) : ~users[i].active

NeverDeleted(p) == \A e \in 1..Len(log) : log[e].type = "deleted" => log[e].user # p
KeptKey(p) == \A e \in 1..Len(log) : log[e].user = p => log[e].key = person[p].key

HasEdge(p, g) == \E i \in RowsOf(p), j \in GroupRowsOf(g) : <<j, i>> \in members

\* Once all events are recorded, the memberships of a person who was never
\* deleted and kept the idp_id are WorkOS' own: no stale removal wins, no
\* addition is lost, and none survives its removal.
EdgesConverge ==
    Quiet => \A p \in Person, g \in Group :
        /\ OwnIdentity(p) /\ OwnGroup(g) /\ NeverDeleted(p) /\ KeptKey(p)
        /\ person[p].state = "active"
        => (HasEdge(p, g) <=> <<g, p>> \in edges)

\* A row that passes from one idp_id to another carries no membership over, even
\* when the handler died between clearing the edges and writing the row.
HandoverIsClean ==
    [][\A i \in UserId :
         (/\ users[i] # None /\ users'[i] # None
          /\ live /\ users'[i].active
          /\ users'[i].ext # users[i].ext)
         => EdgesOfUser(i) = {}]_vars

\* The ledger holds an event newer than e for one of these scopes.
Superseded(e, scopes) == \E s \in scopes : versions[s] > e

\* Last writer wins where it matters, at the write: no event changes a row or a
\* membership when the ledger already holds a newer event for the timeline it
\* was judged by.  A stub is judged by the timeline of the row it brings back.
SupersededNeverWrites ==
    [][\A h \in Handler :
         LET st == Head(run[h].todo)
             e == run[h].event
         IN (run[h].pc = "write" /\ run'[h] # run[h] /\ native' # native)
            => /\ ~Superseded(e, ToSet(run[h].scopes))
               /\ MembershipEvent(e) /\ st.op = "putUser" =>
                    ~Superseded(e, UserEventScopes(log[e].user, log[e].key))
               /\ MembershipEvent(e) /\ st.op = "putGroup" =>
                    ~Superseded(e, GroupEventScopes(log[e].group))]_vars

\* The comment in upsertUserFromEvent on clearing memberships when a row's
\* external id changes: "this converges whether it is a new occupant or the same
\* person under a changed externalId".  Here the same person, known by the same
\* Directory Sync id, who was never suspended or deleted.
ChangedExternalIdConverges ==
    Quiet /\ scheme = "dsync" => \A p \in Person, g \in Group :
        /\ OwnIdentity(p) /\ OwnGroup(g) /\ NeverDeleted(p)
        /\ <<g, p>> \in edges /\ person[p].state = "active"
        => HasEdge(p, g)
=============================================================================
