-------------------------- MODULE DsyncListenerProofs --------------------------
(***************************************************************************)
(* What the listener makes of events that come late, twice or out of       *)
(* order, for any number of people, groups and events.  The results, but   *)
(* for TypeCorrect, are about one delivery at a time (Single): with two,   *)
(* an older event can write over a newer one.                              *)
(*   WorkosOK: what the log tells of every person and group, and that the  *)
(* native rows are WorkOS' own until the cutover.                          *)
(*   FlightInv: a delivery that still has to write was not late when its   *)
(* ledger was read, and what it has left is the end of what its event      *)
(* leads to on the rows as they are now.                                   *)
(*   UserRows: the events a row took its idp_id and its name from.         *)
(* These make ListenerInv, and with it no late event writes and no row     *)
(* takes memberships to another idp_id.                                    *)
(*   ScopeOK: what is recorded is known to every timeline its event is on. *)
(* Hence an event that is recorded, and the newest of its person, has been *)
(* applied; and PersonsSettle: from then on the row shows that event.      *)
(*   GroupRows, EdgesFrom: the groups and the additions the groups' rows   *)
(* and the memberships came from.  RowsStay, GroupsSettle, EdgesSettle: a  *)
(* person who is kept has a row, a group that is gone has none, and a      *)
(* membership is as the newest event of it says, once that is applied.     *)
(***************************************************************************)
EXTENDS DsyncListener, FiniteSetTheorems, WellFoundedInduction, TLAPS

(* One delivery at a time. *)
Single == \A h, h2 \in Handler : h = h2

(* An event is known by its place in the log, which is its time. *)
Events == 1..Len(log)

(* A statement on the rows, not on the ledger; a delivery with none left. *)
Native(st) == st.op \notin {"version", "record"}
Dry(h) == \A i \in 1..Len(run[h].todo) : ~Native(run[h].todo[i])

(* What an event of WorkOS says. *)
EventShape(e) ==
    LET ev == log[e] IN
    /\ ev.type \in {"user", "deleted"} => ev.user \in Person /\ ev.group = None /\ ev.key \in KeysOf[ev.user]
    /\ ev.type \in {"added", "removed"} => ev.user \in Person /\ ev.group \in Group /\ ev.key \in KeysOf[ev.user]
    /\ ev.type \in {"group", "groupDeleted"} => ev.user = None /\ ev.group \in Group
    /\ ev.type \in {"group", "added"} => ev.active
    /\ ev.type = "deleted" => ~ev.active
EventsShaped == \A e \in Events : EventShape(e)

(* What the log tells of one person, one group and one membership: the newest   *)
(* event of each says how WorkOS has it.                                         *)
UserEvents(p) == {e \in Events : UserEvent(e) /\ log[e].user = p}
MemberEvents(p, g) == {e \in Events : MembershipEvent(e) /\ log[e].user = p /\ log[e].group = g}
NewestUser(e, p) == e \in UserEvents(p) /\ \A e2 \in UserEvents(p) : e2 <= e
NewestMember(e, p, g) == e \in MemberEvents(p, g) /\ \A e2 \in MemberEvents(p, g) : e2 <= e
PersonToldOf(p) ==
    /\ person[p].state = "none" => \A e \in Events : log[e].user # p
    /\ person[p].state # "none" => person[p].key \in KeysOf[p] /\ UserEvents(p) # {}
    /\ \A e \in UserEvents(p) : NewestUser(e, p) =>
          /\ log[e].key = person[p].key
          /\ log[e].active <=> person[p].state = "active"
          /\ \A e2 \in Events : e2 > e /\ log[e2].user = p =>
                log[e2].key = person[p].key /\ person[p].state = "active"
PersonTold == \A p \in Person : PersonToldOf(p)
GroupToldOf(g) ==
    /\ group[g] = "none" => \A e \in Events : log[e].group # g
    /\ group[g] = "gone" => \E e \in Events : log[e].type = "groupDeleted" /\ log[e].group = g
    /\ \A e \in Events : log[e].group = g /\ log[e].type = "groupDeleted" =>
          /\ group[g] = "gone"
          /\ \A e2 \in Events : log[e2].group = g => e2 <= e
    /\ \A e \in Events : log[e].group = g /\ log[e].type = "group" =>
          \A e2 \in Events : log[e2].group = g => e2 >= e
GroupTold == \A g \in Group : GroupToldOf(g)
EdgeToldOf(p, g) ==
    /\ <<g, p>> \in edges => /\ group[g] = "present" /\ Present(p)
                             /\ \E e \in MemberEvents(p, g) : log[e].type = "added"
    /\ \A e \in MemberEvents(p, g) :
          (NewestMember(e, p, g) /\ NeverDeleted(p) /\ group[g] = "present") =>
          (<<g, p>> \in edges <=> log[e].type = "added")
EdgesTold == \A p \in Person, g \in Group : EdgeToldOf(p, g)

(* An idp_id and its name belong to one person at a time, and to one group. *)
OneKeyEach ==
    \A p, q \in Person : p # q /\ Present(p) /\ Present(q) => NameOf[person[p].key] # NameOf[person[q].key]
OneGroupEach ==
    \A g, g2 \in Group : g # g2 /\ group[g] = "present" /\ group[g2] = "present" => GroupKeyOf[g] # GroupKeyOf[g2]

(* Until the cutover the native rows are WorkOS' own. *)
Mirrored ==
    ~live =>
    /\ \A i \in UserId : users[i] =
          IF i \in Person /\ Present(i)
          THEN [ext |-> person[i].key, name |-> NameOf[person[i].key], active |-> person[i].state = "active"]
          ELSE None
    /\ \A i \in GroupId : groups[i] =
          IF i \in Group /\ group[i] = "present" THEN [ext |-> GroupKeyOf[i]] ELSE None
    /\ members = edges

(* A delivery's statements: the record is the last, and a version is one of the  *)
(* scopes it set out with.                                                       *)
Shaped(h) ==
    LET r == run[h] IN
    /\ r.pc # "idle" => r.event \in Events
    /\ r.pc \in {"resolve", "plan"} => live
    /\ r.pc = "write" =>
         /\ Len(r.todo) >= 1
         /\ \A i \in 1..Len(r.todo) : Native(r.todo[i]) => live
         /\ \A i \in 1..Len(r.todo) : r.todo[i].op = "version" => r.todo[i].scope \in ToSet(r.scopes)
         /\ \A i \in 1..Len(r.todo) : r.todo[i].op = "record" <=> i = Len(r.todo)
Shapes == \A h \in Handler : Shaped(h)

(* The timelines an event is on for its own attributes, and those it may be      *)
(* judged by: a linked row can carry any idp_id its person has had.              *)
KeyOfPerson(p) == {log[e].key : e \in {e \in Events : log[e].user = p}}
BaseScopes(e) ==
    LET ev == log[e] IN
    CASE UserEvent(e) -> UserScopes(ev.key) \cup Stable(<<"dsync-resource", ev.user>>)
      [] MembershipEvent(e) -> MemberScopes(GroupKeyOf[ev.group], ev.key) \cup Stable(<<"dsync-member", ev.group, ev.user>>)
      [] OTHER -> GroupEventScopes(ev.group)
MayScopes(e) ==
    LET ev == log[e] IN
    CASE UserEvent(e) -> (UNION {UserScopes(k) : k \in KeyOfPerson(ev.user)}) \cup Stable(<<"dsync-resource", ev.user>>)
      [] MembershipEvent(e) -> (UNION {MemberScopes(GroupKeyOf[ev.group], k) : k \in KeyOfPerson(ev.user)}) \cup Stable(<<"dsync-member", ev.group, ev.user>>)
      [] OTHER -> GroupEventScopes(ev.group)

(* A delivery knows the first and none but the second; the ledger holds events   *)
(* of the timeline; and a delivery that only records still brings each of its     *)
(* timelines up to its event, unless the event was late, as does one recorded.    *)
ScopesKnown(h) ==
    run[h].pc # "idle" => /\ BaseScopes(run[h].event) \subseteq ToSet(run[h].scopes)
                          /\ ToSet(run[h].scopes) \subseteq MayScopes(run[h].event)
VersionsFrom == \A s \in Scope : versions[s] # 0 => versions[s] \in Events /\ s \in MayScopes(versions[s])
Due(h, s) == \E i \in 1..Len(run[h].todo) : run[h].todo[i] = [op |-> "version", scope |-> s]
Advancing(h) ==
    run[h].pc = "write" =>
        \/ Superseded(run[h].event, ToSet(run[h].scopes))
        \/ \A s \in ToSet(run[h].scopes) : versions[s] >= run[h].event \/ Due(h, s)
RecordedKnown ==
    \A e \in processed \cup ignored :
        \/ Superseded(e, MayScopes(e))
        \/ \A s \in BaseScopes(e) : versions[s] >= e

(* The statements an event may lead to. *)
UserHit(e) == IF FindUser(e) = None THEN NewUserId(e) ELSE FindUser(e)
GroupHit(e) == IF FindGroup(e) = None THEN NewGroupId(e) ELSE FindGroup(e)
PutHit(e) == PutUser(UserHit(e), UserRowOf(log[e]))
PutGone(e) == PutUser(FindUser(e), [users[FindUser(e)] EXCEPT !.ext = log[e].key, !.active = FALSE])
ClearHit(e) == [op |-> "clear", id |-> FindUser(e)]
PutGroupHit(e) == [op |-> "putGroup", id |-> NewGroupId(e),
                   row |-> [ext |-> GroupKeyOf[log[e].group]]]
ClearGroupHit(e) == [op |-> "clearGroup", id |-> FindGroup(e)]
DropHit(e) == [op |-> "dropGroup", id |-> FindGroup(e)]
AddHit(e) == [op |-> "addMember", edge |-> <<GroupHit(e), UserHit(e)>>]
RemoveHit(e) == [op |-> "removeMember", edge |-> <<FindGroup(e), FindUser(e)>>]
ChangesHands(e) == FindUser(e) # None /\ users[FindUser(e)].ext # log[e].key
Same(e) == FindUser(e) # None /\ users[FindUser(e)] = UserRowOf(log[e])

(* Until its last write, a delivery's event was not late when the ledger was      *)
(* read, and what is left is the end of what the event leads to on these rows.    *)
Fresh(h) ==
    (run[h].pc \in {"resolve", "plan"} \/ (run[h].pc = "write" /\ ~Dry(h)))
    => ~Superseded(run[h].event, ToSet(run[h].scopes))
Rest(h) == RecordVersions(run[h].scopes) \o RecordEvent("processed")
OwedBy(e, s) == LET type == log[e].type IN
    \/ type = "user" /\ ~Same(e) /\ ChangesHands(e) /\ s = <<ClearHit(e), PutHit(e)>>
    \/ type = "user" /\ ~Same(e) /\ (ChangesHands(e) => EdgesOfUser(FindUser(e)) = {}) /\ s = <<PutHit(e)>>
    \/ type = "deleted" /\ FindUser(e) # None /\ s = <<PutGone(e)>>
    \/ type = "group" /\ FindGroup(e) = None /\ s = <<PutGroupHit(e)>>
    \/ type = "groupDeleted" /\ FindGroup(e) # None /\ s = <<ClearGroupHit(e), DropHit(e)>>
    \/ type = "groupDeleted" /\ FindGroup(e) # None /\ EdgesOfGroup(FindGroup(e)) = {} /\ s = <<DropHit(e)>>
    \/ /\ type = "added" /\ GroupGate(e) /\ UserGate(e)
       /\ \/ FindUser(e) = None /\ FindGroup(e) = None /\ s = <<PutHit(e), PutGroupHit(e), AddHit(e)>>
          \/ FindUser(e) = None /\ FindGroup(e) # None /\ s = <<PutHit(e), AddHit(e)>>
          \/ FindUser(e) # None /\ FindGroup(e) = None /\ s = <<PutGroupHit(e), AddHit(e)>>
          \/ FindUser(e) # None /\ FindGroup(e) # None /\ s = <<AddHit(e)>>
    \/ type = "removed" /\ FindUser(e) # None /\ FindGroup(e) # None /\ s = <<RemoveHit(e)>>
Owed(h) == run[h].pc = "write" => Dry(h) \/ \E s \in Seq(Statement) : OwedBy(run[h].event, s) /\ run[h].todo = s \o Rest(h)

(* The timeline a person is known by throughout, what WorkOS' directory asks of   *)
(* the rows of the person, and an event with nothing left to write to them.       *)
StableScope(p) == IF scheme = "dsync" THEN <<"dsync-resource", p>> ELSE <<"user", person[p].key>>
Reflected(p) ==
    IF person[p].state = "active"
    THEN \E i \in RowsOf(p) : users[i].active /\ users[i].ext = person[p].key
    ELSE \A i \in RowsOf(p) : ~users[i].active
Done(h, e) == run[h].pc = "write" /\ run[h].event = e /\ Dry(h)
FlightInv == \A h \in Handler : Fresh(h) /\ Owed(h)

-----------------------------------------------------------------------------
(* Sequences and sets *)

LEMMA SetToSeqIsSet ==
    ASSUME NEW S, IsFiniteSet(S)
    PROVE  /\ SetToSeq(S) \in Seq(S) /\ ToSet(SetToSeq(S)) = S
<1> DEFINE n == Cardinality(S)
<1>1. n \in Nat /\ ExistsBijection(1..n, S)
  BY FS_CardinalityType
<1>2. PICK f \in [1..n -> S] : IsInjective(f)
  BY <1>1 DEF ExistsBijection, Bijection, Injection, Surjection, IsInjective
<1>3. SetToSeq(S) \in [1..n -> S] /\ IsInjective(SetToSeq(S))
  BY <1>2 DEF SetToSeq
<1>4. SetToSeq(S) \in Injection(1..n, S)
  BY <1>3 DEF Injection, IsInjective
<1>5. IsFiniteSet(1..n) /\ Cardinality(1..n) = n
  BY <1>1, FS_Interval
<1>6. SetToSeq(S) \in Surjection(1..n, S)
  BY <1>4, <1>5, FS_Injection
<1>7. DOMAIN SetToSeq(S) = 1..n
  BY <1>3
<1>8. \A x \in S : \E i \in 1..n : SetToSeq(S)[i] = x
  BY <1>6 DEF Surjection
<1>9. ToSet(SetToSeq(S)) = S
  BY <1>3, <1>7, <1>8 DEF ToSet
<1> QED
  BY <1>1, <1>3, <1>9

LEMMA SeqParts ==
    ASSUME NEW S, NEW s \in Seq(S), s # <<>>
    PROVE  /\ Head(s) \in S /\ Head(s) = s[1] /\ Tail(s) \in Seq(S)
           /\ Len(s) \in Nat /\ Len(s) >= 1 /\ Len(Tail(s)) = Len(s) - 1
           /\ \A i \in 1..Len(Tail(s)) : Tail(s)[i] = s[i + 1]
OBVIOUS

LEMMA Concat ==
    ASSUME NEW S, NEW s \in Seq(S), NEW t \in Seq(S)
    PROVE  /\ s \o t \in Seq(S) /\ Len(s \o t) = Len(s) + Len(t)
           /\ \A i \in 1..Len(s) : (s \o t)[i] = s[i]
           /\ \A i \in 1..Len(t) : (s \o t)[Len(s) + i] = t[i]
OBVIOUS

LEMMA ConcatParts ==
    ASSUME NEW S, NEW s \in Seq(S), NEW t \in Seq(S), s # <<>>
    PROVE  /\ s \o t # <<>> /\ Head(s \o t) = Head(s) /\ Tail(s \o t) = Tail(s) \o t
<1>1. Len(s) \in Nat /\ Len(s) >= 1 /\ Len(t) \in Nat
  OBVIOUS
<1>2. s \o t \in Seq(S) /\ Len(s \o t) = Len(s) + Len(t)
  OBVIOUS
<1>3. s \o t # <<>> /\ Head(s \o t) = Head(s)
  BY <1>1, <1>2
<1>4. /\ Tail(s \o t) \in Seq(S) /\ Tail(s) \o t \in Seq(S)
      /\ Len(Tail(s \o t)) = Len(s) + Len(t) - 1
      /\ Len(Tail(s) \o t) = Len(s) + Len(t) - 1
  BY <1>1, <1>2
<1>5. ASSUME NEW i \in 1..(Len(s) + Len(t) - 1) PROVE Tail(s \o t)[i] = (Tail(s) \o t)[i]
  BY <1>1, <1>2
<1> QED
  BY <1>3, <1>4, <1>5

-----------------------------------------------------------------------------
(* What WorkOS does, and one more event *)

(* What WorkOS does in one step. *)

UserChange(ev) ==
    /\ ev.type \in {"user", "deleted"} /\ ev.user \in Person /\ ev.group = None
    /\ ev.key \in KeysOf[ev.user] /\ ev.active \in BOOLEAN
    /\ group' = group
    /\ person[ev.user].state # "gone"
    /\ \E s \in {"active", "inactive", "gone"} :
          /\ person' = [person EXCEPT ![ev.user] = [state |-> s, key |-> ev.key]]
          /\ ev.active <=> s = "active"
          /\ ev.type = "deleted" => s # "active"
          /\ s = "gone" => ev.type = "deleted"
          /\ edges' = IF s = "gone" THEN {m \in edges : m[2] # ev.user} ELSE edges
          /\ \/ s # "gone" /\ FreeKey(ev.user, ev.key)
             \/ Present(ev.user) /\ person[ev.user].key = ev.key

GroupChange(ev) ==
    /\ ev.type \in {"group", "groupDeleted"} /\ ev.user = None /\ ev.group \in Group
    /\ ev.key = None /\ (ev.active <=> ev.type = "group")
    /\ person' = person
    /\ IF ev.type = "group"
       THEN /\ group[ev.group] = "none" /\ group' = [group EXCEPT ![ev.group] = "present"]
            /\ edges' = edges
            /\ \A g2 \in Group \ {ev.group} :
                  group[g2] # "present" \/ GroupKeyOf[g2] # GroupKeyOf[ev.group]
       ELSE /\ group[ev.group] = "present" /\ group' = [group EXCEPT ![ev.group] = "gone"]
            /\ edges' = {m \in edges : m[1] # ev.group}

MemberChange(ev) ==
    /\ ev.type \in {"added", "removed"} /\ ev.user \in Person /\ ev.group \in Group
    /\ ev.key = person[ev.user].key /\ (ev.active <=> ev.type = "added")
    /\ person' = person /\ group' = group
    /\ person[ev.user].state = "active"
    /\ IF ev.type = "added"
       THEN group[ev.group] = "present" /\ edges' = edges \cup {<<ev.group, ev.user>>}
       ELSE /\ <<ev.group, ev.user>> \in edges
            /\ edges' = edges \ {<<ev.group, ev.user>>}

Change(ev) == UserChange(ev) \/ GroupChange(ev) \/ MemberChange(ev)

(* A person who is there has an idp_id. *)
KeysKnown == \A p \in Person : person[p].state # "none" => person[p].key \in KeysOf[p]

LEMMA WorkosChanges ==
    ASSUME TypeOK, KeysKnown, WorkosStep
    PROVE  \E ev \in Event : Emit(ev) /\ Change(ev)
<1> USE PersonAssumption, NoneAssumption DEF EventOf, Change
<1>0. /\ \A p \in Person : /\ person[p].state \in {"none", "active", "inactive", "gone"}
                           /\ person[p].key \in Key \cup {None}
                           /\ KeysOf[p] \subseteq Key
      /\ \A g \in Group : group[g] \in {"none", "present", "gone"}
      /\ \A p \in Person : person[p].state # "none" => person[p].key \in KeysOf[p] /\ person[p].key \in Key
  BY DEF TypeOK, KeysKnown
<1>1. ASSUME NEW p \in Person, NEW k \in Key, Hire(p, k) \/ Update(p, k)
      PROVE  \E ev \in Event : Emit(ev) /\ Change(ev)
  <2> DEFINE ev == EventOf("user", p, None, k, TRUE)
  <2>1. Emit(ev) /\ ev \in Event
    BY <1>1 DEF Hire, Update, Event
  <2>2. UserChange(ev)
    BY <1>0, <1>1 DEF Hire, Update, UserChange, SetPerson
  <2> QED
    BY <2>1, <2>2
<1>2. ASSUME NEW p \in Person, Rehire(p)
      PROVE  \E ev \in Event : Emit(ev) /\ Change(ev)
  <2> DEFINE ev == EventOf("user", p, None, person[p].key, TRUE)
  <2>1. Emit(ev) /\ ev \in Event
    BY <1>0, <1>2 DEF Rehire, Event
  <2>2. UserChange(ev)
    BY <1>0, <1>2 DEF Rehire, UserChange, SetPerson, Present
  <2> QED
    BY <2>1, <2>2
<1>3. ASSUME NEW p \in Person, Terminate(p)
      PROVE  \E ev \in Event : Emit(ev) /\ Change(ev)
  <2> DEFINE ev == EventOf("deleted", p, None, person[p].key, FALSE)
  <2>1. Emit(ev) /\ ev \in Event
    BY <1>0, <1>3 DEF Terminate, Event, Present
  <2>2. UserChange(ev)
    BY <1>0, <1>3 DEF Terminate, UserChange, SetPerson, Present
  <2> QED
    BY <2>1, <2>2
<1>4. ASSUME NEW p \in Person, NEW type \in {"user", "deleted"}, Suspend(p, type)
      PROVE  \E ev \in Event : Emit(ev) /\ Change(ev)
  <2> DEFINE ev == EventOf(type, p, None, person[p].key, FALSE)
  <2>1. Emit(ev) /\ ev \in Event
    BY <1>0, <1>4 DEF Suspend, Event, Present
  <2>2. UserChange(ev)
    BY <1>0, <1>4 DEF Suspend, UserChange, SetPerson, Present
  <2> QED
    BY <2>1, <2>2
<1>5. ASSUME NEW g \in Group, CreateGroup(g)
      PROVE  \E ev \in Event : Emit(ev) /\ Change(ev)
  <2> DEFINE ev == EventOf("group", None, g, None, TRUE)
  <2>1. Emit(ev) /\ ev \in Event
    BY <1>5 DEF CreateGroup, Event
  <2>2. GroupChange(ev)
    BY <1>0, <1>5 DEF CreateGroup, GroupChange
  <2> QED
    BY <2>1, <2>2
<1>6. ASSUME NEW g \in Group, RemoveGroup(g)
      PROVE  \E ev \in Event : Emit(ev) /\ Change(ev)
  <2> DEFINE ev == EventOf("groupDeleted", None, g, None, FALSE)
  <2>1. Emit(ev) /\ ev \in Event
    BY <1>6 DEF RemoveGroup, Event
  <2>2. GroupChange(ev)
    BY <1>0, <1>6 DEF RemoveGroup, GroupChange
  <2> QED
    BY <2>1, <2>2
<1>7. ASSUME NEW p \in Person, NEW g \in Group, Join(p, g)
      PROVE  \E ev \in Event : Emit(ev) /\ Change(ev)
  <2> DEFINE ev == EventOf("added", p, g, person[p].key, TRUE)
  <2>1. Emit(ev) /\ ev \in Event
    BY <1>0, <1>7 DEF Join, Event
  <2>2. MemberChange(ev)
    BY <1>0, <1>7 DEF Join, MemberChange
  <2> QED
    BY <2>1, <2>2
<1>8. ASSUME NEW p \in Person, NEW g \in Group, Leave(p, g)
      PROVE  \E ev \in Event : Emit(ev) /\ Change(ev)
  <2> DEFINE ev == EventOf("removed", p, g, person[p].key, FALSE)
  <2>1. Emit(ev) /\ ev \in Event
    BY <1>0, <1>8 DEF Leave, Event
  <2>2. MemberChange(ev)
    BY <1>0, <1>8 DEF Leave, MemberChange
  <2> QED
    BY <2>1, <2>2
<1> QED
  BY <1>1, <1>2, <1>3, <1>4, <1>5, <1>6, <1>7, <1>8 DEF WorkosStep

(* One more event. *)
LEMMA OneMore ==
    ASSUME log \in Seq(Event), NEW ev \in Event, log' = Append(log, ev)
    PROVE  /\ log' \in Seq(Event) /\ Len(log) \in Nat /\ Len(log') = Len(log) + 1
           /\ 1..Len(log') = (1..Len(log)) \cup {Len(log) + 1}
           /\ Len(log) + 1 \notin 1..Len(log)
           /\ \A e \in 1..Len(log) : log'[e] = log[e] /\ log[e] \in Event
           /\ log'[Len(log) + 1] = ev
OBVIOUS

-----------------------------------------------------------------------------
(* Looking rows up, and scopes *)

(* What looking a row up returns. *)
LEMMA FoundUser ==
    ASSUME TypeOK, NEW e \in Events, log[e].user \in Person, log[e].key \in Key
    PROVE  /\ FindUser(e) # None =>
                /\ FindUser(e) \in UserId /\ users[FindUser(e)] # None
                /\ scheme = "dsync" => FindUser(e) = log[e].user
                /\ scheme # "dsync" => \/ users[FindUser(e)].ext = log[e].key
                                       \/ users[FindUser(e)].name = NameOf[log[e].key]
           /\ FindUser(e) = None =>
                /\ scheme = "dsync" => users[log[e].user] = None
                /\ scheme # "dsync" => \A i \in UserId : users[i] # None =>
                      users[i].ext # log[e].key /\ users[i].name # NameOf[log[e].key]
           /\ NewUserId(e) \in UserId
<1> DEFINE ev == log[e]
           A == {i \in UserId : users[i] # None /\ users[i].ext = ev.key}
           B == {i \in UserId : users[i] # None /\ users[i].name = NameOf[ev.key]}
<1>1. None \notin UserId /\ ev.user \in UserId /\ ev.key \in UserId
  BY NoneAssumption DEF UserId
<1>2. NewUserId(e) \in UserId
  BY <1>1 DEF NewUserId
<1>3. CASE scheme = "dsync"
  <2>1. FindUser(e) = IF users[ev.user] = None THEN None ELSE ev.user
    BY <1>3 DEF FindUser
  <2> QED
    BY <1>1, <1>2, <1>3, <2>1
<1>4. CASE scheme # "dsync"
  <2>1. FindUser(e) = IF A # {} THEN CHOOSE i \in A : TRUE
                      ELSE IF B # {} THEN CHOOSE i \in B : TRUE ELSE None
    BY <1>4 DEF FindUser
  <2> HIDE DEF A, B
  <2>2. A # {} => FindUser(e) \in A
    BY <2>1
  <2>3. A = {} /\ B # {} => FindUser(e) \in B
    BY <2>1
  <2>4. A = {} /\ B = {} => FindUser(e) = None
    BY <2>1
  <2>5. \A i \in A \cup B : i \in UserId /\ users[i] # None /\ (users[i].ext = ev.key \/ users[i].name = NameOf[ev.key])
    BY DEF A, B
  <2>6. \A i \in UserId : users[i] # None /\ i \notin A /\ i \notin B => users[i].ext # ev.key /\ users[i].name # NameOf[ev.key]
    BY DEF A, B
  <2>7. FindUser(e) # None => FindUser(e) \in A \cup B
    BY <2>2, <2>3, <2>4
  <2>8. FindUser(e) = None => A = {} /\ B = {}
    BY <1>1, <2>2, <2>3, <2>5
  <2> QED
    BY <1>1, <1>2, <1>4, <2>5, <2>6, <2>7, <2>8
<1> QED
  BY <1>3, <1>4

LEMMA FoundGroup ==
    ASSUME TypeOK, NEW e \in Events, log[e].group \in Group
    PROVE  /\ FindGroup(e) # None =>
                /\ FindGroup(e) \in GroupId /\ groups[FindGroup(e)] # None
                /\ scheme = "dsync" => FindGroup(e) = log[e].group
                /\ scheme # "dsync" => groups[FindGroup(e)].ext = GroupKeyOf[log[e].group]
           /\ FindGroup(e) = None =>
                /\ scheme = "dsync" => groups[log[e].group] = None
                /\ scheme # "dsync" => \A i \in GroupId : groups[i] # None =>
                      groups[i].ext # GroupKeyOf[log[e].group]
           /\ NewGroupId(e) \in GroupId /\ GroupKeyOf[log[e].group] \in GroupKey
<1> DEFINE g == log[e].group
           A == {i \in GroupId : groups[i] # None /\ groups[i].ext = GroupKeyOf[g]}
<1>1. None \notin GroupId /\ g \in GroupId /\ GroupKeyOf[g] \in GroupId /\ GroupKeyOf[g] \in GroupKey
  BY NoneAssumption DEF GroupId, GroupKey
<1>2. NewGroupId(e) \in GroupId
  BY <1>1 DEF NewGroupId
<1>3. CASE scheme = "dsync"
  <2>1. FindGroup(e) = IF groups[g] = None THEN None ELSE g
    BY <1>3 DEF FindGroup
  <2> QED
    BY <1>1, <1>2, <1>3, <2>1
<1>4. CASE scheme # "dsync"
  <2>1. FindGroup(e) = IF A # {} THEN CHOOSE i \in A : TRUE ELSE None
    BY <1>4 DEF FindGroup
  <2> HIDE DEF A
  <2>2. A # {} => FindGroup(e) \in A
    BY <2>1
  <2>3. A = {} => FindGroup(e) = None
    BY <2>1
  <2>5. \A i \in A : i \in GroupId /\ groups[i] # None /\ groups[i].ext = GroupKeyOf[g]
    BY DEF A
  <2>6. \A i \in GroupId : groups[i] # None /\ i \notin A => groups[i].ext # GroupKeyOf[g]
    BY DEF A
  <2> QED
    BY <1>1, <1>2, <1>4, <2>2, <2>3, <2>5, <2>6
<1> QED
  BY <1>3, <1>4

LEMMA ThreeAreFinite ==
    ASSUME NEW a, NEW b, NEW c, NEW S, S \subseteq {a, b, c}
    PROVE  IsFiniteSet(S)
<1>1. IsFiniteSet({a})
  BY FS_Singleton
<1>2. IsFiniteSet({a} \cup {b})
  BY <1>1, FS_AddElement
<1>3. IsFiniteSet(({a} \cup {b}) \cup {c})
  BY <1>2, FS_AddElement
<1>4. S \subseteq (({a} \cup {b}) \cup {c})
  OBVIOUS
<1> QED
  BY <1>3, <1>4, FS_Subset

(* The scopes of an event are scopes, and finitely many. *)
LEMMA ScopesAreScopes ==
    ASSUME TypeOK, EventsShaped, NEW e \in Events
    PROVE  EventScopes(e) \subseteq Scope /\ IsFiniteSet(EventScopes(e))
<1> DEFINE ev == log[e]
<1>1. EventShape(e) /\ ev \in Event
  BY DEF EventsShaped, TypeOK, Events
<1>2. \A p \in Person : KeysOf[p] \subseteq Key
  BY PersonAssumption
<1>3. ASSUME NEW p \in Person, NEW k \in Key PROVE CurrentKey(LinkedUser(p), k) \in Key
  BY NoneAssumption DEF CurrentKey, LinkedUser, TypeOK, UserRow, UserId
<1>4. ev.type \in {"user", "deleted", "group", "groupDeleted", "added", "removed"}
  BY <1>1 DEF Event
<1>5. CASE UserEvent(e)
  <2>0. ~MembershipEvent(e)
    BY <1>5 DEF UserEvent, MembershipEvent
  <2>1. ev.user \in Person /\ ev.key \in Key
    BY <1>1, <1>2, <1>5 DEF UserEvent, EventShape
  <2>2. EventScopes(e) = UserScopes(ev.key) \cup Stable(<<"dsync-resource", ev.user>>)
                         \cup UserScopes(CurrentKey(LinkedUser(ev.user), ev.key))
    BY <1>5, <2>0 DEF EventScopes, UserEventScopes
  <2>3. EventScopes(e) \subseteq Scope
    BY <1>3, <2>1, <2>2 DEF UserScopes, Stable, Scope
  <2>4. EventScopes(e) \subseteq {<<"user", ev.key>>, <<"dsync-resource", ev.user>>,
                                  <<"user", CurrentKey(LinkedUser(ev.user), ev.key)>>}
    BY <2>2 DEF UserScopes, Stable
  <2> QED
    BY <2>3, <2>4, ThreeAreFinite
<1>6. CASE MembershipEvent(e)
  <2>1. ev.user \in Person /\ ev.key \in Key /\ ev.group \in Group /\ GroupKeyOf[ev.group] \in GroupKey
    BY <1>1, <1>2, <1>6 DEF MembershipEvent, EventShape, GroupKey
  <2>2. ~UserEvent(e)
    BY <1>6 DEF UserEvent, MembershipEvent
  <2>3. EventScopes(e) = MemberScopes(GroupKeyOf[ev.group], ev.key)
            \cup Stable(<<"dsync-member", ev.group, ev.user>>)
            \cup MemberScopes(GroupKeyOf[ev.group], CurrentKey(LinkedUser(ev.user), ev.key))
    BY <1>6, <2>2 DEF EventScopes
  <2>4. EventScopes(e) \subseteq Scope
    BY <1>3, <2>1, <2>3 DEF MemberScopes, Stable, Scope
  <2>5. EventScopes(e) \subseteq {<<"member", GroupKeyOf[ev.group], ev.key>>,
             <<"dsync-member", ev.group, ev.user>>,
             <<"member", GroupKeyOf[ev.group], CurrentKey(LinkedUser(ev.user), ev.key)>>}
    BY <2>3 DEF MemberScopes, Stable
  <2> QED
    BY <2>4, <2>5, ThreeAreFinite
<1>7. CASE ~UserEvent(e) /\ ~MembershipEvent(e)
  <2>1. ev.group \in Group /\ GroupKeyOf[ev.group] \in GroupKey
    BY <1>1, <1>4, <1>7 DEF MembershipEvent, UserEvent, EventShape, GroupKey
  <2>2. EventScopes(e) = GroupScopes(GroupKeyOf[ev.group]) \cup Stable(<<"dsync-resource", ev.group>>)
    BY <1>7 DEF EventScopes, GroupEventScopes
  <2>3. EventScopes(e) \subseteq Scope
    BY <2>1, <2>2 DEF GroupScopes, Stable, Scope
  <2>4. EventScopes(e) \subseteq {<<"group", GroupKeyOf[ev.group]>>, <<"dsync-resource", ev.group>>, {}}
    BY <2>2 DEF GroupScopes, Stable
  <2> QED
    BY <2>3, <2>4, ThreeAreFinite
<1> QED
  BY <1>5, <1>6, <1>7

LEMMA SeqOfScopes ==
    ASSUME TypeOK, EventsShaped, NEW e \in Events
    PROVE  /\ SetToSeq(EventScopes(e)) \in Seq(Scope)
           /\ ToSet(SetToSeq(EventScopes(e))) = EventScopes(e)
<1>1. EventScopes(e) \subseteq Scope /\ IsFiniteSet(EventScopes(e))
  BY ScopesAreScopes
<1>2. SetToSeq(EventScopes(e)) \in Seq(EventScopes(e)) /\ ToSet(SetToSeq(EventScopes(e))) = EventScopes(e)
  BY <1>1, SetToSeqIsSet
<1> QED
  BY <1>1, <1>2

LEMMA RestTyped ==
    ASSUME NEW scopes \in Seq(Scope), NEW action \in {"processed", "ignored"}
    PROVE  /\ RecordVersions(scopes) \in Seq(Statement)
           /\ RecordEvent(action) \in Seq(Statement) /\ Len(RecordEvent(action)) = 1
           /\ RecordVersions(scopes) \o RecordEvent(action) \in Seq(Statement)
           /\ Len(RecordVersions(scopes)) = Len(scopes)
<1>1. [op |-> "record", action |-> action] \in Statement
  BY DEF Statement
<1>2. RecordEvent(action) \in Seq(Statement) /\ Len(RecordEvent(action)) = 1
  BY <1>1 DEF RecordEvent
<1>3. \A i \in 1..Len(scopes) : scopes[i] \in Scope
  OBVIOUS
<1>4. \A i \in 1..Len(scopes) : [op |-> "version", scope |-> scopes[i]] \in Statement
  BY <1>3 DEF Statement
<1>5. RecordVersions(scopes) \in [1..Len(scopes) -> Statement] /\ Len(scopes) \in Nat
  BY <1>4 DEF RecordVersions
<1>6. RecordVersions(scopes) \in Seq(Statement) /\ Len(RecordVersions(scopes)) = Len(scopes)
  BY <1>5
<1> QED
  BY <1>2, <1>6

-----------------------------------------------------------------------------
(* What an event writes *)

LEMMA SameSeq ==
    ASSUME NEW S, NEW s \in Seq(S), NEW t \in Seq(S), Len(s) = Len(t),
           \A i \in 1..Len(s) : s[i] = t[i]
    PROVE  s = t
OBVIOUS

LEMMA OneOntoOne ==
    ASSUME NEW a, NEW b
    PROVE  <<a>> \o <<b>> = <<a, b>>
<1> DEFINE S == {a, b}
<1>1. <<a>> \in Seq(S) /\ <<b>> \in Seq(S) /\ <<a, b>> \in Seq(S)
  OBVIOUS
<1>2. <<a>> \o <<b>> \in Seq(S) /\ Len(<<a>> \o <<b>>) = 2
  BY <1>1
<1>3. (<<a>> \o <<b>>)[1] = a /\ (<<a>> \o <<b>>)[2] = b
  BY <1>1
<1>4. Len(<<a, b>>) = 2 /\ <<a, b>>[1] = a /\ <<a, b>>[2] = b
  OBVIOUS
<1>5. \A i \in 1..2 : i = 1 \/ i = 2
  OBVIOUS
<1>6. \A i \in 1..2 : (<<a>> \o <<b>>)[i] = <<a, b>>[i]
  BY <1>3, <1>4, <1>5
<1> HIDE DEF S
<1> QED
  BY <1>1, <1>2, <1>4, <1>6, SameSeq

LEMMA OneOntoTwo ==
    ASSUME NEW a, NEW b, NEW c
    PROVE  <<a, b>> \o <<c>> = <<a, b, c>>
<1> DEFINE S == {a, b, c}
<1>1. <<a, b>> \in Seq(S) /\ <<c>> \in Seq(S) /\ <<a, b, c>> \in Seq(S)
  OBVIOUS
<1>2. <<a, b>> \o <<c>> \in Seq(S) /\ Len(<<a, b>> \o <<c>>) = 3
  BY <1>1
<1>3. (<<a, b>> \o <<c>>)[1] = a /\ (<<a, b>> \o <<c>>)[2] = b /\ (<<a, b>> \o <<c>>)[3] = c
  BY <1>1
<1>4. Len(<<a, b, c>>) = 3 /\ <<a, b, c>>[1] = a /\ <<a, b, c>>[2] = b /\ <<a, b, c>>[3] = c
  OBVIOUS
<1>5. \A i \in 1..3 : i = 1 \/ i = 2 \/ i = 3
  OBVIOUS
<1>6. \A i \in 1..3 : (<<a, b>> \o <<c>>)[i] = <<a, b, c>>[i]
  BY <1>3, <1>4, <1>5
<1> HIDE DEF S
<1> QED
  BY <1>1, <1>2, <1>4, <1>6, SameSeq

LEMMA Concats ==
    ASSUME NEW a, NEW b, NEW c
    PROVE  /\ <<a>> \o <<b>> \o <<c>> = <<a, b, c>> /\ <<>> \o <<b>> \o <<c>> = <<b, c>>
           /\ <<a>> \o <<>> \o <<c>> = <<a, c>> /\ <<>> \o <<>> \o <<c>> = <<c>>
<1>1. <<a>> \o <<b>> = <<a, b>> /\ <<b>> \o <<c>> = <<b, c>> /\ <<a>> \o <<c>> = <<a, c>>
  BY OneOntoOne
<1>2. <<a, b>> \o <<c>> = <<a, b, c>>
  BY OneOntoTwo
<1>3. <<>> \o <<b>> = <<b>> /\ <<a>> \o <<>> = <<a>> /\ <<>> \o <<>> = <<>> /\ <<>> \o <<c>> = <<c>>
  OBVIOUS
<1> QED
  BY <1>1, <1>2, <1>3

LEMMA Tuples ==
    ASSUME NEW a, NEW b, NEW c
    PROVE  /\ Tail(<<a, b>>) = <<b>> /\ Tail(<<a, b, c>>) = <<b, c>> /\ Tail(<<a>>) = <<>>
           /\ Head(<<a, b>>) = a /\ Head(<<a, b, c>>) = a /\ Head(<<a>>) = a
           /\ \A S : /\ a \in S => <<a>> \in Seq(S)
                     /\ a \in S /\ b \in S => <<a, b>> \in Seq(S)
                     /\ a \in S /\ b \in S /\ c \in S => <<a, b, c>> \in Seq(S)
                     /\ <<>> \in Seq(S)
OBVIOUS

LEMMA ApplyForms ==
    ASSUME NEW e
    PROVE  /\ log[e].type = "user" => ApplyEvent(e) =
                 IF Same(e) THEN <<>>
                 ELSE IF ChangesHands(e) THEN <<ClearHit(e), PutHit(e)>> ELSE <<PutHit(e)>>
           /\ log[e].type = "deleted" => ApplyEvent(e) =
                 IF FindUser(e) = None THEN <<>> ELSE <<PutGone(e)>>
           /\ log[e].type = "group" => ApplyEvent(e) =
                 IF FindGroup(e) # None THEN <<>> ELSE <<PutGroupHit(e)>>
           /\ log[e].type = "groupDeleted" => ApplyEvent(e) =
                 IF FindGroup(e) = None THEN <<>> ELSE <<ClearGroupHit(e), DropHit(e)>>
           /\ log[e].type = "added" => ApplyEvent(e) =
                 IF ~GroupGate(e) \/ ~UserGate(e) THEN <<>>
                 ELSE IF FindUser(e) = None
                 THEN IF FindGroup(e) = None THEN <<PutHit(e), PutGroupHit(e), AddHit(e)>>
                      ELSE <<PutHit(e), AddHit(e)>>
                 ELSE IF FindGroup(e) = None THEN <<PutGroupHit(e), AddHit(e)>>
                      ELSE <<AddHit(e)>>
           /\ log[e].type = "removed" => ApplyEvent(e) =
                 IF FindUser(e) = None \/ FindGroup(e) = None THEN <<>> ELSE <<RemoveHit(e)>>
<1> DEFINE a == PutHit(e)
           b == PutGroupHit(e)
           c == AddHit(e)
<1>1. ASSUME log[e].type = "user"
      PROVE  ApplyEvent(e) = IF Same(e) THEN <<>>
                 ELSE IF ChangesHands(e) THEN <<ClearHit(e), PutHit(e)>> ELSE <<PutHit(e)>>
  <2>0. ApplyEvent(e) = UpsertUser(e)
    BY <1>1 DEF ApplyEvent
  <2>1. CASE FindUser(e) = None
    BY <2>0, <2>1 DEF UpsertUser, Same, ChangesHands, PutHit, UserHit
  <2>2. CASE FindUser(e) # None /\ users[FindUser(e)] = UserRowOf(log[e])
    BY <2>0, <2>2 DEF UpsertUser, Same, ChangesHands, PutHit, UserHit
  <2>3. CASE FindUser(e) # None /\ users[FindUser(e)] # UserRowOf(log[e])
    <3>1. UserRowOf(log[e]).ext = log[e].key
      BY DEF UserRowOf
    <3>2. UpsertUser(e) = (IF ChangesHands(e) THEN <<ClearHit(e)>> ELSE <<>>) \o <<PutHit(e)>>
      BY <2>3, <3>1 DEF UpsertUser, ChangesHands, PutHit, UserHit, ClearHit
    <3>3. <<ClearHit(e)>> \o <<PutHit(e)>> = <<ClearHit(e), PutHit(e)>> /\ <<>> \o <<PutHit(e)>> = <<PutHit(e)>>
      BY OneOntoOne, Concats
    <3> QED
      BY <2>0, <2>3, <3>2, <3>3 DEF Same
  <2> QED
    BY <2>1, <2>2, <2>3
<1>2. ASSUME log[e].type = "added"
      PROVE  ApplyEvent(e) = IF ~GroupGate(e) \/ ~UserGate(e) THEN <<>>
                 ELSE IF FindUser(e) = None
                 THEN IF FindGroup(e) = None THEN <<a, b, c>> ELSE <<a, c>>
                 ELSE IF FindGroup(e) = None THEN <<b, c>> ELSE <<c>>
  <2>0. ApplyEvent(e) = AddMember(e)
    BY <1>2 DEF ApplyEvent
  <2>1. AddMember(e) = IF ~GroupGate(e) \/ ~UserGate(e) THEN <<>>
                       ELSE StubUser(e) \o StubGroup(e) \o <<c>>
    BY DEF AddMember, AddHit, UserHit, GroupHit
  <2>2. StubUser(e) = IF FindUser(e) # None THEN <<>> ELSE <<a>>
    BY DEF StubUser, PutHit, UserHit
  <2>3. StubGroup(e) = IF FindGroup(e) # None THEN <<>> ELSE <<b>>
    BY DEF StubGroup, UpsertGroup, PutGroupHit
  <2> HIDE DEF a, b, c
  <2>4. /\ <<a>> \o <<b>> \o <<c>> = <<a, b, c>> /\ <<>> \o <<b>> \o <<c>> = <<b, c>>
        /\ <<a>> \o <<>> \o <<c>> = <<a, c>> /\ <<>> \o <<>> \o <<c>> = <<c>>
    BY Concats
  <2> QED
    BY <2>0, <2>1, <2>2, <2>3, <2>4
<1>3. log[e].type = "deleted" => ApplyEvent(e) =
                 IF FindUser(e) = None THEN <<>> ELSE <<PutGone(e)>>
  BY DEF ApplyEvent, DeleteUser, PutGone
<1>4. log[e].type = "group" => ApplyEvent(e) =
                 IF FindGroup(e) # None THEN <<>> ELSE <<PutGroupHit(e)>>
  BY DEF ApplyEvent, UpsertGroup, PutGroupHit
<1>5. log[e].type = "groupDeleted" => ApplyEvent(e) =
                 IF FindGroup(e) = None THEN <<>> ELSE <<ClearGroupHit(e), DropHit(e)>>
  BY DEF ApplyEvent, DeleteGroup, ClearGroupHit, DropHit
<1>6. log[e].type = "removed" => ApplyEvent(e) =
                 IF FindUser(e) = None \/ FindGroup(e) = None THEN <<>> ELSE <<RemoveHit(e)>>
  BY DEF ApplyEvent, RemoveMember, RemoveHit
<1> QED
  BY <1>1, <1>2, <1>3, <1>4, <1>5, <1>6

LEMMA HitsTyped ==
    ASSUME TypeOK, EventsShaped, NEW e \in Events
    PROVE  /\ log[e].type \in {"user", "added"} => PutHit(e) \in Statement
           /\ log[e].type = "user" /\ FindUser(e) # None => ClearHit(e) \in Statement
           /\ log[e].type = "deleted" /\ FindUser(e) # None => PutGone(e) \in Statement
           /\ log[e].type \in {"group", "added"} => PutGroupHit(e) \in Statement
           /\ log[e].type = "groupDeleted" /\ FindGroup(e) # None =>
                 ClearGroupHit(e) \in Statement /\ DropHit(e) \in Statement
           /\ log[e].type = "added" => AddHit(e) \in Statement
           /\ log[e].type = "removed" /\ FindUser(e) # None /\ FindGroup(e) # None =>
                 RemoveHit(e) \in Statement
<1> DEFINE ev == log[e]
<1>1. EventShape(e) /\ ev \in Event
  BY DEF EventsShaped, TypeOK, Events
<1>2. \A p \in Person : KeysOf[p] \subseteq Key
  BY PersonAssumption
<1>3. ev.type \in {"user", "deleted", "added", "removed"} => ev.user \in Person /\ ev.key \in Key /\ NameOf[ev.key] \in Name
  BY <1>1, <1>2 DEF EventShape, Name
<1>4. ev.type \in {"group", "groupDeleted", "added", "removed"} => ev.group \in Group
  BY <1>1 DEF EventShape
<1>5. ev.type \in {"user", "deleted", "added", "removed"} =>
        /\ UserHit(e) \in UserId /\ UserRowOf(ev) \in UserRow
        /\ FindUser(e) # None => FindUser(e) \in UserId /\ users[FindUser(e)] \in UserRow
  <2>1. ev.active \in BOOLEAN
    BY <1>1 DEF Event
  <2>2. \A i \in UserId : users[i] \in UserRow \cup {None}
    BY DEF TypeOK
  <2> QED
    BY <1>3, <2>1, <2>2, FoundUser DEF UserHit, UserRowOf, UserRow
<1>6. ev.type \in {"group", "groupDeleted", "added", "removed"} =>
        /\ GroupHit(e) \in GroupId /\ NewGroupId(e) \in GroupId
        /\ [ext |-> GroupKeyOf[ev.group]] \in GroupRow
        /\ FindGroup(e) # None => FindGroup(e) \in GroupId
  BY <1>4, FoundGroup DEF GroupHit, GroupRow
<1>7. ev.type = "deleted" /\ FindUser(e) # None =>
        [users[FindUser(e)] EXCEPT !.ext = ev.key, !.active = FALSE] \in UserRow
  BY <1>3, <1>5 DEF UserRow
<1>8. log[e].type \in {"user", "added"} => PutHit(e) \in Statement
  BY <1>5 DEF PutHit, PutUser, Statement
<1>9. log[e].type = "user" /\ FindUser(e) # None => ClearHit(e) \in Statement
  BY <1>5 DEF ClearHit, Statement
<1>10. log[e].type = "deleted" /\ FindUser(e) # None => PutGone(e) \in Statement
  BY <1>5, <1>7 DEF PutGone, PutUser, Statement
<1>11. log[e].type \in {"group", "added"} => PutGroupHit(e) \in Statement
  BY <1>6 DEF PutGroupHit, Statement
<1>12. log[e].type = "groupDeleted" /\ FindGroup(e) # None =>
                 ClearGroupHit(e) \in Statement /\ DropHit(e) \in Statement
  BY <1>6 DEF ClearGroupHit, DropHit, Statement
<1>13. log[e].type = "added" => AddHit(e) \in Statement
  BY <1>5, <1>6 DEF AddHit, Statement
<1>14. log[e].type = "removed" /\ FindUser(e) # None /\ FindGroup(e) # None =>
                 RemoveHit(e) \in Statement
  BY <1>5, <1>6 DEF RemoveHit, Statement
<1> QED
  BY <1>8, <1>9, <1>10, <1>11, <1>12, <1>13, <1>14

LEMMA ApplyTyped ==
    ASSUME TypeOK, EventsShaped, NEW e \in Events
    PROVE  ApplyEvent(e) \in Seq(Statement)
<1>0. log[e].type \in {"user", "deleted", "group", "groupDeleted", "added", "removed"}
  <2>1. log[e] \in Event
    BY DEF TypeOK, Events
  <2> QED
    BY <2>1 DEF Event
<1>1. CASE log[e].type = "user"
  <2>1. PutHit(e) \in Statement /\ (FindUser(e) # None => ClearHit(e) \in Statement)
    BY <1>1, HitsTyped
  <2>2. ApplyEvent(e) = IF Same(e) THEN <<>>
                 ELSE IF ChangesHands(e) THEN <<ClearHit(e), PutHit(e)>> ELSE <<PutHit(e)>>
    BY <1>1, ApplyForms
  <2> QED
    BY <2>1, <2>2, Tuples DEF ChangesHands
<1>2. CASE log[e].type = "deleted"
  <2>1. FindUser(e) # None => PutGone(e) \in Statement
    BY <1>2, HitsTyped
  <2>2. ApplyEvent(e) = IF FindUser(e) = None THEN <<>> ELSE <<PutGone(e)>>
    BY <1>2, ApplyForms
  <2> QED
    BY <2>1, <2>2, Tuples
<1>3. CASE log[e].type = "group"
  <2>1. PutGroupHit(e) \in Statement
    BY <1>3, HitsTyped
  <2>2. ApplyEvent(e) = IF FindGroup(e) # None THEN <<>> ELSE <<PutGroupHit(e)>>
    BY <1>3, ApplyForms
  <2> QED
    BY <2>1, <2>2, Tuples
<1>4. CASE log[e].type = "groupDeleted"
  <2>1. FindGroup(e) # None => ClearGroupHit(e) \in Statement /\ DropHit(e) \in Statement
    BY <1>4, HitsTyped
  <2>2. ApplyEvent(e) = IF FindGroup(e) = None THEN <<>> ELSE <<ClearGroupHit(e), DropHit(e)>>
    BY <1>4, ApplyForms
  <2> QED
    BY <2>1, <2>2, Tuples
<1>5. CASE log[e].type = "added"
  <2>1. PutHit(e) \in Statement /\ PutGroupHit(e) \in Statement /\ AddHit(e) \in Statement
    BY <1>5, HitsTyped
  <2>2. ApplyEvent(e) = IF ~GroupGate(e) \/ ~UserGate(e) THEN <<>>
                 ELSE IF FindUser(e) = None
                 THEN IF FindGroup(e) = None THEN <<PutHit(e), PutGroupHit(e), AddHit(e)>>
                      ELSE <<PutHit(e), AddHit(e)>>
                 ELSE IF FindGroup(e) = None THEN <<PutGroupHit(e), AddHit(e)>>
                      ELSE <<AddHit(e)>>
    BY <1>5, ApplyForms
  <2> QED
    BY <2>1, <2>2, Tuples
<1>6. CASE log[e].type = "removed"
  <2>1. FindUser(e) # None /\ FindGroup(e) # None => RemoveHit(e) \in Statement
    BY <1>6, HitsTyped
  <2>2. ApplyEvent(e) = IF FindUser(e) = None \/ FindGroup(e) = None THEN <<>> ELSE <<RemoveHit(e)>>
    BY <1>6, ApplyForms
  <2> QED
    BY <2>1, <2>2, Tuples
<1> QED
  BY <1>0, <1>1, <1>2, <1>3, <1>4, <1>5, <1>6

-----------------------------------------------------------------------------
(* Types: WorkOS *)

TypeInv == TypeOK /\ KeysKnown /\ EventsShaped /\ Shapes /\ Len(log) <= MaxEvents

Run(n) == [pc : {"idle", "resolve", "plan", "write"}, event : (1..n) \cup {None},
           scopes : Seq(Scope), todo : Seq(Statement)]

LEMMA IdleIsRun == ASSUME NEW n PROVE Idle \in Run(n)
BY DEF Idle, Run

LEMMA InitTypeInv == Init => TypeInv
<1> SUFFICES ASSUME Init PROVE TypeInv
  OBVIOUS
<1> USE BoundAssumption, SchemeAssumption DEF Init
<1>0. Len(log) = 0 /\ 1..Len(log) = {}
  OBVIOUS
<1>1. log \in Seq(Event) /\ person \in [Person -> [state : {"none", "active", "inactive", "gone"}, key : Key \cup {None}]]
  OBVIOUS
<1>2. group \in [Group -> {"none", "present", "gone"}] /\ edges \subseteq Group \X Person
  OBVIOUS
<1>3. run \in [Handler -> Run(Len(log))]
  BY IdleIsRun
<1>4. scheme \in Scheme /\ users \in [UserId -> UserRow \cup {None}] /\ groups \in [GroupId -> GroupRow \cup {None}]
      /\ members \subseteq GroupId \X UserId /\ links \subseteq Person \cup Group
  OBVIOUS
<1>5. versions \in [Scope -> 0..MaxEvents] /\ faults \in 0..MaxFaults /\ processed = {} /\ ignored = {}
  OBVIOUS
<1>6. live \in BOOLEAN
  BY LiveAssumption
<1>7. TypeOK
  BY <1>0, <1>1, <1>2, <1>3, <1>4, <1>5, <1>6 DEF TypeOK, Run
<1>8. KeysKnown
  BY DEF KeysKnown
<1>9. EventsShaped
  BY <1>0 DEF EventsShaped, Events
<1>10. Shapes
  BY DEF Shapes, Shaped, Idle
<1> QED
  BY <1>0, <1>7, <1>8, <1>9, <1>10 DEF TypeInv

LEMMA ChangeTyped ==
    ASSUME TypeOK, KeysKnown, NEW ev \in Event, Change(ev)
    PROVE  /\ person' \in [Person -> [state : {"none", "active", "inactive", "gone"}, key : Key \cup {None}]]
           /\ group' \in [Group -> {"none", "present", "gone"}]
           /\ edges' \subseteq Group \X Person
           /\ KeysKnown'
<1> USE PersonAssumption
<1>0. /\ person \in [Person -> [state : {"none", "active", "inactive", "gone"}, key : Key \cup {None}]]
      /\ group \in [Group -> {"none", "present", "gone"}] /\ edges \subseteq Group \X Person
      /\ \A p \in Person : KeysOf[p] \subseteq Key
  BY DEF TypeOK
<1>1. CASE UserChange(ev)
  BY <1>0, <1>1 DEF UserChange, KeysKnown
<1>2. CASE GroupChange(ev)
  BY <1>0, <1>2 DEF GroupChange, KeysKnown
<1>3. CASE MemberChange(ev)
  BY <1>0, <1>3 DEF MemberChange, KeysKnown
<1> QED
  BY <1>1, <1>2, <1>3 DEF Change

LEMMA ChangeShape ==
    ASSUME KeysKnown, NEW ev \in Event, Change(ev)
    PROVE  /\ ev.type \in {"user", "deleted"} => ev.user \in Person /\ ev.group = None /\ ev.key \in KeysOf[ev.user]
           /\ ev.type \in {"added", "removed"} => ev.user \in Person /\ ev.group \in Group /\ ev.key \in KeysOf[ev.user]
           /\ ev.type \in {"group", "groupDeleted"} => ev.user = None /\ ev.group \in Group
           /\ ev.type \in {"group", "added"} => ev.active
           /\ ev.type = "deleted" => ~ev.active
BY DEF Change, UserChange, GroupChange, MemberChange, KeysKnown

LEMMA EmitTypeInv ==
    ASSUME TypeInv, NEW ev \in Event, Emit(ev), Change(ev)
    PROVE  TypeInv'
<1>0. TypeOK /\ KeysKnown /\ EventsShaped /\ Shapes
  BY DEF TypeInv
<1>n. PICK n : n = Len(log)
  OBVIOUS
<1>1. log \in Seq(Event) /\ log' = Append(log, ev) /\ n < MaxEvents
  BY <1>0, <1>n DEF Emit, TypeOK
<1>2. /\ log' \in Seq(Event) /\ n \in Nat /\ Len(log') = n + 1
      /\ 1..Len(log') = (1..n) \cup {n + 1} /\ n + 1 \notin 1..n
      /\ \A e \in 1..n : log'[e] = log[e] /\ log[e] \in Event
      /\ log'[n + 1] = ev
  BY <1>1, <1>n, OneMore
<1>3. UNCHANGED <<scheme, live, links, ledger, run, faults>>
  BY DEF Emit
<1>4. /\ person' \in [Person -> [state : {"none", "active", "inactive", "gone"}, key : Key \cup {None}]]
      /\ group' \in [Group -> {"none", "present", "gone"}] /\ edges' \subseteq Group \X Person /\ KeysKnown'
  BY <1>0, ChangeTyped
<1>5. /\ users' \in [UserId -> UserRow \cup {None}] /\ groups' \in [GroupId -> GroupRow \cup {None}]
      /\ members' \subseteq GroupId \X UserId
  <2>1. CASE live
    BY <1>0, <2>1 DEF Emit, DirectWrite, native, TypeOK
  <2>2. CASE ~live
    <3>1. ev.type \in {"user", "deleted"} => UserRowOf(ev) \in UserRow
      <4>1. ev.type \in {"user", "deleted"} => ev.key \in Key
        BY <1>0, ChangeShape, PersonAssumption
      <4> QED
        BY <4>1 DEF UserRowOf, UserRow, Name, Event
    <3>2. users' \in [UserId -> UserRow \cup {None}]
      BY <1>0, <2>2, <3>1 DEF Emit, DirectWrite, TypeOK
    <3>3. \A g \in Group : [ext |-> GroupKeyOf[g]] \in GroupRow
      BY DEF GroupRow, GroupKey
    <3>4. ev.type \in {"group", "groupDeleted"} => ev.group \in Group
      BY <1>0, ChangeShape
    <3>5. groups' \in [GroupId -> GroupRow \cup {None}]
      <4>1. groups' = [g \in GroupId |->
              IF g # ev.group \/ ev.type \notin {"group", "groupDeleted"} THEN groups[g]
              ELSE IF ev.type = "groupDeleted" THEN None
              ELSE [ext |-> GroupKeyOf[g]]]
        BY <2>2 DEF Emit, DirectWrite
      <4>2. \A g \in GroupId : groups[g] \in GroupRow \cup {None}
        BY <1>0 DEF TypeOK
      <4> QED
        BY <3>3, <3>4, <4>1, <4>2
    <3>6. members' = edges'
      BY <2>2 DEF Emit, DirectWrite
    <3> QED
      BY <1>4, <3>2, <3>5, <3>6 DEF GroupId, UserId
  <2> QED
    BY <2>1, <2>2
<1>6. run' \in [Handler -> Run(Len(log'))]
  <2>1. run \in [Handler -> Run(n)]
    BY <1>n, <1>0 DEF TypeOK, Run
  <2>2. Run(n) \subseteq Run(Len(log'))
    BY <1>2 DEF Run
  <2> QED
    BY <1>3, <2>1, <2>2
<1>7. processed' \subseteq 1..Len(log') /\ ignored' \subseteq 1..Len(log')
  BY <1>n, <1>0, <1>2, <1>3 DEF TypeOK, ledger
<1>8. TypeOK'
  BY <1>0, <1>2, <1>3, <1>4, <1>5, <1>6, <1>7 DEF TypeOK, Run, ledger
<1>9. EventsShaped'
  <2>1. ASSUME NEW e \in 1..n PROVE EventShape(e)'
    <3>1. EventShape(e) /\ log'[e] = log[e]
      BY <1>n, <1>0, <1>2 DEF EventsShaped, Events
    <3> QED
      BY <3>1 DEF EventShape
  <2>2. EventShape(n + 1)'
    BY <1>0, <1>2, ChangeShape DEF EventShape
  <2> QED
    BY <1>2, <2>1, <2>2 DEF EventsShaped, Events
<1>10. Shapes'
  BY <1>n, <1>0, <1>2, <1>3 DEF Shapes, Shaped, Events
<1> QED
  BY <1>1, <1>2, <1>4, <1>8, <1>9, <1>10, <1>n, BoundAssumption DEF TypeInv

-----------------------------------------------------------------------------
(* Types: deliveries *)

Rows == /\ users \in [UserId -> UserRow \cup {None}]
        /\ groups \in [GroupId -> GroupRow \cup {None}]
        /\ members \subseteq GroupId \X UserId
        /\ links \subseteq Person \cup Group
        /\ versions \in [Scope -> 0..MaxEvents]
        /\ processed \subseteq Events /\ ignored \subseteq Events
        /\ faults \in 0..MaxFaults

(* One delivery moves on. *)
LEMMA RunTypeInv ==
    ASSUME TypeInv, NEW h \in Handler, NEW r \in Run(Len(log)), run' = [run EXCEPT ![h] = r],
           UNCHANGED <<workos, scheme, live>>, Rows', Shaped(h)'
    PROVE  TypeInv'
<1>0. TypeOK /\ KeysKnown /\ EventsShaped /\ Shapes
  BY DEF TypeInv
<1>1. UNCHANGED <<log, person, group, edges, scheme, live>>
  BY DEF workos
<1>2. run' \in [Handler -> Run(Len(log))]
  BY <1>0 DEF TypeOK, Run
<1>3. TypeOK'
  BY <1>0, <1>1, <1>2 DEF TypeOK, Run, Rows, Events
<1>4. KeysKnown' /\ EventsShaped'
  BY <1>0, <1>1 DEF KeysKnown, EventsShaped, Events, EventShape
<1>5. ASSUME NEW h2 \in Handler PROVE Shaped(h2)'
  <2>1. CASE h2 = h
    BY <2>1
  <2>2. CASE h2 # h
    <3>1. run'[h2] = run[h2]
      BY <1>0, <2>2 DEF TypeOK
    <3>2. Shaped(h2)
      BY <1>0 DEF Shapes
    <3> QED
      BY <1>1, <3>1, <3>2 DEF Shaped, Events
  <2> QED
    BY <2>1, <2>2
<1>6. Shapes'
  BY <1>5 DEF Shapes
<1> QED
  BY <1>1, <1>3, <1>4, <1>6 DEF TypeInv

LEMMA RowsTyped == ASSUME TypeInv PROVE Rows
BY DEF TypeInv, TypeOK, Rows, Events

LEMMA RunOf ==
    ASSUME TypeInv, NEW h \in Handler
    PROVE  /\ run[h] \in Run(Len(log)) /\ run[h].scopes \in Seq(Scope) /\ run[h].todo \in Seq(Statement)
           /\ run[h].pc \in {"idle", "resolve", "plan", "write"}
           /\ Shaped(h)
           /\ \A r : run' = [run EXCEPT ![h] = r] => run'[h] = r
BY DEF TypeInv, TypeOK, Run, Shapes

LEMMA IdleTypeInv ==
    ASSUME TypeInv, NEW h \in Handler, run' = [run EXCEPT ![h] = Idle],
           UNCHANGED <<workos, scheme, live>>, Rows'
    PROVE  TypeInv'
<1>1. run'[h] = Idle
  BY RunOf
<1>2. Shaped(h)'
  BY <1>1 DEF Shaped, Idle
<1> QED
  BY <1>2, IdleIsRun, RunTypeInv

LEMMA RestShape ==
    ASSUME NEW scopes \in Seq(Scope), NEW action \in {"processed", "ignored"}
    PROVE  LET s == RecordVersions(scopes) \o RecordEvent(action) IN
           /\ s \in Seq(Statement) /\ Len(s) = Len(scopes) + 1 /\ Len(s) >= 1
           /\ \A i \in 1..Len(s) : /\ ~Native(s[i])
                                   /\ s[i].op = "version" => s[i].scope \in ToSet(scopes)
                                   /\ s[i].op = "record" <=> i = Len(s)
                                   /\ s[i].op = "record" => s[i].action = action
           /\ \A x \in ToSet(scopes) : \E i \in 1..Len(s) : s[i] = [op |-> "version", scope |-> x]
<1> DEFINE v == RecordVersions(scopes)
           r == RecordEvent(action)
           s == v \o r
<1>1. v \in Seq(Statement) /\ r \in Seq(Statement) /\ Len(r) = 1 /\ Len(v) = Len(scopes)
  BY RestTyped
<1>2. r[1] = [op |-> "record", action |-> action]
  BY DEF RecordEvent
<1>3. \A i \in 1..Len(scopes) : v[i] = [op |-> "version", scope |-> scopes[i]]
  BY DEF RecordVersions
<1>4. \A i \in 1..Len(scopes) : scopes[i] \in ToSet(scopes)
  BY DEF ToSet
<1>5. \A x \in ToSet(scopes) : \E i \in 1..Len(scopes) : scopes[i] = x
  BY DEF ToSet
<1> HIDE DEF v, r
<1>6. /\ s \in Seq(Statement) /\ Len(s) = Len(scopes) + 1 /\ Len(scopes) \in Nat
      /\ \A i \in 1..Len(scopes) : s[i] = v[i]
      /\ s[Len(scopes) + 1] = r[1]
  BY <1>1, Concat
<1> HIDE DEF s
<1>7. \A i \in 1..Len(s) : i \in 1..Len(scopes) \/ i = Len(s)
  BY <1>6
<1>8. \A i \in 1..Len(scopes) : s[i] = [op |-> "version", scope |-> scopes[i]] /\ i # Len(s) /\ i \in 1..Len(s)
  BY <1>3, <1>6
<1>9. s[Len(s)] = [op |-> "record", action |-> action]
  BY <1>2, <1>6
<1>10. \A i \in 1..Len(s) : /\ ~Native(s[i])
                            /\ s[i].op = "version" => s[i].scope \in ToSet(scopes)
                            /\ s[i].op = "record" <=> i = Len(s)
                            /\ s[i].op = "record" => s[i].action = action
  <2> TAKE i \in 1..Len(s)
  <2>1. CASE i \in 1..Len(scopes)
    <3>1. s[i] = [op |-> "version", scope |-> scopes[i]] /\ i # Len(s) /\ scopes[i] \in ToSet(scopes)
      BY <1>4, <1>8, <2>1
    <3> QED
      BY <3>1 DEF Native
  <2>2. CASE i = Len(s)
    <3>1. s[i] = [op |-> "record", action |-> action]
      BY <1>9, <2>2
    <3> QED
      BY <2>2, <3>1 DEF Native
  <2> QED
    BY <1>7, <2>1, <2>2
<1>11. \A x \in ToSet(scopes) : \E i \in 1..Len(s) : s[i] = [op |-> "version", scope |-> x]
  BY <1>5, <1>8
<1> QED
  BY <1>6, <1>10, <1>11 DEF s, v, r

LEMMA RecordShape ==
    ASSUME NEW action \in {"processed", "ignored"}
    PROVE  LET s == RecordEvent(action) IN
           /\ s \in Seq(Statement) /\ Len(s) = 1
           /\ \A i \in 1..Len(s) : ~Native(s[i]) /\ s[i].op = "record" /\ i = Len(s) /\ s[i].action = action
<1>1. [op |-> "record", action |-> action] \in Statement
  BY DEF Statement
<1> QED
  BY <1>1 DEF RecordEvent, Native

LEMMA Associates ==
    ASSUME NEW S, NEW s \in Seq(S), NEW t \in Seq(S), NEW u \in Seq(S)
    PROVE  (s \o t) \o u = s \o (t \o u)
<1> DEFINE x == (s \o t) \o u
           y == s \o (t \o u)
<1>1. s \o t \in Seq(S) /\ t \o u \in Seq(S) /\ x \in Seq(S) /\ y \in Seq(S)
  OBVIOUS
<1>2. Len(s) \in Nat /\ Len(t) \in Nat /\ Len(u) \in Nat
  OBVIOUS
<1>3. Len(x) = Len(s) + Len(t) + Len(u) /\ Len(y) = Len(s) + Len(t) + Len(u)
  BY <1>1, <1>2
<1>4. ASSUME NEW i \in 1..Len(x) PROVE x[i] = y[i]
  <2>1. CASE i <= Len(s)
    BY <1>1, <1>2, <1>3, <2>1
  <2>2. CASE Len(s) < i /\ i <= Len(s) + Len(t)
    <3>1. x[i] = (s \o t)[i] /\ (s \o t)[i] = t[i - Len(s)]
      BY <1>1, <1>2, <1>3, <2>2
    <3>2. y[i] = (t \o u)[i - Len(s)] /\ (t \o u)[i - Len(s)] = t[i - Len(s)]
      BY <1>1, <1>2, <1>3, <2>2
    <3> QED
      BY <3>1, <3>2
  <2>3. CASE i > Len(s) + Len(t)
    <3>1. x[i] = u[i - (Len(s) + Len(t))]
      BY <1>1, <1>2, <1>3, <2>3
    <3>2. y[i] = (t \o u)[i - Len(s)] /\ (t \o u)[i - Len(s)] = u[i - Len(s) - Len(t)]
      BY <1>1, <1>2, <1>3, <2>3
    <3> QED
      BY <1>2, <3>1, <3>2
  <2> QED
    BY <1>2, <1>3, <2>1, <2>2, <2>3
<1> HIDE DEF x, y
<1>5. x = y
  BY <1>1, <1>3, <1>4, SameSeq
<1> QED
  BY <1>5 DEF x, y

LEMMA AllNative ==
    ASSUME NEW a, NEW b, NEW c
    PROVE  /\ \A i \in 1..Len(<<a>>) : <<a>>[i] = a
           /\ \A i \in 1..Len(<<a, b>>) : <<a, b>>[i] \in {a, b}
           /\ \A i \in 1..Len(<<a, b, c>>) : <<a, b, c>>[i] \in {a, b, c}
           /\ 1..Len(<<>>) = {}
OBVIOUS

(* Nothing of what an event writes is a version or the record. *)
LEMMA ApplyNative ==
    ASSUME TypeOK, NEW e \in Events
    PROVE  \A i \in 1..Len(ApplyEvent(e)) : Native(ApplyEvent(e)[i])
<1>0. log[e].type \in {"user", "deleted", "group", "groupDeleted", "added", "removed"}
  <2>1. log[e] \in Event
    BY DEF TypeOK, Events
  <2> QED
    BY <2>1 DEF Event
<1>1. /\ Native(PutHit(e)) /\ Native(PutGone(e)) /\ Native(ClearHit(e)) /\ Native(PutGroupHit(e))
      /\ Native(ClearGroupHit(e)) /\ Native(DropHit(e)) /\ Native(AddHit(e)) /\ Native(RemoveHit(e))
  BY DEF Native, PutHit, PutUser, PutGone, ClearHit, PutGroupHit, ClearGroupHit, DropHit, AddHit, RemoveHit
<1>2. CASE log[e].type = "user"
  <2>1. ApplyEvent(e) = IF Same(e) THEN <<>>
                 ELSE IF ChangesHands(e) THEN <<ClearHit(e), PutHit(e)>> ELSE <<PutHit(e)>>
    BY <1>2, ApplyForms
  <2> QED
    BY <1>1, <2>1, AllNative
<1>3. CASE log[e].type = "deleted"
  <2>1. ApplyEvent(e) = IF FindUser(e) = None THEN <<>> ELSE <<PutGone(e)>>
    BY <1>3, ApplyForms
  <2> QED
    BY <1>1, <2>1, AllNative
<1>4. CASE log[e].type = "group"
  <2>1. ApplyEvent(e) = IF FindGroup(e) # None THEN <<>> ELSE <<PutGroupHit(e)>>
    BY <1>4, ApplyForms
  <2> QED
    BY <1>1, <2>1, AllNative
<1>5. CASE log[e].type = "groupDeleted"
  <2>1. ApplyEvent(e) = IF FindGroup(e) = None THEN <<>> ELSE <<ClearGroupHit(e), DropHit(e)>>
    BY <1>5, ApplyForms
  <2> QED
    BY <1>1, <2>1, AllNative
<1>6. CASE log[e].type = "added"
  <2>1. ApplyEvent(e) = IF ~GroupGate(e) \/ ~UserGate(e) THEN <<>>
                 ELSE IF FindUser(e) = None
                 THEN IF FindGroup(e) = None THEN <<PutHit(e), PutGroupHit(e), AddHit(e)>>
                      ELSE <<PutHit(e), AddHit(e)>>
                 ELSE IF FindGroup(e) = None THEN <<PutGroupHit(e), AddHit(e)>>
                      ELSE <<AddHit(e)>>
    BY <1>6, ApplyForms
  <2> QED
    BY <1>1, <2>1, AllNative
<1>7. CASE log[e].type = "removed"
  <2>1. ApplyEvent(e) = IF FindUser(e) = None \/ FindGroup(e) = None THEN <<>> ELSE <<RemoveHit(e)>>
    BY <1>7, ApplyForms
  <2> QED
    BY <1>1, <2>1, AllNative
<1> QED
  BY <1>0, <1>2, <1>3, <1>4, <1>5, <1>6, <1>7

-----------------------------------------------------------------------------
(* Types: the steps of a delivery *)

LEMMA WriteShape ==
    ASSUME NEW h, NEW r, run'[h] = r, r.pc = "write", r.event \in 1..Len(log'), Len(r.todo) >= 1,
           \A i \in 1..Len(r.todo) : /\ Native(r.todo[i]) => live'
                                     /\ r.todo[i].op = "version" => r.todo[i].scope \in ToSet(r.scopes)
                                     /\ r.todo[i].op = "record" <=> i = Len(r.todo)
    PROVE  Shaped(h)'
<1>1. run'[h].pc = "write" /\ run'[h].event \in Events'
  BY DEF Events
<1>2. /\ Len(run'[h].todo) >= 1
      /\ \A i \in 1..Len(run'[h].todo) : Native(run'[h].todo[i]) => live'
      /\ \A i \in 1..Len(run'[h].todo) : run'[h].todo[i].op = "version" => run'[h].todo[i].scope \in ToSet(run'[h].scopes)
      /\ \A i \in 1..Len(run'[h].todo) : run'[h].todo[i].op = "record" <=> i = Len(run'[h].todo)
  BY Zenon
<1> QED
  BY <1>1, <1>2, Zenon DEF Shaped, Native

LEMMA DeliverTypeInv ==
    ASSUME TypeInv, NEW h \in Handler, NEW e \in 1..Len(log), Deliver(h, e)
    PROVE  TypeInv'
<1>0. TypeOK /\ EventsShaped /\ e \in Events /\ Rows
  BY RowsTyped DEF TypeInv, Events
<1> DEFINE scopes == SetToSeq(EventScopes(e))
           r == IF ~live
          THEN [pc |-> "write", event |-> e, scopes |-> scopes,
                todo |-> RecordVersions(scopes) \o RecordEvent("ignored")]
          ELSE IF ~IsNewestAcross(EventScopes(e), e)
          THEN [pc |-> "write", event |-> e, scopes |-> scopes,
                todo |-> RecordEvent("processed")]
          ELSE [pc |-> "resolve", event |-> e, scopes |-> scopes, todo |-> <<>>]
<1>1. scopes \in Seq(Scope)
  BY <1>0, SeqOfScopes
<1>2. run' = [run EXCEPT ![h] = r] /\ UNCHANGED <<workos, scheme, live>> /\ Rows'
  BY <1>0 DEF Deliver, Rows, native, ledger, workos, Events
<1> HIDE DEF scopes
<1> DEFINE s == RecordVersions(scopes) \o RecordEvent("ignored")
           t == RecordEvent("processed")
<1>3. /\ s \in Seq(Statement) /\ Len(s) >= 1
      /\ \A i \in 1..Len(s) : /\ ~Native(s[i])
                              /\ s[i].op = "version" => s[i].scope \in ToSet(scopes)
                              /\ s[i].op = "record" <=> i = Len(s)
  BY <1>1, RestShape
<1>4. /\ t \in Seq(Statement) /\ Len(t) = 1
      /\ \A i \in 1..Len(t) : ~Native(t[i]) /\ t[i].op # "version" /\ (t[i].op = "record" <=> i = Len(t))
  BY RecordShape
<1> HIDE DEF s, t
<1>5. r \in Run(Len(log))
  BY <1>1, <1>3, <1>4 DEF Run, s, t
<1>6. run'[h] = r
  BY <1>2, RunOf
<1>7. Shaped(h)'
  <2>1. live' = live /\ log' = log
    BY <1>2 DEF workos
  <2>2. CASE ~live
    <3>1. run'[h] = [pc |-> "write", event |-> e, scopes |-> scopes, todo |-> s]
      BY <1>6, <2>2 DEF s
    <3> QED
      BY <1>0, <1>3, <2>1, <3>1, WriteShape DEF Events
  <2>3. CASE live /\ ~IsNewestAcross(EventScopes(e), e)
    <3>1. run'[h] = [pc |-> "write", event |-> e, scopes |-> scopes, todo |-> t]
      BY <1>6, <2>3 DEF t
    <3> QED
      <4>1. /\ Len(t) >= 1
            /\ \A i \in 1..Len(t) : /\ ~Native(t[i])
                                    /\ t[i].op = "version" => t[i].scope \in ToSet(scopes)
                                    /\ t[i].op = "record" <=> i = Len(t)
        BY <1>4
      <4> QED
        BY <1>0, <4>1, <2>1, <3>1, WriteShape DEF Events
  <2>4. CASE live /\ IsNewestAcross(EventScopes(e), e)
    <3>1. run'[h] = [pc |-> "resolve", event |-> e, scopes |-> scopes, todo |-> <<>>]
      BY <1>6, <2>4
    <3> QED
      BY <1>0, <2>1, <2>4, <3>1 DEF Shaped, Events
  <2> QED
    BY <2>2, <2>3, <2>4
<1> HIDE DEF r
<1> QED
  BY <1>2, <1>5, <1>7, RunTypeInv

LEMMA ResolveTypeInv ==
    ASSUME TypeInv, NEW h \in Handler, Resolve(h)
    PROVE  TypeInv'
<1>0. TypeOK /\ EventsShaped /\ Rows /\ Shaped(h) /\ run[h] \in Run(Len(log)) /\ run[h].pc = "resolve"
  BY RowsTyped, RunOf DEF TypeInv, Resolve
<1>1. run[h].event \in Events /\ live
  BY <1>0 DEF Shaped
<1>2. EventShape(run[h].event) /\ log[run[h].event] \in Event
  BY <1>0, <1>1 DEF EventsShaped, TypeOK, Events
<1>3. log[run[h].event].user \in Person \cup {None} /\ log[run[h].event].group \in Group \cup {None}
  BY <1>2 DEF Event
<1>4. links' \subseteq Person \cup Group
  <2>1. links' \subseteq links \cup (IF log[run[h].event].user # None THEN {log[run[h].event].user} ELSE {})
                        \cup (IF log[run[h].event].group # None THEN {log[run[h].event].group} ELSE {})
    BY DEF Resolve
  <2> QED
    BY <1>0, <1>3, <2>1 DEF Rows
<1>5. UNCHANGED <<workos, scheme, live>> /\ Rows'
  BY <1>0, <1>4 DEF Resolve, Rows, native, ledger, workos, Events
<1>6. run' = [run EXCEPT ![h] = [run[h] EXCEPT !.pc = "plan"]] \/ run' = [run EXCEPT ![h] = Idle]
  BY DEF Resolve
<1>7. ASSUME run' = [run EXCEPT ![h] = [run[h] EXCEPT !.pc = "plan"]] PROVE TypeInv'
  <2> DEFINE r == [run[h] EXCEPT !.pc = "plan"]
  <2>1. r \in Run(Len(log)) /\ r.pc = "plan" /\ r.event = run[h].event
    BY <1>0 DEF Run
  <2>2. run'[h] = r
    BY <1>7, RunOf
  <2> HIDE DEF r
  <2>3. Shaped(h)'
    BY <1>1, <1>5, <2>1, <2>2 DEF Shaped, Events, workos
  <2> QED
    BY <1>5, <1>7, <2>1, <2>3, RunTypeInv DEF r
<1> QED
  BY <1>5, <1>6, <1>7, IdleTypeInv

LEMMA PlanTypeInv ==
    ASSUME TypeInv, NEW h \in Handler, Plan(h)
    PROVE  TypeInv'
<1>0. TypeOK /\ EventsShaped /\ Rows /\ Shaped(h) /\ run[h] \in Run(Len(log)) /\ run[h].pc = "plan"
  BY RowsTyped, RunOf DEF TypeInv, Plan
<1>1. run[h].event \in Events /\ live
  BY <1>0 DEF Shaped
<1> DEFINE a == ApplyEvent(run[h].event)
           sc == run[h].scopes
           t == RecordVersions(sc) \o RecordEvent("processed")
           todo == ApplyEvent(run[h].event) \o RecordVersions(run[h].scopes) \o RecordEvent("processed")
           r == [run[h] EXCEPT !.pc = "write", !.todo = todo]
<1>2. a \in Seq(Statement)
  BY <1>0, <1>1, ApplyTyped
<1>3. sc \in Seq(Scope)
  BY <1>0 DEF Run
<1> HIDE DEF sc
<1>4. /\ t \in Seq(Statement) /\ Len(t) >= 1
      /\ \A i \in 1..Len(t) : /\ ~Native(t[i])
                              /\ t[i].op = "version" => t[i].scope \in ToSet(sc)
                              /\ t[i].op = "record" <=> i = Len(t)
  BY <1>3, RestShape
<1>5. todo = a \o t
  BY <1>2, <1>3, RestTyped, Associates DEF sc
<1>6. run' = [run EXCEPT ![h] = r] /\ UNCHANGED <<workos, scheme, live>> /\ Rows'
  BY <1>0 DEF Plan, Rows, native, ledger, workos, Events, todo
<1>a. \A i \in 1..Len(a) : Native(a[i])
  BY <1>0, <1>1, ApplyNative
<1> HIDE DEF a, t
<1> HIDE DEF todo
<1>7. /\ todo \in Seq(Statement) /\ Len(todo) = Len(a) + Len(t) /\ Len(a) \in Nat /\ Len(t) \in Nat
      /\ \A i \in 1..Len(a) : todo[i] = a[i]
      /\ \A i \in 1..Len(t) : todo[Len(a) + i] = t[i]
  BY <1>2, <1>4, <1>5, Concat
<1>8. r \in Run(Len(log)) /\ r.pc = "write" /\ r.event = run[h].event /\ r.scopes = sc /\ r.todo = todo
  BY <1>0, <1>7 DEF Run, sc
<1>9. run'[h] = r
  BY <1>6, RunOf
<1> HIDE DEF r
<1>10. \A i \in 1..Len(todo) : /\ todo[i].op = "version" => todo[i].scope \in ToSet(sc)
                               /\ todo[i].op = "record" <=> i = Len(todo)
  <2> TAKE i \in 1..Len(todo)
  <2>1. CASE i \in 1..Len(a)
    <3>1. Native(todo[i]) /\ i # Len(todo)
      BY <1>a, <1>4, <1>7, <2>1
    <3> QED
      BY <3>1 DEF Native
  <2>2. CASE i \notin 1..Len(a)
    <3>1. i - Len(a) \in 1..Len(t) /\ i = Len(a) + (i - Len(a))
      BY <1>7, <2>2
    <3>2. todo[i] = t[i - Len(a)] /\ (i = Len(todo) <=> i - Len(a) = Len(t))
      BY <1>7, <3>1
    <3> QED
      BY <1>4, <3>1, <3>2
  <2> QED
    BY <2>1, <2>2
<1>11. Shaped(h)'
  <2>1. live' = live /\ log' = log
    BY <1>6 DEF workos
  <2> QED
    BY <1>1, <1>4, <1>7, <1>8, <1>9, <1>10, <2>1, WriteShape DEF Events
<1> QED
  BY <1>6, <1>8, <1>11, RunTypeInv

LEMMA FaultTypeInv ==
    ASSUME TypeInv, NEW h \in Handler, Fault(h) \/ WriteRefused(h)
    PROVE  TypeInv'
<1>0. Rows /\ faults \in Nat
  BY RowsTyped, BoundAssumption DEF Rows
<1>1. faults' \in 0..MaxFaults
  BY <1>0, BoundAssumption DEF Fault, WriteRefused, Rows
<1>2. run' = [run EXCEPT ![h] = Idle] /\ UNCHANGED <<workos, scheme, live>>
  BY DEF Fault, WriteRefused
<1>3. Rows'
  BY <1>0, <1>1 DEF Fault, WriteRefused, Rows, native, ledger, workos, Events
<1> QED
  BY <1>2, <1>3, IdleTypeInv

LEMMA StillTypeInv ==
    ASSUME TypeInv, UNCHANGED <<workos, scheme, native, links, ledger, run, faults>>,
           live' \in BOOLEAN, live => live'
    PROVE  TypeInv'
<1>1. TypeOK'
  BY DEF TypeInv, TypeOK, workos, native, ledger
<1>2. KeysKnown' /\ EventsShaped'
  BY DEF TypeInv, KeysKnown, EventsShaped, workos, Events, EventShape
<1>3. Shapes'
  BY DEF TypeInv, Shapes, Shaped, workos, Events
<1> QED
  BY <1>1, <1>2, <1>3 DEF TypeInv, workos

LEMMA AfterTyped ==
    ASSUME TypeInv, NEW st \in Statement, NEW e \in 1..Len(log)
    PROVE  /\ UsersAfter(st) \in [UserId -> UserRow \cup {None}]
           /\ GroupsAfter(st) \in [GroupId -> GroupRow \cup {None}]
           /\ MembersAfter(st) \subseteq GroupId \X UserId
           /\ VersionsAfter(st, e) \in [Scope -> 0..MaxEvents]
<1>0. TypeOK
  BY DEF TypeInv
<1>1. UsersAfter(st) \in [UserId -> UserRow \cup {None}]
  <2>1. st.op = "putUser" => st.row \in UserRow
    BY DEF Statement
  <2> QED
    BY <1>0, <2>1 DEF UsersAfter, TypeOK
<1>2. GroupsAfter(st) \in [GroupId -> GroupRow \cup {None}]
  <2>1. st.op = "putGroup" => st.row \in GroupRow
    BY DEF Statement
  <2> QED
    BY <1>0, <2>1 DEF GroupsAfter, TypeOK
<1>3. MembersAfter(st) \subseteq GroupId \X UserId
  <2>1. st.op = "addMember" => st.edge \in GroupId \X UserId
    BY DEF Statement
  <2> QED
    BY <1>0, <2>1 DEF MembersAfter, TypeOK, EdgesOfGroup, EdgesOfUser
<1>4. VersionsAfter(st, e) \in [Scope -> 0..MaxEvents]
  <2>1. e \in 0..MaxEvents
    BY <1>0, BoundAssumption DEF TypeInv, TypeOK
  <2> QED
    BY <1>0, <2>1 DEF VersionsAfter, TypeOK
<1> QED
  BY <1>1, <1>2, <1>3, <1>4

-----------------------------------------------------------------------------
(* Types: statements *)

LEMMA WriteParts ==
    ASSUME TypeInv, NEW h \in Handler, run[h].pc = "write"
    PROVE  /\ run[h].event \in 1..Len(log) /\ run[h].todo \in Seq(Statement) /\ run[h].todo # <<>>
           /\ Head(run[h].todo) \in Statement /\ Head(run[h].todo) = run[h].todo[1]
           /\ Tail(run[h].todo) \in Seq(Statement) /\ Len(run[h].todo) \in Nat /\ Len(run[h].todo) >= 1
           /\ Len(Tail(run[h].todo)) = Len(run[h].todo) - 1
           /\ \A i \in 1..Len(Tail(run[h].todo)) : Tail(run[h].todo)[i] = run[h].todo[i + 1] /\ i + 1 \in 1..Len(run[h].todo)
           /\ run[h].scopes \in Seq(Scope)
           /\ \A i \in 1..Len(run[h].todo) :
                 /\ Native(run[h].todo[i]) => live
                 /\ run[h].todo[i].op = "version" => run[h].todo[i].scope \in ToSet(run[h].scopes)
                 /\ run[h].todo[i].op = "record" <=> i = Len(run[h].todo)
<1> DEFINE t == run[h].todo
<1>1. Shaped(h) /\ run[h] \in Run(Len(log)) /\ run[h].scopes \in Seq(Scope)
  BY RunOf
<1>2. t \in Seq(Statement)
  BY <1>1 DEF Run
<1>3. /\ run[h].event \in 1..Len(log) /\ Len(t) >= 1
      /\ \A i \in 1..Len(t) :
                 /\ Native(t[i]) => live
                 /\ t[i].op = "version" => t[i].scope \in ToSet(run[h].scopes)
                 /\ t[i].op = "record" <=> i = Len(t)
  BY <1>1 DEF Shaped, Events
<1> HIDE DEF t
<1>4. t # <<>>
  BY <1>2, <1>3
<1>5. /\ Head(t) \in Statement /\ Head(t) = t[1] /\ Tail(t) \in Seq(Statement) /\ Len(t) \in Nat
      /\ Len(Tail(t)) = Len(t) - 1
      /\ \A i \in 1..Len(Tail(t)) : Tail(t)[i] = t[i + 1]
  BY <1>2, <1>4, SeqParts
<1>6. \A i \in 1..Len(Tail(t)) : i + 1 \in 1..Len(t)
  BY <1>5
<1> QED
  BY <1>1, <1>2, <1>3, <1>4, <1>5, <1>6 DEF t

LEMMA WriteNext ==
    ASSUME TypeInv, NEW h \in Handler, Write(h)
    PROVE  /\ run[h].pc = "write"
           /\ run' = [run EXCEPT ![h] = run'[h]]
           /\ \/ Len(run[h].todo) = 1 /\ run'[h] = Idle
              \/ Len(run[h].todo) > 1 /\ run'[h] = [run[h] EXCEPT !.todo = Tail(run[h].todo)]
<1>1. run[h].pc = "write"
  BY DEF Write
<1>2. Len(run[h].todo) \in Nat /\ Len(run[h].todo) >= 1
  BY <1>1, WriteParts
<1> DEFINE r == IF Len(run[h].todo) = 1 THEN Idle ELSE [run[h] EXCEPT !.todo = Tail(run[h].todo)]
<1>3. run' = [run EXCEPT ![h] = r]
  BY DEF Write
<1>4. run'[h] = r
  BY <1>3, RunOf
<1>5. \/ Len(run[h].todo) = 1 /\ r = Idle
      \/ Len(run[h].todo) > 1 /\ r = [run[h] EXCEPT !.todo = Tail(run[h].todo)]
  <2>1. CASE Len(run[h].todo) = 1
    BY <2>1
  <2>2. CASE Len(run[h].todo) # 1
    <3>1. r = [run[h] EXCEPT !.todo = Tail(run[h].todo)]
      BY <2>2
    <3>2. Len(run[h].todo) > 1
      <4> DEFINE n == Len(run[h].todo)
      <4>1. n \in Nat /\ n >= 1 /\ n # 1
        BY <1>2, <2>2
      <4> HIDE DEF n
      <4>2. n > 1
        BY <4>1
      <4> QED
        BY <4>2 DEF n
    <3> HIDE DEF r
    <3> QED
      BY <3>1, <3>2
  <2> QED
    BY <2>1, <2>2
<1> HIDE DEF r
<1>6. run' = [run EXCEPT ![h] = run'[h]]
  BY <1>3, <1>4
<1> QED
  BY <1>1, <1>4, <1>5, <1>6

LEMMA WriteTypeInv ==
    ASSUME TypeInv, NEW h \in Handler, Write(h)
    PROVE  TypeInv'
<1> DEFINE t == run[h].todo
           st == Head(run[h].todo)
           e == run[h].event
<1>1. /\ run[h].pc = "write" /\ run' = [run EXCEPT ![h] = run'[h]]
      /\ \/ Len(run[h].todo) = 1 /\ run'[h] = Idle
         \/ Len(run[h].todo) > 1 /\ run'[h] = [run[h] EXCEPT !.todo = Tail(run[h].todo)]
  BY WriteNext
<1>2. e \in 1..Len(log) /\ st \in Statement
  BY <1>1, WriteParts
<1>3. UNCHANGED <<workos, scheme, live, links, faults>>
  BY DEF Write
<1>4. Rows'
  <2>0. Rows
    BY RowsTyped
  <2>1. /\ UsersAfter(st) \in [UserId -> UserRow \cup {None}]
        /\ GroupsAfter(st) \in [GroupId -> GroupRow \cup {None}]
        /\ MembersAfter(st) \subseteq GroupId \X UserId
        /\ VersionsAfter(st, e) \in [Scope -> 0..MaxEvents]
    BY <1>2, AfterTyped
  <2>2. users' = UsersAfter(st) /\ groups' = GroupsAfter(st) /\ members' = MembersAfter(st) /\ versions' = VersionsAfter(st, e)
    BY DEF Write
  <2>3. processed' \subseteq processed \cup {e} /\ ignored' \subseteq ignored \cup {e}
    BY DEF Write
  <2> HIDE DEF st, e
  <2> QED
    BY <1>2, <1>3, <2>0, <2>1, <2>2, <2>3 DEF Rows, Events, workos
<1>5. CASE run'[h] = Idle
  <2>1. run' = [run EXCEPT ![h] = Idle]
    BY <1>1, <1>5
  <2> QED
    BY <1>3, <1>4, <2>1, IdleTypeInv
<1>6. CASE Len(t) > 1 /\ run'[h] = [run[h] EXCEPT !.todo = Tail(t)]
  <2> DEFINE r == [run[h] EXCEPT !.todo = Tail(t)]
             u == Tail(t)
  <2>1. /\ t \in Seq(Statement) /\ u \in Seq(Statement) /\ Len(u) = Len(t) - 1 /\ Len(t) \in Nat
        /\ \A i \in 1..Len(u) : u[i] = t[i + 1] /\ i + 1 \in 1..Len(t)
        /\ \A i \in 1..Len(t) :
                 /\ Native(t[i]) => live
                 /\ t[i].op = "version" => t[i].scope \in ToSet(run[h].scopes)
                 /\ t[i].op = "record" <=> i = Len(t)
    BY <1>1, WriteParts
  <2>2. run[h] \in Run(Len(log))
    BY RunOf
  <2> HIDE DEF u, t
  <2>3. r \in Run(Len(log)) /\ r.todo = u /\ r.pc = "write" /\ r.event = e /\ r.scopes = run[h].scopes
    BY <1>1, <2>1, <2>2 DEF Run, u
  <2>4. /\ Len(u) >= 1
        /\ \A i \in 1..Len(u) : /\ Native(u[i]) => live'
                                /\ u[i].op = "version" => u[i].scope \in ToSet(run[h].scopes)
                                /\ u[i].op = "record" <=> i = Len(u)
    <3>1. Len(u) >= 1
      BY <1>6, <2>1
    <3>2. ASSUME NEW i \in 1..Len(u)
          PROVE  /\ Native(u[i]) => live'
                 /\ u[i].op = "version" => u[i].scope \in ToSet(run[h].scopes)
                 /\ u[i].op = "record" <=> i = Len(u)
      <4>1. u[i] = t[i + 1] /\ i + 1 \in 1..Len(t)
        BY <2>1
      <4>2. i = Len(u) <=> i + 1 = Len(t)
        BY <2>1
      <4>3. /\ Native(t[i + 1]) => live
            /\ t[i + 1].op = "version" => t[i + 1].scope \in ToSet(run[h].scopes)
            /\ t[i + 1].op = "record" <=> i + 1 = Len(t)
        BY <2>1, <4>1
      <4> QED
        BY <1>3, <4>1, <4>2, <4>3
    <3> QED
      BY <3>1, <3>2
  <2> HIDE DEF r, e
  <2>5. run'[h] = r
    BY <1>6 DEF r
  <2>6. e \in 1..Len(log')
    BY <1>2, <1>3 DEF workos
  <2>7. Shaped(h)'
    BY <2>3, <2>4, <2>5, <2>6, WriteShape
  <2> QED
    BY <1>1, <1>3, <1>4, <2>3, <2>5, <2>7, RunTypeInv
<1> QED
  BY <1>1, <1>5, <1>6

LEMMA StepTypeInv ==
    ASSUME TypeInv, [Next]_vars
    PROVE  TypeInv'
<1>1. CASE WorkosStep
  <2>1. PICK ev \in Event : Emit(ev) /\ Change(ev)
    BY <1>1, WorkosChanges DEF TypeInv
  <2> QED
    BY <2>1, EmitTypeInv
<1>2. CASE Cutover
  BY <1>2, StillTypeInv DEF Cutover
<1>3. ASSUME NEW h \in Handler, HandlerStep(h) \/ Fault(h) PROVE TypeInv'
  BY <1>3, ResolveTypeInv, PlanTypeInv, WriteTypeInv, FaultTypeInv DEF HandlerStep
<1>4. ASSUME NEW h \in Handler, NEW e \in 1..Len(log), Deliver(h, e) PROVE TypeInv'
  BY <1>4, DeliverTypeInv
<1>5. CASE UNCHANGED vars
  <2>1. live' \in BOOLEAN /\ UNCHANGED <<workos, scheme, native, links, ledger, run, faults>> /\ live' = live
    BY <1>5 DEF vars, TypeInv, TypeOK
  <2> QED
    BY <2>1, StillTypeInv
<1> QED
  BY <1>1, <1>2, <1>3, <1>4, <1>5 DEF Next

(* WorkOS' directory, the native rows, the links and the ledger keep their types, *)
(* and a delivery only has statements left that name rows and scopes there are:   *)
(* what processDsyncEvent reads, decides and writes, statement by statement.      *)
THEOREM TypeCorrect == Spec => []TypeOK
<1>1. Init => TypeInv
  BY InitTypeInv
<1>2. TypeInv /\ [Next]_vars => TypeInv'
  BY StepTypeInv
<1>3. TypeInv => TypeOK
  BY DEF TypeInv
<1> QED
  BY <1>1, <1>2, <1>3, PTL DEF Spec

-----------------------------------------------------------------------------
(* What the log tells of people and groups *)

LEMMA EmitLog ==
    ASSUME TypeInv, NEW ev \in Event, Emit(ev), Change(ev)
    PROVE  \E n \in Nat :
              /\ n = Len(log) /\ Events = 1..n /\ Events' = (1..n) \cup {n + 1} /\ n + 1 \notin 1..n
              /\ \A e \in 1..n : log'[e] = log[e] /\ log[e] \in Event /\ EventShape(e) /\ e < n + 1 /\ e \in Nat
              /\ log'[n + 1] = ev
              /\ \A p : UserEvents(p)' = UserEvents(p) \cup
                           (IF ev.type \in {"user", "deleted"} /\ ev.user = p THEN {n + 1} ELSE {})
              /\ \A p, g : MemberEvents(p, g)' = MemberEvents(p, g) \cup
                           (IF ev.type \in {"added", "removed"} /\ ev.user = p /\ ev.group = g THEN {n + 1} ELSE {})
              /\ \A p : UserEvents(p) \subseteq 1..n
              /\ \A p, g : MemberEvents(p, g) \subseteq 1..n
<1>n. PICK n : n = Len(log)
  OBVIOUS
<1>1. log \in Seq(Event) /\ log' = Append(log, ev)
  BY <1>n DEF Emit, TypeInv, TypeOK
<1>2. /\ log' \in Seq(Event) /\ n \in Nat /\ Len(log') = n + 1
      /\ 1..Len(log') = (1..n) \cup {n + 1} /\ n + 1 \notin 1..n
      /\ \A e \in 1..n : log'[e] = log[e] /\ log[e] \in Event
      /\ log'[n + 1] = ev
  BY <1>1, <1>n, OneMore
<1>3. Events = 1..n /\ Events' = (1..n) \cup {n + 1}
  BY <1>n, <1>2 DEF Events
<1>4. \A e \in 1..n : EventShape(e) /\ e < n + 1 /\ e \in Nat
  BY <1>2, <1>3 DEF TypeInv, EventsShaped
<1>5. ASSUME NEW p
      PROVE  UserEvents(p)' = UserEvents(p) \cup
                           (IF ev.type \in {"user", "deleted"} /\ ev.user = p THEN {n + 1} ELSE {})
  BY <1>2, <1>3 DEF UserEvents, UserEvent
<1>6. ASSUME NEW p, NEW g
      PROVE  MemberEvents(p, g)' = MemberEvents(p, g) \cup
                           (IF ev.type \in {"added", "removed"} /\ ev.user = p /\ ev.group = g THEN {n + 1} ELSE {})
  BY <1>2, <1>3 DEF MemberEvents, MembershipEvent
<1>7. \A p : UserEvents(p) \subseteq 1..n
  BY <1>3 DEF UserEvents
<1>8. \A p, g : MemberEvents(p, g) \subseteq 1..n
  BY <1>3 DEF MemberEvents
<1> QED
  BY <1>n, <1>2, <1>3, <1>4, <1>5, <1>6, <1>7, <1>8

LEMMA EmitPersonTold ==
    ASSUME TypeInv, PersonTold, NEW ev \in Event, Emit(ev), Change(ev)
    PROVE  PersonTold'
<1>1. PICK n \in Nat :
              /\ n = Len(log) /\ Events = 1..n /\ Events' = (1..n) \cup {n + 1} /\ n + 1 \notin 1..n
              /\ \A e \in 1..n : log'[e] = log[e] /\ log[e] \in Event /\ EventShape(e) /\ e < n + 1 /\ e \in Nat
              /\ log'[n + 1] = ev
              /\ \A p : UserEvents(p)' = UserEvents(p) \cup
                           (IF ev.type \in {"user", "deleted"} /\ ev.user = p THEN {n + 1} ELSE {})
              /\ \A p : UserEvents(p) \subseteq 1..n
  BY EmitLog
<1>0. /\ \A p \in Person : person[p].state # "none" => person[p].key \in KeysOf[p]
      /\ person \in [Person -> [state : {"none", "active", "inactive", "gone"}, key : Key \cup {None}]]
  BY DEF TypeInv, KeysKnown, TypeOK
<1> SUFFICES ASSUME NEW p \in Person PROVE PersonToldOf(p)'
  BY DEF PersonTold
<1>2. PersonToldOf(p)
  BY DEF PersonTold
<1>3. CASE UserChange(ev) /\ ev.user = p
  <2>1. PICK s \in {"active", "inactive", "gone"} :
          /\ person' = [person EXCEPT ![ev.user] = [state |-> s, key |-> ev.key]]
          /\ ev.active <=> s = "active"
    BY <1>3 DEF UserChange
  <2>2. person'[p].state = s /\ person'[p].key = ev.key /\ ev.key \in KeysOf[p]
    BY <1>0, <1>3, <2>1 DEF UserChange
  <2>3. UserEvents(p)' = UserEvents(p) \cup {n + 1} /\ UserEvents(p) \subseteq 1..n
    BY <1>1, <1>3 DEF UserChange
  <2>4. \A e \in UserEvents(p)' : (\A e2 \in UserEvents(p)' : e2 <= e) => e = n + 1
    BY <1>1, <2>3
  <2>5. \A e \in Events' : ~(e > n + 1)
    BY <1>1
  <2> QED
    BY <1>1, <2>1, <2>2, <2>3, <2>4, <2>5 DEF PersonToldOf, NewestUser
<1>4. CASE (UserChange(ev) /\ ev.user # p) \/ GroupChange(ev) \/ (MemberChange(ev) /\ ev.user # p)
  <2>1. person'[p] = person[p] /\ ev.user # p
    BY <1>0, <1>4, NoneAssumption DEF UserChange, GroupChange, MemberChange
  <2>2. UserEvents(p)' = UserEvents(p)
    BY <1>1, <2>1
  <2> QED
    BY <1>1, <1>2, <2>1, <2>2 DEF PersonToldOf, NewestUser
<1>5. CASE MemberChange(ev) /\ ev.user = p
  <2>1. person'[p] = person[p] /\ ev.key = person[p].key /\ person[p].state = "active"
    BY <1>5 DEF MemberChange
  <2>2. UserEvents(p)' = UserEvents(p)
    BY <1>1, <1>5 DEF MemberChange
  <2> QED
    BY <1>1, <1>2, <1>5, <2>1, <2>2 DEF PersonToldOf, NewestUser
<1> QED
  BY <1>3, <1>4, <1>5 DEF Change

LEMMA EmitGroupTold ==
    ASSUME TypeInv, GroupTold, EdgesTold, NEW ev \in Event, Emit(ev), Change(ev)
    PROVE  GroupTold'
<1>1. PICK n \in Nat :
              /\ n = Len(log) /\ Events = 1..n /\ Events' = (1..n) \cup {n + 1} /\ n + 1 \notin 1..n
              /\ \A e \in 1..n : log'[e] = log[e] /\ log[e] \in Event /\ EventShape(e) /\ e < n + 1 /\ e \in Nat
              /\ log'[n + 1] = ev
  BY EmitLog
<1>0. group \in [Group -> {"none", "present", "gone"}]
  BY DEF TypeInv, TypeOK
<1> SUFFICES ASSUME NEW g \in Group PROVE GroupToldOf(g)'
  BY DEF GroupTold
<1>2. GroupToldOf(g)
  BY DEF GroupTold
<1>3. CASE GroupChange(ev) /\ ev.group = g
  <2>1. CASE ev.type = "group"
    <3>1. group[g] = "none" /\ group'[g] = "present"
      BY <1>0, <1>3, <2>1 DEF GroupChange
    <3> QED
      BY <1>1, <1>2, <1>3, <2>1, <3>1 DEF GroupToldOf
  <2>2. CASE ev.type = "groupDeleted"
    <3>1. group[g] = "present" /\ group'[g] = "gone"
      BY <1>0, <1>3, <2>2 DEF GroupChange
    <3> QED
      BY <1>1, <1>2, <1>3, <2>2, <3>1 DEF GroupToldOf
  <2> QED
    BY <1>3, <2>1, <2>2 DEF GroupChange
<1>4. CASE UserChange(ev) \/ (GroupChange(ev) /\ ev.group # g) \/ (MemberChange(ev) /\ ev.group # g)
  <2>1. group'[g] = group[g] /\ ev.group # g
    BY <1>0, <1>4, NoneAssumption DEF UserChange, GroupChange, MemberChange
  <2> QED
    BY <1>1, <1>2, <2>1 DEF GroupToldOf
<1>5. CASE MemberChange(ev) /\ ev.group = g
  <2>1. group'[g] = group[g] /\ ev.type \in {"added", "removed"} /\ ev.user \in Person
    BY <1>5 DEF MemberChange
  <2>2. group[g] = "present"
    <3>1. CASE ev.type = "added"
      BY <1>5, <3>1 DEF MemberChange
    <3>2. CASE ev.type # "added"
      <4>1. <<g, ev.user>> \in edges
        BY <1>5, <3>2 DEF MemberChange
      <4> QED
        BY <2>1, <4>1 DEF EdgesTold, EdgeToldOf
    <3> QED
      BY <3>1, <3>2
  <2> QED
    BY <1>1, <1>2, <1>5, <2>1, <2>2 DEF GroupToldOf
<1> QED
  BY <1>3, <1>4, <1>5 DEF Change

-----------------------------------------------------------------------------
(* What the log tells of memberships, and the mirror *)

LEMMA EmitEdgesTold ==
    ASSUME TypeInv, GroupTold, EdgesTold, NEW ev \in Event, Emit(ev), Change(ev)
    PROVE  EdgesTold'
<1>1. PICK n \in Nat :
              /\ n = Len(log) /\ Events = 1..n /\ Events' = (1..n) \cup {n + 1} /\ n + 1 \notin 1..n
              /\ \A e \in 1..n : log'[e] = log[e] /\ log[e] \in Event /\ EventShape(e) /\ e < n + 1 /\ e \in Nat
              /\ log'[n + 1] = ev
              /\ \A p, g : MemberEvents(p, g)' = MemberEvents(p, g) \cup
                           (IF ev.type \in {"added", "removed"} /\ ev.user = p /\ ev.group = g THEN {n + 1} ELSE {})
              /\ \A p, g : MemberEvents(p, g) \subseteq 1..n
  BY EmitLog
<1>0. /\ group \in [Group -> {"none", "present", "gone"}]
      /\ person \in [Person -> [state : {"none", "active", "inactive", "gone"}, key : Key \cup {None}]]
      /\ edges \subseteq Group \X Person
  BY DEF TypeInv, TypeOK
<1> SUFFICES ASSUME NEW p \in Person, NEW g \in Group PROVE EdgeToldOf(p, g)'
  BY DEF EdgesTold
<1>2. EdgeToldOf(p, g) /\ GroupToldOf(g)
  BY DEF EdgesTold, GroupTold
<1>3. NeverDeleted(p)' => NeverDeleted(p) /\ ~(ev.type = "deleted" /\ ev.user = p)
  BY <1>1 DEF NeverDeleted, Events
<1>4. CASE MemberChange(ev) /\ ev.user = p /\ ev.group = g
  <2>1. group' = group /\ person' = person /\ person[p].state = "active" /\ ev.type \in {"added", "removed"}
    BY <1>4 DEF MemberChange
  <2>2. MemberEvents(p, g)' = MemberEvents(p, g) \cup {n + 1}
    BY <1>1, <1>4, <2>1
  <2>3. ASSUME NEW e \in MemberEvents(p, g)', NewestMember(e, p, g)' PROVE e = n + 1
    <3>1. n + 1 \in MemberEvents(p, g)' /\ \A x \in MemberEvents(p, g)' : x \in 1..n \/ x = n + 1
      BY <1>1, <2>2
    <3>2. n + 1 <= e
      BY <2>3, <3>1 DEF NewestMember
    <3> QED
      BY <3>1, <3>2
  <2>4. CASE ev.type = "added"
    <3>1. group[g] = "present" /\ edges' = edges \cup {<<g, p>>}
      BY <1>4, <2>4 DEF MemberChange
    <3> QED
      BY <1>1, <2>1, <2>2, <2>3, <2>4, <3>1 DEF EdgeToldOf, Present
  <2>5. CASE ev.type = "removed"
    <3>1. edges' = edges \ {<<g, p>>}
      BY <1>4, <2>5 DEF MemberChange
    <3> QED
      BY <1>1, <2>1, <2>2, <2>3, <2>5, <3>1 DEF EdgeToldOf, Present
  <2> QED
    BY <2>1, <2>4, <2>5
<1>5. ASSUME MemberEvents(p, g)' = MemberEvents(p, g),
             group'[g] = group[g], <<g, p>> \in edges' <=> <<g, p>> \in edges,
             <<g, p>> \in edges' => Present(p)'
      PROVE  EdgeToldOf(p, g)'
  BY <1>1, <1>2, <1>3, <1>5 DEF EdgeToldOf, NewestMember
<1>6. CASE MemberChange(ev) /\ ~(ev.user = p /\ ev.group = g)
  <2>1. group' = group /\ person' = person /\ MemberEvents(p, g)' = MemberEvents(p, g)
    BY <1>1, <1>6 DEF MemberChange
  <2>2. <<g, p>> \in edges' <=> <<g, p>> \in edges
    BY <1>6 DEF MemberChange
  <2>3. <<g, p>> \in edges' => Present(p)'
    BY <1>2, <2>1, <2>2 DEF EdgeToldOf, Present
  <2> QED
    BY <1>5, <2>1, <2>2, <2>3
<1>7. CASE GroupChange(ev)
  <2>1. person' = person /\ MemberEvents(p, g)' = MemberEvents(p, g)
    BY <1>1, <1>7 DEF GroupChange
  <2>2. CASE ev.group # g
    <3>1. group'[g] = group[g] /\ (<<g, p>> \in edges' <=> <<g, p>> \in edges)
      BY <1>0, <1>7, <2>2 DEF GroupChange
    <3>2. <<g, p>> \in edges' => Present(p)'
      BY <1>2, <2>1, <3>1 DEF EdgeToldOf, Present
    <3> QED
      BY <1>5, <2>1, <3>1, <3>2
  <2>3. CASE ev.group = g /\ ev.type = "group"
    <3>1. group[g] = "none" /\ edges' = edges
      BY <1>7, <2>3 DEF GroupChange
    <3>2. MemberEvents(p, g) = {} /\ <<g, p>> \notin edges
      BY <1>2, <3>1 DEF GroupToldOf, EdgeToldOf, MemberEvents
    <3> QED
      BY <2>1, <3>1, <3>2 DEF EdgeToldOf
  <2>4. CASE ev.group = g /\ ev.type = "groupDeleted"
    <3>1. group'[g] = "gone" /\ <<g, p>> \notin edges'
      BY <1>0, <1>7, <2>4 DEF GroupChange
    <3> QED
      BY <3>1 DEF EdgeToldOf
  <2> QED
    BY <1>7, <2>2, <2>3, <2>4 DEF GroupChange
<1>8. CASE UserChange(ev)
  <2>1. group' = group /\ MemberEvents(p, g)' = MemberEvents(p, g)
    BY <1>1, <1>8 DEF UserChange
  <2>2. PICK s \in {"active", "inactive", "gone"} :
          /\ person' = [person EXCEPT ![ev.user] = [state |-> s, key |-> ev.key]]
          /\ s = "gone" => ev.type = "deleted"
          /\ edges' = IF s = "gone" THEN {m \in edges : m[2] # ev.user} ELSE edges
    BY <1>8 DEF UserChange
  <2>3. CASE s = "gone" /\ ev.user = p
    <3>1. <<g, p>> \notin edges' /\ ~NeverDeleted(p)'
      BY <1>3, <2>2, <2>3
    <3> QED
      BY <3>1 DEF EdgeToldOf
  <2>4. CASE ~(s = "gone" /\ ev.user = p)
    <3>1. <<g, p>> \in edges' <=> <<g, p>> \in edges
      BY <2>2, <2>4
    <3>2. <<g, p>> \in edges' => Present(p)'
      BY <1>0, <1>2, <2>2, <2>4, <3>1 DEF EdgeToldOf, Present
    <3> QED
      BY <1>5, <2>1, <3>1, <3>2
  <2> QED
    BY <2>3, <2>4
<1> QED
  BY <1>4, <1>6, <1>7, <1>8 DEF Change

LEMMA EmitOneEach ==
    ASSUME TypeInv, OneKeyEach, OneGroupEach, NEW ev \in Event, Emit(ev), Change(ev)
    PROVE  OneKeyEach' /\ OneGroupEach'
<1>0. /\ group \in [Group -> {"none", "present", "gone"}]
      /\ person \in [Person -> [state : {"none", "active", "inactive", "gone"}, key : Key \cup {None}]]
  BY DEF TypeInv, TypeOK
<1>1. CASE UserChange(ev)
  <2>1. group' = group /\ ev.user \in Person
    BY <1>1 DEF UserChange
  <2>2. PICK s \in {"active", "inactive", "gone"} :
          /\ person' = [person EXCEPT ![ev.user] = [state |-> s, key |-> ev.key]]
          /\ \/ s # "gone" /\ FreeKey(ev.user, ev.key)
             \/ Present(ev.user) /\ person[ev.user].key = ev.key
    BY <1>1 DEF UserChange
  <2>3. \A q \in Person \ {ev.user} : person'[q] = person[q]
    BY <1>0, <2>2
  <2>4. person'[ev.user].key = ev.key
    BY <1>0, <2>1, <2>2
  <2>5. \A q \in Person \ {ev.user} : Present(q) => NameOf[person[q].key] # NameOf[ev.key]
    BY <2>1, <2>2 DEF FreeKey, OneKeyEach
  <2> QED
    BY <2>1, <2>3, <2>4, <2>5 DEF OneKeyEach, OneGroupEach, Present
<1>2. CASE GroupChange(ev)
  <2>1. person' = person /\ ev.group \in Group
    BY <1>2 DEF GroupChange
  <2>2. CASE ev.type = "group"
    BY <1>0, <1>2, <2>1, <2>2 DEF GroupChange, OneKeyEach, OneGroupEach, Present
  <2>3. CASE ev.type # "group"
    BY <1>0, <1>2, <2>1, <2>3 DEF GroupChange, OneKeyEach, OneGroupEach, Present
  <2> QED
    BY <2>2, <2>3
<1>3. CASE MemberChange(ev)
  BY <1>3 DEF MemberChange, OneKeyEach, OneGroupEach, Present
<1> QED
  BY <1>1, <1>2, <1>3 DEF Change

RowOfPerson(p) == [ext |-> person[p].key, name |-> NameOf[person[p].key], active |-> person[p].state = "active"]

LEMMA EmitMirrored ==
    ASSUME TypeInv, Mirrored, NEW ev \in Event, Emit(ev), Change(ev)
    PROVE  Mirrored'
<1>0. /\ group \in [Group -> {"none", "present", "gone"}]
      /\ person \in [Person -> [state : {"none", "active", "inactive", "gone"}, key : Key \cup {None}]]
      /\ live' = live /\ None \notin Person /\ None \notin Group
  BY NoneAssumption DEF TypeInv, TypeOK, Emit
<1> SUFFICES ASSUME ~live PROVE Mirrored'
  BY <1>0 DEF Mirrored
<1>1. /\ \A i \in UserId : users[i] = IF i \in Person /\ Present(i) THEN RowOfPerson(i) ELSE None
      /\ \A i \in GroupId : groups[i] = IF i \in Group /\ group[i] = "present" THEN [ext |-> GroupKeyOf[i]] ELSE None
  BY DEF Mirrored, RowOfPerson
<1>2. /\ \A i \in UserId : users'[i] = IF i # ev.user \/ ev.type \notin {"user", "deleted"} THEN users[i]
                                       ELSE IF person'[i].state = "gone" THEN None ELSE UserRowOf(ev)
      /\ \A i \in GroupId : groups'[i] = IF i # ev.group \/ ev.type \notin {"group", "groupDeleted"} THEN groups[i]
                                         ELSE IF ev.type = "groupDeleted" THEN None ELSE [ext |-> GroupKeyOf[i]]
      /\ members' = edges'
  BY DEF Emit, DirectWrite
<1>3. \A i \in UserId : users'[i] = IF i \in Person /\ Present(i)' THEN RowOfPerson(i)' ELSE None
  <2> TAKE i \in UserId
  <2>1. CASE UserChange(ev) /\ i = ev.user
    <3>1. PICK s \in {"active", "inactive", "gone"} :
            /\ person' = [person EXCEPT ![ev.user] = [state |-> s, key |-> ev.key]]
            /\ ev.active <=> s = "active"
      BY <2>1 DEF UserChange
    <3>2. i \in Person /\ ev.active \in BOOLEAN /\ ev.type \in {"user", "deleted"}
      BY <2>1 DEF UserChange
    <3>3. person'[i].state = s /\ person'[i].key = ev.key
      BY <1>0, <2>1, <3>1, <3>2
    <3>4. users'[i] = IF s = "gone" THEN None ELSE UserRowOf(ev)
      BY <1>2, <2>1, <3>2, <3>3
    <3>5. Present(i)' <=> s # "gone"
      BY <3>3 DEF Present
    <3>6. RowOfPerson(i)' = UserRowOf(ev)
      <4>1. ev.active = (s = "active")
        BY <3>1, <3>2
      <4> QED
        BY <3>3, <4>1 DEF RowOfPerson, UserRowOf
    <3> QED
      BY <3>2, <3>4, <3>5, <3>6
  <2>2. CASE ~(UserChange(ev) /\ i = ev.user)
    <3>1. users'[i] = users[i]
      BY <1>2, <2>2 DEF Change, GroupChange, MemberChange
    <3>2. i \in Person => person'[i] = person[i]
      BY <1>0, <2>2 DEF Change, UserChange, GroupChange, MemberChange
    <3>3. i \in Person => (Present(i)' <=> Present(i)) /\ RowOfPerson(i)' = RowOfPerson(i)
      BY <3>2 DEF Present, RowOfPerson
    <3> QED
      BY <1>1, <3>1, <3>3
  <2> QED
    BY <2>1, <2>2
<1>4. \A i \in GroupId : groups'[i] = IF i \in Group /\ group'[i] = "present" THEN [ext |-> GroupKeyOf[i]] ELSE None
  <2> TAKE i \in GroupId
  <2>1. CASE GroupChange(ev) /\ i = ev.group
    BY <1>0, <1>2, <2>1 DEF GroupChange
  <2>2. CASE ~(GroupChange(ev) /\ i = ev.group)
    <3>1. groups'[i] = groups[i]
      BY <1>2, <2>2 DEF Change, UserChange, MemberChange
    <3>2. i \in Group => group'[i] = group[i]
      BY <1>0, <2>2 DEF Change, UserChange, GroupChange, MemberChange
    <3> QED
      BY <1>1, <3>1, <3>2
  <2> QED
    BY <2>1, <2>2
<1> QED
  BY <1>2, <1>3, <1>4 DEF Mirrored, RowOfPerson

-----------------------------------------------------------------------------
(* WorkosOK is an invariant *)

WorkosOK == PersonTold /\ GroupTold /\ EdgesTold /\ OneKeyEach /\ OneGroupEach /\ Mirrored

LEMMA InitWorkos == Init => WorkosOK
<1> SUFFICES ASSUME Init PROVE WorkosOK
  OBVIOUS
<1>0. Len(log) = 0 /\ Events = {}
  BY DEF Init, Events
<1>1. PersonTold
  BY <1>0 DEF Init, PersonTold, PersonToldOf, UserEvents
<1>2. GroupTold
  BY <1>0 DEF Init, GroupTold, GroupToldOf
<1>3. EdgesTold
  BY <1>0 DEF Init, EdgesTold, EdgeToldOf, MemberEvents
<1>4. OneKeyEach /\ OneGroupEach
  BY DEF Init, OneKeyEach, OneGroupEach, Present
<1>5. Mirrored
  BY DEF Init, Mirrored, Present
<1> QED
  BY <1>1, <1>2, <1>3, <1>4, <1>5 DEF WorkosOK

LEMMA DryWrite ==
    ASSUME NEW st, ~Native(st)
    PROVE  UsersAfter(st) = users /\ GroupsAfter(st) = groups /\ MembersAfter(st) = members
<1>1. st.op = "version" \/ st.op = "record"
  BY DEF Native
<1> QED
  BY <1>1 DEF UsersAfter, GroupsAfter, MembersAfter

LEMMA WorkosSame ==
    ASSUME WorkosOK, UNCHANGED workos, live => live', UNCHANGED native \/ live
    PROVE  WorkosOK'
<1>1. UNCHANGED <<log, person, group, edges>>
  BY DEF workos
<1>2. PersonTold'
  BY <1>1 DEF WorkosOK, PersonTold, PersonToldOf, UserEvents, UserEvent, NewestUser, Events
<1>3. GroupTold'
  BY <1>1 DEF WorkosOK, GroupTold, GroupToldOf, Events
<1>4. EdgesTold'
  <2> SUFFICES ASSUME NEW p \in Person, NEW g \in Group PROVE EdgeToldOf(p, g)'
    BY DEF EdgesTold
  <2>1. EdgeToldOf(p, g)
    BY DEF WorkosOK, EdgesTold
  <2>2. MemberEvents(p, g)' = MemberEvents(p, g)
    BY <1>1 DEF MemberEvents, MembershipEvent, Events
  <2>3. NeverDeleted(p)' <=> NeverDeleted(p)
    BY <1>1 DEF NeverDeleted
  <2>4. Present(p)' <=> Present(p)
    BY <1>1 DEF Present
  <2> QED
    BY <1>1, <2>1, <2>2, <2>3, <2>4 DEF EdgeToldOf, NewestMember
<1>5. OneKeyEach' /\ OneGroupEach'
  BY <1>1 DEF WorkosOK, OneKeyEach, OneGroupEach, Present
<1>6. Mirrored'
  BY <1>1 DEF WorkosOK, Mirrored, Present, native
<1> QED
  BY <1>2, <1>3, <1>4, <1>5, <1>6 DEF WorkosOK

LEMMA StepWorkos ==
    ASSUME TypeInv, WorkosOK, [Next]_vars
    PROVE  WorkosOK'
<1>1. CASE WorkosStep
  <2>1. PICK ev \in Event : Emit(ev) /\ Change(ev)
    BY <1>1, WorkosChanges DEF TypeInv
  <2> QED
    BY <2>1, EmitPersonTold, EmitGroupTold, EmitEdgesTold, EmitOneEach, EmitMirrored DEF WorkosOK
<1>2. CASE Cutover
  BY <1>2, WorkosSame DEF Cutover
<1>3. ASSUME NEW h \in Handler, Write(h) PROVE WorkosOK'
  <2>1. UNCHANGED workos /\ live' = live
    BY <1>3 DEF Write
  <2>2. CASE ~Native(Head(run[h].todo))
    <3>1. UNCHANGED native
      BY <1>3, <2>2, DryWrite DEF Write, native
    <3> QED
      BY <2>1, <3>1, WorkosSame
  <2>3. CASE Native(Head(run[h].todo))
    <3>1. run[h].pc = "write"
      BY <1>3 DEF Write
    <3>2. Head(run[h].todo) = run[h].todo[1] /\ 1 \in 1..Len(run[h].todo)
      BY <3>1, WriteParts
    <3>3. live
      BY <2>3, <3>1, <3>2, WriteParts
    <3> QED
      BY <2>1, <3>3, WorkosSame
  <2> QED
    BY <2>2, <2>3
<1>4. ASSUME NEW h \in Handler, Resolve(h) \/ Plan(h) \/ WriteRefused(h) \/ Fault(h) PROVE WorkosOK'
  BY <1>4, WorkosSame DEF Resolve, Plan, WriteRefused, Fault
<1>5. ASSUME NEW h \in Handler, NEW e \in 1..Len(log), Deliver(h, e) PROVE WorkosOK'
  BY <1>5, WorkosSame DEF Deliver
<1>6. CASE UNCHANGED vars
  BY <1>6, WorkosSame DEF vars
<1> QED
  BY <1>1, <1>2, <1>3, <1>4, <1>5, <1>6 DEF Next, HandlerStep

-----------------------------------------------------------------------------
(* What is left of an event that still has to write *)

LEMMA OwedShape ==
    ASSUME NEW e, NEW s, OwedBy(e, s)
    PROVE  s # <<>> /\ Native(Head(s))
<1> DEFINE a == PutHit(e)
           b == ClearHit(e)
           c == PutGone(e)
           d == PutGroupHit(e)
           f == ClearGroupHit(e)
           g == DropHit(e)
           m == AddHit(e)
           n == RemoveHit(e)
<1>1. /\ Native(a) /\ Native(b) /\ Native(c) /\ Native(d) /\ Native(f) /\ Native(g) /\ Native(m) /\ Native(n)
  BY DEF Native, PutHit, PutUser, ClearHit, PutGone, PutGroupHit, ClearGroupHit, DropHit, AddHit, RemoveHit
<1>2. s \in {<<b, a>>, <<a>>, <<c>>, <<d>>, <<f, g>>, <<g>>, <<a, d, m>>, <<a, m>>, <<d, m>>, <<m>>, <<n>>}
  BY DEF OwedBy
<1> HIDE DEF a, b, c, d, f, g, m, n
<1>3. \/ \E x \in {a, c, d, g, m, n} : s = <<x>>
      \/ \E x \in {a, b, d, f}, y \in {a, g, m} : s = <<x, y>>
      \/ s = <<a, d, m>>
  BY <1>2, Zenon
<1>4. CASE \E x \in {a, c, d, g, m, n} : s = <<x>>
  <2>1. PICK x \in {a, c, d, g, m, n} : s = <<x>>
    BY <1>4
  <2> QED
    BY <1>1, <2>1
<1>5. CASE \E x \in {a, b, d, f}, y \in {a, g, m} : s = <<x, y>>
  <2>1. PICK x \in {a, b, d, f}, y \in {a, g, m} : s = <<x, y>>
    BY <1>5
  <2> QED
    BY <1>1, <2>1
<1>6. CASE s = <<a, d, m>>
  BY <1>1, <1>6
<1> QED
  BY <1>3, <1>4, <1>5, <1>6

LEMMA RestIsDry ==
    ASSUME TypeInv, NEW h \in Handler
    PROVE  /\ Rest(h) \in Seq(Statement) /\ Len(Rest(h)) \in Nat /\ Len(Rest(h)) >= 1
           /\ \A i \in 1..Len(Rest(h)) : ~Native(Rest(h)[i])
<1>1. run[h].scopes \in Seq(Scope)
  BY RunOf
<1> QED
  BY <1>1, RestShape DEF Rest

(* What is left of an event that still has to write. *)
LEMMA OwedHead ==
    ASSUME TypeInv, NEW h \in Handler, run[h].pc = "write", Owed(h), ~Dry(h)
    PROVE  \E s \in Seq(Statement) :
              /\ OwedBy(run[h].event, s) /\ s # <<>> /\ Native(Head(s)) /\ Head(s) \in Statement
              /\ Head(run[h].todo) = Head(s) /\ Tail(run[h].todo) = Tail(s) \o Rest(h)
              /\ Len(run[h].todo) > 1 /\ Tail(s) \in Seq(Statement)
<1>1. PICK s \in Seq(Statement) : OwedBy(run[h].event, s) /\ run[h].todo = s \o Rest(h)
  BY DEF Owed
<1>2. s # <<>> /\ Native(Head(s))
  BY <1>1, OwedShape
<1> DEFINE r == Rest(h)
<1>3. r \in Seq(Statement) /\ Len(r) \in Nat /\ Len(r) >= 1
  BY RestIsDry
<1> HIDE DEF r
<1>4. Head(s \o r) = Head(s) /\ Tail(s \o r) = Tail(s) \o r
  BY <1>2, <1>3, ConcatParts
<1>5. Len(s \o r) = Len(s) + Len(r)
  BY <1>3, Concat
<1>6. Len(s) \in Nat /\ Len(s) >= 1 /\ Head(s) \in Statement /\ Tail(s) \in Seq(Statement)
  BY <1>2, SeqParts
<1>7. Len(s \o r) > 1
  BY <1>3, <1>5, <1>6
<1> QED
  BY <1>1, <1>2, <1>4, <1>6, <1>7 DEF r

LEMMA DryHead ==
    ASSUME TypeInv, NEW h \in Handler, run[h].pc = "write", Dry(h)
    PROVE  ~Native(Head(run[h].todo)) /\ \A i \in 1..Len(Tail(run[h].todo)) : ~Native(Tail(run[h].todo)[i])
<1> DEFINE t == run[h].todo
<1>1. /\ Head(t) = t[1] /\ Len(t) \in Nat /\ Len(t) >= 1
      /\ \A i \in 1..Len(Tail(t)) : Tail(t)[i] = t[i + 1] /\ i + 1 \in 1..Len(t)
  BY WriteParts
<1>2. \A i \in 1..Len(t) : ~Native(t[i])
  BY DEF Dry
<1> HIDE DEF t
<1>3. 1 \in 1..Len(t)
  BY <1>1
<1>4. ~Native(Head(t)) /\ \A i \in 1..Len(Tail(t)) : ~Native(Tail(t)[i])
  BY <1>1, <1>2, <1>3
<1> QED
  BY <1>4 DEF t

(* What an event looks up depends on the rows and its own attributes alone. *)
LEMMA LooksSame ==
    ASSUME NEW e, log'[e] = log[e], UNCHANGED <<users, groups, versions, links, scheme>>
    PROVE  /\ FindUser(e)' = FindUser(e) /\ FindGroup(e)' = FindGroup(e)
           /\ NewUserId(e)' = NewUserId(e) /\ NewGroupId(e)' = NewGroupId(e)
           /\ GroupGate(e)' = GroupGate(e) /\ UserGate(e)' = UserGate(e)
           /\ UserHit(e)' = UserHit(e) /\ GroupHit(e)' = GroupHit(e)
           /\ PutHit(e)' = PutHit(e) /\ PutGone(e)' = PutGone(e) /\ ClearHit(e)' = ClearHit(e)
           /\ PutGroupHit(e)' = PutGroupHit(e) /\ ClearGroupHit(e)' = ClearGroupHit(e)
           /\ DropHit(e)' = DropHit(e) /\ AddHit(e)' = AddHit(e) /\ RemoveHit(e)' = RemoveHit(e)
           /\ ChangesHands(e)' = ChangesHands(e) /\ Same(e)' = Same(e)
<1>1. /\ FindUser(e)' = FindUser(e) /\ FindGroup(e)' = FindGroup(e)
      /\ NewUserId(e)' = NewUserId(e) /\ NewGroupId(e)' = NewGroupId(e)
  BY DEF FindUser, FindGroup, NewUserId, NewGroupId
<1>2. GroupGate(e)' = GroupGate(e) /\ UserGate(e)' = UserGate(e)
  BY <1>1 DEF GroupGate, UserGate, IsNewestAcross, GroupEventScopes, UserEventScopes, Stable,
              LinkedUser, CurrentKey, UserScopes, GroupScopes
<1>3. UserHit(e)' = UserHit(e) /\ GroupHit(e)' = GroupHit(e)
  BY <1>1 DEF UserHit, GroupHit
<1> QED
  BY <1>1, <1>2, <1>3 DEF PutHit, PutGone, ClearHit, PutGroupHit, ClearGroupHit, DropHit, AddHit,
                          RemoveHit, ChangesHands, Same, PutUser, UserRowOf

LEMMA OwedSame ==
    ASSUME NEW e, NEW s, OwedBy(e, s), log'[e] = log[e],
           UNCHANGED <<users, groups, members, versions, links, scheme>>
    PROVE  OwedBy(e, s)'
<1>1. /\ FindUser(e)' = FindUser(e) /\ FindGroup(e)' = FindGroup(e)
      /\ GroupGate(e)' = GroupGate(e) /\ UserGate(e)' = UserGate(e)
      /\ PutHit(e)' = PutHit(e) /\ PutGone(e)' = PutGone(e) /\ ClearHit(e)' = ClearHit(e)
      /\ PutGroupHit(e)' = PutGroupHit(e) /\ ClearGroupHit(e)' = ClearGroupHit(e)
      /\ DropHit(e)' = DropHit(e) /\ AddHit(e)' = AddHit(e) /\ RemoveHit(e)' = RemoveHit(e)
      /\ ChangesHands(e)' = ChangesHands(e) /\ Same(e)' = Same(e)
  BY LooksSame
<1>2. EdgesOfUser(FindUser(e))' = EdgesOfUser(FindUser(e)) /\ EdgesOfGroup(FindGroup(e))' = EdgesOfGroup(FindGroup(e))
  BY <1>1 DEF EdgesOfUser, EdgesOfGroup
<1> QED
  BY <1>1, <1>2, Zenon DEF OwedBy

-----------------------------------------------------------------------------
(* Stubs *)

LEMMA EventTyped ==
    ASSUME TypeInv, NEW e \in Events
    PROVE  /\ log[e] \in Event /\ EventShape(e)
           /\ log[e].type \in {"user", "deleted", "group", "groupDeleted", "added", "removed"}
           /\ log[e].type \in {"user", "deleted", "added", "removed"} => log[e].user \in Person /\ log[e].key \in Key
           /\ log[e].type \in {"group", "groupDeleted", "added", "removed"} => log[e].group \in Group
<1>1. log[e] \in Event /\ EventShape(e)
  BY DEF TypeInv, TypeOK, Events, EventsShaped
<1>2. \A p \in Person : KeysOf[p] \subseteq Key
  BY PersonAssumption
<1> QED
  BY <1>1, <1>2 DEF Event, EventShape

(* A stub is the row its event finds from then on. *)
LEMMA StubFound ==
    ASSUME TypeInv, NEW e \in Events, log[e].user \in Person, log[e].key \in Key, FindUser(e) = None,
           users' = [users EXCEPT ![NewUserId(e)] = UserRowOf(log[e])], UNCHANGED <<log, scheme>>
    PROVE  FindUser(e)' = NewUserId(e) /\ NewUserId(e)' = NewUserId(e)
<1> DEFINE n == NewUserId(e)
           k == log[e].key
<1>1. TypeOK
  BY DEF TypeInv
<1>2. n \in UserId /\ n = (IF scheme = "dsync" THEN log[e].user ELSE k) /\ n # None
  BY <1>1, FoundUser, NoneAssumption DEF NewUserId, UserId
<1>3. users'[n] = UserRowOf(log[e]) /\ users'[n] # None /\ users'[n].ext = k
      /\ \A i \in UserId : i # n => users'[i] = users[i]
  <2>1. users'[n] = UserRowOf(log[e]) /\ \A i \in UserId : i # n => users'[i] = users[i]
    BY <1>1, <1>2 DEF TypeOK
  <2>2. UserRowOf(log[e]).ext = k
    BY DEF UserRowOf
  <2>3. UserRowOf(log[e]) \in UserRow
    <3>1. log[e].active \in BOOLEAN
      BY EventTyped DEF Event
    <3> QED
      BY <3>1 DEF UserRowOf, UserRow, Name
  <2>4. None \notin UserRow
    BY RowAssumption
  <2> QED
    BY <2>1, <2>2, <2>3, <2>4
<1>4. CASE scheme = "dsync"
  BY <1>2, <1>3, <1>4 DEF FindUser, NewUserId
<1>5. CASE scheme # "dsync"
  <2>1. \A i \in UserId : users[i] # None => users[i].ext # k
    BY <1>1, <1>5, FoundUser
  <2> DEFINE B == {i \in UserId : users'[i] # None /\ users'[i].ext = log'[e].key}
  <2>2. B = {n}
    BY <1>2, <1>3, <2>1
  <2>3. FindUser(e)' = CHOOSE i \in B : TRUE
    BY <1>5, <2>2 DEF FindUser
  <2> QED
    BY <2>2, <2>3, <1>5 DEF NewUserId
<1> QED
  BY <1>4, <1>5

-----------------------------------------------------------------------------
(* One statement of what is owed *)

LEMMA Afters ==
    ASSUME NEW st
    PROVE  /\ st.op = "putUser" => /\ UsersAfter(st) = [users EXCEPT ![st.id] = st.row]
                                    /\ GroupsAfter(st) = groups /\ MembersAfter(st) = members
           /\ st.op = "putGroup" => /\ GroupsAfter(st) = [groups EXCEPT ![st.id] = st.row]
                                     /\ UsersAfter(st) = users /\ MembersAfter(st) = members
           /\ st.op = "dropGroup" => /\ GroupsAfter(st) = [groups EXCEPT ![st.id] = None]
                                      /\ UsersAfter(st) = users /\ MembersAfter(st) = members
           /\ st.op \notin {"putUser", "putGroup", "dropGroup"} =>
                 UsersAfter(st) = users /\ GroupsAfter(st) = groups
  BY DEF UsersAfter, GroupsAfter, MembersAfter

LEMMA PutFields ==
    ASSUME NEW e
    PROVE  /\ PutHit(e).op = "putUser" /\ PutHit(e).id = UserHit(e) /\ PutHit(e).row = UserRowOf(log[e])
           /\ PutGroupHit(e).op = "putGroup" /\ PutGroupHit(e).id = NewGroupId(e)
           /\ PutGroupHit(e).row = [ext |-> GroupKeyOf[log[e].group]]
           /\ PutGone(e).op = "putUser" /\ PutGone(e).id = FindUser(e)
           /\ PutGone(e).row = [users[FindUser(e)] EXCEPT !.ext = log[e].key, !.active = FALSE]
           /\ ClearHit(e).op = "clear" /\ ClearGroupHit(e).op = "clearGroup" /\ AddHit(e).op = "addMember"
           /\ RemoveHit(e).op = "removeMember" /\ DropHit(e).op = "dropGroup" /\ DropHit(e).id = FindGroup(e)
  BY DEF PutHit, PutUser, PutGroupHit, PutGone, ClearHit, ClearGroupHit, AddHit, RemoveHit, DropHit

LEMMA StubGroupFound ==
    ASSUME TypeInv, NEW e \in Events, log[e].group \in Group, FindGroup(e) = None,
           groups' = [groups EXCEPT ![NewGroupId(e)] = [ext |-> GroupKeyOf[log[e].group]]], UNCHANGED <<log, scheme>>
    PROVE  FindGroup(e)' = NewGroupId(e) /\ NewGroupId(e)' = NewGroupId(e)
<1> DEFINE n == NewGroupId(e)
           k == GroupKeyOf[log[e].group]
<1>1. TypeOK
  BY DEF TypeInv
<1>2. n \in GroupId /\ n = (IF scheme = "dsync" THEN log[e].group ELSE k) /\ n # None /\ k \in GroupKey
  BY <1>1, FoundGroup, NoneAssumption DEF NewGroupId, GroupId
<1>3. groups'[n] # None /\ groups'[n].ext = k
      /\ \A i \in GroupId : i # n => groups'[i] = groups[i]
  <2>1. groups'[n] = [ext |-> k] /\ \A i \in GroupId : i # n => groups'[i] = groups[i]
    BY <1>1, <1>2 DEF TypeOK
  <2>2. [ext |-> k] \in GroupRow
    BY <1>2 DEF GroupRow
  <2> QED
    BY <2>1, <2>2, RowAssumption
<1>4. CASE scheme = "dsync"
  BY <1>2, <1>3, <1>4 DEF FindGroup, NewGroupId
<1>5. CASE scheme # "dsync"
  <2>1. \A i \in GroupId : groups[i] # None => groups[i].ext # k
    BY <1>1, <1>5, FoundGroup
  <2> DEFINE B == {i \in GroupId : groups'[i] # None /\ groups'[i].ext = GroupKeyOf[log'[e].group]}
  <2>2. B = {n}
    BY <1>2, <1>3, <2>1
  <2>3. FindGroup(e)' = CHOOSE i \in B : TRUE
    BY <1>5, <2>2 DEF FindGroup
  <2> QED
    BY <2>2, <2>3, <1>5 DEF NewGroupId
<1> QED
  BY <1>4, <1>5

LEMMA GroupGateSame ==
    ASSUME NEW e, UNCHANGED <<log, groups, versions, scheme>>
    PROVE  /\ FindGroup(e)' = FindGroup(e) /\ NewGroupId(e)' = NewGroupId(e) /\ GroupGate(e)' = GroupGate(e)
           /\ GroupHit(e)' = GroupHit(e) /\ PutGroupHit(e)' = PutGroupHit(e)
<1>1. FindGroup(e)' = FindGroup(e) /\ NewGroupId(e)' = NewGroupId(e)
  BY DEF FindGroup, NewGroupId
<1> QED
  BY <1>1 DEF GroupGate, IsNewestAcross, GroupEventScopes, Stable, GroupScopes, GroupHit, PutGroupHit

LEMMA UserGateSame ==
    ASSUME NEW e, UNCHANGED <<log, users, versions, scheme, links>>
    PROVE  /\ FindUser(e)' = FindUser(e) /\ NewUserId(e)' = NewUserId(e) /\ UserGate(e)' = UserGate(e)
           /\ UserHit(e)' = UserHit(e) /\ PutHit(e)' = PutHit(e)
<1>1. FindUser(e)' = FindUser(e) /\ NewUserId(e)' = NewUserId(e)
  BY DEF FindUser, NewUserId
<1> QED
  BY <1>1 DEF UserGate, IsNewestAcross, UserEventScopes, Stable, LinkedUser, CurrentKey, UserScopes,
              UserHit, PutHit, PutUser, UserRowOf

(* The statement at the head takes what is owed to what is owed after it. *)
LEMMA OwedTail ==
    ASSUME TypeInv, NEW e \in Events, NEW s, OwedBy(e, s),
           users' = UsersAfter(Head(s)), groups' = GroupsAfter(Head(s)), members' = MembersAfter(Head(s)),
           UNCHANGED <<log, scheme, links, versions>>
    PROVE  Tail(s) = <<>> \/ OwedBy(e, Tail(s))'
<1> DEFINE type == log[e].type
<1>a. log'[e] = log[e]
  OBVIOUS
<1>1. CASE type = "user" /\ ~Same(e) /\ ChangesHands(e) /\ s = <<ClearHit(e), PutHit(e)>>
  <2>1. Head(s) = ClearHit(e) /\ Tail(s) = <<PutHit(e)>>
    BY <1>1, Tuples
  <2>2. UNCHANGED <<users, groups>> /\ members' = members \ EdgesOfUser(FindUser(e))
    BY <2>1 DEF ClearHit, UsersAfter, GroupsAfter, MembersAfter
  <2>3. FindUser(e)' = FindUser(e) /\ PutHit(e)' = PutHit(e) /\ Same(e)' = Same(e)
    BY <2>2, LooksSame
  <2>4. EdgesOfUser(FindUser(e))' = {}
    BY <2>2, <2>3 DEF EdgesOfUser
  <2> QED
    BY <1>1, <1>a, <2>1, <2>3, <2>4, Zenon DEF OwedBy
<1>2. CASE \E x : s = <<x>>
  BY <1>2, Tuples
<1>3. CASE type = "groupDeleted" /\ FindGroup(e) # None /\ s = <<ClearGroupHit(e), DropHit(e)>>
  <2>1. Head(s) = ClearGroupHit(e) /\ Tail(s) = <<DropHit(e)>>
    BY <1>3, Tuples
  <2>2. UNCHANGED <<users, groups>> /\ members' = members \ EdgesOfGroup(FindGroup(e))
    BY <2>1 DEF ClearGroupHit, UsersAfter, GroupsAfter, MembersAfter
  <2>3. FindGroup(e)' = FindGroup(e) /\ DropHit(e)' = DropHit(e)
    BY <2>2, LooksSame
  <2>4. EdgesOfGroup(FindGroup(e))' = {}
    BY <2>2, <2>3 DEF EdgesOfGroup
  <2> QED
    BY <1>3, <1>a, <2>1, <2>3, <2>4, Zenon DEF OwedBy
<1> DEFINE add == type = "added" /\ GroupGate(e) /\ UserGate(e)
<1>4. CASE add /\ FindUser(e) = None /\ (s = <<PutHit(e), PutGroupHit(e), AddHit(e)>> \/ s = <<PutHit(e), AddHit(e)>>)
  <2>0. log[e].user \in Person /\ log[e].key \in Key
    BY <1>4, EventTyped
  <2>1. Head(s) = PutHit(e)
    BY <1>4, Tuples
  <2>2. users' = [users EXCEPT ![NewUserId(e)] = UserRowOf(log[e])] /\ UNCHANGED <<groups, members>>
    <3>1. UserHit(e) = NewUserId(e)
      BY <1>4 DEF UserHit
    <3>2. /\ UsersAfter(PutHit(e)) = [users EXCEPT ![PutHit(e).id] = PutHit(e).row]
          /\ GroupsAfter(PutHit(e)) = groups /\ MembersAfter(PutHit(e)) = members
      <4> DEFINE st == PutHit(e)
      <4>1. st.op = "putUser"
        BY PutFields
      <4> HIDE DEF st
      <4>2. /\ UsersAfter(st) = [users EXCEPT ![st.id] = st.row]
            /\ GroupsAfter(st) = groups /\ MembersAfter(st) = members
        BY <4>1, Afters
      <4> QED
        BY <4>2 DEF st
    <3>3. users' = UsersAfter(PutHit(e)) /\ groups' = GroupsAfter(PutHit(e)) /\ members' = MembersAfter(PutHit(e))
      BY <2>1
    <3>4. PutHit(e).id = NewUserId(e) /\ PutHit(e).row = UserRowOf(log[e])
      BY <3>1, PutFields
    <3>5. users' = [users EXCEPT ![NewUserId(e)] = UserRowOf(log[e])]
      BY <3>2, <3>3, <3>4, Zenon
    <3>6. groups' = groups /\ members' = members
      BY <3>2, <3>3, Zenon
    <3> QED
      BY <3>5, <3>6
  <2>3. FindUser(e)' = NewUserId(e) /\ NewUserId(e) # None
    BY <1>4, <2>0, <2>2, StubFound, FoundUser, NoneAssumption DEF TypeInv, UserId
  <2>4. /\ FindGroup(e)' = FindGroup(e) /\ GroupGate(e)' = GroupGate(e)
        /\ GroupHit(e)' = GroupHit(e) /\ PutGroupHit(e)' = PutGroupHit(e)
    BY <2>2, GroupGateSame
  <2>5. UserGate(e)' /\ UserHit(e)' = UserHit(e)
    BY <1>4, <2>3 DEF UserGate, UserHit
  <2>6. AddHit(e)' = AddHit(e)
    BY <2>4, <2>5 DEF AddHit
  <2>7. CASE s = <<PutHit(e), PutGroupHit(e), AddHit(e)>>
    <3>1. Tail(s) = <<PutGroupHit(e), AddHit(e)>>
      BY <2>7, Tuples
    <3>2. CASE FindGroup(e) = None
      BY <1>4, <1>a, <2>3, <2>4, <2>5, <2>6, <3>1, <3>2, Zenon DEF OwedBy
    <3>3. CASE FindGroup(e) # None
      <4>1. PutHit(e).op = "putUser" /\ AddHit(e).op = "addMember" /\ PutGroupHit(e).op = "putGroup"
        BY DEF PutHit, PutUser, AddHit, PutGroupHit
      <4>2. s # <<PutHit(e), AddHit(e)>>
        <5> DEFINE a == PutHit(e)
                   b == PutGroupHit(e)
                   c == AddHit(e)
        <5> HIDE DEF a, b, c
        <5>1. <<a, b, c>> # <<a, c>>
          OBVIOUS
        <5> QED
          BY <2>7, <5>1 DEF a, b, c
      <4>3. FALSE
        <5>1. s[2] = PutGroupHit(e)
          BY <2>7
        <5>2. s # <<AddHit(e)>>
          <6> DEFINE a == PutHit(e)
                     b == PutGroupHit(e)
                     c == AddHit(e)
          <6> HIDE DEF a, b, c
          <6>1. <<a, b, c>> # <<c>>
            OBVIOUS
          <6> QED
            BY <2>7, <6>1 DEF a, b, c
        <5> QED
          BY <1>4, <3>3, <4>2, <5>2 DEF OwedBy
      <4> QED
        BY <4>3
    <3> QED
      BY <3>2, <3>3
  <2>8. CASE s = <<PutHit(e), AddHit(e)>>
    <3>1. Tail(s) = <<AddHit(e)>>
      BY <2>8, Tuples
    <3>2. FindGroup(e) # None
      BY <1>4, <2>8 DEF OwedBy
    <3> QED
      BY <1>4, <1>a, <2>3, <2>4, <2>5, <2>6, <3>1, <3>2, Zenon DEF OwedBy
  <2> QED
    BY <1>4, <2>7, <2>8
<1>5. CASE add /\ FindUser(e) # None /\ FindGroup(e) = None /\ s = <<PutGroupHit(e), AddHit(e)>>
  <2>0. log[e].group \in Group
    BY <1>5, EventTyped
  <2>1. Head(s) = PutGroupHit(e) /\ Tail(s) = <<AddHit(e)>>
    BY <1>5, Tuples
  <2>2. groups' = [groups EXCEPT ![NewGroupId(e)] = [ext |-> GroupKeyOf[log[e].group]]] /\ UNCHANGED <<users, members>>
    <3>2. /\ GroupsAfter(PutGroupHit(e)) = [groups EXCEPT ![PutGroupHit(e).id] = PutGroupHit(e).row]
          /\ UsersAfter(PutGroupHit(e)) = users /\ MembersAfter(PutGroupHit(e)) = members
      <4> DEFINE st == PutGroupHit(e)
      <4>1. st.op = "putGroup"
        BY PutFields
      <4> HIDE DEF st
      <4>2. /\ GroupsAfter(st) = [groups EXCEPT ![st.id] = st.row]
            /\ UsersAfter(st) = users /\ MembersAfter(st) = members
        BY <4>1, Afters
      <4> QED
        BY <4>2 DEF st
    <3>3. /\ users' = UsersAfter(PutGroupHit(e)) /\ groups' = GroupsAfter(PutGroupHit(e))
          /\ members' = MembersAfter(PutGroupHit(e))
      BY <2>1
    <3>4. PutGroupHit(e).id = NewGroupId(e) /\ PutGroupHit(e).row = [ext |-> GroupKeyOf[log[e].group]]
      BY PutFields
    <3>5. groups' = [groups EXCEPT ![NewGroupId(e)] = [ext |-> GroupKeyOf[log[e].group]]]
      BY <3>2, <3>3, <3>4, Zenon
    <3>6. users' = users /\ members' = members
      BY <3>2, <3>3, Zenon
    <3> QED
      BY <3>5, <3>6
  <2>3. FindGroup(e)' = NewGroupId(e) /\ NewGroupId(e) # None
    BY <1>5, <2>0, <2>2, StubGroupFound, FoundGroup, NoneAssumption DEF TypeInv, GroupId
  <2>4. /\ FindUser(e)' = FindUser(e) /\ UserGate(e)' = UserGate(e) /\ UserHit(e)' = UserHit(e)
    BY <2>2, UserGateSame
  <2>5. GroupGate(e)' /\ GroupHit(e)' = GroupHit(e)
    BY <1>5, <2>3 DEF GroupGate, GroupHit
  <2>6. AddHit(e)' = AddHit(e)
    BY <2>4, <2>5 DEF AddHit
  <2> QED
    BY <1>5, <1>a, <2>1, <2>3, <2>4, <2>5, <2>6, Zenon DEF OwedBy
<1> QED
  BY <1>1, <1>2, <1>3, <1>4, <1>5 DEF OwedBy

-----------------------------------------------------------------------------
(* FlightInv is an invariant *)

LEMMA InitFlight == Init => FlightInv
  BY DEF Init, FlightInv, Fresh, Owed, Idle

LEMMA FlightSame ==
    ASSUME TypeInv, FlightInv, UNCHANGED <<run, versions, links, scheme, users, groups, members>>,
           \A e \in Events : log'[e] = log[e]
    PROVE  FlightInv'
<1> SUFFICES ASSUME NEW h \in Handler PROVE Fresh(h)' /\ Owed(h)'
  BY DEF FlightInv
<1>1. Fresh(h) /\ Owed(h) /\ Shaped(h)
  BY RunOf DEF FlightInv
<1>2. Fresh(h)'
  BY <1>1 DEF Fresh, Dry, Superseded
<1>3. Owed(h)'
  <2>1. SUFFICES ASSUME run[h].pc = "write", ~Dry(h)
                 PROVE  \E s \in Seq(Statement) : OwedBy(run[h].event, s)' /\ run[h].todo = s \o Rest(h)
    BY DEF Owed, Dry, Rest
  <2>2. PICK s \in Seq(Statement) : OwedBy(run[h].event, s) /\ run[h].todo = s \o Rest(h)
    BY <1>1, <2>1 DEF Owed
  <2>3. run[h].event \in Events
    BY <1>1, <2>1 DEF Shaped
  <2>4. OwedBy(run[h].event, s)'
    BY <2>2, <2>3, OwedSame
  <2> QED
    BY <2>2, <2>4
<1> QED
  BY <1>2, <1>3

LEMMA EmitFlight ==
    ASSUME TypeInv, FlightInv, NEW ev \in Event, Emit(ev), Change(ev)
    PROVE  FlightInv'
<1>1. PICK n \in Nat : n = Len(log) /\ Events = 1..n /\ \A e \in 1..n : log'[e] = log[e]
  BY EmitLog
<1>2. UNCHANGED <<scheme, live, links, versions, run>>
  BY DEF Emit, ledger
<1>3. CASE live
  <2>1. UNCHANGED <<users, groups, members>>
    BY <1>3 DEF Emit, DirectWrite, native
  <2> QED
    BY <1>1, <1>2, <2>1, FlightSame
<1>4. CASE ~live
  <2> SUFFICES ASSUME NEW h \in Handler PROVE Fresh(h)' /\ Owed(h)'
    BY DEF FlightInv
  <2>1. Fresh(h) /\ Shaped(h)
    BY RunOf DEF FlightInv
  <2>2. Fresh(h)'
    BY <1>2, <2>1 DEF Fresh, Dry, Superseded
  <2>3. run[h].pc = "write" => Dry(h)
    BY <1>4, <2>1 DEF Shaped, Dry
  <2>4. Owed(h)'
    BY <1>2, <2>3 DEF Owed, Dry
  <2> QED
    BY <2>2, <2>4
<1> QED
  BY <1>3, <1>4

LEMMA DeliverFlight ==
    ASSUME TypeInv, NEW h \in Handler, NEW e \in 1..Len(log), Deliver(h, e)
    PROVE  Fresh(h)' /\ Owed(h)'
<1>c. PICK scopes : scopes = SetToSeq(EventScopes(e))
  OBVIOUS
<1> DEFINE r == IF ~live
          THEN [pc |-> "write", event |-> e, scopes |-> scopes,
                todo |-> RecordVersions(scopes) \o RecordEvent("ignored")]
          ELSE IF ~IsNewestAcross(EventScopes(e), e)
          THEN [pc |-> "write", event |-> e, scopes |-> scopes,
                todo |-> RecordEvent("processed")]
          ELSE [pc |-> "resolve", event |-> e, scopes |-> scopes, todo |-> <<>>]
<1>0. TypeOK /\ EventsShaped /\ e \in Events
  BY DEF TypeInv, Events
<1>1. scopes \in Seq(Scope) /\ ToSet(scopes) = EventScopes(e)
  BY <1>0, <1>c, SeqOfScopes
<1>2. run' = [run EXCEPT ![h] = r] /\ versions' = versions
  BY <1>c DEF Deliver, ledger
<1>3. run'[h] = r
  BY <1>2, RunOf
<1> DEFINE s == RecordVersions(scopes) \o RecordEvent("ignored")
           t == RecordEvent("processed")
<1>4. (\A i \in 1..Len(s) : ~Native(s[i])) /\ (\A i \in 1..Len(t) : ~Native(t[i]))
  BY <1>1, RestShape, RecordShape
<1> HIDE DEF s, t
<1>5. CASE r.pc = "write"
  <2>1. r.todo = s \/ r.todo = t
    BY <1>5 DEF s, t
  <2> HIDE DEF r
  <2>2. Dry(h)'
    BY <1>3, <1>4, <2>1 DEF Dry, Native
  <2> QED
    BY <1>3, <1>5, <2>2 DEF Fresh, Owed
<1>6. CASE r.pc # "write"
  <2>1. r.pc = "resolve" /\ r.event = e /\ r.scopes = scopes /\ IsNewestAcross(EventScopes(e), e)
    BY <1>6
  <2> HIDE DEF r
  <2>2. \A x \in ToSet(scopes) : x \in Scope /\ versions[x] \in Nat /\ e >= versions[x]
    <3>1. EventScopes(e) \subseteq Scope
      BY <1>0, ScopesAreScopes
    <3>2. versions \in [Scope -> 0..MaxEvents]
      BY <1>0 DEF TypeOK
    <3> QED
      BY <1>1, <2>1, <3>1, <3>2, BoundAssumption DEF IsNewestAcross
  <2>3. ~\E x \in ToSet(scopes) : versions[x] > e
    BY <2>2, <1>0 DEF Events
  <2>4. ~Superseded(e, ToSet(scopes))'
    BY <1>2, <2>3 DEF Superseded
  <2> QED
    BY <1>3, <2>1, <2>4 DEF Fresh, Owed
<1> QED
  BY <1>5, <1>6

LEMMA ResolveFlight ==
    ASSUME TypeInv, NEW h \in Handler, Fresh(h), Resolve(h)
    PROVE  Fresh(h)' /\ Owed(h)'
<1>1. versions' = versions /\ run[h].pc = "resolve"
  BY DEF Resolve, ledger
<1>2. \/ run' = [run EXCEPT ![h] = [run[h] EXCEPT !.pc = "plan"]]
      \/ run' = [run EXCEPT ![h] = Idle]
  BY DEF Resolve
<1>3. run'[h] = [run[h] EXCEPT !.pc = "plan"] \/ run'[h] = Idle
  BY <1>2, RunOf
<1>4. run[h] \in Run(Len(log))
  BY RunOf
<1>5. run'[h].pc \in {"plan", "idle"} /\ (run'[h].pc = "plan" => run'[h].event = run[h].event /\ run'[h].scopes = run[h].scopes)
  BY <1>3, <1>4 DEF Run, Idle
<1> QED
  BY <1>1, <1>5 DEF Fresh, Owed, Superseded

LEMMA PlanFlight ==
    ASSUME TypeInv, NEW h \in Handler, Fresh(h), Plan(h)
    PROVE  Fresh(h)' /\ Owed(h)'
<1>c. PICK e, a, todo : /\ e = run[h].event /\ a = ApplyEvent(run[h].event)
                        /\ todo = ApplyEvent(run[h].event) \o RecordVersions(run[h].scopes) \o RecordEvent("processed")
  OBVIOUS
<1> DEFINE r == [run[h] EXCEPT !.pc = "write", !.todo = todo]
<1>0. TypeOK /\ EventsShaped /\ Shaped(h) /\ run[h] \in Run(Len(log)) /\ run[h].pc = "plan"
  BY RunOf DEF TypeInv, Plan
<1>1. e \in Events
  BY <1>0, <1>c DEF Shaped
<1>2. a \in Seq(Statement)
  BY <1>0, <1>1, <1>c, ApplyTyped
<1>3. /\ RecordVersions(run[h].scopes) \in Seq(Statement) /\ RecordEvent("processed") \in Seq(Statement)
      /\ todo = a \o Rest(h)
  <2>1. run[h].scopes \in Seq(Scope)
    BY RunOf
  <2>2. RecordVersions(run[h].scopes) \in Seq(Statement) /\ RecordEvent("processed") \in Seq(Statement)
    BY <2>1, RestTyped
  <2>3. PICK x, y : x = RecordVersions(run[h].scopes) /\ y = RecordEvent("processed")
    OBVIOUS
  <2>4. x \in Seq(Statement) /\ y \in Seq(Statement) /\ todo = (a \o x) \o y
    BY <1>c, <2>2, <2>3
  <2>5. todo = a \o (x \o y)
    BY <1>2, <2>4, Associates
  <2>6. Rest(h) = x \o y
    BY <2>3 DEF Rest
  <2> QED
    BY <2>2, <2>5, <2>6
<1>4. run' = [run EXCEPT ![h] = r] /\ UNCHANGED <<log, users, groups, members, versions, links, scheme>>
  BY <1>c DEF Plan, workos, native, ledger
<1>5. run'[h] = r
  BY <1>4, RunOf
<1>6. r.pc = "write" /\ r.event = e /\ r.scopes = run[h].scopes /\ r.todo = todo
  BY <1>0, <1>c DEF Run
<1> HIDE DEF r
<1>7. Fresh(h)'
  BY <1>0, <1>4, <1>5, <1>6, <1>c DEF Fresh, Superseded
<1>8. Rest(h)' = Rest(h)
  BY <1>5, <1>6 DEF Rest, RecordVersions, RecordEvent
<1>9. a = <<>> \/ OwedBy(e, a)
  BY <1>1, <1>c, ApplyForms, EventTyped, Zenon DEF OwedBy
<1>10. Owed(h)'
  <2>1. CASE a = <<>>
    <3> DEFINE t == Rest(h)
    <3>1. t \in Seq(Statement) /\ \A i \in 1..Len(t) : ~Native(t[i])
      BY RestIsDry
    <3> HIDE DEF t
    <3>2. todo = t
      <4>1. <<>> \o t = t
        BY <3>1
      <4> QED
        BY <1>3, <2>1, <4>1 DEF t
    <3>3. Dry(h)'
      BY <1>5, <1>6, <3>1, <3>2 DEF Dry, Native
    <3> QED
      BY <3>3 DEF Owed
  <2>2. CASE OwedBy(e, a)
    <3>1. OwedBy(e, a)'
      BY <1>4, <2>2, OwedSame
    <3>2. run'[h].event = e /\ run'[h].todo = a \o Rest(h)'
      BY <1>3, <1>5, <1>6, <1>8
    <3> QED
      BY <1>2, <3>1, <3>2 DEF Owed
  <2> QED
    BY <1>9, <2>1, <2>2
<1> QED
  BY <1>7, <1>10

LEMMA WriteFlight ==
    ASSUME TypeInv, NEW h \in Handler, Fresh(h), Owed(h), Write(h)
    PROVE  Fresh(h)' /\ Owed(h)'
<1>c. PICK e, st : e = run[h].event /\ st = Head(run[h].todo)
  OBVIOUS
<1> DEFINE t == run[h].todo
<1>1. /\ run[h].pc = "write"
      /\ \/ Len(t) = 1 /\ run'[h] = Idle
         \/ Len(t) > 1 /\ run'[h] = [run[h] EXCEPT !.todo = Tail(t)]
  BY WriteNext
<1>2. CASE run'[h] = Idle
  BY <1>2 DEF Fresh, Owed, Idle
<1>3. CASE run'[h] = [run[h] EXCEPT !.todo = Tail(t)]
  <2>1. run[h] \in Run(Len(log))
    BY RunOf
  <2> DEFINE u == Tail(t)
  <2> HIDE DEF u
  <2>2. run'[h].pc = "write" /\ run'[h].event = e /\ run'[h].scopes = run[h].scopes /\ run'[h].todo = u
    BY <1>1, <1>3, <1>c, <2>1 DEF Run, u
  <2>3. Rest(h)' = Rest(h)
    BY <2>2 DEF Rest, RecordVersions, RecordEvent
  <2>4. CASE Dry(h)
    <3>1. \A i \in 1..Len(u) : ~Native(u[i])
      BY <1>1, <2>4, DryHead DEF u
    <3>2. Dry(h)'
      BY <2>2, <3>1 DEF Dry, Native
    <3> QED
      BY <2>2, <3>2 DEF Fresh, Owed
  <2>5. CASE ~Dry(h)
    <3>1. PICK s \in Seq(Statement) :
              /\ OwedBy(e, s) /\ s # <<>> /\ Native(Head(s)) /\ st = Head(s)
              /\ u = Tail(s) \o Rest(h) /\ Tail(s) \in Seq(Statement)
      BY <1>1, <1>c, <2>5, OwedHead DEF u
    <3>2. UNCHANGED <<log, scheme, links>>
      BY DEF Write, workos
    <3>3. versions' = versions
      <4>1. versions' = VersionsAfter(st, e)
        BY <1>c DEF Write
      <4>2. st.op # "version"
        BY <3>1 DEF Native
      <4> QED
        BY <4>1, <4>2 DEF VersionsAfter
    <3>4. Fresh(h)'
      <4>1. ~Superseded(e, ToSet(run[h].scopes))
        BY <1>1, <1>c, <2>5 DEF Fresh
      <4> QED
        BY <2>2, <3>3, <4>1 DEF Fresh, Superseded
    <3>5. Tail(s) = <<>> \/ OwedBy(e, Tail(s))'
      <4>1. users' = UsersAfter(Head(s)) /\ groups' = GroupsAfter(Head(s)) /\ members' = MembersAfter(Head(s))
        BY <1>c, <3>1 DEF Write
      <4>2. e \in Events
        BY <1>1, <1>c, WriteParts DEF Events
      <4> QED
        BY <3>1, <3>2, <3>3, <4>1, <4>2, OwedTail
    <3>6. CASE Tail(s) = <<>>
      <4> DEFINE v == Rest(h)
      <4>1. v \in Seq(Statement) /\ \A i \in 1..Len(v) : ~Native(v[i])
        BY RestIsDry
      <4> HIDE DEF v
      <4>2. u = v
        <5>1. <<>> \o v = v
          BY <4>1
        <5> QED
          BY <3>1, <3>6, <5>1 DEF v
      <4>3. Dry(h)'
        BY <2>2, <4>1, <4>2 DEF Dry, Native
      <4> QED
        BY <3>4, <4>3 DEF Owed
    <3>7. CASE OwedBy(e, Tail(s))'
      <4>1. run'[h].event = e /\ run'[h].todo = Tail(s) \o Rest(h)'
        BY <2>2, <2>3, <3>1
      <4> QED
        BY <3>1, <3>4, <3>7, <4>1 DEF Owed
    <3> QED
      BY <3>5, <3>6, <3>7
  <2> QED
    BY <2>4, <2>5
<1> QED
  BY <1>1, <1>2, <1>3

LEMMA StepFlight ==
    ASSUME Single, TypeInv, FlightInv, [Next]_vars
    PROVE  FlightInv'
<1>1. CASE WorkosStep
  <2>1. PICK ev \in Event : Emit(ev) /\ Change(ev)
    BY <1>1, WorkosChanges DEF TypeInv
  <2> QED
    BY <2>1, EmitFlight
<1>2. CASE Cutover \/ UNCHANGED vars
  BY <1>2, FlightSame DEF Cutover, vars, workos, native, ledger, TypeInv, TypeOK
<1>3. ASSUME NEW h \in Handler, Fresh(h)' /\ Owed(h)' PROVE FlightInv'
  <2>1. \A h2 \in Handler : h2 = h
    BY DEF Single
  <2> QED
    BY <1>3, <2>1 DEF FlightInv
<1>4. ASSUME NEW h \in Handler, HandlerStep(h) \/ Fault(h) PROVE FlightInv'
  <2>1. Fresh(h) /\ Owed(h)
    BY DEF FlightInv
  <2>2. CASE Resolve(h)
    BY <1>3, <2>1, <2>2, ResolveFlight
  <2>3. CASE Plan(h)
    BY <1>3, <2>1, <2>3, PlanFlight
  <2>4. CASE Write(h)
    BY <1>3, <2>1, <2>4, WriteFlight
  <2>5. CASE WriteRefused(h) \/ Fault(h)
    <3>1. run' = [run EXCEPT ![h] = Idle]
      BY <2>5 DEF WriteRefused, Fault
    <3>2. run'[h] = Idle
      BY <3>1, RunOf
    <3>3. Fresh(h)' /\ Owed(h)'
      BY <3>2 DEF Fresh, Owed, Idle
    <3> QED
      BY <1>3, <3>3
  <2> QED
    BY <1>4, <2>2, <2>3, <2>4, <2>5 DEF HandlerStep
<1>5. ASSUME NEW h \in Handler, NEW e \in 1..Len(log), Deliver(h, e) PROVE FlightInv'
  BY <1>3, <1>5, DeliverFlight
<1> QED
  BY <1>1, <1>2, <1>4, <1>5 DEF Next

-----------------------------------------------------------------------------
(* The statement a delivery is at *)

(* The statement an event is at, and when. *)
Heads(e, st, last) ==
    LET type == log[e].type IN
    \/ type = "user" /\ ~last /\ ChangesHands(e) /\ st = ClearHit(e)
    \/ type = "user" /\ last /\ ~Same(e) /\ (ChangesHands(e) => EdgesOfUser(FindUser(e)) = {}) /\ st = PutHit(e)
    \/ type = "deleted" /\ last /\ FindUser(e) # None /\ st = PutGone(e)
    \/ type = "group" /\ last /\ FindGroup(e) = None /\ st = PutGroupHit(e)
    \/ type = "groupDeleted" /\ ~last /\ FindGroup(e) # None /\ st = ClearGroupHit(e)
    \/ type = "groupDeleted" /\ last /\ FindGroup(e) # None /\ EdgesOfGroup(FindGroup(e)) = {} /\ st = DropHit(e)
    \/ type = "added" /\ ~last /\ GroupGate(e) /\ UserGate(e) /\ FindUser(e) = None /\ st = PutHit(e)
    \/ /\ type = "added" /\ ~last /\ GroupGate(e) /\ UserGate(e)
       /\ FindUser(e) # None /\ FindGroup(e) = None /\ st = PutGroupHit(e)
    \/ /\ type = "added" /\ last /\ GroupGate(e) /\ UserGate(e)
       /\ FindUser(e) # None /\ FindGroup(e) # None /\ st = AddHit(e)
    \/ type = "removed" /\ last /\ FindUser(e) # None /\ FindGroup(e) # None /\ st = RemoveHit(e)

LEMMA OneTuple ==
    ASSUME NEW a, NEW b, NEW c
    PROVE  /\ Head(<<a>>) = a /\ Tail(<<a>>) = <<>>
           /\ Head(<<a, b>>) = a /\ Tail(<<a, b>>) # <<>>
           /\ Head(<<a, b, c>>) = a /\ Tail(<<a, b, c>>) # <<>>
<1>1. Tail(<<a>>) = <<>> /\ Tail(<<a, b>>) = <<b>> /\ Tail(<<a, b, c>>) = <<b, c>>
  BY Tuples
<1>2. <<b>> # <<>> /\ <<b, c>> # <<>>
  OBVIOUS
<1> QED
  BY <1>1, <1>2, Tuples

LEMMA OwedHeads ==
    ASSUME NEW e, NEW s, OwedBy(e, s)
    PROVE  Heads(e, Head(s), Tail(s) = <<>>)
<1> DEFINE type == log[e].type
<1>1. CASE type = "user" /\ ~Same(e) /\ ChangesHands(e) /\ s = <<ClearHit(e), PutHit(e)>>
  <2>1. Head(s) = ClearHit(e) /\ Tail(s) # <<>>
    BY <1>1, OneTuple
  <2> QED
    BY <1>1, <2>1 DEF Heads
<1>2. CASE type = "user" /\ ~Same(e) /\ (ChangesHands(e) => EdgesOfUser(FindUser(e)) = {}) /\ s = <<PutHit(e)>>
  <2>1. Head(s) = PutHit(e) /\ Tail(s) = <<>>
    BY <1>2, OneTuple
  <2> QED
    BY <1>2, <2>1 DEF Heads
<1>3. CASE type = "deleted" /\ FindUser(e) # None /\ s = <<PutGone(e)>>
  <2>1. Head(s) = PutGone(e) /\ Tail(s) = <<>>
    BY <1>3, OneTuple
  <2> QED
    BY <1>3, <2>1 DEF Heads
<1>4. CASE type = "group" /\ FindGroup(e) = None /\ s = <<PutGroupHit(e)>>
  <2>1. Head(s) = PutGroupHit(e) /\ Tail(s) = <<>>
    BY <1>4, OneTuple
  <2> QED
    BY <1>4, <2>1 DEF Heads
<1>5. CASE type = "groupDeleted" /\ FindGroup(e) # None /\ s = <<ClearGroupHit(e), DropHit(e)>>
  <2>1. Head(s) = ClearGroupHit(e) /\ Tail(s) # <<>>
    BY <1>5, OneTuple
  <2> QED
    BY <1>5, <2>1 DEF Heads
<1>6. CASE type = "groupDeleted" /\ FindGroup(e) # None /\ EdgesOfGroup(FindGroup(e)) = {} /\ s = <<DropHit(e)>>
  <2>1. Head(s) = DropHit(e) /\ Tail(s) = <<>>
    BY <1>6, OneTuple
  <2> QED
    BY <1>6, <2>1 DEF Heads
<1> DEFINE add == type = "added" /\ GroupGate(e) /\ UserGate(e)
<1>7. CASE add /\ FindUser(e) = None /\ s = <<PutHit(e), PutGroupHit(e), AddHit(e)>>
  <2>1. Head(s) = PutHit(e) /\ Tail(s) # <<>>
    BY <1>7, OneTuple
  <2> QED
    BY <1>7, <2>1 DEF Heads
<1>8. CASE add /\ FindUser(e) = None /\ s = <<PutHit(e), AddHit(e)>>
  <2>1. Head(s) = PutHit(e) /\ Tail(s) # <<>>
    BY <1>8, OneTuple
  <2> QED
    BY <1>8, <2>1 DEF Heads
<1>9. CASE add /\ FindUser(e) # None /\ FindGroup(e) = None /\ s = <<PutGroupHit(e), AddHit(e)>>
  <2>1. Head(s) = PutGroupHit(e) /\ Tail(s) # <<>>
    BY <1>9, OneTuple
  <2> QED
    BY <1>9, <2>1 DEF Heads
<1>10. CASE add /\ FindUser(e) # None /\ FindGroup(e) # None /\ s = <<AddHit(e)>>
  <2>1. Head(s) = AddHit(e) /\ Tail(s) = <<>>
    BY <1>10, OneTuple
  <2> QED
    BY <1>10, <2>1 DEF Heads
<1>11. CASE type = "removed" /\ FindUser(e) # None /\ FindGroup(e) # None /\ s = <<RemoveHit(e)>>
  <2>1. Head(s) = RemoveHit(e) /\ Tail(s) = <<>>
    BY <1>11, OneTuple
  <2> QED
    BY <1>11, <2>1 DEF Heads
<1> QED
  BY <1>1, <1>2, <1>3, <1>4, <1>5, <1>6, <1>7, <1>8, <1>9, <1>10, <1>11, Zenon DEF OwedBy

LEMMA OwedShapeNext ==
    ASSUME NEW e, NEW s
    PROVE  OwedBy(e, s)' => s # <<>> /\ Native(Head(s))
<1>1. OwedBy(e, s) => s # <<>> /\ Native(Head(s))
  BY OwedShape
<1>2. (OwedBy(e, s) => s # <<>> /\ Native(Head(s)))'
  BY <1>1, PTL
<1> QED
  BY <1>2 DEF Native

(* A statement that touches the rows. *)
LEMMA WriteHeads ==
    ASSUME TypeInv, NEW h \in Handler, Owed(h), Write(h), ~Dry(h), NEW e, e = run[h].event
    PROVE  /\ e \in Events /\ live /\ Heads(e, Head(run[h].todo), Dry(h)')
           /\ Native(Head(run[h].todo)) /\ UNCHANGED <<log, scheme, live, links, versions, processed, ignored>>
           /\ run'[h].pc = "write" /\ run'[h].event = e /\ run'[h].scopes = run[h].scopes
<1> DEFINE t == run[h].todo
<1>c. PICK st, u : st = Head(run[h].todo) /\ u = Tail(run[h].todo)
  OBVIOUS
<1>1. /\ run[h].pc = "write"
      /\ \/ Len(t) = 1 /\ run'[h] = Idle
         \/ Len(t) > 1 /\ run'[h] = [run[h] EXCEPT !.todo = Tail(t)]
  BY WriteNext
<1>2. PICK s \in Seq(Statement) :
              /\ OwedBy(e, s) /\ s # <<>> /\ Native(Head(s)) /\ st = Head(s)
              /\ u = Tail(s) \o Rest(h) /\ Tail(s) \in Seq(Statement) /\ Len(run[h].todo) > 1
  BY <1>1, <1>c, OwedHead
<1>3. Heads(e, st, Tail(s) = <<>>)
  BY <1>2, OwedHeads
<1>4. UNCHANGED <<log, scheme, live, links>>
  BY DEF Write, workos
<1>5. UNCHANGED <<versions, processed, ignored>>
  <2>1. versions' = VersionsAfter(st, e)
    BY <1>c DEF Write
  <2>2. st.op # "version" /\ st.op # "record"
    BY <1>2 DEF Native
  <2> QED
    BY <1>c, <2>1, <2>2 DEF VersionsAfter, Write
<1>6. /\ e \in Events /\ run[h].todo[1] = st /\ Len(run[h].todo) \in Nat
      /\ \A i \in 1..Len(run[h].todo) : Native(run[h].todo[i]) => live
  BY <1>1, <1>c, WriteParts DEF Events
<1>7. live
  <2>1. 1 \in 1..Len(run[h].todo)
    BY <1>2, <1>6
  <2> QED
    BY <1>2, <1>6, <2>1
<1>8. run'[h].pc = "write" /\ run'[h].event = e /\ run'[h].scopes = run[h].scopes /\ run'[h].todo = u
  <2>1. run[h] \in Run(Len(log))
    BY RunOf
  <2>2. Len(t) # 1
    <3>1. PICK n : n = Len(run[h].todo)
      OBVIOUS
    <3>2. n \in Nat /\ n > 1
      BY <1>2, <1>6, <3>1
    <3>3. n # 1
      BY <3>2
    <3> QED
      BY <3>1, <3>3
  <2>3. run'[h] = [run[h] EXCEPT !.todo = u]
    BY <1>1, <1>c, <2>2
  <2> QED
    BY <1>1, <2>1, <2>3 DEF Run
<1>9. Dry(h)' <=> Tail(s) = <<>>
  <2>1. PICK v : v = Rest(h)
    OBVIOUS
  <2>2. v \in Seq(Statement) /\ Len(v) \in Nat /\ \A i \in 1..Len(v) : ~Native(v[i])
    BY <2>1, RestIsDry
  <2>3. CASE Tail(s) = <<>>
    <3>1. u = v
      <4>1. <<>> \o v = v
        BY <2>2
      <4> QED
        BY <1>2, <2>1, <2>3, <4>1
    <3> QED
      BY <1>8, <2>2, <2>3, <3>1 DEF Dry, Native
  <2>4. CASE Tail(s) # <<>>
    <3>1. OwedBy(e, Tail(s))'
      <4>1. users' = UsersAfter(Head(s)) /\ groups' = GroupsAfter(Head(s)) /\ members' = MembersAfter(Head(s))
        BY <1>2, <1>c DEF Write
      <4> QED
        BY <1>2, <1>4, <1>5, <1>6, <2>4, <4>1, OwedTail
    <3>2. PICK w : w = Tail(s)
      OBVIOUS
    <3>3. OwedBy(e, w)'
      BY <3>1, <3>2
    <3>4. Native(Head(w))
      BY <3>3, OwedShapeNext
    <3>5. w \in Seq(Statement) /\ w # <<>> /\ Head(w \o v) = Head(w) /\ w \o v # <<>> /\ w \o v \in Seq(Statement)
      BY <1>2, <2>2, <2>4, <3>2, ConcatParts, Concat
    <3>6. u = w \o v
      BY <1>2, <2>1, <3>2
    <3>7. u[1] = Head(u) /\ 1 \in 1..Len(u)
      <4>1. u \in Seq(Statement) /\ u # <<>>
        BY <3>5, <3>6
      <4> QED
        BY <4>1, SeqParts
    <3> QED
      BY <1>8, <2>4, <3>4, <3>5, <3>6, <3>7 DEF Dry, Native
  <2> QED
    BY <2>3, <2>4
<1>10. Heads(e, st, Dry(h)')
  <2>1. PICK b \in BOOLEAN : b = Dry(h)' /\ b = (Tail(s) = <<>>)
    BY <1>9 DEF Dry
  <2> QED
    BY <1>3, <2>1
<1> QED
  BY <1>2, <1>4, <1>5, <1>6, <1>7, <1>8, <1>10, <1>c

-----------------------------------------------------------------------------
(* What writes a user row *)

UserPut(h, e, i, row) ==
    /\ users' = [users EXCEPT ![i] = row]
    /\ \A j \in UserId : j # i /\ users[j] # None => users[j].name # row.name
    /\ row.ext = log[e].key
    /\ \/ /\ log[e].type \in {"user", "added"} /\ i = UserHit(e) /\ row = UserRowOf(log[e])
          /\ log[e].type = "added" => FindUser(e) = None /\ UserGate(e)
          /\ log[e].type = "user" => (ChangesHands(e) => EdgesOfUser(FindUser(e)) = {})
       \/ /\ log[e].type = "deleted" /\ FindUser(e) # None /\ i = FindUser(e)
          /\ row = [users[i] EXCEPT !.ext = log[e].key, !.active = FALSE]

(* A statement that writes a user row. *)
LEMMA UserWrite ==
    ASSUME TypeInv, NEW h \in Handler, Owed(h), Write(h), users' # users \/ Head(run[h].todo).op = "putUser",
           NEW e, e = run[h].event
    PROVE  /\ ~Dry(h) /\ e \in Events /\ live /\ log[e].user \in Person /\ log[e].key \in Key
           /\ Head(run[h].todo).op = "putUser"
           /\ \E i \in UserId, row \in UserRow : UserPut(h, e, i, row)
<1>c. PICK st : st = Head(run[h].todo)
  OBVIOUS
<1>1. run[h].pc = "write" /\ users' = UsersAfter(st) /\ ~NameTaken(st)
  BY <1>c DEF Write
<1>2. st.op = "putUser"
  BY <1>1, <1>c, Afters
<1>3. ~Dry(h)
  <2>1. Native(st)
    BY <1>2 DEF Native
  <2> QED
    BY <1>1, <1>c, <2>1, DryHead
<1>4. e \in Events /\ live /\ Heads(e, st, Dry(h)') /\ st \in Statement
  BY <1>1, <1>3, <1>c, WriteHeads, WriteParts
<1>5. st.id \in UserId /\ st.row \in UserRow
  BY <1>2, <1>4 DEF Statement
<1>6. users' = [users EXCEPT ![st.id] = st.row]
  BY <1>1, <1>2, Afters
<1>7. \A j \in UserId : j # st.id /\ users[j] # None => users[j].name # st.row.name
  BY <1>1, <1>2 DEF NameTaken
<1>8. \/ /\ log[e].type \in {"user", "added"} /\ st = PutHit(e)
         /\ log[e].type = "added" => FindUser(e) = None /\ UserGate(e)
         /\ log[e].type = "user" => (ChangesHands(e) => EdgesOfUser(FindUser(e)) = {})
      \/ log[e].type = "deleted" /\ FindUser(e) # None /\ st = PutGone(e)
  <2>1. /\ st # ClearHit(e) /\ st # PutGroupHit(e) /\ st # ClearGroupHit(e) /\ st # DropHit(e)
        /\ st # AddHit(e) /\ st # RemoveHit(e)
    BY <1>2, PutFields
  <2>2. PICK b : b = Dry(h)'
    OBVIOUS
  <2>3. Heads(e, st, b)
    BY <1>4, <2>2
  <2> QED
    BY <2>1, <2>3 DEF Heads
<1>9. log[e].user \in Person /\ log[e].key \in Key
  BY <1>4, <1>8, EventTyped
<1>10. UserPut(h, e, st.id, st.row)
  <2>1. CASE st = PutHit(e) /\ log[e].type # "deleted"
    <3>1. st.id = UserHit(e) /\ st.row = UserRowOf(log[e])
      BY <2>1, PutFields
    <3>2. st.row.ext = log[e].key
      BY <3>1 DEF UserRowOf
    <3> QED
      BY <1>6, <1>7, <1>8, <2>1, <3>1, <3>2 DEF UserPut
  <2>2. CASE st = PutGone(e) /\ log[e].type = "deleted"
    <3>1. st.id = FindUser(e) /\ st.row = [users[FindUser(e)] EXCEPT !.ext = log[e].key, !.active = FALSE]
      BY <2>2, PutFields
    <3>2. users[FindUser(e)] \in UserRow
      <4>1. FindUser(e) # None
        BY <1>8, <2>2
      <4>2. FindUser(e) \in UserId /\ users[FindUser(e)] # None
        BY <1>4, <1>9, <4>1, FoundUser DEF TypeInv
      <4> QED
        BY <4>2 DEF TypeInv, TypeOK
    <3>3. st.row.ext = log[e].key
      BY <3>1, <3>2 DEF UserRow
    <3> QED
      BY <1>6, <1>7, <1>8, <2>2, <3>1, <3>3 DEF UserPut
  <2> QED
    BY <1>8, <2>1, <2>2
<1> QED
  BY <1>2, <1>3, <1>4, <1>5, <1>9, <1>10, <1>c

(* The rows and where their identity comes from. *)
UserRowFrom(i) ==
    users[i] # None =>
       /\ \E e \in Events : log[e].user \in Person /\ log[e].key = users[i].ext
       /\ scheme = "dsync" => i \in Person /\ \E e \in Events : log[e].user = i /\ log[e].key = users[i].ext
       /\ scheme # "dsync" => users[i].name = NameOf[users[i].ext] /\ (i \in Key => users[i].name = NameOf[i])
NamesOnce ==
    scheme # "dsync" => \A i, j \in UserId :
        users[i] # None /\ users[j] # None /\ users[i].name = users[j].name => i = j
UserRows == NamesOnce /\ \A i \in UserId : UserRowFrom(i)

(* Before the cutover the rows are WorkOS' own. *)
LEMMA Newest ==
    ASSUME NEW n \in Nat, NEW U \in SUBSET (1..n), U # {}
    PROVE  \E e \in U : \A e2 \in U : e2 <= e
<1> DEFINE T == {n - e : e \in U}
           R == OpToRel(<, Nat)
<1>1. T \subseteq Nat /\ T # {}
  <2>1. \A e \in U : e \in 1..n /\ n - e \in Nat
    OBVIOUS
  <2>2. PICK e \in U : TRUE
    OBVIOUS
  <2>3. n - e \in T
    BY <2>2
  <2> QED
    BY <2>1, <2>3
<1>2. PICK x \in T : \A y \in T : ~(<<y, x>> \in R)
  <2>1. IsWellFoundedOn(R, Nat)
    BY NatLessThanWellFounded
  <2> HIDE DEF T, R
  <2> QED
    BY <1>1, <2>1, WFMin
<1>3. PICK e \in U : x = n - e
  OBVIOUS
<1>4. \A e2 \in U : ~(n - e2 < n - e)
  BY <1>1, <1>2, <1>3 DEF OpToRel
<1> QED
  BY <1>4

-----------------------------------------------------------------------------
(* UserRows is an invariant *)

LEMMA NewestUserExists ==
    ASSUME TypeInv, NEW p, UserEvents(p) # {}
    PROVE  \E e \in UserEvents(p) : NewestUser(e, p)
<1>1. PICK n : n = Len(log)
  OBVIOUS
<1>2. n \in Nat /\ UserEvents(p) \in SUBSET (1..n)
  BY <1>1 DEF TypeInv, TypeOK, UserEvents, Events
<1> QED
  BY <1>2, Newest DEF NewestUser

LEMMA KeyTold ==
    ASSUME TypeInv, PersonTold, NEW p \in Person, person[p].state # "none"
    PROVE  /\ \E e \in UserEvents(p) : NewestUser(e, p) /\ log[e].key = person[p].key
           /\ person[p].key \in KeysOf[p]
<1>1. UserEvents(p) # {} /\ PersonToldOf(p) /\ person[p].key \in KeysOf[p]
  BY DEF PersonTold, PersonToldOf
<1>2. PICK e \in UserEvents(p) : NewestUser(e, p)
  BY <1>1, NewestUserExists
<1>3. log[e].key = person[p].key
  BY <1>1, <1>2 DEF PersonToldOf
<1> QED
  BY <1>1, <1>2, <1>3

(* The row of an event, if there is one, and the free id, if not. *)
LEMMA HitRow ==
    ASSUME TypeInv, UserRows, NEW e \in Events, log[e].user \in Person, log[e].key \in Key
    PROVE  /\ UserHit(e) \in UserId
           /\ FindUser(e) # None => /\ UserHit(e) = FindUser(e) /\ users[UserHit(e)] # None
                                    /\ users[UserHit(e)] \in UserRow
                                    /\ scheme # "dsync" => users[UserHit(e)].name = NameOf[log[e].key]
           /\ FindUser(e) = None => UserHit(e) = NewUserId(e) /\ users[UserHit(e)] = None
           /\ scheme = "dsync" => UserHit(e) = log[e].user
<1>0. TypeOK
  BY DEF TypeInv
<1>1. CASE FindUser(e) # None
  <2>1. PICK i \in UserId : i = FindUser(e)
    BY <1>0, <1>1, FoundUser
  <2>2. /\ users[i] # None /\ (scheme = "dsync" => i = log[e].user)
        /\ scheme # "dsync" => users[i].ext = log[e].key \/ users[i].name = NameOf[log[e].key]
    BY <1>0, <1>1, <2>1, FoundUser
  <2>3. UserRowFrom(i)
    BY DEF UserRows
  <2>4. users[i] \in UserRow
    BY <1>0, <2>2 DEF TypeOK
  <2>5. UserHit(e) = i
    BY <1>1, <2>1 DEF UserHit
  <2> QED
    BY <1>1, <2>1, <2>2, <2>3, <2>4, <2>5 DEF UserRowFrom
<1>2. CASE FindUser(e) = None
  <2>1. PICK i \in UserId : i = NewUserId(e)
    BY <1>0, FoundUser
  <2>2. /\ scheme = "dsync" => users[log[e].user] = None
        /\ scheme # "dsync" => \A j \in UserId : users[j] # None => users[j].name # NameOf[log[e].key]
    BY <1>0, <1>2, FoundUser
  <2>3. UserRowFrom(i)
    BY DEF UserRows
  <2>4. (scheme = "dsync" => i = log[e].user) /\ (scheme # "dsync" => i = log[e].key)
    BY <2>1 DEF NewUserId
  <2>5. UserHit(e) = i
    BY <1>2, <2>1 DEF UserHit
  <2>6. users[i] = None
    BY <2>2, <2>3, <2>4 DEF UserRowFrom
  <2> QED
    BY <1>2, <2>1, <2>4, <2>5, <2>6
<1> QED
  BY <1>1, <1>2

LEMMA MirroredRow ==
    ASSUME Mirrored, ~live, NEW i \in UserId, users[i] # None
    PROVE  /\ i \in Person /\ Present(i) /\ users[i].ext = person[i].key /\ users[i].name = NameOf[person[i].key]
           /\ users[i].active <=> person[i].state = "active"
<1>1. users[i] = IF i \in Person /\ Present(i)
          THEN [ext |-> person[i].key, name |-> NameOf[person[i].key], active |-> person[i].state = "active"]
          ELSE None
  BY DEF Mirrored
<1>2. i \in Person /\ Present(i)
  BY <1>1
<1>3. users[i] = [ext |-> person[i].key, name |-> NameOf[person[i].key], active |-> person[i].state = "active"]
  BY <1>1, <1>2
<1>4. users[i].ext = person[i].key /\ users[i].name = NameOf[person[i].key] /\ users[i].active = (person[i].state = "active")
  BY <1>3
<1>5. users[i].active <=> person[i].state = "active"
  BY <1>4, Zenon
<1> QED
  BY <1>2, <1>4, <1>5

LEMMA MirroredRows ==
    ASSUME TypeInv, WorkosOK, ~live
    PROVE  UserRows
<1>1. PersonTold /\ OneKeyEach /\ Mirrored
  BY DEF WorkosOK
<1>2. ASSUME NEW i \in UserId, users[i] # None
      PROVE  /\ i \in Person /\ i \notin Key /\ users[i].name = NameOf[users[i].ext]
             /\ \E e \in Events : log[e].user = i /\ log[e].key = users[i].ext
             /\ Present(i) /\ users[i].ext = person[i].key
  <2>1. i \in Person /\ Present(i) /\ users[i].ext = person[i].key /\ users[i].name = NameOf[person[i].key]
    BY <1>1, <1>2, MirroredRow
  <2>2. \E e \in UserEvents(i) : log[e].key = person[i].key
    BY <1>1, <2>1, KeyTold DEF Present
  <2> QED
    BY <2>1, <2>2, IdAssumption DEF UserEvents
<1>3. NamesOnce
  BY <1>1, <1>2 DEF NamesOnce, OneKeyEach
<1> QED
  BY <1>2, <1>3 DEF UserRows, UserRowFrom

LEMMA WriteUserRows ==
    ASSUME TypeInv, UserRows, NEW h \in Handler, Owed(h), Write(h)
    PROVE  UserRows'
<1>1. UNCHANGED <<log, scheme>>
  BY DEF Write, workos
<1>2. CASE users' = users
  BY <1>1, <1>2 DEF UserRows, NamesOnce, UserRowFrom, Events
<1>3. CASE users' # users
  <2>c. PICK e : e = run[h].event
    OBVIOUS
  <2>1. /\ e \in Events /\ log[e].user \in Person /\ log[e].key \in Key
        /\ \E i \in UserId, row \in UserRow : UserPut(h, e, i, row)
    BY <1>3, <2>c, UserWrite
  <2>2. PICK i \in UserId, row \in UserRow : UserPut(h, e, i, row)
    BY <2>1
  <2>3. users \in [UserId -> UserRow \cup {None}]
    BY DEF TypeInv, TypeOK
  <2>4. /\ users'[i] = row /\ row # None /\ row.ext = log[e].key
        /\ \A j \in UserId : j # i => users'[j] = users[j]
        /\ \A j \in UserId : j # i /\ users[j] # None => users[j].name # row.name
    BY <2>2, <2>3, RowAssumption DEF UserPut
  <2>5. /\ scheme = "dsync" => i = log[e].user
        /\ scheme # "dsync" => row.name = NameOf[row.ext] /\ (i \in Key => row.name = NameOf[i])
    <3>1. i = UserHit(e) /\ (log[e].type = "deleted" => FindUser(e) # None)
      BY <2>2 DEF UserPut, UserHit
    <3>2. CASE scheme = "dsync"
      BY <2>1, <3>1, <3>2, HitRow
    <3>3. CASE scheme # "dsync"
      <4>1. row.name = NameOf[log[e].key]
        <5>1. CASE log[e].type = "deleted"
          <6>1. row = [users[i] EXCEPT !.ext = log[e].key, !.active = FALSE] /\ FindUser(e) # None
            BY <2>2, <5>1 DEF UserPut
          <6>2. users[i] \in UserRow /\ users[i].name = NameOf[log[e].key]
            BY <2>1, <3>1, <3>3, <6>1, HitRow
          <6> QED
            BY <6>1, <6>2 DEF UserRow
        <5>2. CASE log[e].type # "deleted"
          BY <2>2, <5>2 DEF UserPut, UserRowOf
        <5> QED
          BY <5>1, <5>2
      <4>2. i \in Key => NameOf[i] = NameOf[log[e].key]
        <5>1. CASE FindUser(e) = None
          <6>1. i = log[e].key
            BY <2>1, <3>1, <3>3, <5>1, HitRow DEF NewUserId
          <6> QED
            BY <6>1
        <5>2. CASE FindUser(e) # None
          <6>1. users[i] # None /\ users[i].name = NameOf[log[e].key]
            BY <2>1, <3>1, <3>3, <5>2, HitRow
          <6>2. UserRowFrom(i)
            BY DEF UserRows
          <6> QED
            BY <3>3, <6>1, <6>2 DEF UserRowFrom
        <5> QED
          BY <5>1, <5>2
      <4> QED
        BY <2>4, <3>3, <4>1, <4>2
    <3> QED
      BY <3>2, <3>3
  <2>6. NamesOnce'
    <3>1. NamesOnce
      BY DEF UserRows
    <3> QED
      BY <1>1, <2>4, <3>1 DEF NamesOnce
  <2>7. ASSUME NEW j \in UserId PROVE UserRowFrom(j)'
    <3>1. UserRowFrom(j)
      BY DEF UserRows
    <3>2. Events' = Events
      BY <1>1 DEF Events
    <3>3. CASE j = i
      BY <1>1, <2>1, <2>4, <2>5, <3>2, <3>3 DEF UserRowFrom
    <3>4. CASE j # i
      BY <1>1, <2>4, <3>1, <3>2, <3>4 DEF UserRowFrom
    <3> QED
      BY <3>3, <3>4
  <2> QED
    BY <2>6, <2>7 DEF UserRows
<1> QED
  BY <1>2, <1>3

LEMMA InitUserRows == Init => UserRows
  BY DEF Init, UserRows, NamesOnce, UserRowFrom

LEMMA StepUserRows ==
    ASSUME TypeInv, WorkosOK, FlightInv, UserRows, [Next]_vars
    PROVE  UserRows'
<1>1. TypeInv' /\ WorkosOK'
  BY StepTypeInv, StepWorkos
<1>2. CASE ~live'
  <2>1. (TypeInv /\ WorkosOK /\ ~live => UserRows)'
    BY MirroredRows, PTL
  <2> QED
    BY <1>1, <1>2, <2>1
<1>3. ASSUME users' = users, scheme' = scheme, Events \subseteq Events', \A e \in Events : log'[e] = log[e]
      PROVE  UserRows'
  BY <1>3 DEF UserRows, NamesOnce, UserRowFrom
<1>4. CASE live' /\ WorkosStep
  <2>1. PICK ev \in Event : Emit(ev) /\ Change(ev)
    BY <1>4, WorkosChanges DEF TypeInv
  <2>2. PICK n \in Nat : Events = 1..n /\ Events' = (1..n) \cup {n + 1} /\ \A e \in 1..n : log'[e] = log[e]
    BY <2>1, EmitLog
  <2>3. users' = users /\ scheme' = scheme
    BY <1>4, <2>1 DEF Emit, DirectWrite, native
  <2> QED
    BY <1>3, <2>2, <2>3
<1>5. ASSUME UNCHANGED <<log, users, scheme>> PROVE UserRows'
  BY <1>3, <1>5 DEF Events
<1>6. CASE Cutover \/ UNCHANGED vars
  BY <1>5, <1>6 DEF Cutover, vars, workos, native
<1>7. ASSUME NEW h \in Handler, HandlerStep(h) \/ Fault(h) PROVE UserRows'
  <2>1. CASE Write(h)
    BY <2>1, WriteUserRows DEF FlightInv
  <2>2. CASE Resolve(h) \/ Plan(h) \/ WriteRefused(h) \/ Fault(h)
    BY <1>5, <2>2 DEF Resolve, Plan, WriteRefused, Fault, workos, native
  <2> QED
    BY <1>7, <2>1, <2>2 DEF HandlerStep
<1>8. ASSUME NEW h \in Handler, NEW e \in 1..Len(log), Deliver(h, e) PROVE UserRows'
  BY <1>5, <1>8 DEF Deliver, workos, native
<1>9. live' \in BOOLEAN
  BY <1>1 DEF TypeInv, TypeOK
<1> QED
  BY <1>2, <1>4, <1>6, <1>7, <1>8, <1>9 DEF Next

-----------------------------------------------------------------------------
(* ListenerInv; handovers and late events *)

ListenerInv == TypeInv /\ WorkosOK /\ FlightInv /\ UserRows

LEMMA InitListener == Init => ListenerInv
  BY InitTypeInv, InitWorkos, InitFlight, InitUserRows DEF ListenerInv

LEMMA StepListener ==
    ASSUME Single, ListenerInv, [Next]_vars
    PROVE  ListenerInv'
  BY StepTypeInv, StepWorkos, StepFlight, StepUserRows DEF ListenerInv

(* After the cutover only a delivery writes the rows. *)
LEMMA OnlyWrites ==
    ASSUME TypeInv, [Next]_vars, live, native' # native
    PROVE  \E h \in Handler : Write(h)
<1>1. CASE WorkosStep
  <2>1. PICK ev \in Event : Emit(ev) /\ Change(ev)
    BY <1>1, WorkosChanges DEF TypeInv
  <2> QED
    BY <2>1 DEF Emit, DirectWrite
<1>2. CASE Cutover \/ UNCHANGED vars
  BY <1>2 DEF Cutover, vars
<1>3. ASSUME NEW h \in Handler, HandlerStep(h) \/ Fault(h) PROVE Write(h)
  BY <1>3 DEF HandlerStep, Resolve, Plan, WriteRefused, Fault
<1>4. ASSUME NEW h \in Handler, NEW e \in 1..Len(log), Deliver(h, e) PROVE FALSE
  BY <1>4 DEF Deliver
<1> QED
  BY <1>1, <1>2, <1>3, <1>4 DEF Next

(* The action of HandoverIsClean. *)
HandoverStep ==
    \A i \in UserId :
         (/\ users[i] # None /\ users'[i] # None
          /\ live /\ users'[i].active
          /\ users'[i].ext # users[i].ext)
         => EdgesOfUser(i) = {}

LEMMA StepHandover ==
    ASSUME ListenerInv, [Next]_vars
    PROVE  HandoverStep
<1> SUFFICES ASSUME NEW i \in UserId, users[i] # None, users'[i] # None, live, users'[i].active,
                    users'[i].ext # users[i].ext
             PROVE  EdgesOfUser(i) = {}
  BY DEF HandoverStep
<1>0. TypeInv /\ FlightInv /\ UserRows
  BY DEF ListenerInv
<1>1. users' # users
  OBVIOUS
<1>2. PICK h \in Handler : Write(h)
  BY <1>0, <1>1, OnlyWrites DEF native
<1>c. PICK e : e = run[h].event
  OBVIOUS
<1>3. /\ e \in Events /\ log[e].user \in Person /\ log[e].key \in Key
      /\ \E j \in UserId, row \in UserRow : UserPut(h, e, j, row)
  BY <1>0, <1>1, <1>2, <1>c, UserWrite DEF FlightInv
<1>4. PICK j \in UserId, row \in UserRow : UserPut(h, e, j, row)
  BY <1>3
<1>5. users \in [UserId -> UserRow \cup {None}]
  BY <1>0 DEF TypeInv, TypeOK
<1>6. j = i /\ users'[i] = row /\ row.ext = log[e].key
  BY <1>4, <1>5 DEF UserPut
<1>7. CASE log[e].type = "deleted"
  <2>1. row = [users[i] EXCEPT !.ext = log[e].key, !.active = FALSE]
    BY <1>4, <1>6, <1>7 DEF UserPut
  <2>2. users[i] \in UserRow
    BY <1>5
  <2>3. ~row.active
    BY <2>1, <2>2 DEF UserRow
  <2> QED
    BY <1>6, <2>3
<1>8. CASE log[e].type # "deleted"
  <2>1. i = UserHit(e)
    BY <1>4, <1>6, <1>8 DEF UserPut
  <2>2. FindUser(e) # None /\ FindUser(e) = i
    BY <1>0, <1>3, <2>1, HitRow
  <2>3. ChangesHands(e)
    BY <1>6, <2>2 DEF ChangesHands
  <2> QED
    BY <1>4, <1>8, <2>2, <2>3 DEF UserPut
<1> QED
  BY <1>7, <1>8

(* With one delivery at a time, upsertUserFromEvent never gives a row that has  *)
(* memberships another idp_id, even if it died between clearing the memberships *)
(* and writing the row.                                                         *)
THEOREM HandoverClean == Single => (Spec => HandoverIsClean)
<1>1. ASSUME Single PROVE Spec => HandoverIsClean
  <2>1. Init => ListenerInv
    BY InitListener
  <2>2. ListenerInv /\ [Next]_vars => ListenerInv'
    BY <1>1, StepListener
  <2>3. ListenerInv /\ [Next]_vars => [HandoverStep]_vars
    BY StepHandover
  <2> QED
    BY <2>1, <2>2, <2>3, PTL DEF Spec, HandoverIsClean, HandoverStep
<1> QED
  BY <1>1

(* The action of SupersededNeverWrites. *)
LastWriterStep ==
    \A h \in Handler :
         LET st == Head(run[h].todo)
             e == run[h].event
         IN (run[h].pc = "write" /\ run'[h] # run[h] /\ native' # native)
            => /\ ~Superseded(e, ToSet(run[h].scopes))
               /\ MembershipEvent(e) /\ st.op = "putUser" =>
                    ~Superseded(e, UserEventScopes(log[e].user, log[e].key))
               /\ MembershipEvent(e) /\ st.op = "putGroup" =>
                    ~Superseded(e, GroupEventScopes(log[e].group))

LEMMA NewestIsNot ==
    ASSUME TypeInv, NEW e \in Events, NEW S, S \subseteq Scope, IsNewestAcross(S, e)
    PROVE  ~Superseded(e, S)
<1>1. versions \in [Scope -> 0..MaxEvents]
  BY DEF TypeInv, TypeOK
<1>2. \A s \in S : versions[s] \in Nat /\ e \in Nat /\ e >= versions[s]
  BY <1>1, BoundAssumption DEF IsNewestAcross, Events
<1> QED
  BY <1>2 DEF Superseded

LEMMA StubScopes ==
    ASSUME TypeInv, NEW e \in Events
    PROVE  /\ log[e].user \in Person /\ log[e].key \in Key => UserEventScopes(log[e].user, log[e].key) \subseteq Scope
           /\ log[e].group \in Group => GroupEventScopes(log[e].group) \subseteq Scope
<1>1. ASSUME log[e].user \in Person, log[e].key \in Key
      PROVE  UserEventScopes(log[e].user, log[e].key) \subseteq Scope
  <2>1. users[log[e].user] \in UserRow \cup {None}
    BY <1>1 DEF TypeInv, TypeOK, UserId
  <2>2. CurrentKey(LinkedUser(log[e].user), log[e].key) \in Key
    BY <1>1, <2>1 DEF CurrentKey, LinkedUser, UserRow
  <2> QED
    BY <1>1, <2>2 DEF UserEventScopes, UserScopes, Stable, Scope
<1>2. ASSUME log[e].group \in Group
      PROVE  GroupEventScopes(log[e].group) \subseteq Scope
  BY <1>2 DEF GroupEventScopes, GroupScopes, Stable, Scope, GroupKey
<1> QED
  BY <1>1, <1>2

LEMMA StepLastWriter ==
    ASSUME ListenerInv, [Next]_vars
    PROVE  LastWriterStep
<1> SUFFICES ASSUME NEW h \in Handler, run[h].pc = "write", run'[h] # run[h], native' # native,
                    NEW e, e = run[h].event, NEW st, st = Head(run[h].todo)
             PROVE  /\ ~Superseded(e, ToSet(run[h].scopes))
                    /\ (MembershipEvent(e) /\ st.op = "putUser") =>
                         ~Superseded(e, UserEventScopes(log[e].user, log[e].key))
                    /\ (MembershipEvent(e) /\ st.op = "putGroup") =>
                         ~Superseded(e, GroupEventScopes(log[e].group))
  BY Zenon DEF LastWriterStep
<1>0. TypeInv /\ FlightInv /\ Fresh(h) /\ Owed(h)
  BY DEF ListenerInv, FlightInv
<1>1. Write(h)
  <2>1. CASE WorkosStep
    <3>1. PICK ev \in Event : Emit(ev) /\ Change(ev)
      BY <1>0, <2>1, WorkosChanges DEF TypeInv
    <3> QED
      BY <3>1 DEF Emit
  <2>2. CASE Cutover \/ UNCHANGED vars
    BY <2>2 DEF Cutover, vars
  <2>3. ASSUME NEW h2 \in Handler, HandlerStep(h2) \/ Fault(h2) PROVE Write(h)
    <3>1. Write(h2)
      BY <2>3 DEF HandlerStep, Resolve, Plan, WriteRefused, Fault
    <3>2. run' = [run EXCEPT ![h2] = run'[h2]]
      BY <1>0, <3>1, WriteNext
    <3>3. h2 = h
      BY <1>0, <3>2 DEF TypeInv, TypeOK
    <3> QED
      BY <3>1, <3>3
  <2>4. ASSUME NEW h2 \in Handler, NEW e2 \in 1..Len(log), Deliver(h2, e2) PROVE FALSE
    BY <2>4 DEF Deliver
  <2> QED
    BY <2>1, <2>2, <2>3, <2>4 DEF Next
<1>2. ~Dry(h)
  <2>1. CASE Dry(h)
    <3>1. ~Native(st)
      BY <1>0, <2>1, DryHead
    <3>2. users' = users /\ groups' = groups /\ members' = members
      BY <1>1, <3>1, DryWrite DEF Write
    <3> QED
      BY <3>2 DEF native
  <2> QED
    BY <2>1
<1>3. ~Superseded(e, ToSet(run[h].scopes))
  BY <1>0, <1>2 DEF Fresh
<1>4. PICK b : e \in Events /\ Heads(e, st, b)
  BY <1>0, <1>1, <1>2, WriteHeads
<1>5. ASSUME MembershipEvent(e), st.op = "putUser"
      PROVE  ~Superseded(e, UserEventScopes(log[e].user, log[e].key))
  <2>1. log[e].type = "added" /\ FindUser(e) = None /\ UserGate(e)
    <3>1. st # PutGroupHit(e) /\ st # AddHit(e) /\ st # RemoveHit(e)
      BY <1>5, PutFields
    <3> QED
      BY <1>4, <1>5, <3>1 DEF Heads, MembershipEvent
  <2>2. log[e].user \in Person /\ log[e].key \in Key
    BY <1>0, <1>4, <2>1, EventTyped
  <2> QED
    BY <1>0, <1>4, <2>1, <2>2, StubScopes, NewestIsNot DEF UserGate
<1>6. ASSUME MembershipEvent(e), st.op = "putGroup"
      PROVE  ~Superseded(e, GroupEventScopes(log[e].group))
  <2>1. log[e].type = "added" /\ FindGroup(e) = None /\ GroupGate(e)
    <3>1. st # PutHit(e) /\ st # AddHit(e) /\ st # RemoveHit(e)
      BY <1>6, PutFields
    <3> QED
      BY <1>4, <1>6, <3>1 DEF Heads, MembershipEvent
  <2>2. log[e].group \in Group
    BY <1>0, <1>4, <2>1, EventTyped
  <2> QED
    BY <1>0, <1>4, <2>1, <2>2, StubScopes, NewestIsNot DEF GroupGate
<1> QED
  BY <1>3, <1>5, <1>6

(* With one delivery at a time, no event writes to the rows when the ledger has   *)
(* a newer one for a timeline isNewestEvent judged it by, nor brings back the row *)
(* of a user or group of whom it has a newer one.                                 *)
THEOREM LastWriterWins == Single => (Spec => SupersededNeverWrites)
<1>1. ASSUME Single PROVE Spec => SupersededNeverWrites
  <2>1. Init => ListenerInv
    BY InitListener
  <2>2. ListenerInv /\ [Next]_vars => ListenerInv'
    BY <1>1, StepListener
  <2>3. ListenerInv /\ [Next]_vars => [LastWriterStep]_vars
    BY StepLastWriter
  <2> QED
    BY <2>1, <2>2, <2>3, PTL DEF Spec, SupersededNeverWrites, LastWriterStep
<1> QED
  BY <1>1

-----------------------------------------------------------------------------
(* The scopes of an event *)

LEMMA BaseKnown ==
    ASSUME TypeInv, UserRows, NEW e \in Events
    PROVE  BaseScopes(e) \subseteq EventScopes(e) /\ EventScopes(e) \subseteq MayScopes(e)
<1> DEFINE ev == log[e]
           k == CurrentKey(LinkedUser(ev.user), ev.key)
<1>0. ev.type \in {"user", "deleted", "group", "groupDeleted", "added", "removed"}
  BY EventTyped
<1>1. ev.type \in {"user", "deleted", "added", "removed"} => ev.key \in KeyOfPerson(ev.user) /\ k \in KeyOfPerson(ev.user)
  <2> SUFFICES ASSUME ev.type \in {"user", "deleted", "added", "removed"}
               PROVE  ev.key \in KeyOfPerson(ev.user) /\ k \in KeyOfPerson(ev.user)
    OBVIOUS
  <2>1. ev.user \in Person /\ ev.user \in UserId
    BY EventTyped DEF UserId
  <2>2. ev.key \in KeyOfPerson(ev.user)
    BY DEF KeyOfPerson
  <2>3. UserRowFrom(ev.user)
    BY <2>1 DEF UserRows
  <2>4. CASE LinkedUser(ev.user) = None
    BY <2>2, <2>4 DEF CurrentKey
  <2>5. CASE LinkedUser(ev.user) # None
    <3>1. scheme = "dsync" /\ k = users[ev.user].ext /\ users[ev.user] # None
      BY <2>5 DEF CurrentKey, LinkedUser
    <3>2. \E e2 \in Events : log[e2].user = ev.user /\ log[e2].key = users[ev.user].ext
      BY <2>3, <3>1 DEF UserRowFrom
    <3> QED
      BY <2>2, <3>1, <3>2 DEF KeyOfPerson
  <2> QED
    BY <2>4, <2>5
<1>2. CASE ev.type \in {"user", "deleted"}
  <2>1. BaseScopes(e) = UserScopes(ev.key) \cup Stable(<<"dsync-resource", ev.user>>)
    BY <1>2 DEF BaseScopes, UserEvent, MembershipEvent
  <2>2. EventScopes(e) = UserScopes(ev.key) \cup Stable(<<"dsync-resource", ev.user>>) \cup UserScopes(k)
    BY <1>2 DEF EventScopes, UserEvent, MembershipEvent, UserEventScopes
  <2>3. MayScopes(e) = (UNION {UserScopes(x) : x \in KeyOfPerson(ev.user)}) \cup Stable(<<"dsync-resource", ev.user>>)
    BY <1>2 DEF MayScopes, UserEvent, MembershipEvent
  <2> HIDE DEF k
  <2>4. ev.key \in KeyOfPerson(ev.user) /\ k \in KeyOfPerson(ev.user)
    BY <1>1, <1>2
  <2> HIDE DEF ev
  <2>5. UserScopes(ev.key) \subseteq UNION {UserScopes(x) : x \in KeyOfPerson(ev.user)}
    BY <2>4
  <2>6. UserScopes(k) \subseteq UNION {UserScopes(x) : x \in KeyOfPerson(ev.user)}
    BY <2>4
  <2> QED
    BY <2>1, <2>2, <2>3, <2>5, <2>6
<1>3. CASE ev.type \in {"added", "removed"}
  <2> DEFINE M(x) == MemberScopes(GroupKeyOf[ev.group], x)
             D == Stable(<<"dsync-member", ev.group, ev.user>>)
  <2>1. BaseScopes(e) = M(ev.key) \cup D
    BY <1>3 DEF BaseScopes, UserEvent, MembershipEvent
  <2>2. EventScopes(e) = M(ev.key) \cup D \cup M(k)
    BY <1>3 DEF EventScopes, UserEvent, MembershipEvent
  <2>3. MayScopes(e) = (UNION {M(x) : x \in KeyOfPerson(ev.user)}) \cup D
    BY <1>3 DEF MayScopes, UserEvent, MembershipEvent
  <2> HIDE DEF k
  <2>4. ev.key \in KeyOfPerson(ev.user) /\ k \in KeyOfPerson(ev.user)
    BY <1>1, <1>3
  <2> HIDE DEF ev, M, D
  <2>5. M(ev.key) \subseteq UNION {M(x) : x \in KeyOfPerson(ev.user)}
    BY <2>4
  <2>6. M(k) \subseteq UNION {M(x) : x \in KeyOfPerson(ev.user)}
    BY <2>4
  <2> QED
    BY <2>1, <2>2, <2>3, <2>5, <2>6
<1>4. CASE ev.type \in {"group", "groupDeleted"}
  BY <1>4 DEF BaseScopes, MayScopes, EventScopes, UserEvent, MembershipEvent
<1> QED
  BY <1>0, <1>2, <1>3, <1>4

(* As WorkOS goes on, an event's scopes stay and its widest timeline grows. *)
LEMMA ScopesGrow ==
    ASSUME NEW e \in Events, Events \subseteq Events', \A i \in Events : log'[i] = log[i], scheme' = scheme
    PROVE  BaseScopes(e)' = BaseScopes(e) /\ MayScopes(e) \subseteq MayScopes(e)'
<1>0. log'[e] = log[e]
  OBVIOUS
<1>1. BaseScopes(e)' = BaseScopes(e)
  BY <1>0 DEF BaseScopes, UserEvent, MembershipEvent, Stable, GroupEventScopes, MemberScopes, UserScopes, GroupScopes
<1>2. \A p : KeyOfPerson(p) \subseteq KeyOfPerson(p)'
  BY DEF KeyOfPerson
<1>3. PICK p, g : p = log[e].user /\ g = log[e].group
  OBVIOUS
<1> DEFINE M(x) == MemberScopes(GroupKeyOf[g], x)
<1>4. /\ (UNION {UserScopes(x) : x \in KeyOfPerson(p)}) \subseteq (UNION {UserScopes(x) : x \in KeyOfPerson(p)'})
      /\ (UNION {M(x) : x \in KeyOfPerson(p)}) \subseteq (UNION {M(x) : x \in KeyOfPerson(p)'})
  <2>1. PICK A, B : A = KeyOfPerson(p) /\ B = KeyOfPerson(p)' /\ A \subseteq B
    BY <1>2
  <2>2. (UNION {UserScopes(x) : x \in A}) \subseteq (UNION {UserScopes(x) : x \in B})
    BY <2>1
  <2>3. (UNION {M(x) : x \in A}) \subseteq (UNION {M(x) : x \in B})
    BY <2>1
  <2> QED
    BY <2>1, <2>2, <2>3
<1>5. CASE UserEvent(e)
  <2>1. MayScopes(e) = (UNION {UserScopes(x) : x \in KeyOfPerson(p)}) \cup Stable(<<"dsync-resource", p>>)
    BY <1>3, <1>5 DEF MayScopes, UserEvent, MembershipEvent
  <2>2. MayScopes(e)' = (UNION {UserScopes(x) : x \in KeyOfPerson(p)'}) \cup Stable(<<"dsync-resource", p>>)
    BY <1>0, <1>3, <1>5 DEF MayScopes, UserEvent, MembershipEvent, Stable, UserScopes
  <2> QED
    BY <1>1, <1>4, <2>1, <2>2
<1>6. CASE ~UserEvent(e) /\ MembershipEvent(e)
  <2>1. MayScopes(e) = (UNION {M(x) : x \in KeyOfPerson(p)}) \cup Stable(<<"dsync-member", g, p>>)
    BY <1>3, <1>6 DEF MayScopes
  <2>2. MayScopes(e)' = (UNION {M(x) : x \in KeyOfPerson(p)'}) \cup Stable(<<"dsync-member", g, p>>)
    BY <1>0, <1>3, <1>6 DEF MayScopes, UserEvent, MembershipEvent, Stable, MemberScopes
  <2> QED
    BY <1>1, <1>4, <2>1, <2>2
<1>7. CASE ~UserEvent(e) /\ ~MembershipEvent(e)
  <2>1. MayScopes(e) = GroupEventScopes(g) /\ MayScopes(e)' = GroupEventScopes(g)
    BY <1>0, <1>3, <1>7 DEF MayScopes, UserEvent, MembershipEvent, GroupEventScopes, GroupScopes, Stable
  <2> QED
    BY <1>1, <2>1
<1> QED
  BY <1>5, <1>6, <1>7

-----------------------------------------------------------------------------
(* The ledger and what a delivery still records *)

Growing == \A s \in Scope : versions[s] \in Nat /\ versions'[s] \in Nat /\ versions'[s] >= versions[s]

LEMMA VersionWrite ==
    ASSUME TypeInv, NEW h \in Handler, Write(h), NEW e, e = run[h].event, NEW s \in Scope
    PROVE  /\ versions[s] \in Nat /\ versions'[s] \in Nat /\ versions'[s] >= versions[s] /\ e \in Events /\ e \in Nat
           /\ versions'[s] # versions[s] => /\ versions'[s] = e /\ Head(run[h].todo).op = "version"
                                            /\ Head(run[h].todo).scope = s
           /\ Head(run[h].todo) = [op |-> "version", scope |-> s] => versions'[s] >= e
<1>c. PICK st : st = Head(run[h].todo)
  OBVIOUS
<1>1. run[h].pc = "write" /\ versions' = VersionsAfter(st, e)
  BY <1>c DEF Write
<1>2. e \in Events /\ st \in Statement
  BY <1>1, <1>c, WriteParts DEF Events
<1>3. versions \in [Scope -> Nat] /\ e \in Nat
  BY <1>2, BoundAssumption DEF TypeInv, TypeOK, Events
<1>4. CASE st.op = "version" /\ versions[st.scope] < e
  <2>1. versions' = [versions EXCEPT ![st.scope] = e]
    BY <1>1, <1>4 DEF VersionsAfter
  <2> QED
    BY <1>2, <1>3, <1>4, <1>c, <2>1
<1>5. CASE ~(st.op = "version" /\ versions[st.scope] < e)
  <2>1. versions' = versions
    BY <1>1, <1>5 DEF VersionsAfter
  <2> QED
    BY <1>2, <1>3, <1>5, <1>c, <2>1
<1> QED
  BY <1>4, <1>5

LEMMA SupersededGrows ==
    ASSUME Growing, NEW e \in Nat, NEW S, S \subseteq Scope, NEW T, S \subseteq T, Superseded(e, S)
    PROVE  \E s \in T : versions'[s] > e
  BY DEF Growing, Superseded

LEMMA DueFacts ==
    ASSUME NEW S, NEW t \in Seq(S), t # <<>>, NEW x, \E i \in 1..Len(t) : t[i] = x
    PROVE  Head(t) = x \/ \E i \in 1..Len(Tail(t)) : Tail(t)[i] = x
<1>1. PICK i \in 1..Len(t) : t[i] = x
  OBVIOUS
<1>2. /\ Head(t) = t[1] /\ Len(t) \in Nat /\ Len(Tail(t)) = Len(t) - 1
      /\ \A j \in 1..Len(Tail(t)) : Tail(t)[j] = t[j + 1]
  BY SeqParts
<1>3. CASE i = 1
  BY <1>1, <1>2, <1>3
<1>4. CASE i # 1
  <2>1. i - 1 \in 1..Len(Tail(t)) /\ (i - 1) + 1 = i
    BY <1>2, <1>4
  <2>2. Tail(t)[i - 1] = t[i]
    BY <1>2, <2>1
  <2> QED
    BY <1>1, <2>1, <2>2
<1> QED
  BY <1>3, <1>4

ScopesSafe(h) == ScopesKnown(h) /\ Advancing(h)

(* A delivery that does not move keeps what is known of its scopes. *)
LEMMA ScopesSafeSame ==
    ASSUME TypeInv, NEW h \in Handler, ScopesSafe(h), run'[h] = run[h], Growing,
           Events \subseteq Events', \A i \in Events : log'[i] = log[i], scheme' = scheme
    PROVE  ScopesSafe(h)'
<1>1. run[h].pc # "idle" => run[h].event \in Events
  BY RunOf DEF Shaped
<1>2. ToSet(run[h].scopes) \subseteq Scope
  BY RunOf DEF ToSet
<1>3. ScopesKnown(h)'
  <2> SUFFICES ASSUME run[h].pc # "idle", NEW e, e = run[h].event
               PROVE  /\ BaseScopes(e)' \subseteq ToSet(run[h].scopes)
                      /\ ToSet(run[h].scopes) \subseteq MayScopes(e)'
    BY DEF ScopesKnown
  <2>1. BaseScopes(e) \subseteq ToSet(run[h].scopes) /\ ToSet(run[h].scopes) \subseteq MayScopes(e)
    BY DEF ScopesSafe, ScopesKnown
  <2>2. BaseScopes(e)' = BaseScopes(e) /\ MayScopes(e) \subseteq MayScopes(e)'
    BY <1>1, ScopesGrow
  <2> QED
    BY <2>1, <2>2
<1>4. Advancing(h)'
  <2> SUFFICES ASSUME run[h].pc = "write", NEW e, e = run[h].event, NEW S, S = ToSet(run[h].scopes)
               PROVE  \/ \E s \in S : versions'[s] > e
                      \/ \A s \in S : versions'[s] >= e \/ Due(h, s)
    BY DEF Advancing, Superseded, Due
  <2>1. Superseded(e, S) \/ \A s \in S : versions[s] >= e \/ Due(h, s)
    BY DEF ScopesSafe, Advancing
  <2>2. e \in Nat
    BY <1>1 DEF Events
  <2> QED
    BY <1>2, <2>1, <2>2 DEF Growing, Superseded
<1> QED
  BY <1>3, <1>4 DEF ScopesSafe

LEMMA WriteScopesSafe ==
    ASSUME TypeInv, NEW h \in Handler, ScopesSafe(h), Write(h)
    PROVE  ScopesSafe(h)'
<1>c. PICK e, S : e = run[h].event /\ S = ToSet(run[h].scopes)
  OBVIOUS
<1>1. /\ run[h].pc = "write"
      /\ \/ Len(run[h].todo) = 1 /\ run'[h] = Idle
         \/ Len(run[h].todo) > 1 /\ run'[h] = [run[h] EXCEPT !.todo = Tail(run[h].todo)]
  BY WriteNext
<1>2. CASE run'[h] = Idle
  BY <1>2 DEF ScopesSafe, ScopesKnown, Advancing, Idle
<1>3. CASE run'[h] = [run[h] EXCEPT !.todo = Tail(run[h].todo)]
  <2>1. run[h] \in Run(Len(log)) /\ run[h].todo \in Seq(Statement) /\ S \subseteq Scope
    BY <1>c, RunOf DEF ToSet
  <2>2. PICK u : u = Tail(run[h].todo)
    OBVIOUS
  <2>3. run'[h].pc = "write" /\ run'[h].event = e /\ run'[h].scopes = run[h].scopes /\ run'[h].todo = u
    BY <1>1, <1>3, <1>c, <2>1, <2>2 DEF Run
  <2>4. UNCHANGED <<log, scheme>>
    BY DEF Write, workos
  <2>5. e \in Events /\ e \in Nat /\ run[h].todo # <<>>
    BY <1>1, <1>c, WriteParts DEF Events
  <2>6. ScopesKnown(h)'
    <3>1. Events' = Events /\ \A i \in Events : log'[i] = log[i]
      BY <2>4 DEF Events
    <3>2. BaseScopes(e)' = BaseScopes(e) /\ MayScopes(e) \subseteq MayScopes(e)'
      BY <2>4, <2>5, <3>1, ScopesGrow
    <3>3. BaseScopes(e) \subseteq S /\ S \subseteq MayScopes(e)
      BY <1>1, <1>c DEF ScopesSafe, ScopesKnown
    <3> QED
      BY <1>c, <2>3, <3>2, <3>3 DEF ScopesKnown
  <2>7. Advancing(h)'
    <3>1. Superseded(e, S) \/ \A s \in S : versions[s] >= e \/ Due(h, s)
      BY <1>1, <1>c DEF ScopesSafe, Advancing
    <3>2. \A s \in S : versions[s] \in Nat /\ versions'[s] \in Nat /\ versions'[s] >= versions[s]
      BY <2>1, VersionWrite
    <3>3. CASE Superseded(e, S)
      <4>1. \E s \in S : versions'[s] > e
        BY <2>5, <3>2, <3>3 DEF Superseded
      <4> QED
        BY <1>c, <2>3, <4>1 DEF Advancing, Superseded
    <3>4. CASE \A s \in S : versions[s] >= e \/ Due(h, s)
      <4>1. ASSUME NEW s \in S
            PROVE  versions'[s] >= e \/ \E i \in 1..Len(u) : u[i] = [op |-> "version", scope |-> s]
        <5>1. CASE versions[s] >= e
          BY <2>5, <3>2, <5>1
        <5>2. CASE Due(h, s)
          <6>1. PICK x : x = [op |-> "version", scope |-> s]
            OBVIOUS
          <6>2. Head(run[h].todo) = x \/ \E i \in 1..Len(u) : u[i] = x
            <7>1. \E i \in 1..Len(run[h].todo) : run[h].todo[i] = x
              BY <5>2, <6>1 DEF Due
            <7>2. PICK t : t = run[h].todo
              OBVIOUS
            <7>3. t \in Seq(Statement) /\ t # <<>> /\ (\E i \in 1..Len(t) : t[i] = x) /\ u = Tail(t)
              BY <2>1, <2>2, <2>5, <7>1, <7>2
            <7>4. Head(t) = x \/ \E i \in 1..Len(Tail(t)) : Tail(t)[i] = x
              BY <7>3, DueFacts
            <7> QED
              BY <7>2, <7>3, <7>4
          <6>3. Head(run[h].todo) = x => versions'[s] >= e
            BY <1>c, <2>1, <6>1, VersionWrite
          <6> QED
            BY <6>1, <6>2, <6>3
        <5> QED
          BY <3>4, <5>1, <5>2
      <4> QED
        BY <1>c, <2>3, <4>1 DEF Advancing, Due
    <3> QED
      BY <3>1, <3>3, <3>4
  <2> QED
    BY <2>6, <2>7 DEF ScopesSafe
<1> QED
  BY <1>1, <1>2, <1>3

LEMMA DeliverScopesSafe ==
    ASSUME TypeInv, UserRows, NEW h \in Handler, NEW e \in 1..Len(log), Deliver(h, e)
    PROVE  ScopesSafe(h)'
<1>c. PICK scopes : scopes = SetToSeq(EventScopes(e))
  OBVIOUS
<1> DEFINE r == IF ~live
          THEN [pc |-> "write", event |-> e, scopes |-> scopes,
                todo |-> RecordVersions(scopes) \o RecordEvent("ignored")]
          ELSE IF ~IsNewestAcross(EventScopes(e), e)
          THEN [pc |-> "write", event |-> e, scopes |-> scopes,
                todo |-> RecordEvent("processed")]
          ELSE [pc |-> "resolve", event |-> e, scopes |-> scopes, todo |-> <<>>]
<1>0. TypeOK /\ EventsShaped /\ e \in Events
  BY DEF TypeInv, Events
<1>1. scopes \in Seq(Scope) /\ ToSet(scopes) = EventScopes(e)
  BY <1>0, <1>c, SeqOfScopes
<1>2. run' = [run EXCEPT ![h] = r] /\ UNCHANGED <<versions, log, scheme>>
  BY <1>c DEF Deliver, ledger, workos
<1>3. run'[h] = r
  BY <1>2, RunOf
<1>4. r.pc \in {"write", "resolve"} /\ r.event = e /\ r.scopes = scopes
  OBVIOUS
<1>5. ScopesKnown(h)'
  <2>1. BaseScopes(e)' = BaseScopes(e) /\ MayScopes(e) \subseteq MayScopes(e)'
    BY <1>0, <1>2, ScopesGrow DEF Events
  <2>2. BaseScopes(e) \subseteq ToSet(scopes) /\ ToSet(scopes) \subseteq MayScopes(e)
    BY <1>0, <1>1, BaseKnown
  <2> HIDE DEF r
  <2> QED
    BY <1>3, <1>4, <2>1, <2>2 DEF ScopesKnown
<1>6. Advancing(h)'
  <2>1. CASE ~live
    <3>1. PICK t : t = RecordVersions(scopes) \o RecordEvent("ignored")
      OBVIOUS
    <3>2. \A x \in ToSet(scopes) : \E i \in 1..Len(t) : t[i] = [op |-> "version", scope |-> x]
      BY <1>1, <3>1, RestShape
    <3>3. r = [pc |-> "write", event |-> e, scopes |-> scopes, todo |-> t]
      BY <2>1, <3>1
    <3> HIDE DEF r
    <3> QED
      BY <1>3, <3>2, <3>3 DEF Advancing, Due
  <2>2. CASE live /\ ~IsNewestAcross(EventScopes(e), e)
    <3>1. PICK s \in EventScopes(e) : ~(e >= versions[s])
      BY <2>2 DEF IsNewestAcross
    <3>2. s \in Scope /\ versions[s] \in Nat /\ e \in Nat
      BY <1>0, ScopesAreScopes, BoundAssumption DEF TypeOK, Events
    <3>3. versions[s] > e /\ s \in ToSet(scopes)
      BY <1>1, <3>1, <3>2
    <3>4. r.pc = "write"
      BY <2>2
    <3> HIDE DEF r
    <3> QED
      BY <1>2, <1>3, <1>4, <3>3 DEF Advancing, Superseded
  <2>3. CASE live /\ IsNewestAcross(EventScopes(e), e)
    <3>1. r.pc = "resolve"
      BY <2>3
    <3> HIDE DEF r
    <3> QED
      BY <1>3, <3>1 DEF Advancing
  <2> QED
    BY <2>1, <2>2, <2>3
<1> QED
  BY <1>5, <1>6 DEF ScopesSafe

LEMMA PlanScopesSafe ==
    ASSUME TypeInv, NEW h \in Handler, ScopesSafe(h), Resolve(h) \/ Plan(h)
    PROVE  ScopesSafe(h)'
<1>1. UNCHANGED <<versions, log, scheme>> /\ run[h] \in Run(Len(log)) /\ run[h].scopes \in Seq(Scope) /\ Shaped(h)
  BY RunOf DEF Resolve, Plan, workos, ledger
<1>c. PICK e, sc : e = run[h].event /\ sc = run[h].scopes
  OBVIOUS
<1>2. run[h].pc # "idle"
  BY DEF Resolve, Plan
<1>3. e \in Events
  BY <1>1, <1>2, <1>c DEF Shaped
<1>4. ASSUME run'[h].event = e, run'[h].scopes = sc PROVE ScopesKnown(h)'
  <2>1. BaseScopes(e)' = BaseScopes(e) /\ MayScopes(e) \subseteq MayScopes(e)'
    BY <1>1, <1>3, ScopesGrow DEF Events
  <2>2. BaseScopes(e) \subseteq ToSet(sc) /\ ToSet(sc) \subseteq MayScopes(e)
    BY <1>2, <1>c DEF ScopesSafe, ScopesKnown
  <2> QED
    BY <1>4, <2>1, <2>2 DEF ScopesKnown
<1>5. CASE Resolve(h)
  <2>1. run'[h] = [run[h] EXCEPT !.pc = "plan"] \/ run'[h] = Idle
    <3>1. run' = [run EXCEPT ![h] = [run[h] EXCEPT !.pc = "plan"]] \/ run' = [run EXCEPT ![h] = Idle]
      BY <1>5 DEF Resolve
    <3> QED
      BY <3>1, RunOf
  <2>2. CASE run'[h] = Idle
    BY <2>2 DEF ScopesSafe, ScopesKnown, Advancing, Idle
  <2>3. CASE run'[h] = [run[h] EXCEPT !.pc = "plan"]
    <3>1. run'[h].event = e /\ run'[h].scopes = sc /\ run'[h].pc = "plan"
      BY <1>1, <1>c, <2>3 DEF Run
    <3> QED
      BY <1>4, <3>1 DEF ScopesSafe, Advancing
  <2> QED
    BY <2>1, <2>2, <2>3
<1>6. CASE Plan(h)
  <2>1. PICK a, t, todo : /\ a = ApplyEvent(e) /\ t = RecordVersions(sc) \o RecordEvent("processed")
                          /\ todo = ApplyEvent(e) \o RecordVersions(sc) \o RecordEvent("processed")
    OBVIOUS
  <2>2. run' = [run EXCEPT ![h] = [run[h] EXCEPT !.pc = "write", !.todo = todo]]
    BY <1>6, <1>c, <2>1 DEF Plan
  <2>3. run'[h] = [run[h] EXCEPT !.pc = "write", !.todo = todo]
    BY <2>2, RunOf
  <2>4. run'[h].event = e /\ run'[h].scopes = sc /\ run'[h].todo = todo
    BY <1>1, <1>c, <2>3 DEF Run
  <2>5. a \in Seq(Statement)
    BY <1>3, <2>1, ApplyTyped DEF TypeInv
  <2>6. t \in Seq(Statement) /\ \A x \in ToSet(sc) : \E i \in 1..Len(t) : t[i] = [op |-> "version", scope |-> x]
    BY <1>1, <1>c, <2>1, RestShape
  <2>7. todo = a \o t
    <3>1. RecordVersions(sc) \in Seq(Statement) /\ RecordEvent("processed") \in Seq(Statement)
      BY <1>1, <1>c, RestTyped
    <3> QED
      BY <2>1, <2>5, <3>1, Associates
  <2>8. ASSUME NEW x \in ToSet(sc) PROVE \E i \in 1..Len(todo) : todo[i] = [op |-> "version", scope |-> x]
    <3>1. PICK i \in 1..Len(t) : t[i] = [op |-> "version", scope |-> x]
      BY <2>6
    <3>2. Len(todo) = Len(a) + Len(t) /\ todo[Len(a) + i] = t[i]
      BY <2>5, <2>6, <2>7, Concat
    <3>3. Len(a) + i \in 1..Len(todo)
      <4>1. Len(a) \in Nat /\ Len(t) \in Nat
        BY <2>5, <2>6
      <4> QED
        BY <3>2, <4>1
    <3> QED
      BY <3>1, <3>2, <3>3
  <2>9. Advancing(h)'
    BY <2>4, <2>8 DEF Advancing, Due
  <2> QED
    BY <1>4, <2>4, <2>9 DEF ScopesSafe
<1> QED
  BY <1>5, <1>6

-----------------------------------------------------------------------------
(* ScopeOK is an invariant *)

ScopeOK == VersionsFrom /\ RecordedKnown /\ \A h \in Handler : ScopesSafe(h)

LEMMA UserOfEvent ==
    ASSUME TypeInv, NEW e \in Events, NEW p \in Person, log[e].user = p
    PROVE  /\ log[e].type \in {"user", "deleted", "added", "removed"}
           /\ log[e].key \in Key /\ log[e].key \in KeysOf[p]
<1>1. log[e].type \in {"group", "groupDeleted"} => log[e].user = None
  BY EventTyped DEF EventShape
<1>2. p # None
  BY NoneAssumption
<1>3. log[e].type \in {"user", "deleted", "added", "removed"} => log[e].key \in KeysOf[log[e].user]
  BY EventTyped DEF EventShape
<1> QED
  BY <1>1, <1>2, <1>3, EventTyped

LEMMA MayAreScopes ==
    ASSUME TypeInv, NEW e \in Events
    PROVE  MayScopes(e) \subseteq Scope
<1>1. \A p \in Person : KeyOfPerson(p) \subseteq Key
  BY UserOfEvent DEF KeyOfPerson
<1>2. CASE UserEvent(e)
  <2>1. MayScopes(e) = (UNION {UserScopes(x) : x \in KeyOfPerson(log[e].user)}) \cup Stable(<<"dsync-resource", log[e].user>>)
    BY <1>2 DEF MayScopes, UserEvent, MembershipEvent
  <2>2. log[e].user \in Person
    BY <1>2, EventTyped DEF UserEvent
  <2>3. \A x \in KeyOfPerson(log[e].user) : UserScopes(x) \subseteq Scope
    BY <1>1, <2>2 DEF UserScopes, Scope
  <2>4. Stable(<<"dsync-resource", log[e].user>>) \subseteq Scope
    BY <2>2 DEF Stable, Scope
  <2> QED
    BY <2>1, <2>3, <2>4
<1>3. CASE MembershipEvent(e)
  <2>1. MayScopes(e) = (UNION {MemberScopes(GroupKeyOf[log[e].group], x) : x \in KeyOfPerson(log[e].user)})
                       \cup Stable(<<"dsync-member", log[e].group, log[e].user>>)
    BY <1>3 DEF MayScopes, UserEvent, MembershipEvent
  <2>2. log[e].user \in Person /\ log[e].group \in Group
    BY <1>3, EventTyped DEF MembershipEvent
  <2>3. \A x \in KeyOfPerson(log[e].user) : MemberScopes(GroupKeyOf[log[e].group], x) \subseteq Scope
    BY <1>1, <2>2 DEF MemberScopes, Scope, GroupKey
  <2>4. Stable(<<"dsync-member", log[e].group, log[e].user>>) \subseteq Scope
    BY <2>2 DEF Stable, Scope
  <2> QED
    BY <2>1, <2>3, <2>4
<1>4. CASE ~UserEvent(e) /\ ~MembershipEvent(e)
  <2>1. MayScopes(e) = GroupEventScopes(log[e].group)
    BY <1>4 DEF MayScopes
  <2>2. log[e].group \in Group
    BY <1>4, EventTyped DEF UserEvent, MembershipEvent
  <2> QED
    BY <2>1, <2>2, StubScopes
<1> QED
  BY <1>2, <1>3, <1>4

LEMMA BaseAreScopes ==
    ASSUME TypeInv, UserRows, NEW e \in Events
    PROVE  BaseScopes(e) \subseteq Scope
  BY BaseKnown, ScopesAreScopes DEF TypeInv

(* The ledger when nothing new is recorded. *)
LEMMA LedgerGrows ==
    ASSUME TypeInv, UserRows, ScopeOK, Growing,
           Events \subseteq Events', \A i \in Events : log'[i] = log[i], scheme' = scheme,
           \A s \in Scope : versions'[s] # versions[s] =>
              \E e \in Events : versions'[s] = e /\ s \in MayScopes(e),
           \A e \in processed' \cup ignored' : e \in processed \cup ignored \/
              (e \in Events /\ (Superseded(e, MayScopes(e)) \/ \A s \in BaseScopes(e) : versions[s] >= e))
    PROVE  VersionsFrom' /\ RecordedKnown'
<1>1. VersionsFrom'
  <2>a. ASSUME NEW s \in Scope, NEW v, v = versions'[s], v # 0
        PROVE  v \in Events' /\ s \in MayScopes(v)'
    <3>1. v \in Events /\ s \in MayScopes(v)
      BY <2>a DEF ScopeOK, VersionsFrom
    <3>2. s \in MayScopes(v)'
      BY <3>1, ScopesGrow
    <3> QED
      BY <3>1, <3>2
  <2> QED
    BY <2>a DEF VersionsFrom
<1>2. RecordedKnown'
  <2> SUFFICES ASSUME NEW e \in processed' \cup ignored'
               PROVE  (\E s \in MayScopes(e)' : versions'[s] > e) \/ \A s \in BaseScopes(e)' : versions'[s] >= e
    BY DEF RecordedKnown, Superseded
  <2>1. e \in Events
    BY DEF TypeInv, TypeOK, Events
  <2>2. Superseded(e, MayScopes(e)) \/ \A s \in BaseScopes(e) : versions[s] >= e
    BY DEF ScopeOK, RecordedKnown
  <2>3. BaseScopes(e)' = BaseScopes(e) /\ MayScopes(e) \subseteq MayScopes(e)'
    BY <2>1, ScopesGrow
  <2>4. MayScopes(e) \subseteq Scope /\ BaseScopes(e) \subseteq Scope /\ e \in Nat
    BY <2>1, MayAreScopes, BaseAreScopes DEF Events
  <2>5. CASE Superseded(e, MayScopes(e))
    BY <2>3, <2>4, <2>5, SupersededGrows
  <2>6. CASE \A s \in BaseScopes(e) : versions[s] >= e
    BY <2>3, <2>4, <2>6 DEF Growing
  <2> QED
    BY <2>2, <2>5, <2>6
<1> QED
  BY <1>1, <1>2

LEMMA LedgerSame ==
    ASSUME TypeInv, UserRows, ScopeOK, UNCHANGED <<versions, processed, ignored, scheme>>,
           Events \subseteq Events', \A i \in Events : log'[i] = log[i]
    PROVE  Growing /\ VersionsFrom' /\ RecordedKnown'
<1>1. Growing
  BY BoundAssumption DEF Growing, TypeInv, TypeOK
<1> QED
  BY <1>1, LedgerGrows

LEMMA WriteLedger ==
    ASSUME TypeInv, UserRows, ScopeOK, NEW h \in Handler, Write(h)
    PROVE  Growing /\ VersionsFrom' /\ RecordedKnown'
<1>c. PICK e, st : e = run[h].event /\ st = Head(run[h].todo)
  OBVIOUS
<1>0. run[h].pc = "write" /\ UNCHANGED <<log, scheme>>
  BY DEF Write, workos
<1>1. Growing
  BY VersionWrite DEF Growing
<1>2. /\ e \in Events /\ st = run[h].todo[1] /\ Len(run[h].todo) \in Nat /\ Len(run[h].todo) >= 1
      /\ \A i \in 1..Len(run[h].todo) :
                 /\ run[h].todo[i].op = "version" => run[h].todo[i].scope \in ToSet(run[h].scopes)
                 /\ run[h].todo[i].op = "record" <=> i = Len(run[h].todo)
  BY <1>0, <1>c, WriteParts DEF Events
<1>3. 1 \in 1..Len(run[h].todo)
  BY <1>2
<1>a. st.op = "version" => st.scope \in ToSet(run[h].scopes)
  BY <1>2, <1>3
<1>4. BaseScopes(e) \subseteq ToSet(run[h].scopes) /\ ToSet(run[h].scopes) \subseteq MayScopes(e)
      /\ (Superseded(e, ToSet(run[h].scopes)) \/ \A s \in ToSet(run[h].scopes) : versions[s] >= e \/ Due(h, s))
  BY <1>0, <1>c DEF ScopeOK, ScopesSafe, ScopesKnown, Advancing
<1>5. ASSUME NEW s \in Scope, versions'[s] # versions[s]
      PROVE  \E e2 \in Events : versions'[s] = e2 /\ s \in MayScopes(e2)
  <2>1. versions'[s] = e /\ st.op = "version" /\ st.scope = s
    <3>1. e = run[h].event /\ st = Head(run[h].todo)
      BY <1>c
    <3>2. versions'[s] = e /\ Head(run[h].todo).op = "version" /\ Head(run[h].todo).scope = s
      BY <1>5, <3>1, VersionWrite
    <3> QED
      BY <3>1, <3>2
  <2> QED
    BY <1>2, <1>4, <1>a, <2>1
<1>6. ASSUME NEW e2 \in processed' \cup ignored'
      PROVE  e2 \in processed \cup ignored \/
              (e2 \in Events /\ (Superseded(e2, MayScopes(e2)) \/ \A s \in BaseScopes(e2) : versions[s] >= e2))
  <2>1. CASE st.op # "record"
    BY <1>c, <1>6, <2>1 DEF Write
  <2>2. CASE st.op = "record"
    <3>1. e2 \in processed \cup ignored \cup {e}
      BY <1>c, <1>6 DEF Write
    <3>2. \A s : ~Due(h, s)
      <4>1. \A i \in 1..Len(run[h].todo) : run[h].todo[i].op = "record"
        <5>1. 1 \in 1..Len(run[h].todo)
          BY <1>2
        <5>2. Len(run[h].todo) = 1
          BY <1>2, <2>2, <5>1
        <5> QED
          BY <1>2, <2>2, <5>2
      <4> QED
        BY <4>1 DEF Due
    <3>3. Superseded(e, ToSet(run[h].scopes)) \/ \A s \in ToSet(run[h].scopes) : versions[s] >= e
      BY <1>4, <3>2
    <3>4. Superseded(e, MayScopes(e)) \/ \A s \in BaseScopes(e) : versions[s] >= e
      BY <1>4, <3>3 DEF Superseded
    <3> QED
      BY <1>2, <3>1, <3>4
  <2> QED
    BY <2>1, <2>2
<1>7. Events \subseteq Events' /\ \A i \in Events : log'[i] = log[i]
  BY <1>0 DEF Events
<1> QED
  BY <1>0, <1>1, <1>5, <1>6, <1>7, LedgerGrows

LEMMA InitScope == Init => ScopeOK
  BY DEF Init, ScopeOK, VersionsFrom, RecordedKnown, ScopesSafe, ScopesKnown, Advancing, Idle

LEMMA StepScope ==
    ASSUME TypeInv, UserRows, ScopeOK, [Next]_vars
    PROVE  ScopeOK'
<1>1. ASSUME UNCHANGED <<versions, processed, ignored, scheme, run>>, Events \subseteq Events', \A i \in Events : log'[i] = log[i]
      PROVE  ScopeOK'
  BY <1>1, LedgerSame, ScopesSafeSame DEF ScopeOK
<1>2. CASE WorkosStep
  <2>1. PICK ev \in Event : Emit(ev) /\ Change(ev)
    BY <1>2, WorkosChanges DEF TypeInv
  <2>2. PICK n \in Nat : Events = 1..n /\ Events' = (1..n) \cup {n + 1} /\ \A e \in 1..n : log'[e] = log[e]
    BY <2>1, EmitLog
  <2>3. UNCHANGED <<versions, processed, ignored, scheme, run>>
    BY <2>1 DEF Emit, ledger
  <2> QED
    BY <1>1, <2>2, <2>3
<1>3. CASE Cutover \/ UNCHANGED vars
  BY <1>1, <1>3 DEF Cutover, vars, workos, ledger, Events
<1>4. ASSUME NEW h \in Handler, Growing, VersionsFrom', RecordedKnown', ScopesSafe(h)', run' = [run EXCEPT ![h] = run'[h]],
             UNCHANGED <<log, scheme>>
      PROVE  ScopeOK'
  <2>1. ASSUME NEW h2 \in Handler, h2 # h PROVE ScopesSafe(h2)'
    <3>1. run'[h2] = run[h2]
      BY <1>4, <2>1 DEF TypeInv, TypeOK
    <3> QED
      BY <1>4, <3>1, ScopesSafeSame DEF ScopeOK, Events
  <2> QED
    BY <1>4, <2>1 DEF ScopeOK
<1>5. ASSUME NEW h \in Handler, UNCHANGED <<log, scheme, versions, processed, ignored>>, ScopesSafe(h)',
             run' = [run EXCEPT ![h] = run'[h]]
      PROVE  ScopeOK'
  BY <1>4, <1>5, LedgerSame DEF Events
<1>6. ASSUME NEW h \in Handler, Write(h) PROVE ScopeOK'
  <2>1. run' = [run EXCEPT ![h] = run'[h]] /\ UNCHANGED <<log, scheme>>
    BY <1>6, WriteNext DEF Write, workos
  <2> QED
    BY <1>4, <1>6, <2>1, WriteLedger, WriteScopesSafe DEF ScopeOK
<1>7. ASSUME NEW h \in Handler, Resolve(h) \/ Plan(h) PROVE ScopeOK'
  <2>1. PICK r : run' = [run EXCEPT ![h] = r]
    BY <1>7 DEF Resolve, Plan
  <2>2. run' = [run EXCEPT ![h] = run'[h]]
    BY <2>1, RunOf
  <2>3. UNCHANGED <<log, scheme, versions, processed, ignored>>
    BY <1>7 DEF Resolve, Plan, workos, ledger
  <2> QED
    BY <1>5, <1>7, <2>2, <2>3, PlanScopesSafe DEF ScopeOK
<1>8. ASSUME NEW h \in Handler, WriteRefused(h) \/ Fault(h) PROVE ScopeOK'
  <2>1. run' = [run EXCEPT ![h] = Idle]
    BY <1>8 DEF WriteRefused, Fault
  <2>2. run'[h] = Idle
    BY <2>1, RunOf
  <2>3. UNCHANGED <<log, scheme, versions, processed, ignored>>
    BY <1>8 DEF WriteRefused, Fault, workos, ledger
  <2>4. ScopesSafe(h)'
    BY <2>2 DEF ScopesSafe, ScopesKnown, Advancing, Idle
  <2> QED
    BY <1>5, <2>1, <2>2, <2>3, <2>4
<1>9. ASSUME NEW h \in Handler, NEW e \in 1..Len(log), Deliver(h, e) PROVE ScopeOK'
  <2>1. PICK r : run' = [run EXCEPT ![h] = r]
    BY <1>9 DEF Deliver
  <2>2. run' = [run EXCEPT ![h] = run'[h]]
    BY <2>1, RunOf
  <2>3. UNCHANGED <<log, scheme, versions, processed, ignored>>
    BY <1>9 DEF Deliver, workos, ledger
  <2> QED
    BY <1>5, <1>9, <2>2, <2>3, DeliverScopesSafe
<1> QED
  BY <1>2, <1>3, <1>6, <1>7, <1>8, <1>9 DEF Next, HandlerStep

-----------------------------------------------------------------------------
(* The rows and the events of a person of their own *)

LEMMA OthersKeys ==
    ASSUME TypeInv, NEW p \in Person, OwnIdentity(p), NEW e \in Events, log[e].user \in Person, log[e].user # p
    PROVE  NameOf[log[e].key] \notin {NameOf[k] : k \in KeysOf[p]} /\ log[e].key \notin KeysOf[p]
<1>1. log[e].user # None
  BY NoneAssumption
<1>2. NameOf[log[e].key] \notin {NameOf[k] : k \in KeysOf[p]}
  BY <1>1 DEF OwnIdentity, Events
<1> QED
  BY <1>2

LEMMA OwnRows ==
    ASSUME TypeInv, UserRows, NEW p \in Person, OwnIdentity(p)
    PROVE  /\ \A i \in RowsOf(p) : /\ i \in UserId /\ users[i] # None /\ users[i].ext \in KeysOf[p]
                                   /\ \E e \in Events : log[e].user = p /\ log[e].key = users[i].ext
                                   /\ scheme = "dsync" => i = p
                                   /\ scheme # "dsync" => users[i].name = NameOf[users[i].ext]
           /\ \A i, j \in RowsOf(p) : i = j
<1>1. ASSUME NEW i \in RowsOf(p)
      PROVE  /\ i \in UserId /\ users[i] # None /\ users[i].ext \in KeysOf[p]
             /\ \E e \in Events : log[e].user = p /\ log[e].key = users[i].ext
             /\ scheme = "dsync" => i = p
             /\ scheme # "dsync" => users[i].name = NameOf[users[i].ext]
  <2>1. i \in UserId /\ users[i] # None /\ users[i].ext \in KeysOf[p]
    BY DEF RowsOf
  <2>2. UserRowFrom(i)
    BY <2>1 DEF UserRows
  <2>3. PICK e \in Events : log[e].user \in Person /\ log[e].key = users[i].ext
    BY <2>1, <2>2 DEF UserRowFrom
  <2>4. log[e].user = p
    BY <2>1, <2>3, OthersKeys
  <2>5. scheme = "dsync" => i = p
    <3> SUFFICES ASSUME scheme = "dsync" PROVE i = p
      OBVIOUS
    <3>1. PICK e2 \in Events : log[e2].user = i /\ log[e2].key = users[i].ext /\ i \in Person
      BY <2>1, <2>2 DEF UserRowFrom
    <3> QED
      BY <2>1, <3>1, OthersKeys
  <2> QED
    BY <2>1, <2>2, <2>3, <2>4, <2>5 DEF UserRowFrom
<1>2. ASSUME NEW i \in RowsOf(p), NEW j \in RowsOf(p) PROVE i = j
  <2>1. CASE scheme = "dsync"
    BY <1>1, <2>1
  <2>2. CASE scheme # "dsync"
    <3>1. scheme = "legacy"
      BY <2>2, SchemeAssumption DEF TypeInv, TypeOK
    <3>2. PICK e \in Events : log[e].user = p /\ log[e].key = users[i].ext
      BY <1>1
    <3>3. PICK e2 \in Events : log[e2].user = p /\ log[e2].key = users[j].ext
      BY <1>1
    <3>4. log[e].key = log[e2].key
      BY <3>1, <3>2, <3>3 DEF OwnIdentity, Events
    <3>5. users[i].name = users[j].name
      BY <1>1, <2>2, <3>2, <3>3, <3>4
    <3> QED
      BY <1>1, <2>2, <3>5 DEF UserRows, NamesOnce
  <2> QED
    BY <2>1, <2>2
<1> QED
  BY <1>1, <1>2

LEMMA OwnUserEvents ==
    ASSUME TypeInv, NEW p \in Person, NEW e \in UserEvents(p)
    PROVE  /\ e \in Events /\ UserEvent(e) /\ log[e].user = p /\ log[e].key \in KeysOf[p] /\ log[e].key \in Key
           /\ log[e].type \in {"user", "deleted"} /\ e \in Nat
<1>1. e \in Events /\ UserEvent(e) /\ log[e].user = p
  BY DEF UserEvents
<1> QED
  BY <1>1, UserOfEvent DEF UserEvent, Events

(* Nothing in the ledger is newer than a person's newest event. *)
LEMMA NewestStands ==
    ASSUME TypeInv, VersionsFrom, NEW p \in Person, OwnIdentity(p), NEW e, NewestUser(e, p),
           NEW s \in MayScopes(e)
    PROVE  s \in Scope /\ versions[s] \in Nat /\ versions[s] <= e
<1>1. e \in UserEvents(p) /\ \A e2 \in UserEvents(p) : e2 <= e
  BY DEF NewestUser
<1>2. e \in Events /\ UserEvent(e) /\ log[e].user = p /\ e \in Nat
  BY <1>1, OwnUserEvents
<1>3. s \in Scope
  BY <1>2, MayAreScopes
<1>4. versions[s] \in Nat
  BY <1>3, BoundAssumption DEF TypeInv, TypeOK
<1>5. CASE versions[s] # 0
  <2>1. PICK v : v = versions[s] /\ v \in Events /\ s \in MayScopes(v)
    BY <1>3, <1>5 DEF VersionsFrom
  <2>2. s \in (UNION {UserScopes(x) : x \in KeyOfPerson(p)}) \cup Stable(<<"dsync-resource", p>>)
    BY <1>2 DEF MayScopes, UserEvent, MembershipEvent
  <2>3. s = <<"dsync-resource", p>> \/ \E k \in KeyOfPerson(p) : s = <<"user", k>>
    BY <2>2 DEF UserScopes, Stable
  <2>4. s[1] = "user" \/ s[1] = "dsync-resource"
    BY <2>3
  <2>5. UserEvent(v) /\ log[v].user = p
    <3>1. CASE UserEvent(v)
      <4>1. s \in (UNION {UserScopes(x) : x \in KeyOfPerson(log[v].user)}) \cup Stable(<<"dsync-resource", log[v].user>>)
        BY <2>1, <3>1 DEF MayScopes, UserEvent, MembershipEvent
      <4>2. s = <<"dsync-resource", log[v].user>> \/ \E k \in KeyOfPerson(log[v].user) : s = <<"user", k>>
        BY <4>1 DEF UserScopes, Stable
      <4>3. log[v].user \in Person
        BY <2>1, <3>1, EventTyped DEF UserEvent
      <4>4. CASE s = <<"dsync-resource", p>>
        <5>1. s = <<"dsync-resource", log[v].user>>
          BY <4>2, <4>4
        <5>2. s[2] = p /\ s[2] = log[v].user
          BY <4>4, <5>1
        <5> QED
          BY <3>1, <5>2
      <4>5. CASE \E k \in KeyOfPerson(p) : s = <<"user", k>>
        <5>1. PICK k \in KeyOfPerson(p) : s = <<"user", k>>
          BY <4>5
        <5>2. PICK k2 \in KeyOfPerson(log[v].user) : s = <<"user", k2>>
          BY <4>2, <5>1
        <5>3. k = k2
          BY <5>1, <5>2
        <5>4. PICK e1 \in Events : log[e1].user = p /\ log[e1].key = k
          BY <5>1 DEF KeyOfPerson
        <5>5. PICK e2 \in Events : log[e2].user = log[v].user /\ log[e2].key = k
          BY <5>2, <5>3 DEF KeyOfPerson
        <5>6. k \in KeysOf[p]
          BY <5>4, UserOfEvent
        <5>7. log[v].user = p
          BY <4>3, <5>5, <5>6, OthersKeys
        <5> QED
          BY <3>1, <5>7
      <4> QED
        BY <2>3, <4>4, <4>5
    <3>2. CASE MembershipEvent(v)
      <4>1. s \in (UNION {MemberScopes(GroupKeyOf[log[v].group], x) : x \in KeyOfPerson(log[v].user)})
                       \cup Stable(<<"dsync-member", log[v].group, log[v].user>>)
        BY <2>1, <3>2 DEF MayScopes, UserEvent, MembershipEvent
      <4>2. s[1] = "member" \/ s[1] = "dsync-member"
        <5>1. \/ s = <<"dsync-member", log[v].group, log[v].user>>
              \/ \E k \in KeyOfPerson(log[v].user) : s = <<"member", GroupKeyOf[log[v].group], k>>
          BY <4>1 DEF MemberScopes, Stable
        <5> QED
          BY <5>1
      <4> QED
        BY <2>4, <4>2
    <3>3. CASE ~UserEvent(v) /\ ~MembershipEvent(v)
      <4>1. s \in GroupEventScopes(log[v].group)
        BY <2>1, <3>3 DEF MayScopes
      <4>2. s = <<"group", GroupKeyOf[log[v].group]>> \/ s = <<"dsync-resource", log[v].group>>
        BY <4>1 DEF GroupEventScopes, GroupScopes, Stable
      <4>3. log[v].group \in Group
        BY <2>1, <3>3, EventTyped DEF UserEvent, MembershipEvent
      <4>4. s = <<"dsync-resource", log[v].group>> /\ s = <<"dsync-resource", p>>
        <5>1. s[1] # "user"
          BY <4>2
        <5>2. s[1] # "group"
          BY <2>4
        <5> QED
          BY <2>3, <4>2, <5>1, <5>2
      <4>5. log[v].group = p
        BY <4>4
      <4> QED
        BY <4>3, <4>5, IdAssumption
    <3> QED
      BY <3>1, <3>2, <3>3
  <2>6. v \in UserEvents(p)
    BY <2>1, <2>5 DEF UserEvents
  <2> QED
    BY <1>1, <1>3, <1>4, <2>1, <2>6
<1>6. CASE versions[s] = 0
  BY <1>2, <1>3, <1>4, <1>6
<1> QED
  BY <1>5, <1>6

(* The timeline a person is known by throughout. *)
LEMMA StableKnown ==
    ASSUME TypeInv, PersonTold, NEW p \in Person, OwnIdentity(p), NEW e \in Events, log[e].user = p
    PROVE  /\ StableScope(p) \in Scope
           /\ UserEvent(e) => StableScope(p) \in BaseScopes(e)
           /\ StableScope(p) \in UserEventScopes(p, log[e].key)
<1>1. person[p].state # "none"
  BY DEF PersonTold, PersonToldOf
<1>2. person[p].key \in Key /\ \E n \in Events : log[n].user = p /\ log[n].key = person[p].key
  <2>1. person[p].key \in KeysOf[p] /\ \E n \in UserEvents(p) : log[n].key = person[p].key
    BY <1>1, KeyTold
  <2> QED
    BY <2>1, PersonAssumption DEF UserEvents
<1>3. scheme # "dsync" => log[e].key = person[p].key
  <2> SUFFICES ASSUME scheme # "dsync" PROVE log[e].key = person[p].key
    OBVIOUS
  <2>1. scheme = "legacy"
    BY SchemeAssumption DEF TypeInv, TypeOK
  <2> QED
    BY <1>2, <2>1 DEF OwnIdentity, Events
<1>4. StableScope(p) \in Scope
  BY <1>2 DEF StableScope, Scope
<1>5. StableScope(p) \in UserScopes(log[e].key) \cup Stable(<<"dsync-resource", p>>)
  BY <1>3 DEF StableScope, UserScopes, Stable
<1>6. UserEvent(e) => StableScope(p) \in BaseScopes(e)
  BY <1>5 DEF BaseScopes, UserEvent, MembershipEvent
<1> QED
  BY <1>4, <1>5, <1>6 DEF UserEventScopes

-----------------------------------------------------------------------------
(* When a person is settled *)

(* An event is applied to the rows once only its bookkeeping is left. *)
Told(p, e) ==
    NewestUser(e, p) /\ (~live \/ versions[StableScope(p)] = e \/ \E h \in Handler : Done(h, e))
PersonSettles(p) ==
    OwnIdentity(p) => \A e \in UserEvents(p) : Told(p, e) => Reflected(p)
PersonsSettle == \A p \in Person : PersonSettles(p)

LEMMA RowReflects ==
    ASSUME TypeInv, UserRows, NEW p \in Person, OwnIdentity(p), NEW i \in RowsOf(p),
           users[i].ext = person[p].key, users[i].active <=> person[p].state = "active"
    PROVE  Reflected(p)
<1>1. \A j \in RowsOf(p) : j = i
  BY OwnRows
<1> QED
  BY <1>1 DEF Reflected

LEMMA NewestKey ==
    ASSUME TypeInv, PersonTold, NEW p \in Person, NEW e, NewestUser(e, p)
    PROVE  /\ e \in UserEvents(p) /\ log[e].key = person[p].key /\ person[p].key \in KeysOf[p]
           /\ person[p].key \in Key
           /\ log[e].active <=> person[p].state = "active"
           /\ \A e2 \in Events : e2 > e /\ log[e2].user = p =>
                log[e2].key = person[p].key /\ person[p].state = "active"
           /\ \A e2 \in UserEvents(p) : e2 <= e
<1>1. e \in UserEvents(p)
  BY DEF NewestUser
<1>2. PersonToldOf(p)
  BY DEF PersonTold
<1> QED
  BY <1>1, <1>2, OwnUserEvents DEF PersonToldOf, NewestUser

(* The proxy's own writes show every person as WorkOS has them. *)
LEMMA MirroredReflects ==
    ASSUME TypeInv, WorkosOK, UserRows, ~live, NEW p \in Person, OwnIdentity(p), NEW e, NewestUser(e, p)
    PROVE  Reflected(p)
<1>0. PersonTold /\ Mirrored
  BY DEF WorkosOK
<1>1. person[p].key \in KeysOf[p] /\ e \in Events /\ log[e].user = p
  BY <1>0, NewestKey, OwnUserEvents
<1>2. person[p].state # "none"
  BY <1>0, <1>1 DEF PersonTold, PersonToldOf
<1>3. person[p].state \in {"none", "active", "inactive", "gone"}
  BY DEF TypeInv, TypeOK
<1>4. p \in UserId
  BY DEF UserId
<1>5. CASE Present(p)
  <2>1. users[p] = [ext |-> person[p].key, name |-> NameOf[person[p].key], active |-> person[p].state = "active"]
    BY <1>0, <1>4, <1>5 DEF Mirrored
  <2>2. users[p] # None
    <3>1. users[p] \in UserRow
      BY <2>1, <1>1, PersonAssumption DEF UserRow, Name
    <3> QED
      BY <3>1, RowAssumption
  <2>3. users[p].ext = person[p].key /\ (users[p].active <=> person[p].state = "active")
    BY <1>0, <1>4, <2>2, MirroredRow
  <2>4. p \in RowsOf(p)
    BY <1>1, <1>4, <2>2, <2>3 DEF RowsOf
  <2> QED
    BY <2>3, <2>4, RowReflects
<1>6. CASE person[p].state = "gone"
  <2>1. ASSUME NEW i \in RowsOf(p) PROVE FALSE
    <3>1. i \in UserId /\ users[i] # None /\ users[i].ext \in KeysOf[p]
      BY DEF RowsOf
    <3>2. i \in Person /\ Present(i) /\ users[i].ext = person[i].key
      BY <1>0, <3>1, MirroredRow
    <3>3. i # p
      BY <1>6, <3>2 DEF Present
    <3>4. \E n \in UserEvents(i) : log[n].key = person[i].key
      BY <1>0, <3>2, KeyTold DEF Present
    <3> QED
      BY <3>1, <3>2, <3>3, <3>4, OthersKeys DEF UserEvents
  <2> QED
    BY <1>6, <2>1 DEF Reflected
<1> QED
  BY <1>2, <1>3, <1>5, <1>6 DEF Present

(* An event that has nothing to write finds its row as it wants it. *)
LEMMA SameReflects ==
    ASSUME TypeInv, PersonTold, UserRows, NEW p \in Person, OwnIdentity(p), NEW e, NewestUser(e, p),
           ApplyEvent(e) = <<>>
    PROVE  Reflected(p)
<1>1. e \in Events /\ log[e].user = p /\ log[e].key \in Key /\ log[e].key \in KeysOf[p] /\ log[e].type \in {"user", "deleted"}
  BY OwnUserEvents DEF NewestUser
<1>2. log[e].key = person[p].key /\ (log[e].active <=> person[p].state = "active")
  BY NewestKey
<1>0. TypeOK
  BY DEF TypeInv
<1>3. CASE log[e].type = "user"
  <2>1. Same(e)
    <3>1. ApplyEvent(e) = IF Same(e) THEN <<>> ELSE IF ChangesHands(e) THEN <<ClearHit(e), PutHit(e)>> ELSE <<PutHit(e)>>
      BY <1>3, ApplyForms
    <3>2. \A x, y : <<x>> # <<>> /\ <<x, y>> # <<>>
      OBVIOUS
    <3> QED
      BY <3>1, <3>2
  <2>2. PICK i \in UserId : i = FindUser(e) /\ users[i] # None
    BY <1>0, <1>1, <2>1, FoundUser DEF Same
  <2>3. users[i] = UserRowOf(log[e])
    BY <2>1, <2>2 DEF Same
  <2>4. users[i].ext = log[e].key /\ users[i].active = log[e].active
    BY <2>3 DEF UserRowOf
  <2>5. i \in RowsOf(p)
    BY <1>1, <2>2, <2>4 DEF RowsOf
  <2> QED
    BY <1>2, <2>4, <2>5, RowReflects
<1>4. CASE log[e].type = "deleted"
  <2>1. FindUser(e) = None
    <3>1. ApplyEvent(e) = IF FindUser(e) = None THEN <<>> ELSE <<PutGone(e)>>
      BY <1>4, ApplyForms
    <3>2. \A x : <<x>> # <<>>
      OBVIOUS
    <3> QED
      BY <3>1, <3>2
  <2>2. person[p].state # "active"
    BY <1>1, <1>2, <1>4, EventTyped DEF EventShape
  <2>3. ASSUME NEW i \in RowsOf(p) PROVE FALSE
    <3>1. /\ i \in UserId /\ users[i] # None
          /\ \E e2 \in Events : log[e2].user = p /\ log[e2].key = users[i].ext
          /\ scheme = "dsync" => i = p
          /\ scheme # "dsync" => users[i].name = NameOf[users[i].ext]
      BY OwnRows
    <3>2. CASE scheme = "dsync"
      BY <1>0, <1>1, <2>1, <3>1, <3>2, FoundUser
    <3>3. CASE scheme # "dsync"
      <4>1. scheme = "legacy"
        BY <1>0, <3>3, SchemeAssumption DEF TypeOK
      <4>2. users[i].ext = log[e].key
        BY <1>1, <3>1, <4>1 DEF OwnIdentity, Events
      <4> QED
        BY <1>0, <1>1, <2>1, <3>1, <3>3, <4>2, FoundUser
    <3> QED
      BY <3>2, <3>3
  <2> QED
    BY <2>2, <2>3 DEF Reflected
<1> QED
  BY <1>1, <1>3, <1>4

-----------------------------------------------------------------------------
(* Deliveries that come to an end of their writes *)

LEMMA SettleSame ==
    ASSUME UNCHANGED <<log, person, scheme, users>>, NEW p \in Person, PersonSettles(p),
           \A e \in UserEvents(p) : (OwnIdentity(p) /\ NewestUser(e, p) /\ Told(p, e)') => Told(p, e) \/ Reflected(p)
    PROVE  PersonSettles(p)'
<1>1. OwnIdentity(p)' <=> OwnIdentity(p)
  BY DEF OwnIdentity
<1>2. UserEvents(p)' = UserEvents(p)
  BY DEF UserEvents, UserEvent, Events
<1>3. Reflected(p)' <=> Reflected(p)
  BY DEF Reflected, RowsOf
<1>4. \A e : NewestUser(e, p)' <=> NewestUser(e, p)
  BY <1>2 DEF NewestUser
<1> SUFFICES ASSUME OwnIdentity(p)', NEW e \in UserEvents(p)', Told(p, e)'
             PROVE  Reflected(p)'
  BY DEF PersonSettles
<1>5. NewestUser(e, p)' /\ e \in UserEvents(p)
  BY <1>2 DEF Told
<1> QED
  BY <1>1, <1>3, <1>4, <1>5 DEF PersonSettles

(* What a delivery is about stays its event. *)
LEMMA DoneSame ==
    ASSUME NEW h, NEW e, run'[h] = run[h]
    PROVE  Done(h, e)' <=> Done(h, e)
  BY DEF Done, Dry, Native

LEMMA MirroredReflectsNext ==
    ASSUME NEW p \in Person, NEW e
    PROVE  (TypeInv /\ WorkosOK /\ UserRows /\ ~live /\ OwnIdentity(p) /\ NewestUser(e, p) => Reflected(p))'
<1>1. TypeInv /\ WorkosOK /\ UserRows /\ ~live /\ OwnIdentity(p) /\ NewestUser(e, p) => Reflected(p)
  BY MirroredReflects
<1> QED
  BY <1>1, PTL

LEMMA StableKnownNext ==
    ASSUME NEW p \in Person, NEW e
    PROVE  (TypeInv /\ PersonTold /\ OwnIdentity(p) /\ e \in Events /\ log[e].user = p => StableScope(p) \in Scope)'
<1>1. TypeInv /\ PersonTold /\ OwnIdentity(p) /\ e \in Events /\ log[e].user = p => StableScope(p) \in Scope
  BY StableKnown
<1> QED
  BY <1>1, PTL

Shown(p, i) ==
    /\ i \in RowsOf(p) /\ users[i].ext = person[p].key
    /\ users[i].active <=> person[p].state = "active"

LEMMA RowReflectsNext ==
    ASSUME NEW p \in Person, NEW i
    PROVE  (TypeInv /\ UserRows /\ OwnIdentity(p) /\ Shown(p, i) => Reflected(p))'
<1>1. TypeInv /\ UserRows /\ OwnIdentity(p) /\ Shown(p, i) => Reflected(p)
  BY RowReflects DEF Shown
<1> QED
  BY <1>1, PTL

LEMMA EmitSettles ==
    ASSUME TypeInv, WorkosOK, UserRows, ScopeOK, TypeInv', WorkosOK', UserRows', NEW p \in Person, PersonSettles(p),
           NEW ev \in Event, Emit(ev), Change(ev)
    PROVE  PersonSettles(p)'
<1> SUFFICES ASSUME OwnIdentity(p)', NEW e \in UserEvents(p)', Told(p, e)'
             PROVE  Reflected(p)'
  BY DEF PersonSettles
<1>1. PICK n \in Nat :
              /\ n = Len(log) /\ Events = 1..n /\ Events' = (1..n) \cup {n + 1} /\ n + 1 \notin 1..n
              /\ \A i \in 1..n : log'[i] = log[i] /\ i < n + 1 /\ i \in Nat
              /\ log'[n + 1] = ev
              /\ \A q : UserEvents(q)' = UserEvents(q) \cup
                           (IF ev.type \in {"user", "deleted"} /\ ev.user = q THEN {n + 1} ELSE {})
              /\ \A q : UserEvents(q) \subseteq 1..n
  BY EmitLog
<1>2. UNCHANGED <<scheme, live, run, versions>>
  BY DEF Emit, ledger
<1>3. live \in BOOLEAN /\ NewestUser(e, p)' /\ e \in Events'
  BY DEF TypeInv, TypeOK, Told, UserEvents
<1>4. CASE ~live'
  BY <1>3, <1>4, MirroredReflectsNext
<1>5. CASE live'
  <2>1. users' = users
    BY <1>2, <1>5 DEF Emit, DirectWrite, native
  <2>2. /\ StableScope(p)' \in Scope
    <3>2. log'[e].user = p
      BY DEF UserEvents
    <3> QED
      BY <1>3, <3>2, StableKnownNext DEF WorkosOK
  <2>3. PICK s \in Scope : s = StableScope(p)'
    BY <2>2
  <2>4. versions[s] = e \/ \E h \in Handler : Done(h, e)
    <3>1. versions'[StableScope(p)'] = e \/ \E h \in Handler : Done(h, e)'
      BY <1>5 DEF Told
    <3> QED
      BY <1>2, <2>3, <3>1, DoneSame
  <2>5. e \in 1..n
    <3>1. e # 0
      BY <1>1, <1>3
    <3>2. CASE versions[s] = e
      <4>1. e \in Events
        BY <2>3, <3>1, <3>2 DEF ScopeOK, VersionsFrom
      <4> QED
        BY <1>1, <4>1
    <3>3. CASE \E h \in Handler : Done(h, e)
      <4>1. PICK h \in Handler : run[h].pc = "write" /\ run[h].event = e
        BY <3>3 DEF Done
      <4> QED
        BY <1>1, <4>1, WriteParts
    <3> QED
      BY <2>4, <3>2, <3>3
  <2>6. e \in UserEvents(p) /\ ~(ev.type \in {"user", "deleted"} /\ ev.user = p)
    <3>1. e \in UserEvents(p) /\ e < n + 1 /\ e \in Nat
      BY <1>1, <2>5
    <3>2. \A e2 \in UserEvents(p)' : e2 <= e
      BY <1>3 DEF NewestUser
    <3>3. ~(n + 1 <= e)
      BY <1>1, <3>1
    <3> QED
      BY <1>1, <3>1, <3>2, <3>3
  <2>7. UserEvents(p)' = UserEvents(p) /\ NewestUser(e, p)
    BY <1>1, <1>3, <2>6 DEF NewestUser
  <2>8. person'[p] = person[p]
    <3>1. CASE UserChange(ev)
      <4>1. ev.user # p
        BY <2>6, <3>1 DEF UserChange
      <4>2. PICK x : person' = [person EXCEPT ![ev.user] = x]
        BY <3>1 DEF UserChange
      <4> QED
        BY <4>1, <4>2 DEF TypeInv, TypeOK
    <3>2. CASE GroupChange(ev) \/ MemberChange(ev)
      BY <3>2 DEF GroupChange, MemberChange
    <3> QED
      BY <3>1, <3>2 DEF Change
  <2>9. OwnIdentity(p)
    <3>1. \A i \in 1..n : i \in 1..Len(log')
      BY <1>1 DEF Events
    <3> QED
      BY <1>1, <1>2, <3>1 DEF OwnIdentity
  <2>10. StableScope(p)' = StableScope(p) /\ (Reflected(p)' <=> Reflected(p))
    BY <1>2, <2>1, <2>8 DEF StableScope, Reflected, RowsOf
  <2>11. Told(p, e)
    BY <2>3, <2>4, <2>7, <2>10 DEF Told
  <2> QED
    BY <2>6, <2>9, <2>10, <2>11 DEF PersonSettles
<1>6. live' \in BOOLEAN
  BY <1>2, <1>3
<1> QED
  BY <1>4, <1>5, <1>6

(* A delivery comes to have nothing to write but its bookkeeping: from the     *)
(* start, when its event is late; or once the rows are read.                   *)
LEMMA DeliverDone ==
    ASSUME TypeInv, NEW h \in Handler, NEW d, Deliver(h, d), live, NEW h2 \in Handler, NEW e, Done(h2, e)', ~Done(h2, e)
    PROVE  e = d /\ ~IsNewestAcross(EventScopes(e), e)
<1>4. PICK r : /\ run' = [run EXCEPT ![h] = r]
               /\ IF ~IsNewestAcross(EventScopes(d), d) THEN r.event = d ELSE r.pc = "resolve"
  <2> DEFINE scopes == SetToSeq(EventScopes(d))
             x == [pc |-> "write", event |-> d, scopes |-> scopes, todo |-> RecordEvent("processed")]
             y == [pc |-> "resolve", event |-> d, scopes |-> scopes, todo |-> <<>>]
  <2>1. run' = [run EXCEPT ![h] = IF ~IsNewestAcross(EventScopes(d), d) THEN x ELSE y]
    BY DEF Deliver
  <2>2. x.event = d /\ y.pc = "resolve"
    OBVIOUS
  <2> HIDE DEF x, y
  <2> QED
    BY <2>1, <2>2
<1>5. h2 = h
  <2>1. h2 # h => run'[h2] = run[h2]
    BY <1>4 DEF TypeInv, TypeOK
  <2> QED
    BY <2>1, DoneSame
<1>6. run'[h] = r /\ run'[h].pc = "write" /\ run'[h].event = e
  BY <1>4, <1>5, RunOf DEF Done
<1> QED
  BY <1>4, <1>6

LEMMA PlanDone ==
    ASSUME TypeInv, NEW h \in Handler, Plan(h), NEW h2 \in Handler, NEW e, Done(h2, e)', ~Done(h2, e)
    PROVE  e \in Events /\ ApplyEvent(e) = <<>>
<1>4. PICK a, b, c : /\ a = ApplyEvent(run[h].event)
                     /\ b = RecordVersions(run[h].scopes) /\ c = RecordEvent("processed")
  OBVIOUS
<1>5. PICK r : run' = [run EXCEPT ![h] = r] /\ r = [run[h] EXCEPT !.pc = "write", !.todo = a \o b \o c]
  BY <1>4 DEF Plan
<1>6. h2 = h
  <2>1. h2 # h => run'[h2] = run[h2]
    BY <1>5 DEF TypeInv, TypeOK
  <2> QED
    BY <2>1, DoneSame
<1>7. run[h] \in Run(Len(log)) /\ run'[h] = r /\ run[h].scopes \in Seq(Scope) /\ run[h].pc = "plan" /\ Shaped(h)
  BY <1>5, RunOf DEF Plan
<1>8. r.event = run[h].event /\ r.todo = a \o b \o c
  BY <1>5, <1>7 DEF Run
<1>9. e = run[h].event /\ e \in Events
  BY <1>6, <1>7, <1>8 DEF Done, Shaped
<1>10. a \in Seq(Statement) /\ (\A i \in 1..Len(a) : Native(a[i])) /\ b \in Seq(Statement) /\ c \in Seq(Statement)
  <2>1. TypeOK /\ EventsShaped
    BY DEF TypeInv
  <2> QED
    BY <1>4, <1>7, <1>9, <2>1, ApplyTyped, ApplyNative, RestTyped
<1>11. a = <<>>
  <2> SUFFICES ASSUME a # <<>> PROVE FALSE
    OBVIOUS
  <2>1. Len(a) \in Nat /\ Len(a) >= 1
    BY <1>10, SeqParts
  <2>2. 1 \in 1..Len(a)
    BY <2>1
  <2>3. (a \o b) \in Seq(Statement) /\ (a \o b)[1] = a[1] /\ Len(a \o b) \in Nat /\ Len(a \o b) >= 1
    BY <1>10, <2>1, <2>2, Concat
  <2>4. PICK ab \in Seq(Statement) : ab = a \o b
    BY <2>3
  <2>5. (ab \o c)[1] = ab[1] /\ Len(ab \o c) = Len(ab) + Len(c) /\ Len(c) \in Nat
    BY <1>10, <2>3, <2>4, Concat
  <2>6. 1 \in 1..Len(ab \o c)
    BY <2>3, <2>4, <2>5
  <2>7. \A i \in 1..Len(ab \o c) : ~Native((ab \o c)[i])
    BY <1>6, <1>7, <1>8, <2>4 DEF Done, Dry, Native
  <2> QED
    BY <1>10, <2>2, <2>3, <2>4, <2>5, <2>6, <2>7
<1> QED
  BY <1>4, <1>9, <1>11

LEMMA DeliverSettles ==
    ASSUME TypeInv, WorkosOK, UserRows, ScopeOK, NEW p \in Person, PersonSettles(p),
           NEW h \in Handler, NEW d \in 1..Len(log), Deliver(h, d)
    PROVE  PersonSettles(p)'
<1>1. UNCHANGED <<log, person, scheme, users, live, versions>>
  BY DEF Deliver, workos, native, ledger
<1> SUFFICES ASSUME NEW e \in UserEvents(p), OwnIdentity(p), NewestUser(e, p), Told(p, e)', ~Told(p, e)
             PROVE  FALSE
  BY <1>1, SettleSame
<1>2. StableScope(p)' = StableScope(p)
  BY <1>1 DEF StableScope
<1>3. PICK h2 \in Handler : Done(h2, e)' /\ ~Done(h2, e) /\ live
  BY <1>1, <1>2 DEF Told
<1>7. ~IsNewestAcross(EventScopes(e), e)
  BY <1>3, DeliverDone
<1>8. e \in Events /\ e \in Nat
  BY OwnUserEvents
<1>9. PICK s \in MayScopes(e) : ~(e >= versions[s])
  <2>1. EventScopes(e) \subseteq MayScopes(e)
    BY <1>8, BaseKnown
  <2> QED
    BY <1>7, <2>1 DEF IsNewestAcross
<1>10. versions[s] \in Nat /\ versions[s] <= e
  BY NewestStands DEF ScopeOK
<1> QED
  BY <1>8, <1>9, <1>10

LEMMA PlanSettles ==
    ASSUME TypeInv, WorkosOK, UserRows, NEW p \in Person, PersonSettles(p),
           NEW h \in Handler, Plan(h)
    PROVE  PersonSettles(p)'
<1>1. UNCHANGED <<log, person, scheme, users, live, versions>>
  BY DEF Plan, workos, native, ledger
<1> SUFFICES ASSUME NEW e \in UserEvents(p), OwnIdentity(p), NewestUser(e, p), Told(p, e)', ~Told(p, e)
             PROVE  Reflected(p)
  BY <1>1, SettleSame
<1>2. StableScope(p)' = StableScope(p)
  BY <1>1 DEF StableScope
<1>3. PICK h2 \in Handler : Done(h2, e)' /\ ~Done(h2, e)
  BY <1>1, <1>2 DEF Told
<1> QED
  BY <1>3, PlanDone, SameReflects DEF WorkosOK

-----------------------------------------------------------------------------
(* Writes and whom they settle *)

(* Writing another person's row leaves the rows of this one. *)
LEMMA OthersPut ==
    ASSUME TypeInv, UserRows, NEW p \in Person, OwnIdentity(p), NEW h, NEW e \in Events, log[e].user \in Person,
           log[e].key \in Key, log[e].user # p, NEW i \in UserId, NEW row \in UserRow, UserPut(h, e, i, row),
           UNCHANGED person, Reflected(p)
    PROVE  Reflected(p)'
<1>1. users \in [UserId -> UserRow \cup {None}]
  BY DEF TypeInv, TypeOK
<1>2. users' = [users EXCEPT ![i] = row] /\ row.ext = log[e].key
  BY DEF UserPut
<1>3. NameOf[log[e].key] \notin {NameOf[k] : k \in KeysOf[p]} /\ log[e].key \notin KeysOf[p]
  BY OthersKeys
<1>4. i = UserHit(e)
  BY DEF UserPut, UserHit
<1>5. i \notin RowsOf(p)
  <2> SUFFICES ASSUME i \in RowsOf(p) PROVE FALSE
    OBVIOUS
  <2>1. /\ users[i] # None /\ users[i].ext \in KeysOf[p]
        /\ scheme = "dsync" => i = p
        /\ scheme # "dsync" => users[i].name = NameOf[users[i].ext]
    BY OwnRows
  <2>2. /\ scheme = "dsync" => i = log[e].user
        /\ scheme # "dsync" => users[i].name = NameOf[log[e].key]
    BY <1>4, <2>1, HitRow
  <2> QED
    BY <1>3, <2>1, <2>2
<1>6. i \notin RowsOf(p)'
  <2>1. users'[i].ext = log[e].key
    BY <1>1, <1>2
  <2> QED
    BY <1>3, <2>1 DEF RowsOf
<1>7. \A j \in UserId : j # i => users'[j] = users[j]
  BY <1>1, <1>2
<1>8. RowsOf(p)' = RowsOf(p) /\ \A j \in RowsOf(p) : users'[j] = users[j]
  BY <1>5, <1>6, <1>7 DEF RowsOf
<1> QED
  BY <1>8 DEF Reflected

LEMMA PutSettles ==
    ASSUME Single, ListenerInv, ListenerInv', ScopeOK, NEW p \in Person, PersonSettles(p),
           NEW h \in Handler, Write(h), users' # users \/ Head(run[h].todo).op = "putUser"
    PROVE  PersonSettles(p)'
<1>0. TypeInv /\ WorkosOK /\ PersonTold /\ UserRows /\ FlightInv /\ Owed(h) /\ Fresh(h) /\ TypeInv' /\ UserRows'
  BY DEF ListenerInv, WorkosOK, FlightInv
<1>1. UNCHANGED <<log, person, scheme, live>>
  BY DEF Write, workos
<1>2. OwnIdentity(p)' <=> OwnIdentity(p)
  BY <1>1 DEF OwnIdentity
<1>3. UserEvents(p)' = UserEvents(p)
  BY <1>1 DEF UserEvents, UserEvent, Events
<1>4. \A n : NewestUser(n, p)' <=> NewestUser(n, p)
  BY <1>3 DEF NewestUser
<1>5. StableScope(p)' = StableScope(p)
  BY <1>1 DEF StableScope
<1> SUFFICES ASSUME OwnIdentity(p)', NEW n \in UserEvents(p)', Told(p, n)'
             PROVE  Reflected(p)'
  BY DEF PersonSettles
<1>6. OwnIdentity(p) /\ n \in UserEvents(p) /\ NewestUser(n, p)
  BY <1>2, <1>3, <1>4 DEF Told
<1>7. /\ n \in Events /\ UserEvent(n) /\ log[n].user = p /\ n \in Nat
      /\ person[p].key \in KeysOf[p]
      /\ \A e2 \in Events : e2 > n /\ log[e2].user = p =>
                log[e2].key = person[p].key /\ person[p].state = "active"
      /\ \A e2 \in UserEvents(p) : e2 <= n
  BY <1>0, <1>6, NewestKey, OwnUserEvents
<1>c. PICK e : e = run[h].event
  OBVIOUS
<1>8. /\ ~Dry(h) /\ e \in Events /\ live /\ log[e].user \in Person /\ log[e].key \in Key
      /\ \E i \in UserId, row \in UserRow : UserPut(h, e, i, row)
  BY <1>0, <1>c, UserWrite
<1>9. PICK i \in UserId, row \in UserRow : UserPut(h, e, i, row)
  BY <1>8
<1>10. /\ run[h].pc = "write" /\ run'[h].event = e /\ UNCHANGED versions
  <2>1. run[h].pc = "write"
    BY DEF Write
  <2>2. run'[h].event = e /\ UNCHANGED versions
    BY <1>0, <1>8, <1>c, WriteHeads
  <2> QED
    BY <2>1, <2>2
<1>11. versions[StableScope(p)] = n \/ e = n
  <2>1. versions[StableScope(p)] = n \/ \E h2 \in Handler : Done(h2, n)'
    BY <1>1, <1>5, <1>8, <1>10 DEF Told
  <2>2. \A h2 \in Handler : Done(h2, n)' => e = n
    BY <1>10 DEF Single, Done
  <2> QED
    BY <2>1, <2>2
<1>12. StableScope(p) \in Scope /\ versions[StableScope(p)] \in Nat /\ e \in Nat
  <2>1. StableScope(p) \in Scope
    BY <1>0, <1>6, <1>7, StableKnown
  <2> QED
    BY <1>0, <1>8, <2>1, BoundAssumption DEF TypeInv, TypeOK, Events
<1>13. users'[i] = row /\ row.ext = log[e].key
  BY <1>0, <1>9 DEF UserPut, TypeInv, TypeOK
<1>14. CASE log[e].user = p
  <2>1. log[e].key = person[p].key /\ (row.active <=> person[p].state = "active")
    <3>1. CASE UserEvent(e)
      <4>1. e = n
        <5>1. e \in UserEvents(p)
          BY <1>8, <1>14, <3>1 DEF UserEvents
        <5>2. CASE versions[StableScope(p)] = n
          <6>1. StableScope(p) \in BaseScopes(e)
            BY <1>0, <1>6, <1>8, <1>14, <3>1, StableKnown
          <6>2. BaseScopes(e) \subseteq ToSet(run[h].scopes)
            BY <1>10, <1>c DEF ScopeOK, ScopesSafe, ScopesKnown
          <6>3. ~(versions[StableScope(p)] > e)
            BY <1>0, <1>8, <1>10, <1>c, <6>1, <6>2 DEF Fresh, Superseded
          <6> QED
            BY <1>7, <1>12, <5>1, <5>2, <6>3
        <5> QED
          BY <1>11, <5>2
      <4>2. log[n].key = person[p].key /\ (log[n].active <=> person[p].state = "active")
        BY <1>0, <1>6, NewestKey
      <4>3. CASE log[e].type = "deleted"
        <5>1. FindUser(e) # None /\ i = FindUser(e) /\ row = [users[i] EXCEPT !.ext = log[e].key, !.active = FALSE]
          BY <1>9, <4>3 DEF UserPut
        <5>2. users[i] \in UserRow
          <6>1. UserHit(e) = i /\ users[UserHit(e)] \in UserRow
            BY <1>0, <1>8, <5>1, HitRow
          <6> QED
            BY <6>1
        <5>3. ~row.active
          BY <5>1, <5>2 DEF UserRow
        <5>4. ~log[e].active
          BY <1>0, <1>8, <4>3, EventTyped DEF EventShape
        <5> QED
          BY <4>1, <4>2, <5>3, <5>4
      <4>4. CASE log[e].type # "deleted"
        <5>1. row = UserRowOf(log[e])
          BY <1>9, <4>4 DEF UserPut
        <5>2. row.active = log[e].active
          BY <5>1 DEF UserRowOf
        <5> QED
          BY <4>1, <4>2, <5>2
      <4> QED
        BY <4>3, <4>4
    <3>2. CASE ~UserEvent(e)
      <4>1. log[e].type = "added" /\ UserGate(e) /\ FindUser(e) = None /\ row = UserRowOf(log[e])
        BY <1>9, <3>2 DEF UserPut, UserEvent
      <4>2. e # n /\ versions[StableScope(p)] = n
        BY <1>7, <1>11, <3>2
      <4>3. StableScope(p) \in UserEventScopes(p, log[e].key)
        BY <1>0, <1>6, <1>8, <1>14, StableKnown
      <4>4. e >= versions[StableScope(p)]
        BY <1>14, <4>1, <4>3 DEF UserGate, IsNewestAcross
      <4>5. e > n
        BY <1>7, <1>12, <4>2, <4>4
      <4>6. log[e].key = person[p].key /\ person[p].state = "active"
        BY <1>7, <1>8, <1>14, <4>5
      <4>7. log[e].active
        BY <1>0, <1>8, <4>1, EventTyped DEF EventShape
      <4>8. row.active = log[e].active
        BY <4>1 DEF UserRowOf
      <4> QED
        BY <4>6, <4>7, <4>8
    <3> QED
      BY <3>1, <3>2
  <2>2. Shown(p, i)'
    <3>1. i \in RowsOf(p)'
      BY <1>7, <1>13, <2>1, RowAssumption DEF RowsOf
    <3> QED
      BY <1>1, <1>13, <2>1, <3>1 DEF Shown
  <2> QED
    BY <1>0, <2>2, RowReflectsNext
<1>15. CASE log[e].user # p
  <2>1. e # n
    BY <1>7, <1>15
  <2>2. Told(p, n)
    BY <1>6, <1>11, <2>1 DEF Told
  <2>3. Reflected(p)
    BY <1>6, <2>2 DEF PersonSettles
  <2> QED
    BY <1>0, <1>1, <1>6, <1>8, <1>9, <1>15, <2>3, OthersPut
<1> QED
  BY <1>14, <1>15

(* ... or with its last write; and only then does it advance its scopes.      *)
LEMMA WriteDone ==
    ASSUME Single, TypeInv, NEW h \in Handler, Owed(h), Write(h)
    PROVE  /\ \A h2 \in Handler : \A e : Done(h2, e)' /\ ~Done(h2, e) => ~Dry(h) /\ Dry(h)' /\ e = run[h].event
           /\ \A s \in Scope : versions'[s] # versions[s] => versions'[s] \in Events /\ Done(h, versions'[s])
<1>c. PICK e, st : e = run[h].event /\ st = Head(run[h].todo)
  OBVIOUS
<1>1. run[h].pc = "write" /\ (run'[h] = Idle \/ run'[h] = [run[h] EXCEPT !.todo = Tail(run[h].todo)])
  BY WriteNext
<1>2. ASSUME NEW h2 \in Handler, NEW n, Done(h2, n)', ~Done(h2, n) PROVE ~Dry(h) /\ Dry(h)' /\ n = e
  <2>1. h2 = h
    BY DEF Single
  <2>2. run'[h].pc = "write" /\ run'[h].event = n /\ Dry(h)'
    BY <1>2, <2>1 DEF Done
  <2>3. e = n
    <3>1. run'[h] # Idle
      BY <2>2 DEF Idle
    <3>2. run[h] \in Run(Len(log))
      BY RunOf
    <3> QED
      BY <1>1, <1>c, <2>2, <3>1, <3>2 DEF Run
  <2> QED
    BY <1>1, <1>2, <1>c, <2>1, <2>2, <2>3 DEF Done
<1>3. ASSUME NEW s \in Scope, versions'[s] # versions[s] PROVE versions'[s] \in Events /\ Done(h, versions'[s])
  <2>1. versions'[s] = e /\ Head(run[h].todo).op = "version" /\ e \in Events
    BY <1>3, <1>c, VersionWrite
  <2>2. Dry(h)
    <3> SUFFICES ASSUME ~Dry(h) PROVE FALSE
      OBVIOUS
    <3>1. Native(Head(run[h].todo))
      BY <1>c, WriteHeads
    <3> QED
      BY <2>1, <3>1 DEF Native
  <2> QED
    BY <1>1, <1>c, <2>1, <2>2 DEF Done
<1> QED
  BY <1>2, <1>3, <1>c

LEMMA WriteSettles ==
    ASSUME Single, ListenerInv, ListenerInv', ScopeOK, NEW p \in Person, PersonSettles(p),
           NEW h \in Handler, Write(h)
    PROVE  PersonSettles(p)'
<1>1. CASE users' # users \/ Head(run[h].todo).op = "putUser"
  BY <1>1, PutSettles
<1>2. CASE users' = users /\ Head(run[h].todo).op # "putUser"
  <2>0. TypeInv /\ PersonTold /\ UserRows /\ Owed(h)
    BY DEF ListenerInv, WorkosOK, FlightInv
  <2>1. UNCHANGED <<log, person, scheme, live, users>>
    BY <1>2 DEF Write, workos
  <2> SUFFICES ASSUME NEW n \in UserEvents(p), OwnIdentity(p), NewestUser(n, p), Told(p, n)', ~Told(p, n)
               PROVE  FALSE
    BY <2>1, SettleSame
  <2>2. StableScope(p)' = StableScope(p)
    BY <2>1 DEF StableScope
  <2>3. /\ live /\ versions[StableScope(p)] # n /\ \A h2 \in Handler : ~Done(h2, n)
        /\ versions'[StableScope(p)] = n \/ \E h2 \in Handler : Done(h2, n)'
    BY <2>1, <2>2 DEF Told
  <2>c. PICK e, st : e = run[h].event /\ st = Head(run[h].todo)
    OBVIOUS
  <2>4. /\ n \in Events /\ UserEvent(n) /\ log[n].user = p
    BY <2>0, OwnUserEvents
  <2>5. StableScope(p) \in Scope
    BY <2>0, <2>4, StableKnown
  <2>6. versions'[StableScope(p)] # n
    BY <2>0, <2>3, <2>5, WriteDone
  <2>7. ~Dry(h) /\ Dry(h)' /\ e = n
    BY <2>0, <2>3, <2>6, <2>c, WriteDone
  <2>8. PICK b : b = Dry(h)' /\ Heads(e, st, b)
    <3>1. PICK b : b = Dry(h)'
      OBVIOUS
    <3>2. Heads(e, st, Dry(h)')
      BY <2>0, <2>7, <2>c, WriteHeads
    <3> QED
      BY <3>1, <3>2
  <2>9. st = PutHit(e) \/ st = PutGone(e)
    BY <2>4, <2>7, <2>8 DEF Heads, UserEvent
  <2>10. PutHit(e).op = "putUser" /\ PutGone(e).op = "putUser"
    BY PutFields
  <2>11. st.op # "putUser"
    BY <1>2, <2>c
  <2> QED
    BY <2>9, <2>10, <2>11, Zenon
<1> QED
  BY <1>1, <1>2

-----------------------------------------------------------------------------
(* Every person settles *)

LEMMA InitSettles == Init => PersonsSettle
<1>1. Init => Events = {}
  BY DEF Init, Events
<1> QED
  BY <1>1 DEF PersonsSettle, PersonSettles, UserEvents

LEMMA StepSettles ==
    ASSUME Single, ListenerInv, ListenerInv', ScopeOK, PersonsSettle, [Next]_vars
    PROVE  PersonsSettle'
<1> SUFFICES ASSUME NEW p \in Person PROVE PersonSettles(p)'
  BY DEF PersonsSettle
<1>0. /\ PersonSettles(p) /\ TypeInv /\ WorkosOK /\ UserRows /\ TypeInv' /\ WorkosOK' /\ UserRows'
  BY DEF PersonsSettle, ListenerInv
<1>1. CASE WorkosStep
  <2>1. PICK ev \in Event : Emit(ev) /\ Change(ev)
    BY <1>0, <1>1, WorkosChanges DEF TypeInv
  <2> QED
    BY <1>0, <2>1, EmitSettles
<1>2. CASE Cutover \/ UNCHANGED vars
  <2>1. UNCHANGED <<log, person, scheme, users, versions, run>> /\ (live' = live \/ ~live)
    BY <1>2 DEF Cutover, vars, workos, native, ledger
  <2>2. StableScope(p)' = StableScope(p)
    BY <2>1 DEF StableScope
  <2>3. ASSUME NEW e \in UserEvents(p), NewestUser(e, p), Told(p, e)' PROVE Told(p, e)
    BY <2>1, <2>2, <2>3, DoneSame DEF Told
  <2> QED
    BY <1>0, <2>1, <2>3, SettleSame
<1>3. ASSUME NEW h \in Handler, Resolve(h) \/ WriteRefused(h) \/ Fault(h) PROVE PersonSettles(p)'
  <2>1. UNCHANGED <<log, person, scheme, users, versions, live>>
    BY <1>3 DEF Resolve, WriteRefused, Fault, workos, native, ledger
  <2>2. StableScope(p)' = StableScope(p)
    BY <2>1 DEF StableScope
  <2>3. PICK r : run' = [run EXCEPT ![h] = r] /\ r.pc # "write"
    <3>1. CASE Resolve(h)
      <4>1. PICK b : run' = [run EXCEPT ![h] = IF b THEN [run[h] EXCEPT !.pc = "plan"] ELSE Idle]
        BY <3>1 DEF Resolve
      <4>2. [run[h] EXCEPT !.pc = "plan"].pc # "write" /\ Idle.pc # "write"
        BY <1>0, RunOf DEF Run, Idle
      <4> QED
        BY <4>1, <4>2
    <3>2. CASE WriteRefused(h) \/ Fault(h)
      <4>1. run' = [run EXCEPT ![h] = Idle]
        BY <3>2 DEF WriteRefused, Fault
      <4>2. Idle.pc # "write"
        BY DEF Idle
      <4> QED
        BY <4>1, <4>2
    <3> QED
      BY <1>3, <3>1, <3>2
  <2>4. ASSUME NEW e, NEW h2 \in Handler, Done(h2, e)' PROVE Done(h2, e)
    <3>1. run'[h] = r
      BY <1>0, <2>3, RunOf
    <3>2. h2 # h
      BY <2>3, <2>4, <3>1 DEF Done
    <3>3. run'[h2] = run[h2]
      BY <1>0, <2>3, <3>2 DEF TypeInv, TypeOK
    <3> QED
      BY <2>4, <3>3, DoneSame
  <2>5. ASSUME NEW e \in UserEvents(p), NewestUser(e, p), Told(p, e)' PROVE Told(p, e)
    BY <2>1, <2>2, <2>4, <2>5 DEF Told
  <2> QED
    BY <1>0, <2>1, <2>5, SettleSame
<1>4. ASSUME NEW h \in Handler, Plan(h) PROVE PersonSettles(p)'
  BY <1>0, <1>4, PlanSettles
<1>5. ASSUME NEW h \in Handler, Write(h) PROVE PersonSettles(p)'
  BY <1>0, <1>5, WriteSettles
<1>6. ASSUME NEW h \in Handler, NEW e \in 1..Len(log), Deliver(h, e) PROVE PersonSettles(p)'
  BY <1>0, <1>6, DeliverSettles
<1> QED
  BY <1>1, <1>2, <1>3, <1>4, <1>5, <1>6 DEF Next, HandlerStep

(* Once everything is recorded, every person's newest event was applied. *)
LEMMA QuietReflects ==
    ASSUME ListenerInv, ScopeOK, PersonsSettle, Quiet, NEW p \in Person, OwnIdentity(p)
    PROVE  Reflected(p)
<1>0. TypeInv /\ PersonTold /\ UserRows /\ PersonSettles(p) /\ VersionsFrom /\ RecordedKnown
  BY DEF ListenerInv, WorkosOK, PersonsSettle, ScopeOK
<1>1. CASE person[p].state = "none"
  <2>1. \A i \in RowsOf(p) : FALSE
    BY <1>0, <1>1, OwnRows DEF PersonTold, PersonToldOf
  <2> QED
    BY <1>1, <2>1 DEF Reflected
<1>2. CASE person[p].state # "none"
  <2>1. PICK n \in UserEvents(p) : NewestUser(n, p)
    BY <1>0, <1>2, KeyTold
  <2>2. n \in Events /\ UserEvent(n) /\ log[n].user = p /\ n \in Nat
    BY <1>0, OwnUserEvents
  <2>3. n \in processed \cup ignored
    BY <2>2 DEF Quiet, Recorded, Events
  <2>4. Superseded(n, MayScopes(n)) \/ \A s \in BaseScopes(n) : versions[s] >= n
    BY <1>0, <2>3 DEF RecordedKnown
  <2>5. \A s \in MayScopes(n) : versions[s] \in Nat /\ versions[s] <= n
    BY <1>0, <2>1, NewestStands
  <2>6. ~Superseded(n, MayScopes(n))
    BY <2>2, <2>5 DEF Superseded
  <2>7. StableScope(p) \in BaseScopes(n) /\ BaseScopes(n) \subseteq MayScopes(n)
    BY <1>0, <2>2, StableKnown, BaseKnown
  <2>8. versions[StableScope(p)] = n
    BY <2>2, <2>4, <2>5, <2>6, <2>7
  <2> QED
    BY <1>0, <2>1, <2>8 DEF PersonSettles, Told
<1> QED
  BY <1>1, <1>2

(* The inductive invariant. *)
SettledInv == ListenerInv /\ ScopeOK /\ PersonsSettle

(* With one delivery at a time, once every event is recorded each person who    *)
(* shares no idp_id and no name has the row WorkOS' directory asks for, however *)
(* the events arrived and whatever failed meanwhile.                            *)
THEOREM RowsConverge == Single => (Spec => []UserConverges)
<1>1. ASSUME Single PROVE Spec => []UserConverges
  <2>1. Init => SettledInv
    BY InitListener, InitScope, InitSettles DEF SettledInv
  <2>2. SettledInv /\ [Next]_vars => SettledInv'
    BY <1>1, StepListener, StepScope, StepSettles DEF SettledInv, ListenerInv
  <2>3. SettledInv => UserConverges
    BY QuietReflects DEF SettledInv, UserConverges, Reflected
  <2> QED
    BY <2>1, <2>2, <2>3, PTL DEF Spec
<1> QED
  BY <1>1

-----------------------------------------------------------------------------
(* What one statement does to groups and memberships *)

(* What one statement of an event does to groups and memberships. *)
ClearWrite(e, last) ==
    /\ log[e].type = "user" /\ ~last /\ ChangesHands(e)
    /\ members' = members \ EdgesOfUser(FindUser(e)) /\ UNCHANGED <<users, groups>>
PutGroupWrite(e, last) ==
    /\ log[e].type \in {"group", "added"} /\ FindGroup(e) = None
    /\ log[e].type = "added" => ~last /\ GroupGate(e)
    /\ groups' = [groups EXCEPT ![NewGroupId(e)] = [ext |-> GroupKeyOf[log[e].group]]]
    /\ UNCHANGED <<users, members>>
ClearGroupWrite(e, last) ==
    /\ log[e].type = "groupDeleted" /\ ~last /\ FindGroup(e) # None
    /\ members' = members \ EdgesOfGroup(FindGroup(e)) /\ UNCHANGED <<users, groups>>
DropWrite(e, last) ==
    /\ log[e].type = "groupDeleted" /\ FindGroup(e) # None /\ EdgesOfGroup(FindGroup(e)) = {}
    /\ groups' = [groups EXCEPT ![FindGroup(e)] = None] /\ UNCHANGED <<users, members>>
AddWrite(e, last) ==
    /\ log[e].type = "added" /\ FindUser(e) # None /\ FindGroup(e) # None
    /\ members' = members \cup {<<FindGroup(e), FindUser(e)>>} /\ UNCHANGED <<users, groups>>
RemoveWrite(e, last) ==
    /\ log[e].type = "removed" /\ FindUser(e) # None /\ FindGroup(e) # None
    /\ members' = members \ {<<FindGroup(e), FindUser(e)>>} /\ UNCHANGED <<users, groups>>
PutWrite(e) ==
    /\ log[e].type \in {"user", "deleted", "added"} /\ UNCHANGED <<groups, members>>

LEMMA WriteCases ==
    ASSUME TypeInv, NEW h \in Handler, Owed(h), Write(h), ~Dry(h), NEW e, e = run[h].event,
           NEW last, last = Dry(h)'
    PROVE  \/ Head(run[h].todo).op = "putUser" /\ PutWrite(e) /\ (log[e].type = "added" => ~last)
           \/ /\ Head(run[h].todo).op # "putUser"
              /\ \/ ClearWrite(e, last)
                 \/ PutGroupWrite(e, last)
                 \/ ClearGroupWrite(e, last)
                 \/ DropWrite(e, last)
                 \/ AddWrite(e, last)
                 \/ RemoveWrite(e, last)
<1>c. PICK st : st = Head(run[h].todo)
  OBVIOUS
<1>1. users' = UsersAfter(st) /\ groups' = GroupsAfter(st) /\ members' = MembersAfter(st)
  BY <1>c DEF Write
<1>2. Heads(e, st, last)
  BY <1>c, WriteHeads
<1>3. CASE st = PutHit(e) \/ st = PutGone(e)
  <2>1. st.op = "putUser"
    <3>1. PutHit(e).op = "putUser" /\ PutGone(e).op = "putUser"
      BY PutFields
    <3> QED
      BY <1>3, <3>1, Zenon
  <2>2. UNCHANGED <<groups, members>>
    BY <1>1, <2>1, Afters
  <2>3. st # AddHit(e) /\ st # RemoveHit(e) /\ st # PutGroupHit(e) /\ st # DropHit(e) /\ st # ClearGroupHit(e) /\ st # ClearHit(e)
    BY <2>1, PutFields
  <2> QED
    BY <1>2, <1>c, <2>1, <2>2, <2>3 DEF Heads, PutWrite
<1>4. CASE st # PutHit(e) /\ st # PutGone(e)
  <2>1. CASE log[e].type = "user" /\ ~last /\ ChangesHands(e) /\ st = ClearHit(e)
    <3>1. st.op = "clear" /\ st.id = FindUser(e)
      BY <2>1 DEF ClearHit
    <3>2. ClearWrite(e, last)
      BY <1>1, <2>1, <3>1 DEF ClearWrite, UsersAfter, GroupsAfter, MembersAfter
    <3> QED
      BY <1>c, <3>1, <3>2
  <2>2. CASE /\ log[e].type \in {"group", "added"} /\ FindGroup(e) = None /\ st = PutGroupHit(e)
             /\ log[e].type = "added" => ~last /\ GroupGate(e)
    <3>1. st.op = "putGroup" /\ st.id = NewGroupId(e) /\ st.row = [ext |-> GroupKeyOf[log[e].group]]
      BY <2>2, PutFields
    <3>2. PutGroupWrite(e, last)
      BY <1>1, <2>2, <3>1, Afters DEF PutGroupWrite
    <3> QED
      BY <1>c, <3>1, <3>2
  <2>3. CASE log[e].type = "groupDeleted" /\ ~last /\ FindGroup(e) # None /\ st = ClearGroupHit(e)
    <3>1. st.op = "clearGroup" /\ st.id = FindGroup(e)
      BY <2>3 DEF ClearGroupHit
    <3>2. ClearGroupWrite(e, last)
      BY <1>1, <2>3, <3>1 DEF ClearGroupWrite, UsersAfter, GroupsAfter, MembersAfter
    <3> QED
      BY <1>c, <3>1, <3>2
  <2>4. CASE log[e].type = "groupDeleted" /\ FindGroup(e) # None /\ EdgesOfGroup(FindGroup(e)) = {} /\ st = DropHit(e)
    <3>1. st.op = "dropGroup" /\ st.id = FindGroup(e)
      BY <2>4, PutFields
    <3>2. DropWrite(e, last)
      BY <1>1, <2>4, <3>1, Afters DEF DropWrite
    <3> QED
      BY <1>c, <3>1, <3>2
  <2>5. CASE log[e].type = "added" /\ FindUser(e) # None /\ FindGroup(e) # None /\ st = AddHit(e)
    <3>1. st.op = "addMember" /\ st.edge = <<FindGroup(e), FindUser(e)>>
      BY <2>5 DEF AddHit, GroupHit, UserHit
    <3>2. AddWrite(e, last)
      BY <1>1, <2>5, <3>1 DEF AddWrite, UsersAfter, GroupsAfter, MembersAfter
    <3> QED
      BY <1>c, <3>1, <3>2
  <2>6. CASE log[e].type = "removed" /\ FindUser(e) # None /\ FindGroup(e) # None /\ st = RemoveHit(e)
    <3>1. st.op = "removeMember" /\ st.edge = <<FindGroup(e), FindUser(e)>>
      BY <2>6 DEF RemoveHit
    <3>2. RemoveWrite(e, last)
      BY <1>1, <2>6, <3>1 DEF RemoveWrite, UsersAfter, GroupsAfter, MembersAfter
    <3> QED
      BY <1>c, <3>1, <3>2
  <2> QED
    BY <1>2, <1>4, <2>1, <2>2, <2>3, <2>4, <2>5, <2>6 DEF Heads
<1> QED
  BY <1>3, <1>4

-----------------------------------------------------------------------------
(* The groups' rows *)

(* The groups' rows and where their identity comes from. *)
GroupRowFrom(i) ==
    groups[i] # None =>
       /\ \E g \in Group : group[g] # "none" /\ groups[i].ext = GroupKeyOf[g]
       /\ scheme = "dsync" => i \in Group /\ group[i] # "none" /\ groups[i].ext = GroupKeyOf[i]
       /\ scheme # "dsync" => (i \in GroupKey => groups[i].ext = i)
GroupsOnce ==
    scheme # "dsync" => \A i, j \in GroupId :
        groups[i] # None /\ groups[j] # None /\ groups[i].ext = groups[j].ext => i = j
GroupRows == GroupsOnce /\ \A i \in GroupId : GroupRowFrom(i)

LEMMA GroupOfEvent ==
    ASSUME TypeInv, GroupTold, NEW e \in Events, log[e].group # None
    PROVE  log[e].group \in Group /\ group[log[e].group] # "none" /\ GroupKeyOf[log[e].group] \in GroupKey
<1>1. log[e] \in Event
  BY EventTyped
<1>2. log[e].group \in Group
  BY <1>1 DEF Event
<1> QED
  BY <1>2 DEF GroupTold, GroupToldOf, GroupKey

LEMMA MirroredGroups ==
    ASSUME WorkosOK, ~live
    PROVE  GroupRows
<1>1. OneGroupEach /\ Mirrored
  BY DEF WorkosOK
<1>2. ASSUME NEW i \in GroupId, groups[i] # None
      PROVE  i \in Group /\ i \notin GroupKey /\ group[i] = "present" /\ groups[i].ext = GroupKeyOf[i]
  <2>1. groups[i] = IF i \in Group /\ group[i] = "present" THEN [ext |-> GroupKeyOf[i]] ELSE None
    BY <1>1 DEF Mirrored
  <2>2. i \in Group /\ group[i] = "present" /\ groups[i] = [ext |-> GroupKeyOf[i]]
    BY <1>2, <2>1
  <2> QED
    BY <2>2, IdAssumption
<1> QED
  BY <1>1, <1>2 DEF GroupRows, GroupsOnce, GroupRowFrom, OneGroupEach

LEMMA MirroredGroupsNext == (WorkosOK /\ ~live => GroupRows)'
<1>1. WorkosOK /\ ~live => GroupRows
  BY MirroredGroups
<1> QED
  BY <1>1, PTL

(* The id a new group row takes is free. *)
LEMMA FreeGroupId ==
    ASSUME TypeInv, GroupTold, GroupRows, NEW e \in Events, log[e].group \in Group, FindGroup(e) = None,
           NEW i, i = NewGroupId(e)
    PROVE  i \in GroupId /\ groups[i] = None /\ (scheme = "dsync" => i = log[e].group)
           /\ (scheme # "dsync" => i = GroupKeyOf[log[e].group])
<1>0. TypeOK
  BY DEF TypeInv
<1>1. i \in GroupId /\ GroupKeyOf[log[e].group] \in GroupKey
  BY <1>0, FoundGroup
<1>2. i = IF scheme = "dsync" THEN log[e].group ELSE GroupKeyOf[log[e].group]
  BY DEF NewGroupId
<1>3. groups[i] = None
  <2> SUFFICES ASSUME groups[i] # None PROVE FALSE
    OBVIOUS
  <2>1. CASE scheme = "dsync"
    BY <1>0, <1>2, <2>1, FoundGroup
  <2>2. CASE scheme # "dsync"
    <3>1. groups[i].ext = i
      BY <1>1, <1>2, <2>2 DEF GroupRows, GroupRowFrom
    <3> QED
      BY <1>0, <1>1, <1>2, <2>2, <3>1, FoundGroup
  <2> QED
    BY <2>1, <2>2
<1> QED
  BY <1>1, <1>2, <1>3

LEMMA WriteGroupRows ==
    ASSUME TypeInv, GroupTold, GroupRows, NEW h \in Handler, Owed(h), Write(h)
    PROVE  GroupRows'
<1>1. UNCHANGED <<group, scheme>>
  BY DEF Write, workos
<1>2. CASE groups' = groups
  BY <1>1, <1>2 DEF GroupRows, GroupsOnce, GroupRowFrom
<1>3. CASE groups' # groups
  <2>c. PICK e, last : e = run[h].event /\ last = Dry(h)'
    OBVIOUS
  <2>0. groups \in [GroupId -> GroupRow \cup {None}]
    BY DEF TypeInv, TypeOK
  <2>1. ~Dry(h)
    <3> SUFFICES ASSUME Dry(h) PROVE FALSE
      OBVIOUS
    <3>1. run[h].pc = "write"
      BY DEF Write
    <3> QED
      BY <1>3, <3>1, DryHead, DryWrite DEF Write
  <2>2. e \in Events
    BY <2>1, <2>c, WriteHeads
  <2>3. PutGroupWrite(e, last) \/ DropWrite(e, last)
    BY <1>3, <2>1, <2>c, WriteCases DEF PutWrite, ClearWrite, ClearGroupWrite, AddWrite, RemoveWrite
  <2>4. CASE DropWrite(e, last)
    <3>1. \A i \in GroupId : groups'[i] # None => groups'[i] = groups[i] /\ groups[i] # None
      BY <2>0, <2>4 DEF DropWrite
    <3> QED
      BY <1>1, <3>1 DEF GroupRows, GroupsOnce, GroupRowFrom
  <2>5. CASE PutGroupWrite(e, last)
    <3>1. log[e].group \in Group
      BY <2>2, <2>5, EventTyped DEF PutGroupWrite
    <3>2. PICK i \in GroupId : /\ i = NewGroupId(e) /\ groups[i] = None /\ (scheme = "dsync" => i = log[e].group)
                               /\ (scheme # "dsync" => i = GroupKeyOf[log[e].group])
      BY <2>2, <2>5, <3>1, FreeGroupId DEF PutGroupWrite
    <3>3. /\ groups'[i] = [ext |-> GroupKeyOf[log[e].group]]
          /\ \A j \in GroupId : j # i => groups'[j] = groups[j]
      BY <2>0, <2>5, <3>2 DEF PutGroupWrite
    <3>4. groups'[i].ext = GroupKeyOf[log[e].group]
      BY <3>3
    <3>5. group[log[e].group] # "none"
      BY <2>2, <3>1, GroupOfEvent, NoneAssumption
    <3>6. scheme # "dsync" => \A j \in GroupId : groups[j] # None => groups[j].ext # GroupKeyOf[log[e].group]
      BY <2>2, <2>5, <3>1, FoundGroup DEF PutGroupWrite, TypeInv
    <3>7. GroupsOnce'
      BY <1>1, <3>3, <3>4, <3>6 DEF GroupRows, GroupsOnce
    <3>8. ASSUME NEW j \in GroupId PROVE GroupRowFrom(j)'
      <4>1. CASE j = i
        BY <1>1, <3>1, <3>2, <3>4, <3>5, <4>1 DEF GroupRowFrom
      <4>2. CASE j # i
        BY <1>1, <3>3, <4>2 DEF GroupRows, GroupRowFrom
      <4> QED
        BY <4>1, <4>2
    <3> QED
      BY <3>7, <3>8 DEF GroupRows
  <2> QED
    BY <2>3, <2>4, <2>5
<1> QED
  BY <1>2, <1>3

LEMMA StepGroupRows ==
    ASSUME TypeInv, WorkosOK, WorkosOK', TypeInv', FlightInv, GroupRows, [Next]_vars
    PROVE  GroupRows'
<1>2. CASE ~live'
  BY <1>2, MirroredGroupsNext
<1>3. ASSUME groups' = groups, scheme' = scheme, \A g \in Group : group[g] # "none" => group'[g] # "none"
      PROVE  GroupRows'
  BY <1>3 DEF GroupRows, GroupsOnce, GroupRowFrom
<1>4. CASE live' /\ WorkosStep
  <2>1. PICK ev \in Event : Emit(ev) /\ Change(ev)
    BY <1>4, WorkosChanges DEF TypeInv
  <2>2. groups' = groups /\ scheme' = scheme
    BY <1>4, <2>1 DEF Emit, DirectWrite, native
  <2>3. \A g \in Group : group[g] # "none" => group'[g] # "none"
    BY <2>1 DEF Change, UserChange, GroupChange, MemberChange, TypeInv, TypeOK
  <2> QED
    BY <1>3, <2>2, <2>3
<1>6. CASE Cutover \/ UNCHANGED vars
  BY <1>3, <1>6 DEF Cutover, vars, workos, native
<1>7. ASSUME NEW h \in Handler, HandlerStep(h) \/ Fault(h) PROVE GroupRows'
  <2>1. CASE Write(h)
    BY <2>1, WriteGroupRows DEF FlightInv, WorkosOK
  <2>2. CASE Resolve(h) \/ Plan(h) \/ WriteRefused(h) \/ Fault(h)
    BY <1>3, <2>2 DEF Resolve, Plan, WriteRefused, Fault, workos, native
  <2> QED
    BY <1>7, <2>1, <2>2 DEF HandlerStep
<1>8. ASSUME NEW h \in Handler, NEW e \in 1..Len(log), Deliver(h, e) PROVE GroupRows'
  BY <1>3, <1>8 DEF Deliver, workos, native
<1>9. live' \in BOOLEAN
  BY DEF TypeInv, TypeOK
<1> QED
  BY <1>2, <1>4, <1>6, <1>7, <1>8, <1>9 DEF Next

LEMMA InitGroupRows == Init => GroupRows
  BY DEF Init, GroupRows, GroupsOnce, GroupRowFrom

(* A group whose idp_id no other group has had. *)
LEMMA OwnGroupRows ==
    ASSUME TypeInv, GroupTold, GroupRows, NEW g \in Group, OwnGroup(g)
    PROVE  /\ \A e \in Events : log[e].group # None /\ GroupKeyOf[log[e].group] = GroupKeyOf[g] => log[e].group = g
           /\ \A i \in GroupRowsOf(g) : /\ i \in GroupId /\ groups[i] # None /\ groups[i].ext = GroupKeyOf[g]
                                        /\ scheme = "dsync" => i = g
<1>1. ASSUME NEW e \in Events, log[e].group # None, GroupKeyOf[log[e].group] = GroupKeyOf[g] PROVE log[e].group = g
  BY <1>1, GroupOfEvent DEF OwnGroup
<1>2. ASSUME NEW i \in GroupRowsOf(g)
      PROVE  /\ i \in GroupId /\ groups[i] # None /\ groups[i].ext = GroupKeyOf[g]
             /\ scheme = "dsync" => i = g
  <2>1. i \in GroupId /\ groups[i] # None /\ groups[i].ext = GroupKeyOf[g]
    BY DEF GroupRowsOf
  <2>2. scheme = "dsync" => i \in Group /\ group[i] # "none" /\ groups[i].ext = GroupKeyOf[i]
    BY <2>1 DEF GroupRows, GroupRowFrom
  <2> QED
    BY <2>1, <2>2 DEF OwnGroup
<1> QED
  BY <1>1, <1>2

LEMMA FoundGroupRows ==
    ASSUME TypeInv, GroupTold, GroupRows, NEW g \in Group, OwnGroup(g), NEW e \in Events, log[e].group = g
    PROVE  GroupRowsOf(g) = IF FindGroup(e) = None THEN {} ELSE {FindGroup(e)}
<1>0. TypeOK /\ g # None
  BY NoneAssumption DEF TypeInv
<1>1. /\ \A i \in GroupRowsOf(g) : /\ i \in GroupId /\ groups[i] # None /\ groups[i].ext = GroupKeyOf[g]
                                   /\ scheme = "dsync" => i = g
  BY OwnGroupRows
<1>2. CASE FindGroup(e) = None
  <2>1. /\ scheme = "dsync" => groups[g] = None
        /\ scheme # "dsync" => \A i \in GroupId : groups[i] # None => groups[i].ext # GroupKeyOf[g]
    BY <1>0, <1>2, FoundGroup
  <2> QED
    BY <1>1, <1>2, <2>1
<1>3. CASE FindGroup(e) # None
  <2>1. PICK i \in GroupId : /\ i = FindGroup(e) /\ groups[i] # None /\ (scheme = "dsync" => i = g)
                             /\ (scheme # "dsync" => groups[i].ext = GroupKeyOf[g])
    BY <1>0, <1>3, FoundGroup
  <2>2. groups[i].ext = GroupKeyOf[g]
    BY <2>1 DEF GroupRows, GroupRowFrom
  <2>3. i \in GroupRowsOf(g)
    BY <2>1, <2>2 DEF GroupRowsOf
  <2>4. \A j \in GroupRowsOf(g) : j = i
    BY <1>1, <2>1, <2>2 DEF GroupRows, GroupsOnce
  <2> QED
    BY <1>3, <2>1, <2>3, <2>4
<1> QED
  BY <1>2, <1>3

(* The row another group's event finds is not this group's. *)
LEMMA OthersGroup ==
    ASSUME TypeInv, GroupTold, GroupRows, NEW g \in Group, OwnGroup(g), NEW e \in Events, log[e].group \in Group,
           log[e].group # g
    PROVE  /\ FindGroup(e) # None => FindGroup(e) \in GroupId /\ FindGroup(e) \notin GroupRowsOf(g)
           /\ GroupKeyOf[log[e].group] # GroupKeyOf[g]
<1>1. GroupKeyOf[log[e].group] # GroupKeyOf[g]
  BY OwnGroupRows, NoneAssumption
<1>2. ASSUME FindGroup(e) # None PROVE FindGroup(e) \in GroupId /\ FindGroup(e) \notin GroupRowsOf(g)
  <2>1. PICK i \in GroupId : /\ i = FindGroup(e) /\ groups[i] # None /\ (scheme = "dsync" => i = log[e].group)
                             /\ (scheme # "dsync" => groups[i].ext = GroupKeyOf[log[e].group])
    BY <1>2, FoundGroup DEF TypeInv
  <2>2. groups[i].ext = GroupKeyOf[log[e].group]
    BY <2>1 DEF GroupRows, GroupRowFrom
  <2> QED
    BY <1>1, <2>1, <2>2 DEF GroupRowsOf
<1> QED
  BY <1>1, <1>2

-----------------------------------------------------------------------------
(* Where memberships come from *)

(* A row keeps a name of the person it is named for, and a membership the     *)
(* addition it came from.                                                     *)
PersonRowFrom(i) ==
    users[i] # None /\ i \in Person =>
        \E e \in Events : log[e].user = i /\ NameOf[log[e].key] = users[i].name
AddedFrom(e, m) ==
    /\ log[e].type = "added" /\ GroupKeyOf[log[e].group] = groups[m[1]].ext
    /\ scheme = "dsync" => log[e].user = m[2]
    /\ log[e].user = m[2] \/ NameOf[log[e].key] = users[m[2]].name
MemberFrom(m) ==
    users[m[2]] # None /\ groups[m[1]] # None /\ \E e \in Events : AddedFrom(e, m)
EdgesFrom == (\A i \in UserId : PersonRowFrom(i)) /\ \A m \in members : MemberFrom(m)

LEMMA MirroredHas ==
    ASSUME TypeInv, WorkosOK, ~live
    PROVE  /\ \A p \in Person : Present(p) => p \in UserId /\ users[p] # None
           /\ \A g \in Group : group[g] = "present" => g \in GroupId /\ groups[g] # None /\ groups[g].ext = GroupKeyOf[g]
           /\ members = edges
<1>1. Mirrored /\ PersonTold
  BY DEF WorkosOK
<1>2. ASSUME NEW p \in Person, Present(p) PROVE p \in UserId /\ users[p] # None
  <2>1. person[p].key \in KeysOf[p]
    BY <1>1, <1>2, KeyTold DEF Present
  <2>2. users[p] = [ext |-> person[p].key, name |-> NameOf[person[p].key], active |-> person[p].state = "active"]
    BY <1>1, <1>2 DEF Mirrored, UserId
  <2>3. users[p] \in UserRow
    BY <2>1, <2>2, PersonAssumption DEF UserRow, Name
  <2> QED
    BY <2>3, RowAssumption DEF UserId
<1>3. ASSUME NEW g \in Group, group[g] = "present"
      PROVE  g \in GroupId /\ groups[g] # None /\ groups[g].ext = GroupKeyOf[g]
  <2>1. groups[g] = [ext |-> GroupKeyOf[g]]
    BY <1>1, <1>3 DEF Mirrored, GroupId
  <2>2. groups[g] \in GroupRow
    BY <2>1 DEF GroupRow, GroupKey
  <2> QED
    BY <2>1, <2>2, RowAssumption DEF GroupId
<1> QED
  BY <1>1, <1>2, <1>3 DEF Mirrored

LEMMA MirroredEdges ==
    ASSUME TypeInv, WorkosOK, ~live
    PROVE  EdgesFrom
<1>0. PersonTold /\ EdgesTold /\ Mirrored
  BY DEF WorkosOK
<1>1. ASSUME NEW i \in UserId PROVE PersonRowFrom(i)
  <2> SUFFICES ASSUME users[i] # None
               PROVE  \E e \in Events : log[e].user = i /\ NameOf[log[e].key] = users[i].name
    BY DEF PersonRowFrom
  <2>1. i \in Person /\ Present(i) /\ users[i].name = NameOf[person[i].key]
    BY <1>0, MirroredRow
  <2>2. \E e \in UserEvents(i) : log[e].key = person[i].key
    BY <1>0, <2>1, KeyTold DEF Present
  <2> QED
    BY <2>1, <2>2 DEF UserEvents
<1>2. ASSUME NEW m \in members PROVE MemberFrom(m)
  <2>1. PICK g \in Group, p \in Person : m = <<g, p>> /\ <<g, p>> \in edges
    <3>1. m \in edges
      BY MirroredHas
    <3>2. edges \subseteq Group \X Person
      BY DEF TypeInv, TypeOK
    <3> QED
      BY <3>1, <3>2
  <2>2. group[g] = "present" /\ Present(p) /\ \E e \in MemberEvents(p, g) : log[e].type = "added"
    BY <1>0, <2>1 DEF EdgesTold, EdgeToldOf
  <2>3. users[p] # None /\ groups[g] # None /\ groups[g].ext = GroupKeyOf[g]
    BY <2>2, MirroredHas
  <2>4. PICK e \in Events : log[e].type = "added" /\ log[e].user = p /\ log[e].group = g
    BY <2>2 DEF MemberEvents
  <2>5. m[1] = g /\ m[2] = p
    BY <2>1
  <2>6. AddedFrom(e, m)
    BY <2>3, <2>4, <2>5 DEF AddedFrom
  <2> QED
    BY <2>3, <2>5, <2>6 DEF MemberFrom
<1> QED
  BY <1>1, <1>2 DEF EdgesFrom

LEMMA MirroredEdgesNext == (TypeInv /\ WorkosOK /\ ~live => EdgesFrom)'
<1>1. TypeInv /\ WorkosOK /\ ~live => EdgesFrom
  BY MirroredEdges
<1> QED
  BY <1>1, PTL

LEMMA PutEdges ==
    ASSUME TypeInv, UserRows, EdgesFrom, NEW h \in Handler, Owed(h), Write(h), Head(run[h].todo).op = "putUser"
    PROVE  EdgesFrom'
<1>1. UNCHANGED <<log, scheme>>
  BY DEF Write, workos
<1>c. PICK e, last : e = run[h].event /\ last = Dry(h)'
  OBVIOUS
<1>2. /\ ~Dry(h) /\ e \in Events /\ live /\ log[e].user \in Person /\ log[e].key \in Key
      /\ \E i \in UserId, row \in UserRow : UserPut(h, e, i, row)
  BY <1>c, UserWrite
<1>3. PICK i \in UserId, row \in UserRow : UserPut(h, e, i, row)
  BY <1>2
<1>4. UNCHANGED <<groups, members>>
  BY <1>2, <1>c, WriteCases DEF PutWrite
<1>5. /\ users'[i] = row /\ row # None /\ \A j \in UserId : j # i => users'[j] = users[j]
  BY <1>3, RowAssumption DEF UserPut, TypeInv, TypeOK
<1>6. i = UserHit(e) /\ (log[e].type = "deleted" => FindUser(e) # None)
  BY <1>3 DEF UserPut, UserHit
<1>7. /\ i \in UserId
      /\ FindUser(e) # None => /\ UserHit(e) = FindUser(e) /\ users[i] # None
                               /\ users[i] \in UserRow
                               /\ scheme # "dsync" => users[i].name = NameOf[log[e].key]
      /\ FindUser(e) = None => UserHit(e) = NewUserId(e) /\ users[i] = None
      /\ scheme = "dsync" => i = log[e].user
  BY <1>2, <1>6, HitRow
<1>8. row.name = NameOf[log[e].key] \/ (row.name = users[i].name /\ users[i] # None)
  <2>1. CASE log[e].type = "deleted"
    <3>1. row = [users[i] EXCEPT !.ext = log[e].key, !.active = FALSE] /\ FindUser(e) # None
      BY <1>3, <2>1 DEF UserPut
    <3> QED
      BY <1>7, <3>1 DEF UserRow
  <2>2. CASE log[e].type # "deleted"
    BY <1>3, <2>2 DEF UserPut, UserRowOf
  <2> QED
    BY <2>1, <2>2
<1>9. ASSUME NEW j \in UserId PROVE PersonRowFrom(j)'
  <2>0. Events' = Events
    BY <1>1 DEF Events
  <2>1. PersonRowFrom(j)
    BY DEF EdgesFrom
  <2>2. CASE j # i
    BY <1>1, <1>5, <2>0, <2>1, <2>2 DEF PersonRowFrom
  <2>3. CASE j = i /\ i \in Person
    <3>1. \E e2 \in Events : log[e2].user = i /\ NameOf[log[e2].key] = row.name
      <4>1. CASE row.name = users[i].name /\ users[i] # None
        BY <2>1, <2>3, <4>1 DEF PersonRowFrom
      <4>2. CASE row.name = NameOf[log[e].key] /\ scheme = "dsync"
        BY <1>2, <1>7, <4>2
      <4>3. CASE row.name = NameOf[log[e].key] /\ scheme # "dsync"
        <5>1. FindUser(e) # None
          <6> SUFFICES ASSUME FindUser(e) = None PROVE FALSE
            OBVIOUS
          <6>1. i = log[e].key
            BY <1>6, <1>7, <4>3 DEF NewUserId
          <6> QED
            BY <1>2, <2>3, <6>1, IdAssumption
        <5> QED
          BY <1>7, <2>1, <2>3, <4>3, <5>1 DEF PersonRowFrom
      <4> QED
        BY <1>8, <4>1, <4>2, <4>3
    <3> QED
      BY <1>1, <1>5, <2>0, <2>3, <3>1 DEF PersonRowFrom
  <2>4. CASE j = i /\ i \notin Person
    BY <2>4 DEF PersonRowFrom
  <2> QED
    BY <2>2, <2>3, <2>4
<1>10. ASSUME NEW m \in members' PROVE MemberFrom(m)'
  <2>1. m \in members /\ m[2] \in UserId /\ m[1] \in GroupId /\ MemberFrom(m)
    BY <1>4 DEF TypeInv, TypeOK, EdgesFrom
  <2>2. PICK e2 \in Events : AddedFrom(e2, m) /\ users[m[2]] # None /\ groups[m[1]] # None
    BY <2>1 DEF MemberFrom
  <2>3. users'[m[2]] # None /\ (scheme # "dsync" => users'[m[2]].name = users[m[2]].name)
    <3>1. CASE m[2] # i
      BY <1>5, <2>1, <2>2, <3>1
    <3>2. CASE m[2] = i
      <4>1. FindUser(e) # None
        BY <1>7, <2>2, <3>2
      <4>2. scheme # "dsync" => row.name = users[i].name
        BY <1>7, <1>8, <4>1
      <4> QED
        BY <1>5, <3>2, <4>2
    <3> QED
      BY <3>1, <3>2
  <2>4. AddedFrom(e2, m)'
    BY <1>1, <1>4, <2>2, <2>3 DEF AddedFrom
  <2> QED
    BY <1>1, <1>4, <2>2, <2>3, <2>4 DEF MemberFrom, Events
<1> QED
  BY <1>9, <1>10 DEF EdgesFrom

LEMMA WriteEdges ==
    ASSUME TypeInv, GroupTold, UserRows, GroupRows, EdgesFrom, NEW h \in Handler, Owed(h), Write(h)
    PROVE  EdgesFrom'
<1>1. UNCHANGED <<log, scheme>>
  BY DEF Write, workos
<1>a. ASSUME users' = users, \A m \in members' : m \in members /\ groups'[m[1]] = groups[m[1]]
      PROVE  EdgesFrom'
  BY <1>1, <1>a DEF EdgesFrom, PersonRowFrom, MemberFrom, AddedFrom, Events
<1>2. CASE Head(run[h].todo).op = "putUser"
  BY <1>2, PutEdges
<1>3. CASE Dry(h)
  <2>1. run[h].pc = "write"
    BY DEF Write
  <2> QED
    BY <1>3, <1>a, <2>1, DryHead, DryWrite DEF Write
<1>4. CASE ~Dry(h) /\ Head(run[h].todo).op # "putUser"
  <2>c. PICK e, last : e = run[h].event /\ last = Dry(h)'
    OBVIOUS
  <2>0. groups \in [GroupId -> GroupRow \cup {None}] /\ members \subseteq GroupId \X UserId /\ e \in Events
    BY <1>4, <2>c, WriteHeads DEF TypeInv, TypeOK
  <2>1. \/ ClearWrite(e, last)
        \/ PutGroupWrite(e, last)
        \/ ClearGroupWrite(e, last)
        \/ DropWrite(e, last)
        \/ AddWrite(e, last)
        \/ RemoveWrite(e, last)
    BY <1>4, <2>c, WriteCases
  <2>2. CASE ClearWrite(e, last) \/ ClearGroupWrite(e, last) \/ RemoveWrite(e, last)
    BY <1>a, <2>2 DEF ClearWrite, ClearGroupWrite, RemoveWrite
  <2>3. CASE DropWrite(e, last)
    <3>1. \A m \in members : m[1] # FindGroup(e) /\ m[1] \in GroupId
      BY <2>0, <2>3 DEF DropWrite, EdgesOfGroup
    <3> QED
      BY <1>a, <2>0, <2>3, <3>1 DEF DropWrite
  <2>4. CASE PutGroupWrite(e, last)
    <3>1. log[e].group \in Group
      BY <2>0, <2>4, EventTyped DEF PutGroupWrite
    <3>2. PICK i \in GroupId : i = NewGroupId(e) /\ groups[i] = None
      BY <2>0, <2>4, <3>1, FreeGroupId DEF PutGroupWrite
    <3>3. \A m \in members : m[1] # i /\ m[1] \in GroupId
      BY <2>0, <3>2 DEF EdgesFrom, MemberFrom
    <3> QED
      BY <1>a, <2>0, <2>4, <3>2, <3>3 DEF PutGroupWrite
  <2>5. CASE AddWrite(e, last)
    <3>0. log[e].user \in Person /\ log[e].key \in Key /\ log[e].group \in Group
      BY <2>0, <2>5, EventTyped DEF AddWrite
    <3>1. PICK i \in UserId : /\ i = FindUser(e) /\ users[i] # None /\ (scheme = "dsync" => i = log[e].user)
                              /\ (scheme # "dsync" => users[i].name = NameOf[log[e].key])
      BY <2>0, <2>5, <3>0, HitRow DEF AddWrite
    <3>2. PICK j \in GroupId : /\ j = FindGroup(e) /\ groups[j] # None /\ (scheme = "dsync" => j = log[e].group)
                               /\ (scheme # "dsync" => groups[j].ext = GroupKeyOf[log[e].group])
      BY <2>0, <2>5, <3>0, FoundGroup DEF AddWrite, TypeInv
    <3>3. groups[j].ext = GroupKeyOf[log[e].group]
      BY <3>2 DEF GroupRows, GroupRowFrom
    <3>4. members' = members \cup {<<j, i>>} /\ UNCHANGED <<users, groups>> /\ log[e].type = "added"
      BY <2>5, <3>1, <3>2 DEF AddWrite
    <3>5. ASSUME NEW m \in members' PROVE MemberFrom(m)
      <4>1. CASE m \in members
        BY <4>1 DEF EdgesFrom
      <4>2. CASE m = <<j, i>>
        <5>1. m[1] = j /\ m[2] = i
          BY <4>2
        <5>2. AddedFrom(e, m)
          BY <3>1, <3>3, <3>4, <5>1 DEF AddedFrom
        <5> QED
          BY <2>0, <3>1, <3>2, <5>1, <5>2 DEF MemberFrom
      <4> QED
        BY <3>4, <4>1, <4>2
    <3> QED
      BY <1>1, <3>4, <3>5 DEF EdgesFrom, MemberFrom, AddedFrom, PersonRowFrom, Events
  <2> QED
    BY <2>1, <2>2, <2>3, <2>4, <2>5
<1> QED
  BY <1>2, <1>3, <1>4

LEMMA StepEdges ==
    ASSUME TypeInv, WorkosOK, WorkosOK', TypeInv', FlightInv, UserRows, GroupRows, EdgesFrom, [Next]_vars
    PROVE  EdgesFrom'
<1>2. CASE ~live'
  BY <1>2, MirroredEdgesNext
<1>3. ASSUME UNCHANGED native, scheme' = scheme, Events \subseteq Events', \A e \in Events : log'[e] = log[e]
      PROVE  EdgesFrom'
  <2>1. UNCHANGED <<users, groups, members>>
    BY <1>3 DEF native
  <2>2. ASSUME NEW m \in members' PROVE MemberFrom(m)'
    <3>1. MemberFrom(m)
      BY <2>1 DEF EdgesFrom
    <3>2. PICK e \in Events : AddedFrom(e, m)
      BY <3>1 DEF MemberFrom
    <3>3. AddedFrom(e, m)'
      BY <1>3, <2>1, <3>2 DEF AddedFrom
    <3> QED
      BY <1>3, <2>1, <3>1, <3>3 DEF MemberFrom
  <2>3. ASSUME NEW i \in UserId PROVE PersonRowFrom(i)'
    BY <1>3, <2>1 DEF EdgesFrom, PersonRowFrom
  <2> QED
    BY <2>2, <2>3 DEF EdgesFrom
<1>4. CASE live' /\ WorkosStep
  <2>1. PICK ev \in Event : Emit(ev) /\ Change(ev)
    BY <1>4, WorkosChanges DEF TypeInv
  <2>2. UNCHANGED native /\ scheme' = scheme
    BY <1>4, <2>1 DEF Emit, DirectWrite
  <2>3. PICK n \in Nat : Events = 1..n /\ Events' = (1..n) \cup {n + 1} /\ \A e \in 1..n : log'[e] = log[e]
    BY <2>1, EmitLog
  <2> QED
    BY <1>3, <2>2, <2>3
<1>5. ASSUME UNCHANGED <<log, native, scheme>> PROVE EdgesFrom'
  BY <1>3, <1>5 DEF Events
<1>6. CASE Cutover \/ UNCHANGED vars
  BY <1>5, <1>6 DEF Cutover, vars, workos
<1>7. ASSUME NEW h \in Handler, HandlerStep(h) \/ Fault(h) PROVE EdgesFrom'
  <2>1. CASE Write(h)
    BY <2>1, WriteEdges DEF FlightInv, WorkosOK
  <2>2. CASE Resolve(h) \/ Plan(h) \/ WriteRefused(h) \/ Fault(h)
    BY <1>5, <2>2 DEF Resolve, Plan, WriteRefused, Fault, workos
  <2> QED
    BY <1>7, <2>1, <2>2 DEF HandlerStep
<1>8. ASSUME NEW h \in Handler, NEW e \in 1..Len(log), Deliver(h, e) PROVE EdgesFrom'
  BY <1>5, <1>8 DEF Deliver, workos
<1>9. live' \in BOOLEAN
  BY DEF TypeInv, TypeOK
<1> QED
  BY <1>2, <1>4, <1>6, <1>7, <1>8, <1>9 DEF Next

LEMMA InitEdges == Init => EdgesFrom
  BY DEF Init, EdgesFrom, PersonRowFrom

-----------------------------------------------------------------------------
(* The rows and the timelines of a person and a group of their own *)

(* The rows an event finds, for a person and a group of their own. *)
LEMMA FoundRows ==
    ASSUME TypeInv, UserRows, NEW p \in Person, OwnIdentity(p), NEW e \in Events, log[e].user = p
    PROVE  RowsOf(p) = IF FindUser(e) = None THEN {} ELSE {FindUser(e)}
<1>0. TypeOK /\ log[e].key \in Key /\ log[e].key \in KeysOf[p]
  BY UserOfEvent DEF TypeInv
<1>1. \A i \in RowsOf(p) : /\ i \in UserId /\ users[i] # None
                           /\ \E e2 \in Events : log[e2].user = p /\ log[e2].key = users[i].ext
                           /\ scheme = "dsync" => i = p
                           /\ scheme # "dsync" => users[i].name = NameOf[users[i].ext]
  BY OwnRows
<1>2. CASE FindUser(e) = None
  <2>1. ASSUME NEW i \in RowsOf(p) PROVE FALSE
    <3>2. CASE scheme = "dsync"
      BY <1>0, <1>1, <1>2, <3>2, FoundUser
    <3>3. CASE scheme # "dsync"
      <4>1. scheme = "legacy"
        BY <1>0, <3>3, SchemeAssumption DEF TypeOK
      <4>2. users[i].ext = log[e].key
        BY <1>1, <4>1 DEF OwnIdentity, Events
      <4> QED
        BY <1>0, <1>1, <1>2, <3>3, <4>2, FoundUser
    <3> QED
      BY <3>2, <3>3
  <2> QED
    BY <1>2, <2>1
<1>3. CASE FindUser(e) # None
  <2>1. PICK i \in UserId : /\ i = FindUser(e) /\ users[i] # None /\ (scheme = "dsync" => i = p)
                            /\ (scheme # "dsync" => users[i].name = NameOf[log[e].key])
    BY <1>0, <1>3, HitRow
  <2>2. UserRowFrom(i)
    BY DEF UserRows
  <2>3. users[i].ext \in KeysOf[p]
    <3>1. CASE scheme = "dsync"
      BY <2>1, <2>2, <3>1, UserOfEvent DEF UserRowFrom
    <3>2. CASE scheme # "dsync"
      <4>1. PICK e2 \in Events : log[e2].user \in Person /\ log[e2].key = users[i].ext
        BY <2>1, <2>2 DEF UserRowFrom
      <4>2. NameOf[log[e2].key] = NameOf[log[e].key]
        BY <2>1, <2>2, <3>2, <4>1 DEF UserRowFrom
      <4>3. log[e2].user = p
        BY <1>0, <4>1, <4>2, OthersKeys
      <4> QED
        BY <4>1, <4>3, UserOfEvent
    <3> QED
      BY <3>1, <3>2
  <2>4. i \in RowsOf(p)
    BY <2>1, <2>3 DEF RowsOf
  <2>5. \A j \in RowsOf(p) : j = i
    BY <2>4, OwnRows
  <2> QED
    BY <1>3, <2>1, <2>4, <2>5
<1> QED
  BY <1>2, <1>3

LEMMA OthersUser ==
    ASSUME TypeInv, UserRows, NEW p \in Person, OwnIdentity(p), NEW e \in Events, log[e].user \in Person,
           log[e].key \in Key, log[e].user # p, FindUser(e) # None
    PROVE  FindUser(e) \in UserId /\ FindUser(e) \notin RowsOf(p)
<1>1. PICK i \in UserId : /\ i = FindUser(e) /\ (scheme = "dsync" => i = log[e].user)
                          /\ (scheme # "dsync" => users[i].name = NameOf[log[e].key])
  BY HitRow
<1>2. NameOf[log[e].key] \notin {NameOf[k] : k \in KeysOf[p]}
  BY OthersKeys
<1>3. i \in RowsOf(p) => /\ users[i].ext \in KeysOf[p]
                         /\ scheme = "dsync" => i = p
                         /\ scheme # "dsync" => users[i].name = NameOf[users[i].ext]
  BY OwnRows
<1> QED
  BY <1>1, <1>2, <1>3

(* A membership of theirs is one WorkOS added. *)
LEMMA EdgeOwned ==
    ASSUME TypeInv, GroupTold, UserRows, GroupRows, EdgesFrom, NEW p \in Person, NEW g \in Group,
           OwnIdentity(p), OwnGroup(g), HasEdge(p, g)
    PROVE  \E e \in MemberEvents(p, g) : log[e].type = "added"
<1>1. PICK i \in RowsOf(p), j \in GroupRowsOf(g) : <<j, i>> \in members
  BY DEF HasEdge
<1>2. MemberFrom(<<j, i>>)
  BY <1>1 DEF EdgesFrom
<1>3. PICK e \in Events : /\ log[e].type = "added" /\ GroupKeyOf[log[e].group] = groups[j].ext
                          /\ scheme = "dsync" => log[e].user = i
                          /\ log[e].user = i \/ NameOf[log[e].key] = users[i].name
  BY <1>2 DEF MemberFrom, AddedFrom
<1>4. log[e].user \in Person /\ log[e].group \in Group
  BY <1>3, EventTyped
<1>5. log[e].group = g
  BY <1>3, <1>4, OwnGroupRows, NoneAssumption
<1>6. /\ i \in UserId /\ users[i] # None /\ users[i].ext \in KeysOf[p]
      /\ scheme = "dsync" => i = p
      /\ scheme # "dsync" => users[i].name = NameOf[users[i].ext]
  BY OwnRows
<1>7. log[e].user = p
  <2>1. CASE scheme = "dsync"
    BY <1>3, <1>6, <2>1
  <2>2. CASE scheme # "dsync"
    <3>1. CASE NameOf[log[e].key] = users[i].name
      BY <1>4, <1>6, <2>2, <3>1, OthersKeys
    <3>2. CASE log[e].user = i
      <4>1. PICK e2 \in Events : log[e2].user = i /\ NameOf[log[e2].key] = users[i].name
        BY <1>4, <1>6, <3>2 DEF EdgesFrom, PersonRowFrom
      <4> QED
        BY <1>4, <1>6, <2>2, <3>2, <4>1, OthersKeys
    <3> QED
      BY <1>3, <3>1, <3>2
  <2> QED
    BY <2>1, <2>2
<1> QED
  BY <1>3, <1>5, <1>7 DEF MemberEvents, MembershipEvent

(* Whose event advances a scope. *)
LEMMA ScopeForms ==
    ASSUME NEW v \in Events, NEW s \in MayScopes(v)
    PROVE  /\ UserEvent(v) => \/ s = <<"dsync-resource", log[v].user>>
                              \/ \E k \in KeyOfPerson(log[v].user) : s = <<"user", k>>
           /\ MembershipEvent(v) => \/ s = <<"dsync-member", log[v].group, log[v].user>>
                                    \/ \E k \in KeyOfPerson(log[v].user) : s = <<"member", GroupKeyOf[log[v].group], k>>
           /\ ~UserEvent(v) /\ ~MembershipEvent(v) =>
                 s = <<"group", GroupKeyOf[log[v].group]>> \/ s = <<"dsync-resource", log[v].group>>
<1>1. CASE UserEvent(v)
  <2>1. s \in (UNION {UserScopes(x) : x \in KeyOfPerson(log[v].user)}) \cup Stable(<<"dsync-resource", log[v].user>>)
    BY <1>1 DEF MayScopes, UserEvent, MembershipEvent
  <2> QED
    BY <1>1, <2>1 DEF UserScopes, Stable, UserEvent, MembershipEvent
<1>2. CASE MembershipEvent(v)
  <2>1. s \in (UNION {MemberScopes(GroupKeyOf[log[v].group], x) : x \in KeyOfPerson(log[v].user)})
                       \cup Stable(<<"dsync-member", log[v].group, log[v].user>>)
    BY <1>2 DEF MayScopes, UserEvent, MembershipEvent
  <2> QED
    BY <1>2, <2>1 DEF MemberScopes, Stable, UserEvent, MembershipEvent
<1>3. CASE ~UserEvent(v) /\ ~MembershipEvent(v)
  <2>1. s \in GroupEventScopes(log[v].group)
    BY <1>3 DEF MayScopes
  <2> QED
    BY <1>3, <2>1 DEF GroupEventScopes, GroupScopes, Stable
<1> QED
  BY <1>1, <1>2, <1>3

PersonScopes(p) == {<<"user", k>> : k \in KeysOf[p]} \cup {<<"dsync-resource", p>>}

LEMMA ScopeOfUser ==
    ASSUME TypeInv, NEW p \in Person, OwnIdentity(p), NEW v \in Events, NEW s \in MayScopes(v), s \in PersonScopes(p)
    PROVE  v \in UserEvents(p)
<1>1. s = <<"dsync-resource", p>> \/ \E k \in KeysOf[p] : s = <<"user", k>>
  BY DEF PersonScopes
<1>2. s[1] \in {"user", "dsync-resource"}
  BY <1>1
<1>3. CASE UserEvent(v)
  <2>1. \/ s = <<"dsync-resource", log[v].user>>
        \/ \E k \in KeyOfPerson(log[v].user) : s = <<"user", k>>
    BY <1>3, ScopeForms
  <2>2. log[v].user \in Person
    BY <1>3, EventTyped DEF UserEvent
  <2>3. log[v].user = p
    <3>1. CASE s = <<"dsync-resource", p>>
      <4>1. s = <<"dsync-resource", log[v].user>>
        BY <2>1, <3>1
      <4>2. s[2] = p /\ s[2] = log[v].user
        BY <3>1, <4>1
      <4> QED
        BY <4>2
    <3>2. CASE \E k \in KeysOf[p] : s = <<"user", k>>
      <4>1. PICK k \in KeysOf[p] : s = <<"user", k>>
        BY <3>2
      <4>2. PICK k2 \in KeyOfPerson(log[v].user) : s = <<"user", k2>>
        BY <2>1, <4>1
      <4>3. k = k2
        BY <4>1, <4>2
      <4>4. PICK e2 \in Events : log[e2].user = log[v].user /\ log[e2].key = k
        BY <4>2, <4>3 DEF KeyOfPerson
      <4> QED
        BY <2>2, <4>1, <4>4, OthersKeys
    <3> QED
      BY <1>1, <3>1, <3>2
  <2> QED
    BY <1>3, <2>3 DEF UserEvents
<1>4. CASE MembershipEvent(v)
  <2>1. s[1] = "member" \/ s[1] = "dsync-member"
    BY <1>4, ScopeForms
  <2> QED
    BY <1>2, <2>1
<1>5. CASE ~UserEvent(v) /\ ~MembershipEvent(v)
  <2>1. s = <<"group", GroupKeyOf[log[v].group]>> \/ s = <<"dsync-resource", log[v].group>>
    BY <1>5, ScopeForms
  <2>2. log[v].group \in Group
    BY <1>5, EventTyped DEF UserEvent, MembershipEvent
  <2>3. s = <<"dsync-resource", log[v].group>> /\ s = <<"dsync-resource", p>>
    BY <1>1, <2>1
  <2>4. log[v].group = p
    BY <2>3
  <2> QED
    BY <2>2, <2>4, IdAssumption
<1> QED
  BY <1>3, <1>4, <1>5

LEMMA ScopeOfGroup ==
    ASSUME TypeInv, GroupTold, GroupRows, NEW g \in Group, OwnGroup(g), NEW v \in Events, NEW s \in MayScopes(v),
           s \in GroupEventScopes(g)
    PROVE  log[v].group = g /\ log[v].type \in {"group", "groupDeleted"}
<1>1. s = <<"group", GroupKeyOf[g]>> \/ s = <<"dsync-resource", g>>
  BY DEF GroupEventScopes, GroupScopes, Stable
<1>2. s[1] \in {"group", "dsync-resource"}
  BY <1>1
<1>3. ~MembershipEvent(v)
  <2>1. MembershipEvent(v) => s[1] = "member" \/ s[1] = "dsync-member"
    BY ScopeForms
  <2> QED
    BY <1>2, <2>1
<1>4. ~UserEvent(v)
  <2> SUFFICES ASSUME UserEvent(v) PROVE FALSE
    OBVIOUS
  <2>1. s = <<"dsync-resource", log[v].user>> \/ s[1] = "user"
    BY ScopeForms
  <2>2. s = <<"dsync-resource", log[v].user>> /\ s = <<"dsync-resource", g>>
    BY <1>1, <2>1
  <2>3. log[v].user = g
    BY <2>2
  <2> QED
    BY <2>3, EventTyped, IdAssumption DEF UserEvent
<1>5. s = <<"group", GroupKeyOf[log[v].group]>> \/ s = <<"dsync-resource", log[v].group>>
  BY <1>3, <1>4, ScopeForms
<1>6. log[v].type \in {"group", "groupDeleted"} /\ log[v].group \in Group
  BY <1>3, <1>4, EventTyped DEF UserEvent, MembershipEvent
<1>7. GroupKeyOf[log[v].group] = GroupKeyOf[g] \/ log[v].group = g
  <2>1. CASE s = <<"group", GroupKeyOf[g]>>
    BY <1>5, <2>1
  <2>2. CASE s = <<"dsync-resource", g>>
    BY <1>5, <2>2
  <2> QED
    BY <1>1, <2>1, <2>2
<1> QED
  BY <1>6, <1>7, OwnGroupRows, NoneAssumption

LEMMA ScopeOfMember ==
    ASSUME TypeInv, GroupTold, GroupRows, NEW p \in Person, NEW g \in Group, OwnIdentity(p), OwnGroup(g),
           NEW e \in MemberEvents(p, g), NEW v \in Events, NEW s \in MayScopes(v), s \in MayScopes(e)
    PROVE  v \in MemberEvents(p, g)
<1>1. e \in Events /\ MembershipEvent(e) /\ log[e].user = p /\ log[e].group = g
  BY DEF MemberEvents
<1>2. s = <<"dsync-member", g, p>> \/ \E k \in KeyOfPerson(p) : s = <<"member", GroupKeyOf[g], k>>
  BY <1>1, ScopeForms
<1>3. s[1] \in {"member", "dsync-member"}
  BY <1>2
<1>4. MembershipEvent(v)
  <2>1. UserEvent(v) => s[1] \in {"user", "dsync-resource"}
    BY ScopeForms
  <2>2. ~UserEvent(v) /\ ~MembershipEvent(v) => s[1] \in {"group", "dsync-resource"}
    BY ScopeForms
  <2> QED
    BY <1>3, <2>1, <2>2
<1>5. log[v].user \in Person /\ log[v].group \in Group
  BY <1>4, EventTyped DEF MembershipEvent
<1>6. s = <<"dsync-member", log[v].group, log[v].user>>
      \/ \E k \in KeyOfPerson(log[v].user) : s = <<"member", GroupKeyOf[log[v].group], k>>
  BY <1>4, ScopeForms
<1>7. CASE s = <<"dsync-member", g, p>>
  <2>1. s = <<"dsync-member", log[v].group, log[v].user>>
    BY <1>6, <1>7
  <2>2. log[v].group = g /\ log[v].user = p
    BY <1>7, <2>1
  <2> QED
    BY <1>4, <2>2 DEF MemberEvents
<1>8. CASE \E k \in KeyOfPerson(p) : s = <<"member", GroupKeyOf[g], k>>
  <2>1. PICK k \in KeyOfPerson(p) : s = <<"member", GroupKeyOf[g], k>>
    BY <1>8
  <2>2. PICK k2 \in KeyOfPerson(log[v].user) : s = <<"member", GroupKeyOf[log[v].group], k2>>
    BY <1>6, <2>1
  <2>3. k = k2 /\ GroupKeyOf[log[v].group] = GroupKeyOf[g]
    BY <2>1, <2>2
  <2>4. PICK e1 \in Events : log[e1].user = p /\ log[e1].key = k
    BY <2>1 DEF KeyOfPerson
  <2>5. PICK e2 \in Events : log[e2].user = log[v].user /\ log[e2].key = k
    BY <2>2, <2>3 DEF KeyOfPerson
  <2>6. k \in KeysOf[p]
    BY <2>4, UserOfEvent
  <2>7. log[v].user = p
    BY <1>5, <2>5, <2>6, OthersKeys
  <2>8. log[v].group = g
    BY <1>5, <2>3, OwnGroupRows, NoneAssumption
  <2> QED
    BY <1>4, <2>7, <2>8 DEF MemberEvents
<1> QED
  BY <1>2, <1>7, <1>8

-----------------------------------------------------------------------------
(* Events that are applied *)

(* An event is applied once only its bookkeeping is left; the proxy applies    *)
(* them all.                                                                   *)
Seen(e) == ~live \/ (\E s \in Scope : versions[s] = e) \/ \E h \in Handler : Done(h, e)

LEMMA SeenSame ==
    ASSUME UNCHANGED <<run, versions>>, live' = live \/ ~live, NEW e, Seen(e)'
    PROVE  Seen(e)
<1>1. ASSUME NEW h \in Handler, Done(h, e)' PROVE Done(h, e)
  BY <1>1, DoneSame
<1> QED
  BY <1>1 DEF Seen

LEMMA SeenEmit ==
    ASSUME TypeInv, ScopeOK, NEW ev \in Event, Emit(ev), Change(ev), live, NEW e, e # 0, Seen(e)'
    PROVE  e \in Events /\ Seen(e)
<1>1. UNCHANGED <<live, run, versions>>
  BY DEF Emit, ledger
<1>2. Seen(e)
  BY <1>1, SeenSame
<1>3. CASE \E s \in Scope : versions[s] = e
  BY <1>2, <1>3 DEF ScopeOK, VersionsFrom
<1>4. CASE \E h \in Handler : Done(h, e)
  <2>1. PICK h \in Handler : run[h].pc = "write" /\ run[h].event = e
    BY <1>4 DEF Done
  <2> QED
    BY <1>2, <2>1, WriteParts DEF Events
<1> QED
  BY <1>2, <1>3, <1>4 DEF Seen

LEMMA SeenStops ==
    ASSUME TypeInv, NEW h \in Handler, Resolve(h) \/ WriteRefused(h) \/ Fault(h), NEW e, Seen(e)'
    PROVE  Seen(e)
<1>1. UNCHANGED <<versions, live>>
  BY DEF Resolve, WriteRefused, Fault, ledger
<1>2. PICK r : run' = [run EXCEPT ![h] = r] /\ r.pc # "write"
  <2>1. CASE Resolve(h)
    <3>1. PICK b : run' = [run EXCEPT ![h] = IF b THEN [run[h] EXCEPT !.pc = "plan"] ELSE Idle]
      BY <2>1 DEF Resolve
    <3>2. [run[h] EXCEPT !.pc = "plan"].pc # "write" /\ Idle.pc # "write"
      BY RunOf DEF Run, Idle
    <3> QED
      BY <3>1, <3>2
  <2>2. CASE WriteRefused(h) \/ Fault(h)
    <3>1. run' = [run EXCEPT ![h] = Idle]
      BY <2>2 DEF WriteRefused, Fault
    <3>2. Idle.pc # "write"
      BY DEF Idle
    <3> QED
      BY <3>1, <3>2
  <2> QED
    BY <2>1, <2>2
<1>3. ASSUME NEW h2 \in Handler, Done(h2, e)' PROVE Done(h2, e)
  <2>1. run'[h] = r
    BY <1>2, RunOf
  <2>2. h2 # h
    BY <1>2, <1>3, <2>1 DEF Done
  <2>3. run'[h2] = run[h2]
    BY <1>2, <2>2 DEF TypeInv, TypeOK
  <2> QED
    BY <1>3, <2>3, DoneSame
<1> QED
  BY <1>1, <1>3 DEF Seen

(* A delivery is done at once when its event is late: the ledger holds a newer *)
(* one of its timeline.                                                        *)
LEMMA SeenDeliver ==
    ASSUME TypeInv, UserRows, ScopeOK, NEW h \in Handler, NEW d, Deliver(h, d), live,
           NEW e \in Events, Seen(e)', ~Seen(e)
    PROVE  \E v \in Events, s \in MayScopes(e) : s \in MayScopes(v) /\ s \in EventScopes(e) /\ v > e /\ Seen(v)
<1>1. UNCHANGED <<versions, live>>
  BY DEF Deliver, ledger
<1>2. PICK h2 \in Handler : Done(h2, e)' /\ ~Done(h2, e)
  BY <1>1 DEF Seen
<1>3. ~IsNewestAcross(EventScopes(e), e)
  BY <1>2, DeliverDone
<1>4. PICK s \in EventScopes(e) : ~(e >= versions[s])
  BY <1>3 DEF IsNewestAcross
<1>5. s \in MayScopes(e) /\ s \in Scope
  BY BaseKnown, MayAreScopes
<1>6. versions[s] \in Nat /\ e \in Nat /\ e >= 1
  BY <1>5, BoundAssumption DEF TypeInv, TypeOK, Events
<1>7. versions[s] # 0 /\ versions[s] > e
  BY <1>4, <1>6
<1>8. versions[s] \in Events /\ s \in MayScopes(versions[s])
  BY <1>5, <1>7 DEF ScopeOK, VersionsFrom
<1>9. Seen(versions[s])
  BY <1>5 DEF Seen
<1> QED
  BY <1>4, <1>5, <1>7, <1>8, <1>9

LEMMA SeenPlan ==
    ASSUME TypeInv, NEW h \in Handler, Plan(h), NEW e, Seen(e)', ~Seen(e)
    PROVE  e \in Events /\ ApplyEvent(e) = <<>>
<1>1. UNCHANGED <<versions, live>>
  BY DEF Plan, ledger
<1>2. PICK h2 \in Handler : Done(h2, e)' /\ ~Done(h2, e)
  BY <1>1 DEF Seen
<1> QED
  BY <1>2, PlanDone

LEMMA SeenWrite ==
    ASSUME Single, TypeInv, NEW h \in Handler, Owed(h), Write(h), NEW e, Seen(e)', ~Seen(e)
    PROVE  ~Dry(h) /\ Dry(h)' /\ e = run[h].event
<1>1. live' = live
  BY DEF Write
<1>2. ASSUME NEW s \in Scope, versions'[s] = e PROVE FALSE
  <2>1. versions'[s] # versions[s]
    BY <1>2 DEF Seen
  <2>2. Done(h, versions'[s])
    BY <2>1, WriteDone
  <2> QED
    BY <1>2, <2>2 DEF Seen
<1>3. PICK h2 \in Handler : Done(h2, e)'
  BY <1>1, <1>2 DEF Seen
<1>4. ~Done(h2, e)
  BY DEF Seen
<1> QED
  BY <1>3, <1>4, WriteDone

(* What was applied before a delivery writes is in the ledger. *)
LEMMA SeenBefore ==
    ASSUME Single, TypeInv, ScopeOK, NEW h \in Handler, live, ~Dry(h), NEW e, Seen(e)
    PROVE  \E s \in Scope : versions[s] = e /\ (e # 0 => s \in MayScopes(e))
<1>1. \A h2 \in Handler : ~Done(h2, e)
  <2>1. ASSUME NEW h2 \in Handler, Done(h2, e) PROVE FALSE
    <3>1. h2 = h
      BY DEF Single
    <3> QED
      BY <2>1, <3>1 DEF Done
  <2> QED
    BY <2>1
<1>2. PICK s \in Scope : versions[s] = e
  BY <1>1 DEF Seen
<1> QED
  BY <1>2 DEF ScopeOK, VersionsFrom

(* The newest event of a timeline was applied once it is recorded. *)
LEMMA SeenQuiet ==
    ASSUME TypeInv, UserRows, ScopeOK, Quiet, NEW e \in Events,
           \A v \in Events : \A s \in MayScopes(v) : s \in MayScopes(e) => v <= e
    PROVE  Seen(e)
<1>1. e \in processed \cup ignored /\ e \in Nat
  BY DEF Quiet, Recorded, Events
<1>2. ASSUME NEW s \in MayScopes(e) PROVE s \in Scope /\ versions[s] \in Nat /\ versions[s] <= e
  <2>1. s \in Scope
    BY MayAreScopes
  <2>2. versions[s] \in Nat
    BY <2>1, BoundAssumption DEF TypeInv, TypeOK
  <2>3. versions[s] # 0 => versions[s] \in Events /\ s \in MayScopes(versions[s])
    BY <2>1 DEF ScopeOK, VersionsFrom
  <2> QED
    BY <1>1, <2>1, <2>2, <2>3
<1>3. ~Superseded(e, MayScopes(e))
  BY <1>1, <1>2 DEF Superseded
<1>4. \A s \in BaseScopes(e) : versions[s] >= e
  BY <1>1, <1>3 DEF ScopeOK, RecordedKnown
<1>5. BaseScopes(e) \subseteq MayScopes(e)
  BY BaseKnown
<1>6. PICK s : s \in BaseScopes(e)
  <2>1. CASE UserEvent(e)
    <3>1. BaseScopes(e) = UserScopes(log[e].key) \cup Stable(<<"dsync-resource", log[e].user>>)
      BY <2>1 DEF BaseScopes, UserEvent, MembershipEvent
    <3>2. <<"user", log[e].key>> \in BaseScopes(e)
      BY <3>1 DEF UserScopes
    <3> QED
      BY <3>2
  <2>2. CASE MembershipEvent(e)
    <3>1. BaseScopes(e) = MemberScopes(GroupKeyOf[log[e].group], log[e].key)
                             \cup Stable(<<"dsync-member", log[e].group, log[e].user>>)
      BY <2>2 DEF BaseScopes, UserEvent, MembershipEvent
    <3>2. <<"member", GroupKeyOf[log[e].group], log[e].key>> \in BaseScopes(e)
      BY <3>1 DEF MemberScopes
    <3> QED
      BY <3>2
  <2>3. CASE ~UserEvent(e) /\ ~MembershipEvent(e)
    <3>1. BaseScopes(e) = GroupEventScopes(log[e].group)
      BY <2>3 DEF BaseScopes
    <3>2. <<"group", GroupKeyOf[log[e].group]>> \in BaseScopes(e)
      BY <3>1 DEF GroupEventScopes, GroupScopes
    <3> QED
      BY <3>2
  <2> QED
    BY <2>1, <2>2, <2>3
<1>7. s \in Scope /\ versions[s] = e
  BY <1>1, <1>2, <1>4, <1>5, <1>6
<1> QED
  BY <1>7 DEF Seen

-----------------------------------------------------------------------------
(* People and groups that are kept *)

(* A person and a group of their own stay so as long as they are in the end.   *)
RowKept(p) == OwnIdentity(p) /\ NeverDeleted(p) /\ Present(p)
EdgeKept(p, g) == RowKept(p) /\ OwnGroup(g) /\ KeptKey(p) /\ group[g] = "present"

LEMMA Unmoved ==
    ASSUME UNCHANGED <<workos, scheme>>, NEW p, NEW g
    PROVE  /\ (OwnIdentity(p)' <=> OwnIdentity(p)) /\ (RowKept(p)' <=> RowKept(p))
           /\ (OwnGroup(g)' <=> OwnGroup(g)) /\ (EdgeKept(p, g)' <=> EdgeKept(p, g))
           /\ UserEvents(p)' = UserEvents(p) /\ Events' = Events
           /\ \A e : NewestMember(e, p, g)' <=> NewestMember(e, p, g)
<1>1. UNCHANGED <<log, person, group, scheme>>
  BY DEF workos
<1>2. Events' = Events /\ UserEvents(p)' = UserEvents(p) /\ MemberEvents(p, g)' = MemberEvents(p, g)
  BY <1>1 DEF Events, UserEvents, MemberEvents, UserEvent, MembershipEvent
<1>3. OwnIdentity(p)' <=> OwnIdentity(p)
  BY <1>1 DEF OwnIdentity
<1>4. /\ NeverDeleted(p)' <=> NeverDeleted(p)
      /\ Present(p)' <=> Present(p)
      /\ KeptKey(p)' <=> KeptKey(p)
      /\ OwnGroup(g)' <=> OwnGroup(g)
  BY <1>1 DEF NeverDeleted, Present, KeptKey, OwnGroup
<1> QED
  BY <1>1, <1>2, <1>3, <1>4 DEF RowKept, EdgeKept, NewestMember

LEMMA Grown ==
    ASSUME TypeInv, WorkosOK, NEW ev \in Event, Emit(ev), Change(ev), NEW p \in Person
    PROVE  /\ (\E e \in Events : log[e].user = p) /\ RowKept(p)' => RowKept(p)
           /\ UserEvents(p)' \cap Events = UserEvents(p)
           /\ Events \subseteq Events' /\ \A e \in Events : log'[e] = log[e]
           /\ \A g \in Group : /\ OwnGroup(g)' => OwnGroup(g)
                               /\ group'[g] = "present" => group[g] # "gone"
<1>1. PICK n \in Nat :
              /\ Events = 1..n /\ Events' = (1..n) \cup {n + 1} /\ n + 1 \notin 1..n
              /\ \A e \in 1..n : log'[e] = log[e]
              /\ UserEvents(p)' = UserEvents(p) \cup (IF ev.type \in {"user", "deleted"} /\ ev.user = p THEN {n + 1} ELSE {})
              /\ UserEvents(p) \subseteq 1..n
  BY EmitLog
<1>2. Events \subseteq Events' /\ (\A e \in Events : log'[e] = log[e]) /\ scheme' = scheme
  BY <1>1 DEF Emit
<1>3. OwnIdentity(p)' => OwnIdentity(p)
  BY <1>2 DEF OwnIdentity, Events
<1>4. NeverDeleted(p)' => NeverDeleted(p)
  BY <1>2 DEF NeverDeleted, Events
<1>5. /\ person \in [Person -> [state : {"none", "active", "inactive", "gone"}, key : Key \cup {None}]]
      /\ group \in [Group -> {"none", "present", "gone"}]
  BY DEF TypeInv, TypeOK
<1>6. ASSUME person[p].state # "none", Present(p)' PROVE Present(p)
  <2>1. CASE UserChange(ev)
    <3>1. PICK x : person' = [person EXCEPT ![ev.user] = x] /\ person[ev.user].state # "gone"
      BY <2>1 DEF UserChange
    <3>2. p # ev.user => person'[p] = person[p]
      BY <1>5, <3>1
    <3> QED
      BY <1>5, <1>6, <3>1, <3>2 DEF Present
  <2>2. CASE GroupChange(ev) \/ MemberChange(ev)
    BY <1>6, <2>2 DEF GroupChange, MemberChange, Present
  <2> QED
    BY <2>1, <2>2 DEF Change
<1>7. ASSUME NEW e \in Events, log[e].user = p PROVE person[p].state # "none"
  BY <1>7 DEF WorkosOK, PersonTold, PersonToldOf
<1>8. \A x \in Group : /\ group'[x] = "none" => group[x] = "none"
                       /\ group'[x] = "present" => group[x] # "gone"
  BY <1>5 DEF Change, UserChange, GroupChange, MemberChange
<1>9. \A g \in Group : OwnGroup(g)' => OwnGroup(g)
  BY <1>8 DEF OwnGroup
<1>10. (\E e \in Events : log[e].user = p) /\ RowKept(p)' => RowKept(p)
  BY <1>3, <1>4, <1>6, <1>7 DEF RowKept
<1> QED
  BY <1>1, <1>2, <1>8, <1>9, <1>10

LEMMA GrownEdge ==
    ASSUME TypeInv, WorkosOK, NEW ev \in Event, Emit(ev), Change(ev), NEW p \in Person, NEW g \in Group,
           NEW e \in Events, NewestMember(e, p, g)', EdgeKept(p, g)'
    PROVE  NewestMember(e, p, g) /\ EdgeKept(p, g)
<1>0. PersonTold /\ GroupTold /\ group \in [Group -> {"none", "present", "gone"}]
  BY DEF WorkosOK, TypeInv, TypeOK
<1>1. PICK n \in Nat :
              /\ Events = 1..n /\ Events' = (1..n) \cup {n + 1} /\ n + 1 \notin 1..n
              /\ \A i \in 1..n : log'[i] = log[i]
              /\ MemberEvents(p, g)' = MemberEvents(p, g) \cup
                           (IF ev.type \in {"added", "removed"} /\ ev.user = p /\ ev.group = g THEN {n + 1} ELSE {})
  BY EmitLog
<1>2. NewestMember(e, p, g)
  BY <1>1 DEF NewestMember
<1>3. log[e].user = p /\ log[e].group = g
  BY <1>2 DEF NewestMember, MemberEvents
<1>4. RowKept(p) /\ OwnGroup(g) /\ group[g] # "gone"
  BY <1>3, Grown DEF EdgeKept
<1>5. group[g] = "present"
  BY <1>0, <1>3, <1>4 DEF GroupTold, GroupToldOf
<1>6. person[p].state # "none"
  BY <1>0, <1>3 DEF PersonTold, PersonToldOf
<1>7. PICK m \in UserEvents(p) : log[m].key = person[p].key
  BY <1>0, <1>6, KeyTold
<1>8. m \in Events /\ log[m].user = p
  BY <1>7 DEF UserEvents
<1>9. \A i \in Events' : log'[i].user = p => log'[i].key = person'[p].key
  BY DEF EdgeKept, KeptKey, Events
<1>10. \A i \in Events : log[i].user = p => log[i].key = person'[p].key
  BY <1>1, <1>9
<1>11. KeptKey(p)
  BY <1>7, <1>8, <1>10 DEF KeptKey, Events
<1> QED
  BY <1>2, <1>4, <1>5, <1>11 DEF EdgeKept

(* What a written user row does to the rows of a person. *)
LEMMA PutRows ==
    ASSUME TypeInv, UserRows, NEW p \in Person, OwnIdentity(p), NEW h \in Handler, Owed(h), Write(h),
           users' # users \/ Head(run[h].todo).op = "putUser", NEW e, e = run[h].event
    PROVE  /\ log[e].user # p => RowsOf(p)' = RowsOf(p)
           /\ log[e].user = p => RowsOf(p)' = {UserHit(e)} /\ UserHit(e) \in UserId
           /\ log[e].user = p => RowsOf(p) = IF FindUser(e) = None THEN {} ELSE {UserHit(e)}
           /\ log[e].user = p /\ FindUser(e) = None => users[UserHit(e)] = None
<1>1. users \in [UserId -> UserRow \cup {None}]
  BY DEF TypeInv, TypeOK
<1>2. e \in Events /\ log[e].user \in Person /\ log[e].key \in Key
  BY UserWrite
<1>3. PICK i \in UserId, row \in UserRow : UserPut(h, e, i, row)
  BY UserWrite
<1>4. users' = [users EXCEPT ![i] = row] /\ row.ext = log[e].key /\ i = UserHit(e)
  BY <1>3 DEF UserPut, UserHit
<1>5. users'[i] = row /\ row # None /\ \A j \in UserId : j # i => users'[j] = users[j]
  BY <1>1, <1>4, RowAssumption
<1>6. CASE log[e].user # p
  <2>1. NameOf[log[e].key] \notin {NameOf[k] : k \in KeysOf[p]} /\ log[e].key \notin KeysOf[p]
    BY <1>2, <1>6, OthersKeys
  <2>2. i \notin RowsOf(p)
    <3> SUFFICES ASSUME i \in RowsOf(p) PROVE FALSE
      OBVIOUS
    <3>1. /\ users[i] # None /\ users[i].ext \in KeysOf[p]
          /\ scheme = "dsync" => i = p
          /\ scheme # "dsync" => users[i].name = NameOf[users[i].ext]
      BY OwnRows
    <3>2. /\ scheme = "dsync" => i = log[e].user
          /\ scheme # "dsync" => users[i].name = NameOf[log[e].key]
      BY <1>2, <1>4, <3>1, HitRow
    <3> QED
      BY <1>6, <2>1, <3>1, <3>2
  <2>3. i \notin RowsOf(p)'
    BY <1>4, <1>5, <2>1 DEF RowsOf
  <2> QED
    BY <1>5, <1>6, <2>2, <2>3 DEF RowsOf
<1>7. CASE log[e].user = p
  <2>1. log[e].key \in KeysOf[p]
    BY <1>2, <1>7, UserOfEvent
  <2>2. RowsOf(p) = IF FindUser(e) = None THEN {} ELSE {FindUser(e)}
    BY <1>2, <1>7, FoundRows
  <2>3. (FindUser(e) # None => FindUser(e) = i) /\ (FindUser(e) = None => users[i] = None)
    BY <1>2, <1>4, HitRow
  <2>4. RowsOf(p)' = {i}
    BY <1>4, <1>5, <2>1, <2>2, <2>3 DEF RowsOf
  <2> QED
    BY <1>4, <1>7, <2>2, <2>3, <2>4
<1> QED
  BY <1>6, <1>7

-----------------------------------------------------------------------------
(* A person who is kept keeps a row *)

(* A person who is kept keeps a row once any event about the person is applied. *)
RowStays(p) == RowKept(p) /\ (\E e \in UserEvents(p) : Seen(e)) => RowsOf(p) # {}
RowsStay == \A p \in Person : RowStays(p)

LEMMA MirroredStays ==
    ASSUME TypeInv, WorkosOK, ~live, NEW p \in Person, Present(p)
    PROVE  RowsOf(p) # {}
<1>1. PersonTold /\ Mirrored
  BY DEF WorkosOK
<1>2. p \in UserId /\ users[p] # None
  BY MirroredHas
<1>3. users[p].ext = person[p].key
  BY <1>1, <1>2, MirroredRow
<1>4. person[p].key \in KeysOf[p]
  BY <1>1, KeyTold DEF Present
<1> QED
  BY <1>2, <1>3, <1>4 DEF RowsOf

LEMMA MirroredStaysNext ==
    ASSUME NEW p \in Person
    PROVE  (TypeInv /\ WorkosOK /\ ~live /\ Present(p) => RowsOf(p) # {})'
<1>1. TypeInv /\ WorkosOK /\ ~live /\ Present(p) => RowsOf(p) # {}
  BY MirroredStays
<1> QED
  BY <1>1, PTL

LEMMA StaysSame ==
    ASSUME UNCHANGED <<workos, scheme>>, NEW p \in Person, RowStays(p),
           RowKept(p) /\ RowsOf(p) # {} => RowsOf(p)' # {},
           \A e \in UserEvents(p) : RowKept(p) /\ Seen(e)' /\ ~Seen(e) => RowsOf(p)' # {}
    PROVE  RowStays(p)'
<1>1. (RowKept(p)' <=> RowKept(p)) /\ UserEvents(p)' = UserEvents(p)
  BY Unmoved
<1> QED
  BY <1>1 DEF RowStays

LEMMA DeliverStays ==
    ASSUME TypeInv, WorkosOK, UserRows, ScopeOK, NEW p \in Person, RowStays(p), live,
           NEW h \in Handler, NEW d \in 1..Len(log), Deliver(h, d)
    PROVE  RowStays(p)'
<1>1. UNCHANGED <<workos, scheme, users>>
  BY DEF Deliver, native
<1>2. RowsOf(p)' = RowsOf(p)
  BY <1>1 DEF RowsOf
<1>3. ASSUME NEW e \in UserEvents(p), RowKept(p), Seen(e)', ~Seen(e) PROVE RowsOf(p)' # {}
  <2>1. e \in Events /\ UserEvent(e) /\ log[e].user = p /\ OwnIdentity(p)
    BY <1>3, OwnUserEvents DEF RowKept
  <2>2. PICK v \in Events, s \in MayScopes(e) : s \in MayScopes(v) /\ Seen(v)
    BY <1>3, <2>1, SeenDeliver
  <2>3. s \in PersonScopes(p)
    <3>1. s = <<"dsync-resource", p>> \/ \E k \in KeyOfPerson(p) : s = <<"user", k>>
      BY <2>1, ScopeForms
    <3>2. KeyOfPerson(p) \subseteq KeysOf[p]
      BY UserOfEvent DEF KeyOfPerson
    <3> QED
      BY <3>1, <3>2 DEF PersonScopes
  <2>4. v \in UserEvents(p)
    BY <2>1, <2>2, <2>3, ScopeOfUser
  <2> QED
    BY <1>2, <1>3, <2>2, <2>4 DEF RowStays
<1> QED
  BY <1>1, <1>2, <1>3, StaysSame

LEMMA PlanStays ==
    ASSUME TypeInv, UserRows, NEW p \in Person, RowStays(p), NEW h \in Handler, Plan(h)
    PROVE  RowStays(p)'
<1>1. UNCHANGED <<workos, scheme, users>>
  BY DEF Plan, native
<1>2. RowsOf(p)' = RowsOf(p)
  BY <1>1 DEF RowsOf
<1>3. ASSUME NEW e \in UserEvents(p), RowKept(p), Seen(e)', ~Seen(e) PROVE RowsOf(p)' # {}
  <2>1. e \in Events /\ log[e].user = p /\ log[e].type \in {"user", "deleted"}
    BY OwnUserEvents
  <2>2. log[e].type = "user"
    BY <1>3, <2>1 DEF RowKept, NeverDeleted, Events
  <2>3. ApplyEvent(e) = <<>>
    BY <1>3, SeenPlan
  <2>4. Same(e)
    <3>1. ApplyEvent(e) = IF Same(e) THEN <<>> ELSE IF ChangesHands(e) THEN <<ClearHit(e), PutHit(e)>> ELSE <<PutHit(e)>>
      BY <2>2, ApplyForms
    <3>2. \A x, y : <<x>> # <<>> /\ <<x, y>> # <<>>
      OBVIOUS
    <3> QED
      BY <2>3, <3>1, <3>2
  <2>5. RowsOf(p) = {FindUser(e)}
    BY <1>3, <2>1, <2>4, FoundRows DEF Same, RowKept
  <2> QED
    BY <1>2, <2>5
<1> QED
  BY <1>1, <1>2, <1>3, StaysSame

LEMMA WriteStays ==
    ASSUME Single, TypeInv, UserRows, NEW p \in Person, RowStays(p), NEW h \in Handler, Owed(h), Write(h)
    PROVE  RowStays(p)'
<1>1. UNCHANGED <<workos, scheme>>
  BY DEF Write
<1>c. PICK e : e = run[h].event
  OBVIOUS
<1>2. CASE users' = users /\ Head(run[h].todo).op # "putUser"
  <2>1. RowsOf(p)' = RowsOf(p)
    BY <1>2 DEF RowsOf
  <2>2. ASSUME NEW n \in UserEvents(p), Seen(n)', ~Seen(n) PROVE FALSE
    <3>1. n = e /\ ~Dry(h) /\ Dry(h)'
      BY <1>c, <2>2, SeenWrite
    <3>2. PICK b : b = Dry(h)' /\ Heads(e, Head(run[h].todo), b)
      <4>1. PICK b : b = Dry(h)'
        OBVIOUS
      <4>2. Heads(e, Head(run[h].todo), Dry(h)')
        BY <1>c, <3>1, WriteHeads
      <4> QED
        BY <4>1, <4>2
    <3>3. log[n].type \in {"user", "deleted"}
      BY OwnUserEvents
    <3>4. Head(run[h].todo) = PutHit(e) \/ Head(run[h].todo) = PutGone(e)
      BY <3>1, <3>2, <3>3 DEF Heads
    <3>5. PutHit(e).op = "putUser" /\ PutGone(e).op = "putUser"
      BY PutFields
    <3> QED
      BY <1>2, <3>4, <3>5, Zenon
  <2> QED
    BY <1>1, <2>1, <2>2, StaysSame
<1>3. CASE users' # users \/ Head(run[h].todo).op = "putUser"
  <2>1. ASSUME RowKept(p), RowsOf(p) # {} PROVE RowsOf(p)' # {}
    BY <1>3, <1>c, <2>1, PutRows DEF RowKept
  <2>2. ASSUME NEW n \in UserEvents(p), RowKept(p), Seen(n)', ~Seen(n) PROVE RowsOf(p)' # {}
    <3>1. n = e /\ log[n].user = p
      BY <1>c, <2>2, SeenWrite, OwnUserEvents
    <3> QED
      BY <1>3, <1>c, <2>2, <3>1, PutRows DEF RowKept
  <2> QED
    BY <1>1, <2>1, <2>2, StaysSame
<1> QED
  BY <1>2, <1>3

LEMMA InitStays == Init => RowsStay
<1>1. Init => Events = {}
  BY DEF Init, Events
<1> QED
  BY <1>1 DEF RowsStay, RowStays, UserEvents

LEMMA StepStays ==
    ASSUME Single, ListenerInv, ListenerInv', ScopeOK, RowsStay, [Next]_vars
    PROVE  RowsStay'
<1> SUFFICES ASSUME NEW p \in Person PROVE RowStays(p)'
  BY DEF RowsStay
<1>0. RowStays(p) /\ TypeInv /\ WorkosOK /\ UserRows /\ FlightInv /\ TypeInv' /\ WorkosOK' /\ live \in BOOLEAN
  BY DEF RowsStay, ListenerInv, TypeInv, TypeOK
<1>9. CASE ~live'
  BY <1>0, <1>9, MirroredStaysNext DEF RowStays, RowKept
<1>1. CASE WorkosStep /\ live'
  <2>1. PICK ev \in Event : Emit(ev) /\ Change(ev)
    BY <1>0, <1>1, WorkosChanges DEF TypeInv
  <2>2. live /\ UNCHANGED users
    BY <1>1, <2>1 DEF Emit, DirectWrite, native
  <2>3. RowsOf(p)' = RowsOf(p)
    BY <2>2 DEF RowsOf
  <2>4. ASSUME NEW e \in UserEvents(p)', RowKept(p)', Seen(e)' PROVE RowsOf(p) # {}
    <3>1. e # 0
      BY DEF UserEvents, Events
    <3>2. e \in Events /\ Seen(e)
      BY <1>0, <2>1, <2>2, <2>4, <3>1, SeenEmit
    <3>3. e \in UserEvents(p) /\ RowKept(p)
      <4>1. UserEvents(p)' \cap Events = UserEvents(p) /\ ((\E n \in Events : log[n].user = p) /\ RowKept(p)' => RowKept(p))
        BY <1>0, <2>1, Grown
      <4> QED
        BY <2>4, <3>2, <4>1 DEF UserEvents
    <3> QED
      BY <1>0, <3>2, <3>3 DEF RowStays
  <2> QED
    BY <2>3, <2>4 DEF RowStays
<1>2. CASE Cutover \/ UNCHANGED vars
  <2>1. UNCHANGED <<workos, scheme, users, versions, run>> /\ (live' = live \/ ~live)
    BY <1>2 DEF Cutover, vars, native, ledger
  <2> QED
    BY <1>0, <2>1, StaysSame, SeenSame DEF RowsOf
<1>3. ASSUME NEW h \in Handler, Resolve(h) \/ WriteRefused(h) \/ Fault(h) PROVE RowStays(p)'
  <2>1. UNCHANGED <<workos, scheme, users>>
    BY <1>3 DEF Resolve, WriteRefused, Fault, native
  <2> QED
    BY <1>0, <1>3, <2>1, StaysSame, SeenStops DEF RowsOf
<1>4. ASSUME NEW h \in Handler, Plan(h) PROVE RowStays(p)'
  BY <1>0, <1>4, PlanStays
<1>5. ASSUME NEW h \in Handler, Write(h) PROVE RowStays(p)'
  BY <1>0, <1>5, WriteStays DEF FlightInv
<1>6. ASSUME NEW h \in Handler, NEW e \in 1..Len(log), Deliver(h, e), live' PROVE RowStays(p)'
  BY <1>0, <1>6, DeliverStays DEF Deliver
<1> QED
  BY <1>1, <1>2, <1>3, <1>4, <1>5, <1>6, <1>9 DEF Next, HandlerStep

-----------------------------------------------------------------------------
(* A group that is removed loses its row *)

(* What a written group row does to the rows of a group. *)
LEMMA PutGroupRows ==
    ASSUME TypeInv, GroupTold, GroupRows, NEW g \in Group, OwnGroup(g), NEW e \in Events, NEW last,
           PutGroupWrite(e, last)
    PROVE  /\ log[e].group # g => GroupRowsOf(g)' = GroupRowsOf(g)
           /\ log[e].group = g => GroupRowsOf(g) = {} /\ GroupRowsOf(g)' = {NewGroupId(e)}
           /\ groups[NewGroupId(e)] = None
<1>0. groups \in [GroupId -> GroupRow \cup {None}]
  BY DEF TypeInv, TypeOK
<1>1. log[e].group \in Group /\ FindGroup(e) = None
  BY EventTyped DEF PutGroupWrite
<1>2. PICK i \in GroupId : i = NewGroupId(e) /\ groups[i] = None
  BY <1>1, FreeGroupId
<1>3. PICK row : row = [ext |-> GroupKeyOf[log[e].group]] /\ row.ext = GroupKeyOf[log[e].group] /\ row # None
  <2>1. GroupKeyOf[log[e].group] \in GroupKey
    BY <1>1 DEF GroupKey
  <2>2. [ext |-> GroupKeyOf[log[e].group]] \in GroupRow
    BY <2>1 DEF GroupRow
  <2> QED
    BY <2>2, RowAssumption
<1>4. groups'[i] = row /\ \A j \in GroupId : j # i => groups'[j] = groups[j]
  BY <1>0, <1>2, <1>3 DEF PutGroupWrite
<1>5. i \notin GroupRowsOf(g)
  BY <1>2 DEF GroupRowsOf
<1>6. CASE log[e].group # g
  <2>1. GroupKeyOf[log[e].group] # GroupKeyOf[g]
    BY <1>1, <1>6, OthersGroup
  <2>2. i \notin GroupRowsOf(g)'
    BY <1>3, <1>4, <2>1 DEF GroupRowsOf
  <2> QED
    BY <1>2, <1>4, <1>5, <1>6, <2>2 DEF GroupRowsOf
<1>7. CASE log[e].group = g
  <2>1. GroupRowsOf(g) = {}
    BY <1>1, <1>7, FoundGroupRows
  <2>2. GroupRowsOf(g)' = {i}
    BY <1>3, <1>4, <1>7, <2>1 DEF GroupRowsOf
  <2> QED
    BY <1>2, <1>7, <2>1, <2>2
<1> QED
  BY <1>2, <1>6, <1>7

LEMMA DropRows ==
    ASSUME TypeInv, GroupTold, GroupRows, NEW g \in Group, OwnGroup(g), NEW e \in Events, NEW last,
           DropWrite(e, last)
    PROVE  /\ log[e].group # g => GroupRowsOf(g)' = GroupRowsOf(g)
           /\ log[e].group = g => GroupRowsOf(g)' = {}
           /\ GroupRowsOf(g)' \subseteq GroupRowsOf(g)
<1>0. groups \in [GroupId -> GroupRow \cup {None}]
  BY DEF TypeInv, TypeOK
<1>1. log[e].group \in Group /\ FindGroup(e) # None
  BY EventTyped DEF DropWrite
<1>2. PICK i \in GroupId : i = FindGroup(e)
  BY <1>1, FoundGroup DEF TypeInv
<1>3. groups'[i] = None /\ \A j \in GroupId : j # i => groups'[j] = groups[j]
  BY <1>0, <1>2 DEF DropWrite
<1>4. GroupRowsOf(g)' = GroupRowsOf(g) \ {i}
  BY <1>3 DEF GroupRowsOf
<1>5. log[e].group # g => i \notin GroupRowsOf(g)
  BY <1>1, <1>2, OthersGroup
<1>6. log[e].group = g => GroupRowsOf(g) = {i}
  BY <1>1, <1>2, FoundGroupRows
<1> QED
  BY <1>4, <1>5, <1>6

(* A group that is removed has no row once its removal is applied. *)
GroupSettles(g) ==
    OwnGroup(g) => \A e \in Events :
        log[e].type = "groupDeleted" /\ log[e].group = g /\ Seen(e) => GroupRowsOf(g) = {}
GroupsSettle == \A g \in Group : GroupSettles(g)

LEMMA MirroredGroup ==
    ASSUME TypeInv, WorkosOK, ~live, NEW g \in Group
    PROVE  GroupSettles(g)
<1> SUFFICES ASSUME OwnGroup(g), NEW e \in Events, log[e].type = "groupDeleted", log[e].group = g,
                    NEW i \in GroupRowsOf(g)
             PROVE  FALSE
  BY DEF GroupSettles
<1>1. group[g] = "gone"
  BY DEF WorkosOK, GroupTold, GroupToldOf
<1>2. i \in GroupId /\ groups[i] # None /\ groups[i].ext = GroupKeyOf[g]
  BY DEF GroupRowsOf
<1>3. groups[i] = IF i \in Group /\ group[i] = "present" THEN [ext |-> GroupKeyOf[i]] ELSE None
  BY <1>2 DEF WorkosOK, Mirrored
<1>4. i \in Group /\ group[i] = "present" /\ GroupKeyOf[i] = GroupKeyOf[g]
  BY <1>2, <1>3
<1> QED
  BY <1>1, <1>4 DEF OwnGroup

LEMMA MirroredGroupNext ==
    ASSUME NEW g \in Group
    PROVE  (TypeInv /\ WorkosOK /\ ~live => GroupSettles(g))'
<1>1. TypeInv /\ WorkosOK /\ ~live => GroupSettles(g)
  BY MirroredGroup
<1> QED
  BY <1>1, PTL

LEMMA GroupSame ==
    ASSUME UNCHANGED <<workos, scheme>>, NEW g \in Group, GroupSettles(g),
           \A e \in Events : (OwnGroup(g) /\ log[e].type = "groupDeleted" /\ log[e].group = g /\ Seen(e)')
              => GroupRowsOf(g)' = {} \/ (Seen(e) /\ GroupRowsOf(g)' = GroupRowsOf(g))
    PROVE  GroupSettles(g)'
<1>1. Events' = Events /\ (OwnGroup(g)' <=> OwnGroup(g)) /\ log' = log
  BY Unmoved DEF workos
<1> QED
  BY <1>1 DEF GroupSettles

(* The removal is the last the log tells of the group. *)
LEMMA RemovalLast ==
    ASSUME TypeInv, GroupTold, GroupRows, NEW g \in Group, OwnGroup(g), NEW e \in Events,
           log[e].type = "groupDeleted", log[e].group = g, NEW v \in Events, NEW s \in MayScopes(v), s \in MayScopes(e)
    PROVE  v <= e
<1>1. MayScopes(e) = GroupEventScopes(g)
  BY DEF MayScopes, UserEvent, MembershipEvent
<1>2. log[v].group = g
  BY <1>1, ScopeOfGroup
<1> QED
  BY <1>2 DEF GroupTold, GroupToldOf

LEMMA WriteGroup ==
    ASSUME Single, TypeInv, WorkosOK, UserRows, GroupRows, ScopeOK, FlightInv, NEW g \in Group, GroupSettles(g),
           NEW h \in Handler, Write(h)
    PROVE  GroupSettles(g)'
<1>0. GroupTold /\ Owed(h) /\ Fresh(h)
  BY DEF WorkosOK, FlightInv
<1>1. UNCHANGED <<workos, scheme>> /\ run[h].pc = "write"
  BY DEF Write
<1>c. PICK e, last : e = run[h].event /\ last = Dry(h)'
  OBVIOUS
<1> SUFFICES ASSUME NEW n \in Events, OwnGroup(g), log[n].type = "groupDeleted", log[n].group = g, Seen(n)'
             PROVE  GroupRowsOf(g)' = {} \/ (Seen(n) /\ GroupRowsOf(g)' = GroupRowsOf(g))
  BY <1>1, GroupSame
<1>2. CASE ~Seen(n)
  <2>1. ~Dry(h) /\ last /\ n = e
    BY <1>0, <1>2, <1>c, SeenWrite
  <2>2. DropWrite(e, last)
    BY <1>0, <2>1, <1>c, WriteCases
      DEF PutWrite, ClearWrite, PutGroupWrite, ClearGroupWrite, AddWrite, RemoveWrite
  <2> QED
    BY <1>0, <2>1, <2>2, DropRows
<1>3. CASE Seen(n) /\ GroupRowsOf(g)' # GroupRowsOf(g)
  <2>1. groups' # groups
    BY <1>3 DEF GroupRowsOf
  <2>2. ~Dry(h)
    <3> SUFFICES ASSUME Dry(h) PROVE FALSE
      OBVIOUS
    <3> QED
      BY <1>1, <2>1, DryHead, DryWrite DEF Write
  <2>3. e \in Events /\ live
    BY <1>0, <1>c, <2>2, WriteHeads
  <2>4. PutGroupWrite(e, last) \/ DropWrite(e, last)
    BY <1>0, <1>c, <2>1, <2>2, WriteCases DEF PutWrite, ClearWrite, ClearGroupWrite, AddWrite, RemoveWrite
  <2>5. CASE DropWrite(e, last)
    BY <1>0, <1>3, <2>3, <2>5, DropRows
  <2>6. CASE PutGroupWrite(e, last)
    <3>1. log[e].group = g
      BY <1>0, <1>3, <2>3, <2>6, PutGroupRows
    <3>2. log[e].type # "groupDeleted" /\ n \in Nat /\ e \in Nat /\ n # 0
      BY <2>3, <2>6 DEF PutGroupWrite, Events
    <3>3. e <= n /\ e # n
      BY <1>0, <2>3, <3>1, <3>2 DEF GroupTold, GroupToldOf
    <3>4. PICK s \in Scope : versions[s] = n /\ s \in MayScopes(n)
      BY <1>3, <2>2, <2>3, <3>2, SeenBefore
    <3>5. s \in GroupEventScopes(g)
      BY <3>4 DEF MayScopes, UserEvent, MembershipEvent
    <3>6. CASE log[e].type = "added"
      <4>1. IsNewestAcross(GroupEventScopes(g), e)
        BY <2>6, <3>1, <3>6 DEF PutGroupWrite, GroupGate
      <4>2. e >= n
        BY <3>4, <3>5, <4>1 DEF IsNewestAcross
      <4> QED
        BY <3>2, <3>3, <4>2
    <3>7. CASE log[e].type = "group"
      <4>1. s \in BaseScopes(e)
        BY <3>1, <3>5, <3>7 DEF BaseScopes, UserEvent, MembershipEvent
      <4>2. s \in ToSet(run[h].scopes)
        BY <1>1, <1>c, <4>1 DEF ScopeOK, ScopesSafe, ScopesKnown
      <4>3. ~(n > e)
        BY <1>0, <1>1, <1>c, <2>2, <3>4, <4>2 DEF Fresh, Superseded
      <4> QED
        BY <3>2, <3>3, <4>3
    <3> QED
      BY <2>6, <3>6, <3>7 DEF PutGroupWrite
  <2> QED
    BY <2>4, <2>5, <2>6
<1> QED
  BY <1>2, <1>3

LEMMA InitGroup == Init => GroupsSettle
<1>1. Init => Events = {}
  BY DEF Init, Events
<1> QED
  BY <1>1 DEF GroupsSettle, GroupSettles

LEMMA StepGroup ==
    ASSUME Single, ListenerInv, ListenerInv', ScopeOK, GroupRows, GroupsSettle, [Next]_vars
    PROVE  GroupsSettle'
<1> SUFFICES ASSUME NEW g \in Group PROVE GroupSettles(g)'
  BY DEF GroupsSettle
<1>0. /\ GroupSettles(g) /\ TypeInv /\ WorkosOK /\ GroupTold /\ UserRows /\ FlightInv /\ TypeInv' /\ WorkosOK'
      /\ live \in BOOLEAN
  BY DEF GroupsSettle, ListenerInv, TypeInv, TypeOK, WorkosOK
<1>9. CASE ~live'
  BY <1>0, <1>9, MirroredGroupNext
<1>1. CASE WorkosStep /\ live'
  <2>1. PICK ev \in Event : Emit(ev) /\ Change(ev)
    BY <1>0, <1>1, WorkosChanges DEF TypeInv
  <2>2. live /\ UNCHANGED groups
    BY <1>1, <2>1 DEF Emit, DirectWrite, native
  <2>3. GroupRowsOf(g)' = GroupRowsOf(g)
    BY <2>2 DEF GroupRowsOf
  <2>4. OwnGroup(g)' => OwnGroup(g)
    BY <1>0, <2>1 DEF OwnGroup, Change, UserChange, GroupChange, MemberChange, TypeInv, TypeOK
  <2>5. \A e \in Events : log'[e] = log[e]
    BY <1>0, <2>1, EmitLog
  <2>6. ASSUME NEW e \in Events', Seen(e)' PROVE e \in Events /\ Seen(e)
    <3>1. e # 0
      BY DEF Events
    <3> QED
      BY <1>0, <2>1, <2>2, <2>6, <3>1, SeenEmit
  <2> QED
    BY <1>0, <2>3, <2>4, <2>5, <2>6 DEF GroupSettles
<1>a. ASSUME UNCHANGED <<workos, scheme, groups>>,
             \A e \in Events : (OwnGroup(g) /\ log[e].type = "groupDeleted" /\ log[e].group = g /\ Seen(e)' /\ ~Seen(e))
                => GroupRowsOf(g) = {}
      PROVE  GroupSettles(g)'
  <2>1. GroupRowsOf(g)' = GroupRowsOf(g)
    BY <1>a DEF GroupRowsOf
  <2> QED
    BY <1>0, <1>a, <2>1, GroupSame
<1>2. CASE Cutover \/ UNCHANGED vars
  <2>1. UNCHANGED <<workos, scheme, groups, versions, run>> /\ (live' = live \/ ~live)
    BY <1>2 DEF Cutover, vars, native, ledger
  <2> QED
    BY <1>a, <2>1, SeenSame
<1>3. ASSUME NEW h \in Handler, Resolve(h) \/ WriteRefused(h) \/ Fault(h) PROVE GroupSettles(g)'
  <2>1. UNCHANGED <<workos, scheme, groups>>
    BY <1>3 DEF Resolve, WriteRefused, Fault, native
  <2> QED
    BY <1>0, <1>3, <1>a, <2>1, SeenStops
<1>4. ASSUME NEW h \in Handler, Plan(h) PROVE GroupSettles(g)'
  <2>1. UNCHANGED <<workos, scheme, groups>>
    BY <1>4 DEF Plan, native
  <2>2. ASSUME NEW e \in Events, OwnGroup(g), log[e].type = "groupDeleted", log[e].group = g, Seen(e)', ~Seen(e)
        PROVE  GroupRowsOf(g) = {}
    <3>1. ApplyEvent(e) = <<>>
      BY <1>0, <1>4, <2>2, SeenPlan
    <3>2. ApplyEvent(e) = IF FindGroup(e) = None THEN <<>> ELSE <<ClearGroupHit(e), DropHit(e)>>
      BY <2>2, ApplyForms
    <3>3. \A x, y : <<x, y>> # <<>>
      OBVIOUS
    <3>4. FindGroup(e) = None
      BY <3>1, <3>2, <3>3
    <3> QED
      BY <1>0, <2>2, <3>4, FoundGroupRows
  <2> QED
    BY <1>a, <2>1, <2>2
<1>5. ASSUME NEW h \in Handler, Write(h) PROVE GroupSettles(g)'
  BY <1>0, <1>5, WriteGroup
<1>6. ASSUME NEW h \in Handler, NEW d \in 1..Len(log), Deliver(h, d), live' PROVE GroupSettles(g)'
  <2>1. UNCHANGED <<workos, scheme, groups>> /\ live
    BY <1>6 DEF Deliver, native
  <2>2. ASSUME NEW e \in Events, OwnGroup(g), log[e].type = "groupDeleted", log[e].group = g, Seen(e)', ~Seen(e)
        PROVE  FALSE
    <3>1. PICK v \in Events, s \in MayScopes(e) : s \in MayScopes(v) /\ v > e
      BY <1>0, <1>6, <2>1, <2>2, SeenDeliver
    <3>2. v <= e
      BY <1>0, <2>2, <3>1, RemovalLast
    <3> QED
      BY <3>1, <3>2 DEF Events
  <2> QED
    BY <1>a, <2>1, <2>2
<1> QED
  BY <1>1, <1>2, <1>3, <1>4, <1>5, <1>6, <1>9 DEF Next, HandlerStep

-----------------------------------------------------------------------------
(* When a membership is settled *)

(* A membership is as the newest event of it says, once that is applied. *)
EdgeSettles(p, g) ==
    EdgeKept(p, g) => \A e \in Events :
        NewestMember(e, p, g) /\ Seen(e) => (HasEdge(p, g) <=> log[e].type = "added")
EdgesSettle == \A p \in Person, g \in Group : EdgeSettles(p, g)

LEMMA MirroredEdge ==
    ASSUME TypeInv, WorkosOK, ~live, NEW p \in Person, NEW g \in Group
    PROVE  EdgeSettles(p, g)
<1> SUFFICES ASSUME EdgeKept(p, g), NEW e \in Events, NewestMember(e, p, g)
             PROVE  HasEdge(p, g) <=> log[e].type = "added"
  BY DEF EdgeSettles
<1>0. PersonTold /\ GroupTold /\ EdgesTold /\ Mirrored /\ edges \subseteq Group \X Person
  BY DEF WorkosOK, TypeInv, TypeOK
<1>1. OwnIdentity(p) /\ Present(p) /\ NeverDeleted(p) /\ OwnGroup(g) /\ group[g] = "present"
  BY DEF EdgeKept, RowKept
<1>2. <<g, p>> \in edges <=> log[e].type = "added"
  BY <1>0, <1>1 DEF EdgesTold, EdgeToldOf, NewestMember
<1>3. p \in RowsOf(p)
  <2>1. p \in UserId /\ users[p] # None
    BY <1>1, MirroredHas
  <2>2. users[p].ext = person[p].key
    BY <1>0, <2>1, MirroredRow
  <2>3. person[p].key \in KeysOf[p]
    BY <1>0, <1>1, KeyTold DEF Present
  <2> QED
    BY <2>1, <2>2, <2>3 DEF RowsOf
<1>4. g \in GroupRowsOf(g) /\ members = edges
  BY <1>1, MirroredHas DEF GroupRowsOf
<1>5. ASSUME NEW i \in RowsOf(p) PROVE i = p
  <2>1. i \in UserId /\ users[i] # None /\ users[i].ext \in KeysOf[p]
    BY DEF RowsOf
  <2>2. i \in Person /\ Present(i) /\ users[i].ext = person[i].key
    BY <1>0, <2>1, MirroredRow
  <2>3. PICK n \in UserEvents(i) : log[n].key = person[i].key
    BY <1>0, <2>2, KeyTold DEF Present
  <2>4. n \in Events /\ log[n].user = i
    BY <2>3 DEF UserEvents
  <2> QED
    BY <1>1, <2>1, <2>2, <2>3, <2>4, OthersKeys
<1>6. ASSUME NEW j \in GroupRowsOf(g) PROVE j = g
  <2>1. j \in GroupId /\ groups[j] # None /\ groups[j].ext = GroupKeyOf[g]
    BY DEF GroupRowsOf
  <2>2. groups[j] = IF j \in Group /\ group[j] = "present" THEN [ext |-> GroupKeyOf[j]] ELSE None
    BY <1>0, <2>1 DEF Mirrored
  <2>3. j \in Group /\ group[j] = "present" /\ GroupKeyOf[j] = GroupKeyOf[g]
    BY <2>1, <2>2
  <2> QED
    BY <1>1, <2>3 DEF OwnGroup
<1> QED
  BY <1>2, <1>3, <1>4, <1>5, <1>6 DEF HasEdge

LEMMA MirroredEdgeNext ==
    ASSUME NEW p \in Person, NEW g \in Group
    PROVE  (TypeInv /\ WorkosOK /\ ~live => EdgeSettles(p, g))'
<1>1. TypeInv /\ WorkosOK /\ ~live => EdgeSettles(p, g)
  BY MirroredEdge
<1> QED
  BY <1>1, PTL

LEMMA EdgeSame ==
    ASSUME UNCHANGED <<workos, scheme>>, NEW p \in Person, NEW g \in Group, EdgeSettles(p, g),
           \A e \in Events : (EdgeKept(p, g) /\ NewestMember(e, p, g) /\ Seen(e)')
              => (HasEdge(p, g)' <=> log[e].type = "added") \/ (Seen(e) /\ (HasEdge(p, g)' <=> HasEdge(p, g)))
    PROVE  EdgeSettles(p, g)'
<1>1. /\ Events' = Events /\ (EdgeKept(p, g)' <=> EdgeKept(p, g)) /\ log' = log
      /\ \A e : NewestMember(e, p, g)' <=> NewestMember(e, p, g)
  BY Unmoved DEF workos
<1> QED
  BY <1>1 DEF EdgeSettles

(* An event of the membership with nothing to write finds it as it wants it:    *)
(* with its group and its user there, no newer event can have closed the gates. *)
LEMMA PlanEdge ==
    ASSUME TypeInv, WorkosOK, UserRows, GroupRows, ScopeOK, NEW p \in Person, NEW g \in Group, RowStays(p),
           EdgeKept(p, g), NEW e \in Events, NewestMember(e, p, g), ApplyEvent(e) = <<>>
    PROVE  HasEdge(p, g) <=> log[e].type = "added"
<1>0. OwnIdentity(p) /\ RowKept(p) /\ OwnGroup(g) /\ group[g] = "present" /\ GroupTold
  BY DEF EdgeKept, RowKept, WorkosOK
<1>1. /\ log[e].user = p /\ log[e].group = g /\ log[e].type \in {"added", "removed"}
  BY DEF NewestMember, MemberEvents, MembershipEvent
<1>2. RowsOf(p) = (IF FindUser(e) = None THEN {} ELSE {FindUser(e)}) /\ log[e].key \in KeysOf[p] /\ log[e].key \in Key
  BY <1>0, <1>1, FoundRows, UserOfEvent
<1>3. GroupRowsOf(g) = IF FindGroup(e) = None THEN {} ELSE {FindGroup(e)}
  BY <1>0, <1>1, FoundGroupRows
<1>v. \A s \in Scope : versions[s] \in Nat /\ (versions[s] # 0 => versions[s] \in Events /\ s \in MayScopes(versions[s]) /\ Seen(versions[s]))
  BY BoundAssumption DEF TypeInv, TypeOK, ScopeOK, VersionsFrom, Seen
<1>n. e \in Nat
  BY DEF Events
<1>4. CASE log[e].type = "removed"
  <2>1. FindUser(e) = None \/ FindGroup(e) = None
    <3>1. ApplyEvent(e) = IF FindUser(e) = None \/ FindGroup(e) = None THEN <<>> ELSE <<RemoveHit(e)>>
      BY <1>4, ApplyForms
    <3>2. \A x : <<x>> # <<>>
      OBVIOUS
    <3> QED
      BY <3>1, <3>2
  <2> QED
    BY <1>2, <1>3, <1>4, <2>1 DEF HasEdge
<1>5. CASE log[e].type = "added"
  <2>1. ~GroupGate(e) \/ ~UserGate(e)
    <3>1. ApplyEvent(e) = IF ~GroupGate(e) \/ ~UserGate(e) THEN <<>>
                 ELSE IF FindUser(e) = None
                 THEN IF FindGroup(e) = None THEN <<PutHit(e), PutGroupHit(e), AddHit(e)>>
                      ELSE <<PutHit(e), AddHit(e)>>
                 ELSE IF FindGroup(e) = None THEN <<PutGroupHit(e), AddHit(e)>>
                      ELSE <<AddHit(e)>>
      BY <1>5, ApplyForms
    <3>2. \A x, y, z : <<x>> # <<>> /\ <<x, y>> # <<>> /\ <<x, y, z>> # <<>>
      OBVIOUS
    <3> QED
      BY <3>1, <3>2
  <2>2. GroupGate(e)
    <3> SUFFICES ASSUME ~IsNewestAcross(GroupEventScopes(g), e) PROVE FALSE
      BY <1>1 DEF GroupGate
    <3>1. PICK s \in GroupEventScopes(g) : ~(e >= versions[s])
      BY DEF IsNewestAcross
    <3>2. s \in Scope
      BY <3>1, <1>1, StubScopes
    <3>3. versions[s] \in Events /\ s \in MayScopes(versions[s]) /\ versions[s] > e
      BY <1>v, <1>n, <3>1, <3>2
    <3>4. PICK v \in Events : v = versions[s]
      BY <3>3
    <3>5. log[v].group = g /\ log[v].type \in {"group", "groupDeleted"}
      BY <1>0, <3>1, <3>3, <3>4, ScopeOfGroup
    <3>6. log[v].type = "group" => e >= v
      BY <1>0, <1>1, <3>5 DEF GroupTold, GroupToldOf
    <3>7. log[v].type # "groupDeleted"
      BY <1>0, <3>5 DEF GroupTold, GroupToldOf
    <3> QED
      BY <1>n, <3>3, <3>4, <3>5, <3>6, <3>7 DEF Events
  <2>3. UserGate(e)
    <3> SUFFICES ASSUME FindUser(e) = None, ~IsNewestAcross(UserEventScopes(p, log[e].key), e) PROVE FALSE
      BY <1>1 DEF UserGate
    <3>1. PICK s \in UserEventScopes(p, log[e].key) : ~(e >= versions[s])
      BY DEF IsNewestAcross
    <3>2. s \in Scope
      BY <1>1, <1>2, <3>1, StubScopes
    <3>3. versions[s] \in Events /\ s \in MayScopes(versions[s]) /\ Seen(versions[s]) /\ versions[s] > e
      BY <1>v, <1>n, <3>1, <3>2
    <3>4. s \in PersonScopes(p)
      <4>1. LinkedUser(p) = None
        <5>1. scheme = "dsync" => users[p] = None
          BY <1>1, <1>2, FoundUser DEF TypeInv
        <5> QED
          BY <5>1 DEF LinkedUser
      <4>2. UserEventScopes(p, log[e].key) = UserScopes(log[e].key) \cup Stable(<<"dsync-resource", p>>) \cup UserScopes(log[e].key)
        BY <4>1 DEF UserEventScopes, CurrentKey
      <4> QED
        BY <1>2, <3>1, <4>2 DEF UserScopes, Stable, PersonScopes
    <3>5. versions[s] \in UserEvents(p)
      BY <1>0, <3>3, <3>4, ScopeOfUser
    <3> QED
      BY <1>0, <1>2, <3>3, <3>5 DEF RowStays
  <2> QED
    BY <2>1, <2>2, <2>3
<1> QED
  BY <1>1, <1>4, <1>5

-----------------------------------------------------------------------------
(* Writes and the memberships they settle *)

(* A statement of another timeline leaves the membership as it is. *)
LEMMA EdgeHolds ==
    ASSUME TypeInv, WorkosOK, UserRows, GroupRows, EdgesFrom, NEW p \in Person, NEW g \in Group, EdgeKept(p, g),
           NEW h \in Handler, Owed(h), Write(h), ~Dry(h), NEW e, e = run[h].event, NEW last, last = Dry(h)'
    PROVE  \/ HasEdge(p, g)' <=> HasEdge(p, g)
           \/ e \in MemberEvents(p, g) /\ (AddWrite(e, last) \/ RemoveWrite(e, last))
<1>0. OwnIdentity(p) /\ NeverDeleted(p) /\ OwnGroup(g) /\ group[g] = "present" /\ GroupTold /\ KeptKey(p)
  BY DEF EdgeKept, RowKept, WorkosOK
<1>1. e \in Events
  BY WriteHeads
<1>2. /\ log[e].type \in {"user", "deleted", "added", "removed"} => log[e].user \in Person /\ log[e].key \in Key
      /\ log[e].type \in {"group", "groupDeleted", "added", "removed"} => log[e].group \in Group
  BY <1>1, EventTyped
<1>3. \A m \in members : users[m[2]] # None /\ groups[m[1]] # None
  BY DEF EdgesFrom, MemberFrom
<1>4. ASSUME RowsOf(p)' = RowsOf(p), GroupRowsOf(g)' = GroupRowsOf(g),
             \A i \in RowsOf(p), j \in GroupRowsOf(g) : <<j, i>> \in members' <=> <<j, i>> \in members
      PROVE  HasEdge(p, g)' <=> HasEdge(p, g)
  BY <1>4 DEF HasEdge
<1>5. users' = users => RowsOf(p)' = RowsOf(p)
  BY DEF RowsOf
<1>6. groups' = groups => GroupRowsOf(g)' = GroupRowsOf(g)
  BY DEF GroupRowsOf
<1>7. CASE Head(run[h].todo).op = "putUser" /\ PutWrite(e)
  <2>1. members' = members /\ GroupRowsOf(g)' = GroupRowsOf(g)
    BY <1>6, <1>7 DEF PutWrite
  <2>2. CASE log[e].user # p
    <3>1. RowsOf(p)' = RowsOf(p)
      BY <1>0, <1>7, <2>2, PutRows
    <3> QED
      BY <1>4, <2>1, <3>1
  <2>3. CASE log[e].user = p /\ FindUser(e) # None
    <3>1. RowsOf(p)' = RowsOf(p)
      BY <1>0, <1>7, <2>3, PutRows
    <3> QED
      BY <1>4, <2>1, <3>1
  <2>4. CASE log[e].user = p /\ FindUser(e) = None
    <3>1. RowsOf(p) = {} /\ RowsOf(p)' = {UserHit(e)} /\ users[UserHit(e)] = None
      BY <1>0, <1>7, <2>4, PutRows
    <3>2. ~HasEdge(p, g)
      BY <3>1 DEF HasEdge
    <3>3. ASSUME HasEdge(p, g)' PROVE FALSE
      <4>1. PICK i \in RowsOf(p)', j \in GroupRowsOf(g)' : <<j, i>> \in members'
        BY <3>3 DEF HasEdge
      <4>2. <<j, i>> \in members /\ i = UserHit(e)
        BY <2>1, <3>1, <4>1
      <4>3. users[<<j, i>>[2]] # None
        BY <1>3, <4>2
      <4> QED
        BY <3>1, <4>2, <4>3
    <3> QED
      BY <3>2, <3>3
  <2> QED
    BY <2>2, <2>3, <2>4
<1>8. CASE ClearWrite(e, last)
  <2>1. FindUser(e) \notin RowsOf(p)
    <3>1. log[e].type = "user" /\ FindUser(e) # None /\ users[FindUser(e)].ext # log[e].key
      BY <1>8 DEF ClearWrite, ChangesHands
    <3>2. CASE log[e].user = p
      <4> SUFFICES ASSUME FindUser(e) \in RowsOf(p) PROVE FALSE
        OBVIOUS
      <4>1. PICK n \in Events : log[n].user = p /\ log[n].key = users[FindUser(e)].ext
        BY <1>0, OwnRows
      <4>2. log[n].key = person[p].key /\ log[e].key = person[p].key
        BY <1>0, <1>1, <3>2, <4>1 DEF KeptKey, Events
      <4> QED
        BY <3>1, <4>1, <4>2
    <3>3. CASE log[e].user # p
      BY <1>0, <1>1, <1>2, <3>1, <3>3, OthersUser
    <3> QED
      BY <3>2, <3>3
  <2>2. \A i \in RowsOf(p), j \in GroupRowsOf(g) : <<j, i>> \in members' <=> <<j, i>> \in members
    BY <1>8, <2>1 DEF ClearWrite, EdgesOfUser
  <2> QED
    BY <1>4, <1>5, <1>6, <1>8, <2>2 DEF ClearWrite
<1>9. CASE PutGroupWrite(e, last)
  <2>1. members' = members /\ RowsOf(p)' = RowsOf(p)
    BY <1>5, <1>9 DEF PutGroupWrite
  <2>2. CASE log[e].group # g
    <3>1. GroupRowsOf(g)' = GroupRowsOf(g)
      BY <1>0, <1>1, <1>9, <2>2, PutGroupRows
    <3> QED
      BY <1>4, <2>1, <3>1
  <2>3. CASE log[e].group = g
    <3>1. GroupRowsOf(g) = {} /\ GroupRowsOf(g)' = {NewGroupId(e)} /\ groups[NewGroupId(e)] = None
      BY <1>0, <1>1, <1>9, <2>3, PutGroupRows
    <3>2. ~HasEdge(p, g)
      BY <3>1 DEF HasEdge
    <3>3. ASSUME HasEdge(p, g)' PROVE FALSE
      <4>1. PICK i \in RowsOf(p)', j \in GroupRowsOf(g)' : <<j, i>> \in members'
        BY <3>3 DEF HasEdge
      <4>2. <<j, i>> \in members /\ j = NewGroupId(e)
        BY <2>1, <3>1, <4>1
      <4>3. groups[<<j, i>>[1]] # None
        BY <1>3, <4>2
      <4> QED
        BY <3>1, <4>2, <4>3
    <3> QED
      BY <3>2, <3>3
  <2> QED
    BY <2>2, <2>3
<1>10. ASSUME log[e].type = "groupDeleted" PROVE log[e].group # g
  BY <1>0, <1>1, <1>10 DEF GroupTold, GroupToldOf
<1>11. CASE ClearGroupWrite(e, last)
  <2>1. FindGroup(e) \notin GroupRowsOf(g)
    BY <1>0, <1>1, <1>2, <1>10, <1>11, OthersGroup DEF ClearGroupWrite
  <2>2. \A i \in RowsOf(p), j \in GroupRowsOf(g) : <<j, i>> \in members' <=> <<j, i>> \in members
    BY <1>11, <2>1 DEF ClearGroupWrite, EdgesOfGroup
  <2> QED
    BY <1>4, <1>5, <1>6, <1>11, <2>2 DEF ClearGroupWrite
<1>12. CASE DropWrite(e, last)
  <2>1. GroupRowsOf(g)' = GroupRowsOf(g)
    BY <1>0, <1>1, <1>10, <1>12, DropRows DEF DropWrite
  <2> QED
    BY <1>4, <1>5, <1>12, <2>1 DEF DropWrite
<1>13. CASE AddWrite(e, last) \/ RemoveWrite(e, last)
  <2>1. /\ log[e].type \in {"added", "removed"} /\ FindUser(e) # None /\ FindGroup(e) # None
        /\ UNCHANGED <<users, groups>>
        /\ \A m : m # <<FindGroup(e), FindUser(e)>> => (m \in members' <=> m \in members)
    BY <1>13 DEF AddWrite, RemoveWrite
  <2>2. CASE log[e].user = p /\ log[e].group = g
    BY <1>1, <1>13, <2>1, <2>2 DEF MemberEvents, MembershipEvent
  <2>3. CASE log[e].user # p \/ log[e].group # g
    <3>1. FindUser(e) \notin RowsOf(p) \/ FindGroup(e) \notin GroupRowsOf(g)
      BY <1>0, <1>1, <1>2, <2>1, <2>3, OthersUser, OthersGroup
    <3>2. \A i \in RowsOf(p), j \in GroupRowsOf(g) : <<j, i>> # <<FindGroup(e), FindUser(e)>>
      BY <3>1
    <3> QED
      BY <1>4, <1>5, <1>6, <2>1, <3>2
  <2> QED
    BY <2>2, <2>3
<1> QED
  BY <1>7, <1>8, <1>9, <1>11, <1>12, <1>13, WriteCases

LEMMA OwnEdgeWrite ==
    ASSUME TypeInv, GroupTold, UserRows, GroupRows, NEW p \in Person, NEW g \in Group, OwnIdentity(p), OwnGroup(g),
           NEW e \in MemberEvents(p, g), NEW last, AddWrite(e, last) \/ RemoveWrite(e, last)
    PROVE  HasEdge(p, g)' <=> log[e].type = "added"
<1>1. e \in Events /\ log[e].user = p /\ log[e].group = g
  BY DEF MemberEvents
<1>2. FindUser(e) # None /\ FindGroup(e) # None /\ UNCHANGED <<users, groups>>
  BY DEF AddWrite, RemoveWrite
<1>3. RowsOf(p) = {FindUser(e)} /\ GroupRowsOf(g) = {FindGroup(e)}
  BY <1>1, <1>2, FoundRows, FoundGroupRows
<1>4. RowsOf(p)' = {FindUser(e)} /\ GroupRowsOf(g)' = {FindGroup(e)}
  BY <1>2, <1>3 DEF RowsOf, GroupRowsOf
<1>5. HasEdge(p, g)' <=> <<FindGroup(e), FindUser(e)>> \in members'
  BY <1>4 DEF HasEdge
<1>6. <<FindGroup(e), FindUser(e)>> \in members' <=> log[e].type = "added"
  BY DEF AddWrite, RemoveWrite
<1> QED
  BY <1>5, <1>6

LEMMA WriteEdge ==
    ASSUME Single, TypeInv, WorkosOK, UserRows, GroupRows, EdgesFrom, ScopeOK, FlightInv, NEW p \in Person,
           NEW g \in Group, EdgeSettles(p, g), NEW h \in Handler, Write(h)
    PROVE  EdgeSettles(p, g)'
<1>0. GroupTold /\ Owed(h) /\ Fresh(h)
  BY DEF WorkosOK, FlightInv
<1>1. UNCHANGED <<workos, scheme>> /\ run[h].pc = "write"
  BY DEF Write
<1>c. PICK e, last : e = run[h].event /\ last = Dry(h)'
  OBVIOUS
<1> SUFFICES ASSUME NEW n \in Events, EdgeKept(p, g), NewestMember(n, p, g), Seen(n)'
             PROVE  (HasEdge(p, g)' <=> log[n].type = "added") \/ (Seen(n) /\ (HasEdge(p, g)' <=> HasEdge(p, g)))
  BY <1>1, EdgeSame
<1>2. OwnIdentity(p) /\ OwnGroup(g) /\ KeptKey(p) /\ n \in MemberEvents(p, g) /\ \A i \in MemberEvents(p, g) : i <= n
  BY DEF EdgeKept, RowKept, NewestMember
<1>3. log[n].type \in {"added", "removed"} /\ log[n].user = p /\ log[n].group = g /\ n \in Nat /\ n # 0
  BY <1>2 DEF MemberEvents, MembershipEvent, Events
<1>4. CASE ~Seen(n)
  <2>1. ~Dry(h) /\ last /\ n = e
    BY <1>0, <1>4, <1>c, SeenWrite
  <2>2. AddWrite(e, last) \/ RemoveWrite(e, last)
    BY <1>0, <1>3, <2>1, <1>c, WriteCases
      DEF PutWrite, ClearWrite, PutGroupWrite, ClearGroupWrite, DropWrite
  <2> QED
    BY <1>0, <1>2, <2>1, <2>2, OwnEdgeWrite
<1>5. CASE Seen(n) /\ Dry(h)
  <2>1. UNCHANGED <<users, groups, members>>
    BY <1>1, <1>5, DryHead, DryWrite DEF Write
  <2>2. HasEdge(p, g)' <=> HasEdge(p, g)
    BY <2>1 DEF HasEdge, RowsOf, GroupRowsOf
  <2> QED
    BY <1>5, <2>2
<1>6. CASE Seen(n) /\ ~Dry(h)
  <2>1. e \in Events /\ live
    BY <1>0, <1>6, <1>c, WriteHeads
  <2>2. CASE HasEdge(p, g)' <=> HasEdge(p, g)
    BY <1>6, <2>2
  <2>3. CASE e \in MemberEvents(p, g) /\ (AddWrite(e, last) \/ RemoveWrite(e, last))
    <3>1. PICK s \in Scope : versions[s] = n /\ s \in MayScopes(n)
      BY <1>3, <1>6, <2>1, SeenBefore
    <3>2. log[e].user = p /\ log[e].group = g /\ MembershipEvent(e) /\ e \in Nat /\ e <= n
      BY <1>2, <2>1, <2>3 DEF MemberEvents, Events
    <3>3. KeyOfPerson(p) \subseteq {log[e].key}
      BY <1>2, <2>1, <3>2 DEF KeyOfPerson, KeptKey, Events
    <3>4. MayScopes(n) = (UNION {MemberScopes(GroupKeyOf[g], k) : k \in KeyOfPerson(p)}) \cup Stable(<<"dsync-member", g, p>>)
      BY <1>3 DEF MayScopes, UserEvent, MembershipEvent
    <3>5. BaseScopes(e) = MemberScopes(GroupKeyOf[g], log[e].key) \cup Stable(<<"dsync-member", g, p>>)
      BY <3>2 DEF BaseScopes, UserEvent, MembershipEvent
    <3>6. s \in BaseScopes(e)
      BY <3>1, <3>3, <3>4, <3>5
    <3>7. s \in ToSet(run[h].scopes)
      BY <1>1, <1>c, <3>6 DEF ScopeOK, ScopesSafe, ScopesKnown
    <3>8. ~(n > e)
      BY <1>0, <1>1, <1>6, <1>c, <3>1, <3>7 DEF Fresh, Superseded
    <3>9. e = n
      BY <1>3, <3>2, <3>8
    <3> QED
      BY <1>0, <1>2, <2>3, <3>9, OwnEdgeWrite
  <2> QED
    BY <1>0, <1>6, <1>c, <2>2, <2>3, EdgeHolds
<1> QED
  BY <1>4, <1>5, <1>6

-----------------------------------------------------------------------------
(* Every membership settles *)

LEMMA InitEdge == Init => EdgesSettle
<1>1. Init => Events = {}
  BY DEF Init, Events
<1> QED
  BY <1>1 DEF EdgesSettle, EdgeSettles

LEMMA StepEdge ==
    ASSUME Single, ListenerInv, ListenerInv', ScopeOK, GroupRows, EdgesFrom, RowsStay, EdgesSettle, [Next]_vars
    PROVE  EdgesSettle'
<1> SUFFICES ASSUME NEW p \in Person, NEW g \in Group PROVE EdgeSettles(p, g)'
  BY DEF EdgesSettle
<1>0. /\ EdgeSettles(p, g) /\ RowStays(p) /\ TypeInv /\ WorkosOK /\ GroupTold /\ UserRows /\ FlightInv
      /\ TypeInv' /\ WorkosOK' /\ live \in BOOLEAN
  BY DEF EdgesSettle, RowsStay, ListenerInv, TypeInv, TypeOK, WorkosOK
<1>9. CASE ~live'
  BY <1>0, <1>9, MirroredEdgeNext
<1>1. CASE WorkosStep /\ live'
  <2>1. PICK ev \in Event : Emit(ev) /\ Change(ev)
    BY <1>0, <1>1, WorkosChanges DEF TypeInv
  <2>2. live /\ UNCHANGED <<users, groups, members>>
    BY <1>1, <2>1 DEF Emit, DirectWrite, native
  <2>3. HasEdge(p, g)' <=> HasEdge(p, g)
    BY <2>2 DEF HasEdge, RowsOf, GroupRowsOf
  <2>4. \A e \in Events : log'[e] = log[e]
    BY <1>0, <2>1, EmitLog
  <2>5. ASSUME NEW e \in Events', Seen(e)' PROVE e \in Events /\ Seen(e)
    <3>1. e # 0
      BY DEF Events
    <3> QED
      BY <1>0, <2>1, <2>2, <2>5, <3>1, SeenEmit
  <2>6. ASSUME NEW e \in Events, EdgeKept(p, g)', NewestMember(e, p, g)'
        PROVE  EdgeKept(p, g) /\ NewestMember(e, p, g)
    BY <1>0, <2>1, <2>6, GrownEdge
  <2> QED
    BY <1>0, <2>3, <2>4, <2>5, <2>6 DEF EdgeSettles
<1>a. ASSUME UNCHANGED <<workos, scheme, native>>,
             \A e \in Events : (EdgeKept(p, g) /\ NewestMember(e, p, g) /\ Seen(e)' /\ ~Seen(e))
                => (HasEdge(p, g) <=> log[e].type = "added")
      PROVE  EdgeSettles(p, g)'
  <2>1. HasEdge(p, g)' <=> HasEdge(p, g)
    BY <1>a DEF HasEdge, RowsOf, GroupRowsOf, native
  <2> QED
    BY <1>0, <1>a, <2>1, EdgeSame
<1>2. CASE Cutover \/ UNCHANGED vars
  <2>1. UNCHANGED <<workos, scheme, native, versions, run>> /\ (live' = live \/ ~live)
    BY <1>2 DEF Cutover, vars, ledger
  <2> QED
    BY <1>a, <2>1, SeenSame
<1>3. ASSUME NEW h \in Handler, Resolve(h) \/ WriteRefused(h) \/ Fault(h) PROVE EdgeSettles(p, g)'
  <2>1. UNCHANGED <<workos, scheme, native>>
    BY <1>3 DEF Resolve, WriteRefused, Fault
  <2> QED
    BY <1>0, <1>3, <1>a, <2>1, SeenStops
<1>4. ASSUME NEW h \in Handler, Plan(h) PROVE EdgeSettles(p, g)'
  <2>1. UNCHANGED <<workos, scheme, native>>
    BY <1>4 DEF Plan
  <2>2. ASSUME NEW e \in Events, EdgeKept(p, g), NewestMember(e, p, g), Seen(e)', ~Seen(e)
        PROVE  HasEdge(p, g) <=> log[e].type = "added"
    <3>1. ApplyEvent(e) = <<>>
      BY <1>0, <1>4, <2>2, SeenPlan
    <3> QED
      BY <1>0, <2>2, <3>1, PlanEdge
  <2> QED
    BY <1>a, <2>1, <2>2
<1>5. ASSUME NEW h \in Handler, Write(h) PROVE EdgeSettles(p, g)'
  BY <1>0, <1>5, WriteEdge
<1>6. ASSUME NEW h \in Handler, NEW d \in 1..Len(log), Deliver(h, d), live' PROVE EdgeSettles(p, g)'
  <2>1. UNCHANGED <<workos, scheme, native>> /\ live
    BY <1>6 DEF Deliver
  <2>2. ASSUME NEW e \in Events, EdgeKept(p, g), NewestMember(e, p, g), Seen(e)', ~Seen(e)
        PROVE  FALSE
    <3>1. PICK v \in Events, s \in MayScopes(e) : s \in MayScopes(v) /\ v > e
      BY <1>0, <1>6, <2>1, <2>2, SeenDeliver
    <3>2. OwnIdentity(p) /\ OwnGroup(g) /\ e \in MemberEvents(p, g) /\ \A i \in MemberEvents(p, g) : i <= e
      BY <2>2 DEF EdgeKept, RowKept, NewestMember
    <3>3. v \in MemberEvents(p, g)
      BY <1>0, <3>1, <3>2, ScopeOfMember
    <3> QED
      BY <3>1, <3>2, <3>3 DEF Events
  <2> QED
    BY <1>a, <2>1, <2>2
<1> QED
  BY <1>1, <1>2, <1>3, <1>4, <1>5, <1>6, <1>9 DEF Next, HandlerStep

(* The inductive invariant of the memberships.                                 *)
EdgeInv == SettledInv /\ GroupRows /\ EdgesFrom /\ RowsStay /\ GroupsSettle /\ EdgesSettle

(* Once everything is recorded, the newest event of every membership was       *)
(* applied, and the removal of every group that is gone.                       *)
LEMMA QuietEdge ==
    ASSUME EdgeInv, Quiet, NEW p \in Person, NEW g \in Group,
           OwnIdentity(p), OwnGroup(g), NeverDeleted(p), KeptKey(p), person[p].state = "active"
    PROVE  HasEdge(p, g) <=> <<g, p>> \in edges
<1>0. /\ TypeInv /\ WorkosOK /\ GroupTold /\ EdgesTold /\ UserRows /\ GroupRows /\ EdgesFrom /\ ScopeOK
      /\ GroupSettles(g) /\ EdgeSettles(p, g)
  BY DEF EdgeInv, SettledInv, ListenerInv, WorkosOK, GroupsSettle, EdgesSettle
<1>1. <<g, p>> \in edges => group[g] = "present" /\ \E e \in MemberEvents(p, g) : log[e].type = "added"
  BY <1>0 DEF EdgesTold, EdgeToldOf
<1>2. HasEdge(p, g) => \E e \in MemberEvents(p, g) : log[e].type = "added"
  BY <1>0, EdgeOwned
<1>3. CASE group[g] = "none"
  <2>1. ~\E e \in MemberEvents(p, g) : log[e].type = "added"
    BY <1>0, <1>3 DEF GroupTold, GroupToldOf, MemberEvents
  <2> QED
    BY <1>1, <1>2, <2>1
<1>4. CASE group[g] = "gone"
  <2>1. PICK e \in Events : log[e].type = "groupDeleted" /\ log[e].group = g
    BY <1>0, <1>4 DEF GroupTold, GroupToldOf
  <2>2. \A v \in Events : \A s \in MayScopes(v) : s \in MayScopes(e) => v <= e
    BY <1>0, <2>1, RemovalLast
  <2>3. Seen(e)
    BY <1>0, <2>2, SeenQuiet
  <2>4. GroupRowsOf(g) = {}
    BY <1>0, <2>1, <2>3 DEF GroupSettles
  <2> QED
    BY <1>1, <1>4, <2>4 DEF HasEdge
<1>5. CASE group[g] = "present"
  <2>1. CASE MemberEvents(p, g) = {}
    BY <1>1, <1>2, <2>1
  <2>2. CASE MemberEvents(p, g) # {}
    <3>1. PICK e \in MemberEvents(p, g) : \A i \in MemberEvents(p, g) : i <= e
      <4>1. PICK n \in Nat : n = Len(log)
        BY <1>0 DEF TypeInv, TypeOK
      <4>2. MemberEvents(p, g) \in SUBSET (1..n)
        BY <4>1 DEF MemberEvents, Events
      <4> QED
        BY <2>2, <4>2, Newest
    <3>2. NewestMember(e, p, g) /\ e \in Events
      BY <3>1 DEF NewestMember, MemberEvents
    <3>3. \A v \in Events : \A s \in MayScopes(v) : s \in MayScopes(e) => v <= e
      BY <1>0, <3>1, ScopeOfMember
    <3>4. Seen(e)
      BY <1>0, <3>2, <3>3, SeenQuiet
    <3>5. EdgeKept(p, g)
      BY <1>5 DEF EdgeKept, RowKept, Present
    <3>6. HasEdge(p, g) <=> log[e].type = "added"
      BY <1>0, <3>2, <3>4, <3>5 DEF EdgeSettles
    <3>7. <<g, p>> \in edges <=> log[e].type = "added"
      BY <1>0, <1>5, <3>2 DEF EdgesTold, EdgeToldOf
    <3> QED
      BY <3>6, <3>7
  <2> QED
    BY <2>1, <2>2
<1>6. group[g] \in {"none", "present", "gone"}
  BY <1>0 DEF TypeInv, TypeOK
<1> QED
  BY <1>3, <1>4, <1>5, <1>6

(* With one delivery at a time, once every event is recorded the memberships   *)
(* of a person who kept an idp_id of their own and was never deleted are       *)
(* WorkOS' own, in every group whose idp_id no other group has had.            *)
THEOREM MembershipsConverge == Single => (Spec => []EdgesConverge)
<1>1. ASSUME Single PROVE Spec => []EdgesConverge
  <2>1. Init => EdgeInv
    BY InitListener, InitScope, InitSettles, InitGroupRows, InitEdges, InitStays, InitGroup, InitEdge
      DEF EdgeInv, SettledInv
  <2>2. EdgeInv /\ [Next]_vars => EdgeInv'
    <3> SUFFICES ASSUME EdgeInv, [Next]_vars PROVE EdgeInv'
      OBVIOUS
    <3>1. ListenerInv /\ TypeInv /\ WorkosOK /\ FlightInv /\ UserRows /\ ScopeOK /\ PersonsSettle
      BY DEF EdgeInv, SettledInv, ListenerInv
    <3>2. ListenerInv' /\ TypeInv' /\ WorkosOK'
      BY <1>1, <3>1, StepListener DEF ListenerInv
    <3>3. SettledInv'
      BY <1>1, <3>1, <3>2, StepScope, StepSettles DEF SettledInv
    <3>4. GroupRows' /\ EdgesFrom'
      BY <3>1, <3>2, StepGroupRows, StepEdges DEF EdgeInv
    <3>5. RowsStay' /\ GroupsSettle' /\ EdgesSettle'
      BY <1>1, <3>1, <3>2, StepStays, StepGroup, StepEdge DEF EdgeInv
    <3> QED
      BY <3>3, <3>4, <3>5 DEF EdgeInv
  <2>3. EdgeInv => EdgesConverge
    BY QuietEdge DEF EdgesConverge
  <2> QED
    BY <2>1, <2>2, <2>3, PTL DEF Spec
<1> QED
  BY <1>1
=============================================================================
