------------------------ MODULE PrimaryIdentityProofs ------------------------
(***************************************************************************)
(* PrimaryIdentity is well typed for every set of ids, persons and         *)
(* requests.  TypeOK is not inductive alone: the id and the attribute a     *)
(* request names are None in some of them, so what keeps None out of a      *)
(* mapping, an address or a ledger key is which operation can be at which   *)
(* program point (Shapes), and that the WorkOS leg never looks a mapping up *)
(* before it has a key (KeyKnown).                                          *)
(***************************************************************************)
EXTENDS PrimaryIdentity, TLAPS

LEMMA IdFacts ==
    /\ NativeId \subseteq Id /\ ExternalId \subseteq Id /\ MintedId \subseteq Id
    /\ None \notin Id /\ None \notin Person /\ None \notin Request
BY IdAssumption DEF Id

(* Which operation a handler carries out at each point of its program, and   *)
(* what its request names.                                                   *)
Shape(r) ==
    /\ call[r].op \in {"create", "replace"} => call[r].person \in Person
    /\ call[r].op \in {"replace", "delete"} => call[r].id \in Id
    /\ pc[r] \in {"compensate", "persist", "settle"} => call[r].op = "create"
    /\ pc[r] = "prune" => call[r].op = "delete"
    /\ pc[r] \in {"claim", "release"} => call[r].op \in {"create", "delete"}
    /\ pc[r] \in {"check", "legs"} => call[r].op \in {"create", "replace", "delete"}

Shapes == \A r \in Request : Shape(r)

(* The WorkOS leg reads a mapping under a key it has. *)
KeyKnown == \A r \in Request : wleg[r].at = "read" => wleg[r].key \in Id

-----------------------------------------------------------------------------
(* What the pieces of the actions do to the types. *)

LEMMA GoTyped ==
    ASSUME LocalOK, NEW r \in Request, NEW next \in Pcs, Go(r, next)
    PROVE  LocalOK'
<1>1. NoCall \in Call /\ NoNativeLeg \in NativeLeg
  BY DEF NoCall, Call, NoNativeLeg, NativeLeg, Stats
<1>2. NoWorkosLeg \in WorkosLeg
  BY DEF NoWorkosLeg, WorkosLeg, Stats
<1> QED
  BY <1>1, <1>2 DEF LocalOK, Go

LEMMA ReceiveTyped ==
    ASSUME TypeOK, NEW r \in Request, NEW c \in Call, Receive(r, c)
    PROVE  TypeOK'
BY DEF Receive, TypeOK, StoreOK, UpstreamOK, LocalOK, HistoryOK, store, upstream, history, Pcs

LEMMA StartLegsTyped ==
    ASSUME TypeOK, NEW r \in Request, NEW at \in {"wait", "read", "put"},
           NEW key \in Id \cup {None}, NEW to \in Id \cup {None},
           NEW owner \in Id \cup {None}, StartLegs(r, at, key, to, owner)
    PROVE  TypeOK'
<1>1. [key |-> key, stat |-> "none", at |-> at, to |-> to, owner |-> owner,
       sink |-> None, created |-> FALSE] \in WorkosLeg
  BY DEF WorkosLeg, Stats
<1>2. LocalOK'
  BY <1>1 DEF TypeOK, StartLegs, LocalOK, Pcs
<1> QED
  BY <1>2 DEF StartLegs, TypeOK, StoreOK, UpstreamOK, HistoryOK, store, upstream, history

LEMMA UnansweredTyped ==
    ASSUME UpstreamOK, NEW r \in Request, NEW side \in {"native", "workos"},
           NEW verb \in {"post", "put", "delete"}, NEW i \in Id \cup {None},
           NEW p \in Person \cup {None}, Unanswered(r, side, verb, i, p)
    PROVE  late' \subseteq Write
BY DEF UpstreamOK, Unanswered, Write

LEMMA NativeDoneTyped ==
    ASSUME TypeOK, NEW r \in Request, NEW stat \in Stats, NEW i \in Id \cup {None},
           NativeDone(r, stat, i)
    PROVE  StoreOK' /\ LocalOK' /\ HistoryOK'
<1>1. [id |-> i, stat |-> stat] \in NativeLeg
  BY DEF NativeLeg
<1>2. nleg' \in [Request -> NativeLeg]
  BY <1>1 DEF TypeOK, LocalOK, NativeDone
<1>3. wleg[r] \in WorkosLeg
  BY DEF TypeOK, LocalOK
<1>4. [wleg[r] EXCEPT !.at = "read", !.key = i] \in WorkosLeg
  BY <1>3 DEF WorkosLeg
<1>5. [wleg[r] EXCEPT !.at = "done"] \in WorkosLeg
  BY <1>3 DEF WorkosLeg
<1>6. wleg' \in [Request -> WorkosLeg]
  BY <1>3, <1>4, <1>5 DEF TypeOK, LocalOK, NativeDone
<1> QED
  BY <1>2, <1>6 DEF TypeOK, StoreOK, LocalOK, HistoryOK, NativeDone, store, history

(* The WorkOS leg's three kinds of progress. *)
LEMMA GotoTyped ==
    ASSUME LocalOK, NEW r \in Request,
           NEW at \in {"recover", "post", "reput", "lookup", "unclaim", "done"},
           Goto(r, at)
    PROVE  wleg' \in [Request -> WorkosLeg]
<1>1. wleg[r] \in WorkosLeg
  BY DEF LocalOK
<1>2. [wleg[r] EXCEPT !.at = at] \in WorkosLeg
  BY <1>1 DEF WorkosLeg
<1> QED
  BY <1>2 DEF LocalOK, Goto

LEMMA MirroredTyped ==
    ASSUME LocalOK, NEW r \in Request, NEW w \in Id \cup {None}, NEW fresh \in BOOLEAN,
           Mirrored(r, w, fresh)
    PROVE  wleg' \in [Request -> WorkosLeg]
<1> DEFINE at == IF Recovering(r) THEN "record" ELSE "done"
<1>1. at \in {"record", "done"}
  OBVIOUS
<1>2. wleg[r] \in WorkosLeg
  BY DEF LocalOK
<1>3. [wleg[r] EXCEPT !.sink = w, !.created = fresh, !.stat = "ok", !.at = at] \in WorkosLeg
  <2> HIDE DEF at
  <2> QED
    BY <1>1, <1>2 DEF WorkosLeg, Stats
<1> QED
  BY <1>3 DEF LocalOK, Mirrored

LEMMA MirrorFailedTyped ==
    ASSUME LocalOK, NEW r \in Request, NEW stat \in Stats, MirrorFailed(r, stat)
    PROVE  wleg' \in [Request -> WorkosLeg]
<1> DEFINE at == IF Recovering(r) /\ stat # "unsure" THEN "unclaim" ELSE "done"
<1>1. at \in {"unclaim", "done"}
  OBVIOUS
<1>2. wleg[r] \in WorkosLeg
  BY DEF LocalOK
<1>3. [wleg[r] EXCEPT !.stat = stat, !.at = at] \in WorkosLeg
  <2> HIDE DEF at
  <2> QED
    BY <1>1, <1>2 DEF WorkosLeg
<1> QED
  BY <1>3 DEF LocalOK, MirrorFailed

LEMMA WrittenTyped ==
    ASSUME TypeOK, NEW w \in Id \cup {None}, NEW p \in Person \cup {None},
           NEW blind \in BOOLEAN, Written(w, p, blind)
    PROVE  workos' \in [Id -> Person \cup {None}] /\ astray' \subseteq Id \cup {None}
BY DEF Written, TypeOK, UpstreamOK, HistoryOK

(* A step of the WorkOS leg leaves everything but that leg and the WorkOS     *)
(* side alone.                                                                *)
LEMMA LegStepTyped ==
    ASSUME TypeOK, wleg' \in [Request -> WorkosLeg], UNCHANGED Elsewhere,
           workos' \in [Id -> Person \cup {None}], late' \subseteq Write,
           astray' \subseteq Id \cup {None}
    PROVE  TypeOK'
BY DEF TypeOK, StoreOK, UpstreamOK, LocalOK, HistoryOK, Elsewhere, history

-----------------------------------------------------------------------------
(* Type correctness, action by action. *)

LEMMA InitTyped == Init => TypeOK
<1> SUFFICES ASSUME Init PROVE TypeOK
  OBVIOUS
<1>1. NoCall \in Call /\ NoNativeLeg \in NativeLeg /\ NoWorkosLeg \in WorkosLeg
  BY DEF NoCall, Call, NoNativeLeg, NativeLeg, NoWorkosLeg, WorkosLeg, Stats
<1>2. native \in [Id -> Person \cup {None}] /\ workos \in [Id -> Person \cup {None}]
  BY IdAssumption DEF Init, Inherited
<1>3. StoreOK /\ UpstreamOK
  BY <1>2 DEF Init, Inherited, StoreOK, UpstreamOK
<1>4. LocalOK /\ HistoryOK
  BY <1>1 DEF Init, LocalOK, HistoryOK, Pcs
<1> QED
  BY <1>3, <1>4 DEF TypeOK

LEMMA RequestTyped ==
    ASSUME TypeOK, NEW r \in Request,
           \/ ReceiveCreate(r) \/ ReceiveDelete(r) \/ ReceiveReplace(r)
           \/ TakeClaim(r) \/ ClaimBusy(r) \/ Release(r) \/ Die(r)
    PROVE  TypeOK'
<1>1. CASE ReceiveCreate(r)
  <2>1. PICK p \in Person, e \in ExternalId \cup {None} :
            Receive(r, [id |-> None, person |-> p, op |-> "create", ext |-> e])
    BY <1>1 DEF ReceiveCreate
  <2>2. [id |-> None, person |-> p, op |-> "create", ext |-> e] \in Call
    BY DEF Call
  <2> QED
    BY <2>1, <2>2, ReceiveTyped
<1>2. CASE ReceiveDelete(r)
  <2>1. PICK i \in Id :
            Receive(r, [id |-> i, person |-> None, op |-> "delete", ext |-> None])
    BY <1>2 DEF ReceiveDelete
  <2>2. [id |-> i, person |-> None, op |-> "delete", ext |-> None] \in Call
    BY DEF Call
  <2> QED
    BY <2>1, <2>2, ReceiveTyped
<1>3. CASE ReceiveReplace(r)
  <2>1. PICK i \in Id, p \in Person :
            Receive(r, [id |-> i, person |-> p, op |-> "replace", ext |-> None])
    BY <1>3 DEF ReceiveReplace
  <2>2. [id |-> i, person |-> p, op |-> "replace", ext |-> None] \in Call
    BY DEF Call
  <2> QED
    BY <2>1, <2>2, ReceiveTyped
<1>4. CASE TakeClaim(r)
  BY <1>4 DEF TakeClaim, TypeOK, StoreOK, UpstreamOK, LocalOK, HistoryOK, upstream, history, Pcs
<1>5. CASE ClaimBusy(r)
  <2>1. LocalOK'
    BY <1>5, GoTyped DEF ClaimBusy, TypeOK, Pcs
  <2> QED
    BY <1>5, <2>1 DEF ClaimBusy, TypeOK, StoreOK, UpstreamOK, HistoryOK, store, upstream, history
<1>6. CASE Release(r)
  <2>1. LocalOK'
    BY <1>6, GoTyped DEF Release, TypeOK, Pcs
  <2> QED
    BY <1>6, <2>1 DEF Release, TypeOK, StoreOK, UpstreamOK, HistoryOK, upstream, history
<1>7. CASE Die(r)
  <2>1. LocalOK'
    BY <1>7, GoTyped DEF Die, TypeOK, Pcs
  <2> QED
    BY <1>7, <2>1 DEF Die, TypeOK, StoreOK, UpstreamOK, HistoryOK, store, upstream, history
<1> QED
  BY <1>1, <1>2, <1>3, <1>4, <1>5, <1>6, <1>7

LEMMA PreflightTyped ==
    ASSUME TypeOK, Shapes, NEW r \in Request,
           \/ CheckCreate(r) \/ CreateRefused(r) \/ CheckDelete(r) \/ CheckReplace(r)
           \/ WriteRefused(r) \/ PreflightFails(r)
    PROVE  TypeOK'
<1>1. CASE CheckCreate(r)
  <2>1. PICK m \in Mints(r) :
            \/ StartLegs(r, IF m = None THEN "wait" ELSE "read", m, None, None)
            \/ \E n \in ClaimedOwners(m) : StartLegs(r, "wait", None, None, n)
    BY <1>1 DEF CheckCreate
  <2>2. m \in Id \cup {None}
    BY IdFacts DEF Mints, TypeOK, LocalOK, Call
  <2>3. ClaimedOwners(m) \subseteq Id
    BY <2>2 DEF ClaimedOwners, Owners
  <2>4. CASE StartLegs(r, IF m = None THEN "wait" ELSE "read", m, None, None)
    BY <2>2, <2>4, StartLegsTyped
  <2>5. ASSUME NEW n \in ClaimedOwners(m), StartLegs(r, "wait", None, None, n)
        PROVE  TypeOK'
    BY <2>3, <2>5, StartLegsTyped
  <2> QED
    BY <2>1, <2>4, <2>5
<1>2. CASE CheckDelete(r)
  <2>1. call[r].id \in Id
    BY <1>2 DEF CheckDelete, Shapes, Shape
  <2>2. mapping[call[r].id] \in Id \cup {None}
    BY <2>1 DEF TypeOK, StoreOK
  <2> QED
    BY <1>2, <2>1, <2>2, StartLegsTyped DEF CheckDelete
<1>3. CASE CheckReplace(r)
  <2>1. call[r].id \in Id
    BY <1>3 DEF CheckReplace, Shapes, Shape
  <2> QED
    BY <1>3, <2>1, StartLegsTyped DEF CheckReplace
<1>4. CASE CreateRefused(r) \/ WriteRefused(r) \/ PreflightFails(r)
  <2>1. \E next \in {"release", "done"} : Go(r, next)
    BY <1>4 DEF CreateRefused, WriteRefused, PreflightFails
  <2>2. LocalOK'
    BY <2>1, GoTyped DEF TypeOK, Pcs
  <2>3. UNCHANGED <<store, upstream, history>>
    BY <1>4 DEF CreateRefused, WriteRefused, PreflightFails
  <2> QED
    BY <2>2, <2>3 DEF TypeOK, StoreOK, UpstreamOK, HistoryOK, store, upstream, history
<1> QED
  BY <1>1, <1>2, <1>3, <1>4

(* A native leg ends on one of the outcomes, and names an id or none.        *)
LEMMA NativeOutcome ==
    ASSUME NEW r \in Request,
           \/ NativeCreated(r) \/ NativeConflict(r) \/ NativeReplaced(r)
           \/ NativeDeleted(r) \/ NativeRejected(r) \/ NativeUnsure(r)
    PROVE  \E stat \in Stats \ {"none"}, i \in Id \cup {None} : NativeDone(r, stat, i)
<1>1. CASE NativeCreated(r)
  BY <1>1, IdFacts DEF NativeCreated, Mintable, Stats
<1>2. CASE NativeConflict(r)
  BY <1>2 DEF NativeConflict, Holders, Adoptable, Stats
<1>3. CASE NativeReplaced(r) \/ NativeRejected(r)
  BY <1>3 DEF NativeReplaced, NativeRejected, Stats
<1>4. CASE NativeDeleted(r)
  BY <1>4 DEF NativeDeleted, Stats
<1>5. CASE NativeUnsure(r)
  BY <1>5 DEF NativeUnsure, Stats
<1> QED
  BY <1>1, <1>2, <1>3, <1>4, <1>5

LEMMA NativeTyped ==
    ASSUME TypeOK, Shapes, NEW r \in Request,
           \/ NativeCreated(r) \/ NativeConflict(r) \/ NativeReplaced(r)
           \/ NativeDeleted(r) \/ NativeRejected(r) \/ NativeUnsure(r)
    PROVE  TypeOK'
<1>1. \E stat \in Stats, i \in Id \cup {None} : NativeDone(r, stat, i)
  BY NativeOutcome
<1>2. StoreOK' /\ LocalOK' /\ HistoryOK'
  BY <1>1, NativeDoneTyped
<1>3. UpstreamOK'
  <2>1. CASE NativeCreated(r)
    BY <2>1 DEF NativeCreated, TypeOK, UpstreamOK, LocalOK, Call
  <2>2. CASE NativeConflict(r) \/ NativeReplaced(r) \/ NativeRejected(r)
    BY <2>2 DEF NativeConflict, NativeReplaced, NativeRejected, TypeOK, UpstreamOK, upstream
  <2>3. CASE NativeDeleted(r)
    BY <2>3 DEF NativeDeleted, TypeOK, UpstreamOK
  <2>4. CASE NativeUnsure(r)
    <3>1. call[r].id \in Id \cup {None} /\ call[r].person \in Person \cup {None}
      BY DEF TypeOK, LocalOK, Call
    <3>2. call[r].op \in {"create", "delete", "replace", "none"}
      BY DEF TypeOK, LocalOK, Call
    <3>3. CASE call[r].op = "create"
      <4>1. Unanswered(r, "native", "post", None, call[r].person)
        BY <2>4, <3>3 DEF NativeUnsure
      <4> QED
        BY <2>4, <3>1, <4>1, UnansweredTyped DEF NativeUnsure, TypeOK, UpstreamOK
    <3>4. CASE call[r].op = "delete"
      <4>1. Unanswered(r, "native", "delete", call[r].id, None)
        BY <2>4, <3>4 DEF NativeUnsure
      <4> QED
        BY <2>4, <3>1, <4>1, UnansweredTyped DEF NativeUnsure, TypeOK, UpstreamOK
    <3>5. CASE call[r].op = "replace"
      BY <2>4, <3>5 DEF NativeUnsure, TypeOK, UpstreamOK
    <3>6. call[r].op # "none"
      BY <2>4 DEF NativeUnsure, Shapes, Shape
    <3> QED
      BY <3>2, <3>3, <3>4, <3>5, <3>6
  <2> QED
    BY <2>1, <2>2, <2>3, <2>4
<1> QED
  BY <1>2, <1>3 DEF TypeOK

LEMMA MirrorTyped ==
    ASSUME TypeOK, KeyKnown, NEW r \in Request,
           \/ MirrorRead(r) \/ MirrorPut(r) \/ MirrorPutMissing(r) \/ MirrorPutRejected(r)
           \/ MirrorPutUnsure(r) \/ MirrorLookupFails(r)
           \/ MirrorPost(r) \/ MirrorPostConflict(r) \/ MirrorPostFails(r)
    PROVE  TypeOK'
<1>1. call[r].person \in Person \cup {None} /\ wleg[r].key \in Id \cup {None}
      /\ wleg[r].to \in Id \cup {None}
  BY DEF TypeOK, LocalOK, Call, WorkosLeg
<1>2. LocalOK /\ UpstreamOK
  BY DEF TypeOK
<1>3. Addressed(r) \subseteq Id
  BY DEF Addressed
<1>4. MintedId \subseteq Id
  BY IdFacts
<1>a. astray \subseteq Id \cup {None}
  BY DEF TypeOK, HistoryOK
<1> USE DEF Stats
<1>5. CASE MirrorRead(r)
  <2> DEFINE to == IF mapping[wleg[r].key] # None THEN mapping[wleg[r].key] ELSE wleg[r].key
  <2>1. to \in Id \cup {None}
    BY <1>5 DEF MirrorRead, At, KeyKnown, TypeOK, StoreOK
  <2>2. CASE MirrorReadFails(r, to)
    <3>1. \E stat \in Stats : MirrorFailed(r, stat)
      BY <2>2 DEF MirrorReadFails
    <3> QED
      BY <1>2, <1>a, <1>5, <3>1, MirrorFailedTyped, LegStepTyped DEF MirrorRead, UpstreamOK
  <2>3. CASE wleg' = [wleg EXCEPT ![r] = [@ EXCEPT !.at = "put", !.to = to]]
    <3>1. wleg[r] \in WorkosLeg
      BY DEF TypeOK, LocalOK
    <3>2. [wleg[r] EXCEPT !.at = "put", !.to = to] \in WorkosLeg
      <4> HIDE DEF to
      <4> QED
        BY <2>1, <3>1 DEF WorkosLeg
    <3>3. wleg' \in [Request -> WorkosLeg]
      BY <1>2, <2>3, <3>2 DEF LocalOK
    <3> QED
      BY <1>2, <1>a, <1>5, <3>3, LegStepTyped DEF MirrorRead, UpstreamOK
  <2> QED
    BY <1>5, <2>2, <2>3 DEF MirrorRead
<1>6. CASE MirrorPut(r)
  <2>1. PICK w \in Addressed(r) :
            /\ Written(w, call[r].person, Blind(r, w))
            /\ Mirrored(r, w, FALSE)
    BY <1>6 DEF MirrorPut
  <2>2. wleg' \in [Request -> WorkosLeg]
    BY <1>2, <1>3, <2>1, MirroredTyped
  <2>3. workos' \in [Id -> Person \cup {None}] /\ astray' \subseteq Id \cup {None}
    <3>1. Blind(r, w) \in BOOLEAN
      BY DEF Blind
    <3> QED
      BY <1>1, <1>3, <2>1, <3>1, WrittenTyped
  <2> QED
    BY <1>2, <1>6, <2>2, <2>3, LegStepTyped DEF MirrorPut, UpstreamOK
<1>7. CASE MirrorPutMissing(r)
  <2>1. \E at \in {"lookup", "recover", "post"} : Goto(r, at)
    BY <1>7 DEF MirrorPutMissing
  <2> QED
    BY <1>2, <1>a, <1>7, <2>1, GotoTyped, LegStepTyped DEF MirrorPutMissing, UpstreamOK
<1>8. CASE MirrorPutRejected(r)
  <2>1. \E stat \in Stats : MirrorFailed(r, stat)
    BY <1>8 DEF MirrorPutRejected
  <2> QED
    BY <1>2, <1>a, <1>8, <2>1, MirrorFailedTyped, LegStepTyped DEF MirrorPutRejected, UpstreamOK
<1>9. CASE MirrorPutUnsure(r)
  <2>1. late' \subseteq Write
    BY <1>1, <1>2, <1>3, <1>9, UnansweredTyped DEF MirrorPutUnsure
  <2>2. wleg' \in [Request -> WorkosLeg]
    BY <1>2, <1>a, <1>9, MirrorFailedTyped DEF MirrorPutUnsure
  <2> QED
    BY <1>2, <1>a, <1>9, <2>1, <2>2, LegStepTyped DEF MirrorPutUnsure, UpstreamOK
<1>10. CASE MirrorLookupFails(r)
  <2>1. \E stat \in Stats : MirrorFailed(r, stat)
    BY <1>10 DEF MirrorLookupFails
  <2> QED
    BY <1>2, <1>a, <1>10, <2>1, MirrorFailedTyped, LegStepTyped DEF MirrorLookupFails, UpstreamOK
<1>11. CASE MirrorPost(r)
  <2>1. PICK w \in {wleg[r].key} \cup {i \in MintedId : Unused(i)} :
            /\ Written(w, call[r].person, Blind(r, w))
            /\ Mirrored(r, w, TRUE)
    BY <1>11 DEF MirrorPost
  <2>2. w \in Id \cup {None}
    BY <1>1, <1>4
  <2>3. wleg' \in [Request -> WorkosLeg]
    BY <1>2, <2>1, <2>2, MirroredTyped
  <2>4. workos' \in [Id -> Person \cup {None}] /\ astray' \subseteq Id \cup {None}
    <3>1. Blind(r, w) \in BOOLEAN
      BY DEF Blind
    <3> QED
      BY <1>1, <2>1, <2>2, <3>1, WrittenTyped
  <2> QED
    BY <1>2, <1>11, <2>3, <2>4, LegStepTyped DEF MirrorPost, UpstreamOK
<1>12. CASE MirrorPostConflict(r)
  BY <1>2, <1>a, <1>12, GotoTyped, LegStepTyped DEF MirrorPostConflict, UpstreamOK
<1>13. CASE MirrorPostFails(r)
  <2>1. \E stat \in Stats : MirrorFailed(r, stat)
    BY <1>13 DEF MirrorPostFails
  <2>2. late' \subseteq Write
    BY <1>1, <1>2, <1>13, UnansweredTyped DEF MirrorPostFails, UpstreamOK
  <2> QED
    BY <1>2, <1>a, <1>13, <2>1, <2>2, MirrorFailedTyped, LegStepTyped DEF MirrorPostFails, UpstreamOK
<1> QED
  BY <1>5, <1>6, <1>7, <1>8, <1>9, <1>10, <1>11, <1>12, <1>13

LEMMA RecoveryTyped ==
    ASSUME TypeOK, NEW r \in Request,
           \/ RecoverClaim(r) \/ RecoverRefused(r) \/ RecoverRecord(r)
           \/ RecoverRecordFails(r) \/ RecoverUnclaim(r)
           \/ WorkosDeleted(r) \/ WorkosDeleteFails(r)
    PROVE  TypeOK'
<1>1. LocalOK /\ UpstreamOK /\ StoreOK
  BY DEF TypeOK
<1>2. wleg[r] \in WorkosLeg
  BY DEF TypeOK, LocalOK
<1>3. wleg[r].sink \in Id \cup {None} /\ wleg[r].to \in Id \cup {None}
  BY <1>2 DEF WorkosLeg
<1>4. wleg' \in [Request -> WorkosLeg]
  <2>1. CASE RecoverClaim(r) \/ RecoverRecord(r) \/ RecoverUnclaim(r)
    BY <1>1, <2>1, GotoTyped DEF RecoverClaim, RecoverRecord, RecoverUnclaim
  <2>2. CASE RecoverRefused(r) \/ WorkosDeleteFails(r)
    <3>1. \E stat \in Stats : MirrorFailed(r, stat)
      BY <2>2 DEF RecoverRefused, WorkosDeleteFails, Stats
    <3> QED
      BY <1>1, <3>1, MirrorFailedTyped
  <2>3. CASE RecoverRecordFails(r)
    <3>1. [wleg[r] EXCEPT !.stat = "unsure", !.at = "done"] \in WorkosLeg
      BY <1>2 DEF WorkosLeg, Stats
    <3> QED
      BY <1>1, <2>3, <3>1 DEF RecoverRecordFails, LocalOK
  <2>4. CASE WorkosDeleted(r)
    <3>1. \A stat \in {"gone", "ok"} :
              [wleg[r] EXCEPT !.at = "done", !.stat = stat] \in WorkosLeg
      BY <1>2 DEF WorkosLeg, Stats
    <3>2. \E stat \in {"gone", "ok"} :
              wleg' = [wleg EXCEPT ![r] = [@ EXCEPT !.at = "done", !.stat = stat]]
      BY <2>4 DEF WorkosDeleted
    <3> QED
      BY <1>1, <3>1, <3>2 DEF LocalOK
  <2> QED
    BY <2>1, <2>2, <2>3, <2>4
<1>5. StoreOK'
  BY <1>1, <1>3 DEF RecoverClaim, RecoverRefused, RecoverRecord, RecoverRecordFails,
                    RecoverUnclaim, WorkosDeleted, WorkosDeleteFails, Elsewhere, StoreOK
<1>6. UpstreamOK'
  <2>1. CASE WorkosDeleted(r)
    BY <1>1, <1>3, <2>1, WrittenTyped DEF WorkosDeleted, Elsewhere, UpstreamOK
  <2>2. CASE WorkosDeleteFails(r)
    <3>1. late' \subseteq Write
      BY <1>1, <1>3, <2>2, UnansweredTyped DEF WorkosDeleteFails, UpstreamOK
    <3> QED
      BY <1>1, <2>2, <3>1 DEF WorkosDeleteFails, Elsewhere, UpstreamOK
  <2>3. CASE ~WorkosDeleted(r) /\ ~WorkosDeleteFails(r)
    BY <1>1, <2>3 DEF RecoverClaim, RecoverRefused, RecoverRecord, RecoverRecordFails,
                      RecoverUnclaim, Elsewhere, UpstreamOK, upstream
  <2> QED
    BY <2>1, <2>2, <2>3
<1>7. UNCHANGED <<call, pc, nleg, acked, legacy>>
  BY DEF RecoverClaim, RecoverRefused, RecoverRecord, RecoverRecordFails,
         RecoverUnclaim, WorkosDeleted, WorkosDeleteFails, Elsewhere, history
<1>8. astray' \subseteq Id \cup {None}
  <2>1. CASE WorkosDeleted(r)
    BY <1>3, <2>1, WrittenTyped DEF WorkosDeleted
  <2>2. CASE ~WorkosDeleted(r)
    BY <2>2 DEF RecoverClaim, RecoverRefused, RecoverRecord, RecoverRecordFails,
                RecoverUnclaim, WorkosDeleteFails, history, TypeOK, HistoryOK
  <2> QED
    BY <2>1, <2>2
<1> QED
  BY <1>4, <1>5, <1>6, <1>7, <1>8 DEF TypeOK, LocalOK, HistoryOK

LEMMA OutcomeTyped ==
    ASSUME TypeOK, Shapes, NEW r \in Request,
           \/ FinishReplace(r) \/ FinishDelete(r) \/ Prune(r) \/ PruneFails(r)
           \/ CreateFailed(r) \/ CreateLanded(r) \/ Compensate(r) \/ CompensateFails(r)
           \/ Persist(r) \/ Settle(r)
    PROVE  TypeOK'
<1>1. LocalOK /\ UpstreamOK /\ StoreOK /\ HistoryOK
  BY DEF TypeOK
<1>2. wleg[r].sink \in Id \cup {None} /\ nleg[r].id \in Id \cup {None}
  BY <1>1 DEF LocalOK, WorkosLeg, NativeLeg
<1>3. LocalOK'
  <2>1. \E next \in {"done", "release", "prune", "compensate", "persist", "settle"} : Go(r, next)
    BY DEF FinishReplace, FinishDelete, Prune, PruneFails, CreateFailed, CreateLanded,
           Compensate, CompensateFails, Persist, Settle
  <2> QED
    BY <1>1, <2>1, GoTyped DEF Pcs
<1>4. ledger' \subseteq Id \cup Person
  <2>1. CASE FinishReplace(r) \/ FinishDelete(r)
    <3>1. call[r].id \in Id
      BY <2>1 DEF FinishReplace, FinishDelete, LegsDone, InLegs, Shapes, Shape
    <3> QED
      BY <1>1, <2>1, <3>1 DEF FinishReplace, FinishDelete, RecordIf, Record, Clear, StoreOK
  <2>2. CASE CreateFailed(r) \/ CompensateFails(r)
    <3>1. call[r].op = "create"
      BY <2>2 DEF CreateFailed, CompensateFails, LegsDone, InLegs, Shapes, Shape
    <3>2. FailureKey(r) \in Id \cup Person
      BY <1>1, <3>1, IdFacts DEF FailureKey, Shapes, Shape, LocalOK, Call
    <3> QED
      BY <1>1, <2>2, <3>2 DEF CreateFailed, CompensateFails, RecordIf, Record, StoreOK
  <2>3. CASE Compensate(r) \/ Settle(r)
    BY <1>1, <2>3 DEF Compensate, Settle, Clear, StoreOK
  <2>4. CASE Prune(r) \/ PruneFails(r) \/ CreateLanded(r) \/ Persist(r)
    BY <1>1, <2>4 DEF Prune, PruneFails, CreateLanded, Persist, StoreOK, store
  <2> QED
    BY <2>1, <2>2, <2>3, <2>4
<1>5. StoreOK'
  <2>1. claim' = claim
    BY DEF FinishReplace, FinishDelete, Prune, PruneFails, CreateFailed, CreateLanded,
           Compensate, CompensateFails, Persist, Settle, store
  <2>2. mapping' \in [Id -> Id \cup {None}]
    BY <1>1, <1>2 DEF FinishReplace, FinishDelete, Prune, PruneFails, CreateFailed,
           CreateLanded, Compensate, CompensateFails, Persist, Settle, store, StoreOK
  <2> QED
    BY <1>1, <1>4, <2>1, <2>2 DEF StoreOK
<1>6. UpstreamOK'
  <2>1. CASE CompensateFails(r)
    <3>1. late' \subseteq Write
      BY <1>1, <1>2, <2>1, UnansweredTyped DEF CompensateFails, UpstreamOK
    <3> QED
      BY <1>1, <2>1, <3>1 DEF CompensateFails, UpstreamOK
  <2>2. CASE Compensate(r)
    BY <1>1, <1>2, <2>2, WrittenTyped DEF Compensate, UpstreamOK
  <2>3. CASE ~CompensateFails(r) /\ ~Compensate(r)
    BY <1>1, <2>3 DEF FinishReplace, FinishDelete, Prune, PruneFails, CreateFailed,
           CreateLanded, Persist, Settle, upstream, UpstreamOK
  <2> QED
    BY <2>1, <2>2, <2>3
<1>7. HistoryOK'
  <2>1. CASE Compensate(r)
    BY <1>1, <1>2, <2>1, WrittenTyped DEF Compensate, HistoryOK
  <2>2. CASE ~Compensate(r)
    BY <1>1, <2>2 DEF FinishReplace, FinishDelete, Prune, PruneFails, CreateFailed,
         CreateLanded, CompensateFails, Persist, Settle, Ack, history, HistoryOK
  <2> QED
    BY <2>1, <2>2
<1> QED
  BY <1>3, <1>5, <1>6, <1>7 DEF TypeOK

LEMMA LateTyped ==
    ASSUME TypeOK, LateWrite
    PROVE  TypeOK'
<1>1. PICK w \in late : late' = late \ {w} /\ (ApplyNative(w) \/ ApplyWorkos(w))
  BY DEF LateWrite
<1>2. w.person \in Person \cup {None} /\ late' \subseteq Write /\ w.id \in Id \cup {None}
  BY <1>1 DEF TypeOK, UpstreamOK, Write
<1>3. native' \in [Id -> Person \cup {None}]
  BY <1>1, <1>2 DEF ApplyNative, ApplyWorkos, TypeOK, UpstreamOK
<1>4. workos' \in [Id -> Person \cup {None}] /\ astray' \subseteq Id \cup {None}
  <2>1. CASE ApplyNative(w)
    BY <2>1 DEF ApplyNative, TypeOK, UpstreamOK, HistoryOK
  <2>2. CASE ApplyWorkos(w)
    <3>1. \E i \in Id \cup {None}, p \in Person \cup {None}, blind \in BOOLEAN :
             Written(i, p, blind)
      BY <1>2, <2>2, IdFacts DEF ApplyWorkos
    <3> QED
      BY <3>1, WrittenTyped
  <2> QED
    BY <1>1, <2>1, <2>2
<1> QED
  BY <1>2, <1>3, <1>4 DEF LateWrite, TypeOK, StoreOK, UpstreamOK, LocalOK, HistoryOK,
                    store, local, history

LEMMA NextTyped ==
    ASSUME TypeOK, Shapes, KeyKnown, [Next]_vars
    PROVE  TypeOK'
<1>1. CASE LateWrite
  BY <1>1, LateTyped
<1>2. ASSUME NEW r \in Request, Step(r)
      PROVE  TypeOK'
  BY <1>2, RequestTyped, PreflightTyped, NativeTyped, MirrorTyped, RecoveryTyped, OutcomeTyped
  DEF Step
<1>3. CASE UNCHANGED vars
  BY <1>3 DEF vars, store, upstream, local, history, TypeOK, StoreOK, UpstreamOK, LocalOK, HistoryOK
<1> QED
  BY <1>1, <1>2, <1>3 DEF Next

-----------------------------------------------------------------------------
(* Shape. *)

LEMMA GoShape ==
    ASSUME TypeOK, Shapes, NEW r \in Request, NEW next \in Pcs, Go(r, next),
           next \in {"compensate", "persist", "settle"} => call[r].op = "create",
           next = "prune" => call[r].op = "delete",
           next \in {"claim", "release"} => call[r].op \in {"create", "delete"},
           next \in {"check", "legs"} => call[r].op \in {"create", "replace", "delete"}
    PROVE  Shapes'
<1>1. CASE next \in {"done", "dead"}
  <2>1. call' = [call EXCEPT ![r] = NoCall] /\ pc' = [pc EXCEPT ![r] = next]
    BY <1>1 DEF Go
  <2>2. NoCall.op = "none"
    BY DEF NoCall
  <2> QED
    BY <1>1, <2>1, <2>2 DEF TypeOK, LocalOK, Shapes, Shape
<1>2. CASE next \notin {"done", "dead"}
  <2>1. call' = call /\ pc' = [pc EXCEPT ![r] = next]
    BY <1>2 DEF Go
  <2> QED
    BY <2>1 DEF TypeOK, LocalOK, Shapes, Shape
<1> QED
  BY <1>1, <1>2

LEMMA InitShapes == Init => Shapes
<1>1. NoCall.op = "none"
  BY DEF NoCall
<1> QED
  BY <1>1 DEF Init, Shapes, Shape

LEMMA NextShapes ==
    ASSUME TypeOK, Shapes, [Next]_vars
    PROVE  Shapes'
<1>1. CASE LateWrite \/ UNCHANGED vars
  BY <1>1 DEF LateWrite, vars, local, Shapes, Shape
<1>2. ASSUME NEW r \in Request, Step(r)
      PROVE  Shapes'
  <2>1. CASE ReceiveCreate(r) \/ ReceiveDelete(r) \/ ReceiveReplace(r)
    <3>1. ASSUME NEW c \in Call, Receive(r, c),
                 \/ c.op = "create" /\ c.person \in Person
                 \/ c.op = "delete" /\ c.id \in Id
                 \/ c.op = "replace" /\ c.id \in Id /\ c.person \in Person
          PROVE  Shapes'
      BY <3>1 DEF Receive, TypeOK, LocalOK, Shapes, Shape
    <3>2. CASE ReceiveCreate(r)
      <4>1. PICK p \in Person, e \in ExternalId \cup {None} :
                Receive(r, [id |-> None, person |-> p, op |-> "create", ext |-> e])
        BY <3>2 DEF ReceiveCreate
      <4> DEFINE c == [id |-> None, person |-> p, op |-> "create", ext |-> e]
      <4>2. c \in Call /\ c.op = "create" /\ c.person \in Person
        BY DEF Call
      <4>3. Receive(r, c)
        BY <4>1
      <4> HIDE DEF c
      <4> QED
        BY <3>1, <4>2, <4>3
    <3>3. CASE ReceiveDelete(r)
      <4>1. PICK i \in Id :
                Receive(r, [id |-> i, person |-> None, op |-> "delete", ext |-> None])
        BY <3>3 DEF ReceiveDelete
      <4> DEFINE c == [id |-> i, person |-> None, op |-> "delete", ext |-> None]
      <4>2. c \in Call /\ c.op = "delete" /\ c.id \in Id
        BY DEF Call
      <4>3. Receive(r, c)
        BY <4>1
      <4> HIDE DEF c
      <4> QED
        BY <3>1, <4>2, <4>3
    <3>4. CASE ReceiveReplace(r)
      <4>1. PICK i \in Id, p \in Person :
                Receive(r, [id |-> i, person |-> p, op |-> "replace", ext |-> None])
        BY <3>4 DEF ReceiveReplace
      <4> DEFINE c == [id |-> i, person |-> p, op |-> "replace", ext |-> None]
      <4>2. c \in Call /\ c.op = "replace" /\ c.id \in Id /\ c.person \in Person
        BY DEF Call
      <4>3. Receive(r, c)
        BY <4>1
      <4> HIDE DEF c
      <4> QED
        BY <3>1, <4>2, <4>3
    <3> QED
      BY <2>1, <3>2, <3>3, <3>4
  <2>2. CASE TakeClaim(r)
    BY <2>2 DEF TakeClaim, TypeOK, LocalOK, Shapes, Shape
  <2>3. CASE ClaimBusy(r) \/ Release(r) \/ Die(r)
    BY <2>3, GoShape DEF ClaimBusy, Release, Die, Pcs
  <2>4. CASE CheckCreate(r) \/ CheckDelete(r) \/ CheckReplace(r)
    <3>1. pc' = [pc EXCEPT ![r] = "legs"] /\ call' = call /\ pc[r] = "check"
      BY <2>4 DEF CheckCreate, CheckDelete, CheckReplace, StartLegs
    <3> QED
      BY <3>1 DEF TypeOK, LocalOK, Shapes, Shape
  <2>5. CASE CreateRefused(r) \/ WriteRefused(r) \/ PreflightFails(r)
    <3>1. call[r].op \in {"create", "replace", "delete"}
      BY <2>5 DEF CreateRefused, WriteRefused, PreflightFails, Shapes, Shape
    <3> QED
      BY <2>5, <3>1, GoShape DEF CreateRefused, WriteRefused, PreflightFails, Pcs
  <2>6. CASE \/ NativeCreated(r) \/ NativeConflict(r) \/ NativeReplaced(r)
             \/ NativeDeleted(r) \/ NativeRejected(r) \/ NativeUnsure(r)
    <3>1. UNCHANGED <<call, pc>>
      BY <2>6 DEF NativeCreated, NativeConflict, NativeReplaced, NativeDeleted,
                  NativeRejected, NativeUnsure, NativeDone
    <3> QED
      BY <3>1 DEF Shapes, Shape
  <2>7. CASE \/ MirrorRead(r) \/ MirrorPut(r) \/ MirrorPutMissing(r) \/ MirrorPutRejected(r)
             \/ MirrorPutUnsure(r) \/ MirrorLookupFails(r)
             \/ MirrorPost(r) \/ MirrorPostConflict(r) \/ MirrorPostFails(r)
             \/ WorkosDeleted(r) \/ WorkosDeleteFails(r) \/ RecoverRefused(r)
    BY <2>7 DEF MirrorRead, MirrorPut, MirrorPutMissing, MirrorPutRejected, MirrorPutUnsure,
                MirrorLookupFails, MirrorPost, MirrorPostConflict, MirrorPostFails,
                WorkosDeleted, WorkosDeleteFails, RecoverRefused, Elsewhere, Shapes, Shape
  <2>8. CASE RecoverClaim(r) \/ RecoverRecord(r) \/ RecoverRecordFails(r) \/ RecoverUnclaim(r)
    BY <2>8 DEF RecoverClaim, RecoverRecord, RecoverRecordFails, RecoverUnclaim, Shapes, Shape
  <2>9. CASE FinishReplace(r) \/ PruneFails(r) \/ CompensateFails(r)
    BY <2>9, GoShape DEF FinishReplace, PruneFails, CompensateFails, Pcs
  <2>10. CASE FinishDelete(r)
    BY <2>10, GoShape DEF FinishDelete, LegsDone, InLegs, Pcs
  <2>11. CASE CreateFailed(r) \/ CreateLanded(r)
    BY <2>11, GoShape DEF CreateFailed, CreateLanded, LegsDone, InLegs, Pcs
  <2>12. CASE Prune(r) \/ Compensate(r) \/ Persist(r) \/ Settle(r)
    <3>1. call[r].op \in {"create", "delete"} /\ (Persist(r) => call[r].op = "create")
      BY <2>12 DEF Prune, Compensate, Persist, Settle, Shapes, Shape
    <3> QED
      BY <2>12, <3>1, GoShape DEF Prune, Compensate, Persist, Settle, Pcs
  <2> QED
    BY <1>2, <2>1, <2>2, <2>3, <2>4, <2>5, <2>6, <2>7, <2>8, <2>9, <2>10, <2>11, <2>12 DEF Step
<1> QED
  BY <1>1, <1>2 DEF Next

-----------------------------------------------------------------------------
(* KeyKnown. *)

LEMMA InitKeyKnown == Init => KeyKnown
<1>1. NoWorkosLeg.at = "off"
  BY DEF NoWorkosLeg
<1> QED
  BY <1>1 DEF Init, KeyKnown

(* A leg that moves on, or is forgotten, does not stand at its first read.   *)
LEMMA MovedOn ==
    ASSUME TypeOK, KeyKnown, NEW r \in Request,
           NEW leg, wleg' = [wleg EXCEPT ![r] = leg], leg.at # "read" \/ leg.key \in Id
    PROVE  KeyKnown'
BY DEF TypeOK, LocalOK, KeyKnown

LEMMA GoKeyKnown ==
    ASSUME TypeOK, KeyKnown, NEW r \in Request, NEW next, Go(r, next)
    PROVE  KeyKnown'
<1>1. NoWorkosLeg.at = "off"
  BY DEF NoWorkosLeg
<1>2. CASE next \in {"done", "dead"}
  BY <1>1, <1>2, MovedOn DEF Go
<1>3. CASE next \notin {"done", "dead"}
  BY <1>3 DEF Go, KeyKnown
<1> QED
  BY <1>2, <1>3

LEMMA LegKeyKnown ==
    ASSUME TypeOK, KeyKnown, NEW r \in Request,
           \/ \E at \in {"put", "recover", "post", "reput", "lookup", "unclaim", "done"} : Goto(r, at)
           \/ \E w, fresh : Mirrored(r, w, fresh)
           \/ \E stat : MirrorFailed(r, stat)
    PROVE  KeyKnown'
<1>1. wleg[r] \in WorkosLeg
  BY DEF TypeOK, LocalOK
<1>2. CASE \E at \in {"put", "recover", "post", "reput", "lookup", "unclaim", "done"} : Goto(r, at)
  <2>1. PICK at \in {"put", "recover", "post", "reput", "lookup", "unclaim", "done"} : Goto(r, at)
    BY <1>2
  <2>2. [wleg[r] EXCEPT !.at = at].at # "read"
    BY <1>1 DEF WorkosLeg
  <2> QED
    BY <2>1, <2>2, MovedOn DEF Goto
<1>3. CASE \E w, fresh : Mirrored(r, w, fresh)
  <2>1. PICK w, fresh : Mirrored(r, w, fresh)
    BY <1>3
  <2> DEFINE at == IF Recovering(r) THEN "record" ELSE "done"
  <2>2. at \in {"record", "done"}
    OBVIOUS
  <2>3. [wleg[r] EXCEPT !.sink = w, !.created = fresh, !.stat = "ok", !.at = at].at # "read"
    <3> HIDE DEF at
    <3> QED
      BY <1>1, <2>2 DEF WorkosLeg
  <2> QED
    BY <2>1, <2>3, MovedOn DEF Mirrored
<1>4. CASE \E stat : MirrorFailed(r, stat)
  <2>1. PICK stat : MirrorFailed(r, stat)
    BY <1>4
  <2> DEFINE at == IF Recovering(r) /\ stat # "unsure" THEN "unclaim" ELSE "done"
  <2>2. at \in {"unclaim", "done"}
    OBVIOUS
  <2>3. [wleg[r] EXCEPT !.stat = stat, !.at = at].at # "read"
    <3> HIDE DEF at
    <3> QED
      BY <1>1, <2>2 DEF WorkosLeg
  <2> QED
    BY <2>1, <2>3, MovedOn DEF MirrorFailed
<1> QED
  BY <1>2, <1>3, <1>4

LEMMA NextKeyKnown ==
    ASSUME TypeOK, Shapes, KeyKnown, [Next]_vars
    PROVE  KeyKnown'
<1>1. CASE LateWrite \/ UNCHANGED vars
  BY <1>1 DEF LateWrite, vars, local, KeyKnown
<1>2. ASSUME NEW r \in Request, Step(r)
      PROVE  KeyKnown'
  <2>0. wleg[r] \in WorkosLeg
    BY DEF TypeOK, LocalOK
  <2>1. CASE \/ ReceiveCreate(r) \/ ReceiveDelete(r) \/ ReceiveReplace(r) \/ TakeClaim(r)
    BY <2>1 DEF ReceiveCreate, ReceiveDelete, ReceiveReplace, Receive, TakeClaim, KeyKnown
  <2>2. CASE \/ ClaimBusy(r) \/ Release(r) \/ Die(r) \/ CreateRefused(r) \/ WriteRefused(r)
             \/ PreflightFails(r) \/ FinishReplace(r) \/ FinishDelete(r) \/ Prune(r)
             \/ PruneFails(r) \/ CreateFailed(r) \/ CreateLanded(r) \/ Compensate(r)
             \/ CompensateFails(r) \/ Persist(r) \/ Settle(r)
    <3>1. \E next : Go(r, next)
      BY <2>2 DEF ClaimBusy, Release, Die, CreateRefused, WriteRefused, PreflightFails,
                  FinishReplace, FinishDelete, Prune, PruneFails, CreateFailed, CreateLanded,
                  Compensate, CompensateFails, Persist, Settle
    <3> QED
      BY <3>1, GoKeyKnown
  <2>3. CASE CheckCreate(r) \/ CheckDelete(r) \/ CheckReplace(r)
    <3>1. PICK at, key, to, owner : StartLegs(r, at, key, to, owner) /\ (at = "read" => key \in Id)
      <4>1. CASE CheckCreate(r)
        <5>1. PICK m \in Mints(r) :
                  \/ StartLegs(r, IF m = None THEN "wait" ELSE "read", m, None, None)
                  \/ \E n \in ClaimedOwners(m) : StartLegs(r, "wait", None, None, n)
          BY <4>1 DEF CheckCreate
        <5>2. m \in Id \cup {None}
          BY IdFacts DEF Mints, TypeOK, LocalOK, Call
        <5> QED
          BY <5>1, <5>2
      <4>2. CASE CheckDelete(r)
        BY <4>2 DEF CheckDelete
      <4>3. CASE CheckReplace(r)
        BY <4>3 DEF CheckReplace, Shapes, Shape
      <4> QED
        BY <2>3, <4>1, <4>2, <4>3
    <3> DEFINE leg == [key |-> key, stat |-> "none", at |-> at, to |-> to,
                       owner |-> owner, sink |-> None, created |-> FALSE]
    <3>2. leg.at # "read" \/ leg.key \in Id
      BY <3>1
    <3>3. wleg' = [wleg EXCEPT ![r] = leg]
      BY <3>1 DEF StartLegs
    <3> HIDE DEF leg
    <3> QED
      BY <3>2, <3>3, MovedOn
  <2>4. CASE \/ NativeCreated(r) \/ NativeConflict(r) \/ NativeReplaced(r)
             \/ NativeDeleted(r) \/ NativeRejected(r) \/ NativeUnsure(r)
    <3>1. \E stat \in Stats, i \in Id \cup {None} : NativeDone(r, stat, i)
      BY <2>4, NativeOutcome
    <3>2. PICK stat \in Stats, i \in Id \cup {None} : NativeDone(r, stat, i)
      BY <3>1
    <3>3. CASE wleg[r].at # "wait"
      BY <3>2, <3>3 DEF NativeDone, KeyKnown, TypeOK, LocalOK
    <3>4. CASE wleg[r].at = "wait" /\ i # None /\ wleg[r].owner \in {None, i}
      <4>1. wleg' = [wleg EXCEPT ![r] = [wleg[r] EXCEPT !.at = "read", !.key = i]]
        BY <3>2, <3>4 DEF NativeDone, TypeOK, LocalOK
      <4>2. [wleg[r] EXCEPT !.at = "read", !.key = i].key \in Id
        BY <2>0, <3>4 DEF WorkosLeg
      <4> QED
        BY <4>1, <4>2, MovedOn
    <3>5. CASE wleg[r].at = "wait" /\ ~(i # None /\ wleg[r].owner \in {None, i})
      <4>1. wleg' = [wleg EXCEPT ![r] = [wleg[r] EXCEPT !.at = "done"]]
        BY <3>2, <3>5 DEF NativeDone, TypeOK, LocalOK
      <4>2. [wleg[r] EXCEPT !.at = "done"].at # "read"
        BY <2>0 DEF WorkosLeg
      <4> QED
        BY <4>1, <4>2, MovedOn
    <3> QED
      BY <3>3, <3>4, <3>5
  <2>5. CASE MirrorRead(r)
    <3> DEFINE to == IF mapping[wleg[r].key] # None THEN mapping[wleg[r].key] ELSE wleg[r].key
    <3>1. CASE MirrorReadFails(r, to)
      BY <3>1, LegKeyKnown DEF MirrorReadFails
    <3>2. CASE wleg' = [wleg EXCEPT ![r] = [wleg[r] EXCEPT !.at = "put", !.to = to]]
      <4>1. [wleg[r] EXCEPT !.at = "put", !.to = to].at # "read"
        <5> HIDE DEF to
        <5> QED
          BY <2>0 DEF WorkosLeg
      <4> DEFINE leg == [wleg[r] EXCEPT !.at = "put", !.to = to]
      <4>2. leg.at # "read" /\ wleg' = [wleg EXCEPT ![r] = leg]
        BY <3>2, <4>1
      <4> HIDE DEF leg
      <4> QED
        BY <4>2, MovedOn
    <3> QED
      BY <2>5, <3>1, <3>2 DEF MirrorRead
  <2>6. CASE \/ MirrorPut(r) \/ MirrorPutMissing(r) \/ MirrorPutRejected(r)
             \/ MirrorPutUnsure(r) \/ MirrorLookupFails(r) \/ MirrorPost(r)
             \/ MirrorPostConflict(r) \/ MirrorPostFails(r) \/ RecoverClaim(r)
             \/ RecoverRefused(r) \/ RecoverRecord(r) \/ RecoverUnclaim(r)
             \/ WorkosDeleteFails(r)
    BY <2>6, LegKeyKnown
    DEF MirrorPut, MirrorPutMissing, MirrorPutRejected, MirrorPutUnsure, MirrorLookupFails,
        MirrorPost, MirrorPostConflict, MirrorPostFails, RecoverClaim, RecoverRefused,
        RecoverRecord, RecoverUnclaim, WorkosDeleteFails
  <2>7. CASE RecoverRecordFails(r) \/ WorkosDeleted(r)
    <3>1. \A stat : [wleg[r] EXCEPT !.at = "done", !.stat = stat].at # "read"
      BY <2>0 DEF WorkosLeg
    <3>2. [wleg[r] EXCEPT !.stat = "unsure", !.at = "done"].at # "read"
      BY <2>0 DEF WorkosLeg
    <3>3. CASE RecoverRecordFails(r)
      BY <3>2, <3>3, MovedOn DEF RecoverRecordFails
    <3>4. CASE WorkosDeleted(r)
      <4>1. \E stat : wleg' = [wleg EXCEPT ![r] = [wleg[r] EXCEPT !.at = "done", !.stat = stat]]
        BY <3>4 DEF WorkosDeleted
      <4> QED
        BY <3>1, <4>1, MovedOn
    <3> QED
      BY <2>7, <3>3, <3>4
  <2> QED
    BY <1>2, <2>1, <2>2, <2>3, <2>4, <2>5, <2>6, <2>7 DEF Step
<1> QED
  BY <1>1, <1>2 DEF Next

(* Every state of every behaviour is well typed (scim.ts, index.ts: what the *)
(* handlers keep, the id_mappings, ledger and claim rows, the rows of both   *)
(* sides), whatever the sets of ids, persons and requests.                   *)
THEOREM TypeCorrect == Spec => []TypeOK
<1>1. Init => TypeOK /\ Shapes /\ KeyKnown
  BY InitTyped, InitShapes, InitKeyKnown
<1>2. TypeOK /\ Shapes /\ KeyKnown /\ [Next]_vars => (TypeOK /\ Shapes /\ KeyKnown)'
  BY NextTyped, NextShapes, NextKeyKnown
<1> QED
  BY <1>1, <1>2, PTL DEF Spec

-----------------------------------------------------------------------------
(***************************************************************************)
(* What the create claim of PrimaryIdentity promises for every set of ids, *)
(* persons and requests: it serialises every change of id_mappings, and a  *)
(* write whose outcome nobody knows keeps it.                              *)
(*                                                                         *)
(* The invariant is ClaimInv: types and shapes (PrimaryIdentityProofs), who *)
(* holds the claim (ClaimHeld), that only a replace recovers                *)
(* (ReplaceRecovers), and where a handler stands once one of its writes     *)
(* went unanswered (LateHeld): past every path that gives the claim back.   *)
(***************************************************************************)

Cleanup == {"record", "unclaim"}
Recovery == {"post", "reput", "lookup"} \cup Cleanup

(* A create or a delete holds the claim from its preflight to its release, a *)
(* replace while it recovers the mapped row.                                 *)
Owns(r) ==
    \/ /\ call[r].op \in {"create", "delete"}
       /\ pc[r] \in {"check", "legs", "compensate", "persist", "settle", "prune", "release"}
    \/ call[r].op = "replace" /\ pc[r] = "legs" /\ wleg[r].at \in Recovery

ClaimHeld == \A r \in Request : Owns(r) => claim = r

ReplaceRecovers ==
    \A r \in Request : pc[r] = "legs" /\ wleg[r].at \in Cleanup => call[r].op = "replace"

(* A handler one of whose claimed writes went unanswered is past every       *)
(* release: it is over, or a leg of it ended without a certain outcome.      *)
Doubtful == {"unsure", "incomplete"}

Stuck(r) ==
    \/ pc[r] \in {"done", "dead"}
    \/ /\ pc[r] = "legs"
       /\ \/ call[r].op # "replace" /\ nleg[r].stat \in Doubtful /\ nleg[r].id = None
          \/ wleg[r].stat \in Doubtful /\ wleg[r].at = "done"

Claimed(w) == w.under # None \/ w.verb # "put"

LateHeld == \A w \in late : Claimed(w) => claim = w.by /\ Stuck(w.by)

Sound == TypeOK /\ Shapes /\ KeyKnown
ClaimInv == Sound /\ ClaimHeld /\ ReplaceRecovers /\ LateHeld

-----------------------------------------------------------------------------
(* What the pieces of the actions leave behind in the request that acts, and *)
(* that they leave every other request alone.                                *)

OthersUnmoved(r) ==
    \A s \in Request \ {r} : /\ call'[s] = call[s] /\ pc'[s] = pc[s]
                             /\ nleg'[s] = nleg[s] /\ wleg'[s] = wleg[s]

LEMMA GoLocal ==
    ASSUME LocalOK, NEW r \in Request, NEW next, Go(r, next)
    PROVE  /\ OthersUnmoved(r)
           /\ pc'[r] = next
           /\ \/ next \in {"done", "dead"} /\ call'[r].op = "none" /\ wleg'[r].at = "off"
              \/ next \notin {"done", "dead"} /\ UNCHANGED <<call, nleg, wleg>>
<1>1. NoCall.op = "none" /\ NoWorkosLeg.at = "off"
  BY DEF NoCall, NoWorkosLeg
<1>2. CASE next \in {"done", "dead"}
  <2>1. /\ call' = [call EXCEPT ![r] = NoCall] /\ pc' = [pc EXCEPT ![r] = next]
        /\ nleg' = [nleg EXCEPT ![r] = NoNativeLeg]
        /\ wleg' = [wleg EXCEPT ![r] = NoWorkosLeg]
    BY <1>2 DEF Go
  <2> QED
    BY <1>1, <1>2, <2>1 DEF LocalOK, OthersUnmoved
<1>3. CASE next \notin {"done", "dead"}
  BY <1>3 DEF Go, LocalOK, OthersUnmoved
<1> QED
  BY <1>2, <1>3

LEMMA StartLegsLocal ==
    ASSUME LocalOK, NEW r \in Request, NEW at, NEW key, NEW to, NEW owner,
           StartLegs(r, at, key, to, owner)
    PROVE  OthersUnmoved(r) /\ call' = call /\ pc'[r] = "legs" /\ wleg'[r].at = at
<1> DEFINE leg == [key |-> key, stat |-> "none", at |-> at, to |-> to,
                   owner |-> owner, sink |-> None, created |-> FALSE]
<1>1. leg.at = at /\ wleg' = [wleg EXCEPT ![r] = leg]
  BY DEF StartLegs
<1> HIDE DEF leg
<1> QED
  BY <1>1 DEF StartLegs, LocalOK, OthersUnmoved

LEMMA NativeLocal ==
    ASSUME LocalOK, NEW r \in Request, NEW stat, NEW i, NativeDone(r, stat, i)
    PROVE  /\ OthersUnmoved(r) /\ UNCHANGED <<call, pc, claim>>
           /\ nleg'[r].stat = stat /\ nleg'[r].id = i
           /\ \/ wleg'[r] = wleg[r]
              \/ wleg[r].at = "wait" /\ wleg'[r].at \in {"read", "done"}
<1>1. wleg[r] \in WorkosLeg
  BY DEF LocalOK
<1>2. nleg'[r].stat = stat /\ nleg'[r].id = i /\ (\A s \in Request \ {r} : nleg'[s] = nleg[s])
  <2> DEFINE leg == [id |-> i, stat |-> stat]
  <2>1. leg.stat = stat /\ leg.id = i
    OBVIOUS
  <2>2. nleg' = [nleg EXCEPT ![r] = leg]
    BY DEF NativeDone
  <2> HIDE DEF leg
  <2> QED
    BY <2>1, <2>2 DEF LocalOK
<1>3. \E leg : wleg' = [wleg EXCEPT ![r] = leg]
               /\ (leg = wleg[r] \/ (wleg[r].at = "wait" /\ leg.at \in {"read", "done"}))
  <2>1. CASE wleg[r].at # "wait"
    BY <2>1 DEF NativeDone, LocalOK
  <2>2. CASE wleg[r].at = "wait" /\ i # None /\ wleg[r].owner \in {None, i}
    <3> DEFINE leg == [wleg[r] EXCEPT !.at = "read", !.key = i]
    <3>1. leg.at = "read"
      BY <1>1 DEF WorkosLeg
    <3>2. wleg' = [wleg EXCEPT ![r] = leg]
      BY <2>2 DEF NativeDone, LocalOK
    <3> HIDE DEF leg
    <3> QED
      BY <2>2, <3>1, <3>2
  <2>3. CASE wleg[r].at = "wait" /\ ~(i # None /\ wleg[r].owner \in {None, i})
    <3> DEFINE leg == [wleg[r] EXCEPT !.at = "done"]
    <3>1. leg.at = "done"
      BY <1>1 DEF WorkosLeg
    <3>2. wleg' = [wleg EXCEPT ![r] = leg]
      BY <2>3 DEF NativeDone, LocalOK
    <3> HIDE DEF leg
    <3> QED
      BY <2>3, <3>1, <3>2
  <2> QED
    BY <2>1, <2>2, <2>3
<1>4. OthersUnmoved(r) /\ UNCHANGED <<call, pc, claim>>
  BY <1>2, <1>3 DEF NativeDone, LocalOK, OthersUnmoved, store
<1> QED
  BY <1>2, <1>3, <1>4 DEF LocalOK

(* The WorkOS leg's progress, all of it by one record update.                *)
LegAt(r, at) ==
    /\ wleg'[r].at = at
    /\ \A s \in Request \ {r} : wleg'[s] = wleg[s]

LEMMA GotoLocal ==
    ASSUME LocalOK, NEW r \in Request, NEW at, Goto(r, at)
    PROVE  LegAt(r, at)
<1>1. wleg[r] \in WorkosLeg
  BY DEF LocalOK
<1> DEFINE leg == [wleg[r] EXCEPT !.at = at]
<1>2. leg.at = at
  BY <1>1 DEF WorkosLeg
<1>3. wleg' = [wleg EXCEPT ![r] = leg]
  BY DEF Goto, LocalOK
<1> HIDE DEF leg
<1> QED
  BY <1>2, <1>3 DEF LocalOK, LegAt

LEMMA MirroredLocal ==
    ASSUME LocalOK, NEW r \in Request, NEW w, NEW fresh, Mirrored(r, w, fresh)
    PROVE  LegAt(r, IF Recovering(r) THEN "record" ELSE "done")
<1>1. wleg[r] \in WorkosLeg
  BY DEF LocalOK
<1> DEFINE at == IF Recovering(r) THEN "record" ELSE "done"
<1> SUFFICES LegAt(r, at)
  OBVIOUS
<1> DEFINE leg == [wleg[r] EXCEPT !.sink = w, !.created = fresh, !.stat = "ok", !.at = at]
<1>2. wleg' = [wleg EXCEPT ![r] = leg]
  BY DEF Mirrored, LocalOK
<1>3. leg.at = at
  <2> HIDE DEF at
  <2> QED
    BY <1>1 DEF WorkosLeg
<1> HIDE DEF leg, at
<1> QED
  BY <1>2, <1>3 DEF LocalOK, LegAt

LEMMA MirrorFailedLocal ==
    ASSUME LocalOK, NEW r \in Request, NEW stat, MirrorFailed(r, stat)
    PROVE  /\ LegAt(r, IF Recovering(r) /\ stat # "unsure" THEN "unclaim" ELSE "done")
           /\ wleg'[r].stat = stat
<1>1. wleg[r] \in WorkosLeg
  BY DEF LocalOK
<1> DEFINE at == IF Recovering(r) /\ stat # "unsure" THEN "unclaim" ELSE "done"
<1> SUFFICES LegAt(r, at) /\ wleg'[r].stat = stat
  OBVIOUS
<1> DEFINE leg == [wleg[r] EXCEPT !.stat = stat, !.at = at]
<1>2. wleg' = [wleg EXCEPT ![r] = leg]
  BY DEF MirrorFailed, LocalOK
<1>3. leg.at = at /\ leg.stat = stat
  <2> HIDE DEF at
  <2> QED
    BY <1>1 DEF WorkosLeg
<1> HIDE DEF leg, at
<1> QED
  BY <1>2, <1>3 DEF LocalOK, LegAt

-----------------------------------------------------------------------------
(* What each group of actions does to the claim, the mapping and the acting   *)
(* request.                                                                   *)

(* Receiving a request, and what gives up or finishes.                        *)
LEMMA ReceiveSummary ==
    ASSUME Sound, NEW r \in Request,
           ReceiveCreate(r) \/ ReceiveDelete(r) \/ ReceiveReplace(r)
    PROVE  /\ OthersUnmoved(r) /\ UNCHANGED <<claim, mapping, late>>
           /\ pc[r] = "idle" /\ pc'[r] # "legs" /\ ~Owns(r)'
<1>1. ASSUME NEW c, Receive(r, c), c.op \in {"create", "delete", "replace"}
      PROVE  /\ OthersUnmoved(r) /\ UNCHANGED <<claim, mapping, late>>
             /\ pc[r] = "idle" /\ pc'[r] # "legs" /\ ~Owns(r)'
  <2>1. call'[r] = c /\ pc'[r] = IF c.op = "replace" THEN "check" ELSE "claim"
    BY <1>1 DEF Receive, Sound, TypeOK, LocalOK
  <2> QED
    BY <1>1, <2>1 DEF Receive, Sound, TypeOK, LocalOK, OthersUnmoved, Owns, store, upstream
<1>2. CASE ReceiveCreate(r)
  <2>1. PICK p, e : Receive(r, [id |-> None, person |-> p, op |-> "create", ext |-> e])
    BY <1>2 DEF ReceiveCreate
  <2> DEFINE c == [id |-> None, person |-> p, op |-> "create", ext |-> e]
  <2>2. Receive(r, c) /\ c.op = "create"
    BY <2>1
  <2> HIDE DEF c
  <2> QED
    BY <1>1, <2>2
<1>3. CASE ReceiveDelete(r)
  <2>1. PICK i : Receive(r, [id |-> i, person |-> None, op |-> "delete", ext |-> None])
    BY <1>3 DEF ReceiveDelete
  <2> DEFINE c == [id |-> i, person |-> None, op |-> "delete", ext |-> None]
  <2>2. Receive(r, c) /\ c.op = "delete"
    BY <2>1
  <2> HIDE DEF c
  <2> QED
    BY <1>1, <2>2
<1>4. CASE ReceiveReplace(r)
  <2>1. PICK i, p : Receive(r, [id |-> i, person |-> p, op |-> "replace", ext |-> None])
    BY <1>4 DEF ReceiveReplace
  <2> DEFINE c == [id |-> i, person |-> p, op |-> "replace", ext |-> None]
  <2>2. Receive(r, c) /\ c.op = "replace"
    BY <2>1
  <2> HIDE DEF c
  <2> QED
    BY <1>1, <2>2
<1> QED
  BY <1>2, <1>3, <1>4

LEMMA NativeSummary ==
    ASSUME Sound, NEW r \in Request,
           \/ NativeCreated(r) \/ NativeConflict(r) \/ NativeReplaced(r)
           \/ NativeDeleted(r) \/ NativeRejected(r) \/ NativeUnsure(r)
    PROVE  /\ OthersUnmoved(r) /\ UNCHANGED <<claim, mapping, call, pc>>
           /\ pc[r] = "legs" /\ nleg[r].stat = "none"
           /\ \/ wleg'[r] = wleg[r]
              \/ wleg[r].at = "wait" /\ wleg'[r].at \in {"read", "done"}
<1>1. PICK stat \in Stats, i \in Id \cup {None} : NativeDone(r, stat, i)
  BY NativeOutcome
<1>2. mapping' = mapping
  BY <1>1 DEF NativeDone, store
<1>3. pc[r] = "legs" /\ nleg[r].stat = "none"
  BY DEF NativeCreated, NativeConflict, NativeReplaced, NativeDeleted, NativeRejected,
         NativeUnsure, CanTake, InLegs
<1> QED
  BY <1>1, <1>2, <1>3, NativeLocal DEF Sound, TypeOK

LEMMA MirrorSummary ==
    ASSUME Sound, NEW r \in Request,
           \/ MirrorRead(r) \/ MirrorPut(r) \/ MirrorPutMissing(r) \/ MirrorPutRejected(r)
           \/ MirrorPutUnsure(r) \/ MirrorLookupFails(r) \/ MirrorPost(r)
           \/ MirrorPostConflict(r) \/ MirrorPostFails(r) \/ RecoverRefused(r)
           \/ WorkosDeleted(r) \/ WorkosDeleteFails(r)
    PROVE  /\ OthersUnmoved(r) /\ UNCHANGED <<claim, mapping, call, pc, nleg>>
           /\ pc[r] = "legs" /\ wleg[r].at # "done"
           /\ wleg'[r].at \in Cleanup => call[r].op = "replace"
           /\ call[r].op = "replace" /\ wleg'[r].at \in Recovery => wleg[r].at \in Recovery
<1> DEFINE Goes(at) ==
      /\ at \in Cleanup => call[r].op = "replace"
      /\ call[r].op = "replace" /\ at \in Recovery => wleg[r].at \in Recovery
<1>0. LocalOK
  BY DEF Sound, TypeOK
<1>1. /\ UNCHANGED <<claim, mapping, call, pc, nleg>>
      /\ pc[r] = "legs" /\ wleg[r].at # "done"
  BY DEF MirrorRead, MirrorPut, MirrorPutMissing, MirrorPutRejected, MirrorPutUnsure,
         MirrorLookupFails, MirrorPost, MirrorPostConflict, MirrorPostFails, RecoverRefused,
         WorkosDeleted, WorkosDeleteFails, Elsewhere, At, Putting
<1>2. ASSUME NEW w, NEW fresh, Mirrored(r, w, fresh)
      PROVE  \E at : LegAt(r, at) /\ Goes(at)
  BY <1>0, <1>2, MirroredLocal DEF Recovering, Cleanup, Recovery
<1>3. ASSUME NEW stat, MirrorFailed(r, stat)
      PROVE  \E at : LegAt(r, at) /\ Goes(at)
  BY <1>0, <1>3, MirrorFailedLocal DEF Recovering, Cleanup, Recovery
<1>4. \E at : LegAt(r, at) /\ Goes(at)
  <2>1. CASE MirrorRead(r)
    <3> DEFINE to == IF mapping[wleg[r].key] # None THEN mapping[wleg[r].key] ELSE wleg[r].key
    <3>1. CASE MirrorReadFails(r, to)
      BY <1>3, <3>1 DEF MirrorReadFails
    <3>2. CASE wleg' = [wleg EXCEPT ![r] = [wleg[r] EXCEPT !.at = "put", !.to = to]]
      <4> DEFINE leg == [wleg[r] EXCEPT !.at = "put", !.to = to]
      <4>1. leg.at = "put"
        <5> HIDE DEF to
        <5>1. wleg[r] \in WorkosLeg
          BY <1>0 DEF LocalOK
        <5> QED
          BY <5>1 DEF WorkosLeg
      <4>2. wleg' = [wleg EXCEPT ![r] = leg]
        BY <3>2
      <4> HIDE DEF leg
      <4>3. LegAt(r, "put")
        BY <1>0, <4>1, <4>2 DEF LocalOK, LegAt
      <4> QED
        BY <4>3 DEF Cleanup, Recovery
    <3> QED
      BY <2>1, <3>1, <3>2 DEF MirrorRead
  <2>2. CASE MirrorPut(r) \/ MirrorPost(r)
    <3>1. PICK w, fresh : Mirrored(r, w, fresh)
      BY <2>2 DEF MirrorPut, MirrorPost
    <3> QED
      BY <1>2, <3>1
  <2>3. CASE MirrorPutMissing(r)
    <3>1. CASE wleg[r].at = "reput" /\ Goto(r, "lookup")
      BY <1>0, <3>1, GotoLocal DEF Cleanup, Recovery
    <3>2. CASE Goto(r, "recover")
      BY <1>0, <3>2, GotoLocal DEF Cleanup, Recovery
    <3>3. CASE call[r].op = "create" /\ Goto(r, "post")
      BY <1>0, <3>3, GotoLocal DEF Cleanup, Recovery
    <3> QED
      BY <2>3, <3>1, <3>2, <3>3 DEF MirrorPutMissing
  <2>4. CASE MirrorPostConflict(r)
    BY <1>0, <2>4, GotoLocal DEF MirrorPostConflict, At, Recovery, Cleanup
  <2>5. CASE \/ MirrorPutRejected(r) \/ MirrorPutUnsure(r) \/ MirrorLookupFails(r)
             \/ MirrorPostFails(r) \/ RecoverRefused(r) \/ WorkosDeleteFails(r)
    <3>1. PICK stat : MirrorFailed(r, stat)
      BY <2>5 DEF MirrorPutRejected, MirrorPutUnsure, MirrorLookupFails, MirrorPostFails,
                  RecoverRefused, WorkosDeleteFails
    <3> QED
      BY <1>3, <3>1
  <2>6. CASE WorkosDeleted(r)
    <3>1. PICK stat :
              wleg' = [wleg EXCEPT ![r] = [wleg[r] EXCEPT !.at = "done", !.stat = stat]]
      BY <2>6 DEF WorkosDeleted
    <3> DEFINE leg == [wleg[r] EXCEPT !.at = "done", !.stat = stat]
    <3>2. leg.at = "done" /\ wleg' = [wleg EXCEPT ![r] = leg]
      BY <1>0, <3>1 DEF LocalOK, WorkosLeg
    <3> HIDE DEF leg
    <3>3. LegAt(r, "done")
      BY <1>0, <3>2 DEF LocalOK, LegAt
    <3> QED
      BY <3>3 DEF Cleanup, Recovery
  <2> QED
    BY <2>1, <2>2, <2>3, <2>4, <2>5, <2>6
<1>5. OthersUnmoved(r)
  BY <1>1, <1>4 DEF LegAt, OthersUnmoved
<1> QED
  BY <1>1, <1>4, <1>5 DEF LegAt

(* Where an action ends a stretch of the handler, it goes on under the claim *)
(* the handler holds, or it is over.                                          *)
LEMMA GoSummary ==
    ASSUME NEW r \in Request,
           \/ ClaimBusy(r) \/ Release(r) \/ Die(r) \/ CreateRefused(r) \/ WriteRefused(r)
           \/ PreflightFails(r) \/ FinishReplace(r) \/ FinishDelete(r) \/ Prune(r)
           \/ PruneFails(r) \/ CreateFailed(r) \/ CreateLanded(r) \/ Compensate(r)
           \/ CompensateFails(r) \/ Persist(r) \/ Settle(r)
    PROVE  \E next \in {"release", "prune", "compensate", "persist", "settle", "done", "dead"} :
              /\ Go(r, next)
              /\ \/ claim' = claim
                 \/ claim = r /\ next = "done"
              /\ \/ next \in {"done", "dead"}
                 \/ pc[r] \in {"check", "legs", "compensate", "persist", "settle", "prune"}
                    /\ claim' = claim
<1>1. CASE Release(r)
  BY <1>1 DEF Release
<1>2. CASE ClaimBusy(r) \/ Die(r)
  BY <1>2 DEF ClaimBusy, Die, store
<1>3. CASE CreateRefused(r) \/ WriteRefused(r) \/ PreflightFails(r)
  BY <1>3 DEF CreateRefused, WriteRefused, PreflightFails, store
<1>4. CASE FinishReplace(r) \/ FinishDelete(r) \/ CreateFailed(r) \/ CreateLanded(r)
  BY <1>4 DEF FinishReplace, FinishDelete, CreateFailed, CreateLanded, LegsDone, InLegs, store
<1>5. CASE \/ Prune(r) \/ PruneFails(r) \/ Compensate(r) \/ CompensateFails(r)
           \/ Persist(r) \/ Settle(r)
  BY <1>5 DEF Prune, PruneFails, Compensate, CompensateFails, Persist, Settle
<1> QED
  BY <1>1, <1>2, <1>3, <1>4, <1>5

(* One step of one request keeps who holds the claim.                         *)
LEMMA StepHolds ==
    ASSUME Sound, ClaimHeld, ReplaceRecovers, NEW r \in Request, Step(r)
    PROVE  /\ OthersUnmoved(r)
           /\ claim' = claim \/ claim \in {None, r}
           /\ Owns(r)' => claim' = r
           /\ pc'[r] = "legs" /\ wleg'[r].at \in Cleanup => call'[r].op = "replace"
<1>0. LocalOK /\ r # None
  BY IdFacts DEF Sound, TypeOK
<1>1. CASE ReceiveCreate(r) \/ ReceiveDelete(r) \/ ReceiveReplace(r)
  BY <1>1, ReceiveSummary
<1>2. CASE TakeClaim(r)
  BY <1>0, <1>2 DEF TakeClaim, LocalOK, OthersUnmoved
<1>3. CASE \/ ClaimBusy(r) \/ Release(r) \/ Die(r) \/ CreateRefused(r) \/ WriteRefused(r)
           \/ PreflightFails(r) \/ FinishReplace(r) \/ FinishDelete(r) \/ Prune(r)
           \/ PruneFails(r) \/ CreateFailed(r) \/ CreateLanded(r) \/ Compensate(r)
           \/ CompensateFails(r) \/ Persist(r) \/ Settle(r)
  <2>1. PICK next \in {"release", "prune", "compensate", "persist", "settle", "done", "dead"} :
            /\ Go(r, next)
            /\ claim' = claim \/ claim = r
            /\ \/ next \in {"done", "dead"}
               \/ pc[r] \in {"check", "legs", "compensate", "persist", "settle", "prune"}
                  /\ claim' = claim
    BY <1>3, GoSummary
  <2>2. /\ OthersUnmoved(r)
        /\ pc'[r] = next
        /\ \/ next \in {"done", "dead"} /\ call'[r].op = "none"
           \/ next \notin {"done", "dead"} /\ call' = call
    BY <1>0, <2>1, GoLocal
  <2>3. Owns(r)' => call' = call /\ call[r].op \in {"create", "delete"} /\ next \notin {"done", "dead"}
    BY <2>1, <2>2 DEF Owns
  <2>4. Owns(r)' => Owns(r) /\ claim' = claim
    BY <2>1, <2>3 DEF Owns
  <2> QED
    BY <2>1, <2>2, <2>4 DEF ClaimHeld
<1>4. CASE CheckCreate(r) \/ CheckDelete(r) \/ CheckReplace(r)
  <2>1. PICK at, key, to, owner :
            /\ StartLegs(r, at, key, to, owner) /\ at \in {"wait", "read", "put"}
    BY <1>4 DEF CheckCreate, CheckDelete, CheckReplace
  <2>2. OthersUnmoved(r) /\ call' = call /\ pc'[r] = "legs" /\ wleg'[r].at = at
    BY <1>0, <2>1, StartLegsLocal
  <2>3. claim' = claim /\ pc[r] = "check"
    BY <1>4 DEF CheckCreate, CheckDelete, CheckReplace, StartLegs, store
  <2>4. Owns(r)' => Owns(r)
    BY <2>1, <2>2, <2>3 DEF Owns, Recovery, Cleanup
  <2> QED
    BY <2>1, <2>2, <2>3, <2>4 DEF ClaimHeld, Cleanup
<1>5. CASE \/ NativeCreated(r) \/ NativeConflict(r) \/ NativeReplaced(r)
           \/ NativeDeleted(r) \/ NativeRejected(r) \/ NativeUnsure(r)
  <2>1. /\ OthersUnmoved(r) /\ UNCHANGED <<claim, call, pc>>
        /\ wleg'[r] = wleg[r] \/ wleg'[r].at \in {"read", "done"}
    BY <1>5, NativeSummary
  <2>2. Owns(r)' => Owns(r)
    BY <2>1 DEF Owns, Recovery, Cleanup
  <2> QED
    BY <2>1, <2>2 DEF ClaimHeld, ReplaceRecovers, Cleanup
<1>6. CASE \/ MirrorRead(r) \/ MirrorPut(r) \/ MirrorPutMissing(r) \/ MirrorPutRejected(r)
           \/ MirrorPutUnsure(r) \/ MirrorLookupFails(r) \/ MirrorPost(r)
           \/ MirrorPostConflict(r) \/ MirrorPostFails(r) \/ RecoverRefused(r)
           \/ WorkosDeleted(r) \/ WorkosDeleteFails(r)
  <2>1. /\ OthersUnmoved(r) /\ UNCHANGED <<claim, call, pc>>
        /\ wleg'[r].at \in Cleanup => call[r].op = "replace"
        /\ call[r].op = "replace" /\ wleg'[r].at \in Recovery => wleg[r].at \in Recovery
    BY <1>6, MirrorSummary
  <2>2. Owns(r)' => Owns(r)
    BY <2>1 DEF Owns
  <2> QED
    BY <2>1, <2>2 DEF ClaimHeld
<1>7. CASE RecoverClaim(r)
  <2>1. LegAt(r, "post")
    BY <1>0, <1>7, GotoLocal DEF RecoverClaim
  <2> QED
    BY <1>7, <2>1 DEF RecoverClaim, LegAt, OthersUnmoved, Cleanup
<1>8. CASE RecoverRecord(r) \/ RecoverRecordFails(r) \/ RecoverUnclaim(r)
  <2>1. pc[r] = "legs" /\ wleg[r].at \in Cleanup /\ UNCHANGED <<call, pc, nleg>>
    BY <1>8 DEF RecoverRecord, RecoverRecordFails, RecoverUnclaim, At, Cleanup
  <2>2. call[r].op = "replace" /\ claim = r
    BY <2>1 DEF ReplaceRecovers, ClaimHeld, Owns, Recovery
  <2>3. CASE RecoverRecord(r)
    <3>1. LegAt(r, "unclaim") /\ claim' = claim
      BY <1>0, <2>3, GotoLocal DEF RecoverRecord
    <3> QED
      BY <2>1, <2>2, <3>1 DEF LegAt, OthersUnmoved, Cleanup
  <2>4. CASE RecoverRecordFails(r) \/ RecoverUnclaim(r)
    <3>1. LegAt(r, "done")
      <4>1. CASE RecoverUnclaim(r)
        BY <1>0, <4>1, GotoLocal DEF RecoverUnclaim
      <4>2. CASE RecoverRecordFails(r)
        <5> DEFINE leg == [wleg[r] EXCEPT !.stat = "unsure", !.at = "done"]
        <5>1. leg.at = "done" /\ wleg' = [wleg EXCEPT ![r] = leg]
          BY <1>0, <4>2 DEF RecoverRecordFails, LocalOK, WorkosLeg
        <5> HIDE DEF leg
        <5> QED
          BY <1>0, <5>1 DEF LocalOK, LegAt
      <4> QED
        BY <2>4, <4>1, <4>2
    <3> QED
      BY <2>1, <2>2, <3>1 DEF LegAt, OthersUnmoved, Owns, Cleanup, Recovery
  <2> QED
    BY <1>8, <2>3, <2>4
<1> QED
  BY <1>1, <1>2, <1>3, <1>4, <1>5, <1>6, <1>7, <1>8 DEF Step

LEMMA NextHolds ==
    ASSUME Sound, ClaimHeld, ReplaceRecovers, [Next]_vars
    PROVE  ClaimHeld' /\ ReplaceRecovers'
<1>1. CASE LateWrite \/ UNCHANGED vars
  BY <1>1 DEF LateWrite, vars, store, local, ClaimHeld, ReplaceRecovers, Owns
<1>2. ASSUME NEW r \in Request, Step(r)
      PROVE  ClaimHeld' /\ ReplaceRecovers'
  <2>1. ASSUME NEW s \in Request, s # r
        PROVE  /\ Owns(s)' => claim' = s
               /\ pc'[s] = "legs" /\ wleg'[s].at \in Cleanup => call'[s].op = "replace"
    <3>1. call'[s] = call[s] /\ pc'[s] = pc[s] /\ wleg'[s] = wleg[s]
      BY <1>2, <2>1, StepHolds DEF OthersUnmoved
    <3>2. Owns(s)' => claim = s
      BY <3>1 DEF Owns, ClaimHeld
    <3>3. claim = s => claim' = s
      BY <1>2, <2>1, StepHolds, IdFacts
    <3> QED
      BY <3>1, <3>2, <3>3 DEF ReplaceRecovers
  <2> QED
    BY <1>2, <2>1, StepHolds DEF ClaimHeld, ReplaceRecovers
<1> QED
  BY <1>1, <1>2 DEF Next

-----------------------------------------------------------------------------
(* Unanswered writes. *)

LEMMA UnansweredNew ==
    ASSUME NEW r \in Request, NEW side, NEW verb, NEW i, NEW p,
           Unanswered(r, side, verb, i, p), NEW w \in late' \ late
    PROVE  /\ w.by = r /\ w.verb = verb /\ (w.under # None => claim = r)
           /\ w.side = side /\ w.id = i /\ w.person = p
<1> DEFINE u == IF claim = r THEN r ELSE None
<1> DEFINE new == [id |-> i, side |-> side, verb |-> verb, person |-> p, by |-> r, under |-> u]
<1>1. w = new
  BY DEF Unanswered
<1>2. /\ new.by = r /\ new.verb = verb /\ new.under = u
      /\ new.side = side /\ new.id = i /\ new.person = p
  <2> HIDE DEF u
  <2> QED
    OBVIOUS
<1> QED
  BY <1>1, <1>2

(* The steps that may leave a write unanswered. *)
LEMMA LateMover ==
    ASSUME Sound, NEW r \in Request, Step(r)
    PROVE  late' \subseteq late \/ NativeUnsure(r) \/ MirrorPutUnsure(r) \/ MirrorPostFails(r)
           \/ WorkosDeleteFails(r) \/ CompensateFails(r)
<1>1. CASE \/ ReceiveCreate(r) \/ ReceiveDelete(r) \/ ReceiveReplace(r)
  BY <1>1, ReceiveSummary
<1>2. CASE \/ TakeClaim(r) \/ ClaimBusy(r) \/ Release(r) \/ Die(r)
           \/ CheckCreate(r) \/ CreateRefused(r) \/ CheckDelete(r) \/ CheckReplace(r)
           \/ WriteRefused(r) \/ PreflightFails(r)
  BY <1>2 DEF TakeClaim, ClaimBusy, Release, Die, CheckCreate, CreateRefused, CheckDelete,
              CheckReplace, WriteRefused, PreflightFails, StartLegs, upstream
<1>3. CASE \/ NativeCreated(r) \/ NativeConflict(r) \/ NativeReplaced(r)
           \/ NativeDeleted(r) \/ NativeRejected(r)
  BY <1>3 DEF NativeCreated, NativeConflict, NativeReplaced, NativeDeleted, NativeRejected,
              upstream
<1>4. CASE \/ MirrorRead(r) \/ MirrorPut(r) \/ MirrorPutMissing(r) \/ MirrorPutRejected(r)
           \/ MirrorLookupFails(r) \/ MirrorPost(r) \/ MirrorPostConflict(r)
           \/ RecoverClaim(r) \/ RecoverRefused(r) \/ RecoverRecord(r)
           \/ RecoverRecordFails(r) \/ RecoverUnclaim(r) \/ WorkosDeleted(r)
  BY <1>4 DEF MirrorRead, MirrorPut, MirrorPutMissing, MirrorPutRejected, MirrorLookupFails,
              MirrorPost, MirrorPostConflict, RecoverClaim, RecoverRefused, RecoverRecord,
              RecoverRecordFails, RecoverUnclaim, WorkosDeleted, upstream
<1>5. CASE \/ FinishReplace(r) \/ FinishDelete(r) \/ Prune(r) \/ PruneFails(r)
           \/ CreateFailed(r) \/ CreateLanded(r) \/ Compensate(r) \/ Persist(r) \/ Settle(r)
  BY <1>5 DEF FinishReplace, FinishDelete, Prune, PruneFails, CreateFailed, CreateLanded,
              Compensate, Persist, Settle, upstream
<1> QED
  BY <1>1, <1>2, <1>3, <1>4, <1>5 DEF Step

(* A write goes unanswered under its request's claim, and leaves the request  *)
(* past every release.                                                        *)
LEMMA NewLate ==
    ASSUME Sound, ClaimHeld, NEW r \in Request, Step(r),
           NEW w \in late' \ late, Claimed(w)
    PROVE  w.by = r /\ claim' = r /\ Stuck(r)'
<1>0. LocalOK
  BY DEF Sound, TypeOK
<1>1. CASE NativeUnsure(r)
  <2>1. PICK stat \in Doubtful : NativeDone(r, stat, None)
    BY <1>1 DEF NativeUnsure, Doubtful
  <2>2. UNCHANGED <<call, pc, claim>> /\ nleg'[r].stat = stat /\ nleg'[r].id = None
    BY <1>0, <2>1, NativeLocal
  <2>3. pc[r] = "legs" /\ call[r].op \in {"create", "replace", "delete"}
    BY <1>1 DEF NativeUnsure, Sound, Shapes, Shape
  <2>4. call[r].op # "replace"
    BY <1>1 DEF NativeUnsure
  <2>5. claim = r
    BY <2>3, <2>4 DEF ClaimHeld, Owns
  <2>6. w.by = r
    <3>1. CASE call[r].op = "create"
      BY <1>1, <3>1, UnansweredNew DEF NativeUnsure
    <3>2. CASE call[r].op = "delete"
      BY <1>1, <3>2, UnansweredNew DEF NativeUnsure
    <3> QED
      BY <2>3, <2>4, <3>1, <3>2
  <2> QED
    BY <2>2, <2>3, <2>4, <2>5, <2>6 DEF Stuck
<1>2. ASSUME NEW verb, NEW i, NEW p, Unanswered(r, "workos", verb, i, p),
             NEW stat \in Doubtful, MirrorFailed(r, stat),
             Recovering(r) => stat = "unsure",
             pc[r] = "legs", UNCHANGED <<claim, call, pc>>, verb # "put" => claim = r
      PROVE  w.by = r /\ claim' = r /\ Stuck(r)'
  <2>1. w.by = r /\ claim = r
    BY <1>2, UnansweredNew DEF Claimed
  <2>2. wleg'[r].at = "done" /\ wleg'[r].stat = stat
    BY <1>0, <1>2, MirrorFailedLocal DEF LegAt
  <2> QED
    BY <1>2, <2>1, <2>2 DEF Stuck
<1>3. CASE MirrorPutUnsure(r)
  <2>1. PICK a \in Addressed(r) : Unanswered(r, "workos", "put", a, call[r].person)
    BY <1>3 DEF MirrorPutUnsure
  <2>2. MirrorFailed(r, "unsure") /\ pc[r] = "legs" /\ UNCHANGED <<claim, call, pc>>
    BY <1>3 DEF MirrorPutUnsure, Putting, Elsewhere
  <2> QED
    BY <1>2, <2>1, <2>2 DEF Doubtful
<1>4. CASE MirrorPostFails(r)
  <2>1. /\ MirrorFailed(r, "unsure")
        /\ Unanswered(r, "workos", "post", wleg[r].key, call[r].person)
    BY <1>4 DEF MirrorPostFails
  <2>2. pc[r] = "legs" /\ wleg[r].at = "post" /\ UNCHANGED <<claim, call, pc>>
    BY <1>4 DEF MirrorPostFails, At, Elsewhere
  <2>3. claim = r
    BY <2>2 DEF Sound, Shapes, Shape, ClaimHeld, Owns, Recovery
  <2> QED
    BY <1>2, <2>1, <2>2, <2>3 DEF Doubtful
<1>5. CASE WorkosDeleteFails(r)
  <2>1. PICK stat \in Doubtful : /\ MirrorFailed(r, stat)
                                 /\ Unanswered(r, "workos", "delete", wleg[r].to, None)
    BY <1>5 DEF WorkosDeleteFails, Doubtful
  <2>2. pc[r] = "legs" /\ call[r].op = "delete" /\ UNCHANGED <<claim, call, pc>>
    BY <1>5 DEF WorkosDeleteFails, At, Elsewhere
  <2>3. claim = r /\ ~Recovering(r)
    BY <2>2 DEF ClaimHeld, Owns, Recovering
  <2> QED
    BY <1>2, <2>1, <2>2, <2>3
<1>6. CASE CompensateFails(r)
  <2>1. Unanswered(r, "workos", "delete", wleg[r].sink, None) /\ pc[r] = "compensate"
    BY <1>6 DEF CompensateFails
  <2>2. claim' = claim /\ pc'[r] = "done"
    BY <1>0, <1>6, GoLocal DEF CompensateFails
  <2>3. claim = r
    BY <2>1 DEF Sound, Shapes, Shape, ClaimHeld, Owns
  <2> QED
    BY <2>1, <2>2, <2>3, UnansweredNew DEF Stuck
<1> QED
  BY <1>1, <1>3, <1>4, <1>5, <1>6, LateMover

(* Nothing the stuck holder of a claim still does gives the claim back.       *)
LEMMA StuckStays ==
    ASSUME Sound, ReplaceRecovers, NEW r \in Request, claim = r, Stuck(r), Step(r)
    PROVE  claim' = r /\ Stuck(r)'
<1>0. LocalOK /\ r # None
  BY IdFacts DEF Sound, TypeOK
<1>1. CASE ReceiveCreate(r) \/ ReceiveDelete(r) \/ ReceiveReplace(r)
  BY <1>1, ReceiveSummary DEF Stuck
<1>2. CASE \/ TakeClaim(r) \/ ClaimBusy(r) \/ Release(r)
           \/ CheckCreate(r) \/ CreateRefused(r) \/ CheckDelete(r) \/ CheckReplace(r)
           \/ WriteRefused(r) \/ PreflightFails(r) \/ Prune(r) \/ PruneFails(r)
           \/ Compensate(r) \/ CompensateFails(r) \/ Persist(r) \/ Settle(r)
  BY <1>2 DEF TakeClaim, ClaimBusy, Release, CheckCreate, CreateRefused, CheckDelete,
              CheckReplace, WriteRefused, PreflightFails, Prune, PruneFails, Compensate,
              CompensateFails, Persist, Settle, Stuck
<1>3. CASE Die(r)
  BY <1>0, <1>3, GoLocal DEF Die, store, Stuck
<1>4. CASE \/ NativeCreated(r) \/ NativeConflict(r) \/ NativeReplaced(r)
           \/ NativeDeleted(r) \/ NativeRejected(r) \/ NativeUnsure(r)
  <2>1. /\ UNCHANGED <<claim, call, pc>> /\ pc[r] = "legs" /\ nleg[r].stat = "none"
        /\ wleg'[r] = wleg[r] \/ wleg[r].at = "wait"
    BY <1>4, NativeSummary
  <2> QED
    BY <2>1 DEF Stuck, Doubtful
<1>5. CASE \/ MirrorRead(r) \/ MirrorPut(r) \/ MirrorPutMissing(r) \/ MirrorPutRejected(r)
           \/ MirrorPutUnsure(r) \/ MirrorLookupFails(r) \/ MirrorPost(r)
           \/ MirrorPostConflict(r) \/ MirrorPostFails(r) \/ RecoverRefused(r)
           \/ WorkosDeleted(r) \/ WorkosDeleteFails(r)
  BY <1>5, MirrorSummary DEF Stuck
<1>6. CASE RecoverClaim(r) \/ RecoverRecord(r) \/ RecoverRecordFails(r) \/ RecoverUnclaim(r)
  <2>1. pc[r] = "legs" /\ wleg[r].at \in Cleanup
    BY <1>0, <1>6 DEF RecoverClaim, RecoverRecord, RecoverRecordFails, RecoverUnclaim, At, Cleanup
  <2> QED
    BY <2>1 DEF ReplaceRecovers, Stuck, Cleanup
<1>7. CASE FinishReplace(r)
  BY <1>0, <1>7, GoLocal DEF FinishReplace, Stuck
<1>8. CASE FinishDelete(r) \/ CreateFailed(r) \/ CreateLanded(r)
  <2>1. claim' = claim
    BY <1>8 DEF FinishDelete, CreateFailed, CreateLanded, store
  <2>2. /\ pc[r] = "legs" /\ call[r].op \in {"create", "delete"}
        /\ FinishDelete(r) <=> call[r].op = "delete"
    BY <1>8 DEF FinishDelete, CreateFailed, CreateLanded, LegsDone, InLegs
  <2>3. \/ nleg[r].stat \in Doubtful /\ nleg[r].id = None
        \/ wleg[r].stat \in Doubtful
    BY <2>2 DEF Stuck
  <2>4. Go(r, "done")
    <3>1. CASE FinishDelete(r)
      BY <2>3, <3>1 DEF FinishDelete, CanRelease, NativeSettled, WorkosSettled, Doubtful
    <3>2. CASE CreateFailed(r)
      BY <2>3, <3>2 DEF CreateFailed, NativeRefusedCreate, WorkosUntouched, Doubtful
    <3>3. CASE CreateLanded(r)
      BY <2>3, <3>3 DEF CreateLanded, Compensable, NativeRefusedCreate, Doubtful
    <3> QED
      BY <1>8, <3>1, <3>2, <3>3
  <2>5. pc'[r] = "done"
    BY <1>0, <2>4, GoLocal
  <2> QED
    BY <2>1, <2>5 DEF Stuck
<1> QED
  BY <1>1, <1>2, <1>3, <1>4, <1>5, <1>6, <1>7, <1>8 DEF Step

LEMMA NextLate ==
    ASSUME Sound, ClaimHeld, ReplaceRecovers, LateHeld, [Next]_vars
    PROVE  LateHeld'
<1>1. CASE LateWrite \/ UNCHANGED vars
  <2>1. late' \subseteq late /\ UNCHANGED <<claim, local>>
    BY <1>1 DEF LateWrite, vars, upstream, store
  <2> QED
    BY <2>1 DEF LateHeld, Claimed, Stuck, local
<1>2. ASSUME NEW r \in Request, Step(r)
      PROVE  LateHeld'
  <2>1. ASSUME NEW w \in late', Claimed(w)
        PROVE  claim' = w.by /\ Stuck(w.by)'
    <3>1. CASE w \notin late
      BY <1>2, <2>1, <3>1, NewLate
    <3>2. CASE w \in late
      <4>1. w.by \in Request
        BY <3>2 DEF Sound, TypeOK, UpstreamOK, Write
      <4>2. claim = w.by /\ Stuck(w.by)
        BY <2>1, <3>2 DEF LateHeld
      <4>3. CASE w.by = r
        BY <1>2, <4>2, <4>3, StuckStays
      <4>4. CASE w.by # r
        <5>1. claim' = claim /\ OthersUnmoved(r)
          BY <1>2, <4>1, <4>2, <4>4, StepHolds, IdFacts
        <5> QED
          BY <4>1, <4>2, <4>4, <5>1 DEF OthersUnmoved, Stuck
      <4> QED
        BY <4>3, <4>4
    <3> QED
      BY <3>1, <3>2
  <2>2. \A w : Claimed(w)' <=> Claimed(w)
    BY DEF Claimed
  <2> QED
    BY <2>1, <2>2 DEF LateHeld
<1> QED
  BY <1>1, <1>2 DEF Next

-----------------------------------------------------------------------------
(* The theorems. *)

LEMMA InitClaimInv == Init => ClaimInv
<1> SUFFICES ASSUME Init PROVE ClaimInv
  OBVIOUS
<1>1. Sound
  BY InitTyped, InitShapes, InitKeyKnown DEF Sound
<1>2. ClaimHeld /\ ReplaceRecovers /\ LateHeld
  <2>1. NoCall.op = "none"
    BY DEF NoCall
  <2> QED
    BY <2>1 DEF Init, ClaimHeld, Owns, ReplaceRecovers, LateHeld
<1> QED
  BY <1>1, <1>2 DEF ClaimInv

LEMMA NextClaimInv == ClaimInv /\ [Next]_vars => ClaimInv'
BY NextTyped, NextShapes, NextKeyKnown, NextHolds, NextLate DEF ClaimInv, Sound

(* id_mappings changes only under the claim of the request that changes it   *)
(* (index.ts workosPrimaryWrite and workosPrimaryCreate, scim.ts             *)
(* recoverMappedResource), so what a holder read there stays true.           *)
LEMMA MappingMover ==
    ASSUME ClaimInv, NEW r \in Request, Step(r), mapping' # mapping
    PROVE  /\ RecoverRecord(r) \/ RecoverRecordFails(r) \/ Prune(r) \/ PruneFails(r) \/ Persist(r)
           /\ Owns(r) /\ claim = r /\ claim' = claim
<1>1. RecoverRecord(r) \/ RecoverRecordFails(r) \/ Prune(r) \/ PruneFails(r) \/ Persist(r)
  <2>1. CASE \/ ReceiveCreate(r) \/ ReceiveDelete(r) \/ ReceiveReplace(r)
    BY <2>1, ReceiveSummary DEF ClaimInv
  <2>2. CASE \/ NativeCreated(r) \/ NativeConflict(r) \/ NativeReplaced(r)
             \/ NativeDeleted(r) \/ NativeRejected(r) \/ NativeUnsure(r)
    BY <2>2, NativeSummary DEF ClaimInv
  <2>3. CASE \/ MirrorRead(r) \/ MirrorPut(r) \/ MirrorPutMissing(r) \/ MirrorPutRejected(r)
             \/ MirrorPutUnsure(r) \/ MirrorLookupFails(r) \/ MirrorPost(r)
             \/ MirrorPostConflict(r) \/ MirrorPostFails(r) \/ RecoverRefused(r)
             \/ WorkosDeleted(r) \/ WorkosDeleteFails(r)
    BY <2>3, MirrorSummary DEF ClaimInv
  <2>4. CASE \/ TakeClaim(r) \/ ClaimBusy(r) \/ Release(r) \/ Die(r) \/ CheckCreate(r)
             \/ CreateRefused(r) \/ CheckDelete(r) \/ CheckReplace(r) \/ WriteRefused(r)
             \/ PreflightFails(r) \/ RecoverClaim(r) \/ RecoverUnclaim(r) \/ FinishReplace(r)
             \/ FinishDelete(r) \/ CreateFailed(r) \/ CreateLanded(r) \/ Compensate(r)
             \/ CompensateFails(r) \/ Settle(r)
    BY <2>4 DEF TakeClaim, ClaimBusy, Release, Die, CheckCreate, CreateRefused, CheckDelete,
                CheckReplace, WriteRefused, PreflightFails, RecoverClaim, RecoverUnclaim,
                FinishReplace, FinishDelete, CreateFailed, CreateLanded, Compensate,
                CompensateFails, Settle, StartLegs, store
  <2> QED
    BY <2>1, <2>2, <2>3, <2>4 DEF Step
<1>2. Owns(r)
  <2>1. CASE RecoverRecord(r) \/ RecoverRecordFails(r)
    BY <2>1 DEF RecoverRecord, RecoverRecordFails, At, ClaimInv, ReplaceRecovers, Owns,
                Cleanup, Recovery
  <2>2. CASE Prune(r) \/ PruneFails(r) \/ Persist(r)
    BY <2>2 DEF Prune, PruneFails, Persist, ClaimInv, Sound, Shapes, Shape, Owns
  <2> QED
    BY <1>1, <2>1, <2>2
<1>3. claim' = claim
  BY <1>1 DEF RecoverRecord, RecoverRecordFails, Prune, PruneFails, Persist
<1> QED
  BY <1>1, <1>2, <1>3 DEF ClaimInv, ClaimHeld

LEMMA MappingStep ==
    ASSUME ClaimInv, [Next]_vars, mapping' # mapping
    PROVE  claim # None /\ claim' = claim
<1>1. PICK r \in Request : Step(r)
  BY DEF Next, LateWrite, vars, store
<1> QED
  BY <1>1, MappingMover, IdFacts

(* Every change of id_mappings is made under a claim that the change does    *)
(* not give up.                                                              *)
THEOREM ClaimSerialises == Spec => MappingMovesUnderClaim
<1>1. ClaimInv /\ [Next]_vars => [mapping' # mapping => claim # None /\ claim' = claim]_vars
  BY MappingStep
<1> QED
  BY <1>1, InitClaimInv, NextClaimInv, PTL DEF Spec, MappingMovesUnderClaim

(* A create, a delete or a recovery one of whose writes may still be applied *)
(* keeps the claim: its handler has no way left to give it back (index.ts    *)
(* releaseClaim, scim.ts recoverMappedResource).                             *)
THEOREM UnresolvedWritesAreClaimed == Spec => []UnresolvedWriteKeepsClaim
<1>1. ClaimInv => UnresolvedWriteKeepsClaim
  BY DEF ClaimInv, LateHeld, Claimed, UnresolvedWriteKeepsClaim
<1> QED
  BY <1>1, InitClaimInv, NextClaimInv, PTL DEF Spec

(* Two requests are never both between their preflight and their release,    *)
(* recovery of a mapped row included, whatever they overlap with.            *)
THEOREM OneOwner == Spec => [](\A r, s \in Request : Owns(r) /\ Owns(s) => r = s)
<1>1. ClaimInv => \A r, s \in Request : Owns(r) /\ Owns(s) => r = s
  BY DEF ClaimInv, ClaimHeld
<1> QED
  BY <1>1, InitClaimInv, NextClaimInv, PTL DEF Spec

-----------------------------------------------------------------------------
(***************************************************************************)
(* Why a directory leaves a neighbour's native row alone, however many     *)
(* requests overlap and whatever they time out on: no handler ever comes   *)
(* to hold a foreign id.  A create takes native's fresh id or adopts a row *)
(* that is mapped, a replace or a delete gets past its preflight only for  *)
(* a mapped row, and no foreign row is ever mapped.                        *)
(***************************************************************************)

(* A handler that may write to, or map, a native row does not hold this one. *)
Apart(f, r) ==
    /\ nleg[r].id # f
    /\ call[r].op \in {"replace", "delete"} /\ pc[r] \in {"legs", "prune"} => call[r].id # f
    /\ call[r].op = "replace" /\ pc[r] = "legs" => wleg[r].key # f

Untouched(f) == mapping[f] = None /\ native[f] # None
NoLateDelete(f) == \A w \in late : w.side = "native" /\ w.verb = "delete" => w.id # f

NeighbourInv ==
    \A f \in Foreign : /\ Untouched(f) /\ NoLateDelete(f)
                       /\ \A r \in Request : Apart(f, r)

(* A leg of WorkOS keeps its key once it has one. *)
KeysKept == \A s \in Request : wleg'[s].key = wleg[s].key

LEMMA LegKeepsKey ==
    ASSUME LocalOK, NEW r \in Request,
           \/ \E at : Goto(r, at)
           \/ \E w, fresh : Mirrored(r, w, fresh)
           \/ \E stat : MirrorFailed(r, stat)
    PROVE  KeysKept
<1>1. wleg[r] \in WorkosLeg
  BY DEF LocalOK
<1>2. ASSUME NEW leg, wleg' = [wleg EXCEPT ![r] = leg], leg.key = wleg[r].key
      PROVE  KeysKept
  BY <1>2 DEF KeysKept, LocalOK
<1>3. CASE \E at : Goto(r, at)
  <2>1. PICK at : Goto(r, at)
    BY <1>3
  <2>2. [wleg[r] EXCEPT !.at = at].key = wleg[r].key
    BY <1>1 DEF WorkosLeg
  <2> QED
    BY <1>2, <2>1, <2>2 DEF Goto
<1>4. CASE \E w, fresh : Mirrored(r, w, fresh)
  <2>1. PICK w, fresh : Mirrored(r, w, fresh)
    BY <1>4
  <2> DEFINE at == IF Recovering(r) THEN "record" ELSE "done"
  <2> DEFINE leg == [wleg[r] EXCEPT !.sink = w, !.created = fresh, !.stat = "ok", !.at = at]
  <2>2. leg.key = wleg[r].key
    <3> HIDE DEF at
    <3> QED
      BY <1>1 DEF WorkosLeg
  <2>3. wleg' = [wleg EXCEPT ![r] = leg]
    BY <2>1 DEF Mirrored
  <2> HIDE DEF leg
  <2> QED
    BY <1>2, <2>2, <2>3
<1>5. CASE \E stat : MirrorFailed(r, stat)
  <2>1. PICK stat : MirrorFailed(r, stat)
    BY <1>5
  <2> DEFINE at == IF Recovering(r) /\ stat # "unsure" THEN "unclaim" ELSE "done"
  <2> DEFINE leg == [wleg[r] EXCEPT !.stat = stat, !.at = at]
  <2>2. leg.key = wleg[r].key
    <3> HIDE DEF at
    <3> QED
      BY <1>1 DEF WorkosLeg
  <2>3. wleg' = [wleg EXCEPT ![r] = leg]
    BY <2>1 DEF MirrorFailed
  <2> HIDE DEF leg
  <2> QED
    BY <1>2, <2>2, <2>3
<1> QED
  BY <1>3, <1>4, <1>5

(* What the end of a native leg may name: no foreign row.                    *)
LEMMA NativeNames ==
    ASSUME TypeOK, Shapes, NEW r \in Request, NEW f \in Foreign, Untouched(f), Apart(f, r),
           \/ NativeCreated(r) \/ NativeConflict(r) \/ NativeReplaced(r)
           \/ NativeDeleted(r) \/ NativeRejected(r) \/ NativeUnsure(r)
    PROVE  /\ \E stat, i : i # f /\ NativeDone(r, stat, i)
           /\ native'[f] # None
<1>0. f \in Id /\ f # None /\ Shared
  BY IdFacts, IdAssumption DEF Shared
<1>1. CASE NativeCreated(r)
  <2>1. PICK n \in Mintable : /\ native' = [native EXCEPT ![n] = call[r].person]
                              /\ NativeDone(r, "ok", n)
    BY <1>1 DEF NativeCreated
  <2>2. n # f
    BY <2>1 DEF Mintable, Untouched
  <2> QED
    BY <1>0, <2>1, <2>2 DEF TypeOK, UpstreamOK, Untouched
<1>2. CASE NativeConflict(r)
  BY <1>0, <1>2 DEF NativeConflict, Adoptable, Untouched, upstream
<1>3. CASE NativeReplaced(r) \/ NativeRejected(r)
  BY <1>0, <1>3 DEF NativeReplaced, NativeRejected, Untouched, upstream
<1>4. CASE NativeDeleted(r)
  <2>1. call[r].id # f
    BY <1>4 DEF NativeDeleted, CanTake, InLegs, Apart
  <2> QED
    BY <1>0, <1>4, <2>1 DEF NativeDeleted, TypeOK, UpstreamOK, Untouched
<1>5. CASE NativeUnsure(r)
  BY <1>0, <1>5 DEF NativeUnsure, Untouched
<1> QED
  BY <1>1, <1>2, <1>3, <1>4, <1>5

LEMMA NativeApart ==
    ASSUME LocalOK, NEW r \in Request, NEW f, Apart(f, r), NEW stat, NEW i,
           i # f, NativeDone(r, stat, i)
    PROVE  Apart(f, r)'
<1>1. UNCHANGED <<call, pc>> /\ nleg'[r].id = i
  BY NativeLocal
<1>2. wleg'[r].key \in {wleg[r].key, i}
  <2>1. wleg[r] \in WorkosLeg
    BY DEF LocalOK
  <2>2. /\ [wleg[r] EXCEPT !.at = "read", !.key = i].key = i
        /\ [wleg[r] EXCEPT !.at = "done"].key = wleg[r].key
    BY <2>1 DEF WorkosLeg
  <2> QED
    BY <2>2 DEF NativeDone, LocalOK
<1> QED
  BY <1>1, <1>2 DEF Apart

LEMMA GoApart ==
    ASSUME LocalOK, NEW r \in Request, NEW f \in Foreign, Apart(f, r), NEW next, Go(r, next),
           next # "legs", next = "prune" => pc[r] = "legs"
    PROVE  Apart(f, r)'
<1>1. NoCall.op = "none" /\ NoNativeLeg.id = None /\ f # None
  BY IdFacts, IdAssumption DEF NoCall, NoNativeLeg
<1>2. CASE next \in {"done", "dead"}
  <2>1. call'[r] = NoCall /\ nleg'[r] = NoNativeLeg
    BY <1>2 DEF Go, LocalOK
  <2> QED
    BY <1>1, <2>1 DEF Apart
<1>3. CASE next \notin {"done", "dead"}
  BY <1>3, GoLocal DEF Apart
<1> QED
  BY <1>2, <1>3

(* A request that starts its legs has a mapped row, or is a create.           *)
LEMMA CheckApart ==
    ASSUME LocalOK, NEW r \in Request, NEW f, Untouched(f), Apart(f, r),
           CheckCreate(r) \/ CheckDelete(r) \/ CheckReplace(r)
    PROVE  Apart(f, r)'
<1>1. ASSUME NEW at, NEW key, NEW to, NEW owner, StartLegs(r, at, key, to, owner)
      PROVE  call' = call /\ nleg' = nleg /\ wleg'[r].key = key
  <2> DEFINE leg == [key |-> key, stat |-> "none", at |-> at, to |-> to,
                     owner |-> owner, sink |-> None, created |-> FALSE]
  <2>1. leg.key = key /\ wleg' = [wleg EXCEPT ![r] = leg]
    BY <1>1 DEF StartLegs
  <2> HIDE DEF leg
  <2> QED
    BY <1>1, <2>1 DEF StartLegs, LocalOK
<1>2. CASE CheckCreate(r)
  <2>1. call' = call /\ nleg' = nleg /\ call[r].op = "create"
    BY <1>1, <1>2 DEF CheckCreate
  <2> QED
    BY <2>1 DEF Apart
<1>3. CASE CheckDelete(r)
  <2>1. call[r].id # f /\ call[r].op = "delete"
    BY <1>3 DEF CheckDelete, Untouched
  <2>2. call' = call /\ nleg' = nleg
    BY <1>1, <1>3 DEF CheckDelete
  <2> QED
    BY <2>1, <2>2 DEF Apart
<1>4. CASE CheckReplace(r)
  <2>1. call[r].id # f
    BY <1>4 DEF CheckReplace, Untouched
  <2>2. call' = call /\ nleg' = nleg /\ wleg'[r].key = call[r].id
    BY <1>1, <1>4 DEF CheckReplace
  <2> QED
    BY <2>1, <2>2 DEF Apart
<1> QED
  BY <1>2, <1>3, <1>4

(* Every step of a WorkOS leg is one of these three.                         *)
LEMMA LegMoves ==
    ASSUME NEW r \in Request,
           \/ MirrorPut(r) \/ MirrorPutMissing(r) \/ MirrorPutRejected(r)
           \/ MirrorPutUnsure(r) \/ MirrorLookupFails(r) \/ MirrorPost(r)
           \/ MirrorPostConflict(r) \/ MirrorPostFails(r) \/ RecoverClaim(r)
           \/ RecoverRefused(r) \/ RecoverRecord(r) \/ RecoverUnclaim(r)
           \/ WorkosDeleteFails(r)
    PROVE  \/ \E at : Goto(r, at)
           \/ \E w, fresh : Mirrored(r, w, fresh)
           \/ \E stat : MirrorFailed(r, stat)
BY DEF MirrorPut, MirrorPutMissing, MirrorPutRejected, MirrorPutUnsure, MirrorLookupFails,
       MirrorPost, MirrorPostConflict, MirrorPostFails, RecoverClaim, RecoverRefused,
       RecoverRecord, RecoverUnclaim, WorkosDeleteFails

(* What a step of a request does to a foreign row. *)
LEMMA StepApart ==
    ASSUME ClaimInv, NEW r \in Request, Step(r), NEW f \in Foreign,
           Untouched(f), NoLateDelete(f), Apart(f, r)
    PROVE  Untouched(f)' /\ NoLateDelete(f)' /\ Apart(f, r)'
<1>0. /\ TypeOK /\ LocalOK /\ Sound /\ Shapes /\ mapping \in [Id -> Id \cup {None}]
      /\ f \in Id /\ f # None
  BY IdFacts, IdAssumption DEF ClaimInv, Sound, TypeOK, StoreOK
<1>a. native' = native => native'[f] # None
  BY DEF Untouched
<1>b. mapping' = mapping => mapping'[f] = None
  BY DEF Untouched
<1>c. late' = late => NoLateDelete(f)'
  BY DEF NoLateDelete
<1>d. ASSUME NEW side, NEW verb, NEW i, NEW p, Unanswered(r, side, verb, i, p),
             side = "native" /\ verb = "delete" => i # f
      PROVE  NoLateDelete(f)'
  <2> DEFINE u == IF claim = r THEN r ELSE None
  <2> DEFINE new == [id |-> i, side |-> side, verb |-> verb, person |-> p, by |-> r, under |-> u]
  <2>1. late' = late \cup {new}
    BY <1>d DEF Unanswered
  <2>2. new.side = "native" /\ new.verb = "delete" => new.id # f
    <3> HIDE DEF u
    <3> QED
      BY <1>d
  <2> HIDE DEF new
  <2> QED
    BY <2>1, <2>2 DEF NoLateDelete
<1>1. CASE ReceiveCreate(r) \/ ReceiveDelete(r) \/ ReceiveReplace(r)
  <2>1. pc'[r] \notin {"legs", "prune"} /\ UNCHANGED <<mapping, native, late, nleg>>
    BY <1>0, <1>1 DEF ReceiveCreate, ReceiveDelete, ReceiveReplace, Receive, LocalOK, store, upstream
  <2> QED
    BY <1>a, <1>b, <1>c, <2>1 DEF Untouched, Apart
<1>2. CASE TakeClaim(r)
  BY <1>0, <1>2, <1>a, <1>b, <1>c DEF TakeClaim, LocalOK, upstream, Untouched, Apart
<1>3. CASE CheckCreate(r) \/ CheckDelete(r) \/ CheckReplace(r)
  <2>1. UNCHANGED <<mapping, native, late>>
    BY <1>3 DEF CheckCreate, CheckDelete, CheckReplace, StartLegs, store, upstream
  <2> QED
    BY <1>0, <1>3, <1>a, <1>b, <1>c, <2>1, CheckApart DEF Untouched
<1>4. CASE \/ ClaimBusy(r) \/ Release(r) \/ Die(r) \/ CreateRefused(r) \/ WriteRefused(r)
           \/ PreflightFails(r) \/ FinishReplace(r) \/ FinishDelete(r) \/ Prune(r)
           \/ PruneFails(r) \/ CreateFailed(r) \/ CreateLanded(r) \/ Compensate(r)
           \/ CompensateFails(r) \/ Persist(r) \/ Settle(r)
  <2>1. Apart(f, r)'
    <3>1. PICK next \in {"release", "prune", "compensate", "persist", "settle", "done", "dead"} :
             Go(r, next)
      BY <1>4, GoSummary
    <3>2. next = "prune" => pc[r] = "legs"
      <4>1. CASE FinishDelete(r)
        BY <4>1 DEF FinishDelete, LegsDone, InLegs
      <4>2. CASE ~FinishDelete(r)
        <5>1. \E other \in {"release", "compensate", "persist", "settle", "done", "dead"} :
                 Go(r, other)
          BY <1>4, <4>2 DEF ClaimBusy, Release, Die, CreateRefused, WriteRefused,
             PreflightFails, FinishReplace, Prune, PruneFails, CreateFailed, CreateLanded,
             Compensate, CompensateFails, Persist, Settle
        <5>2. pc'[r] # "prune"
          BY <1>0, <5>1, GoLocal
        <5> QED
          BY <1>0, <3>1, <5>2, GoLocal
      <4> QED
        BY <4>1, <4>2
    <3> QED
      BY <1>0, <3>1, <3>2, GoApart
  <2>2. native'[f] # None
    BY <1>4, <1>a DEF ClaimBusy, Release, Die, CreateRefused, WriteRefused, PreflightFails,
       FinishReplace, FinishDelete, Prune, PruneFails, CreateFailed, CreateLanded, Compensate,
       CompensateFails, Persist, Settle, upstream
  <2>3. mapping'[f] = None
    <3>1. CASE Prune(r) \/ PruneFails(r)
      BY <1>0, <1>b, <3>1 DEF Prune, PruneFails, Untouched
    <3>2. CASE Persist(r)
      BY <1>0, <3>2 DEF Persist, Apart, Untouched
    <3>3. CASE ~(Prune(r) \/ PruneFails(r) \/ Persist(r))
      BY <1>4, <1>b, <3>3 DEF ClaimBusy, Release, Die, CreateRefused, WriteRefused,
         PreflightFails, FinishReplace, FinishDelete, CreateFailed, CreateLanded, Compensate,
         CompensateFails, Settle, store
    <3> QED
      BY <3>1, <3>2, <3>3
  <2>4. NoLateDelete(f)'
    <3>1. CASE CompensateFails(r)
      BY <1>c, <1>d, <3>1 DEF CompensateFails
    <3>2. CASE ~CompensateFails(r)
      BY <1>4, <1>c, <3>2 DEF ClaimBusy, Release, Die, CreateRefused, WriteRefused,
         PreflightFails, FinishReplace, FinishDelete, Prune, PruneFails, CreateFailed,
         CreateLanded, Compensate, Persist, Settle, upstream
    <3> QED
      BY <3>1, <3>2
  <2> QED
    BY <2>1, <2>2, <2>3, <2>4 DEF Untouched
<1>5. CASE \/ NativeCreated(r) \/ NativeConflict(r) \/ NativeReplaced(r)
           \/ NativeDeleted(r) \/ NativeRejected(r) \/ NativeUnsure(r)
  <2>1. mapping' = mapping
    BY <1>0, <1>5, NativeSummary
  <2>2. Apart(f, r)' /\ native'[f] # None
    BY <1>0, <1>5, NativeNames, NativeApart
  <2>3. NoLateDelete(f)'
    <3>1. CASE NativeUnsure(r)
      <4>1. call[r].op \in {"create", "delete", "replace"}
        BY <1>0, <3>1 DEF NativeUnsure, Shapes, Shape
      <4>2. CASE call[r].op = "delete"
        <5>1. call[r].id # f
          BY <3>1, <4>2 DEF NativeUnsure, Apart
        <5> QED
          BY <1>d, <3>1, <4>2, <5>1 DEF NativeUnsure
      <4>3. CASE call[r].op = "create"
        BY <1>d, <3>1, <4>3 DEF NativeUnsure
      <4> QED
        BY <1>c, <3>1, <4>1, <4>2, <4>3 DEF NativeUnsure
    <3>2. CASE ~NativeUnsure(r)
      BY <1>5, <1>c, <3>2 DEF NativeCreated, NativeConflict, NativeReplaced, NativeDeleted,
         NativeRejected, upstream
    <3> QED
      BY <3>1, <3>2
  <2> QED
    BY <1>b, <2>1, <2>2, <2>3 DEF Untouched
<1>6. CASE \/ MirrorRead(r) \/ MirrorPut(r) \/ MirrorPutMissing(r) \/ MirrorPutRejected(r)
           \/ MirrorPutUnsure(r) \/ MirrorLookupFails(r) \/ MirrorPost(r)
           \/ MirrorPostConflict(r) \/ MirrorPostFails(r) \/ RecoverClaim(r)
           \/ RecoverRefused(r) \/ RecoverRecord(r) \/ RecoverRecordFails(r)
           \/ RecoverUnclaim(r) \/ WorkosDeleted(r) \/ WorkosDeleteFails(r)
  <2>1. UNCHANGED <<native, call, pc, nleg>>
    BY <1>6 DEF MirrorRead, MirrorPut, MirrorPutMissing, MirrorPutRejected, MirrorPutUnsure,
       MirrorLookupFails, MirrorPost, MirrorPostConflict, MirrorPostFails, RecoverClaim,
       RecoverRefused, RecoverRecord, RecoverRecordFails, RecoverUnclaim, WorkosDeleted,
       WorkosDeleteFails, Elsewhere, upstream
  <2>2. wleg'[r].key = wleg[r].key
    <3>0. wleg[r] \in WorkosLeg
      BY <1>0 DEF LocalOK
    <3>1. CASE MirrorRead(r)
      <4> DEFINE to == IF mapping[wleg[r].key] # None THEN mapping[wleg[r].key] ELSE wleg[r].key
      <4>1. CASE MirrorReadFails(r, to)
        BY <1>0, <4>1, LegKeepsKey DEF MirrorReadFails, KeysKept
      <4>2. CASE wleg' = [wleg EXCEPT ![r] = [wleg[r] EXCEPT !.at = "put", !.to = to]]
        <5>1. [wleg[r] EXCEPT !.at = "put", !.to = to].key = wleg[r].key
          <6> HIDE DEF to
          <6> QED
            BY <3>0 DEF WorkosLeg
        <5> QED
          BY <1>0, <4>2, <5>1 DEF LocalOK
      <4> QED
        BY <3>1, <4>1, <4>2 DEF MirrorRead
    <3>2. CASE RecoverRecordFails(r)
      <4>1. [wleg[r] EXCEPT !.stat = "unsure", !.at = "done"].key = wleg[r].key
        BY <3>0 DEF WorkosLeg
      <4> QED
        BY <1>0, <3>2, <4>1 DEF RecoverRecordFails, LocalOK
    <3>3. CASE WorkosDeleted(r)
      <4> DEFINE stat == IF workos[wleg[r].to] = None THEN "gone" ELSE "ok"
      <4> DEFINE leg == [wleg[r] EXCEPT !.at = "done", !.stat = stat]
      <4>1. leg.key = wleg[r].key
        <5> HIDE DEF stat
        <5> QED
          BY <3>0 DEF WorkosLeg
      <4>2. wleg' = [wleg EXCEPT ![r] = leg]
        BY <3>3 DEF WorkosDeleted
      <4> HIDE DEF leg
      <4> QED
        BY <1>0, <4>1, <4>2 DEF LocalOK
    <3>4. CASE ~(MirrorRead(r) \/ RecoverRecordFails(r) \/ WorkosDeleted(r))
      BY <1>0, <1>6, <3>4, LegMoves, LegKeepsKey DEF KeysKept
    <3> QED
      BY <3>1, <3>2, <3>3, <3>4
  <2>3. mapping'[f] = None
    <3>1. CASE RecoverRecord(r) \/ RecoverRecordFails(r)
      <4>1. wleg[r].key # f
        BY <3>1 DEF RecoverRecord, RecoverRecordFails, At, ClaimInv, ReplaceRecovers, Cleanup,
           Apart
      <4> QED
        BY <1>0, <1>b, <3>1, <4>1 DEF RecoverRecord, RecoverRecordFails, Untouched
    <3>2. CASE ~(RecoverRecord(r) \/ RecoverRecordFails(r))
      BY <1>6, <1>b, <3>2 DEF MirrorRead, MirrorPut, MirrorPutMissing, MirrorPutRejected,
         MirrorPutUnsure, MirrorLookupFails, MirrorPost, MirrorPostConflict, MirrorPostFails,
         RecoverClaim, RecoverRefused, RecoverUnclaim, WorkosDeleted, WorkosDeleteFails, Elsewhere
    <3> QED
      BY <3>1, <3>2
  <2>4. NoLateDelete(f)'
    <3>1. CASE MirrorPutUnsure(r) \/ MirrorPostFails(r) \/ WorkosDeleteFails(r)
      BY <1>c, <1>d, <3>1 DEF MirrorPutUnsure, MirrorPostFails, WorkosDeleteFails
    <3>2. CASE ~(MirrorPutUnsure(r) \/ MirrorPostFails(r) \/ WorkosDeleteFails(r))
      BY <1>6, <1>c, <3>2 DEF MirrorRead, MirrorPut, MirrorPutMissing, MirrorPutRejected,
         MirrorLookupFails, MirrorPost, MirrorPostConflict, RecoverClaim, RecoverRefused,
         RecoverRecord, RecoverRecordFails, RecoverUnclaim, WorkosDeleted, upstream
    <3> QED
      BY <3>1, <3>2
  <2> QED
    BY <1>a, <2>1, <2>2, <2>3, <2>4 DEF Untouched, Apart
<1> QED
  BY <1>1, <1>2, <1>3, <1>4, <1>5, <1>6 DEF Step

(* A late native write: a delete names no foreign row, a post takes a free id. *)
LEMMA LateApart ==
    ASSUME TypeOK, LateWrite, NEW f \in Foreign, Untouched(f), NoLateDelete(f)
    PROVE  Untouched(f)' /\ NoLateDelete(f)'
<1>1. late' \subseteq late /\ mapping' = mapping /\ f \in Id
  BY IdFacts, IdAssumption DEF LateWrite, store
<1>2. native'[f] # None
  <2>1. PICK w \in late : ApplyNative(w) \/ ApplyWorkos(w)
    BY DEF LateWrite
  <2>2. CASE ApplyWorkos(w)
    BY <2>2 DEF ApplyWorkos, Untouched
  <2>3. CASE ApplyNative(w) /\ w.verb = "delete"
    BY <1>1, <2>3 DEF ApplyNative, NoLateDelete, Untouched, TypeOK, UpstreamOK
  <2>4. CASE ApplyNative(w) /\ w.verb # "delete"
    <3>1. PICK n \in Mintable : native' = [native EXCEPT ![n] = w.person]
      BY <2>4 DEF ApplyNative
    <3>2. n # f
      BY DEF Mintable, Untouched
    <3> QED
      BY <1>1, <3>1, <3>2 DEF Untouched, TypeOK, UpstreamOK
  <2> QED
    BY <2>1, <2>2, <2>3, <2>4
<1> QED
  BY <1>1, <1>2 DEF Untouched, NoLateDelete

LEMMA NextNeighbour == ClaimInv /\ NeighbourInv /\ [Next]_vars => NeighbourInv'
<1> SUFFICES ASSUME ClaimInv, NeighbourInv, [Next]_vars PROVE NeighbourInv'
  OBVIOUS
<1> SUFFICES ASSUME NEW f \in Foreign
             PROVE  /\ Untouched(f)' /\ NoLateDelete(f)'
                    /\ \A s \in Request : Apart(f, s)'
  BY DEF NeighbourInv
<1>1. Untouched(f) /\ NoLateDelete(f) /\ \A s \in Request : Apart(f, s)
  BY DEF NeighbourInv
<1>2. CASE LateWrite
  <2>1. \A s \in Request : Apart(f, s)'
    BY <1>1, <1>2 DEF LateWrite, local, Apart
  <2> QED
    BY <1>1, <1>2, <2>1, LateApart DEF ClaimInv, Sound
<1>3. CASE UNCHANGED vars
  BY <1>1, <1>3 DEF vars, store, upstream, local, Untouched, NoLateDelete, Apart
<1>4. ASSUME NEW r \in Request, Step(r)
      PROVE  /\ Untouched(f)' /\ NoLateDelete(f)'
             /\ \A s \in Request : Apart(f, s)'
  <2>1. Untouched(f)' /\ NoLateDelete(f)' /\ Apart(f, r)'
    BY <1>1, <1>4, StepApart
  <2>2. ASSUME NEW s \in Request \ {r}
        PROVE  Apart(f, s)'
    <3>1. call'[s] = call[s] /\ pc'[s] = pc[s] /\ nleg'[s] = nleg[s] /\ wleg'[s] = wleg[s]
      BY <1>4, StepHolds DEF OthersUnmoved, ClaimInv
    <3> QED
      BY <1>1, <3>1 DEF Apart
  <2> QED
    BY <2>1, <2>2
<1> QED
  BY <1>2, <1>3, <1>4 DEF Next

LEMMA InitNeighbour == Init => NeighbourInv
<1> SUFFICES ASSUME Init, NEW f \in Foreign
             PROVE  /\ Untouched(f) /\ NoLateDelete(f)
                    /\ \A r \in Request : Apart(f, r)
  BY DEF NeighbourInv
<1>1. NoCall.op = "none" /\ NoNativeLeg.id = None /\ f # None /\ f \in Id
  BY IdFacts, IdAssumption DEF NoCall, NoNativeLeg
<1>2. mapping[f] \in Id \cup {None}
  BY <1>1 DEF Init, Inherited
<1>3. Untouched(f)
  BY <1>1, <1>2 DEF Init, Inherited, Untouched
<1> QED
  BY <1>1, <1>3 DEF Init, NoLateDelete, Apart

(* A native row of another directory is never mapped and never deleted, in a *)
(* deployment of any size: no 409 makes it adopted, no request gets past its *)
(* preflight with its id, and no write sent before a timeout can reach it    *)
(* (index.ts nativeCreate, workosPrimaryWrite).                              *)
THEOREM NeighboursAreLeftAlone == Spec => []NeighbourUntouched
<1>1. NeighbourInv => NeighbourUntouched
  BY DEF NeighbourInv, Untouched, NeighbourUntouched
<1>2. Init => ClaimInv /\ NeighbourInv
  BY InitClaimInv, InitNeighbour
<1>3. ClaimInv /\ NeighbourInv /\ [Next]_vars => (ClaimInv /\ NeighbourInv)'
  BY NextClaimInv, NextNeighbour
<1> QED
  BY <1>1, <1>2, <1>3, PTL DEF Spec

-----------------------------------------------------------------------------
(***************************************************************************)
(* What the claim is for: the rows of id_mappings lead where they should.  *)
(* The owner of the claim is the only one who may change a mapping, and    *)
(* while its outcome is still certain, none of its writes is in flight     *)
(* without an answer, so whatever another request or a late write does     *)
(* meanwhile is a PUT to a row that exists.  From that follow, for any     *)
(* number of overlapping requests, what a leg knows of its key and of the  *)
(* row it ended on, that no row is lost, and, where the writes of one      *)
(* resource come in order, that what WorkOS dropped and native kept is     *)
(* known.                                                                  *)
(***************************************************************************)

-----------------------------------------------------------------------------
(* The WorkOS leg after one update, field by field. *)

SameKey(r) == wleg'[r].key = wleg[r].key /\ wleg'[r].owner = wleg[r].owner
SameTo(r) == wleg'[r].to = wleg[r].to
SameEnd(r) == wleg'[r].sink = wleg[r].sink /\ wleg'[r].created = wleg[r].created

LEMMA GotoLeg ==
    ASSUME LocalOK, NEW r \in Request, NEW at, Goto(r, at)
    PROVE  /\ wleg'[r].at = at /\ wleg'[r].stat = wleg[r].stat
           /\ SameKey(r) /\ SameTo(r) /\ SameEnd(r)
<1>1. wleg[r] \in WorkosLeg
  BY DEF LocalOK
<1> DEFINE leg == [wleg[r] EXCEPT !.at = at]
<1>2. /\ leg.at = at /\ leg.stat = wleg[r].stat
      /\ leg.key = wleg[r].key /\ leg.to = wleg[r].to /\ leg.owner = wleg[r].owner
      /\ leg.sink = wleg[r].sink /\ leg.created = wleg[r].created
  BY <1>1 DEF WorkosLeg
<1>3. wleg' = [wleg EXCEPT ![r] = leg]
  BY DEF Goto, LocalOK
<1> HIDE DEF leg
<1>4. wleg'[r] = leg
  BY <1>3 DEF LocalOK
<1> QED
  BY <1>2, <1>4 DEF SameKey, SameTo, SameEnd

LEMMA MirroredLeg ==
    ASSUME LocalOK, NEW r \in Request, NEW w, NEW fresh, Mirrored(r, w, fresh)
    PROVE  /\ wleg'[r].at = IF Recovering(r) THEN "record" ELSE "done"
           /\ wleg'[r].stat = "ok" /\ wleg'[r].sink = w /\ wleg'[r].created = fresh
           /\ SameKey(r) /\ SameTo(r)
<1>1. wleg[r] \in WorkosLeg
  BY DEF LocalOK
<1> DEFINE at == IF Recovering(r) THEN "record" ELSE "done"
<1> DEFINE leg == [wleg[r] EXCEPT !.sink = w, !.created = fresh, !.stat = "ok", !.at = at]
<1>2. wleg' = [wleg EXCEPT ![r] = leg]
  BY DEF Mirrored, LocalOK
<1>3. /\ leg.at = at /\ leg.stat = "ok" /\ leg.sink = w /\ leg.created = fresh
      /\ leg.key = wleg[r].key /\ leg.to = wleg[r].to /\ leg.owner = wleg[r].owner
  <2> HIDE DEF at
  <2> QED
    BY <1>1 DEF WorkosLeg
<1>4. wleg'[r] = leg
  <2> HIDE DEF leg
  <2> QED
    BY <1>2 DEF LocalOK
<1> HIDE DEF leg
<1> QED
  BY <1>3, <1>4 DEF SameKey, SameTo

LEMMA MirrorFailedLeg ==
    ASSUME LocalOK, NEW r \in Request, NEW stat, MirrorFailed(r, stat)
    PROVE  /\ wleg'[r].at = IF Recovering(r) /\ stat # "unsure" THEN "unclaim" ELSE "done"
           /\ wleg'[r].stat = stat
           /\ SameKey(r) /\ SameTo(r) /\ SameEnd(r)
<1>1. wleg[r] \in WorkosLeg
  BY DEF LocalOK
<1> DEFINE at == IF Recovering(r) /\ stat # "unsure" THEN "unclaim" ELSE "done"
<1> DEFINE leg == [wleg[r] EXCEPT !.stat = stat, !.at = at]
<1>2. wleg' = [wleg EXCEPT ![r] = leg]
  BY DEF MirrorFailed, LocalOK
<1>3. /\ leg.at = at /\ leg.stat = stat
      /\ leg.key = wleg[r].key /\ leg.to = wleg[r].to /\ leg.owner = wleg[r].owner
      /\ leg.sink = wleg[r].sink /\ leg.created = wleg[r].created
  <2> HIDE DEF at
  <2> QED
    BY <1>1 DEF WorkosLeg
<1>4. wleg'[r] = leg
  <2> HIDE DEF leg
  <2> QED
    BY <1>2 DEF LocalOK
<1> HIDE DEF leg
<1> QED
  BY <1>3, <1>4 DEF SameKey, SameTo, SameEnd

LEMMA StartedLeg ==
    ASSUME LocalOK, NEW r \in Request, NEW at, NEW key, NEW to, NEW owner,
           StartLegs(r, at, key, to, owner)
    PROVE  /\ wleg'[r].at = at /\ wleg'[r].key = key /\ wleg'[r].to = to
           /\ wleg'[r].owner = owner /\ wleg'[r].stat = "none"
<1> DEFINE leg == [key |-> key, stat |-> "none", at |-> at, to |-> to,
                   owner |-> owner, sink |-> None, created |-> FALSE]
<1>1. /\ leg.at = at /\ leg.key = key /\ leg.to = to /\ leg.owner = owner /\ leg.stat = "none"
      /\ wleg' = [wleg EXCEPT ![r] = leg]
  BY DEF StartLegs
<1> HIDE DEF leg
<1> QED
  BY <1>1 DEF LocalOK

(* The native leg's end: the leg of WorkOS stays, starts under native's id,  *)
(* or is over without a write.                                               *)
LEMMA NativeLeftLeg ==
    ASSUME LocalOK, NEW r \in Request, NEW stat, NEW i, NativeDone(r, stat, i)
    PROVE  \/ wleg'[r] = wleg[r]
           \/ /\ wleg[r].at = "wait" /\ i # None /\ wleg[r].owner \in {None, i}
              /\ wleg'[r].at = "read" /\ wleg'[r].key = i /\ wleg'[r].stat = wleg[r].stat
              /\ wleg'[r].owner = wleg[r].owner
           \/ /\ wleg[r].at = "wait" /\ wleg'[r].at = "done" /\ wleg'[r].stat = wleg[r].stat
              /\ SameKey(r) /\ SameTo(r) /\ SameEnd(r)
<1>1. wleg[r] \in WorkosLeg
  BY DEF LocalOK
<1>2. CASE wleg[r].at # "wait"
  BY <1>2 DEF NativeDone, LocalOK
<1>3. CASE wleg[r].at = "wait" /\ i # None /\ wleg[r].owner \in {None, i}
  <2> DEFINE leg == [wleg[r] EXCEPT !.at = "read", !.key = i]
  <2>1. leg.at = "read" /\ leg.key = i /\ leg.stat = wleg[r].stat /\ leg.owner = wleg[r].owner
    BY <1>1 DEF WorkosLeg
  <2>2. wleg' = [wleg EXCEPT ![r] = leg]
    BY <1>3 DEF NativeDone, LocalOK
  <2> HIDE DEF leg
  <2>3. wleg'[r] = leg
    BY <2>2 DEF LocalOK
  <2> QED
    BY <1>3, <2>1, <2>3
<1>4. CASE wleg[r].at = "wait" /\ ~(i # None /\ wleg[r].owner \in {None, i})
  <2> DEFINE leg == [wleg[r] EXCEPT !.at = "done"]
  <2>1. /\ leg.at = "done" /\ leg.stat = wleg[r].stat
        /\ leg.key = wleg[r].key /\ leg.to = wleg[r].to /\ leg.owner = wleg[r].owner
        /\ leg.sink = wleg[r].sink /\ leg.created = wleg[r].created
    BY <1>1 DEF WorkosLeg
  <2>2. wleg' = [wleg EXCEPT ![r] = leg]
    BY <1>4 DEF NativeDone, LocalOK
  <2> HIDE DEF leg
  <2>3. wleg'[r] = leg
    BY <2>2 DEF LocalOK
  <2> QED
    BY <1>4, <2>1, <2>3 DEF SameKey, SameTo, SameEnd
<1> QED
  BY <1>2, <1>3, <1>4

-----------------------------------------------------------------------------
(* Who moves what. *)

LEMMA OwnersStill ==
    ASSUME mapping' = mapping
    PROVE  \A w : Owners(w)' = Owners(w)
BY DEF Owners

LEMMA NativeMover ==
    ASSUME NEW s \in Request, Step(s), native' # native
    PROVE  NativeCreated(s) \/ NativeDeleted(s)
<1>1. CASE \/ ReceiveCreate(s) \/ ReceiveDelete(s) \/ ReceiveReplace(s)
           \/ TakeClaim(s) \/ ClaimBusy(s) \/ Release(s) \/ Die(s)
           \/ CheckCreate(s) \/ CreateRefused(s) \/ CheckDelete(s) \/ CheckReplace(s)
           \/ WriteRefused(s) \/ PreflightFails(s)
  BY <1>1 DEF ReceiveCreate, ReceiveDelete, ReceiveReplace, Receive, TakeClaim, ClaimBusy,
              Release, Die, CheckCreate, CreateRefused, CheckDelete, CheckReplace,
              WriteRefused, PreflightFails, StartLegs, upstream
<1>2. CASE \/ NativeCreated(s) \/ NativeConflict(s) \/ NativeReplaced(s)
           \/ NativeDeleted(s) \/ NativeRejected(s) \/ NativeUnsure(s)
  BY <1>2 DEF NativeConflict, NativeReplaced, NativeRejected, NativeUnsure, upstream
<1>3. CASE \/ MirrorRead(s) \/ MirrorPut(s) \/ MirrorPutMissing(s) \/ MirrorPutRejected(s)
           \/ MirrorPutUnsure(s) \/ MirrorLookupFails(s) \/ MirrorPost(s)
           \/ MirrorPostConflict(s) \/ MirrorPostFails(s) \/ RecoverRefused(s)
           \/ WorkosDeleted(s) \/ WorkosDeleteFails(s)
  BY <1>3 DEF MirrorRead, MirrorPut, MirrorPutMissing, MirrorPutRejected, MirrorPutUnsure,
              MirrorLookupFails, MirrorPost, MirrorPostConflict, MirrorPostFails,
              RecoverRefused, WorkosDeleted, WorkosDeleteFails, Elsewhere
<1>4. CASE \/ RecoverClaim(s) \/ RecoverRecord(s) \/ RecoverRecordFails(s)
           \/ RecoverUnclaim(s) \/ FinishReplace(s) \/ FinishDelete(s) \/ Prune(s)
           \/ PruneFails(s) \/ CreateFailed(s) \/ CreateLanded(s) \/ Compensate(s)
           \/ CompensateFails(s) \/ Persist(s) \/ Settle(s)
  BY <1>4 DEF RecoverClaim, RecoverRecord, RecoverRecordFails, RecoverUnclaim, FinishReplace,
              FinishDelete, Prune, PruneFails, CreateFailed, CreateLanded, Compensate,
              CompensateFails, Persist, Settle, upstream
<1> QED
  BY <1>1, <1>2, <1>3, <1>4 DEF Step

LEMMA WorkosMover ==
    ASSUME NEW s \in Request, Step(s), workos' # workos \/ astray' # astray
    PROVE  MirrorPut(s) \/ MirrorPost(s) \/ WorkosDeleted(s) \/ Compensate(s)
<1>1. CASE \/ ReceiveCreate(s) \/ ReceiveDelete(s) \/ ReceiveReplace(s)
           \/ TakeClaim(s) \/ ClaimBusy(s) \/ Release(s) \/ Die(s)
           \/ CheckCreate(s) \/ CreateRefused(s) \/ CheckDelete(s) \/ CheckReplace(s)
           \/ WriteRefused(s) \/ PreflightFails(s)
  BY <1>1 DEF ReceiveCreate, ReceiveDelete, ReceiveReplace, Receive, TakeClaim, ClaimBusy,
              Release, Die, CheckCreate, CreateRefused, CheckDelete, CheckReplace,
              WriteRefused, PreflightFails, StartLegs, upstream, history
<1>2. CASE \/ NativeCreated(s) \/ NativeConflict(s) \/ NativeReplaced(s)
           \/ NativeDeleted(s) \/ NativeRejected(s) \/ NativeUnsure(s)
  BY <1>2 DEF NativeCreated, NativeConflict, NativeReplaced, NativeDeleted, NativeRejected,
              NativeUnsure, NativeDone, upstream, history
<1>3. CASE \/ MirrorRead(s) \/ MirrorPut(s) \/ MirrorPutMissing(s) \/ MirrorPutRejected(s)
           \/ MirrorPutUnsure(s) \/ MirrorLookupFails(s) \/ MirrorPost(s)
           \/ MirrorPostConflict(s) \/ MirrorPostFails(s) \/ RecoverRefused(s)
           \/ WorkosDeleted(s) \/ WorkosDeleteFails(s)
  BY <1>3 DEF MirrorRead, MirrorPutMissing, MirrorPutRejected, MirrorPutUnsure,
              MirrorLookupFails, MirrorPostConflict, MirrorPostFails,
              RecoverRefused, WorkosDeleteFails
<1>4. CASE \/ RecoverClaim(s) \/ RecoverRecord(s) \/ RecoverRecordFails(s)
           \/ RecoverUnclaim(s) \/ FinishReplace(s) \/ FinishDelete(s) \/ Prune(s)
           \/ PruneFails(s) \/ CreateFailed(s) \/ CreateLanded(s) \/ Compensate(s)
           \/ CompensateFails(s) \/ Persist(s) \/ Settle(s)
  BY <1>4 DEF RecoverClaim, RecoverRecord, RecoverRecordFails, RecoverUnclaim, FinishReplace,
              FinishDelete, Prune, PruneFails, CreateFailed, CreateLanded,
              CompensateFails, Persist, Settle, upstream, history
<1> QED
  BY <1>1, <1>2, <1>3, <1>4 DEF Step

(* What a row of WorkOS may go through while another holds the claim and is   *)
(* certain of what it did: nothing, or a PUT that makes it somebody else's.   *)
Drifts(w) ==
    \/ workos'[w] = workos[w] /\ (w \in astray => w \in astray')
    \/ workos[w] # None /\ workos'[w] # None /\ w \in astray'

Aside == mapping' = mapping /\ native' = native /\ \A w \in Id : Drifts(w)

LEMMA BlindDrift ==
    ASSUME TypeOK, NEW v \in Id, NEW p \in Person, workos[v] # None,
           Written(v, p, TRUE)
    PROVE  \A w \in Id : Drifts(w)
BY IdFacts DEF Written, Drifts, TypeOK, UpstreamOK

LEMMA Guests ==
    ASSUME ClaimInv, NEW r \in Request, NEW s \in Request, r # s, claim = r, Step(s)
    PROVE  Aside
<1>1. TypeOK /\ ~Owns(s) /\ Shape(s)
  BY DEF ClaimInv, Sound, ClaimHeld, Shapes
<1>2. mapping' = mapping
  BY <1>1, MappingMover
<1>3. native' = native
  <2>1. CASE NativeCreated(s) \/ NativeDeleted(s)
    BY <1>1, <2>1 DEF NativeCreated, NativeDeleted, CanTake, InLegs, Owns
  <2> QED
    BY <2>1, NativeMover
<1>4. ASSUME NEW w \in Id
      PROVE  Drifts(w)
  <2>1. CASE UNCHANGED <<workos, astray>>
    BY <2>1 DEF Drifts
  <2>2. CASE MirrorPut(s)
    <3>1. PICK v \in Id : workos[v] # None /\ Written(v, call[s].person, Blind(s, v))
      BY <2>2 DEF MirrorPut, Addressed
    <3>2. workos' = [workos EXCEPT ![v] = call[s].person]
          /\ astray' = IF workos[v] = call[s].person THEN astray ELSE astray \cup {v}
      BY <3>1 DEF Written, Blind
    <3>3. call[s].person \in Person
      BY <1>1, <2>2 DEF MirrorPut, Putting, Shape
    <3> QED
      BY <1>1, <3>1, <3>2, <3>3, IdFacts DEF Drifts, TypeOK, UpstreamOK
  <2>3. CASE MirrorPost(s)
    <3>1. pc[s] = "legs" /\ wleg[s].at = "post"
      BY <2>3 DEF MirrorPost, At
    <3>2. call[s].op = "create" \/ call[s].op = "delete" \/ call[s].op = "replace"
      BY <1>1, <3>1 DEF Shape
    <3> QED
      BY <1>1, <3>1, <3>2 DEF Owns, Recovery
  <2>4. CASE WorkosDeleted(s)
    BY <1>1, <2>4 DEF WorkosDeleted, At, Owns
  <2>5. CASE Compensate(s)
    BY <1>1, <2>5 DEF Compensate, Owns, Shape
  <2> QED
    BY <2>1, <2>2, <2>3, <2>4, <2>5, WorkosMover
<1> QED
  BY <1>2, <1>3, <1>4 DEF Aside

(* A PUT nobody waits for any more names a row and whose it is. *)
LatePuts == \A u \in late : u.verb = "put" /\ u.side = "workos" => u.id \in Id /\ u.person \in Person

LEMMA NextLatePuts == ClaimInv /\ LatePuts /\ [Next]_vars => LatePuts'
<1> SUFFICES ASSUME ClaimInv, LatePuts, [Next]_vars PROVE LatePuts'
  OBVIOUS
<1>1. CASE LateWrite \/ UNCHANGED vars
  BY <1>1 DEF LateWrite, LatePuts, vars, upstream
<1>2. ASSUME NEW r \in Request, Step(r), NEW u \in late', u \notin late,
             u.verb = "put", u.side = "workos"
      PROVE  u.id \in Id /\ u.person \in Person
  <2>1. CASE MirrorPutUnsure(r)
    <3>1. PICK a \in Addressed(r) : Unanswered(r, "workos", "put", a, call[r].person)
      BY <2>1 DEF MirrorPutUnsure
    <3>2. a \in Id /\ call[r].person \in Person
      BY <2>1 DEF MirrorPutUnsure, Putting, Addressed, ClaimInv, Sound, Shapes, Shape
    <3> QED
      BY <1>2, <3>1, <3>2, UnansweredNew
  <2>2. CASE NativeUnsure(r)
    <3>1. call[r].op \in {"create", "delete", "replace"}
      BY <2>2 DEF NativeUnsure, ClaimInv, Sound, Shapes, Shape
    <3>2. CASE call[r].op = "create"
      BY <1>2, <2>2, <3>2, UnansweredNew DEF NativeUnsure
    <3>3. CASE call[r].op = "delete"
      BY <1>2, <2>2, <3>3, UnansweredNew DEF NativeUnsure
    <3>4. CASE call[r].op = "replace"
      BY <1>2, <2>2, <3>4 DEF NativeUnsure
    <3> QED
      BY <3>1, <3>2, <3>3, <3>4
  <2>3. CASE MirrorPostFails(r) \/ WorkosDeleteFails(r) \/ CompensateFails(r)
    BY <1>2, <2>3, UnansweredNew DEF MirrorPostFails, WorkosDeleteFails, CompensateFails
  <2> QED
    BY <1>2, <2>1, <2>2, <2>3, LateMover DEF ClaimInv
<1> QED
  BY <1>1, <1>2 DEF Next, LatePuts

LEMMA LateAside ==
    ASSUME ClaimInv, LatePuts, NEW r \in Request, claim = r, ~Stuck(r), LateWrite
    PROVE  Aside
<1>1. PICK u \in late : ApplyNative(u) \/ ApplyWorkos(u)
  BY DEF LateWrite
<1>2. ~Claimed(u) /\ u \in Write /\ TypeOK
  BY <1>1 DEF ClaimInv, Sound, LateHeld, TypeOK, UpstreamOK
<1>3. /\ u.verb = "put" /\ u.side = "workos" /\ native' = native /\ mapping' = mapping
      /\ workos[u.id] # None /\ Written(u.id, u.person, TRUE)
  BY <1>1, <1>2 DEF Claimed, ApplyNative, ApplyWorkos, LateWrite, store
<1>4. u.id \in Id /\ u.person \in Person
  BY <1>3 DEF LatePuts
<1> QED
  BY <1>2, <1>3, <1>4, BlindDrift DEF Aside

-----------------------------------------------------------------------------
(* What a leg knows of its key, and of the row it ended on. *)

Free(i) == mapping[i] = None /\ Owners(i) = {}

HasKey == {"read", "put", "post", "reput", "lookup"}

(* A create's leg is keyed on the id native gave, or on one nobody maps.     *)
Keyed(r) ==
    /\ wleg[r].key \in Id
    /\ Free(wleg[r].key) \/ (nleg[r].stat # "none" /\ nleg[r].id = wleg[r].key)

(* The row it ended on belongs to nobody else, or is the one at its own key. *)
Fits(r) ==
    /\ wleg[r].sink \in Id
    /\ Owners(wleg[r].sink) \subseteq {wleg[r].key} \/ wleg[r].sink = wleg[r].key

(* A create whose WorkOS leg succeeded, until its mapping is stored. *)
Ended(r) ==
    /\ call[r].op = "create"
    /\ \/ pc[r] = "legs" /\ wleg[r].at = "done" /\ wleg[r].stat = "ok"
       \/ pc[r] \in {"compensate", "persist"}

KeyInv(r) ==
    /\ call[r].op = "create" /\ pc[r] = "legs" /\ wleg[r].at \in HasKey => Keyed(r)
    /\ call[r].op = "create" /\ pc[r] = "legs" /\ wleg[r].at = "put" =>
          wleg[r].to \in Id /\ Owners(wleg[r].to) \subseteq {wleg[r].key}
    /\ pc[r] = "legs" /\ wleg[r].at = "wait" => call[r].op = "create" /\ wleg[r].stat = "none"
    /\ Ended(r) => Keyed(r) /\ Fits(r)
    /\ pc[r] = "legs" /\ wleg[r].at = "recover" => call[r].op = "replace"
    /\ call[r].op = "replace" /\ pc[r] = "legs" => wleg[r].key = call[r].id
    /\ call[r].op = "delete" /\ pc[r] = "legs" =>
          wleg[r].key = call[r].id /\ wleg[r].at \in {"put", "done"}
    /\ pc[r] = "legs" /\ wleg[r].at = "record" => Fits(r)

LEMMA KeyedStill ==
    ASSUME mapping' = mapping, NEW r \in Request, wleg'[r].key = wleg[r].key,
           nleg'[r] = nleg[r], Keyed(r)
    PROVE  Keyed(r)'
BY DEF Keyed, Free, Owners

LEMMA FitsStill ==
    ASSUME mapping' = mapping, NEW r \in Request, wleg'[r].key = wleg[r].key,
           wleg'[r].sink = wleg[r].sink, Fits(r)
    PROVE  Fits(r)'
BY DEF Fits, Owners

(* A handler that is between its legs' end and its answer. *)
LEMMA PastLegs ==
    ASSUME NEW r \in Request, pc'[r] \notin {"legs", "compensate", "persist"}
    PROVE  KeyInv(r)'
BY DEF KeyInv, Ended

LEMMA CheckKeys ==
    ASSUME ClaimInv, NEW r \in Request, CheckCreate(r) \/ CheckDelete(r) \/ CheckReplace(r)
    PROVE  KeyInv(r)'
<1>0. LocalOK /\ IdAssumption /\ Shape(r) /\ pc[r] = "check"
  BY IdAssumption DEF ClaimInv, Sound, TypeOK, Shapes, CheckCreate, CheckDelete, CheckReplace
<1>1. CASE CheckCreate(r)
  <2>1. PICK m \in Mints(r) :
            \/ /\ ClaimedOwners(m) = {}
               /\ StartLegs(r, IF m = None THEN "wait" ELSE "read", m, None, None)
            \/ \E n \in ClaimedOwners(m) : StartLegs(r, "wait", None, None, n)
    BY <1>1 DEF CheckCreate
  <2>2. ASSUME NEW n, StartLegs(r, "wait", None, None, n)
        PROVE  KeyInv(r)'
    <3>1. /\ wleg'[r].at = "wait" /\ wleg'[r].stat = "none"
          /\ call' = call /\ pc'[r] = "legs" /\ call[r].op = "create"
      BY <1>0, <1>1, <2>2, StartedLeg, StartLegsLocal DEF CheckCreate
    <3> QED
      BY <3>1 DEF KeyInv, Ended, HasKey
  <2>3. CASE m = None /\ StartLegs(r, IF m = None THEN "wait" ELSE "read", m, None, None)
    BY <2>2, <2>3
  <2>4. CASE /\ m # None /\ ClaimedOwners(m) = {}
             /\ StartLegs(r, IF m = None THEN "wait" ELSE "read", m, None, None)
    <3>0. StartLegs(r, "read", m, None, None)
      BY <2>4
    <3>1. /\ wleg'[r].at = "read" /\ wleg'[r].key = m
          /\ call' = call /\ pc'[r] = "legs" /\ call[r].op = "create"
      BY <1>0, <1>1, <3>0, StartedLeg, StartLegsLocal DEF CheckCreate
    <3>2. mapping' = mapping
      BY <3>0 DEF StartLegs, store
    <3>3. m \in Id
      <4>1. m \in {call[r].ext} \cup MintedId
        BY <2>1, <2>4 DEF Mints
      <4>2. call[r].ext \in ExternalId \cup {None}
        BY <1>0 DEF LocalOK, Call
      <4> QED
        BY <2>4, <4>1, <4>2, IdFacts
    <3>4. Free(m)
      BY <2>4 DEF ClaimedOwners, Free
    <3>5. Keyed(r)'
      BY <3>1, <3>2, <3>3, <3>4 DEF Keyed, Free, Owners
    <3> QED
      BY <3>1, <3>5 DEF KeyInv, Ended, HasKey
  <2> QED
    BY <2>1, <2>2, <2>3, <2>4
<1>2. CASE CheckDelete(r)
  <2>1. /\ wleg'[r].at = "put" /\ wleg'[r].key = call[r].id
        /\ call' = call /\ call[r].op = "delete"
    BY <1>0, <1>2, StartedLeg, StartLegsLocal DEF CheckDelete
  <2> QED
    BY <2>1 DEF KeyInv, Ended
<1>3. CASE CheckReplace(r)
  <2>1. /\ wleg'[r].at = "read" /\ wleg'[r].key = call[r].id
        /\ call' = call /\ call[r].op = "replace"
    BY <1>0, <1>3, StartedLeg, StartLegsLocal DEF CheckReplace
  <2> QED
    BY <2>1 DEF KeyInv, Ended
<1> QED
  BY <1>1, <1>2, <1>3

LEMMA NativeKeys ==
    ASSUME ClaimInv, NEW r \in Request, KeyInv(r),
           \/ NativeCreated(r) \/ NativeConflict(r) \/ NativeReplaced(r)
           \/ NativeDeleted(r) \/ NativeRejected(r) \/ NativeUnsure(r)
    PROVE  KeyInv(r)'
<1>0. LocalOK /\ Sound
  BY DEF ClaimInv, Sound, TypeOK
<1>1. PICK stat \in Stats \ {"none"}, i \in Id \cup {None} : NativeDone(r, stat, i)
  BY NativeOutcome
<1>2. UNCHANGED <<mapping, call, pc>> /\ pc[r] = "legs" /\ nleg[r].stat = "none"
  BY <1>0, NativeSummary
<1>3. nleg'[r].stat = stat /\ nleg'[r].id = i
  BY <1>0, <1>1, NativeLocal
<1>4. wleg'[r].key = wleg[r].key /\ Keyed(r) => Keyed(r)'
  BY <1>1, <1>2, <1>3 DEF Keyed, Free, Owners
<1>5. CASE wleg'[r] = wleg[r]
  BY <1>2, <1>4, <1>5, FitsStill, OwnersStill DEF KeyInv, Ended
<1>6. CASE /\ wleg[r].at = "wait" /\ i # None
           /\ wleg'[r].at = "read" /\ wleg'[r].key = i /\ wleg'[r].stat = wleg[r].stat
  <2>1. Keyed(r)'
    BY <1>1, <1>3, <1>6 DEF Keyed
  <2>2. call[r].op = "create"
    BY <1>2, <1>6 DEF KeyInv
  <2> QED
    BY <1>2, <1>6, <2>1, <2>2 DEF KeyInv, Ended
<1>7. CASE /\ wleg[r].at = "wait" /\ wleg'[r].at = "done" /\ wleg'[r].stat = wleg[r].stat
           /\ SameKey(r)
  BY <1>2, <1>7 DEF KeyInv, Ended, HasKey, SameKey
<1> QED
  BY <1>0, <1>1, <1>5, <1>6, <1>7, NativeLeftLeg

LEMMA MirrorKeys ==
    ASSUME ClaimInv, NEW r \in Request, KeyInv(r),
           \/ MirrorRead(r) \/ MirrorPut(r) \/ MirrorPutMissing(r) \/ MirrorPutRejected(r)
           \/ MirrorPutUnsure(r) \/ MirrorLookupFails(r) \/ MirrorPost(r)
           \/ MirrorPostConflict(r) \/ MirrorPostFails(r) \/ RecoverRefused(r)
           \/ WorkosDeleted(r) \/ WorkosDeleteFails(r)
    PROVE  KeyInv(r)'
<1>0. Sound /\ LocalOK /\ Shape(r) /\ wleg[r] \in WorkosLeg
  BY DEF ClaimInv, Sound, TypeOK, LocalOK, Shapes
<1>1. UNCHANGED <<mapping, call, pc, nleg>> /\ pc[r] = "legs" /\ wleg[r].at # "done"
  BY <1>0, MirrorSummary
<1>2. SameKey(r) /\ Keyed(r) => Keyed(r)'
  BY <1>1, KeyedStill DEF SameKey
<1>3. ASSUME SameKey(r), call[r].op # "delete",
             wleg'[r].at \in {"post", "reput", "lookup", "recover"},
             wleg'[r].at = "recover" => call[r].op = "replace",
             wleg'[r].at \in {"post", "reput", "lookup"} => wleg[r].at \in HasKey
      PROVE  KeyInv(r)'
  BY <1>1, <1>2, <1>3 DEF KeyInv, Ended, HasKey, SameKey
<1>4. ASSUME NEW stat, MirrorFailed(r, stat), stat # "ok"
      PROVE  KeyInv(r)'
  <2>1. /\ wleg'[r].stat # "ok" /\ SameKey(r)
        /\ \/ wleg'[r].at = "done"
           \/ wleg'[r].at = "unclaim" /\ call[r].op = "replace"
    BY <1>0, <1>4, MirrorFailedLeg DEF Recovering
  <2> QED
    BY <1>1, <2>1 DEF KeyInv, Ended, HasKey, SameKey
<1>5. ASSUME NEW w \in Id, NEW fresh, Mirrored(r, w, fresh), wleg[r].at \in HasKey,
             call[r].op # "delete",
             \/ Owners(w) \subseteq {wleg[r].key}
             \/ w = wleg[r].key
             \/ call[r].op = "replace" /\ ~Recovering(r)
      PROVE  KeyInv(r)'
  <2>1. /\ wleg'[r].at = IF Recovering(r) THEN "record" ELSE "done"
        /\ wleg'[r].sink = w /\ SameKey(r)
    BY <1>0, <1>5, MirroredLeg
  <2>2. \/ call[r].op = "replace" /\ ~Recovering(r)
        \/ Fits(r)'
    BY <1>1, <1>5, <2>1, OwnersStill DEF Fits, SameKey
  <2> QED
    BY <1>0, <1>1, <1>2, <1>5, <2>1, <2>2 DEF KeyInv, Ended, HasKey, SameKey, Recovering
<1>6. CASE MirrorRead(r)
  <2> DEFINE to == IF mapping[wleg[r].key] # None THEN mapping[wleg[r].key] ELSE wleg[r].key
  <2>1. CASE MirrorReadFails(r, to)
    BY <1>4, <2>1 DEF MirrorReadFails
  <2>2. CASE /\ Owners(to) \subseteq {wleg[r].key}
             /\ wleg' = [wleg EXCEPT ![r] = [wleg[r] EXCEPT !.at = "put", !.to = to]]
    <3>1. to \in Id
      <4>1. wleg[r].key \in Id
        BY <1>6 DEF MirrorRead, At, ClaimInv, Sound, KeyKnown
      <4> QED
        BY <4>1 DEF ClaimInv, Sound, TypeOK, StoreOK
    <3> DEFINE leg == [wleg[r] EXCEPT !.at = "put", !.to = to]
    <3>2. wleg'[r] = leg
      BY <1>0, <2>2 DEF LocalOK
    <3> HIDE DEF to
    <3>3. leg.at = "put" /\ leg.to = to /\ leg.key = wleg[r].key /\ leg.owner = wleg[r].owner
      BY <1>0 DEF WorkosLeg
    <3> HIDE DEF leg
    <3>4. wleg'[r].at = "put" /\ wleg'[r].to = to /\ SameKey(r)
      BY <3>2, <3>3 DEF SameKey
    <3> QED
      BY <1>1, <1>2, <1>6, <2>2, <3>1, <3>4, OwnersStill
      DEF KeyInv, Ended, HasKey, SameKey, MirrorRead, At
  <2> QED
    BY <1>6, <2>1, <2>2 DEF MirrorRead
<1>7. CASE MirrorPut(r)
  <2>1. PICK w \in Addressed(r) : Mirrored(r, w, FALSE)
    BY <1>7 DEF MirrorPut
  <2>2. w \in Id /\ wleg[r].at \in HasKey /\ call[r].op \in {"create", "replace"}
    BY <1>0, <1>7, <2>1 DEF Addressed, MirrorPut, Putting, HasKey, Shape
  <2>3. CASE wleg[r].at = "put" /\ w = wleg[r].to /\ call[r].op = "create"
    BY <1>1, <1>5, <2>1, <2>2, <2>3 DEF KeyInv
  <2>4. CASE wleg[r].at = "put" /\ call[r].op = "replace"
    BY <1>5, <2>1, <2>2, <2>4 DEF Recovering
  <2>5. CASE w = wleg[r].key \/ Owners(w) \subseteq {wleg[r].key}
    BY <1>5, <2>1, <2>2, <2>5
  <2> QED
    BY <2>1, <2>2, <2>3, <2>4, <2>5 DEF Addressed
<1>8. CASE MirrorPost(r)
  <2>1. PICK w \in {wleg[r].key} \cup {i \in MintedId : Unused(i)} : Mirrored(r, w, TRUE)
    BY <1>8 DEF MirrorPost
  <2>2. wleg[r].at = "post" /\ wleg[r].key \in Id /\ call[r].op # "delete"
    <3>1. wleg[r].at = "post"
      BY <1>8 DEF MirrorPost, At
    <3>2. call[r].op \in {"create", "replace"}
      BY <1>0, <1>1, <3>1 DEF KeyInv, Shape
    <3> QED
      BY <1>0, <1>1, <3>1, <3>2 DEF KeyInv, HasKey, Keyed, Shape
  <2>3. w \in Id /\ (w = wleg[r].key \/ Owners(w) = {})
    BY <2>1, <2>2, IdFacts DEF Unused
  <2> QED
    BY <1>5, <2>1, <2>2, <2>3 DEF HasKey
<1>9. CASE MirrorPutMissing(r)
  <2>1. PICK at : /\ Goto(r, at) /\ at \in {"lookup", "recover", "post"}
                  /\ wleg[r].at \in HasKey /\ call[r].op # "delete"
                  /\ at = "recover" => call[r].op = "replace"
    BY <1>9 DEF MirrorPutMissing, Putting, HasKey
  <2> QED
    BY <1>0, <1>3, <2>1, GotoLeg
<1>10. CASE MirrorPostConflict(r)
  <2>1. Goto(r, "reput") /\ wleg[r].at \in HasKey /\ call[r].op # "delete"
    BY <1>1, <1>10 DEF MirrorPostConflict, At, HasKey, KeyInv
  <2> QED
    BY <1>0, <1>3, <2>1, GotoLeg
<1>11. CASE \/ MirrorPutRejected(r) \/ MirrorPutUnsure(r) \/ MirrorLookupFails(r)
            \/ MirrorPostFails(r) \/ RecoverRefused(r) \/ WorkosDeleteFails(r)
  <2>1. PICK stat : MirrorFailed(r, stat) /\ stat # "ok"
    BY <1>11 DEF MirrorPutRejected, MirrorPutUnsure, MirrorLookupFails, MirrorPostFails,
                RecoverRefused, WorkosDeleteFails
  <2> QED
    BY <1>4, <2>1
<1>12. CASE WorkosDeleted(r)
  <2>1. PICK stat :
            wleg' = [wleg EXCEPT ![r] = [wleg[r] EXCEPT !.at = "done", !.stat = stat]]
    BY <1>12 DEF WorkosDeleted
  <2> DEFINE leg == [wleg[r] EXCEPT !.at = "done", !.stat = stat]
  <2>2. leg.at = "done" /\ leg.key = wleg[r].key /\ wleg'[r] = leg
    BY <1>0, <2>1 DEF LocalOK, WorkosLeg
  <2> HIDE DEF leg
  <2> QED
    BY <1>1, <1>12, <2>2 DEF WorkosDeleted, KeyInv, Ended
<1> QED
  BY <1>6, <1>7, <1>8, <1>9, <1>10, <1>11, <1>12

LEMMA StepKeys ==
    ASSUME ClaimInv, NEW r \in Request, KeyInv(r), Step(r)
    PROVE  KeyInv(r)'
<1>0. Sound /\ LocalOK /\ Shape(r)
  BY DEF ClaimInv, Sound, TypeOK, Shapes
<1>1. CASE \/ ReceiveCreate(r) \/ ReceiveDelete(r) \/ ReceiveReplace(r) \/ TakeClaim(r)
  <2>1. pc'[r] \in {"check", "claim"}
    BY <1>0, <1>1 DEF ReceiveCreate, ReceiveDelete, ReceiveReplace, Receive, TakeClaim, LocalOK
  <2> QED
    BY <2>1, PastLegs
<1>2. CASE \/ ClaimBusy(r) \/ Release(r) \/ Die(r) \/ CreateRefused(r) \/ WriteRefused(r)
           \/ PreflightFails(r) \/ FinishReplace(r) \/ FinishDelete(r) \/ Prune(r)
           \/ PruneFails(r) \/ CreateFailed(r) \/ Compensate(r)
           \/ CompensateFails(r) \/ Persist(r) \/ Settle(r)
  <2>1. \E next \in {"release", "prune", "settle", "done", "dead"} : Go(r, next)
    BY <1>2 DEF ClaimBusy, Release, Die, CreateRefused, WriteRefused, PreflightFails,
                FinishReplace, FinishDelete, Prune, PruneFails, CreateFailed, Compensate,
                CompensateFails, Persist, Settle
  <2>2. pc'[r] \notin {"legs", "compensate", "persist"}
    BY <1>0, <2>1, GoLocal
  <2> QED
    BY <2>2, PastLegs
<1>3. CASE CreateLanded(r)
  <2>1. PICK next \in {"compensate", "persist"} : Go(r, next) /\ mapping' = mapping
    BY <1>3 DEF CreateLanded, store
  <2>2. pc'[r] = next /\ UNCHANGED <<call, nleg, wleg>>
    BY <1>0, <2>1, GoLocal
  <2>3. Ended(r)
    BY <1>3 DEF CreateLanded, Compensable, Ended, LegsDone, InLegs
  <2> QED
    BY <2>1, <2>2, <2>3, KeyedStill, FitsStill DEF KeyInv
<1>4. CASE CheckCreate(r) \/ CheckDelete(r) \/ CheckReplace(r)
  BY <1>4, CheckKeys
<1>5. CASE \/ NativeCreated(r) \/ NativeConflict(r) \/ NativeReplaced(r)
           \/ NativeDeleted(r) \/ NativeRejected(r) \/ NativeUnsure(r)
  BY <1>5, NativeKeys
<1>6. CASE \/ MirrorRead(r) \/ MirrorPut(r) \/ MirrorPutMissing(r) \/ MirrorPutRejected(r)
           \/ MirrorPutUnsure(r) \/ MirrorLookupFails(r) \/ MirrorPost(r)
           \/ MirrorPostConflict(r) \/ MirrorPostFails(r) \/ RecoverRefused(r)
           \/ WorkosDeleted(r) \/ WorkosDeleteFails(r)
  BY <1>6, MirrorKeys
<1>7. CASE RecoverClaim(r) \/ RecoverRecord(r) \/ RecoverRecordFails(r) \/ RecoverUnclaim(r)
  <2>1. pc[r] = "legs" /\ wleg[r].at \in {"recover"} \cup Cleanup /\ UNCHANGED <<call, pc>>
    BY <1>7 DEF RecoverClaim, RecoverRecord, RecoverRecordFails, RecoverUnclaim, At, Cleanup
  <2>2. wleg'[r].at \in {"post", "unclaim", "done"} /\ SameKey(r)
    <3>1. CASE RecoverClaim(r) \/ RecoverRecord(r) \/ RecoverUnclaim(r)
      BY <1>0, <3>1, GotoLeg DEF RecoverClaim, RecoverRecord, RecoverUnclaim
    <3>2. CASE RecoverRecordFails(r)
      <4> DEFINE leg == [wleg[r] EXCEPT !.stat = "unsure", !.at = "done"]
      <4>1. /\ leg.at = "done" /\ leg.key = wleg[r].key /\ leg.owner = wleg[r].owner
            /\ wleg'[r] = leg
        BY <1>0, <3>2 DEF RecoverRecordFails, LocalOK, WorkosLeg
      <4> HIDE DEF leg
      <4> QED
        BY <4>1 DEF SameKey
    <3> QED
      BY <1>7, <3>1, <3>2
  <2>3. call[r].op = "replace"
    BY <2>1 DEF KeyInv, ClaimInv, ReplaceRecovers
  <2> QED
    BY <2>1, <2>2, <2>3 DEF KeyInv, Ended, SameKey
<1> QED
  BY <1>1, <1>2, <1>3, <1>4, <1>5, <1>6, <1>7 DEF Step

LEMMA OthersKeys ==
    ASSUME ClaimInv, NEW s \in Request, KeyInv(s), Owns(s) => mapping' = mapping,
           call'[s] = call[s], pc'[s] = pc[s], nleg'[s] = nleg[s], wleg'[s] = wleg[s]
    PROVE  KeyInv(s)'
<1>1. CASE mapping' = mapping
  BY <1>1, KeyedStill, FitsStill, OwnersStill DEF KeyInv, Ended
<1>2. CASE ~Owns(s)
  BY <1>2 DEF KeyInv, Ended, Owns, ClaimInv, ReplaceRecovers, Cleanup, Recovery
<1> QED
  BY <1>1, <1>2

KeyInvs == \A r \in Request : KeyInv(r)

LEMMA NextKeyInvs == ClaimInv /\ KeyInvs /\ [Next]_vars => KeyInvs'
<1> SUFFICES ASSUME ClaimInv, KeyInvs, [Next]_vars, NEW s \in Request
             PROVE  KeyInv(s)'
  BY DEF KeyInvs
<1>1. CASE LateWrite \/ UNCHANGED vars
  BY <1>1, OthersKeys DEF LateWrite, vars, store, local, KeyInvs
<1>2. ASSUME NEW r \in Request, Step(r)
      PROVE  KeyInv(s)'
  <2>1. CASE s = r
    BY <1>2, <2>1, StepKeys DEF KeyInvs
  <2>2. CASE s # r
    <3>1. OthersUnmoved(r)
      BY <1>2, StepHolds DEF ClaimInv
    <3>2. Owns(s) => mapping' = mapping
      BY <1>2, <2>2, Guests DEF ClaimInv, ClaimHeld, Aside
    <3> QED
      BY <2>2, <3>1, <3>2, OthersKeys DEF OthersUnmoved, KeyInvs
  <2> QED
    BY <2>1, <2>2
<1> QED
  BY <1>1, <1>2 DEF Next

(* What a request stores keeps strangers apart. *)
LEMMA NextStrangers ==
    ASSUME ClaimInv, KeyInvs, StrangersNeverShare, [Next]_vars
    PROVE  StrangersNeverShare'
<1>1. CASE mapping' = mapping
  BY <1>1, OwnersStill DEF StrangersNeverShare
<1>2. CASE mapping' # mapping
  <2>1. PICK r \in Request : Step(r)
    BY <1>2 DEF Next, LateWrite, vars, store
  <2>2. RecoverRecord(r) \/ RecoverRecordFails(r) \/ Prune(r) \/ PruneFails(r) \/ Persist(r)
    BY <1>2, <2>1, MappingMover
  <2>3. mapping \in [Id -> Id \cup {None}] /\ KeyInv(r) /\ Shape(r)
    BY DEF ClaimInv, Sound, TypeOK, StoreOK, KeyInvs, Shapes
  <2>4. CASE Prune(r) \/ PruneFails(r)
    <3>1. mapping' = [mapping EXCEPT ![call[r].id] = None]
      BY <1>2, <2>4 DEF Prune, PruneFails
    <3> QED
      BY <2>3, <3>1, IdFacts DEF StrangersNeverShare, Owners
  <2>5. CASE RecoverRecord(r) \/ RecoverRecordFails(r)
    <3>1. mapping' = [mapping EXCEPT ![wleg[r].key] = wleg[r].sink]
      BY <1>2, <2>5 DEF RecoverRecord, RecoverRecordFails
    <3>2. Fits(r)
      BY <2>3, <2>5 DEF RecoverRecord, RecoverRecordFails, At, KeyInv
    <3> QED
      BY <2>3, <3>1, <3>2 DEF StrangersNeverShare, Owners, Fits
  <2>6. CASE Persist(r)
    <3>1. mapping' = [mapping EXCEPT ![nleg[r].id] = wleg[r].sink]
      BY <2>6 DEF Persist
    <3>2. Keyed(r) /\ Fits(r)
      BY <2>3, <2>6 DEF Persist, KeyInv, Ended, Shape
    <3>3. CASE nleg[r].id = wleg[r].key
      BY <2>3, <3>1, <3>2, <3>3 DEF StrangersNeverShare, Owners, Fits
    <3>4. CASE Free(wleg[r].key)
      <4>1. Owners(wleg[r].sink) = {} \/ (wleg[r].sink = wleg[r].key)
        BY <2>3, <3>2, <3>4, IdFacts DEF Fits, Free, Owners
      <4>2. Owners(wleg[r].sink) = {}
        BY <3>4, <4>1 DEF Free
      <4> QED
        BY <2>3, <3>1, <3>2, <4>2 DEF StrangersNeverShare, Owners, Fits
    <3> QED
      BY <3>2, <3>3, <3>4 DEF Keyed
  <2> QED
    BY <2>2, <2>4, <2>5, <2>6
<1> QED
  BY <1>1, <1>2

LEMMA InitKeyInvs == Init => KeyInvs /\ StrangersNeverShare
<1> SUFFICES ASSUME Init PROVE KeyInvs /\ StrangersNeverShare
  OBVIOUS
<1>1. KeyInvs
  <2>1. NoCall.op = "none"
    BY DEF NoCall
  <2> QED
    BY <2>1 DEF Init, KeyInvs, KeyInv, Ended
<1>2. StrangersNeverShare
  BY DEF Init, Inherited, Ambiguous, StrangersNeverShare
<1> QED
  BY <1>1, <1>2

(* Two resources never share a row of WorkOS, save with the resource whose   *)
(* native id the row's id is, however many creates, replaces and recoveries  *)
(* overlap.                                                                  *)
THEOREM StrangersStayApart == Spec => []StrangersNeverShare
<1>1. Init => ClaimInv /\ KeyInvs /\ StrangersNeverShare
  BY InitClaimInv, InitKeyInvs
<1>2. /\ ClaimInv /\ KeyInvs /\ StrangersNeverShare
      /\ [Next]_vars
      => (ClaimInv /\ KeyInvs /\ StrangersNeverShare)'
  BY NextClaimInv, NextKeyInvs, NextStrangers
<1> QED
  BY <1>1, <1>2, PTL DEF Spec

-----------------------------------------------------------------------------
(* What a handler relies on when it answers 2xx: what its own legs wrote is  *)
(* still there, because nobody else may write identities meanwhile.          *)

(* Before the legs start there is no answer of native, and no id with it. *)
Fresh(r) ==
    /\ pc[r] \in {"idle", "claim", "check"} => nleg[r].stat = "none"
    /\ nleg[r].stat = "none" => nleg[r].id = None
    /\ pc[r] \in {"persist", "settle"} => nleg[r].id \in Id

NativeLanded(r) ==
    ~Stuck(r) /\ call[r].op = "create" /\ pc[r] \in {"legs", "persist", "settle"}
    /\ nleg[r].id # None => native[nleg[r].id] = call[r].person

WorkosLanded(r) ==
    ~Stuck(r) /\ (Ended(r) \/ pc[r] = "settle" \/ (pc[r] = "legs" /\ wleg[r].at = "record"))
    => /\ wleg[r].sink \in Id /\ workos[wleg[r].sink] # None
       /\ workos[wleg[r].sink] = call[r].person \/ wleg[r].sink \in astray

Deleting(r) ==
    ~Stuck(r) /\ call[r].op = "delete" /\ pc[r] \in {"legs", "prune"}
    => /\ mapping[call[r].id] = wleg[r].to /\ wleg[r].to \in Id
       /\ Owners(wleg[r].to) = {call[r].id}
       /\ nleg[r].stat \in {"ok", "gone"} \/ pc[r] = "prune" => native[call[r].id] = None
       /\ (wleg[r].at = "done" /\ wleg[r].stat \in {"ok", "gone"}) \/ pc[r] = "prune"
             => workos[wleg[r].to] = None

Stored(r) == pc[r] = "settle" => mapping[nleg[r].id] = wleg[r].sink

LandInv(r) == /\ Fresh(r) /\ NativeLanded(r) /\ WorkosLanded(r)
              /\ Deleting(r) /\ Stored(r)

(* A handler these parts say nothing about. *)
LEMMA NoLanding ==
    ASSUME NEW r \in Request, Fresh(r)',
           pc'[r] \notin {"legs", "compensate", "persist", "settle", "prune"}
    PROVE  LandInv(r)'
BY DEF LandInv, NativeLanded, WorkosLanded, Deleting, Stored, Ended

LEMMA OthersLand ==
    ASSUME ClaimInv, NEW s \in Request, LandInv(s), Owns(s) /\ ~Stuck(s) => Aside,
           call'[s] = call[s], pc'[s] = pc[s], nleg'[s] = nleg[s], wleg'[s] = wleg[s]
    PROVE  LandInv(s)'
<1>1. Fresh(s)' /\ (Stuck(s)' <=> Stuck(s)) /\ (Ended(s)' <=> Ended(s))
  BY DEF LandInv, Fresh, Stuck, Ended
<1>2. CASE Aside
  <2>1. mapping' = mapping /\ native' = native /\ \A w : Owners(w)' = Owners(w)
    BY <1>2, OwnersStill DEF Aside
  <2>2. NativeLanded(s)' /\ Stored(s)'
    BY <1>1, <2>1 DEF LandInv, NativeLanded, Stored
  <2>3. WorkosLanded(s)'
    BY <1>1, <1>2 DEF LandInv, WorkosLanded, Aside, Drifts
  <2>4. Deleting(s)'
    BY <1>1, <1>2, <2>1 DEF LandInv, Deleting, Aside, Drifts
  <2> QED
    BY <1>1, <2>2, <2>3, <2>4 DEF LandInv
<1>3. CASE ~Owns(s) \/ Stuck(s)
  <2>1. pc[s] \in {"compensate", "persist", "settle", "prune"} => Owns(s) /\ ~Stuck(s)
    BY DEF ClaimInv, Sound, Shapes, Shape, Owns, Stuck
  <2>2. pc[s] = "legs" /\ wleg[s].at = "record" => Owns(s)
    BY DEF ClaimInv, ReplaceRecovers, Owns, Recovery, Cleanup
  <2>3. NativeLanded(s)' /\ WorkosLanded(s)' /\ Deleting(s)' /\ Stored(s)'
    BY <1>1, <1>3, <2>1, <2>2
    DEF NativeLanded, WorkosLanded, Deleting, Stored, Owns, Stuck, Ended
  <2> QED
    BY <1>1, <2>3 DEF LandInv
<1> QED
  BY <1>2, <1>3

LEMMA CheckLands ==
    ASSUME ClaimInv, NEW r \in Request, LandInv(r),
           CheckCreate(r) \/ CheckDelete(r) \/ CheckReplace(r)
    PROVE  LandInv(r)'
<1>0. LocalOK /\ Shape(r) /\ pc[r] = "check"
  BY DEF ClaimInv, Sound, TypeOK, Shapes, CheckCreate, CheckDelete, CheckReplace
<1>1. PICK at, key, to, owner : StartLegs(r, at, key, to, owner) /\ at \in {"wait", "read", "put"}
  BY DEF CheckCreate, CheckDelete, CheckReplace
<1>2. /\ call' = call /\ pc'[r] = "legs" /\ nleg' = nleg
      /\ wleg'[r].at \in {"wait", "read", "put"}
      /\ mapping' = mapping
  BY <1>0, <1>1, StartLegsLocal DEF StartLegs, store
<1>3. nleg[r].stat = "none" /\ nleg[r].id = None
  BY <1>0 DEF LandInv, Fresh
<1>4. Fresh(r)' /\ NativeLanded(r)' /\ WorkosLanded(r)' /\ Stored(r)'
  BY <1>2, <1>3 DEF Fresh, NativeLanded, WorkosLanded, Stored, Ended
<1>5. Deleting(r)'
  <2>1. CASE CheckDelete(r)
    <3> DEFINE w == mapping[call[r].id]
    <3>1. StartLegs(r, "put", call[r].id, w, None) /\ w # None /\ ~Contested(call[r].id)
      BY <2>1 DEF CheckDelete
    <3>2. wleg'[r].to = w
      BY <1>0, <3>1, StartedLeg
    <3>3. call[r].id \in Id /\ w \in Id
      BY <1>0, <2>1, <3>1 DEF Shape, CheckDelete, ClaimInv, Sound, TypeOK, StoreOK
    <3>4. call[r].id \in Owners(w)
      BY <3>3 DEF Owners
    <3>5. ~Ambiguous(w)
      BY <3>1, <3>3, <3>4 DEF Contested
    <3>6. Owners(w) = {call[r].id}
      BY <3>4, <3>5 DEF Ambiguous
    <3> QED
      BY <1>2, <1>3, <3>2, <3>3, <3>6, OwnersStill DEF Deleting
  <2>2. CASE CheckCreate(r) \/ CheckReplace(r)
    BY <1>2, <2>2 DEF Deleting, CheckCreate, CheckReplace
  <2> QED
    BY <2>1, <2>2
<1> QED
  BY <1>4, <1>5 DEF LandInv

LEMMA NativeLands ==
    ASSUME ClaimInv, NEW r \in Request, KeyInv(r), LandInv(r),
           \/ NativeCreated(r) \/ NativeConflict(r) \/ NativeReplaced(r)
           \/ NativeDeleted(r) \/ NativeRejected(r) \/ NativeUnsure(r)
    PROVE  LandInv(r)'
<1>0. Sound /\ LocalOK /\ Shape(r) /\ native \in [Id -> Person \cup {None}]
  BY DEF ClaimInv, Sound, TypeOK, UpstreamOK, Shapes
<1>1. PICK stat \in Stats \ {"none"}, i \in Id \cup {None} :
          /\ NativeDone(r, stat, i)
          /\ call[r].op = "create" /\ i # None => native'[i] = call[r].person
          /\ call[r].op = "delete" /\ stat \in {"ok", "gone"} => native'[call[r].id] = None
  <2>1. CASE NativeCreated(r)
    <3>1. PICK n \in Mintable : /\ native' = [native EXCEPT ![n] = call[r].person]
                                /\ NativeDone(r, "ok", n)
      BY <2>1 DEF NativeCreated
    <3>2. n \in Id /\ call[r].op = "create"
      BY <2>1, IdFacts DEF NativeCreated, CanTake, InLegs, Mintable
    <3> QED
      BY <1>0, <3>1, <3>2 DEF Stats
  <2>2. CASE NativeConflict(r)
    <3>1. PICK n \in Holders(native, call[r].person) :
              \E found \in {j \in {n} : Adoptable(j)} \cup {None} : NativeDone(r, "conflict", found)
      BY <2>2 DEF NativeConflict
    <3>2. PICK found \in {n, None} : NativeDone(r, "conflict", found)
      BY <3>1
    <3>3. n \in Id /\ native'[n] = call[r].person /\ call[r].op = "create"
      BY <2>2, <3>1 DEF NativeConflict, Holders, upstream, CanTake, InLegs
    <3> QED
      BY <3>2, <3>3 DEF Stats
  <2>3. CASE NativeReplaced(r)
    BY <2>3 DEF NativeReplaced, CanTake, InLegs, Stats
  <2>4. CASE NativeDeleted(r)
    BY <1>0, <2>4 DEF NativeDeleted, CanTake, InLegs, Stats, Shape
  <2>5. CASE NativeRejected(r)
    BY <2>5 DEF NativeRejected, Stats
  <2>6. CASE NativeUnsure(r)
    BY <2>6 DEF NativeUnsure, Stats
  <2> QED
    BY <2>1, <2>2, <2>3, <2>4, <2>5, <2>6
<1>2. /\ UNCHANGED <<mapping, call, pc>> /\ pc[r] = "legs" /\ nleg[r].stat = "none"
      /\ nleg'[r].stat = stat /\ nleg'[r].id = i
  BY <1>0, <1>1, NativeSummary, NativeLocal
<1>3. UNCHANGED <<workos, astray>>
  BY DEF NativeCreated, NativeConflict, NativeReplaced, NativeDeleted, NativeRejected,
         NativeUnsure, NativeDone, upstream, history
<1>4. \/ wleg'[r] = wleg[r]
      \/ wleg[r].at = "wait" /\ wleg'[r].at \in {"read", "done"} /\ wleg'[r].stat = "none"
  <2>1. wleg[r].at = "wait" => wleg[r].stat = "none"
    BY <1>2 DEF KeyInv
  <2> QED
    BY <1>0, <1>1, <2>1, NativeLeftLeg
<1>5. Fresh(r)' /\ NativeLanded(r)' /\ Stored(r)'
  BY <1>1, <1>2 DEF Fresh, NativeLanded, Stored
<1>6. Stuck(r)' \/ ~Stuck(r)
  BY <1>2, <1>4 DEF Stuck, Doubtful
<1>7. WorkosLanded(r)'
  BY <1>2, <1>3, <1>4, <1>6 DEF LandInv, WorkosLanded, Ended
<1>8. Deleting(r)'
  <2>1. wleg[r].at = "wait" => call[r].op = "create"
    BY <1>2 DEF KeyInv
  <2> QED
    BY <1>1, <1>2, <1>3, <1>4, <1>6, <2>1, OwnersStill DEF LandInv, Deleting
<1> QED
  BY <1>5, <1>7, <1>8 DEF LandInv

LEMMA MirrorLands ==
    ASSUME ClaimInv, NEW r \in Request, KeyInv(r), LandInv(r),
           \/ MirrorRead(r) \/ MirrorPut(r) \/ MirrorPutMissing(r) \/ MirrorPutRejected(r)
           \/ MirrorPutUnsure(r) \/ MirrorLookupFails(r) \/ MirrorPost(r)
           \/ MirrorPostConflict(r) \/ MirrorPostFails(r) \/ RecoverRefused(r)
           \/ WorkosDeleted(r) \/ WorkosDeleteFails(r)
    PROVE  LandInv(r)'
<1>0. Sound /\ LocalOK /\ Shape(r) /\ wleg[r] \in WorkosLeg
      /\ workos \in [Id -> Person \cup {None}]
  BY DEF ClaimInv, Sound, TypeOK, UpstreamOK, LocalOK, Shapes
<1>1. UNCHANGED <<mapping, call, pc, nleg>> /\ pc[r] = "legs" /\ wleg[r].at # "done"
  BY <1>0, MirrorSummary
<1>2. native' = native
  BY DEF MirrorRead, MirrorPut, MirrorPutMissing, MirrorPutRejected, MirrorPutUnsure,
         MirrorLookupFails, MirrorPost, MirrorPostConflict, MirrorPostFails,
         RecoverRefused, WorkosDeleted, WorkosDeleteFails, Elsewhere
<1>3. Stuck(r)' \/ ~Stuck(r)
  BY <1>1 DEF Stuck, Doubtful
<1>4. Fresh(r)' /\ NativeLanded(r)' /\ Stored(r)'
  BY <1>1, <1>2, <1>3 DEF LandInv, Fresh, NativeLanded, Stored
<1>5. ASSUME call[r].op # "delete", WorkosLanded(r)'
      PROVE  LandInv(r)'
  BY <1>1, <1>4, <1>5 DEF LandInv, Deleting
<1>6. ASSUME NEW at, LegAt(r, at), at \notin {"record", "done"}, call[r].op # "delete"
      PROVE  LandInv(r)'
  <2>1. WorkosLanded(r)'
    BY <1>1, <1>6 DEF WorkosLanded, Ended, LegAt
  <2> QED
    BY <1>5, <1>6, <2>1
<1>7. ASSUME NEW stat, MirrorFailed(r, stat), stat \notin {"ok", "gone"}
      PROVE  LandInv(r)'
  <2>1. wleg'[r].at \in {"unclaim", "done"} /\ wleg'[r].stat = stat /\ SameTo(r)
    BY <1>0, <1>7, MirrorFailedLeg
  <2>2. WorkosLanded(r)'
    BY <1>1, <1>7, <2>1 DEF WorkosLanded, Ended
  <2>3. Deleting(r)'
    BY <1>1, <1>2, <1>3, <1>7, <2>1, OwnersStill DEF LandInv, Deleting, SameTo
  <2> QED
    BY <1>4, <2>2, <2>3 DEF LandInv
<1>8. ASSUME NEW w \in Id, NEW fresh, Mirrored(r, w, fresh), call[r].op # "delete",
             workos' = [workos EXCEPT ![w] = call[r].person]
      PROVE  LandInv(r)'
  <2>1. wleg'[r].sink = w /\ workos'[w] = call[r].person
    BY <1>0, <1>8, MirroredLeg
  <2>2. call[r].person \in Person
    BY <1>0, <1>1, <1>8 DEF Shape
  <2>3. WorkosLanded(r)'
    BY <1>1, <2>1, <2>2, IdFacts DEF WorkosLanded
  <2> QED
    BY <1>5, <1>8, <2>3
<1>9. CASE MirrorRead(r)
  <2> DEFINE to == IF mapping[wleg[r].key] # None THEN mapping[wleg[r].key] ELSE wleg[r].key
  <2>1. CASE MirrorReadFails(r, to)
    BY <1>7, <2>1 DEF MirrorReadFails
  <2>2. CASE wleg' = [wleg EXCEPT ![r] = [wleg[r] EXCEPT !.at = "put", !.to = to]]
    <3> DEFINE leg == [wleg[r] EXCEPT !.at = "put", !.to = to]
    <3>2. wleg' = [wleg EXCEPT ![r] = leg]
      BY <2>2
    <3>3. leg.at = "put"
      <4> HIDE DEF to
      <4> QED
        BY <1>0 DEF WorkosLeg
    <3> HIDE DEF leg
    <3>4. LegAt(r, "put")
      BY <1>0, <3>2, <3>3 DEF LocalOK, LegAt
    <3>5. call[r].op # "delete"
      BY <1>1, <1>9 DEF KeyInv, MirrorRead, At
    <3> QED
      BY <1>6, <3>4, <3>5
  <2> QED
    BY <1>9, <2>1, <2>2 DEF MirrorRead
<1>10. CASE MirrorPut(r)
  <2>1. PICK w \in Addressed(r) : Mirrored(r, w, FALSE)
                                  /\ Written(w, call[r].person, Blind(r, w))
    BY <1>10 DEF MirrorPut
  <2> QED
    BY <1>8, <1>10, <2>1 DEF Addressed, MirrorPut, Putting, Written
<1>11. CASE MirrorPost(r)
  <2>1. PICK w \in {wleg[r].key} \cup {i \in MintedId : Unused(i)} :
            Mirrored(r, w, TRUE) /\ Written(w, call[r].person, Blind(r, w))
    BY <1>11 DEF MirrorPost
  <2>2. call[r].op \in {"create", "replace"} /\ wleg[r].at = "post"
    BY <1>0, <1>1, <1>11 DEF KeyInv, Shape, MirrorPost, At
  <2>3. w \in Id
    BY <1>0, <1>1, <2>1, <2>2, IdFacts DEF KeyInv, HasKey, Keyed, Shape
  <2> QED
    BY <1>8, <2>1, <2>2, <2>3 DEF Written
<1>12. CASE MirrorPutMissing(r) \/ MirrorPostConflict(r)
  <2>1. PICK at \in {"lookup", "recover", "post", "reput"} : Goto(r, at)
    BY <1>12 DEF MirrorPutMissing, MirrorPostConflict
  <2>2. call[r].op # "delete"
    BY <1>1, <1>12 DEF MirrorPutMissing, MirrorPostConflict, Putting, KeyInv, At
  <2> QED
    BY <1>0, <1>6, <2>1, <2>2, GotoLocal
<1>13. CASE \/ MirrorPutRejected(r) \/ MirrorPutUnsure(r) \/ MirrorLookupFails(r)
            \/ MirrorPostFails(r) \/ RecoverRefused(r) \/ WorkosDeleteFails(r)
  <2>1. PICK stat : MirrorFailed(r, stat) /\ stat \notin {"ok", "gone"}
    BY <1>13 DEF MirrorPutRejected, MirrorPutUnsure, MirrorLookupFails, MirrorPostFails,
                RecoverRefused, WorkosDeleteFails
  <2> QED
    BY <1>7, <2>1
<1>14. CASE WorkosDeleted(r)
  <2>1. PICK stat :
            wleg' = [wleg EXCEPT ![r] = [wleg[r] EXCEPT !.at = "done", !.stat = stat]]
    BY <1>14 DEF WorkosDeleted
  <2> DEFINE leg == [wleg[r] EXCEPT !.at = "done", !.stat = stat]
  <2>2. leg.at = "done" /\ leg.to = wleg[r].to /\ wleg'[r] = leg
    BY <1>0, <2>1 DEF LocalOK, WorkosLeg
  <2> HIDE DEF leg
  <2>3. call[r].op = "delete" /\ workos' = [workos EXCEPT ![wleg[r].to] = None]
    BY <1>14 DEF WorkosDeleted, Written
  <2>4. WorkosLanded(r)'
    BY <1>1, <2>2, <2>3 DEF WorkosLanded, Ended
  <2>5. Deleting(r)'
    BY <1>0, <1>1, <1>2, <1>3, <2>2, <2>3, OwnersStill DEF LandInv, Deleting
  <2> QED
    BY <1>4, <2>4, <2>5 DEF LandInv
<1> QED
  BY <1>9, <1>10, <1>11, <1>12, <1>13, <1>14

LEMMA OutcomeLands ==
    ASSUME ClaimInv, NEW r \in Request, KeyInv(r), LandInv(r),
           CreateLanded(r) \/ Persist(r) \/ FinishDelete(r)
    PROVE  LandInv(r)'
<1>0. Sound /\ LocalOK /\ Shape(r)
  BY DEF ClaimInv, Sound, TypeOK, Shapes
<1>1. CASE CreateLanded(r)
  <2>1. PICK next \in {"compensate", "persist"} :
            /\ Go(r, next) /\ UNCHANGED <<mapping, native, workos, astray>>
            /\ next = "persist" => nleg[r].id # None
    BY <1>1 DEF CreateLanded, store, upstream, history
  <2>2. pc'[r] = next /\ UNCHANGED <<call, nleg, wleg>>
    BY <1>0, <2>1, GoLocal
  <2>3. Ended(r) /\ call[r].op = "create" /\ pc[r] = "legs" /\ nleg[r].stat # "none"
    BY <1>1 DEF CreateLanded, Compensable, Ended, LegsDone, InLegs
  <2>4. ~Stuck(r)
    <3>1. wleg[r].stat = "ok"
      BY <1>1 DEF CreateLanded, Compensable
    <3>2. nleg[r].id # None \/ nleg[r].stat = "rejected"
      BY <1>1 DEF CreateLanded, Compensable, NativeRefusedCreate
    <3> QED
      BY <2>3, <3>1, <3>2 DEF Stuck, Doubtful
  <2>5. nleg[r].id \in Id \cup {None}
    BY <1>0 DEF LocalOK, NativeLeg
  <2>6. Fresh(r)'
    BY <2>1, <2>2, <2>3, <2>5 DEF LandInv, Fresh
  <2>7. NativeLanded(r)' /\ WorkosLanded(r)'
    BY <2>1, <2>2, <2>3, <2>4 DEF LandInv, NativeLanded, WorkosLanded
  <2> QED
    BY <2>2, <2>3, <2>6, <2>7 DEF LandInv, Deleting, Stored
<1>2. CASE Persist(r)
  <2>1. /\ Go(r, "settle") /\ UNCHANGED <<native, workos, astray>>
        /\ mapping' = [mapping EXCEPT ![nleg[r].id] = wleg[r].sink]
    BY <1>2 DEF Persist, upstream, history
  <2>2. pc'[r] = "settle" /\ UNCHANGED <<call, nleg, wleg>>
    BY <1>0, <2>1, GoLocal
  <2>3. pc[r] = "persist" /\ call[r].op = "create" /\ Ended(r) /\ ~Stuck(r)
    BY <1>0, <1>2 DEF Persist, Shape, Ended, Stuck
  <2>4. Fresh(r)' /\ nleg[r].id \in Id
    BY <2>2, <2>3 DEF LandInv, Fresh
  <2>5. NativeLanded(r)' /\ WorkosLanded(r)'
    BY <2>1, <2>2, <2>3 DEF LandInv, NativeLanded, WorkosLanded
  <2>6. Stored(r)'
    BY <1>0, <2>1, <2>2, <2>4 DEF Stored, Sound, TypeOK, StoreOK
  <2> QED
    BY <2>2, <2>3, <2>4, <2>5, <2>6 DEF LandInv, Deleting
<1>3. CASE FinishDelete(r)
  <2>1. PICK next \in {"release", "done", "prune"} :
            /\ Go(r, next) /\ UNCHANGED <<mapping, native, workos, astray>>
            /\ next = "prune" => NativeSettled(r) /\ WorkosSettled(r)
    BY <1>3 DEF FinishDelete, upstream, history
  <2>2. LegsDone(r, "delete") /\ pc[r] = "legs" /\ call[r].op = "delete"
    BY <1>3 DEF FinishDelete, LegsDone, InLegs
  <2>3. CASE next # "prune"
    <3>1. Fresh(r)' /\ pc'[r] = next
      <4>1. pc'[r] = next
        BY <1>0, <2>1, GoLocal
      <4>2. nleg'[r] = nleg[r] \/ nleg'[r] = NoNativeLeg
        BY <1>0, <2>1 DEF Go, LocalOK
      <4> QED
        BY <2>3, <4>1, <4>2 DEF LandInv, Fresh, NoNativeLeg
    <3> QED
      BY <2>1, <2>3, <3>1, NoLanding
  <2>4. CASE next = "prune"
    <3>1. pc'[r] = "prune" /\ UNCHANGED <<call, nleg, wleg>>
      BY <1>0, <2>1, <2>4, GoLocal
    <3>2. nleg[r].stat \in {"ok", "gone"} /\ wleg[r].stat \in {"ok", "gone"} /\ wleg[r].at = "done"
      BY <2>1, <2>2, <2>4 DEF NativeSettled, WorkosSettled, LegsDone
    <3>3. ~Stuck(r)
      BY <2>2, <3>2 DEF Stuck, Doubtful
    <3>4. Deleting(r)'
      BY <2>1, <2>2, <3>1, <3>2, <3>3, OwnersStill DEF LandInv, Deleting
    <3> QED
      BY <2>2, <3>1, <3>4 DEF LandInv, Fresh, NativeLanded, WorkosLanded, Stored, Ended
  <2> QED
    BY <2>3, <2>4
<1> QED
  BY <1>1, <1>2, <1>3

LEMMA StepLands ==
    ASSUME ClaimInv, NEW r \in Request, KeyInv(r), LandInv(r), Step(r)
    PROVE  LandInv(r)'
<1>0. Sound /\ LocalOK /\ Shape(r)
  BY DEF ClaimInv, Sound, TypeOK, Shapes
<1>1. CASE \/ ReceiveCreate(r) \/ ReceiveDelete(r) \/ ReceiveReplace(r) \/ TakeClaim(r)
  <2>1. pc'[r] \in {"check", "claim"} /\ nleg' = nleg /\ pc[r] \in {"idle", "claim"}
    BY <1>0, <1>1 DEF ReceiveCreate, ReceiveDelete, ReceiveReplace, Receive, TakeClaim, LocalOK
  <2> QED
    BY <2>1, NoLanding DEF LandInv, Fresh
<1>2. CASE \/ ClaimBusy(r) \/ Release(r) \/ Die(r) \/ CreateRefused(r) \/ WriteRefused(r)
           \/ PreflightFails(r) \/ FinishReplace(r) \/ Prune(r)
           \/ PruneFails(r) \/ CreateFailed(r) \/ Compensate(r)
           \/ CompensateFails(r) \/ Settle(r)
  <2>1. PICK next \in {"release", "done", "dead"} : Go(r, next)
    BY <1>2 DEF ClaimBusy, Release, Die, CreateRefused, WriteRefused, PreflightFails,
                FinishReplace, Prune, PruneFails, CreateFailed, Compensate,
                CompensateFails, Settle
  <2>2. pc'[r] = next /\ (nleg'[r] = nleg[r] \/ nleg'[r] = NoNativeLeg)
    <3>1. pc'[r] = next
      BY <1>0, <2>1, GoLocal
    <3>2. nleg'[r] = nleg[r] \/ nleg'[r] = NoNativeLeg
      BY <1>0, <2>1 DEF Go, LocalOK
    <3> QED
      BY <3>1, <3>2
  <2> QED
    BY <2>2, NoLanding DEF LandInv, Fresh, NoNativeLeg
<1>3. CASE CreateLanded(r) \/ Persist(r) \/ FinishDelete(r)
  BY <1>3, OutcomeLands
<1>4. CASE CheckCreate(r) \/ CheckDelete(r) \/ CheckReplace(r)
  BY <1>4, CheckLands
<1>5. CASE \/ NativeCreated(r) \/ NativeConflict(r) \/ NativeReplaced(r)
           \/ NativeDeleted(r) \/ NativeRejected(r) \/ NativeUnsure(r)
  BY <1>5, NativeLands
<1>6. CASE \/ MirrorRead(r) \/ MirrorPut(r) \/ MirrorPutMissing(r) \/ MirrorPutRejected(r)
           \/ MirrorPutUnsure(r) \/ MirrorLookupFails(r) \/ MirrorPost(r)
           \/ MirrorPostConflict(r) \/ MirrorPostFails(r) \/ RecoverRefused(r)
           \/ WorkosDeleted(r) \/ WorkosDeleteFails(r)
  BY <1>6, MirrorLands
<1>7. CASE RecoverClaim(r) \/ RecoverRecord(r) \/ RecoverRecordFails(r) \/ RecoverUnclaim(r)
  <2>1. pc[r] = "legs" /\ wleg[r].at \in {"recover"} \cup Cleanup /\ UNCHANGED <<call, pc, nleg>>
    BY <1>7 DEF RecoverClaim, RecoverRecord, RecoverRecordFails, RecoverUnclaim, At, Cleanup
  <2>2. call[r].op = "replace"
    BY <2>1 DEF KeyInv, ClaimInv, ReplaceRecovers
  <2>3. wleg'[r].at \in {"post", "unclaim", "done"}
    <3>1. CASE RecoverClaim(r) \/ RecoverRecord(r) \/ RecoverUnclaim(r)
      BY <1>0, <3>1, GotoLeg DEF RecoverClaim, RecoverRecord, RecoverUnclaim
    <3>2. CASE RecoverRecordFails(r)
      <4> DEFINE leg == [wleg[r] EXCEPT !.stat = "unsure", !.at = "done"]
      <4>1. leg.at = "done" /\ wleg'[r] = leg
        BY <1>0, <3>2 DEF RecoverRecordFails, LocalOK, WorkosLeg
      <4> HIDE DEF leg
      <4> QED
        BY <4>1
    <3> QED
      BY <1>7, <3>1, <3>2
  <2> QED
    BY <2>1, <2>2, <2>3 DEF LandInv, Fresh, NativeLanded, WorkosLanded, Deleting, Stored, Ended
<1> QED
  BY <1>1, <1>2, <1>3, <1>4, <1>5, <1>6, <1>7 DEF Step

LandInvs == \A r \in Request : LandInv(r)

LinkInv == ClaimInv /\ LatePuts /\ KeyInvs /\ LandInvs

(* Between two steps, whoever owns the claim and is certain sees nothing but  *)
(* PUTs to rows that exist.                                                   *)
LEMMA OthersAside ==
    ASSUME ClaimInv, LatePuts, NEW s \in Request, Owns(s), ~Stuck(s), [Next]_vars,
           ~Step(s)
    PROVE  Aside
<1>1. claim = s
  BY DEF ClaimInv, ClaimHeld
<1>2. CASE LateWrite
  BY <1>1, <1>2, LateAside
<1>3. CASE UNCHANGED vars
  BY <1>3 DEF vars, store, upstream, history, Aside, Drifts
<1>4. ASSUME NEW r \in Request, Step(r), r # s
      PROVE  Aside
  BY <1>1, <1>4, Guests
<1> QED
  BY <1>2, <1>3, <1>4 DEF Next

LEMMA NextLandInvs == LinkInv /\ [Next]_vars => LandInvs'
<1> SUFFICES ASSUME LinkInv, [Next]_vars, NEW s \in Request
             PROVE  LandInv(s)'
  BY DEF LandInvs
<1>1. CASE Step(s)
  BY <1>1, StepLands DEF LinkInv, LandInvs, KeyInvs
<1>2. CASE ~Step(s)
  <2>1. call'[s] = call[s] /\ pc'[s] = pc[s] /\ nleg'[s] = nleg[s] /\ wleg'[s] = wleg[s]
    <3>1. CASE LateWrite \/ UNCHANGED vars
      BY <3>1 DEF LateWrite, vars, local
    <3>2. ASSUME NEW r \in Request, Step(r)
          PROVE  OthersUnmoved(r) /\ r # s
      BY <1>2, <3>2, StepHolds DEF LinkInv, ClaimInv
    <3> QED
      BY <3>1, <3>2 DEF Next, OthersUnmoved
  <2> QED
    BY <1>2, <2>1, OthersAside, OthersLand DEF LinkInv, LandInvs
<1> QED
  BY <1>1, <1>2

LEMMA InitLinkInv == Init => LinkInv
<1> SUFFICES ASSUME Init PROVE LinkInv
  OBVIOUS
<1>1. LatePuts
  BY DEF Init, LatePuts
<1>2. LandInvs
  <2>1. NoCall.op = "none" /\ NoNativeLeg.stat = "none" /\ NoNativeLeg.id = None
    BY DEF NoCall, NoNativeLeg
  <2> QED
    BY <2>1 DEF Init, LandInvs, LandInv, Fresh, NativeLanded, WorkosLanded, Deleting, Stored, Ended
<1> QED
  BY <1>1, <1>2, InitClaimInv, InitKeyInvs DEF LinkInv

LEMMA NextLinkInv == LinkInv /\ [Next]_vars => LinkInv'
BY NextClaimInv, NextLatePuts, NextKeyInvs, NextLandInvs DEF LinkInv

LEMMA AckMover ==
    ASSUME NEW s \in Request, Step(s), acked' # acked
    PROVE  FinishReplace(s) \/ Prune(s) \/ PruneFails(s) \/ Settle(s)
<1>1. CASE \/ ReceiveCreate(s) \/ ReceiveDelete(s) \/ ReceiveReplace(s)
           \/ TakeClaim(s) \/ ClaimBusy(s) \/ Release(s) \/ Die(s)
           \/ CheckCreate(s) \/ CreateRefused(s) \/ CheckDelete(s) \/ CheckReplace(s)
           \/ WriteRefused(s) \/ PreflightFails(s)
  BY <1>1 DEF ReceiveCreate, ReceiveDelete, ReceiveReplace, Receive, TakeClaim, ClaimBusy,
              Release, Die, CheckCreate, CreateRefused, CheckDelete, CheckReplace,
              WriteRefused, PreflightFails, StartLegs, history
<1>2. CASE \/ NativeCreated(s) \/ NativeConflict(s) \/ NativeReplaced(s)
           \/ NativeDeleted(s) \/ NativeRejected(s) \/ NativeUnsure(s)
  BY <1>2 DEF NativeCreated, NativeConflict, NativeReplaced, NativeDeleted, NativeRejected,
              NativeUnsure, NativeDone, history
<1>3. CASE \/ MirrorRead(s) \/ MirrorPut(s) \/ MirrorPutMissing(s) \/ MirrorPutRejected(s)
           \/ MirrorPutUnsure(s) \/ MirrorLookupFails(s) \/ MirrorPost(s)
           \/ MirrorPostConflict(s) \/ MirrorPostFails(s) \/ RecoverRefused(s)
           \/ WorkosDeleted(s) \/ WorkosDeleteFails(s)
  BY <1>3 DEF MirrorRead, MirrorPut, MirrorPutMissing, MirrorPutRejected, MirrorPutUnsure,
              MirrorLookupFails, MirrorPost, MirrorPostConflict, MirrorPostFails,
              RecoverRefused, WorkosDeleted, WorkosDeleteFails, Elsewhere
<1>4. CASE \/ RecoverClaim(s) \/ RecoverRecord(s) \/ RecoverRecordFails(s)
           \/ RecoverUnclaim(s) \/ FinishDelete(s) \/ CreateFailed(s) \/ CreateLanded(s)
           \/ Compensate(s) \/ CompensateFails(s) \/ Persist(s)
  BY <1>4 DEF RecoverClaim, RecoverRecord, RecoverRecordFails, RecoverUnclaim, FinishDelete,
              CreateFailed, CreateLanded, Compensate, CompensateFails, Persist, history
<1> QED
  BY <1>1, <1>2, <1>3, <1>4 DEF Step

LEMMA AnswerLands ==
    ASSUME LinkInv, [Next]_vars, NEW r \in acked' \ acked
    PROVE  Landed(r)
<1>1. PICK s \in Request : Step(s)
  BY DEF Next, LateWrite, vars, history
<1>2. FinishReplace(s) \/ Prune(s) \/ PruneFails(s) \/ Settle(s)
  BY <1>1, AckMover
<1>3. r = s
  BY <1>2 DEF FinishReplace, Prune, PruneFails, Settle, Ack
<1>4. Shape(s) /\ LandInv(s) /\ mapping \in [Id -> Id \cup {None}]
  BY DEF LinkInv, ClaimInv, Sound, TypeOK, StoreOK, Shapes, LandInvs
<1>5. CASE FinishReplace(s)
  BY <1>3, <1>5 DEF FinishReplace, LegsDone, InLegs, Landed
<1>6. CASE Prune(s) \/ PruneFails(s)
  <2>1. pc[s] = "prune" /\ call[s].op = "delete"
    BY <1>4, <1>6 DEF Prune, PruneFails, Shape
  <2>2. ~Stuck(s)
    BY <2>1 DEF Stuck
  <2> QED
    BY <1>3, <1>4, <2>1, <2>2 DEF LandInv, Deleting, Landed
<1>7. CASE Settle(s)
  <2>1. pc[s] = "settle" /\ call[s].op = "create"
    BY <1>4, <1>7 DEF Settle, Shape
  <2>2. ~Stuck(s)
    BY <2>1 DEF Stuck
  <2>3. mapping[nleg[s].id] = wleg[s].sink /\ nleg[s].id \in Id
    BY <1>4, <2>1 DEF LandInv, Stored, Fresh
  <2> QED
    BY <1>3, <1>4, <2>1, <2>2, <2>3, IdFacts DEF LandInv, NativeLanded, WorkosLanded, Landed
<1> QED
  BY <1>2, <1>5, <1>6, <1>7

(* A 2xx is true when it is sent, whatever overlapped, died or timed out.    *)
THEOREM SuccessIsNoLie == Spec => SuccessIsTrue
<1>1. Init => LinkInv
  BY InitLinkInv
<1>2. LinkInv /\ [Next]_vars => LinkInv'
  BY NextLinkInv
<1>3. LinkInv /\ [Next]_vars => [\A r \in acked' \ acked : Landed(r)]_vars
  BY AnswerLands
<1> QED
  BY <1>1, <1>2, <1>3, PTL DEF Spec, SuccessIsTrue

-----------------------------------------------------------------------------
(* Why no leg of the dance writes over a neighbour: the two rows a mapping    *)
(* links are one person's, and a leg that knows whose row it writes is at the *)
(* row its own native row is linked to.                                       *)

(* A replace names the person native has under its id, if it has one. *)
Named(r) == call[r].op = "replace" => native[call[r].id] \in {None, call[r].person}

Replacing == \A r \in Request : Named(r)

(* The two rows of a mapping are one person's, unless a blind PUT intervened. *)
Twins ==
    \A n, w \in Id :
        mapping[n] = w /\ native[n] # None /\ workos[w] # None /\ w \notin astray
            => native[n] = workos[w]

LEMMA NativeStep ==
    ASSUME TypeOK, Shapes, [Next]_vars, NEW i \in Id
    PROVE  native'[i] \in {native[i], None} \/ i \in Mintable
<1>1. CASE native' = native
  BY <1>1
<1>2. CASE LateWrite
  <2>1. PICK u \in late : ApplyNative(u) \/ ApplyWorkos(u)
    BY <1>2 DEF LateWrite
  <2> QED
    BY <2>1 DEF ApplyNative, ApplyWorkos, TypeOK, UpstreamOK
<1>3. ASSUME NEW r \in Request, Step(r), native' # native
      PROVE  native'[i] \in {native[i], None} \/ i \in Mintable
  <2>1. CASE NativeCreated(r)
    <3>1. PICK n \in Mintable : native' = [native EXCEPT ![n] = call[r].person]
      BY <2>1 DEF NativeCreated
    <3> QED
      BY <3>1 DEF TypeOK, UpstreamOK
  <2>2. CASE NativeDeleted(r)
    BY <2>2 DEF NativeDeleted, TypeOK, UpstreamOK
  <2> QED
    BY <1>3, <2>1, <2>2, NativeMover
<1> QED
  BY <1>1, <1>2, <1>3 DEF Next, vars, upstream

LEMMA CallMover ==
    ASSUME Sound, NEW s \in Request, Step(s)
    PROVE  \/ call'[s] = call[s] \/ call'[s].op = "none"
           \/ ReceiveReplace(s) \/ ReceiveCreate(s) \/ ReceiveDelete(s)
<1>0. LocalOK
  BY DEF Sound, TypeOK
<1>1. CASE \/ ClaimBusy(s) \/ Release(s) \/ Die(s) \/ CreateRefused(s) \/ WriteRefused(s)
           \/ PreflightFails(s) \/ FinishReplace(s) \/ FinishDelete(s) \/ Prune(s)
           \/ PruneFails(s) \/ CreateFailed(s) \/ CreateLanded(s) \/ Compensate(s)
           \/ CompensateFails(s) \/ Persist(s) \/ Settle(s)
  BY <1>0, <1>1, GoSummary, GoLocal
<1>2. CASE \/ TakeClaim(s) \/ CheckCreate(s) \/ CheckDelete(s) \/ CheckReplace(s)
           \/ RecoverClaim(s) \/ RecoverRecord(s) \/ RecoverRecordFails(s) \/ RecoverUnclaim(s)
  BY <1>2 DEF TakeClaim, CheckCreate, CheckDelete, CheckReplace, StartLegs, RecoverClaim,
              RecoverRecord, RecoverRecordFails, RecoverUnclaim
<1>3. CASE \/ NativeCreated(s) \/ NativeConflict(s) \/ NativeReplaced(s)
           \/ NativeDeleted(s) \/ NativeRejected(s) \/ NativeUnsure(s)
  BY <1>3, NativeSummary
<1>4. CASE \/ MirrorRead(s) \/ MirrorPut(s) \/ MirrorPutMissing(s) \/ MirrorPutRejected(s)
           \/ MirrorPutUnsure(s) \/ MirrorLookupFails(s) \/ MirrorPost(s)
           \/ MirrorPostConflict(s) \/ MirrorPostFails(s) \/ RecoverRefused(s)
           \/ WorkosDeleted(s) \/ WorkosDeleteFails(s)
  BY <1>4, MirrorSummary
<1> QED
  BY <1>1, <1>2, <1>3, <1>4 DEF Step

LEMMA NextReplacing == ClaimInv /\ Replacing /\ [Next]_vars => Replacing'
<1> SUFFICES ASSUME ClaimInv, Replacing, [Next]_vars, NEW s \in Request
             PROVE  Named(s)'
  BY DEF Replacing
<1>0. TypeOK /\ Shapes /\ LocalOK
  BY DEF ClaimInv, Sound, TypeOK
<1>1. CASE call'[s] = call[s]
  <2>1. call[s].op = "replace" => call[s].id \in Id /\ call[s].id \notin Mintable
    BY <1>0 DEF Shapes, Shape, Mintable
  <2> QED
    BY <1>0, <1>1, <2>1, NativeStep DEF Replacing, Named
<1>2. CASE ReceiveReplace(s)
  <2>1. PICK i \in Id, p \in Person :
            /\ native[i] \in {p, None}
            /\ Receive(s, [id |-> i, person |-> p, op |-> "replace", ext |-> None])
    BY <1>2 DEF ReceiveReplace
  <2> DEFINE c == [id |-> i, person |-> p, op |-> "replace", ext |-> None]
  <2>2. c.id = i /\ c.person = p /\ Receive(s, c)
    BY <2>1
  <2> HIDE DEF c
  <2>3. call'[s] = c /\ native' = native
    BY <1>0, <2>2 DEF Receive, upstream, LocalOK
  <2> QED
    BY <2>1, <2>2, <2>3 DEF Named
<1>3. CASE ReceiveCreate(s) \/ ReceiveDelete(s)
  <2>1. PICK c : Receive(s, c) /\ c.op # "replace"
    <3>1. CASE ReceiveCreate(s)
      <4>1. PICK p \in Person, e \in ExternalId \cup {None} :
                Receive(s, [id |-> None, person |-> p, op |-> "create", ext |-> e])
        BY <3>1 DEF ReceiveCreate
      <4> DEFINE c == [id |-> None, person |-> p, op |-> "create", ext |-> e]
      <4>2. c.op # "replace" /\ Receive(s, c)
        BY <4>1
      <4> HIDE DEF c
      <4> QED
        BY <4>2
    <3>2. CASE ReceiveDelete(s)
      <4>1. PICK i \in Id :
                Receive(s, [id |-> i, person |-> None, op |-> "delete", ext |-> None])
        BY <3>2 DEF ReceiveDelete
      <4> DEFINE c == [id |-> i, person |-> None, op |-> "delete", ext |-> None]
      <4>2. c.op # "replace" /\ Receive(s, c)
        BY <4>1
      <4> HIDE DEF c
      <4> QED
        BY <4>2
    <3> QED
      BY <1>3, <3>1, <3>2
  <2>2. call'[s] = c
    BY <1>0, <2>1 DEF Receive, LocalOK
  <2> QED
    BY <2>1, <2>2 DEF Named
<1>4. CASE call'[s].op = "none"
  BY <1>4 DEF Named
<1>5. \/ call'[s] = call[s] \/ call'[s].op = "none"
      \/ ReceiveReplace(s) \/ ReceiveCreate(s) \/ ReceiveDelete(s)
  <2>1. CASE LateWrite \/ UNCHANGED vars
    BY <2>1 DEF LateWrite, vars, local
  <2>2. ASSUME NEW r \in Request, Step(r), r # s
        PROVE  call'[s] = call[s]
    BY <2>2, StepHolds DEF ClaimInv, OthersUnmoved
  <2>3. ASSUME Step(s)
        PROVE  \/ call'[s] = call[s] \/ call'[s].op = "none"
               \/ ReceiveReplace(s) \/ ReceiveCreate(s) \/ ReceiveDelete(s)
    BY <2>3, CallMover DEF ClaimInv
  <2> QED
    BY <2>1, <2>2, <2>3 DEF Next
<1> QED
  BY <1>1, <1>2, <1>3, <1>4, <1>5

(* A leg that writes to a row nobody else's native row is linked to writes    *)
(* what that native row's person is.                                          *)
LEMMA OwnPerson ==
    ASSUME LinkInv, Replacing, NEW r \in Request, call[r].op \in {"create", "replace"},
           pc[r] = "legs", wleg[r].at \in {"put", "reput", "lookup", "post"},
           NEW n \in Id, NEW w \in Id, mapping[n] = w, native[n] # None, Owners(w) \subseteq {wleg[r].key}
    PROVE  native[n] = call[r].person
<1>1. KeyInv(r) /\ LandInv(r) /\ Named(r) /\ n = wleg[r].key
  BY DEF LinkInv, KeyInvs, LandInvs, Replacing, Owners
<1>2. CASE call[r].op = "replace"
  BY <1>1, <1>2 DEF KeyInv, Named
<1>3. CASE call[r].op = "create"
  <2>1. Keyed(r)
    BY <1>1, <1>3 DEF KeyInv, HasKey
  <2>2. nleg[r].id = n
    BY <1>1, <2>1, IdFacts DEF Keyed, Free
  <2>3. ~Stuck(r)
    BY <2>2, IdFacts DEF Stuck
  <2> QED
    BY <1>1, <1>3, <2>2, <2>3, IdFacts DEF LandInv, NativeLanded
<1> QED
  BY <1>2, <1>3

(* The writes to WorkOS, by the row they hit.  A write of a person is blind,  *)
(* or comes from a leg of the row's own resource, or goes to a row no mapping *)
(* names.                                                                     *)
Deleted(w) == workos'[w] = None
Astray(w) == workos'[w] # workos[w] /\ w \in astray'
Same(w) == workos'[w] = workos[w] /\ (w \in astray' <=> w \in astray)
ByOwner(w) ==
    \E r \in Request :
        /\ call[r].op \in {"create", "replace"} /\ pc[r] = "legs" /\ claim = r
        /\ wleg[r].at \in {"put", "reput", "lookup", "post"}
        /\ wleg[r].at = "put" \/ w = wleg[r].key
        /\ Owners(w) \subseteq {wleg[r].key}
        /\ workos'[w] = call[r].person

LEMMA WorkosStep ==
    ASSUME LinkInv, [Next]_vars, NEW w \in Id
    PROVE  Deleted(w) \/ Astray(w) \/ Same(w) \/ ByOwner(w) \/ Owners(w) = {}
<1>0. TypeOK /\ IdAssumption /\ workos \in [Id -> Person \cup {None}]
  BY IdAssumption DEF LinkInv, ClaimInv, Sound, TypeOK, UpstreamOK
<1>1. CASE UNCHANGED <<workos, astray>>
  BY <1>1 DEF Same
<1>2. ASSUME NEW v, NEW p \in Person \cup {None}, NEW blind \in BOOLEAN, Written(v, p, blind),
             v = w /\ ~blind => p = None \/ workos[w] = p \/ Owners(w) = {} \/ ByOwner(w)
      PROVE  Deleted(w) \/ Astray(w) \/ Same(w) \/ ByOwner(w) \/ Owners(w) = {}
  <2>1. CASE v # w
    BY <1>0, <1>2, <2>1 DEF Written, Same
  <2>2. CASE v = w /\ workos[w] = p
    BY <1>0, <1>2, <2>2 DEF Written, Same
  <2>3. CASE v = w /\ workos[w] # p /\ blind
    BY <1>0, <1>2, <2>3 DEF Written, Astray
  <2>4. CASE v = w /\ workos[w] # p /\ ~blind
    BY <1>0, <1>2, <2>4 DEF Written, Deleted
  <2> QED
    BY <2>1, <2>2, <2>3, <2>4
<1>3. CASE LateWrite
  <2>1. PICK u \in late : ApplyNative(u) \/ ApplyWorkos(u)
    BY <1>3 DEF LateWrite
  <2>2. u.person \in Person \cup {None}
    BY <1>0, <2>1 DEF TypeOK, UpstreamOK, Write
  <2>3. CASE ApplyNative(u)
    BY <1>1, <2>3 DEF ApplyNative
  <2>4. CASE ApplyWorkos(u) /\ Written(u.id, u.person, TRUE)
    BY <1>2, <2>2, <2>4
  <2>5. ASSUME NEW i, Written(i, u.person, Owners(i) # {})
        PROVE  Deleted(w) \/ Astray(w) \/ Same(w) \/ ByOwner(w) \/ Owners(w) = {}
    <3> DEFINE blind == Owners(i) # {}
    <3>1. blind \in BOOLEAN /\ Written(i, u.person, blind) /\ (i = w /\ ~blind => Owners(w) = {})
      BY <2>5
    <3> HIDE DEF blind
    <3> QED
      BY <1>2, <2>2, <3>1
  <2>6. CASE ApplyWorkos(u) /\ Written(u.id, None, FALSE)
    BY <1>2, <2>6
  <2> QED
    BY <2>1, <2>3, <2>4, <2>5, <2>6 DEF ApplyWorkos
<1>4. ASSUME NEW r \in Request, Step(r)
      PROVE  Deleted(w) \/ Astray(w) \/ Same(w) \/ ByOwner(w) \/ Owners(w) = {}
  <2>0. Shape(r) /\ KeyInv(r)
    BY DEF LinkInv, ClaimInv, Sound, Shapes, KeyInvs
  <2>1. ASSUME NEW v, Written(v, call[r].person, Blind(r, v)),
               call[r].op \in {"create", "replace"}, pc[r] = "legs",
               wleg[r].at \in {"put", "reput", "lookup", "post"},
               \/ wleg[r].at = "put" \/ v = wleg[r].key
               \/ workos[v] = call[r].person \/ Owners(v) = {}
        PROVE  Deleted(w) \/ Astray(w) \/ Same(w) \/ ByOwner(w) \/ Owners(w) = {}
    <3> DEFINE blind == Blind(r, v)
    <3>1. call[r].person \in Person
      BY <2>0, <2>1 DEF Shape
    <3>2. blind \in BOOLEAN /\ Written(v, call[r].person, blind)
      BY <2>1 DEF Blind
    <3>3. v = w /\ ~blind => workos[w] = call[r].person \/ Owners(w) = {} \/ ByOwner(w)
      <4> SUFFICES ASSUME v = w, ~blind, wleg[r].at = "put" \/ v = wleg[r].key
                   PROVE  ByOwner(w)
        BY <2>1
      <4>1. Owners(w) \subseteq {wleg[r].key} /\ claim = r
        BY DEF Blind
      <4>2. workos'[w] = call[r].person
        BY <1>0, <2>1 DEF Written
      <4> QED
        BY <2>1, <4>1, <4>2 DEF ByOwner
    <3> HIDE DEF blind
    <3> QED
      BY <1>2, <3>1, <3>2, <3>3
  <2>2. CASE MirrorPut(r)
    BY <2>0, <2>1, <2>2 DEF MirrorPut, Putting, Shape, Addressed
  <2>3. CASE MirrorPost(r)
    BY <2>0, <2>1, <2>3 DEF MirrorPost, At, KeyInv, Shape, Unused
  <2>4. CASE WorkosDeleted(r)
    BY <1>2, <2>4 DEF WorkosDeleted
  <2>5. CASE Compensate(r)
    BY <1>2, <2>5 DEF Compensate
  <2> QED
    BY <1>1, <1>4, <2>2, <2>3, <2>4, <2>5, WorkosMover
<1> QED
  BY <1>1, <1>3, <1>4 DEF Next, vars, upstream, history

(* What a request stores in id_mappings links two rows of one person. *)
LEMMA StoredTwins ==
    ASSUME LinkInv, Replacing, [Next]_vars, NEW n \in Id, NEW w \in Id,
           mapping'[n] = w, mapping[n] # w
    PROVE  /\ native[n] # None /\ workos[w] # None /\ w \notin astray => native[n] = workos[w]
           /\ UNCHANGED <<native, workos, astray>>
<1>1. PICK r \in Request : Step(r)
  BY DEF Next, LateWrite, vars, store
<1>2. RecoverRecord(r) \/ RecoverRecordFails(r) \/ Prune(r) \/ PruneFails(r) \/ Persist(r)
  BY <1>1, MappingMover DEF LinkInv
<1>3. /\ Shape(r) /\ KeyInv(r) /\ LandInv(r) /\ Named(r)
      /\ mapping \in [Id -> Id \cup {None}]
  BY DEF LinkInv, ClaimInv, Sound, TypeOK, StoreOK, Shapes, KeyInvs, LandInvs, Replacing
<1>4. UNCHANGED <<native, workos, astray>>
  BY <1>2 DEF RecoverRecord, RecoverRecordFails, Prune, PruneFails, Persist, upstream, history
<1>5. CASE Prune(r) \/ PruneFails(r)
  BY <1>3, <1>5, IdFacts DEF Prune, PruneFails
<1>6. CASE RecoverRecord(r) \/ RecoverRecordFails(r)
  <2>1. /\ pc[r] = "legs" /\ wleg[r].at = "record" /\ call[r].op = "replace"
        /\ n = wleg[r].key /\ w = wleg[r].sink
    BY <1>3, <1>6 DEF RecoverRecord, RecoverRecordFails, At, LinkInv, ClaimInv,
                      ReplaceRecovers, Cleanup
  <2>2. ~Stuck(r) /\ n = call[r].id
    BY <1>3, <2>1 DEF Stuck, KeyInv
  <2> QED
    BY <1>3, <1>4, <2>1, <2>2 DEF LandInv, WorkosLanded, Named
<1>7. CASE Persist(r)
  <2>1. /\ pc[r] = "persist" /\ call[r].op = "create" /\ ~Stuck(r) /\ Ended(r)
        /\ n = nleg[r].id /\ w = wleg[r].sink
    BY <1>3, <1>7 DEF Persist, Shape, Stuck, Ended
  <2> QED
    BY <1>3, <1>4, <2>1, IdFacts DEF LandInv, WorkosLanded, NativeLanded
<1> QED
  BY <1>2, <1>5, <1>6, <1>7

LEMMA NextTwins == LinkInv /\ Replacing /\ Twins /\ [Next]_vars => Twins'
<1> SUFFICES ASSUME LinkInv, Replacing, Twins, [Next]_vars, NEW n \in Id, NEW w \in Id,
                    mapping'[n] = w, native'[n] # None, workos'[w] # None, w \notin astray'
             PROVE  native'[n] = workos'[w]
  BY DEF Twins
<1>0. TypeOK /\ Shapes /\ ClaimInv
  BY DEF LinkInv, ClaimInv, Sound
<1>1. CASE mapping[n] # w
  BY <1>1, StoredTwins
<1>2. CASE mapping[n] = w
  <2>1. native'[n] = native[n]
    <3>1. n \notin Mintable
      BY <1>2, IdFacts DEF Mintable
    <3> QED
      BY <1>0, <3>1, NativeStep
  <2>2. n \in Owners(w)
    BY <1>2 DEF Owners
  <2>3. CASE Same(w)
    BY <1>2, <2>1, <2>3 DEF Same, Twins
  <2>4. CASE ByOwner(w)
    <3>1. PICK r \in Request :
              /\ call[r].op \in {"create", "replace"} /\ pc[r] = "legs"
              /\ wleg[r].at \in {"put", "reput", "lookup", "post"}
              /\ Owners(w) \subseteq {wleg[r].key}
              /\ workos'[w] = call[r].person
      BY <2>4 DEF ByOwner
    <3> QED
      BY <1>2, <2>1, <3>1, OwnPerson
  <2> QED
    BY <2>2, <2>3, <2>4, WorkosStep DEF Deleted, Astray
<1> QED
  BY <1>1, <1>2

PersonInv == LinkInv /\ Replacing /\ Twins

LEMMA InitPersonInv == Init => PersonInv
<1> SUFFICES ASSUME Init PROVE PersonInv
  OBVIOUS
<1>1. Replacing
  <2>1. NoCall.op = "none"
    BY DEF NoCall
  <2> QED
    BY <2>1 DEF Init, Replacing, Named
<1>2. Twins
  BY DEF Init, Inherited, Twins
<1> QED
  BY <1>1, <1>2, InitLinkInv DEF PersonInv

LEMMA NextPersonInv == PersonInv /\ [Next]_vars => PersonInv'
BY NextLinkInv, NextReplacing, NextTwins DEF PersonInv, LinkInv

LEMMA StepKeepsPersons ==
    ASSUME PersonInv, [Next]_vars
    PROVE  KeepsPersons
<1> SUFFICES ASSUME NEW n \in Id, NEW w \in Id,
                    mapping[n] = w, native[n] # None, workos[w] # None,
                    w \notin astray \cup astray'
             PROVE  workos'[w] \in {None, workos[w]}
  BY DEF KeepsPersons
<1>1. n \in Owners(w) /\ native[n] = workos[w]
  BY DEF Owners, PersonInv, Twins
<1>2. CASE ByOwner(w)
  <2>1. PICK r \in Request :
            /\ call[r].op \in {"create", "replace"} /\ pc[r] = "legs"
            /\ wleg[r].at \in {"put", "reput", "lookup", "post"}
            /\ Owners(w) \subseteq {wleg[r].key}
            /\ workos'[w] = call[r].person
    BY <1>2 DEF ByOwner
  <2> QED
    BY <1>1, <2>1, OwnPerson DEF PersonInv
<1> QED
  BY <1>1, <1>2, WorkosStep DEF Deleted, Astray, Same, PersonInv

(* No write that asked whose row it hits makes a linked row another person's, *)
(* for any number of requests, answers lost and claims left behind.          *)
THEOREM LinkedRowsKeepTheirPerson == Spec => MappedRowKeepsItsPerson
<1>1. Init => PersonInv
  BY InitPersonInv
<1>2. PersonInv /\ [Next]_vars => PersonInv'
  BY NextPersonInv
<1>3. PersonInv /\ [Next]_vars => [KeepsPersons]_vars
  BY StepKeepsPersons
<1> QED
  BY <1>1, <1>2, <1>3, PTL DEF Spec, MappedRowKeepsItsPerson

-----------------------------------------------------------------------------
(***************************************************************************)
(* Why no row is lost: each row is reachable through a mapping, or the     *)
(* claim still stands.  While the outcome of a claim is certain the one    *)
(* row without a mapping is the one its owner is about to store; and when  *)
(* a mapping moves on to another row, the row it leaves is gone.           *)
(***************************************************************************)

Recording(r) == pc[r] = "legs" /\ wleg[r].at = "record"

(* The claim is held by a handler that uses it, or by one that cannot tell   *)
(* what became of a write.                                                   *)
ClaimUsed == \A r \in Request : claim = r => Owns(r) \/ Stuck(r)

(* No other row carries the attribute of the row a leg ended on. *)
Alone(r) ==
    ~Stuck(r) /\ (Ended(r) \/ Recording(r))
    => \A v \in Id : workos[v] = call[r].person => v = wleg[r].sink \/ v \in astray

(* Past its conflict a leg has seen that there is no row at its own key. *)
KeyGone(r) ==
    ~Stuck(r) /\ pc[r] = "legs" =>
        /\ wleg[r].at = "lookup" => workos[wleg[r].key] = None
        /\ wleg[r].at = "record" => wleg[r].sink = wleg[r].key \/ workos[wleg[r].key] = None

InRecovery == {"post", "reput", "lookup", "record"}

(* What a recovery knows of the row its mapping led to: it is gone, or came   *)
(* back as this very person's.                                               *)
Replaced(r) ==
    call[r].op = "replace" /\ pc[r] = "legs" =>
        /\ wleg[r].at \in {"put", "recover"} \cup InRecovery => wleg[r].to \in Id
        /\ wleg[r].at \in InRecovery => mapping[wleg[r].key] = wleg[r].to
        /\ wleg[r].at \in {"recover"} \cup InRecovery /\ mapping[wleg[r].key] = wleg[r].to
           => \/ wleg[r].to = wleg[r].key
              \/ wleg[r].to \in astray \cup legacy.workos
              \/ workos[wleg[r].to] \in {None, call[r].person}

(* A row nobody maps that a recovery is about to store is at its own key, was *)
(* unlinked or astray before, or is new to every other recovery.             *)
NewRow(r) ==
    Recording(r) /\ Owners(wleg[r].sink) = {} =>
        \/ wleg[r].sink = wleg[r].key
        \/ wleg[r].sink \in astray \cup legacy.workos
        \/ \A s \in Request : call[s].op = "replace" /\ pc[s] = "legs"
                              => wleg[s].to # wleg[r].sink

NativeLinked(n) ==
    native[n] # None /\ mapping[n] = None /\ n \notin legacy.native =>
        /\ claim # None
        /\ \/ Stuck(claim)
           \/ /\ call[claim].op = "create" /\ pc[claim] \in {"legs", "persist"}
              /\ nleg[claim].id = n

WorkosLinked(w) ==
    workos[w] # None /\ Owners(w) = {} /\ w \notin legacy.workos \cup astray =>
        /\ claim # None
        /\ Stuck(claim) \/ (w = wleg[claim].sink /\ (Ended(claim) \/ Recording(claim)))

LegInv(r) == Alone(r) /\ KeyGone(r) /\ Replaced(r) /\ NewRow(r)

LegInvs == \A r \in Request : LegInv(r)

RowInv == \A i \in Id : NativeLinked(i) /\ WorkosLinked(i)

RowsInv == PersonInv /\ ClaimUsed /\ LegInvs /\ RowInv

LEMMA LegacyStill == [Next]_vars => legacy' = legacy
<1> SUFFICES ASSUME [Next]_vars PROVE legacy' = legacy
  OBVIOUS
<1>1. CASE LateWrite \/ UNCHANGED vars
  BY <1>1 DEF LateWrite, vars, history
<1>2. ASSUME NEW s \in Request, Step(s)
      PROVE  legacy' = legacy
  <2>1. CASE \/ ReceiveCreate(s) \/ ReceiveDelete(s) \/ ReceiveReplace(s)
             \/ TakeClaim(s) \/ ClaimBusy(s) \/ Release(s) \/ Die(s)
             \/ CheckCreate(s) \/ CreateRefused(s) \/ CheckDelete(s) \/ CheckReplace(s)
             \/ WriteRefused(s) \/ PreflightFails(s)
    BY <2>1 DEF ReceiveCreate, ReceiveDelete, ReceiveReplace, Receive, TakeClaim, ClaimBusy,
                Release, Die, CheckCreate, CreateRefused, CheckDelete, CheckReplace,
                WriteRefused, PreflightFails, StartLegs, history
  <2>2. CASE \/ NativeCreated(s) \/ NativeConflict(s) \/ NativeReplaced(s)
             \/ NativeDeleted(s) \/ NativeRejected(s) \/ NativeUnsure(s)
    BY <2>2 DEF NativeCreated, NativeConflict, NativeReplaced, NativeDeleted, NativeRejected,
                NativeUnsure, NativeDone, history
  <2>3. CASE \/ MirrorRead(s) \/ MirrorPut(s) \/ MirrorPutMissing(s) \/ MirrorPutRejected(s)
             \/ MirrorPutUnsure(s) \/ MirrorLookupFails(s) \/ MirrorPost(s)
             \/ MirrorPostConflict(s) \/ MirrorPostFails(s) \/ RecoverRefused(s)
             \/ WorkosDeleted(s) \/ WorkosDeleteFails(s)
    BY <2>3 DEF MirrorRead, MirrorPut, MirrorPutMissing, MirrorPutRejected, MirrorPutUnsure,
                MirrorLookupFails, MirrorPost, MirrorPostConflict, MirrorPostFails,
                RecoverRefused, WorkosDeleted, WorkosDeleteFails, Elsewhere
  <2>4. CASE \/ RecoverClaim(s) \/ RecoverRecord(s) \/ RecoverRecordFails(s)
             \/ RecoverUnclaim(s) \/ FinishReplace(s) \/ FinishDelete(s) \/ Prune(s)
             \/ PruneFails(s) \/ CreateFailed(s) \/ CreateLanded(s) \/ Compensate(s)
             \/ CompensateFails(s) \/ Persist(s) \/ Settle(s)
    BY <2>4 DEF RecoverClaim, RecoverRecord, RecoverRecordFails, RecoverUnclaim, FinishReplace,
                FinishDelete, Prune, PruneFails, CreateFailed, CreateLanded, Compensate,
                CompensateFails, Persist, Settle, history
  <2> QED
    BY <1>2, <2>1, <2>2, <2>3, <2>4 DEF Step
<1> QED
  BY <1>1, <1>2 DEF Next

(* A stuck request stays stuck and keeps its claim, whoever moves. *)
LEMMA StuckForGood ==
    ASSUME ClaimInv, [Next]_vars, NEW r \in Request, claim = r, Stuck(r)
    PROVE  claim' = r /\ Stuck(r)'
<1>1. CASE LateWrite \/ UNCHANGED vars
  BY <1>1 DEF LateWrite, vars, store, local, Stuck
<1>2. CASE Step(r)
  BY <1>2, StuckStays DEF ClaimInv
<1>3. ASSUME NEW s \in Request, Step(s), s # r
      PROVE  claim' = r /\ Stuck(r)'
  BY <1>3, StepHolds, IdFacts DEF ClaimInv, OthersUnmoved, Stuck
<1> QED
  BY <1>1, <1>2, <1>3 DEF Next

(* What another's step, a late write or none leaves of a request. *)
Unmoved(r) == /\ call'[r] = call[r] /\ pc'[r] = pc[r]
              /\ nleg'[r] = nleg[r] /\ wleg'[r] = wleg[r]

LEMMA OthersStep ==
    ASSUME ClaimInv, [Next]_vars, NEW r \in Request, ~Step(r)
    PROVE  Unmoved(r) /\ (claim = r => claim' = r)
<1>1. CASE LateWrite \/ UNCHANGED vars
  BY <1>1 DEF LateWrite, vars, store, local, Unmoved
<1>2. ASSUME NEW s \in Request, Step(s), s # r
      PROVE  Unmoved(r) /\ (claim = r => claim' = r)
  BY <1>2, StepHolds, IdFacts DEF ClaimInv, OthersUnmoved, Unmoved
<1> QED
  BY <1>1, <1>2 DEF Next

LEMMA StillStuck ==
    ASSUME NEW r \in Request, Unmoved(r)
    PROVE  /\ Stuck(r)' <=> Stuck(r)
           /\ Owns(r)' <=> Owns(r)
           /\ Ended(r)' <=> Ended(r)
           /\ Recording(r)' <=> Recording(r)
BY DEF Unmoved, Stuck, Owns, Ended, Recording

LEMMA ClaimMover ==
    ASSUME NEW s \in Request, Step(s)
    PROVE  /\ claim' \in {claim, None, s}
           /\ claim' # claim => TakeClaim(s) \/ RecoverClaim(s) \/ claim' = None
<1>1. CASE \/ ReceiveCreate(s) \/ ReceiveDelete(s) \/ ReceiveReplace(s)
           \/ TakeClaim(s) \/ ClaimBusy(s) \/ Release(s) \/ Die(s)
           \/ CheckCreate(s) \/ CreateRefused(s) \/ CheckDelete(s) \/ CheckReplace(s)
           \/ WriteRefused(s) \/ PreflightFails(s)
  BY <1>1 DEF ReceiveCreate, ReceiveDelete, ReceiveReplace, Receive, TakeClaim, ClaimBusy,
              Release, Die, CheckCreate, CreateRefused, CheckDelete, CheckReplace,
              WriteRefused, PreflightFails, StartLegs, store
<1>2. CASE \/ NativeCreated(s) \/ NativeConflict(s) \/ NativeReplaced(s)
           \/ NativeDeleted(s) \/ NativeRejected(s) \/ NativeUnsure(s)
  BY <1>2 DEF NativeCreated, NativeConflict, NativeReplaced, NativeDeleted, NativeRejected,
              NativeUnsure, NativeDone, store
<1>3. CASE \/ MirrorRead(s) \/ MirrorPut(s) \/ MirrorPutMissing(s) \/ MirrorPutRejected(s)
           \/ MirrorPutUnsure(s) \/ MirrorLookupFails(s) \/ MirrorPost(s)
           \/ MirrorPostConflict(s) \/ MirrorPostFails(s) \/ RecoverRefused(s)
           \/ WorkosDeleted(s) \/ WorkosDeleteFails(s)
  BY <1>3 DEF MirrorRead, MirrorPut, MirrorPutMissing, MirrorPutRejected, MirrorPutUnsure,
              MirrorLookupFails, MirrorPost, MirrorPostConflict, MirrorPostFails,
              RecoverRefused, WorkosDeleted, WorkosDeleteFails, Elsewhere
<1>4. CASE \/ RecoverClaim(s) \/ RecoverRecord(s) \/ RecoverRecordFails(s)
           \/ RecoverUnclaim(s) \/ FinishReplace(s) \/ FinishDelete(s) \/ Prune(s)
           \/ PruneFails(s) \/ CreateFailed(s) \/ CreateLanded(s) \/ Compensate(s)
           \/ CompensateFails(s) \/ Persist(s) \/ Settle(s)
  BY <1>4 DEF RecoverClaim, RecoverRecord, RecoverRecordFails, RecoverUnclaim, FinishReplace,
              FinishDelete, Prune, PruneFails, CreateFailed, CreateLanded, Compensate,
              CompensateFails, Persist, Settle, store
<1> QED
  BY <1>1, <1>2, <1>3, <1>4 DEF Step

(* A leg that recovers a row goes on doing so, gives the claim back, or does  *)
(* not know what became of its write.                                         *)
LEMMA RecoveryGoesOn ==
    ASSUME ClaimInv, NEW r \in Request, call[r].op = "replace", wleg[r].at \in Recovery,
           \/ MirrorRead(r) \/ MirrorPut(r) \/ MirrorPutMissing(r) \/ MirrorPutRejected(r)
           \/ MirrorPutUnsure(r) \/ MirrorLookupFails(r) \/ MirrorPost(r)
           \/ MirrorPostConflict(r) \/ MirrorPostFails(r) \/ RecoverRefused(r)
           \/ WorkosDeleted(r) \/ WorkosDeleteFails(r)
    PROVE  \/ wleg'[r].at \in Recovery
           \/ wleg'[r].at = "done" /\ wleg'[r].stat = "unsure"
<1>0. LocalOK
  BY DEF ClaimInv, Sound, TypeOK
<1>1. CASE MirrorPut(r) \/ MirrorPost(r)
  <2>1. PICK w, fresh : Mirrored(r, w, fresh) /\ Recovering(r)
    BY <1>1 DEF MirrorPut, MirrorPost, Putting, At, Recovery, Cleanup, Recovering
  <2> QED
    BY <1>0, <2>1, MirroredLeg DEF Recovery, Cleanup
<1>2. CASE MirrorPutMissing(r) \/ MirrorPostConflict(r)
  <2>1. \E at \in {"lookup", "reput"} : Goto(r, at)
    BY <1>2 DEF MirrorPutMissing, MirrorPostConflict, Recovery, Cleanup
  <2> QED
    BY <1>0, <2>1, GotoLeg DEF Recovery
<1>3. CASE \/ MirrorPutRejected(r) \/ MirrorPutUnsure(r) \/ MirrorLookupFails(r)
           \/ MirrorPostFails(r)
  <2>1. PICK stat : MirrorFailed(r, stat) /\ Recovering(r)
    BY <1>3 DEF MirrorPutRejected, MirrorPutUnsure, MirrorLookupFails, MirrorPostFails,
                Putting, At, Recovery, Cleanup, Recovering
  <2> QED
    BY <1>0, <2>1, MirrorFailedLeg DEF Recovery, Cleanup
<1>4. CASE MirrorRead(r) \/ RecoverRefused(r) \/ WorkosDeleted(r) \/ WorkosDeleteFails(r)
  BY <1>4 DEF MirrorRead, RecoverRefused, WorkosDeleted, WorkosDeleteFails, At, Recovery, Cleanup
<1> QED
  BY <1>1, <1>2, <1>3, <1>4

LEMMA OwnStep ==
    ASSUME ClaimInv, KeyInvs, NEW r \in Request, Step(r), Shape(r)', claim = r, claim' = r,
           Owns(r), ~Stuck(r)
    PROVE  Owns(r)' \/ Stuck(r)'
<1>0. Sound /\ LocalOK /\ Shape(r) /\ KeyInv(r) /\ r # None
  BY IdFacts DEF ClaimInv, Sound, TypeOK, Shapes, KeyInvs
<1>1. CASE ReceiveCreate(r) \/ ReceiveDelete(r) \/ ReceiveReplace(r) \/ TakeClaim(r)
  BY <1>0, <1>1 DEF ReceiveCreate, ReceiveDelete, ReceiveReplace, Receive, TakeClaim, Owns
<1>2. CASE \/ ClaimBusy(r) \/ Release(r) \/ Die(r) \/ CreateRefused(r) \/ WriteRefused(r)
           \/ PreflightFails(r) \/ FinishReplace(r) \/ FinishDelete(r) \/ Prune(r)
           \/ PruneFails(r) \/ CreateFailed(r) \/ CreateLanded(r) \/ Compensate(r)
           \/ CompensateFails(r) \/ Persist(r) \/ Settle(r)
  <2>1. PICK next \in {"release", "prune", "compensate", "persist", "settle", "done", "dead"} :
            Go(r, next)
    BY <1>2, GoSummary
  <2>2. pc'[r] = next
    BY <1>0, <2>1, GoLocal
  <2>3. CASE next \in {"done", "dead"}
    BY <2>2, <2>3 DEF Stuck
  <2>4. CASE next \notin {"done", "dead"}
    BY <2>2, <2>4 DEF Shape, Owns
  <2> QED
    BY <2>3, <2>4
<1>3. CASE CheckCreate(r) \/ CheckDelete(r) \/ CheckReplace(r)
  <2>1. pc[r] = "check" /\ \E at, key, to, owner : StartLegs(r, at, key, to, owner)
    BY <1>3 DEF CheckCreate, CheckDelete, CheckReplace
  <2>2. pc'[r] = "legs" /\ call' = call
    BY <1>0, <2>1, StartLegsLocal
  <2> QED
    BY <2>1, <2>2 DEF Owns
<1>4. CASE \/ NativeCreated(r) \/ NativeConflict(r) \/ NativeReplaced(r)
           \/ NativeDeleted(r) \/ NativeRejected(r) \/ NativeUnsure(r)
  <2>1. /\ UNCHANGED <<call, pc>> /\ pc[r] = "legs"
        /\ wleg'[r] = wleg[r] \/ wleg[r].at = "wait"
    BY <1>0, <1>4, NativeSummary
  <2> QED
    BY <1>0, <2>1 DEF KeyInv, Owns
<1>5. CASE \/ MirrorRead(r) \/ MirrorPut(r) \/ MirrorPutMissing(r) \/ MirrorPutRejected(r)
           \/ MirrorPutUnsure(r) \/ MirrorLookupFails(r) \/ MirrorPost(r)
           \/ MirrorPostConflict(r) \/ MirrorPostFails(r) \/ RecoverRefused(r)
           \/ WorkosDeleted(r) \/ WorkosDeleteFails(r)
  <2>1. UNCHANGED <<call, pc>> /\ pc[r] = "legs"
    BY <1>0, <1>5, MirrorSummary
  <2>2. CASE call[r].op = "replace"
    <3>1. \/ wleg'[r].at \in Recovery
          \/ wleg'[r].at = "done" /\ wleg'[r].stat = "unsure"
      BY <1>5, <2>2, RecoveryGoesOn DEF Owns
    <3> QED
      BY <2>1, <2>2, <3>1 DEF Owns, Stuck, Doubtful
  <2> QED
    BY <2>1, <2>2 DEF Owns
<1>6. CASE RecoverRecord(r)
  <2>1. wleg'[r].at = "unclaim" /\ UNCHANGED <<call, pc>> /\ pc[r] = "legs"
    BY <1>0, <1>6, GotoLeg DEF RecoverRecord, At
  <2> QED
    BY <2>1 DEF Owns, Recovery, Cleanup
<1>7. CASE RecoverRecordFails(r)
  <2> DEFINE leg == [wleg[r] EXCEPT !.stat = "unsure", !.at = "done"]
  <2>1. leg.at = "done" /\ leg.stat = "unsure" /\ wleg'[r] = leg
    BY <1>0, <1>7 DEF RecoverRecordFails, LocalOK, WorkosLeg
  <2> HIDE DEF leg
  <2>2. UNCHANGED <<call, pc>> /\ pc[r] = "legs"
    BY <1>7 DEF RecoverRecordFails, At
  <2> QED
    BY <2>1, <2>2 DEF Stuck, Doubtful
<1>8. CASE RecoverClaim(r) \/ RecoverUnclaim(r)
  BY <1>0, <1>8 DEF RecoverClaim, RecoverUnclaim
<1> QED
  BY <1>1, <1>2, <1>3, <1>4, <1>5, <1>6, <1>7, <1>8 DEF Step

LEMMA NextClaimUsed == ClaimInv /\ KeyInvs /\ ClaimUsed /\ [Next]_vars => ClaimUsed'
<1> SUFFICES ASSUME ClaimInv, KeyInvs, ClaimUsed, [Next]_vars, NEW r \in Request, claim' = r
             PROVE  Owns(r)' \/ Stuck(r)'
  BY DEF ClaimUsed
<1>0. Sound /\ LocalOK /\ Shape(r) /\ KeyInv(r) /\ r # None /\ Shape(r)'
  <2>1. ClaimInv'
    BY NextClaimInv
  <2> QED
    BY <2>1, IdFacts DEF ClaimInv, Sound, TypeOK, Shapes, KeyInvs
<1>1. CASE ~Step(r)
  <2>1. Unmoved(r)
    BY <1>1, OthersStep
  <2>2. claim = r
    <3>1. CASE LateWrite \/ UNCHANGED vars
      BY <3>1 DEF LateWrite, vars, store
    <3>2. ASSUME NEW s \in Request, Step(s)
          PROVE  claim = r
      BY <1>0, <1>1, <3>2, ClaimMover
    <3> QED
      BY <3>1, <3>2 DEF Next
  <2> QED
    BY <2>1, <2>2, StillStuck DEF ClaimUsed
<1>2. CASE Step(r) /\ claim = r /\ Stuck(r)
  BY <1>2, StuckForGood
<1>3. CASE Step(r) /\ claim = r /\ ~Stuck(r)
  BY <1>0, <1>3, OwnStep DEF ClaimUsed
<1>4. CASE Step(r) /\ claim # r
  <2>1. TakeClaim(r) \/ RecoverClaim(r)
    BY <1>0, <1>4, ClaimMover
  <2>2. CASE TakeClaim(r)
    BY <1>0, <2>2 DEF TakeClaim, Owns, LocalOK, Shape
  <2>3. CASE RecoverClaim(r)
    <3>1. /\ wleg'[r].at = "post" /\ pc[r] = "legs" /\ UNCHANGED <<call, pc>>
          /\ wleg[r].at = "recover"
      BY <1>0, <2>3, GotoLeg DEF RecoverClaim, At
    <3>2. call[r].op = "replace"
      BY <1>0, <3>1 DEF KeyInv
    <3> QED
      BY <3>1, <3>2 DEF Owns, Recovery
  <2> QED
    BY <2>1, <2>2, <2>3
<1> QED
  BY <1>1, <1>2, <1>3, <1>4

(* A leg that ended on a row either ends on it now, by a PUT or a POST of its *)
(* own, or did so before.                                                     *)
LEMMA EndedFrom ==
    ASSUME ClaimInv, NEW r \in Request, KeyInv(r), Step(r), ~Stuck(r)',
           Ended(r)' \/ Recording(r)'
    PROVE  \/ MirrorPut(r) \/ MirrorPost(r)
           \/ /\ call'[r] = call[r] /\ wleg'[r] = wleg[r] /\ ~Stuck(r)
              /\ Ended(r)' <=> Ended(r)
              /\ Recording(r)' <=> Recording(r)
              /\ UNCHANGED <<mapping, workos, astray>>
<1>0. Sound /\ LocalOK /\ Shape(r) /\ wleg[r] \in WorkosLeg
  BY DEF ClaimInv, Sound, TypeOK, Shapes, LocalOK
<1>1. pc'[r] \in {"legs", "compensate", "persist"}
  BY DEF Ended, Recording
<1>2. CASE \/ ReceiveCreate(r) \/ ReceiveDelete(r) \/ ReceiveReplace(r) \/ TakeClaim(r)
  BY <1>0, <1>1, <1>2 DEF ReceiveCreate, ReceiveDelete, ReceiveReplace, Receive, TakeClaim, LocalOK
<1>3. CASE \/ ClaimBusy(r) \/ Release(r) \/ Die(r) \/ CreateRefused(r) \/ WriteRefused(r)
           \/ PreflightFails(r) \/ FinishReplace(r) \/ FinishDelete(r) \/ Prune(r)
           \/ PruneFails(r) \/ CreateFailed(r) \/ Compensate(r)
           \/ CompensateFails(r) \/ Persist(r) \/ Settle(r)
  <2>1. \E next \in {"release", "prune", "settle", "done", "dead"} : Go(r, next)
    BY <1>3 DEF ClaimBusy, Release, Die, CreateRefused, WriteRefused, PreflightFails,
                FinishReplace, FinishDelete, Prune, PruneFails, CreateFailed, Compensate,
                CompensateFails, Persist, Settle
  <2> QED
    BY <1>0, <1>1, <2>1, GoLocal
<1>4. CASE CreateLanded(r)
  <2>1. PICK next \in {"compensate", "persist"} : Go(r, next)
    BY <1>4 DEF CreateLanded
  <2>2. pc'[r] = next /\ UNCHANGED <<call, nleg, wleg>>
    BY <1>0, <2>1, GoLocal
  <2>3. /\ call[r].op = "create" /\ pc[r] = "legs" /\ wleg[r].at = "done" /\ wleg[r].stat = "ok"
        /\ nleg[r].id # None \/ nleg[r].stat = "rejected"
    BY <1>4 DEF CreateLanded, Compensable, NativeRefusedCreate, LegsDone, InLegs
  <2>4. ~Stuck(r) /\ Ended(r) /\ Ended(r)'
    BY <2>2, <2>3 DEF Stuck, Doubtful, Ended
  <2>5. ~Recording(r) /\ ~Recording(r)'
    BY <2>2, <2>3 DEF Recording
  <2> QED
    BY <1>4, <2>2, <2>4, <2>5 DEF CreateLanded, store, upstream, history
<1>5. CASE CheckCreate(r) \/ CheckDelete(r) \/ CheckReplace(r)
  <2>1. PICK at, key, to, owner : StartLegs(r, at, key, to, owner) /\ at \in {"wait", "read", "put"}
    BY <1>5 DEF CheckCreate, CheckDelete, CheckReplace
  <2>2. pc'[r] = "legs" /\ wleg'[r].at \in {"wait", "read", "put"}
    BY <1>0, <2>1, StartLegsLocal
  <2> QED
    BY <2>2 DEF Ended, Recording
<1>6. CASE \/ NativeCreated(r) \/ NativeConflict(r) \/ NativeReplaced(r)
           \/ NativeDeleted(r) \/ NativeRejected(r) \/ NativeUnsure(r)
  <2>1. PICK stat \in Stats \ {"none"}, i \in Id \cup {None} : NativeDone(r, stat, i)
    BY <1>6, NativeOutcome
  <2>2. /\ UNCHANGED <<mapping, call, pc>> /\ pc[r] = "legs" /\ nleg[r].stat = "none"
        /\ nleg'[r].stat = stat /\ nleg'[r].id = i
    BY <1>0, <1>6, <2>1, NativeSummary, NativeLocal
  <2>3. UNCHANGED <<workos, astray>>
    BY <1>6 DEF NativeCreated, NativeConflict, NativeReplaced, NativeDeleted, NativeRejected,
           NativeUnsure, NativeDone, upstream, history
  <2>4. \/ wleg'[r] = wleg[r]
        \/ wleg'[r].at = "read"
        \/ wleg'[r].at = "done" /\ wleg'[r].stat = "none"
    <3>1. wleg[r].at = "wait" => wleg[r].stat = "none"
      BY <2>2 DEF KeyInv
    <3> QED
      BY <1>0, <2>1, <3>1, NativeLeftLeg
  <2>5. wleg'[r] = wleg[r]
    BY <2>2, <2>4 DEF Ended, Recording
  <2>6. Stuck(r)' \/ ~Stuck(r)
    BY <2>2, <2>5 DEF Stuck, Doubtful
  <2> QED
    BY <2>2, <2>3, <2>5, <2>6 DEF Ended, Recording
<1>7. CASE \/ MirrorRead(r) \/ MirrorPutMissing(r) \/ MirrorPutRejected(r)
           \/ MirrorPutUnsure(r) \/ MirrorLookupFails(r)
           \/ MirrorPostConflict(r) \/ MirrorPostFails(r) \/ RecoverRefused(r)
           \/ WorkosDeleted(r) \/ WorkosDeleteFails(r)
  <2>1. UNCHANGED <<call, pc>> /\ pc[r] = "legs"
    BY <1>0, <1>7, MirrorSummary
  <2>2. ASSUME NEW stat, MirrorFailed(r, stat), stat # "ok"
        PROVE  FALSE
    <3>1. wleg'[r].at \in {"unclaim", "done"} /\ wleg'[r].stat # "ok"
      BY <1>0, <2>2, MirrorFailedLeg
    <3> QED
      BY <2>1, <3>1 DEF Ended, Recording
  <2>3. ASSUME NEW at \in {"lookup", "recover", "post", "reput"}, Goto(r, at)
        PROVE  FALSE
    <3>1. wleg'[r].at = at
      BY <1>0, <2>3, GotoLeg
    <3> QED
      BY <2>1, <3>1 DEF Ended, Recording
  <2>4. CASE MirrorRead(r)
    <3> DEFINE to == IF mapping[wleg[r].key] # None THEN mapping[wleg[r].key] ELSE wleg[r].key
    <3>1. CASE MirrorReadFails(r, to)
      BY <2>2, <3>1 DEF MirrorReadFails
    <3>2. CASE wleg' = [wleg EXCEPT ![r] = [wleg[r] EXCEPT !.at = "put", !.to = to]]
      <4> DEFINE leg == [wleg[r] EXCEPT !.at = "put", !.to = to]
      <4>2. wleg' = [wleg EXCEPT ![r] = leg]
        BY <3>2
      <4>3. leg.at = "put"
        <5> HIDE DEF to
        <5> QED
          BY <1>0 DEF WorkosLeg
      <4> HIDE DEF leg
      <4>4. wleg'[r].at = "put"
        BY <1>0, <4>2, <4>3 DEF LocalOK
      <4> QED
        BY <2>1, <4>4 DEF Ended, Recording
    <3> QED
      BY <2>4, <3>1, <3>2 DEF MirrorRead
  <2>5. CASE MirrorPutMissing(r) \/ MirrorPostConflict(r)
    BY <2>3, <2>5 DEF MirrorPutMissing, MirrorPostConflict
  <2>6. CASE \/ MirrorPutRejected(r) \/ MirrorPutUnsure(r) \/ MirrorLookupFails(r)
             \/ MirrorPostFails(r) \/ RecoverRefused(r) \/ WorkosDeleteFails(r)
    BY <2>2, <2>6 DEF MirrorPutRejected, MirrorPutUnsure, MirrorLookupFails, MirrorPostFails,
                RecoverRefused, WorkosDeleteFails
  <2>7. CASE WorkosDeleted(r)
    <3>1. PICK stat :
              wleg' = [wleg EXCEPT ![r] = [wleg[r] EXCEPT !.at = "done", !.stat = stat]]
      BY <2>7 DEF WorkosDeleted
    <3> DEFINE leg == [wleg[r] EXCEPT !.at = "done", !.stat = stat]
    <3>2. leg.at = "done" /\ wleg'[r] = leg
      BY <1>0, <3>1 DEF LocalOK, WorkosLeg
    <3> HIDE DEF leg
    <3> QED
      BY <2>1, <2>7, <3>2 DEF WorkosDeleted, Ended, Recording
  <2> QED
    BY <1>7, <2>4, <2>5, <2>6, <2>7
<1>8. CASE RecoverClaim(r) \/ RecoverRecord(r) \/ RecoverRecordFails(r) \/ RecoverUnclaim(r)
  <2>1. pc[r] = "legs" /\ wleg[r].at \in {"recover"} \cup Cleanup /\ UNCHANGED <<call, pc>>
    BY <1>8 DEF RecoverClaim, RecoverRecord, RecoverRecordFails, RecoverUnclaim, At, Cleanup
  <2>2. call[r].op = "replace"
    BY <2>1 DEF KeyInv, ClaimInv, ReplaceRecovers
  <2>3. wleg'[r].at \in {"post", "unclaim", "done"}
    <3>1. CASE RecoverClaim(r) \/ RecoverRecord(r) \/ RecoverUnclaim(r)
      BY <1>0, <3>1, GotoLeg DEF RecoverClaim, RecoverRecord, RecoverUnclaim
    <3>2. CASE RecoverRecordFails(r)
      <4> DEFINE leg == [wleg[r] EXCEPT !.stat = "unsure", !.at = "done"]
      <4>1. leg.at = "done" /\ wleg'[r] = leg
        BY <1>0, <3>2 DEF RecoverRecordFails, LocalOK, WorkosLeg
      <4> HIDE DEF leg
      <4> QED
        BY <4>1
    <3> QED
      BY <1>8, <3>1, <3>2
  <2> QED
    BY <2>1, <2>2, <2>3 DEF Ended, Recording
<1> QED
  BY <1>2, <1>3, <1>4, <1>5, <1>6, <1>7, <1>8 DEF Step

(* What a PUT or a POST that succeeds has seen of the row it ends on. *)
EndsOn(r, w) ==
    /\ wleg'[r].sink = w /\ wleg'[r].stat = "ok" /\ SameKey(r) /\ SameTo(r)
    /\ wleg'[r].at = IF Recovering(r) THEN "record" ELSE "done"
    /\ Written(w, call[r].person, Blind(r, w)) /\ CanHold(workos, call[r].person, w)
    /\ \/ wleg[r].at = "put" /\ w = wleg[r].to
       \/ wleg[r].at = "reput" /\ w = wleg[r].key
       \/ /\ wleg[r].at = "lookup" /\ workos[w] = call[r].person
          /\ Owners(w) \subseteq {wleg[r].key}
       \/ /\ wleg[r].at = "post" /\ workos[wleg[r].key] = None
          /\ w = wleg[r].key \/ Unused(w)

LEMMA EndsNow ==
    ASSUME ClaimInv, NEW r \in Request, KeyInv(r), MirrorPut(r) \/ MirrorPost(r)
    PROVE  /\ \E w \in Id : EndsOn(r, w)
           /\ UNCHANGED <<claim, mapping, native, call, pc, nleg>>
           /\ pc[r] = "legs" /\ call[r].op \in {"create", "replace"}
           /\ wleg[r].key \in Id
<1>0. Sound /\ LocalOK /\ Shape(r)
  BY DEF ClaimInv, Sound, TypeOK, Shapes
<1>1. UNCHANGED <<claim, mapping, native, call, pc, nleg>> /\ pc[r] = "legs"
  BY DEF MirrorPut, MirrorPost, Putting, At, Elsewhere
<1>2. wleg[r].at \in {"put", "reput", "lookup", "post"}
  BY DEF MirrorPut, MirrorPost, Putting, At
<1>3. call[r].op \in {"create", "replace"}
  BY <1>0, <1>1, <1>2 DEF MirrorPut, MirrorPost, Putting, At, KeyInv, Shape
<1>4. wleg[r].key \in Id
  BY <1>0, <1>1, <1>2, <1>3 DEF KeyInv, HasKey, Keyed, Shape
<1>5. CASE MirrorPut(r)
  <2>1. PICK w \in Addressed(r) :
            /\ CanHold(workos, call[r].person, w)
            /\ Written(w, call[r].person, Blind(r, w))
            /\ Mirrored(r, w, FALSE)
    BY <1>5 DEF MirrorPut
  <2>2. /\ wleg'[r].sink = w /\ wleg'[r].stat = "ok" /\ SameKey(r) /\ SameTo(r)
        /\ wleg'[r].at = IF Recovering(r) THEN "record" ELSE "done"
    BY <1>0, <2>1, MirroredLeg
  <2>3. w \in Id /\ EndsOn(r, w)
    BY <2>1, <2>2 DEF Addressed, EndsOn
  <2> QED
    BY <1>1, <1>3, <1>4, <2>3
<1>6. CASE MirrorPost(r)
  <2>1. PICK w \in {wleg[r].key} \cup {i \in MintedId : Unused(i)} :
            /\ Written(w, call[r].person, Blind(r, w))
            /\ Mirrored(r, w, TRUE)
    BY <1>6 DEF MirrorPost
  <2>2. /\ wleg'[r].sink = w /\ wleg'[r].stat = "ok" /\ SameKey(r) /\ SameTo(r)
        /\ wleg'[r].at = IF Recovering(r) THEN "record" ELSE "done"
    BY <1>0, <2>1, MirroredLeg
  <2>3. Holders(workos, call[r].person) = {} /\ workos[wleg[r].key] = None /\ wleg[r].at = "post"
    BY <1>6 DEF MirrorPost, PostTaken, At
  <2>4. w \in Id
    BY <1>4, <2>1, IdFacts
  <2>5. EndsOn(r, w)
    BY <2>1, <2>2, <2>3 DEF EndsOn, CanHold
  <2> QED
    BY <1>1, <1>3, <1>4, <2>4, <2>5
<1> QED
  BY <1>5, <1>6

LEMMA NextAlone ==
    ASSUME ClaimInv, LatePuts, KeyInvs, [Next]_vars, NEW r \in Request, Alone(r)
    PROVE  Alone(r)'
<1> SUFFICES ASSUME ~Stuck(r)', Ended(r)' \/ Recording(r)', NEW v \in Id,
                    workos'[v] = call'[r].person
             PROVE  v = wleg'[r].sink \/ v \in astray'
  BY DEF Alone
<1>0. TypeOK /\ workos \in [Id -> Person \cup {None}] /\ KeyInv(r)
  BY DEF ClaimInv, Sound, TypeOK, UpstreamOK, KeyInvs
<1>1. CASE ~Step(r)
  <2>1. Unmoved(r)
    BY <1>1, OthersStep
  <2>2. ~Stuck(r) /\ (Ended(r) \/ Recording(r))
    BY <2>1, StillStuck
  <2>3. Owns(r)
    BY <2>2 DEF Ended, Recording, Owns, Recovery, Cleanup, ClaimInv, ReplaceRecovers
  <2>4. Aside
    BY <1>1, <2>2, <2>3, OthersAside
  <2> QED
    BY <2>1, <2>2, <2>4 DEF Aside, Drifts, Unmoved, Alone
<1>2. CASE MirrorPut(r) \/ MirrorPost(r)
  <2>1. PICK w \in Id : EndsOn(r, w)
    BY <1>0, <1>2, EndsNow
  <2>2. call' = call
    BY <1>0, <1>2, EndsNow
  <2>3. workos' = [workos EXCEPT ![w] = call[r].person]
    BY <2>1 DEF EndsOn, Written
  <2> QED
    BY <1>0, <2>1, <2>2, <2>3 DEF EndsOn, CanHold, Holders
<1>3. CASE /\ call'[r] = call[r] /\ wleg'[r] = wleg[r] /\ ~Stuck(r)
           /\ Ended(r)' <=> Ended(r)
           /\ Recording(r)' <=> Recording(r)
           /\ UNCHANGED <<mapping, workos, astray>>
  BY <1>3 DEF Alone
<1> QED
  BY <1>0, <1>1, <1>2, <1>3, EndedFrom

(* Which steps take a leg where, while it recovers a row or looks one up. *)
LEMMA LookupFrom ==
    ASSUME ClaimInv, NEW r \in Request, KeyInv(r), Step(r), pc'[r] = "legs",
           wleg'[r].at = "lookup"
    PROVE  /\ UNCHANGED <<workos, astray, mapping>>
           /\ \/ MirrorPutMissing(r) /\ workos[wleg[r].key] = None /\ SameKey(r)
              \/ pc[r] = "legs" /\ wleg'[r] = wleg[r] /\ call'[r] = call[r] /\ claim' = claim
<1>0. Sound /\ LocalOK /\ Shape(r) /\ wleg[r] \in WorkosLeg
  BY DEF ClaimInv, Sound, TypeOK, Shapes, LocalOK
<1>2. CASE \/ ReceiveCreate(r) \/ ReceiveDelete(r) \/ ReceiveReplace(r) \/ TakeClaim(r)
  BY <1>0, <1>2 DEF ReceiveCreate, ReceiveDelete, ReceiveReplace, Receive, TakeClaim, LocalOK
<1>3. CASE \/ ClaimBusy(r) \/ Release(r) \/ Die(r) \/ CreateRefused(r) \/ WriteRefused(r)
           \/ PreflightFails(r) \/ FinishReplace(r) \/ FinishDelete(r) \/ Prune(r)
           \/ PruneFails(r) \/ CreateFailed(r) \/ CreateLanded(r) \/ Compensate(r)
           \/ CompensateFails(r) \/ Persist(r) \/ Settle(r)
  BY <1>0, <1>3, GoSummary, GoLocal
<1>5. CASE CheckCreate(r) \/ CheckDelete(r) \/ CheckReplace(r)
  <2>1. PICK at, key, to, owner : StartLegs(r, at, key, to, owner) /\ at \in {"wait", "read", "put"}
    BY <1>5 DEF CheckCreate, CheckDelete, CheckReplace
  <2> QED
    BY <1>0, <2>1, StartLegsLocal
<1>6. CASE \/ NativeCreated(r) \/ NativeConflict(r) \/ NativeReplaced(r)
           \/ NativeDeleted(r) \/ NativeRejected(r) \/ NativeUnsure(r)
  <2>1. /\ UNCHANGED <<claim, mapping, call, pc>> /\ pc[r] = "legs" /\ wleg'[r] = wleg[r]
    BY <1>0, <1>6, NativeSummary
  <2>2. UNCHANGED <<workos, astray>>
    BY <1>6 DEF NativeCreated, NativeConflict, NativeReplaced, NativeDeleted, NativeRejected,
           NativeUnsure, NativeDone, upstream, history
  <2> QED
    BY <2>1, <2>2
<1>7. CASE MirrorPutMissing(r)
  <2>1. PICK w \in Addressed(r) : workos[w] = None
    BY <1>7 DEF MirrorPutMissing
  <2>2. wleg[r].at = "reput" /\ Goto(r, "lookup")
    <3>1. ASSUME NEW at \in {"recover", "post"}, Goto(r, at)
          PROVE  FALSE
      BY <1>0, <3>1, GotoLeg
    <3> QED
      BY <1>7, <3>1 DEF MirrorPutMissing
  <2>3. w = wleg[r].key /\ SameKey(r)
    BY <1>0, <2>1, <2>2, GotoLeg DEF Addressed
  <2> QED
    BY <1>7, <2>1, <2>3 DEF MirrorPutMissing, Elsewhere
<1>8. CASE \/ MirrorPut(r) \/ MirrorPutRejected(r)
           \/ MirrorPutUnsure(r) \/ MirrorLookupFails(r) \/ MirrorPost(r)
           \/ MirrorPostFails(r) \/ RecoverRefused(r) \/ WorkosDeleteFails(r)
  <2>1. \/ \E w, fresh : Mirrored(r, w, fresh)
        \/ \E stat : MirrorFailed(r, stat)
    BY <1>8 DEF MirrorPut, MirrorPutRejected, MirrorPutUnsure, MirrorLookupFails,
                MirrorPost, MirrorPostFails, RecoverRefused, WorkosDeleteFails
  <2> QED
    BY <1>0, <2>1, MirroredLeg, MirrorFailedLeg
<1>9. CASE MirrorRead(r)
  <2> DEFINE to == IF mapping[wleg[r].key] # None THEN mapping[wleg[r].key] ELSE wleg[r].key
  <2>1. CASE MirrorReadFails(r, to)
    BY <1>0, <2>1, MirrorFailedLeg DEF MirrorReadFails
  <2>2. CASE wleg' = [wleg EXCEPT ![r] = [wleg[r] EXCEPT !.at = "put", !.to = to]]
    <3> DEFINE leg == [wleg[r] EXCEPT !.at = "put", !.to = to]
    <3>2. wleg' = [wleg EXCEPT ![r] = leg]
      BY <2>2
    <3>3. leg.at = "put"
      <4> HIDE DEF to
      <4> QED
        BY <1>0 DEF WorkosLeg
    <3> HIDE DEF leg
    <3> QED
      BY <1>0, <3>2, <3>3 DEF LocalOK
  <2> QED
    BY <1>9, <2>1, <2>2 DEF MirrorRead
<1>10. CASE MirrorPostConflict(r)
  BY <1>0, <1>10, GotoLeg DEF MirrorPostConflict
<1>11. CASE WorkosDeleted(r)
  <2>1. PICK stat :
            wleg' = [wleg EXCEPT ![r] = [wleg[r] EXCEPT !.at = "done", !.stat = stat]]
    BY <1>11 DEF WorkosDeleted
  <2> DEFINE leg == [wleg[r] EXCEPT !.at = "done", !.stat = stat]
  <2>2. leg.at = "done" /\ wleg'[r] = leg
    BY <1>0, <2>1 DEF LocalOK, WorkosLeg
  <2> HIDE DEF leg
  <2> QED
    BY <2>2
<1>12. CASE RecoverClaim(r) \/ RecoverRecord(r) \/ RecoverUnclaim(r)
  BY <1>0, <1>12, GotoLeg DEF RecoverClaim, RecoverRecord, RecoverUnclaim
<1>13. CASE RecoverRecordFails(r)
  <2> DEFINE leg == [wleg[r] EXCEPT !.stat = "unsure", !.at = "done"]
  <2>1. leg.at = "done" /\ wleg'[r] = leg
    BY <1>0, <1>13 DEF RecoverRecordFails, LocalOK, WorkosLeg
  <2> HIDE DEF leg
  <2> QED
    BY <2>1
<1> QED
  BY <1>2, <1>3, <1>5, <1>6, <1>7, <1>8, <1>9, <1>10, <1>11, <1>12, <1>13 DEF Step

LEMMA NextKeyGone ==
    ASSUME ClaimInv, LatePuts, KeyInvs, [Next]_vars, NEW r \in Request, KeyGone(r)
    PROVE  KeyGone(r)'
<1>0. TypeOK /\ workos \in [Id -> Person \cup {None}] /\ KeyInv(r) /\ KeyInv(r)' /\ Shape(r)
  BY NextKeyInvs DEF ClaimInv, Sound, TypeOK, UpstreamOK, KeyInvs, Shapes
<1>1. CASE ~Step(r)
  <2> SUFFICES ASSUME ~Stuck(r)', pc'[r] = "legs", wleg'[r].at \in {"lookup", "record"}
               PROVE  KeyGone(r)'
    BY DEF KeyGone
  <2>1. Unmoved(r)
    BY <1>1, OthersStep
  <2>2. ~Stuck(r) /\ pc[r] = "legs" /\ wleg[r].at \in {"lookup", "record"}
    BY <2>1, StillStuck DEF Unmoved
  <2>3. call[r].op \in {"create", "replace"}
    BY <1>0, <2>2 DEF KeyInv, Shape
  <2>4. Owns(r) /\ wleg[r].key \in Id
    BY <1>0, <2>2, <2>3
    DEF Owns, Recovery, Cleanup, KeyInv, HasKey, Keyed, Shape, ClaimInv, ReplaceRecovers
  <2>5. Aside
    BY <1>1, <2>2, <2>4, OthersAside
  <2>6. workos[wleg[r].key] = None => workos'[wleg[r].key] = None
    BY <2>4, <2>5 DEF Aside, Drifts
  <2> QED
    BY <2>1, <2>2, <2>6 DEF Unmoved, KeyGone
<1>2. ASSUME Step(r), ~Stuck(r)', pc'[r] = "legs", wleg'[r].at = "lookup"
      PROVE  workos'[wleg'[r].key] = None
  <2>1. CASE workos[wleg[r].key] = None /\ SameKey(r) /\ workos' = workos
    BY <2>1 DEF SameKey
  <2>2. CASE /\ pc[r] = "legs" /\ wleg'[r] = wleg[r] /\ call'[r] = call[r] /\ claim' = claim
             /\ workos' = workos
    <3>1. Owns(r)
      BY <1>0, <1>2, <2>2 DEF Owns, Recovery, KeyInv, Shape
    <3>2. ~Stuck(r)
      BY <1>2, <3>1, StuckForGood DEF ClaimInv, ClaimHeld
    <3> QED
      BY <1>2, <2>2, <3>2 DEF KeyGone
  <2> QED
    BY <1>0, <1>2, <2>1, <2>2, LookupFrom
<1>3. ASSUME Step(r), ~Stuck(r)', Recording(r)'
      PROVE  wleg'[r].sink = wleg'[r].key \/ workos'[wleg'[r].key] = None
  <2>1. CASE MirrorPut(r) \/ MirrorPost(r)
    <3>1. PICK w \in Id : EndsOn(r, w)
      BY <1>0, <2>1, EndsNow
    <3>2. Recovering(r)
      BY <1>3, <3>1 DEF EndsOn, Recording
    <3>3. workos' = [workos EXCEPT ![w] = call[r].person] /\ wleg[r].key \in Id /\ pc[r] = "legs"
      BY <1>0, <2>1, <3>1, EndsNow DEF EndsOn, Written
    <3>4. wleg[r].at = "lookup" => workos[wleg[r].key] = None
      BY <3>2, <3>3 DEF Recovering, KeyGone, Stuck
    <3> QED
      BY <1>0, <3>1, <3>2, <3>3, <3>4 DEF EndsOn, Recovering, SameKey
  <2>2. CASE /\ wleg'[r] = wleg[r] /\ ~Stuck(r) /\ (Recording(r)' <=> Recording(r))
             /\ workos' = workos
    <3>1. pc[r] = "legs" /\ wleg[r].at = "record" /\ ~Stuck(r)
      BY <1>3, <2>2 DEF Recording
    <3>2. wleg[r].sink = wleg[r].key \/ workos[wleg[r].key] = None
      BY <3>1 DEF KeyGone
    <3> QED
      BY <2>2, <3>2
  <2> QED
    BY <1>0, <1>3, <2>1, <2>2, EndedFrom
<1> QED
  BY <1>1, <1>2, <1>3 DEF KeyGone, Recording

(* How the WorkOS leg of a replace gets where it is. *)
LegGoesOn(r) ==
    /\ pc[r] = "legs" /\ call'[r] = call[r] /\ SameKey(r) /\ SameTo(r)
    /\ \/ wleg'[r].at = wleg[r].at /\ mapping' = mapping
       \/ wleg'[r].at \in {"unclaim", "done"}
       \/ /\ wleg[r].at = "put" /\ wleg'[r].at = "recover"
          /\ workos[wleg[r].to] = None /\ UNCHANGED <<workos, mapping>>
       \/ /\ wleg[r].at = "recover" /\ wleg'[r].at = "post"
          /\ mapping[wleg[r].key] = wleg[r].to /\ UNCHANGED <<workos, mapping>>
       \/ /\ wleg[r].at \in InRecovery /\ wleg'[r].at \in InRecovery
          /\ mapping' = mapping

LegStarts(r) == wleg'[r].at = "read" /\ wleg'[r].to = None /\ mapping' = mapping

LegReads(r) == /\ wleg'[r].at = "put" /\ SameKey(r) /\ mapping[wleg[r].key] # None
               /\ wleg'[r].to = mapping[wleg[r].key] /\ mapping' = mapping
               /\ wleg[r].key \in Id

LEMMA ReplaceFrom ==
    ASSUME ClaimInv, NEW r \in Request, KeyInv(r), Step(r), pc'[r] = "legs",
           call'[r].op = "replace"
    PROVE  LegStarts(r) \/ LegReads(r) \/ LegGoesOn(r)
<1>0. Sound /\ LocalOK /\ Shape(r) /\ wleg[r] \in WorkosLeg
  BY DEF ClaimInv, Sound, TypeOK, Shapes, LocalOK
<1>2. CASE \/ ReceiveCreate(r) \/ ReceiveDelete(r) \/ ReceiveReplace(r) \/ TakeClaim(r)
  BY <1>0, <1>2 DEF ReceiveCreate, ReceiveDelete, ReceiveReplace, Receive, TakeClaim, LocalOK
<1>3. CASE \/ ClaimBusy(r) \/ Release(r) \/ Die(r) \/ CreateRefused(r) \/ WriteRefused(r)
           \/ PreflightFails(r) \/ FinishReplace(r) \/ FinishDelete(r) \/ Prune(r)
           \/ PruneFails(r) \/ CreateFailed(r) \/ CreateLanded(r) \/ Compensate(r)
           \/ CompensateFails(r) \/ Persist(r) \/ Settle(r)
  BY <1>0, <1>3, GoSummary, GoLocal
<1>4. CASE CheckReplace(r)
  <2>1. StartLegs(r, "read", call[r].id, None, None) /\ mapping' = mapping
    BY <1>4 DEF CheckReplace, StartLegs, store
  <2> QED
    BY <1>0, <2>1, StartedLeg DEF LegStarts
<1>5. CASE CheckCreate(r) \/ CheckDelete(r)
  <2>1. call' = call /\ call[r].op # "replace"
    BY <1>5 DEF CheckCreate, CheckDelete, StartLegs
  <2> QED
    BY <2>1
<1>6. CASE \/ NativeCreated(r) \/ NativeConflict(r) \/ NativeReplaced(r)
           \/ NativeDeleted(r) \/ NativeRejected(r) \/ NativeUnsure(r)
  <2>1. /\ UNCHANGED <<mapping, call, pc>> /\ pc[r] = "legs"
        /\ wleg'[r] = wleg[r] \/ wleg[r].at = "wait"
    BY <1>0, <1>6, NativeSummary
  <2>2. wleg[r].at # "wait"
    BY <2>1 DEF KeyInv
  <2> QED
    BY <2>1, <2>2 DEF LegGoesOn, SameKey, SameTo
<1>7. ASSUME \/ MirrorRead(r) \/ MirrorPut(r) \/ MirrorPutMissing(r) \/ MirrorPutRejected(r)
             \/ MirrorPutUnsure(r) \/ MirrorLookupFails(r) \/ MirrorPost(r)
             \/ MirrorPostConflict(r) \/ MirrorPostFails(r) \/ RecoverRefused(r)
             \/ WorkosDeleted(r) \/ WorkosDeleteFails(r)
      PROVE  LegStarts(r) \/ LegReads(r) \/ LegGoesOn(r)
  <2>1. UNCHANGED <<call, pc, mapping>> /\ pc[r] = "legs" /\ call[r].op = "replace"
    BY <1>0, <1>7, MirrorSummary
  <2>2. ASSUME NEW stat, MirrorFailed(r, stat)
        PROVE  LegGoesOn(r)
    BY <1>0, <2>1, <2>2, MirrorFailedLeg DEF LegGoesOn
  <2>3. CASE MirrorPut(r) \/ MirrorPost(r)
    <3>1. PICK w \in Id : EndsOn(r, w)
      BY <2>3, EndsNow
    <3>2. wleg'[r].at \in {"record", "done"} /\ SameKey(r) /\ SameTo(r)
          /\ (wleg'[r].at = "record" => Recovering(r))
      BY <3>1 DEF EndsOn
    <3> QED
      BY <2>1, <3>2 DEF LegGoesOn, Recovering, InRecovery
  <2>4. CASE MirrorPutMissing(r)
    <3>1. PICK w \in Addressed(r) : workos[w] = None
      BY <2>4 DEF MirrorPutMissing
    <3>2. workos' = workos
      BY <2>4 DEF MirrorPutMissing
    <3>3. CASE wleg[r].at = "reput" /\ Goto(r, "lookup")
      BY <1>0, <2>1, <3>3, GotoLeg DEF LegGoesOn, InRecovery
    <3>4. CASE wleg[r].at = "put" /\ Goto(r, "recover")
      <4>1. w = wleg[r].to
        BY <3>1, <3>4 DEF Addressed
      <4> QED
        BY <1>0, <2>1, <3>1, <3>2, <3>4, <4>1, GotoLeg DEF LegGoesOn
    <3> QED
      BY <2>1, <2>4, <3>3, <3>4 DEF MirrorPutMissing
  <2>5. CASE MirrorPostConflict(r)
    <3>1. wleg[r].at = "post" /\ Goto(r, "reput")
      BY <2>5 DEF MirrorPostConflict, At
    <3> QED
      BY <1>0, <2>1, <3>1, GotoLeg DEF LegGoesOn, InRecovery
  <2>6. CASE \/ MirrorPutRejected(r) \/ MirrorPutUnsure(r) \/ MirrorLookupFails(r)
             \/ MirrorPostFails(r) \/ RecoverRefused(r)
    BY <2>2, <2>6 DEF MirrorPutRejected, MirrorPutUnsure, MirrorLookupFails, MirrorPostFails,
                RecoverRefused
  <2>7. CASE MirrorRead(r)
    <3> DEFINE to == IF mapping[wleg[r].key] # None THEN mapping[wleg[r].key] ELSE wleg[r].key
    <3>1. CASE MirrorReadFails(r, to)
      BY <2>2, <3>1 DEF MirrorReadFails
    <3>2. CASE /\ call[r].op = "replace" => mapping[wleg[r].key] # None
               /\ wleg' = [wleg EXCEPT ![r] = [wleg[r] EXCEPT !.at = "put", !.to = to]]
      <4> DEFINE leg == [wleg[r] EXCEPT !.at = "put", !.to = to]
      <4>1. to = mapping[wleg[r].key] /\ to # None
        BY <2>1, <3>2
      <4>2. wleg' = [wleg EXCEPT ![r] = leg]
        BY <3>2
      <4>3. leg.at = "put" /\ leg.to = to /\ leg.key = wleg[r].key /\ leg.owner = wleg[r].owner
        <5> HIDE DEF to
        <5> QED
          BY <1>0 DEF WorkosLeg
      <4> HIDE DEF leg, to
      <4>4. wleg'[r] = leg
        BY <1>0, <4>2 DEF LocalOK
      <4>5. wleg[r].key \in Id
        BY <2>7 DEF MirrorRead, At, ClaimInv, Sound, KeyKnown
      <4> QED
        BY <2>1, <4>1, <4>3, <4>4, <4>5 DEF LegReads, SameKey
    <3> QED
      BY <2>7, <3>1, <3>2 DEF MirrorRead
  <2>8. CASE WorkosDeleted(r) \/ WorkosDeleteFails(r)
    BY <2>1, <2>8 DEF WorkosDeleted, WorkosDeleteFails
  <2> QED
    BY <1>7, <2>3, <2>4, <2>5, <2>6, <2>7, <2>8
<1>8. CASE RecoverRecord(r) \/ RecoverUnclaim(r)
  BY <1>0, <1>8, GotoLeg DEF RecoverRecord, RecoverUnclaim, At, LegGoesOn
<1>9. CASE RecoverClaim(r)
  BY <1>0, <1>9, GotoLeg DEF RecoverClaim, At, LegGoesOn, upstream
<1>10. CASE RecoverRecordFails(r)
  <2> DEFINE leg == [wleg[r] EXCEPT !.stat = "unsure", !.at = "done"]
  <2>1. /\ leg.at = "done" /\ leg.key = wleg[r].key /\ leg.owner = wleg[r].owner
        /\ leg.to = wleg[r].to /\ wleg'[r] = leg
    BY <1>0, <1>10 DEF RecoverRecordFails, LocalOK, WorkosLeg
  <2> HIDE DEF leg
  <2> QED
    BY <1>10, <2>1 DEF RecoverRecordFails, At, LegGoesOn, SameKey, SameTo
<1> QED
  BY <1>2, <1>3, <1>4, <1>5, <1>6, <1>7, <1>8, <1>9, <1>10 DEF Step

(* The steps that store a mapping. *)
StoresRow(s, n, w) ==
    \/ /\ Persist(s) /\ pc[s] = "persist" /\ call[s].op = "create" /\ Ended(s)
       /\ n = nleg[s].id /\ w = wleg[s].sink
    \/ /\ RecoverRecord(s) \/ RecoverRecordFails(s)
       /\ call[s].op = "replace" /\ Recording(s)
       /\ n = wleg[s].key /\ n = call[s].id /\ w = wleg[s].sink

LEMMA MappedBy ==
    ASSUME LinkInv, [Next]_vars, NEW n \in Id, NEW w \in Id, mapping'[n] = w, mapping[n] # w
    PROVE  \E s \in Request : StoresRow(s, n, w) /\ claim = s /\ ~Stuck(s)
<1>1. PICK r \in Request : Step(r)
  BY DEF Next, LateWrite, vars, store
<1>2. /\ RecoverRecord(r) \/ RecoverRecordFails(r) \/ Prune(r) \/ PruneFails(r) \/ Persist(r)
      /\ claim = r
  BY <1>1, MappingMover DEF LinkInv
<1>3. /\ Shape(r) /\ KeyInv(r) /\ ReplaceRecovers
      /\ mapping \in [Id -> Id \cup {None}]
  BY DEF LinkInv, ClaimInv, Sound, TypeOK, StoreOK, Shapes, KeyInvs
<1>5. CASE Prune(r) \/ PruneFails(r)
  BY <1>3, <1>5, IdFacts DEF Prune, PruneFails
<1>6. CASE RecoverRecord(r) \/ RecoverRecordFails(r)
  <2>1. /\ pc[r] = "legs" /\ wleg[r].at = "record" /\ call[r].op = "replace"
        /\ n = wleg[r].key /\ w = wleg[r].sink
    BY <1>3, <1>6 DEF RecoverRecord, RecoverRecordFails, At, ReplaceRecovers, Cleanup
  <2>2. n = call[r].id
    BY <1>3, <2>1 DEF KeyInv
  <2>3. ~Stuck(r)
    BY <2>1 DEF Stuck
  <2> QED
    BY <1>2, <1>6, <2>1, <2>2, <2>3 DEF StoresRow, Recording
<1>7. CASE Persist(r)
  <2>1. /\ pc[r] = "persist" /\ call[r].op = "create" /\ ~Stuck(r) /\ Ended(r)
        /\ n = nleg[r].id /\ w = wleg[r].sink
    BY <1>3, <1>7 DEF Persist, Shape, Stuck, Ended
  <2> QED
    BY <1>2, <1>7, <2>1 DEF StoresRow
<1> QED
  BY <1>2, <1>5, <1>6, <1>7

(* A replace that has not lost its row asked nobody, so it holds no claim. *)
LEMMA PutsUnclaimed ==
    ASSUME ClaimUsed, NEW s \in Request, claim = s, pc[s] = "legs", call[s].op = "replace"
    PROVE  wleg[s].at # "put"
BY DEF ClaimUsed, Owns, Stuck, Recovery, Cleanup

LEMMA OwnersPut ==
    ASSUME LinkInv, Replacing, ClaimUsed, NEW r \in Request, call[r].op = "replace",
           pc[r] = "legs", NEW w \in Id, mapping[wleg[r].key] = w, ByOwner(w)
    PROVE  w = wleg[r].key \/ workos'[w] = call[r].person
<1>1. PICK s \in Request :
          /\ call[s].op \in {"create", "replace"} /\ pc[s] = "legs" /\ claim = s
          /\ wleg[s].at \in {"put", "reput", "lookup", "post"}
          /\ wleg[s].at = "put" \/ w = wleg[s].key
          /\ Owners(w) \subseteq {wleg[s].key}
          /\ workos'[w] = call[s].person
  BY DEF ByOwner
<1>2. /\ KeyInv(r) /\ KeyInv(s) /\ LandInv(s) /\ Named(r) /\ Shape(r) /\ Shape(s)
      /\ wleg[r].key = call[r].id
  BY DEF LinkInv, ClaimInv, Sound, Shapes, KeyInvs, LandInvs, Replacing, KeyInv
<1>3. wleg[r].key \in Id /\ wleg[s].key = wleg[r].key
  BY <1>1, <1>2 DEF Shape, Owners
<1>4. CASE w = wleg[s].key
  BY <1>3, <1>4
<1>5. CASE wleg[s].at = "put" /\ call[s].op = "create"
  <2>1. Keyed(s)
    BY <1>1, <1>2, <1>5 DEF KeyInv, HasKey
  <2>2. nleg[s].id = wleg[r].key
    BY <1>3, <2>1, IdFacts DEF Keyed, Free
  <2>3. ~Stuck(s)
    BY <1>1, <1>3, <1>5, <2>2, IdFacts DEF Stuck
  <2>4. native[wleg[r].key] = call[s].person
    BY <1>1, <1>2, <1>3, <1>5, <2>2, <2>3, IdFacts DEF LandInv, NativeLanded
  <2>5. call[s].person \in Person
    BY <1>2, <1>5 DEF Shape
  <2> QED
    BY <1>1, <1>2, <2>4, <2>5, IdFacts DEF Named
<1> QED
  BY <1>1, <1>4, <1>5, PutsUnclaimed

LEMMA StillReplaced ==
    ASSUME LinkInv, Replacing, ClaimUsed, [Next]_vars, NEW r \in Request,
           call[r].op = "replace", pc[r] = "legs", NEW w \in Id, mapping[wleg[r].key] = w,
           \/ w = wleg[r].key
           \/ w \in astray \cup legacy.workos
           \/ workos[w] \in {None, call[r].person}
    PROVE  \/ w = wleg[r].key
           \/ w \in astray' \cup legacy'.workos
           \/ workos'[w] \in {None, call[r].person}
<1>1. legacy' = legacy
  BY LegacyStill
<1>2. wleg[r].key \in Id
  BY DEF LinkInv, ClaimInv, Sound, Shapes, Shape, KeyInvs, KeyInv
<1>3. Owners(w) # {}
  BY <1>2 DEF Owners
<1> QED
  BY <1>1, <1>3, WorkosStep, OwnersPut DEF Deleted, Astray, Same

LEMMA NextReplaced ==
    ASSUME RowsInv, [Next]_vars, NEW r \in Request
    PROVE  Replaced(r)'
<1> SUFFICES ASSUME call'[r].op = "replace", pc'[r] = "legs"
             PROVE  Replaced(r)'
  BY DEF Replaced
<1>0. /\ LinkInv /\ ClaimInv /\ Replacing /\ ClaimUsed /\ LatePuts /\ KeyInv(r) /\ Shape(r)
      /\ Replaced(r) /\ Named(r) /\ mapping \in [Id -> Id \cup {None}]
  BY DEF RowsInv, PersonInv, LinkInv, ClaimInv, Sound, TypeOK, StoreOK, Shapes, KeyInvs,
         LegInvs, LegInv, Replacing
<1>1. legacy' = legacy
  BY LegacyStill
<1>2. CASE ~Step(r)
  <2>1. Unmoved(r)
    BY <1>0, <1>2, OthersStep
  <2>2. call[r].op = "replace" /\ pc[r] = "legs"
    BY <2>1 DEF Unmoved
  <2>3. ASSUME wleg[r].at \in InRecovery
        PROVE  mapping' = mapping
    <3>1. Owns(r) /\ ~Stuck(r)
      BY <2>2, <2>3 DEF Owns, Stuck, Recovery, Cleanup, InRecovery
    <3> QED
      BY <1>0, <1>2, <3>1, OthersAside DEF Aside
  <2>4. ASSUME wleg[r].at \in {"recover"} \cup InRecovery, mapping'[wleg[r].key] = wleg[r].to
        PROVE  \/ wleg[r].to = wleg[r].key
               \/ wleg[r].to \in astray' \cup legacy'.workos
               \/ workos'[wleg[r].to] \in {None, call[r].person}
    <3> DEFINE n == wleg[r].key
               w == wleg[r].to
    <3>1. n \in Id /\ w \in Id /\ n = call[r].id
      BY <1>0, <2>2, <2>4 DEF KeyInv, Shape, Replaced
    <3>2. CASE mapping[n] = w
      BY <1>0, <2>2, <2>4, <3>1, <3>2, StillReplaced DEF Replaced
    <3>3. CASE mapping[n] # w
      <4>1. /\ native[n] # None /\ workos[w] # None /\ w \notin astray => native[n] = workos[w]
            /\ UNCHANGED <<native, workos, astray>>
        BY <1>0, <2>4, <3>1, <3>3, StoredTwins
      <4>2. native[n] # None => native[n] = call[r].person
        BY <1>0, <2>2, <3>1 DEF Named
      <4>3. PICK s \in Request : StoresRow(s, n, w) /\ ~Stuck(s)
        BY <1>0, <2>4, <3>1, <3>3, MappedBy
      <4>4. KeyInv(s) /\ LandInv(s) /\ LegInv(s) /\ Shape(s)
        BY <1>0 DEF RowsInv, LegInvs, LinkInv, KeyInvs, LandInvs, ClaimInv, Sound, Shapes
      <4>5. CASE pc[s] = "persist" /\ call[s].op = "create" /\ n = nleg[s].id
        <5>1. native[n] = call[s].person /\ call[s].person \in Person
          BY <3>1, <4>3, <4>4, <4>5, IdFacts DEF LandInv, NativeLanded, Shape
        <5> QED
          BY <1>1, <4>1, <4>2, <5>1, IdFacts
      <4>6. CASE Recording(s) /\ n = wleg[s].key /\ w = wleg[s].sink
        <5>1. Owners(w) \subseteq {n} \/ w = n
          BY <4>4, <4>6 DEF KeyInv, Recording, Fits
        <5>2. Owners(w) = {} \/ w = n
          BY <3>3, <5>1 DEF Owners
        <5>3. \/ w = n \/ w \in astray \cup legacy.workos
              \/ \A q \in Request : call[q].op = "replace" /\ pc[q] = "legs" => wleg[q].to # w
          BY <4>4, <4>6, <5>2 DEF LegInv, NewRow
        <5> QED
          BY <1>1, <2>2, <4>1, <5>3
      <4> QED
        BY <4>3, <4>5, <4>6 DEF StoresRow
    <3> QED
      BY <3>2, <3>3
  <2> QED
    BY <1>0, <2>1, <2>2, <2>3, <2>4 DEF Unmoved, Replaced
<1>3. CASE Step(r) /\ LegStarts(r)
  BY <1>3 DEF LegStarts, Replaced, InRecovery
<1>4. CASE Step(r) /\ LegReads(r)
  BY <1>0, <1>4 DEF LegReads, Replaced, InRecovery
<1>5. CASE Step(r) /\ LegGoesOn(r)
  <2>1. /\ pc[r] = "legs" /\ call'[r] = call[r] /\ call[r].op = "replace"
        /\ wleg'[r].key = wleg[r].key /\ wleg'[r].to = wleg[r].to
    BY <1>5 DEF LegGoesOn, SameKey, SameTo
  <2>2. wleg'[r].at \in {"put", "recover"} \cup InRecovery
        => wleg[r].at \in {"put", "recover"} \cup InRecovery /\ mapping' = mapping
    BY <1>5 DEF LegGoesOn, InRecovery
  <2>3. wleg'[r].at \in InRecovery => mapping[wleg[r].key] = wleg[r].to
    BY <1>0, <1>5, <2>1 DEF LegGoesOn, InRecovery, Replaced
  <2>4. ASSUME wleg'[r].at \in {"recover"} \cup InRecovery, mapping'[wleg[r].key] = wleg[r].to
        PROVE  \/ wleg[r].to = wleg[r].key
               \/ wleg[r].to \in astray' \cup legacy'.workos
               \/ workos'[wleg[r].to] \in {None, call[r].person}
    <3>1. CASE workos[wleg[r].to] = None /\ workos' = workos
      BY <3>1
    <3>2. CASE wleg[r].at \in {"recover"} \cup InRecovery
      <4>1. wleg[r].to \in Id /\ mapping[wleg[r].key] = wleg[r].to
        BY <1>0, <2>1, <2>2, <2>4, <3>2 DEF Replaced
      <4> QED
        BY <1>0, <2>1, <3>2, <4>1, StillReplaced DEF Replaced
    <3> QED
      BY <1>5, <2>4, <3>1, <3>2 DEF LegGoesOn, InRecovery
  <2>5. wleg'[r].at \in {"put", "recover"} \cup InRecovery => wleg[r].to \in Id
    BY <1>0, <2>1, <2>2 DEF Replaced
  <2> QED
    BY <2>1, <2>2, <2>3, <2>4, <2>5 DEF Replaced
<1> QED
  BY <1>0, <1>2, <1>3, <1>4, <1>5, ReplaceFrom

(* No other recovery comes to a row that nothing maps. *)
LEMMA StaysNew ==
    ASSUME ClaimInv, KeyInvs, [Next]_vars, NEW w \in Id, Owners(w) = {}, mapping' = mapping,
           \A s \in Request : call[s].op = "replace" /\ pc[s] = "legs" => wleg[s].to # w
    PROVE  \A s \in Request : call'[s].op = "replace" /\ pc'[s] = "legs" => wleg'[s].to # w
<1> SUFFICES ASSUME NEW s \in Request, call'[s].op = "replace", pc'[s] = "legs"
             PROVE  wleg'[s].to # w
  OBVIOUS
<1>1. CASE ~Step(s)
  BY <1>1, OthersStep DEF Unmoved
<1>2. CASE LegStarts(s)
  BY <1>2, IdFacts DEF LegStarts
<1>3. CASE LegReads(s)
  BY <1>3 DEF LegReads, Owners
<1>4. CASE LegGoesOn(s)
  BY <1>4 DEF LegGoesOn, SameTo
<1> QED
  BY <1>1, <1>2, <1>3, <1>4, ReplaceFrom DEF KeyInvs

LEMMA NextNewRow ==
    ASSUME RowsInv, [Next]_vars, NEW r \in Request
    PROVE  NewRow(r)'
<1> SUFFICES ASSUME Recording(r)', (Owners(wleg[r].sink) = {})'
             PROVE  NewRow(r)'
  BY DEF NewRow
<1>0. /\ LinkInv /\ ClaimInv /\ LatePuts /\ KeyInvs /\ KeyInv(r) /\ Shape(r)
      /\ NewRow(r) /\ TypeOK /\ RowInv
  BY DEF RowsInv, PersonInv, LinkInv, ClaimInv, Sound, Shapes, KeyInvs, LegInvs, LegInv
<1>1. legacy' = legacy
  BY LegacyStill
<1>2. ASSUME wleg'[r] = wleg[r], Recording(r), mapping' = mapping,
             \A v \in Id : v \in astray => v \in astray'
      PROVE  NewRow(r)'
  <2> DEFINE w == wleg[r].sink
  <2>1. w \in Id /\ Owners(w) = {}
    BY <1>0, <1>2, OwnersStill DEF KeyInv, Recording, Fits
  <2>2. \/ w = wleg[r].key
        \/ w \in astray' \cup legacy'.workos
        \/ \A s \in Request : call[s].op = "replace" /\ pc[s] = "legs" => wleg[s].to # w
    BY <1>0, <1>1, <1>2, <2>1 DEF NewRow
  <2>3. \/ w = wleg[r].key
        \/ w \in astray' \cup legacy'.workos
        \/ \A s \in Request : call'[s].op = "replace" /\ pc'[s] = "legs" => wleg'[s].to # w
    <3> HIDE DEF w
    <3> QED
      BY <1>0, <1>2, <2>1, <2>2, StaysNew
  <2> QED
    BY <1>2, <2>3 DEF NewRow
<1>3. CASE ~Step(r)
  <2>1. Unmoved(r) /\ Recording(r)
    BY <1>0, <1>3, OthersStep, StillStuck
  <2>2. Owns(r) /\ ~Stuck(r)
    BY <1>0, <2>1 DEF Recording, Owns, Stuck, Recovery, Cleanup, ClaimInv, ReplaceRecovers
  <2>3. Aside
    BY <1>0, <1>3, <2>2, OthersAside
  <2>4. mapping' = mapping /\ \A v \in Id : v \in astray => v \in astray'
    BY <2>3 DEF Aside, Drifts
  <2> QED
    BY <1>2, <2>1, <2>4 DEF Unmoved
<1>4. CASE MirrorPut(r) \/ MirrorPost(r)
  <2>1. PICK w \in Id : EndsOn(r, w)
    BY <1>0, <1>4, EndsNow
  <2>2. /\ UNCHANGED <<claim, mapping, call, pc>> /\ pc[r] = "legs"
    BY <1>0, <1>4, EndsNow
  <2>3. Recovering(r) /\ wleg'[r].sink = w /\ wleg'[r].key = wleg[r].key
    BY <2>1 DEF EndsOn, Recording, SameKey
  <2>4. claim = r /\ ~Stuck(r)
    BY <1>0, <2>2, <2>3
    DEF Recovering, Owns, Stuck, Recovery, Cleanup, ClaimInv, ClaimHeld
  <2>5. Owners(w) = {}
    BY <2>2, <2>3, OwnersStill
  <2>6. CASE w = wleg[r].key
    BY <2>3, <2>6 DEF NewRow
  <2>7. CASE wleg[r].at = "lookup" /\ workos[w] = call[r].person
    <3>1. call[r].person \in Person
      BY <1>0, <2>3 DEF Shape, Recovering
    <3>2. ~Ended(r) /\ ~Recording(r)
      BY <2>2, <2>3, <2>7 DEF Ended, Recording, Recovering
    <3>3. w \in legacy.workos \cup astray
      BY <1>0, <2>4, <2>5, <2>7, <3>1, <3>2, IdFacts DEF RowInv, WorkosLinked
    <3>4. astray' = astray
      BY <2>1, <2>7 DEF EndsOn, Written
    <3> QED
      BY <1>1, <2>3, <3>3, <3>4 DEF NewRow
  <2>8. CASE Unused(w)
    <3>1. \A s \in Request : wleg[s].to # w
      BY <2>8 DEF Unused
    <3>2. \A s \in Request : wleg'[s].to = wleg[s].to
      <4>1. OthersUnmoved(r) /\ SameTo(r)
        BY <1>0, <1>4, <2>1, MirrorSummary DEF EndsOn, ClaimInv
      <4> QED
        BY <4>1 DEF OthersUnmoved, SameTo
    <3> QED
      BY <2>3, <3>1, <3>2 DEF NewRow
  <2> QED
    BY <2>1, <2>3, <2>6, <2>7, <2>8 DEF EndsOn, Recovering
<1>5. CASE Step(r) /\ ~(MirrorPut(r) \/ MirrorPost(r))
  <2>1. ~Stuck(r)' /\ (Ended(r)' \/ Recording(r)')
    <3>1. KeyInv(r)' /\ ReplaceRecovers'
      BY <1>0, NextKeyInvs, NextClaimInv DEF KeyInvs, ClaimInv
    <3> QED
      BY <3>1 DEF Recording, Stuck, ReplaceRecovers, Cleanup
  <2>2. /\ wleg'[r] = wleg[r] /\ (Recording(r)' <=> Recording(r))
        /\ UNCHANGED <<mapping, workos, astray>>
    BY <1>0, <1>5, <2>1, EndedFrom
  <2>3. Recording(r)
    BY <2>2
  <2> QED
    BY <1>2, <2>2, <2>3
<1> QED
  BY <1>3, <1>4, <1>5

-----------------------------------------------------------------------------
(* The rows that no mapping names. *)

(* Whoever's outcome became uncertain keeps the claim. *)
LEMMA ClaimStuck ==
    ASSUME ClaimInv, [Next]_vars, claim # None, Stuck(claim)
    PROVE  claim' # None /\ Stuck(claim)'
<1>1. PICK c \in Request : c = claim
  BY DEF ClaimInv, Sound, TypeOK, StoreOK
<1>2. claim' = c /\ Stuck(c)'
  BY <1>1, StuckForGood
<1> QED
  BY <1>1, <1>2, IdFacts

(* A create that has native's id goes on to store it. *)
LEMMA CreateGoesOn ==
    ASSUME LinkInv, [Next]_vars, NEW c \in Request, claim = c, call[c].op = "create",
           pc[c] \in {"legs", "persist"}, NEW n \in Id, nleg[c].id = n, mapping'[n] = None
    PROVE  /\ claim' = c
           /\ \/ Stuck(c)'
              \/ /\ call'[c].op = "create" /\ pc'[c] \in {"legs", "persist"}
                 /\ nleg'[c].id = n
<1>0. /\ ClaimInv /\ Sound /\ LocalOK /\ Shape(c) /\ KeyInv(c) /\ LandInv(c)
      /\ mapping \in [Id -> Id \cup {None}] /\ ReplaceRecovers
  BY DEF LinkInv, ClaimInv, Sound, TypeOK, StoreOK, Shapes, KeyInvs, LandInvs
<1>1. CASE Stuck(c)
  BY <1>0, <1>1, StuckForGood
<1>2. CASE ~Step(c)
  BY <1>0, <1>2, OthersStep DEF Unmoved
<1>3. ASSUME ~Stuck(c), Step(c)
      PROVE  /\ claim' = c
             /\ \/ Stuck(c)'
                \/ /\ call'[c].op = "create" /\ pc'[c] \in {"legs", "persist"}
                   /\ nleg'[c].id = n
  <2>1. CASE \/ ReceiveCreate(c) \/ ReceiveDelete(c) \/ ReceiveReplace(c) \/ TakeClaim(c)
             \/ CheckCreate(c) \/ CheckDelete(c) \/ CheckReplace(c)
             \/ ClaimBusy(c) \/ Release(c) \/ CreateRefused(c) \/ WriteRefused(c)
             \/ PreflightFails(c) \/ Prune(c) \/ PruneFails(c)
             \/ Compensate(c) \/ CompensateFails(c) \/ Settle(c)
    BY <2>1 DEF ReceiveCreate, ReceiveDelete, ReceiveReplace, Receive, TakeClaim, CheckCreate,
                CheckDelete, CheckReplace, ClaimBusy, Release, CreateRefused, WriteRefused,
                PreflightFails, Prune, PruneFails, Compensate, CompensateFails, Settle
  <2>2. CASE FinishReplace(c) \/ FinishDelete(c)
    BY <2>2 DEF FinishReplace, FinishDelete, LegsDone, InLegs
  <2>3. CASE Die(c)
    BY <1>0, <2>3, GoLocal DEF Die, store, Stuck
  <2>4. CASE CreateFailed(c)
    <3>1. Go(c, "done") /\ claim' = claim
      BY <2>4, IdFacts DEF CreateFailed
    <3> QED
      BY <1>0, <3>1, GoLocal DEF Stuck
  <2>5. CASE CreateLanded(c)
    <3>1. Go(c, "persist") /\ claim' = claim
      BY <2>5, IdFacts DEF CreateLanded, store
    <3> QED
      BY <1>0, <3>1, GoLocal
  <2>6. CASE Persist(c)
    <3>1. mapping'[n] = wleg[c].sink
      BY <1>0, <2>6 DEF Persist
    <3>2. wleg[c].sink \in Id
      BY <1>0, <2>6 DEF Persist, KeyInv, Ended, Fits
    <3> QED
      BY <3>1, <3>2, IdFacts
  <2>7. CASE \/ NativeCreated(c) \/ NativeConflict(c) \/ NativeReplaced(c)
             \/ NativeDeleted(c) \/ NativeRejected(c) \/ NativeUnsure(c)
    <3>1. nleg[c].stat = "none"
      BY <1>0, <2>7, NativeSummary
    <3> QED
      BY <1>0, <3>1, IdFacts DEF LandInv, Fresh
  <2>8. CASE \/ MirrorRead(c) \/ MirrorPut(c) \/ MirrorPutMissing(c) \/ MirrorPutRejected(c)
             \/ MirrorPutUnsure(c) \/ MirrorLookupFails(c) \/ MirrorPost(c)
             \/ MirrorPostConflict(c) \/ MirrorPostFails(c) \/ RecoverRefused(c)
             \/ WorkosDeleted(c) \/ WorkosDeleteFails(c)
    <3>1. UNCHANGED <<claim, call, pc, nleg>>
      BY <1>0, <2>8, MirrorSummary
    <3> QED
      BY <3>1
  <2>9. CASE RecoverClaim(c) \/ RecoverRecord(c) \/ RecoverRecordFails(c) \/ RecoverUnclaim(c)
    <3>1. pc[c] = "legs" /\ wleg[c].at \in {"recover"} \cup Cleanup
      BY <2>9 DEF RecoverClaim, RecoverRecord, RecoverRecordFails, RecoverUnclaim, At, Cleanup
    <3>2. call[c].op = "replace"
      BY <1>0, <3>1 DEF KeyInv, ReplaceRecovers
    <3> QED
      BY <3>2
  <2> QED
    BY <1>3, <2>1, <2>2, <2>3, <2>4, <2>5, <2>6, <2>7, <2>8, <2>9 DEF Step
<1> QED
  BY <1>1, <1>2, <1>3

LEMMA NextNativeLinked ==
    ASSUME RowsInv, [Next]_vars, NEW n \in Id
    PROVE  NativeLinked(n)'
<1> SUFFICES ASSUME native'[n] # None, mapping'[n] = None, n \notin legacy'.native
             PROVE  /\ claim' # None
                    /\ \/ Stuck(claim)'
                       \/ /\ call'[claim'].op = "create" /\ pc'[claim'] \in {"legs", "persist"}
                          /\ nleg'[claim'].id = n
  BY DEF NativeLinked
<1>0. /\ LinkInv /\ ClaimInv /\ TypeOK /\ n \notin legacy.native
      /\ native \in [Id -> Person \cup {None}] /\ mapping \in [Id -> Id \cup {None}]
      /\ NativeLinked(n)
  BY LegacyStill
  DEF RowsInv, PersonInv, LinkInv, ClaimInv, Sound, TypeOK, UpstreamOK, StoreOK, RowInv
<1>1. CASE claim # None /\ Stuck(claim)
  BY <1>0, <1>1, ClaimStuck
<1>2. CASE native[n] # None /\ mapping[n] = None /\ ~(claim # None /\ Stuck(claim))
  <2>1. /\ claim \in Request /\ call[claim].op = "create" /\ pc[claim] \in {"legs", "persist"}
        /\ nleg[claim].id = n
    BY <1>0, <1>2 DEF NativeLinked, TypeOK, StoreOK
  <2>2. PICK c \in Request : c = claim
    BY <2>1
  <2>3. /\ claim' = c
        /\ \/ Stuck(c)'
           \/ /\ call'[c].op = "create" /\ pc'[c] \in {"legs", "persist"}
              /\ nleg'[c].id = n
    BY <1>0, <2>1, <2>2, CreateGoesOn
  <2>4. CASE Stuck(c)'
    BY <2>3, <2>4, IdFacts
  <2> QED
    BY <2>3, <2>4, IdFacts
<1>3. CASE native[n] = None /\ ~(claim # None /\ Stuck(claim))
  <2>1. CASE LateWrite
    <3>1. PICK u \in late : ApplyNative(u) \/ ApplyWorkos(u)
      BY <2>1 DEF LateWrite
    <3>2. ApplyNative(u) /\ u.verb = "post"
      BY <1>0, <1>3, <3>1 DEF ApplyNative, ApplyWorkos
    <3>3. claim = u.by /\ Stuck(u.by)
      BY <1>0, <3>2 DEF ClaimInv, LateHeld, Claimed
    <3>4. u.by \in Request
      BY <1>0 DEF TypeOK, UpstreamOK, Write
    <3> QED
      BY <1>3, <3>3, <3>4, IdFacts
  <2>2. ASSUME NEW s \in Request, Step(s)
        PROVE  NativeCreated(s)
    <3>1. CASE NativeDeleted(s)
      BY <1>0, <1>3, <3>1 DEF NativeDeleted
    <3> QED
      BY <1>3, <2>2, <3>1, NativeMover
  <2>3. ASSUME NEW s \in Request, NativeCreated(s)
        PROVE  /\ claim' = s /\ call'[s].op = "create" /\ pc'[s] \in {"legs", "persist"}
               /\ nleg'[s].id = n
    <3>1. PICK i \in Mintable : /\ native' = [native EXCEPT ![i] = call[s].person]
                                /\ NativeDone(s, "ok", i)
      BY <2>3 DEF NativeCreated
    <3>2. i = n
      BY <1>0, <1>3, <3>1
    <3>3. nleg'[s].id = i /\ UNCHANGED <<call, pc, claim>>
      BY <1>0, <3>1, NativeLocal DEF TypeOK
    <3>4. call[s].op = "create" /\ pc[s] = "legs"
      BY <2>3 DEF NativeCreated, CanTake, InLegs
    <3>5. claim = s
      BY <1>0, <3>4 DEF ClaimInv, ClaimHeld, Owns
    <3> QED
      BY <3>2, <3>3, <3>4, <3>5
  <2>4. CASE \E s \in Request : NativeCreated(s)
    BY <2>3, <2>4, IdFacts
  <2> QED
    BY <1>3, <2>1, <2>2, <2>4 DEF Next, vars, upstream
<1>4. CASE native[n] # None /\ mapping[n] # None
  <2>1. PICK s \in Request : Step(s)
    BY <1>4 DEF Next, LateWrite, vars, store
  <2>2. /\ RecoverRecord(s) \/ RecoverRecordFails(s) \/ Prune(s) \/ PruneFails(s) \/ Persist(s)
    BY <1>0, <1>4, <2>1, MappingMover
  <2>3. KeyInv(s) /\ LandInv(s) /\ Shape(s)
    BY <1>0 DEF LinkInv, ClaimInv, Sound, Shapes, KeyInvs, LandInvs
  <2>4. CASE Prune(s) \/ PruneFails(s)
    <3>1. n = call[s].id
      BY <1>0, <1>4, <2>4 DEF Prune, PruneFails
    <3>2. pc[s] = "prune" /\ call[s].op = "delete" /\ ~Stuck(s)
      BY <2>3, <2>4 DEF Prune, PruneFails, Shape, Stuck
    <3> QED
      BY <1>4, <2>3, <3>1, <3>2 DEF LandInv, Deleting
  <2>5. CASE RecoverRecord(s) \/ RecoverRecordFails(s)
    BY <1>0, <1>4, <2>3, <2>5, IdFacts DEF RecoverRecord, RecoverRecordFails, At, KeyInv, Fits
  <2>6. CASE Persist(s)
    BY <1>0, <1>4, <2>3, <2>6, IdFacts DEF Persist, KeyInv, Ended, Fits, Shape
  <2> QED
    BY <2>2, <2>4, <2>5, <2>6
<1> QED
  BY <1>1, <1>2, <1>3, <1>4

(* A leg that ended on a row goes on to store it, or to delete it again. *)
LEMMA EndedGoesOn ==
    ASSUME LinkInv, [Next]_vars, NEW c \in Request, claim = c, Ended(c) \/ Recording(c),
           NEW w \in Id, w = wleg[c].sink, workos'[w] # None, (Owners(w) = {})'
    PROVE  /\ claim' = c
           /\ Stuck(c)' \/ (w = wleg'[c].sink /\ (Ended(c)' \/ Recording(c)'))
<1>0. /\ ClaimInv /\ Sound /\ LocalOK /\ Shape(c) /\ KeyInv(c) /\ LandInv(c)
      /\ mapping \in [Id -> Id \cup {None}] /\ workos \in [Id -> Person \cup {None}]
      /\ ReplaceRecovers
  BY DEF LinkInv, ClaimInv, Sound, TypeOK, StoreOK, UpstreamOK, Shapes, KeyInvs, LandInvs
<1>1. CASE Stuck(c)
  BY <1>0, <1>1, StuckForGood
<1>2. CASE ~Step(c)
  BY <1>0, <1>2, OthersStep, StillStuck DEF Unmoved
<1>3. pc[c] \in {"legs", "compensate", "persist"}
      /\ (pc[c] = "legs" => wleg[c].at \in {"done", "record"})
  BY DEF Ended, Recording
<1>4. ASSUME ~Stuck(c), Step(c)
      PROVE  /\ claim' = c
             /\ Stuck(c)' \/ (w = wleg'[c].sink /\ (Ended(c)' \/ Recording(c)'))
  <2>1. CASE \/ ReceiveCreate(c) \/ ReceiveDelete(c) \/ ReceiveReplace(c) \/ TakeClaim(c)
             \/ CheckCreate(c) \/ CheckDelete(c) \/ CheckReplace(c)
             \/ ClaimBusy(c) \/ Release(c) \/ CreateRefused(c) \/ WriteRefused(c)
             \/ PreflightFails(c) \/ Prune(c) \/ PruneFails(c) \/ Settle(c)
    BY <1>3, <2>1
    DEF ReceiveCreate, ReceiveDelete, ReceiveReplace, Receive, TakeClaim, CheckCreate,
        CheckDelete, CheckReplace, ClaimBusy, Release, CreateRefused, WriteRefused,
        PreflightFails, Prune, PruneFails, Settle
  <2>2. CASE FinishReplace(c) \/ FinishDelete(c)
    <3>1. pc[c] = "legs" /\ wleg[c].at = "done" /\ call[c].op # "create"
      BY <2>2 DEF FinishReplace, FinishDelete, LegsDone, InLegs
    <3> QED
      BY <3>1 DEF Ended, Recording
  <2>3. CASE Die(c)
    BY <1>0, <2>3, GoLocal DEF Die, store, Stuck
  <2>4. CASE CreateFailed(c)
    <3>1. Ended(c)
      BY <2>4 DEF CreateFailed, LegsDone, InLegs, Recording
    <3>2. wleg[c].stat = "ok"
      BY <2>4, <3>1 DEF Ended, CreateFailed, LegsDone, InLegs
    <3>3. Go(c, "done") /\ claim' = claim
      BY <2>4, <3>2 DEF CreateFailed, WorkosUntouched
    <3> QED
      BY <1>0, <3>3, GoLocal DEF Stuck
  <2>5. CASE CreateLanded(c)
    <3>1. PICK next \in {"compensate", "persist"} : Go(c, next) /\ claim' = claim
      BY <2>5 DEF CreateLanded, store
    <3>2. call[c].op = "create"
      BY <2>5 DEF CreateLanded, LegsDone, InLegs
    <3>3. pc'[c] = next /\ UNCHANGED <<call, wleg>>
      BY <1>0, <3>1, GoLocal
    <3> QED
      BY <3>1, <3>2, <3>3 DEF Ended
  <2>6. CASE Compensate(c)
    BY <1>0, <2>6 DEF Compensate, Written
  <2>7. CASE CompensateFails(c)
    BY <1>0, <2>7, GoLocal DEF CompensateFails, Stuck
  <2>8. CASE Persist(c)
    <3>1. mapping' = [mapping EXCEPT ![nleg[c].id] = w]
      BY <2>8 DEF Persist
    <3>2. nleg[c].id \in Id
      BY <1>0, <2>8 DEF Persist, LandInv, Fresh
    <3> QED
      BY <1>0, <3>1, <3>2 DEF Owners
  <2>9. CASE \/ NativeCreated(c) \/ NativeConflict(c) \/ NativeReplaced(c)
             \/ NativeDeleted(c) \/ NativeRejected(c) \/ NativeUnsure(c)
    <3>1. /\ UNCHANGED <<claim, call, pc>> /\ pc[c] = "legs" /\ wleg'[c] = wleg[c]
      BY <1>0, <1>3, <2>9, NativeSummary
    <3> QED
      BY <3>1 DEF Ended, Recording
  <2>10. CASE \/ MirrorRead(c) \/ MirrorPut(c) \/ MirrorPutMissing(c) \/ MirrorPutRejected(c)
              \/ MirrorPutUnsure(c) \/ MirrorLookupFails(c) \/ MirrorPost(c)
              \/ MirrorPostConflict(c) \/ MirrorPostFails(c) \/ RecoverRefused(c)
              \/ WorkosDeleted(c) \/ WorkosDeleteFails(c)
    BY <1>3, <2>10
    DEF MirrorRead, MirrorPut, MirrorPutMissing, MirrorPutRejected, MirrorPutUnsure,
        MirrorLookupFails, MirrorPost, MirrorPostConflict, MirrorPostFails,
        RecoverRefused, WorkosDeleted, WorkosDeleteFails, Putting, At
  <2>11. CASE RecoverClaim(c) \/ RecoverUnclaim(c)
    BY <1>3, <2>11 DEF RecoverClaim, RecoverUnclaim, At
  <2>12. CASE RecoverRecord(c)
    <3>1. mapping' = [mapping EXCEPT ![wleg[c].key] = w] /\ pc[c] = "legs" /\ wleg[c].at = "record"
      BY <2>12 DEF RecoverRecord, At
    <3>2. wleg[c].key \in Id
      BY <1>0, <3>1 DEF KeyInv, ReplaceRecovers, Cleanup, Shape
    <3> QED
      BY <1>0, <3>1, <3>2 DEF Owners
  <2>13. CASE RecoverRecordFails(c)
    <3> DEFINE leg == [wleg[c] EXCEPT !.stat = "unsure", !.at = "done"]
    <3>1. leg.at = "done" /\ leg.stat = "unsure" /\ wleg'[c] = leg
      BY <1>0, <2>13 DEF RecoverRecordFails, LocalOK, WorkosLeg
    <3> HIDE DEF leg
    <3>2. UNCHANGED <<call, pc, claim>> /\ pc[c] = "legs"
      BY <2>13 DEF RecoverRecordFails, At
    <3> QED
      BY <3>1, <3>2 DEF Stuck, Doubtful
  <2> QED
    BY <1>4, <2>1, <2>2, <2>3, <2>4, <2>5, <2>6, <2>7, <2>8, <2>9, <2>10, <2>11, <2>12, <2>13
    DEF Step
<1> QED
  BY <1>1, <1>2, <1>4

(* When a mapping moves on to another row, the row it leaves is gone, was     *)
(* never linked or is another's.                                              *)
LEMMA RowLeft ==
    ASSUME RowsInv, [Next]_vars, NEW m \in Id, NEW w \in Id, mapping[m] = w, mapping'[m] # w,
           workos'[w] # None, w \notin legacy.workos \cup astray'
    PROVE  FALSE
<1>0. /\ LinkInv /\ ClaimInv /\ TypeOK /\ mapping \in [Id -> Id \cup {None}] /\ Twins
  BY DEF RowsInv, PersonInv, LinkInv, ClaimInv, Sound, TypeOK, StoreOK
<1>1. PICK s \in Request : Step(s)
  BY DEF Next, LateWrite, vars, store
<1>2. RecoverRecord(s) \/ RecoverRecordFails(s) \/ Prune(s) \/ PruneFails(s) \/ Persist(s)
  BY <1>0, <1>1, MappingMover
<1>3. UNCHANGED <<workos, astray, native>>
  BY <1>2 DEF RecoverRecord, RecoverRecordFails, Prune, PruneFails, Persist, upstream, history
<1>4. KeyInv(s) /\ LandInv(s) /\ LegInv(s) /\ Shape(s) /\ ReplaceRecovers
  BY <1>0 DEF RowsInv, LegInvs, LinkInv, KeyInvs, LandInvs, ClaimInv, Sound, Shapes
<1>5. CASE Prune(s) \/ PruneFails(s)
  <2>1. m = call[s].id
    BY <1>0, <1>5 DEF Prune, PruneFails
  <2>2. pc[s] = "prune" /\ call[s].op = "delete" /\ ~Stuck(s)
    BY <1>4, <1>5 DEF Prune, PruneFails, Shape, Stuck
  <2> QED
    BY <1>3, <1>4, <2>1, <2>2 DEF LandInv, Deleting
<1>6. CASE Persist(s)
  <2>1. m = nleg[s].id /\ mapping'[m] = wleg[s].sink
    BY <1>0, <1>6 DEF Persist
  <2>2. pc[s] = "persist" /\ call[s].op = "create" /\ ~Stuck(s) /\ Ended(s)
    BY <1>4, <1>6 DEF Persist, Shape, Stuck, Ended
  <2>3. native[m] = call[s].person /\ call[s].person \in Person
    BY <1>4, <2>1, <2>2, IdFacts DEF LandInv, NativeLanded, Shape
  <2>4. workos[w] = call[s].person
    BY <1>0, <1>3, <2>3, IdFacts DEF Twins
  <2> QED
    BY <1>3, <1>4, <2>1, <2>2, <2>4 DEF LegInv, Alone
<1>7. CASE RecoverRecord(s) \/ RecoverRecordFails(s)
  <2>1. m = wleg[s].key /\ mapping'[m] = wleg[s].sink
    BY <1>0, <1>7 DEF RecoverRecord, RecoverRecordFails
  <2>2. Recording(s) /\ call[s].op = "replace" /\ ~Stuck(s) /\ pc[s] = "legs" /\ wleg[s].at = "record"
    BY <1>4, <1>7
    DEF RecoverRecord, RecoverRecordFails, At, Recording, ReplaceRecovers, Cleanup, Stuck
  <2>3. wleg[s].to = w
    BY <1>4, <2>1, <2>2 DEF LegInv, Replaced, InRecovery
  <2>4. w = m \/ w \in astray \cup legacy.workos \/ workos[w] \in {None, call[s].person}
    BY <1>4, <2>1, <2>2, <2>3 DEF LegInv, Replaced, InRecovery
  <2>5. CASE w = m
    BY <1>3, <1>4, <2>1, <2>2, <2>5 DEF LegInv, KeyGone
  <2>6. CASE workos[w] = call[s].person
    BY <1>3, <1>4, <2>1, <2>2, <2>6 DEF LegInv, Alone
  <2> QED
    BY <1>3, <2>4, <2>5, <2>6
<1> QED
  BY <1>2, <1>5, <1>6, <1>7

(* A row that nothing maps appears, or is no longer astray, where the owner   *)
(* of the claim ends on it.                                                   *)
LEMMA NewlyThere ==
    ASSUME RowsInv, [Next]_vars, NEW w \in Id, Owners(w) = {}, mapping' = mapping,
           workos[w] = None \/ w \in astray, workos'[w] # None, w \notin astray',
           ~(claim # None /\ Stuck(claim))
    PROVE  \E s \in Request : /\ claim' = s /\ w = wleg'[s].sink
                              /\ Ended(s)' \/ Recording(s)'
<1>0. /\ LinkInv /\ ClaimInv /\ TypeOK /\ workos \in [Id -> Person \cup {None}] /\ ClaimUsed
  BY DEF RowsInv, PersonInv, LinkInv, ClaimInv, Sound, TypeOK, UpstreamOK
<1>1. ASSUME NEW v, NEW p, NEW blind \in BOOLEAN, Written(v, p, blind)
      PROVE  v = w /\ ~blind /\ p # None
  <2>1. CASE v # w
    BY <1>0, <1>1, <2>1 DEF Written
  <2>2. CASE v = w /\ workos[w] = p
    BY <1>0, <1>1, <2>2 DEF Written
  <2>3. CASE v = w /\ workos[w] # p
    BY <1>0, <1>1, <2>3 DEF Written
  <2> QED
    BY <2>1, <2>2, <2>3
<1>2. CASE UNCHANGED <<workos, astray>>
  BY <1>2
<1>3. CASE LateWrite
  <2>1. PICK u \in late : ApplyNative(u) \/ ApplyWorkos(u)
    BY <1>3 DEF LateWrite
  <2>2. CASE Claimed(u)
    <3>1. claim = u.by /\ Stuck(u.by) /\ u.by \in Request
      BY <1>0, <2>2 DEF ClaimInv, LateHeld, TypeOK, UpstreamOK, Write
    <3> QED
      BY <3>1, IdFacts
  <2>3. CASE ~Claimed(u)
    <3>1. ApplyNative(u) \/ Written(u.id, u.person, TRUE)
      BY <2>1, <2>3 DEF Claimed, ApplyWorkos
    <3>2. CASE ApplyNative(u)
      BY <1>2, <3>2 DEF ApplyNative
    <3> QED
      BY <1>1, <3>1, <3>2
  <2> QED
    BY <2>2, <2>3
<1>4. ASSUME NEW s \in Request, MirrorPut(s) \/ MirrorPost(s)
      PROVE  /\ claim' = s /\ w = wleg'[s].sink
             /\ Ended(s)' \/ Recording(s)'
  <2>0. KeyInv(s) /\ Shape(s)
    BY <1>0 DEF LinkInv, ClaimInv, Sound, Shapes, KeyInvs
  <2>1. PICK v \in Id : EndsOn(s, v)
    BY <1>0, <1>4, <2>0, EndsNow
  <2>2. /\ UNCHANGED <<claim, call, pc>> /\ pc[s] = "legs" /\ call[s].op \in {"create", "replace"}
    BY <1>0, <1>4, <2>0, EndsNow
  <2> DEFINE blind == Blind(s, v)
  <2>3. blind \in BOOLEAN /\ Written(v, call[s].person, blind) /\ (~blind => claim = s)
    BY <2>1 DEF EndsOn, Blind
  <2> HIDE DEF blind
  <2>4. v = w /\ claim = s
    BY <1>1, <2>3
  <2>5. wleg'[s].sink = w /\ wleg'[s].stat = "ok"
        /\ wleg'[s].at = IF Recovering(s) THEN "record" ELSE "done"
    BY <2>1, <2>4 DEF EndsOn
  <2>6. Recovering(s) \/ call[s].op = "create"
    <3>1. wleg[s].at \in {"put", "reput", "lookup", "post"}
      BY <2>1 DEF EndsOn
    <3> QED
      BY <1>0, <2>2, <2>4, <3>1, PutsUnclaimed DEF Recovering
  <2> QED
    BY <2>2, <2>4, <2>5, <2>6 DEF Ended, Recording, Recovering
<1>5. ASSUME NEW s \in Request, WorkosDeleted(s) \/ Compensate(s)
      PROVE  FALSE
  BY <1>1, <1>5 DEF WorkosDeleted, Compensate
<1>6. CASE \E s \in Request : MirrorPut(s) \/ MirrorPost(s)
  BY <1>4, <1>6
<1> QED
  BY <1>2, <1>3, <1>5, <1>6, WorkosMover DEF Next, vars, upstream, history

LEMMA NextWorkosLinked ==
    ASSUME RowsInv, [Next]_vars, NEW w \in Id
    PROVE  WorkosLinked(w)'
<1> SUFFICES ASSUME workos'[w] # None, (Owners(w) = {})', w \notin legacy'.workos \cup astray'
             PROVE  /\ claim' # None
                    /\ \/ Stuck(claim)'
                       \/ w = wleg'[claim'].sink /\ (Ended(claim)' \/ Recording(claim)')
  BY DEF WorkosLinked
<1>0. /\ LinkInv /\ ClaimInv /\ TypeOK /\ w \notin legacy.workos
      /\ mapping \in [Id -> Id \cup {None}] /\ mapping' \in [Id -> Id \cup {None}]
      /\ WorkosLinked(w)
  <2>1. ClaimInv'
    BY NextClaimInv DEF RowsInv, PersonInv, LinkInv
  <2> QED
    BY <2>1, LegacyStill
    DEF RowsInv, PersonInv, LinkInv, ClaimInv, Sound, TypeOK, StoreOK, RowInv
<1>1. CASE claim # None /\ Stuck(claim)
  BY <1>0, <1>1, ClaimStuck
<1>2. Owners(w) = {}
  <2> SUFFICES ASSUME NEW m \in Id, mapping[m] = w PROVE FALSE
    BY DEF Owners
  <2>1. mapping'[m] # w
    BY DEF Owners
  <2> QED
    BY <1>0, <2>1, RowLeft
<1>3. CASE workos[w] # None /\ w \notin astray /\ ~(claim # None /\ Stuck(claim))
  <2>1. claim \in Request /\ w = wleg[claim].sink /\ (Ended(claim) \/ Recording(claim))
    BY <1>0, <1>2, <1>3 DEF WorkosLinked, TypeOK, StoreOK
  <2>2. PICK c \in Request : c = claim
    BY <2>1
  <2>3. /\ claim' = c
        /\ Stuck(c)' \/ (w = wleg'[c].sink /\ (Ended(c)' \/ Recording(c)'))
    <3>1. Ended(c) \/ Recording(c)
      BY <2>1, <2>2
    <3> QED
      BY <1>0, <2>1, <2>2, <3>1, EndedGoesOn
  <2> QED
    BY <2>3, IdFacts
<1>4. CASE /\ workos[w] = None \/ w \in astray
           /\ ~(claim # None /\ Stuck(claim)) /\ mapping' = mapping
  <2>1. PICK s \in Request : /\ claim' = s /\ w = wleg'[s].sink
                             /\ Ended(s)' \/ Recording(s)'
    BY <1>0, <1>2, <1>4, NewlyThere
  <2> QED
    BY <2>1, IdFacts
<1>5. CASE (workos[w] = None \/ w \in astray) /\ mapping' # mapping
  <2>1. PICK s \in Request : Step(s)
    BY <1>5 DEF Next, LateWrite, vars, store
  <2>2. RecoverRecord(s) \/ RecoverRecordFails(s) \/ Prune(s) \/ PruneFails(s) \/ Persist(s)
    BY <1>0, <1>5, <2>1, MappingMover
  <2>3. UNCHANGED <<workos, astray>>
    BY <2>2 DEF RecoverRecord, RecoverRecordFails, Prune, PruneFails, Persist, upstream, history
  <2> QED
    BY <1>5, <2>3
<1> QED
  BY <1>1, <1>3, <1>4, <1>5

LEMMA InitRowsInv == Init => RowsInv
<1> SUFFICES ASSUME Init PROVE RowsInv
  OBVIOUS
<1>1. ClaimUsed
  BY IdFacts DEF Init, ClaimUsed
<1>2. LegInvs
  BY DEF Init, LegInvs, LegInv, Alone, KeyGone, Replaced, NewRow, Ended, Recording
<1>3. RowInv
  <2> DEFINE rows == {i \in Id : native[i] # None /\ mapping[i] = None}
             ends == {i \in Id : workos[i] # None /\ Owners(i) = {}}
             gone == {i \in Id : mapping[i] # None /\ workos[mapping[i]] = None}
  <2>1. legacy = [native |-> rows, workos |-> ends, gone |-> gone]
    BY DEF Init
  <2>2. /\ \A i \in Id : native[i] # None /\ mapping[i] = None => i \in rows
        /\ \A i \in Id : workos[i] # None /\ Owners(i) = {} => i \in ends
    OBVIOUS
  <2> HIDE DEF rows, ends, gone
  <2>3. legacy.native = rows /\ legacy.workos = ends
    BY <2>1
  <2> QED
    BY <2>2, <2>3 DEF RowInv, NativeLinked, WorkosLinked
<1> QED
  BY <1>1, <1>2, <1>3, InitPersonInv DEF RowsInv

LEMMA NextRowsInv == RowsInv /\ [Next]_vars => RowsInv'
<1> SUFFICES ASSUME RowsInv, [Next]_vars PROVE RowsInv'
  OBVIOUS
<1>0. /\ PersonInv /\ ClaimInv /\ LatePuts /\ KeyInvs /\ ClaimUsed
      /\ \A r \in Request : Alone(r) /\ KeyGone(r)
  BY DEF RowsInv, PersonInv, LinkInv, LegInvs, LegInv
<1>1. PersonInv' /\ ClaimUsed'
  BY <1>0, NextPersonInv, NextClaimUsed
<1>2. LegInvs'
  <2>1. ASSUME NEW r \in Request
        PROVE  LegInv(r)'
    BY <1>0, NextAlone, NextKeyGone, NextReplaced, NextNewRow DEF LegInv
  <2> QED
    BY <2>1 DEF LegInvs
<1>3. RowInv'
  BY NextNativeLinked, NextWorkosLinked DEF RowInv
<1> QED
  BY <1>1, <1>2, <1>3 DEF RowsInv

(* No row is lost: each is linked, was unlinked before the mode was reached,  *)
(* or a claim still reports that an identity is unresolved, whatever requests *)
(* overlap and whichever of their answers never come.                         *)
THEOREM NoRowIsLost == Spec => []LinkedOrClaimed
<1>1. Init => RowsInv
  BY InitRowsInv
<1>2. RowsInv /\ [Next]_vars => RowsInv'
  BY NextRowsInv
<1>3. RowsInv => LinkedOrClaimed
  BY DEF RowsInv, RowInv, NativeLinked, WorkosLinked, LinkedOrClaimed, Unlinked
<1> QED
  BY <1>1, <1>2, <1>3, PTL DEF Spec

-----------------------------------------------------------------------------
(***************************************************************************)
(* Why a resource that WorkOS dropped and native kept is known, where the   *)
(* IdP sends the writes of one resource in order: only its own DELETE drops *)
(* a row that is mapped, under a claim that is not given back before the    *)
(* ledger says so; and what a PUT clears is gone from the ledger for a row  *)
(* that no DELETE of the resource can take away before the PUT is over.     *)
(***************************************************************************)

Ordered == \A r, s \in Request : r # s /\ InFlight(r) /\ InFlight(s)
                                 => ~SameResource(call[r], call[s])

(* The claim stands for good. *)
Kept == claim # None /\ Stuck(claim)

Gap(n) == native[n] # None /\ mapping[n] # None /\ workos[mapping[n]] = None

(* A PUT goes to the row its resource is mapped to, and once WorkOS took it   *)
(* the resource has that row.                                                *)
Puts(r) ==
    call[r].op = "replace" /\ pc[r] = "legs" =>
        /\ wleg[r].at = "put"
           => Kept \/ native[call[r].id] = None \/ mapping[call[r].id] = wleg[r].to
        /\ wleg[r].at \in {"done", "unclaim"} /\ WorkosSettled(r)
           => Kept \/ ~Gap(call[r].id)

(* A create that is taken back has no native row. *)
Undone(r) == pc[r] = "compensate" => nleg[r].id = None

(* A DELETE that WorkOS has carried out and native has not answered. *)
Dropping(n) ==
    \E d \in Request : /\ claim = d /\ call[d].op = "delete" /\ call[d].id = n
                       /\ pc[d] = "legs" /\ wleg[d].at = "done" /\ wleg[d].stat = "ok"

Told(n) == Gap(n) /\ n \notin legacy.gone => n \in ledger \/ Kept \/ Dropping(n)

NativeIds == \A i \in Id : native[i] # None => i \in NativeId

GapInv == /\ Ordered /\ NativeIds
          /\ \A r \in Request : Puts(r) /\ Undone(r)
          /\ \A n \in NativeId : Told(n)

LEMMA GapFacts ==
    ASSUME LinkInv
    PROVE  /\ ClaimInv /\ Sound /\ TypeOK /\ LocalOK /\ LatePuts
           /\ mapping \in [Id -> Id \cup {None}] /\ native \in [Id -> Person \cup {None}]
           /\ workos \in [Id -> Person \cup {None}]
           /\ \A r \in Request : Shape(r) /\ KeyInv(r) /\ LandInv(r)
BY DEF LinkInv, ClaimInv, Sound, TypeOK, StoreOK, UpstreamOK, LocalOK, Shapes, KeyInvs, LandInvs

(* Two handlers of one resource, or of one person, are one. *)
LEMMA OneHandler ==
    ASSUME Sound, Ordered, NEW r \in Request, NEW s \in Request, InFlight(r), InFlight(s),
           \/ call[r].id # None /\ call[r].id = call[s].id
           \/ call[r].person # None /\ call[r].person = call[s].person
    PROVE  r = s
BY DEF Ordered, SameResource

LEMMA KeptStays ==
    ASSUME ClaimInv, [Next]_vars, Kept
    PROVE  Kept'
BY ClaimStuck DEF Kept

LEMMA NextUndone ==
    ASSUME LinkInv, [Next]_vars, NEW r \in Request, Undone(r)
    PROVE  Undone(r)'
<1> SUFFICES ASSUME pc'[r] = "compensate" PROVE nleg'[r].id = None
  BY DEF Undone
<1>0. ClaimInv /\ Sound /\ LocalOK
  BY GapFacts
<1>1. CASE ~Step(r)
  BY <1>0, <1>1, OthersStep DEF Unmoved, Undone
<1>2. CASE \/ ReceiveCreate(r) \/ ReceiveDelete(r) \/ ReceiveReplace(r) \/ TakeClaim(r)
           \/ CheckCreate(r) \/ CheckDelete(r) \/ CheckReplace(r)
  BY <1>0, <1>2 DEF ReceiveCreate, ReceiveDelete, ReceiveReplace, Receive, TakeClaim,
                    CheckCreate, CheckDelete, CheckReplace, StartLegs, LocalOK
<1>3. CASE \/ NativeCreated(r) \/ NativeConflict(r) \/ NativeReplaced(r)
           \/ NativeDeleted(r) \/ NativeRejected(r) \/ NativeUnsure(r)
  BY <1>0, <1>3, NativeSummary
<1>4. CASE \/ MirrorRead(r) \/ MirrorPut(r) \/ MirrorPutMissing(r) \/ MirrorPutRejected(r)
           \/ MirrorPutUnsure(r) \/ MirrorLookupFails(r) \/ MirrorPost(r)
           \/ MirrorPostConflict(r) \/ MirrorPostFails(r) \/ RecoverRefused(r)
           \/ WorkosDeleted(r) \/ WorkosDeleteFails(r)
  BY <1>0, <1>4, MirrorSummary
<1>5. CASE \/ RecoverClaim(r) \/ RecoverRecord(r) \/ RecoverRecordFails(r) \/ RecoverUnclaim(r)
  BY <1>5 DEF RecoverClaim, RecoverRecord, RecoverRecordFails, RecoverUnclaim, At
<1>6. CASE CreateLanded(r)
  <2>1. PICK next : Go(r, next) /\ (next = "compensate" => nleg[r].id = None)
    BY <1>6 DEF CreateLanded
  <2> QED
    BY <1>0, <2>1, GoLocal
<1>7. CASE \/ ClaimBusy(r) \/ Release(r) \/ Die(r) \/ CreateRefused(r) \/ WriteRefused(r)
           \/ PreflightFails(r) \/ FinishReplace(r) \/ FinishDelete(r) \/ Prune(r)
           \/ PruneFails(r) \/ CreateFailed(r) \/ Compensate(r)
           \/ CompensateFails(r) \/ Persist(r) \/ Settle(r)
  <2>1. \E next \in {"release", "prune", "persist", "settle", "done", "dead"} : Go(r, next)
    <3>1. CASE \/ ClaimBusy(r) \/ Release(r) \/ Die(r) \/ CreateRefused(r) \/ WriteRefused(r)
               \/ PreflightFails(r)
      BY <3>1 DEF ClaimBusy, Release, Die, CreateRefused, WriteRefused, PreflightFails
    <3>2. CASE FinishReplace(r) \/ FinishDelete(r) \/ CreateFailed(r)
      BY <3>2 DEF FinishReplace, FinishDelete, CreateFailed
    <3>3. CASE \/ Prune(r) \/ PruneFails(r) \/ Compensate(r)
               \/ CompensateFails(r) \/ Persist(r) \/ Settle(r)
      BY <3>3 DEF Prune, PruneFails, Compensate, CompensateFails, Persist, Settle
    <3> QED
      BY <1>7, <3>1, <3>2, <3>3
  <2> QED
    BY <1>0, <2>1, GoLocal
<1> QED
  BY <1>1, <1>2, <1>3, <1>4, <1>5, <1>6, <1>7 DEF Step

(* A row of WorkOS goes by the DELETE of the one resource it is mapped to, or *)
(* by a write whose claim stands for good, or nothing maps it.               *)
LEMMA RowDropped ==
    ASSUME LinkInv, \A r \in Request : Undone(r), [Next]_vars, ~Kept,
           NEW w \in Id, workos[w] # None, workos'[w] = None, Owners(w) # {}
    PROVE  \E d \in Request : /\ WorkosDeleted(d) /\ claim = d /\ ~Stuck(d)
                              /\ call[d].op = "delete" /\ pc[d] = "legs"
                              /\ w = wleg[d].to /\ Owners(w) = {call[d].id}
<1>0. /\ ClaimInv /\ TypeOK /\ LatePuts /\ workos \in [Id -> Person \cup {None}]
      /\ \A r \in Request : Shape(r) /\ KeyInv(r) /\ LandInv(r)
  BY GapFacts
<1>1. CASE LateWrite
  <2>1. PICK u \in late : ApplyNative(u) \/ ApplyWorkos(u)
    BY <1>1 DEF LateWrite
  <2>2. CASE Claimed(u)
    <3>1. claim = u.by /\ Stuck(u.by) /\ u.by \in Request
      BY <1>0, <2>2 DEF ClaimInv, LateHeld, TypeOK, UpstreamOK, Write
    <3> QED
      BY <3>1, IdFacts DEF Kept
  <2>3. CASE ~Claimed(u)
    <3>1. CASE ApplyNative(u)
      BY <3>1 DEF ApplyNative
    <3>2. CASE ApplyWorkos(u)
      <4>1. u.verb = "put" /\ u.side = "workos" /\ workos' = [workos EXCEPT ![u.id] = u.person]
        BY <2>3, <3>2 DEF Claimed, ApplyWorkos, Written
      <4>2. u.person \in Person
        BY <1>0, <4>1 DEF LatePuts
      <4> QED
        BY <1>0, <4>1, <4>2, IdFacts
    <3> QED
      BY <2>1, <3>1, <3>2
  <2> QED
    BY <2>2, <2>3
<1>2. ASSUME NEW s \in Request, MirrorPut(s) \/ MirrorPost(s)
      PROVE  FALSE
  <2>1. PICK v \in Id : EndsOn(s, v)
    BY <1>0, <1>2, EndsNow
  <2>2. call[s].person \in Person
    BY <1>0, <1>2, EndsNow DEF Shape
  <2>3. workos' = [workos EXCEPT ![v] = call[s].person]
    BY <2>1 DEF EndsOn, Written
  <2> QED
    BY <1>0, <2>2, <2>3, IdFacts
<1>3. ASSUME NEW s \in Request, Compensate(s)
      PROVE  FALSE
  <2>1. pc[s] = "compensate" /\ call[s].op = "create" /\ nleg[s].id = None /\ Ended(s)
    BY <1>0, <1>3 DEF Compensate, Shape, Undone, Ended
  <2>2. Keyed(s) /\ Fits(s)
    BY <1>0, <2>1 DEF KeyInv
  <2>3. Owners(wleg[s].sink) = {}
    BY <2>1, <2>2, IdFacts DEF Keyed, Free, Fits, Owners
  <2>4. w = wleg[s].sink
    BY <1>0, <1>3 DEF Compensate, Written
  <2> QED
    BY <2>3, <2>4
<1>4. ASSUME NEW s \in Request, WorkosDeleted(s)
      PROVE  /\ claim = s /\ ~Stuck(s)
             /\ call[s].op = "delete" /\ pc[s] = "legs"
             /\ w = wleg[s].to /\ Owners(w) = {call[s].id}
  <2>1. call[s].op = "delete" /\ pc[s] = "legs" /\ w = wleg[s].to
    BY <1>0, <1>4 DEF WorkosDeleted, At, Written
  <2>2. claim = s
    BY <1>0, <2>1 DEF ClaimInv, ClaimHeld, Owns
  <2>3. ~Stuck(s)
    BY <2>2, IdFacts DEF Kept
  <2> QED
    BY <1>0, <2>1, <2>2, <2>3 DEF LandInv, Deleting
<1>5. CASE UNCHANGED workos
  BY <1>5
<1> QED
  BY <1>1, <1>2, <1>3, <1>4, <1>5, WorkosMover DEF Next, vars, upstream

(* What a request stores leads to a row. *)
LEMMA StoredRow ==
    ASSUME LinkInv, Replacing, [Next]_vars, NEW n \in Id, NEW w \in Id,
           mapping'[n] = w, mapping[n] # w
    PROVE  workos'[w] # None
<1>1. PICK s \in Request : StoresRow(s, n, w) /\ claim = s /\ ~Stuck(s)
  BY MappedBy
<1>2. UNCHANGED workos
  BY StoredTwins
<1>3. LandInv(s)
  BY GapFacts
<1>4. w = wleg[s].sink /\ (Ended(s) \/ Recording(s))
  BY <1>1 DEF StoresRow
<1> QED
  BY <1>1, <1>2, <1>3, <1>4 DEF LandInv, WorkosLanded, Recording

(* While a PUT is under way nobody else moves the mapping of its resource. *)
LEMMA PutMapping ==
    ASSUME LinkInv, Replacing, Ordered, [Next]_vars, NEW r \in Request, ~Step(r),
           call[r].op = "replace", pc[r] = "legs", native[call[r].id] # None
    PROVE  mapping'[call[r].id] = mapping[call[r].id]
<1> DEFINE n == call[r].id
<1> SUFFICES ASSUME mapping'[n] # mapping[n] PROVE FALSE
  OBVIOUS
<1>0. /\ ClaimInv /\ Sound /\ mapping \in [Id -> Id \cup {None}] /\ Named(r) /\ n \in Id
      /\ \A s \in Request : Shape(s) /\ KeyInv(s) /\ LandInv(s)
      /\ mapping' \in [Id -> Id \cup {None}]
  <2>1. LinkInv'
    BY NextLinkInv
  <2> QED
    BY <2>1, GapFacts DEF Replacing, Shape, LinkInv, ClaimInv, Sound, TypeOK, StoreOK
<1>1. InFlight(r) /\ n # None /\ native[n] = call[r].person /\ call[r].person \in Person
  BY <1>0, IdFacts DEF InFlight, Named, Shape
<1>2. CASE mapping'[n] = None
  <2>1. PICK s \in Request : Step(s)
    BY <1>0 DEF Next, LateWrite, vars, store
  <2>2. RecoverRecord(s) \/ RecoverRecordFails(s) \/ Prune(s) \/ PruneFails(s) \/ Persist(s)
    BY <1>0, <2>1, MappingMover
  <2>3. CASE Prune(s) \/ PruneFails(s)
    <3>1. call[s].id = n /\ pc[s] = "prune"
      BY <1>0, <2>3 DEF Prune, PruneFails
    <3>2. InFlight(s)
      BY <3>1 DEF InFlight
    <3> QED
      BY <1>0, <1>1, <2>1, <3>1, <3>2, OneHandler
  <2>4. CASE RecoverRecord(s) \/ RecoverRecordFails(s)
    <3>1. mapping' = [mapping EXCEPT ![wleg[s].key] = wleg[s].sink] \/ mapping' = mapping
      BY <2>4 DEF RecoverRecord, RecoverRecordFails
    <3>2. wleg[s].sink \in Id
      BY <1>0, <2>4 DEF RecoverRecord, RecoverRecordFails, At, KeyInv, Fits
    <3> QED
      BY <1>0, <1>2, <3>1, <3>2, IdFacts
  <2>5. CASE Persist(s)
    <3>1. wleg[s].sink \in Id
      BY <1>0, <2>5 DEF Persist, Shape, KeyInv, Ended, Fits
    <3> QED
      BY <1>0, <1>2, <2>5, <3>1, IdFacts DEF Persist
  <2> QED
    BY <2>2, <2>3, <2>4, <2>5
<1>3. CASE mapping'[n] # None
  <2>1. mapping'[n] \in Id
    BY <1>0, <1>3
  <2>2. PICK s \in Request : StoresRow(s, n, mapping'[n]) /\ claim = s /\ ~Stuck(s)
    BY <1>0, <2>1, MappedBy
  <2>3. CASE Persist(s) /\ pc[s] = "persist" /\ call[s].op = "create" /\ n = nleg[s].id
    <3>1. native[n] = call[s].person /\ InFlight(s)
      BY <1>0, <1>1, <2>2, <2>3, IdFacts DEF LandInv, NativeLanded, InFlight
    <3> QED
      BY <1>0, <1>1, <2>3, <3>1, OneHandler, IdFacts
  <2>4. CASE /\ RecoverRecord(s) \/ RecoverRecordFails(s)
             /\ Recording(s) /\ n = call[s].id
    <3>1. InFlight(s)
      BY <2>4 DEF InFlight, Recording
    <3>2. r = s
      BY <1>0, <1>1, <2>4, <3>1, OneHandler
    <3> QED
      BY <2>4, <3>2 DEF Step
  <2> QED
    BY <2>2, <2>3, <2>4 DEF StoresRow
<1> QED
  BY <1>2, <1>3

(* Past its receipt a handler carries the request it received. *)
LEMMA GoesOn ==
    ASSUME Sound, NEW q \in Request, Step(q),
           ~(ReceiveCreate(q) \/ ReceiveDelete(q) \/ ReceiveReplace(q))
    PROVE  InFlight(q)' => InFlight(q) /\ call'[q] = call[q]
<1>0. LocalOK
  BY DEF Sound, TypeOK
<1>1. CASE \/ ClaimBusy(q) \/ Release(q) \/ Die(q) \/ CreateRefused(q) \/ WriteRefused(q)
           \/ PreflightFails(q) \/ FinishReplace(q) \/ FinishDelete(q) \/ Prune(q)
           \/ PruneFails(q) \/ CreateFailed(q) \/ CreateLanded(q) \/ Compensate(q)
           \/ CompensateFails(q) \/ Persist(q) \/ Settle(q)
  <2>1. PICK next \in {"release", "prune", "compensate", "persist", "settle", "done", "dead"} :
            /\ Go(q, next)
            /\ \/ next \in {"done", "dead"}
               \/ pc[q] \in {"check", "legs", "compensate", "persist", "settle", "prune"}
    BY <1>1, GoSummary
  <2> QED
    BY <1>0, <2>1, GoLocal DEF InFlight
<1>2. CASE \/ TakeClaim(q) \/ CheckCreate(q) \/ CheckDelete(q) \/ CheckReplace(q)
           \/ RecoverClaim(q) \/ RecoverRecord(q) \/ RecoverRecordFails(q) \/ RecoverUnclaim(q)
  BY <1>0, <1>2 DEF TakeClaim, CheckCreate, CheckDelete, CheckReplace, StartLegs, RecoverClaim,
                    RecoverRecord, RecoverRecordFails, RecoverUnclaim, At, InFlight
<1>3. CASE \/ NativeCreated(q) \/ NativeConflict(q) \/ NativeReplaced(q)
           \/ NativeDeleted(q) \/ NativeRejected(q) \/ NativeUnsure(q)
  BY <1>3, NativeSummary DEF InFlight
<1>4. CASE \/ MirrorRead(q) \/ MirrorPut(q) \/ MirrorPutMissing(q) \/ MirrorPutRejected(q)
           \/ MirrorPutUnsure(q) \/ MirrorLookupFails(q) \/ MirrorPost(q)
           \/ MirrorPostConflict(q) \/ MirrorPostFails(q) \/ RecoverRefused(q)
           \/ WorkosDeleted(q) \/ WorkosDeleteFails(q)
  BY <1>4, MirrorSummary DEF InFlight
<1> QED
  BY <1>1, <1>2, <1>3, <1>4 DEF Step

LEMMA NextOrdered ==
    ASSUME Serialized, ClaimInv, Ordered, [Next]_vars
    PROVE  Ordered'
<1>0. Sound /\ LocalOK
  BY DEF ClaimInv, Sound, TypeOK
<1>1. CASE LateWrite \/ UNCHANGED vars
  BY <1>1 DEF LateWrite, vars, local, Ordered, InFlight, SameResource
<1>2. ASSUME NEW q \in Request, Step(q)
      PROVE  Ordered'
  <2>1. OthersUnmoved(q)
    BY <1>2, StepHolds DEF ClaimInv
  <2>2. \A s \in Request \ {q} : InFlight(s)' => InFlight(s) /\ call'[s] = call[s]
    BY <2>1 DEF OthersUnmoved, InFlight
  <2>3. CASE ReceiveCreate(q) \/ ReceiveDelete(q) \/ ReceiveReplace(q)
    <3>1. PICK c : Receive(q, c)
      BY <2>3 DEF ReceiveCreate, ReceiveDelete, ReceiveReplace
    <3>2. call'[q] = c
      BY <1>0, <3>1 DEF Receive, LocalOK
    <3>3. \A s \in Request \ {q} : InFlight(s)' => ~SameResource(c, call'[s])
      BY <2>2, <3>1 DEF Receive
    <3> QED
      BY <2>2, <3>2, <3>3 DEF Ordered, SameResource
  <2>4. CASE ~(ReceiveCreate(q) \/ ReceiveDelete(q) \/ ReceiveReplace(q))
    <3>1. InFlight(q)' => InFlight(q) /\ call'[q] = call[q]
      BY <1>0, <1>2, <2>4, GoesOn
    <3> QED
      BY <2>2, <3>1 DEF Ordered, SameResource
  <2> QED
    BY <2>3, <2>4
<1> QED
  BY <1>1, <1>2 DEF Next

(* How the WorkOS leg of a PUT comes to have succeeded. *)
LEMMA PutEnds ==
    ASSUME ClaimInv, NEW r \in Request, KeyInv(r), Step(r), pc'[r] = "legs",
           call'[r].op = "replace", wleg'[r].at \in {"done", "unclaim"}, WorkosSettled(r)'
    PROVE  /\ call'[r] = call[r] /\ pc[r] = "legs"
           /\ \/ MirrorPut(r) /\ wleg[r].at = "put"
              \/ RecoverRecord(r)
              \/ /\ wleg[r].at \in {"done", "unclaim"} /\ WorkosSettled(r)
                 /\ UNCHANGED <<mapping, workos>>
<1>0. Sound /\ LocalOK /\ Shape(r) /\ wleg[r] \in WorkosLeg /\ wleg'[r].stat \in {"ok", "gone"}
  BY DEF ClaimInv, Sound, TypeOK, Shapes, LocalOK, WorkosSettled
<1>1. CASE \/ ReceiveCreate(r) \/ ReceiveDelete(r) \/ ReceiveReplace(r) \/ TakeClaim(r)
  BY <1>0, <1>1 DEF ReceiveCreate, ReceiveDelete, ReceiveReplace, Receive, TakeClaim, LocalOK
<1>2. CASE \/ ClaimBusy(r) \/ Release(r) \/ Die(r) \/ CreateRefused(r) \/ WriteRefused(r)
           \/ PreflightFails(r) \/ FinishReplace(r) \/ FinishDelete(r) \/ Prune(r)
           \/ PruneFails(r) \/ CreateFailed(r) \/ CreateLanded(r) \/ Compensate(r)
           \/ CompensateFails(r) \/ Persist(r) \/ Settle(r)
  BY <1>0, <1>2, GoSummary, GoLocal
<1>3. CASE CheckCreate(r) \/ CheckDelete(r) \/ CheckReplace(r)
  <2>1. \E at, key, to, owner : StartLegs(r, at, key, to, owner)
    BY <1>3 DEF CheckCreate, CheckDelete, CheckReplace
  <2> QED
    BY <1>0, <2>1, StartedLeg
<1>4. CASE \/ NativeCreated(r) \/ NativeConflict(r) \/ NativeReplaced(r)
           \/ NativeDeleted(r) \/ NativeRejected(r) \/ NativeUnsure(r)
  <2>1. /\ UNCHANGED <<mapping, call, pc>> /\ pc[r] = "legs"
        /\ wleg'[r] = wleg[r] \/ wleg[r].at = "wait"
    BY <1>0, <1>4, NativeSummary
  <2>2. wleg'[r] = wleg[r]
    BY <2>1 DEF KeyInv
  <2>3. workos' = workos
    BY <1>4 DEF NativeCreated, NativeConflict, NativeReplaced, NativeDeleted, NativeRejected,
                NativeUnsure, upstream
  <2> QED
    BY <2>1, <2>2, <2>3 DEF WorkosSettled
<1>5. CASE MirrorPut(r) \/ MirrorPost(r)
  <2>1. PICK w \in Id : EndsOn(r, w)
    BY <1>5, EndsNow
  <2>2. UNCHANGED <<call, pc>> /\ pc[r] = "legs"
    BY <1>5, EndsNow
  <2>3. ~Recovering(r) /\ wleg[r].at \in {"put", "reput", "lookup", "post"}
    BY <2>1 DEF EndsOn
  <2>4. wleg[r].at = "put"
    BY <2>2, <2>3 DEF Recovering
  <2> QED
    BY <1>5, <2>2, <2>4 DEF MirrorPost, At
<1>6. CASE MirrorPutMissing(r) \/ MirrorPostConflict(r) \/ RecoverClaim(r)
  <2>1. \E at \in {"lookup", "recover", "post", "reput"} : Goto(r, at)
    BY <1>6 DEF MirrorPutMissing, MirrorPostConflict, RecoverClaim
  <2> QED
    BY <1>0, <2>1, GotoLeg
<1>7. CASE MirrorRead(r)
  <2> DEFINE to == IF mapping[wleg[r].key] # None THEN mapping[wleg[r].key] ELSE wleg[r].key
  <2>1. CASE MirrorReadFails(r, to)
    <3>1. \E stat \in {"rejected", "unsure", "conflict"} : MirrorFailed(r, stat)
      BY <2>1 DEF MirrorReadFails
    <3> QED
      BY <1>0, <3>1, MirrorFailedLeg
  <2>2. CASE wleg' = [wleg EXCEPT ![r] = [wleg[r] EXCEPT !.at = "put", !.to = to]]
    <3> DEFINE leg == [wleg[r] EXCEPT !.at = "put", !.to = to]
    <3>1. leg.at = "put" /\ wleg' = [wleg EXCEPT ![r] = leg]
      <4> HIDE DEF to
      <4> QED
        BY <1>0, <2>2 DEF WorkosLeg
    <3> HIDE DEF leg
    <3> QED
      BY <1>0, <3>1 DEF LocalOK
  <2> QED
    BY <1>7, <2>1, <2>2 DEF MirrorRead
<1>8. CASE \/ MirrorPutRejected(r) \/ MirrorPutUnsure(r) \/ MirrorLookupFails(r)
           \/ MirrorPostFails(r) \/ RecoverRefused(r)
  <2>1. \E stat \in {"rejected", "unsure", "conflict"} : MirrorFailed(r, stat)
    <3>1. CASE MirrorPutRejected(r)
      <4>1. PICK w \in Addressed(r) :
                MirrorFailed(r, IF CanHold(workos, call[r].person, w) THEN "rejected" ELSE "conflict")
        BY <3>1 DEF MirrorPutRejected
      <4> QED
        BY <4>1
    <3>2. CASE MirrorLookupFails(r)
      BY <3>2 DEF MirrorLookupFails
    <3>3. CASE MirrorPutUnsure(r) \/ MirrorPostFails(r) \/ RecoverRefused(r)
      BY <3>3 DEF MirrorPutUnsure, MirrorPostFails, RecoverRefused
    <3> QED
      BY <1>8, <3>1, <3>2, <3>3
  <2> QED
    BY <1>0, <2>1, MirrorFailedLeg
<1>9. CASE WorkosDeleted(r) \/ WorkosDeleteFails(r)
  BY <1>9 DEF WorkosDeleted, WorkosDeleteFails, Elsewhere
<1>10. CASE RecoverRecord(r)
  BY <1>10 DEF RecoverRecord, At
<1>11. CASE RecoverRecordFails(r)
  <2> DEFINE leg == [wleg[r] EXCEPT !.stat = "unsure", !.at = "done"]
  <2>1. leg.stat = "unsure" /\ wleg' = [wleg EXCEPT ![r] = leg]
    BY <1>0, <1>11 DEF RecoverRecordFails, WorkosLeg
  <2> HIDE DEF leg
  <2> QED
    BY <1>0, <2>1 DEF LocalOK
<1>12. CASE RecoverUnclaim(r)
  <2>1. wleg'[r].stat = wleg[r].stat
    BY <1>0, <1>12, GotoLeg DEF RecoverUnclaim
  <2> QED
    BY <1>0, <1>12, <2>1 DEF RecoverUnclaim, At, WorkosSettled, upstream
<1> QED
  BY <1>1, <1>2, <1>3, <1>4, <1>5, <1>6, <1>7, <1>8, <1>9, <1>10, <1>11, <1>12 DEF Step

LEMMA NextPuts ==
    ASSUME RowsInv, Ordered, \A q \in Request : Undone(q), [Next]_vars,
           NEW r \in Request, Puts(r)
    PROVE  Puts(r)'
<1> SUFFICES ASSUME call'[r].op = "replace", pc'[r] = "legs", ~Kept'
             PROVE  Puts(r)'
  BY DEF Puts
<1>0. /\ LinkInv /\ ClaimInv /\ Sound /\ TypeOK /\ LocalOK /\ Replacing
      /\ mapping \in [Id -> Id \cup {None}] /\ native \in [Id -> Person \cup {None}]
      /\ workos \in [Id -> Person \cup {None}]
      /\ Shape(r) /\ KeyInv(r) /\ LandInv(r)
  BY GapFacts DEF RowsInv, PersonInv
<1>1. ~Kept
  BY <1>0, KeptStays
<1>2. ASSUME call[r].op = "replace", native[call[r].id] = None
      PROVE  native'[call[r].id] = None
  <2>1. call[r].id \in Id /\ call[r].id \notin Mintable
    BY <1>0, <1>2 DEF Shape, Mintable
  <2> QED
    BY <1>0, <1>2, <2>1, NativeStep DEF Sound
<1>3. CASE ~Step(r)
  <2> DEFINE n == call[r].id
  <2>1. Unmoved(r) /\ call[r].op = "replace" /\ pc[r] = "legs"
    BY <1>0, <1>3, OthersStep DEF Unmoved
  <2>2. n \in Id /\ InFlight(r) /\ n # None
    BY <1>0, <2>1, IdFacts DEF Shape, InFlight
  <2>3. native[n] # None => mapping'[n] = mapping[n]
    BY <1>0, <1>3, <2>1, PutMapping
  <2>4. ASSUME ~Gap(n) PROVE ~Gap(n)'
    <3> SUFFICES ASSUME native'[n] # None, mapping'[n] # None, workos'[mapping'[n]] = None
                 PROVE  FALSE
      BY <2>1 DEF Gap, Unmoved
    <3>1. native[n] # None /\ mapping'[n] = mapping[n] /\ mapping[n] \in Id
      BY <1>0, <1>2, <2>1, <2>2, <2>3
    <3>2. workos[mapping[n]] # None /\ n \in Owners(mapping[n])
      BY <2>2, <2>4, <3>1 DEF Gap, Owners
    <3>3. PICK d \in Request : /\ call[d].op = "delete" /\ pc[d] = "legs"
                               /\ Owners(mapping[n]) = {call[d].id}
      BY <1>0, <1>1, <3>1, <3>2, RowDropped
    <3>4. InFlight(d) /\ call[d].id = n
      BY <3>2, <3>3 DEF InFlight
    <3> QED
      BY <1>0, <2>1, <2>2, <3>3, <3>4, OneHandler
  <2> QED
    BY <1>1, <1>2, <2>1, <2>3, <2>4 DEF Puts, Unmoved, WorkosSettled, Gap
<1>4. CASE Step(r)
  <2>1. ASSUME wleg'[r].at = "put"
        PROVE  native'[call'[r].id] = None \/ mapping'[call'[r].id] = wleg'[r].to
    <3>1. CASE LegStarts(r)
      BY <2>1, <3>1 DEF LegStarts
    <3>2. CASE LegReads(r)
      <4>1. KeyInv(r)'
        BY <1>0, NextKeyInvs DEF LinkInv, KeyInvs
      <4> QED
        BY <3>2, <4>1 DEF LegReads, SameKey, KeyInv
    <3>3. CASE LegGoesOn(r)
      BY <1>1, <1>2, <2>1, <3>3 DEF LegGoesOn, SameTo, InRecovery, Puts
    <3> QED
      BY <1>0, <1>4, <3>1, <3>2, <3>3, ReplaceFrom
  <2>2. ASSUME wleg'[r].at \in {"done", "unclaim"}, WorkosSettled(r)'
        PROVE  ~Gap(call[r].id)'
    <3> DEFINE n == call[r].id
    <3>1. call'[r] = call[r] /\ pc[r] = "legs" /\ n \in Id
      BY <1>0, <1>4, <2>2, PutEnds DEF Shape
    <3>2. CASE MirrorPut(r) /\ wleg[r].at = "put"
      <4>1. PICK w \in Id : EndsOn(r, w)
        BY <1>0, <3>2, EndsNow
      <4>2. UNCHANGED <<mapping, native>> /\ w = wleg[r].to
        BY <1>0, <3>2, <4>1, EndsNow DEF EndsOn
      <4>3. workos'[w] = call[r].person /\ call[r].person # None
        BY <1>0, <3>1, <4>1, IdFacts DEF EndsOn, Written, Shape
      <4>4. native[n] = None \/ mapping[n] = w
        BY <1>1, <3>1, <3>2, <4>2 DEF Puts
      <4> QED
        BY <3>1, <4>2, <4>3, <4>4 DEF Gap
    <3>3. CASE RecoverRecord(r)
      <4>1. mapping' = [mapping EXCEPT ![wleg[r].key] = wleg[r].sink] /\ UNCHANGED workos
        BY <3>3 DEF RecoverRecord, upstream
      <4>2. wleg[r].key = n /\ ~Stuck(r) /\ wleg[r].at = "record"
        BY <1>0, <3>1, <3>3 DEF RecoverRecord, At, KeyInv, Stuck
      <4>3. workos[wleg[r].sink] # None
        BY <1>0, <3>1, <4>2 DEF LandInv, WorkosLanded
      <4>4. mapping'[n] = wleg[r].sink
        BY <1>0, <3>1, <4>1, <4>2
      <4> QED
        BY <3>1, <4>1, <4>3, <4>4 DEF Gap
    <3>4. CASE /\ wleg[r].at \in {"done", "unclaim"} /\ WorkosSettled(r)
               /\ UNCHANGED <<mapping, workos>>
      <4>1. ~Gap(n)
        BY <1>1, <3>1, <3>4 DEF Puts
      <4> QED
        BY <1>2, <3>1, <3>4, <4>1 DEF Gap
    <3> QED
      BY <1>0, <1>4, <2>2, <3>2, <3>3, <3>4, PutEnds
  <2> QED
    BY <2>1, <2>2 DEF Puts
<1> QED
  BY <1>3, <1>4

LEMMA LedgerMover ==
    ASSUME NEW s \in Request, Step(s), ledger' # ledger
    PROVE  \/ FinishReplace(s) \/ FinishDelete(s) \/ CreateFailed(s)
           \/ Compensate(s) \/ CompensateFails(s) \/ Settle(s)
<1>1. CASE \/ ReceiveCreate(s) \/ ReceiveDelete(s) \/ ReceiveReplace(s)
           \/ TakeClaim(s) \/ ClaimBusy(s) \/ Release(s) \/ Die(s)
           \/ CheckCreate(s) \/ CreateRefused(s) \/ CheckDelete(s) \/ CheckReplace(s)
           \/ WriteRefused(s) \/ PreflightFails(s)
  BY <1>1 DEF ReceiveCreate, ReceiveDelete, ReceiveReplace, Receive, TakeClaim, ClaimBusy,
              Release, Die, CheckCreate, CreateRefused, CheckDelete, CheckReplace,
              WriteRefused, PreflightFails, StartLegs, store
<1>2. CASE \/ NativeCreated(s) \/ NativeConflict(s) \/ NativeReplaced(s)
           \/ NativeDeleted(s) \/ NativeRejected(s) \/ NativeUnsure(s)
  BY <1>2 DEF NativeCreated, NativeConflict, NativeReplaced, NativeDeleted, NativeRejected,
              NativeUnsure, NativeDone, store
<1>3. CASE \/ MirrorRead(s) \/ MirrorPut(s) \/ MirrorPutMissing(s) \/ MirrorPutRejected(s)
           \/ MirrorPutUnsure(s) \/ MirrorLookupFails(s) \/ MirrorPost(s)
           \/ MirrorPostConflict(s) \/ MirrorPostFails(s) \/ RecoverRefused(s)
           \/ WorkosDeleted(s) \/ WorkosDeleteFails(s)
  BY <1>3 DEF MirrorRead, MirrorPut, MirrorPutMissing, MirrorPutRejected, MirrorPutUnsure,
              MirrorLookupFails, MirrorPost, MirrorPostConflict, MirrorPostFails,
              RecoverRefused, WorkosDeleted, WorkosDeleteFails, Elsewhere
<1>4. CASE \/ RecoverClaim(s) \/ RecoverRecord(s) \/ RecoverRecordFails(s)
           \/ RecoverUnclaim(s) \/ Prune(s) \/ PruneFails(s) \/ CreateLanded(s) \/ Persist(s)
  BY <1>4 DEF RecoverClaim, RecoverRecord, RecoverRecordFails, RecoverUnclaim, Prune,
              PruneFails, CreateLanded, Persist, store
<1> QED
  BY <1>1, <1>2, <1>3, <1>4 DEF Step

(* Nothing that is missing from WorkOS is struck off the ledger. *)
LEMMA StaysListed ==
    ASSUME LinkInv, ExternalId \cap NativeId = {}, [Next]_vars, ~Kept,
           \A r \in Request : Puts(r),
           NEW n \in NativeId, Gap(n), n \in ledger
    PROVE  n \in ledger'
<1> SUFFICES ASSUME n \notin ledger' PROVE FALSE
  OBVIOUS
<1>0. /\ ClaimInv /\ LocalOK /\ n \in Id
      /\ \A s \in Request : Shape(s) /\ KeyInv(s) /\ LandInv(s)
  BY GapFacts, IdFacts
<1>1. PICK s \in Request : Step(s)
  BY DEF Next, LateWrite, vars, store
<1>2. claim = s => ~Stuck(s)
  BY IdFacts DEF Kept
<1>3. call[s].ext \in ExternalId \cup {None} /\ (call[s].op = "create" => call[s].person \in Person)
  BY <1>0 DEF LocalOK, Call, Shape
<1>4. call[s].op = "create" => FailureKey(s) # n
  BY <1>0, <1>3, IdAssumption DEF FailureKey
<1>5. CASE FinishReplace(s)
  <2>1. WorkosSettled(s) /\ n = call[s].id
    BY <1>5 DEF FinishReplace, RecordIf, Record, Clear
  <2>2. call[s].op = "replace" /\ pc[s] = "legs" /\ wleg[s].at = "done"
    BY <1>5 DEF FinishReplace, LegsDone, InLegs
  <2> QED
    BY <2>1, <2>2 DEF Puts
<1>6. CASE FinishDelete(s)
  <2>1. NativeSettled(s) /\ n = call[s].id
    BY <1>6 DEF FinishDelete, RecordIf, Record, Clear
  <2>2. call[s].op = "delete" /\ pc[s] = "legs"
    BY <1>6 DEF FinishDelete, LegsDone, InLegs
  <2>3. claim = s
    BY <1>0, <2>2 DEF ClaimInv, ClaimHeld, Owns
  <2> QED
    BY <1>0, <1>2, <2>1, <2>2, <2>3 DEF LandInv, Deleting, NativeSettled, Gap
<1>7. CASE CreateFailed(s) \/ CompensateFails(s)
  BY <1>7 DEF CreateFailed, CompensateFails, RecordIf, Record
<1>8. CASE Compensate(s)
  <2>1. call[s].op = "create"
    BY <1>0, <1>8 DEF Compensate, Shape
  <2> QED
    BY <1>4, <1>8, <2>1 DEF Compensate, Clear
<1>9. CASE Settle(s)
  <2>1. call[s].op = "create" /\ pc[s] = "settle" /\ ~Stuck(s)
    BY <1>0, <1>9 DEF Settle, Shape, Stuck
  <2>2. n = nleg[s].id
    BY <1>4, <1>9, <2>1 DEF Settle, Clear
  <2>3. mapping[n] = wleg[s].sink /\ workos[wleg[s].sink] # None
    BY <1>0, <2>1, <2>2 DEF LandInv, Stored, WorkosLanded
  <2> QED
    BY <2>3 DEF Gap
<1> QED
  BY <1>1, <1>5, <1>6, <1>7, <1>8, <1>9, LedgerMover

(* A DELETE of a resource that native still has goes on to list it, or keeps  *)
(* its claim.                                                                *)
LEMMA DropGoesOn ==
    ASSUME LinkInv, [Next]_vars, ~Kept, NEW n \in Id, Dropping(n), native[n] # None,
           native'[n] # None
    PROVE  n \in ledger' \/ Kept' \/ Dropping(n)'
<1>1. PICK d \in Request : /\ claim = d /\ call[d].op = "delete" /\ call[d].id = n
                           /\ pc[d] = "legs" /\ wleg[d].at = "done" /\ wleg[d].stat = "ok"
  BY DEF Dropping
<1>0. ClaimInv /\ Sound /\ LocalOK /\ KeyInv(d) /\ LandInv(d) /\ ~Stuck(d) /\ d # None
      /\ native \in [Id -> Person \cup {None}]
  BY <1>1, GapFacts, IdFacts DEF Kept
<1>2. CASE ~Step(d)
  <2>1. Unmoved(d) /\ claim' = d
    BY <1>0, <1>1, <1>2, OthersStep
  <2> QED
    BY <1>1, <2>1 DEF Unmoved, Dropping
<1>3. ASSUME Step(d), claim' = d, Stuck(d)'
      PROVE  Kept'
  BY <1>0, <1>3 DEF Kept
<1>4. CASE Die(d)
  <2>1. Go(d, "dead") /\ claim' = d
    BY <1>1, <1>4 DEF Die, store
  <2>2. pc'[d] = "dead"
    BY <1>0, <2>1, GoLocal
  <2>3. Step(d)
    BY <1>4 DEF Step
  <2> QED
    BY <1>3, <2>1, <2>2, <2>3 DEF Stuck
<1>5. CASE FinishDelete(d)
  <2>1. claim' = d
    BY <1>1, <1>5 DEF FinishDelete
  <2>2. CASE Go(d, "done")
    <3>1. pc'[d] = "done" /\ Step(d)
      BY <1>0, <1>5, <2>2, GoLocal DEF Step
    <3> QED
      BY <1>3, <2>1, <3>1 DEF Stuck
  <2>3. CASE ~NativeSettled(d) /\ RecordIf(~NativeSettled(d) /\ wleg[d].stat = "ok", call[d].id)
    BY <1>1, <2>3 DEF RecordIf, Record
  <2>4. CASE NativeSettled(d)
    BY <1>0, <1>1, <2>4 DEF LandInv, Deleting, NativeSettled
  <2> QED
    BY <1>1, <1>5, <2>2, <2>3, <2>4 DEF FinishDelete, WorkosSettled
<1>6. CASE \/ NativeCreated(d) \/ NativeConflict(d) \/ NativeReplaced(d)
           \/ NativeDeleted(d) \/ NativeRejected(d) \/ NativeUnsure(d)
  <2>1. UNCHANGED <<claim, call, pc>> /\ wleg'[d] = wleg[d]
    BY <1>0, <1>1, <1>6, NativeSummary
  <2> QED
    BY <1>1, <2>1 DEF Dropping
<1>7. CASE \/ MirrorRead(d) \/ MirrorPut(d) \/ MirrorPutMissing(d) \/ MirrorPutRejected(d)
           \/ MirrorPutUnsure(d) \/ MirrorLookupFails(d) \/ MirrorPost(d)
           \/ MirrorPostConflict(d) \/ MirrorPostFails(d) \/ RecoverRefused(d)
           \/ WorkosDeleted(d) \/ WorkosDeleteFails(d)
  BY <1>0, <1>1, <1>7, MirrorSummary
<1>8. CASE \/ RecoverClaim(d) \/ RecoverRecord(d) \/ RecoverRecordFails(d) \/ RecoverUnclaim(d)
           \/ FinishReplace(d) \/ CreateFailed(d) \/ CreateLanded(d)
  BY <1>1, <1>8 DEF RecoverClaim, RecoverRecord, RecoverRecordFails, RecoverUnclaim, At,
                    FinishReplace, CreateFailed, CreateLanded, LegsDone, InLegs
<1>9. CASE \/ ReceiveCreate(d) \/ ReceiveDelete(d) \/ ReceiveReplace(d)
           \/ TakeClaim(d) \/ ClaimBusy(d) \/ Release(d)
           \/ CheckCreate(d) \/ CreateRefused(d) \/ CheckDelete(d) \/ CheckReplace(d)
           \/ WriteRefused(d) \/ PreflightFails(d) \/ Prune(d) \/ PruneFails(d)
           \/ Compensate(d) \/ CompensateFails(d) \/ Persist(d) \/ Settle(d)
  BY <1>1, <1>9 DEF ReceiveCreate, ReceiveDelete, ReceiveReplace, Receive, TakeClaim, ClaimBusy,
              Release, CheckCreate, CreateRefused, CheckDelete, CheckReplace,
              WriteRefused, PreflightFails, Prune, PruneFails, Compensate, CompensateFails,
              Persist, Settle
<1> QED
  BY <1>2, <1>4, <1>5, <1>6, <1>7, <1>8, <1>9 DEF Step

LEMMA NextTold ==
    ASSUME RowsInv, GapInv, ExternalId \cap NativeId = {}, [Next]_vars, NEW n \in NativeId
    PROVE  Told(n)'
<1> SUFFICES ASSUME Gap(n)', n \notin legacy'.gone, ~Kept'
             PROVE  n \in ledger' \/ Dropping(n)'
  BY DEF Told
<1>0. /\ LinkInv /\ ClaimInv /\ Sound /\ TypeOK /\ Replacing /\ n \in Id
      /\ mapping \in [Id -> Id \cup {None}] /\ native \in [Id -> Person \cup {None}]
      /\ workos \in [Id -> Person \cup {None}]
      /\ Told(n) /\ (\A r \in Request : Undone(r) /\ Puts(r))
      /\ mapping' \in [Id -> Id \cup {None}]
  <2>1. LinkInv'
    BY NextLinkInv DEF RowsInv, PersonInv
  <2> QED
    BY <2>1, GapFacts, IdFacts
    DEF RowsInv, PersonInv, GapInv, LinkInv, ClaimInv, Sound, TypeOK, StoreOK
<1>1. ~Kept /\ n \notin legacy.gone
  BY <1>0, KeptStays, LegacyStill
<1>2. native'[n] # None /\ mapping'[n] \in Id /\ workos'[mapping'[n]] = None
  BY <1>0 DEF Gap
<1>3. CASE Gap(n)
  BY <1>0, <1>1, <1>2, <1>3, StaysListed, DropGoesOn DEF Told, Gap
<1>4. CASE ~Gap(n)
  <2>1. mapping'[n] = mapping[n]
    BY <1>0, <1>2, StoredRow
  <2>2. native[n] # None
    <3>1. n \notin Mintable
      BY <1>2, <2>1, IdFacts DEF Mintable
    <3> QED
      BY <1>0, <1>2, <3>1, NativeStep DEF Sound
  <2>3. workos[mapping[n]] # None /\ n \in Owners(mapping[n])
    BY <1>0, <1>2, <1>4, <2>1, <2>2, IdFacts DEF Gap, Owners
  <2>4. PICK d \in Request : /\ WorkosDeleted(d) /\ claim = d
                             /\ call[d].op = "delete" /\ pc[d] = "legs"
                             /\ mapping[n] = wleg[d].to /\ Owners(mapping[n]) = {call[d].id}
    BY <1>0, <1>1, <1>2, <2>1, <2>3, RowDropped
  <2>5. call[d].id = n
    BY <2>3, <2>4
  <2> DEFINE leg == [wleg[d] EXCEPT !.at = "done", !.stat = "ok"]
  <2>6. leg.at = "done" /\ leg.stat = "ok" /\ wleg' = [wleg EXCEPT ![d] = leg]
    <3>1. wleg[d] \in WorkosLeg
      BY <1>0 DEF TypeOK, LocalOK
    <3>2. wleg' = [wleg EXCEPT ![d] = leg]
      BY <2>3, <2>4 DEF WorkosDeleted
    <3> QED
      BY <3>1, <3>2 DEF WorkosLeg
  <2> HIDE DEF leg
  <2>7. wleg'[d].at = "done" /\ wleg'[d].stat = "ok"
    BY <1>0, <2>6 DEF TypeOK, LocalOK
  <2>8. UNCHANGED <<claim, call, pc>>
    BY <2>4 DEF WorkosDeleted, Elsewhere
  <2> QED
    BY <2>4, <2>5, <2>7, <2>8 DEF Dropping
<1> QED
  BY <1>3, <1>4

LEMMA InitGapInv == Init => GapInv
<1> SUFFICES ASSUME Init PROVE GapInv
  OBVIOUS
<1>1. Ordered /\ \A r \in Request : Puts(r) /\ Undone(r)
  <2>1. NoCall.op = "none"
    BY DEF NoCall
  <2> QED
    BY <2>1 DEF Init, Ordered, InFlight, Puts, Undone
<1>2. NativeIds /\ \A n \in NativeId : Told(n)
  BY IdFacts DEF Init, Inherited, NativeIds, Told, Gap
<1> QED
  BY <1>1, <1>2 DEF GapInv

LEMMA NextGapInv ==
    ASSUME Serialized, ExternalId \cap NativeId = {}
    PROVE  RowsInv /\ GapInv /\ [Next]_vars => GapInv'
<1> SUFFICES ASSUME RowsInv, GapInv, [Next]_vars PROVE GapInv'
  OBVIOUS
<1>1. LinkInv /\ ClaimInv /\ TypeOK /\ Shapes
  BY GapFacts DEF RowsInv, PersonInv, Sound
<1>2. Ordered'
  BY <1>1, NextOrdered DEF GapInv
<1>3. NativeIds'
  BY <1>1, NativeStep DEF GapInv, NativeIds, Mintable
<1>4. \A r \in Request : Puts(r)' /\ Undone(r)'
  BY <1>1, NextPuts, NextUndone DEF GapInv
<1>5. \A n \in NativeId : Told(n)'
  BY NextTold
<1> QED
  BY <1>2, <1>3, <1>4, <1>5 DEF GapInv

(* A resource native has and WorkOS dropped is on the ledger or claimed, for  *)
(* any number of requests, crashes and answers lost, where the IdP sends the  *)
(* writes of one resource in order and no externalId is also a native id      *)
(* (index.ts workosPrimaryWrite, scim.ts mirrorUpsert): the ledger keys a     *)
(* failed create by its externalId, so one that is a native id would strike   *)
(* that resource off.                                                        *)
THEOREM GapsShow ==
    ASSUME Serialized, ExternalId \cap NativeId = {}
    PROVE  Spec => []GapIsVisible
<1>1. Init => RowsInv /\ GapInv
  BY InitRowsInv, InitGapInv
<1>2. RowsInv /\ GapInv /\ [Next]_vars => (RowsInv /\ GapInv)'
  BY NextRowsInv, NextGapInv
<1>3. RowsInv /\ GapInv => GapIsVisible
  <2> SUFFICES ASSUME RowsInv, GapInv, NEW n \in Id \ legacy.gone,
                      mapping[n] # None, native[n] # None, workos[mapping[n]] = None
               PROVE  n \in ledger \/ claim # None
    BY DEF GapIsVisible
  <2>1. n \in NativeId
    BY DEF GapInv, NativeIds
  <2> QED
    BY <2>1, IdFacts DEF GapInv, Told, Gap, Kept, Dropping
<1> QED
  BY <1>1, <1>2, <1>3, PTL DEF Spec
=============================================================================
