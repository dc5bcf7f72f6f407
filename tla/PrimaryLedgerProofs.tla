-------------------------- MODULE PrimaryLedgerProofs --------------------------
(***************************************************************************)
(* PrimaryLedger is well typed for every set of users, groups, writes and  *)
(* runs.  TypeOK needs to know two things more: a handler at work has an    *)
(* operation and a resource (Asked), and what a run still has to replay was *)
(* listed with some content (Snapped), so that no write carries None.       *)
(***************************************************************************)
EXTENDS PrimaryLedger, TLAPS

LEMMA LedgerFacts ==
    /\ User \subseteq Resource /\ Group \subseteq Resource
    /\ Request \subseteq Content /\ Before \in Content /\ Stale \in Content
    /\ None \notin Resource /\ None \notin Content /\ None \notin Run /\ None \notin Request
    /\ Request \cap Run = {}
    /\ \A r \in Resource : Kind(r) \in Kinds
BY LedgerAssumption DEF Resource, Content, Kind, Kinds

(* A handler that is at work has been asked for something. *)
Asked == \A x \in Request : Busy(x) => req[x].op \in Ops /\ req[x].res \in Resource

(* What a run has left to replay, it listed. *)
Snapped == \A q \in Run : \A r \in run[q].todo : run[q].snap[r] # None

Sound == TypeOK /\ Asked /\ Snapped

LivePcs == {"idle", "claim", "check", "legs", "done"}
RunPcs == {"idle", "Users", "Groups", "maps", "mark", "listUsers", "pushUsers",
           "listGroups", "pushGroups", "sweep", "release", "undo", "unlease", "done"}

-----------------------------------------------------------------------------
(* What the pieces of the actions do. *)

OthersUnasked(x) == \A y \in Request \ {x} : req'[y] = req[y]
OthersUnrun(q) == \A p \in Run \ {q} : run'[p] = run[p]

LEMMA UnaskedTyped ==
    /\ Unasked \in Live /\ Unasked.op = "none" /\ Unasked.pc = "idle"
    /\ [Unasked EXCEPT !.pc = "done"] \in Live
    /\ [Unasked EXCEPT !.pc = "done"].pc = "done"
BY DEF Unasked, Live, Stats

LEMMA UnrunTyped ==
    /\ Unrun \in Replay /\ Unrun.pc = "idle" /\ Unrun.todo = {}
    /\ [Unrun EXCEPT !.pc = "done"] \in Replay
    /\ [Unrun EXCEPT !.pc = "done"].pc = "done"
    /\ [Unrun EXCEPT !.pc = "done"].todo = {}
BY DEF Unrun, Replay

LEMMA ToDoes ==
    ASSUME TypeOK, NEW x \in Request, NEW p \in LivePcs, To(x, p)
    PROVE  /\ req' \in [Request -> Live] /\ OthersUnasked(x)
           /\ req'[x].pc = p /\ req'[x].op = req[x].op /\ req'[x].res = req[x].res
           /\ req'[x].native = req[x].native /\ req'[x].workos = req[x].workos
<1> DEFINE c == [req[x] EXCEPT !.pc = p]
<1>1. req[x] \in Live
  BY DEF TypeOK
<1>2. /\ c \in Live /\ c.pc = p /\ c.op = req[x].op /\ c.res = req[x].res
      /\ c.native = req[x].native /\ c.workos = req[x].workos
  BY <1>1 DEF Live, LivePcs
<1>3. req' = [req EXCEPT ![x] = c]
  BY DEF To
<1> HIDE DEF c
<1> QED
  BY <1>2, <1>3 DEF TypeOK, OthersUnasked

LEMMA FinishedDoes ==
    ASSUME TypeOK, NEW x \in Request, Finished(x)
    PROVE  req' \in [Request -> Live] /\ OthersUnasked(x) /\ req'[x].pc = "done"
<1> DEFINE c == [Unasked EXCEPT !.pc = "done"]
<1>1. c \in Live /\ c.pc = "done"
  BY UnaskedTyped
<1>2. req' = [req EXCEPT ![x] = c]
  BY DEF Finished
<1> HIDE DEF c
<1> QED
  BY <1>1, <1>2 DEF TypeOK, OthersUnasked

LEMMA NativeAnswersDoes ==
    ASSUME TypeOK, NEW x \in Request, NEW stat \in Stats, NativeAnswers(x, stat)
    PROVE  /\ req' \in [Request -> Live] /\ OthersUnasked(x)
           /\ req'[x].pc = req[x].pc /\ req'[x].op = req[x].op /\ req'[x].res = req[x].res
           /\ req'[x].native = stat /\ req'[x].workos = req[x].workos
<1> DEFINE c == [req[x] EXCEPT !.native = stat]
<1>1. req[x] \in Live
  BY DEF TypeOK
<1>2. /\ c \in Live /\ c.pc = req[x].pc /\ c.op = req[x].op /\ c.res = req[x].res
      /\ c.native = stat /\ c.workos = req[x].workos
  BY <1>1 DEF Live
<1>3. req' = [req EXCEPT ![x] = c]
  BY DEF NativeAnswers
<1> HIDE DEF c
<1> QED
  BY <1>2, <1>3 DEF TypeOK, OthersUnasked

LEMMA WorkosAnswersDoes ==
    ASSUME TypeOK, NEW x \in Request, NEW stat \in Stats, WorkosAnswers(x, stat)
    PROVE  /\ req' \in [Request -> Live] /\ OthersUnasked(x)
           /\ req'[x].pc = req[x].pc /\ req'[x].op = req[x].op /\ req'[x].res = req[x].res
           /\ req'[x].native = req[x].native /\ req'[x].workos = stat
<1> DEFINE c == [req[x] EXCEPT !.workos = stat]
<1>1. req[x] \in Live
  BY DEF TypeOK
<1>2. /\ c \in Live /\ c.pc = req[x].pc /\ c.op = req[x].op /\ c.res = req[x].res
      /\ c.native = req[x].native /\ c.workos = stat
  BY <1>1 DEF Live
<1>3. req' = [req EXCEPT ![x] = c]
  BY DEF WorkosAnswers
<1> HIDE DEF c
<1> QED
  BY <1>2, <1>3 DEF TypeOK, OthersUnasked

LEMMA GoesDoes ==
    ASSUME TypeOK, NEW q \in Run, NEW p \in RunPcs, Goes(q, p)
    PROVE  /\ run' \in [Run -> Replay] /\ OthersUnrun(q) /\ run'[q].pc = p
           /\ run'[q].snap = run[q].snap /\ run'[q].todo = run[q].todo
           /\ run'[q].doing = run[q].doing /\ run'[q].clean = run[q].clean
           /\ run'[q].unresolved = run[q].unresolved /\ run'[q].wrote = run[q].wrote
<1> DEFINE c == [run[q] EXCEPT !.pc = p]
<1>1. run[q] \in Replay
  BY DEF TypeOK
<1>2. /\ c \in Replay /\ c.pc = p /\ c.snap = run[q].snap /\ c.todo = run[q].todo
      /\ c.doing = run[q].doing /\ c.clean = run[q].clean
      /\ c.unresolved = run[q].unresolved /\ c.wrote = run[q].wrote
  BY <1>1 DEF Replay, RunPcs
<1>3. run' = [run EXCEPT ![q] = c]
  BY DEF Goes
<1> HIDE DEF c
<1> QED
  BY <1>2, <1>3 DEF TypeOK, OthersUnrun

LEMMA OverDoes ==
    ASSUME TypeOK, NEW q \in Run, Over(q)
    PROVE  /\ run' \in [Run -> Replay] /\ OthersUnrun(q) /\ run'[q].pc = "done"
           /\ run'[q].todo = {}
           /\ fresh' \in [Run -> SUBSET Resource] /\ fresh'[q] = {}
           /\ \A p \in Run \ {q} : fresh'[p] = fresh[p]
<1> DEFINE c == [Unrun EXCEPT !.pc = "done"]
<1>1. c \in Replay /\ c.pc = "done" /\ c.todo = {}
  BY UnrunTyped
<1>2. run' = [run EXCEPT ![q] = c] /\ fresh' = [fresh EXCEPT ![q] = {}]
  BY DEF Over
<1> HIDE DEF c
<1> QED
  BY <1>1, <1>2 DEF TypeOK, OthersUnrun

LedgerOK ==
    /\ gap \in [Resource -> {"none", "write", "delete"}]
    /\ stamp \in [Resource -> Run \cup {None}]
    /\ fresh \in [Run -> SUBSET Resource]

LEMMA RecordTyped ==
    ASSUME TypeOK, NEW r \in Resource, NEW method \in {"write", "delete"}, Record(r, method)
    PROVE  LedgerOK'
BY DEF TypeOK, Record, LedgerOK

LEMMA DropTyped ==
    ASSUME TypeOK, NEW rs, Drop(rs)
    PROVE  LedgerOK'
BY DEF TypeOK, Drop, LedgerOK

LEMMA UnansweredTyped ==
    ASSUME TypeOK, NEW side \in {"native", "workos"}, NEW verb \in {"post", "put", "delete"},
           NEW r \in Resource, NEW content \in Content, NEW by \in Request \cup Run,
           Unanswered(side, verb, r, content, by)
    PROVE  late' \subseteq Write
BY DEF TypeOK, Unanswered, Write

LEMMA ReleasedTyped ==
    ASSUME TypeOK, NEW x
    PROVE  Released(x) \in [Kinds -> Request \cup Run \cup {None}]
BY DEF TypeOK, Released

-----------------------------------------------------------------------------
(* Live writes. *)

(* The writer moves and nobody else does. *)
Moves(x) ==
    /\ req' \in [Request -> Live] /\ OthersUnasked(x) /\ run' = run
    /\ req'[x].pc \in {"idle", "done"} \/ (req'[x].op \in Ops /\ req'[x].res \in Resource)

LEMMA MovesSound ==
    ASSUME Sound, NEW x \in Request, Moves(x)
    PROVE  Asked' /\ Snapped'
<1>1. Asked'
  BY DEF Sound, Asked, Busy, Moves, OthersUnasked
<1> QED
  BY <1>1 DEF Sound, Snapped, Moves

LEMMA ReceiveTyped ==
    ASSUME Sound, NEW x \in Request, Receive(x)
    PROVE  TypeOK' /\ Moves(x)
<1>1. PICK op \in Ops, r \in Resource :
          /\ req' = [req EXCEPT ![x] = [Unasked EXCEPT !.op = op, !.res = r,
                        !.pc = IF op \in {"create", "delete"} THEN "claim" ELSE "check"]]
          /\ told' = [told EXCEPT ![r] = "nothing"]
  BY DEF Receive
<1> DEFINE p == IF op \in {"create", "delete"} THEN "claim" ELSE "check"
           c == [Unasked EXCEPT !.op = op, !.res = r, !.pc = p]
<1>2. p \in {"claim", "check"}
  OBVIOUS
<1>3. c \in Live /\ c.op = op /\ c.res = r
  <2> HIDE DEF p
  <2> QED
    BY <1>2 DEF Unasked, Live, Stats, Ops
<1>4. req' = [req EXCEPT ![x] = c]
  BY <1>1
<1> HIDE DEF c
<1>5. Moves(x)
  BY <1>3, <1>4 DEF Sound, TypeOK, Moves, OthersUnasked, Receive
<1>6. told' \in [Resource -> {"nothing", "success", "disturbed"}]
  BY <1>1 DEF Sound, TypeOK
<1> QED
  BY <1>5, <1>6 DEF Receive, Sound, TypeOK, Moves, store, ledger, upstream

LEMMA BeforeLegsTyped ==
    ASSUME Sound, NEW x \in Request,
           TakeClaim(x) \/ ClaimBusy(x) \/ Checked(x) \/ Refused(x) \/ Die(x)
    PROVE  TypeOK' /\ Moves(x)
<1>1. CASE TakeClaim(x)
  <2>1. To(x, "check") /\ Busy(x)
    BY <1>1 DEF TakeClaim, Busy
  <2>2. Moves(x)
    BY <1>1, <2>1, ToDoes DEF Sound, Asked, Moves, TakeClaim, LivePcs
  <2>3. claim' \in [Kinds -> Request \cup Run \cup {None}]
    BY <1>1 DEF TakeClaim, Sound, TypeOK
  <2> QED
    BY <1>1, <2>2, <2>3 DEF TakeClaim, Sound, TypeOK, Moves, ledger, upstream
<1>2. CASE Checked(x)
  <2>1. To(x, "legs") /\ Busy(x)
    BY <1>2 DEF Checked, Busy
  <2>2. Moves(x)
    BY <1>2, <2>1, ToDoes DEF Sound, Asked, Moves, Checked, LivePcs
  <2> QED
    BY <1>2, <2>2 DEF Checked, Sound, TypeOK, Moves, store, ledger, upstream
<1>3. CASE ClaimBusy(x) \/ Refused(x) \/ Die(x)
  <2>1. Moves(x)
    BY <1>3, FinishedDoes DEF Sound, Moves, ClaimBusy, Refused, Die
  <2> QED
    BY <1>3, <2>1, ReleasedTyped
    DEF ClaimBusy, Refused, Die, Sound, TypeOK, Moves, store, ledger, upstream
<1> QED
  BY <1>1, <1>2, <1>3

(* A leg's answer leaves the writer where it is. *)
LEMMA AnswerMoves ==
    ASSUME Sound, NEW x \in Request, NEW stat \in Stats, req[x].pc = "legs", run' = run,
           NativeAnswers(x, stat) \/ WorkosAnswers(x, stat)
    PROVE  Moves(x)
<1>1. Busy(x)
  BY DEF Busy
<1> QED
  BY <1>1, NativeAnswersDoes, WorkosAnswersDoes DEF Sound, Asked, Moves

LEMMA NativeTyped ==
    ASSUME Sound, NEW x \in Request,
           NativeApplies(x) \/ NativeAdopts(x) \/ NativeRejects(x) \/ NativeUnsure(x)
    PROVE  TypeOK' /\ Moves(x)
<1>1. req[x].pc = "legs" /\ req[x].res \in Resource /\ req[x].op \in Ops
  BY DEF NativeApplies, NativeAdopts, NativeRejects, NativeUnsure, InLegs, Sound, Asked, Busy
<1>2. run' = run
  BY DEF NativeApplies, NativeAdopts, NativeRejects, NativeUnsure
<1>3. CASE NativeApplies(x)
  <2>1. \E stat \in Stats : NativeAnswers(x, stat)
    BY <1>3 DEF NativeApplies, Stats
  <2>2. native' \in [Resource -> Content \cup {None}]
    BY <1>1, <1>3, LedgerFacts DEF NativeApplies, Sound, TypeOK
  <2>3. Moves(x)
    BY <1>1, <1>2, <2>1, AnswerMoves
  <2> QED
    BY <1>3, <2>2, <2>3 DEF NativeApplies, Sound, TypeOK, Moves, store, ledger
<1>4. CASE NativeAdopts(x) \/ NativeRejects(x)
  <2>1. \E stat \in Stats : NativeAnswers(x, stat)
    BY <1>4 DEF NativeAdopts, NativeRejects, Stats
  <2>2. Moves(x)
    BY <1>1, <1>2, <2>1, AnswerMoves
  <2> QED
    BY <1>4, <2>2 DEF NativeAdopts, NativeRejects, Sound, TypeOK, Moves, store, ledger, upstream
<1>5. CASE NativeUnsure(x)
  <2>1. NativeAnswers(x, "unsure") /\ "unsure" \in Stats
    BY <1>5 DEF NativeUnsure, Stats
  <2>2. Moves(x)
    BY <1>1, <1>2, <2>1, AnswerMoves
  <2>3. Verb(x) \in {"post", "put", "delete"}
    BY DEF Verb
  <2>4. late' \subseteq Write
    <3> DEFINE v == Verb(x)
    <3>1. v \in {"post", "put", "delete"} /\ Unanswered("native", v, req[x].res, x, x)
      BY <1>5, <2>3 DEF NativeUnsure
    <3> HIDE DEF v
    <3> QED
      BY <1>1, <3>1, UnansweredTyped, LedgerFacts DEF Sound
  <2> QED
    BY <1>5, <2>2, <2>4 DEF NativeUnsure, Sound, TypeOK, Moves, store, ledger
<1> QED
  BY <1>3, <1>4, <1>5

LEMMA WorkosTyped ==
    ASSUME Sound, NEW x \in Request,
           \/ WorkosApplies(x) \/ WorkosRecovers(x) \/ RecoveryUnsure(x)
           \/ WorkosRejects(x) \/ WorkosUnsure(x)
    PROVE  TypeOK' /\ Moves(x)
<1>1. req[x].pc = "legs" /\ req[x].res \in Resource /\ req[x].op \in Ops
  BY DEF WorkosApplies, WorkosRecovers, RecoveryUnsure, WorkosRejects, WorkosUnsure,
         Recoverable, WorkosOpen, InLegs, Sound, Asked, Busy
<1>2. run' = run
  BY DEF WorkosApplies, WorkosRecovers, RecoveryUnsure, WorkosRejects, WorkosUnsure
<1>3. \E stat \in Stats : WorkosAnswers(x, stat)
  BY DEF WorkosApplies, WorkosRecovers, RecoveryUnsure, WorkosRejects, WorkosUnsure, Stats
<1>4. Moves(x)
  BY <1>1, <1>2, <1>3, AnswerMoves
<1>5. CASE WorkosApplies(x) \/ WorkosRecovers(x)
  <2>1. workos' \in [Resource -> Content \cup {None}]
    BY <1>1, <1>5, LedgerFacts DEF WorkosApplies, WorkosRecovers, Sound, TypeOK
  <2> QED
    BY <1>4, <1>5, <2>1 DEF WorkosApplies, WorkosRecovers, Sound, TypeOK, Moves, store, ledger
<1>6. CASE RecoveryUnsure(x)
  <2>1. late' \subseteq Write
    BY <1>1, <1>6, UnansweredTyped, LedgerFacts DEF RecoveryUnsure, Sound
  <2>2. claim' \in [Kinds -> Request \cup Run \cup {None}]
    BY <1>6 DEF RecoveryUnsure, Sound, TypeOK
  <2> QED
    BY <1>4, <1>6, <2>1, <2>2 DEF RecoveryUnsure, Sound, TypeOK, Moves, ledger
<1>7. CASE WorkosRejects(x)
  BY <1>4, <1>7 DEF WorkosRejects, Sound, TypeOK, Moves, store, ledger, upstream
<1>8. CASE WorkosUnsure(x)
  <2>1. Verb(x) \in {"post", "put", "delete"}
    BY DEF Verb
  <2>2. late' \subseteq Write
    <3> DEFINE v == Verb(x)
    <3>1. v \in {"post", "put", "delete"} /\ Unanswered("workos", v, req[x].res, x, x)
      BY <1>8, <2>1 DEF WorkosUnsure
    <3> HIDE DEF v
    <3> QED
      BY <1>1, <3>1, UnansweredTyped, LedgerFacts DEF Sound
  <2> QED
    BY <1>4, <1>8, <2>2 DEF WorkosUnsure, Sound, TypeOK, Moves, store, ledger
<1> QED
  BY <1>5, <1>6, <1>7, <1>8

LEMMA OutcomeTyped ==
    ASSUME Sound, NEW x \in Request,
           \/ FinishUpdate(x) \/ FinishDelete(x) \/ CreateLands(x) \/ CreateFails(x)
           \/ Compensate(x) \/ CompensateFails(x)
    PROVE  TypeOK' /\ Moves(x)
<1>1. req[x].res \in Resource
  BY DEF FinishUpdate, FinishDelete, CreateLands, CreateFails, Compensate, CompensateFails,
         LegsDone, InLegs, Sound, Asked, Busy
<1>2. Moves(x)
  BY FinishedDoes DEF FinishUpdate, FinishDelete, CreateLands, CreateFails, Compensate,
         CompensateFails, Sound, Moves
<1>3. ASSUME UNCHANGED ledger PROVE LedgerOK'
  BY <1>3 DEF ledger, LedgerOK, Sound, TypeOK
<1>4. ASSUME NEW method \in {"write", "delete"}, NEW committed, RecordIf(committed, x, method)
      PROVE  LedgerOK'
  BY <1>1, <1>3, <1>4, RecordTyped DEF RecordIf, Sound
<1>5. ASSUME Clear(req[x].res) PROVE LedgerOK'
  BY <1>5, DropTyped DEF Clear, Sound
<1>6. ASSUME Succeeds(x) PROVE told' \in [Resource -> {"nothing", "success", "disturbed"}]
  BY <1>6 DEF Succeeds, Sound, TypeOK
<1>7. /\ Released(x) \in [Kinds -> Request \cup Run \cup {None}]
      /\ claim \in [Kinds -> Request \cup Run \cup {None}]
  BY ReleasedTyped DEF Sound, TypeOK
<1>8. CASE FinishUpdate(x)
  <2>1. LedgerOK'
    BY <1>3, <1>4, <1>5, <1>8 DEF FinishUpdate
  <2>2. told' \in [Resource -> {"nothing", "success", "disturbed"}]
    BY <1>6, <1>8 DEF FinishUpdate, Sound, TypeOK
  <2> QED
    BY <1>2, <1>8, <2>1, <2>2 DEF FinishUpdate, Sound, TypeOK, LedgerOK, Moves, store, upstream
<1>9. CASE FinishDelete(x)
  <2>1. LedgerOK'
    BY <1>3, <1>4, <1>5, <1>9 DEF FinishDelete
  <2>2. told' \in [Resource -> {"nothing", "success", "disturbed"}]
    BY <1>6, <1>9 DEF FinishDelete, Sound, TypeOK
  <2>3. claim' \in [Kinds -> Request \cup Run \cup {None}] /\ mapped' \subseteq Resource
    BY <1>7, <1>9 DEF FinishDelete, Sound, TypeOK
  <2> QED
    BY <1>2, <1>9, <2>1, <2>2, <2>3 DEF FinishDelete, Sound, TypeOK, LedgerOK, Moves, upstream
<1>10. CASE CreateLands(x)
  <2>1. LedgerOK' /\ told' \in [Resource -> {"nothing", "success", "disturbed"}]
    BY <1>5, <1>6, <1>10 DEF CreateLands, Sound, TypeOK
  <2> QED
    BY <1>1, <1>2, <1>7, <1>10, <2>1
    DEF CreateLands, Sound, TypeOK, LedgerOK, Moves, upstream
<1>11. CASE CreateFails(x)
  <2>1. LedgerOK'
    BY <1>4, <1>11 DEF CreateFails
  <2> QED
    BY <1>2, <1>7, <1>11, <2>1 DEF CreateFails, Sound, TypeOK, LedgerOK, Moves, upstream
<1>12. CASE Compensate(x)
  <2>1. LedgerOK'
    BY <1>5, <1>12 DEF Compensate
  <2> QED
    BY <1>2, <1>7, <1>12, <2>1 DEF Compensate, Sound, TypeOK, LedgerOK, Moves
<1>13. CASE CompensateFails(x)
  <2>1. LedgerOK'
    BY <1>1, <1>13, RecordTyped DEF CompensateFails, Sound
  <2>2. late' \subseteq Write
    BY <1>1, <1>13, UnansweredTyped, LedgerFacts DEF CompensateFails, Sound, TypeOK
  <2> QED
    BY <1>2, <1>13, <2>1, <2>2 DEF CompensateFails, Sound, TypeOK, LedgerOK, Moves, store
<1> QED
  BY <1>8, <1>9, <1>10, <1>11, <1>12, <1>13

LEMMA LiveTyped ==
    ASSUME Sound, NEW x \in Request, LiveStep(x)
    PROVE  TypeOK' /\ Moves(x)
BY ReceiveTyped, BeforeLegsTyped, NativeTyped, WorkosTyped, OutcomeTyped DEF LiveStep

-----------------------------------------------------------------------------
(* Runs. *)

(* The run moves and nobody else does; what it still has to do, it listed.   *)
Turns(q) ==
    /\ run' \in [Run -> Replay] /\ OthersUnrun(q) /\ req' = req
    /\ \A r \in run'[q].todo : run'[q].snap[r] # None

LEMMA TurnsSound ==
    ASSUME Sound, NEW q \in Run, Turns(q)
    PROVE  Asked' /\ Snapped'
BY DEF Sound, Asked, Snapped, Busy, Turns, OthersUnrun

LEMMA OverTurns ==
    ASSUME Sound, NEW q \in Run, Over(q), req' = req
    PROVE  Turns(q)
BY OverDoes DEF Sound, Turns

LEMMA GoesTurns ==
    ASSUME Sound, NEW q \in Run, NEW p \in RunPcs, Goes(q, p), req' = req
    PROVE  Turns(q)
BY GoesDoes DEF Sound, Snapped, Turns

LEMMA BeforeReplayTyped ==
    ASSUME Sound, NEW q \in Run,
           \/ StartRun(q) \/ StartRefused(q) \/ ClaimKind(q) \/ ClaimKindBusy(q)
           \/ MapsLoaded(q) \/ Mark(q)
    PROVE  TypeOK' /\ Turns(q)
<1>1. CASE StartRefused(q)
  BY <1>1, OverDoes, OverTurns
  DEF StartRefused, Sound, TypeOK, Turns, store, upstream
<1>2. CASE StartRun(q) \/ ClaimKind(q) \/ ClaimKindBusy(q) \/ MapsLoaded(q) \/ Mark(q)
  <2>1. PICK p \in RunPcs : Goes(q, p)
    BY <1>2 DEF StartRun, ClaimKind, ClaimKindBusy, MapsLoaded, Mark, RunPcs
  <2>2. req' = req
    BY <1>2 DEF StartRun, ClaimKind, ClaimKindBusy, MapsLoaded, Mark
  <2>3. Turns(q)
    BY <2>1, <2>2, GoesTurns
  <2>4. claim' \in [Kinds -> Request \cup Run \cup {None}] /\ lease' \in Run \cup {None}
    BY <1>2 DEF StartRun, ClaimKind, ClaimKindBusy, MapsLoaded, Mark, store, Sound, TypeOK
  <2>5. LedgerOK'
    BY <1>2 DEF StartRun, ClaimKind, ClaimKindBusy, MapsLoaded, Mark, ledger, LedgerOK,
                Sound, TypeOK
  <2> QED
    BY <1>2, <2>3, <2>4, <2>5
    DEF StartRun, ClaimKind, ClaimKindBusy, MapsLoaded, Mark, LedgerOK, Sound, TypeOK,
        Turns, store, upstream
<1> QED
  BY <1>1, <1>2

LEMMA ListTyped ==
    ASSUME Sound, NEW q \in Run, List(q)
    PROVE  TypeOK' /\ Turns(q)
<1>1. PICK rs \in SUBSET {r \in OfKind(Listed(q)) : workos[r] # None} :
          run' = [run EXCEPT ![q] = [run[q] EXCEPT
                     !.pc = IF @ = "listUsers" THEN "pushUsers" ELSE "pushGroups",
                     !.snap = [r \in Resource |-> IF r \in rs THEN workos[r] ELSE @[r]],
                     !.todo = rs,
                     !.clean = @ /\ Complete(Listed(q), rs)]]
  BY DEF List
<1> DEFINE next == IF run[q].pc = "listUsers" THEN "pushUsers" ELSE "pushGroups"
           snap == [r \in Resource |-> IF r \in rs THEN workos[r] ELSE run[q].snap[r]]
           clean == run[q].clean /\ Complete(Listed(q), rs)
           c == [run[q] EXCEPT !.pc = next, !.snap = snap, !.todo = rs, !.clean = clean]
<1>2. run' = [run EXCEPT ![q] = c]
  BY <1>1 DEF Sound, TypeOK
<1>3. next \in {"pushUsers", "pushGroups"}
  OBVIOUS
<1>4. rs \subseteq Resource /\ \A r \in rs : workos[r] # None
  BY DEF OfKind
<1>5. run[q] \in Replay
  BY DEF Sound, TypeOK
<1>6. /\ snap \in [Resource -> Content \cup {None}]
      /\ \A r \in rs : snap[r] # None
  BY <1>4, <1>5 DEF Replay, Sound, TypeOK
<1>7. clean \in BOOLEAN
  BY <1>5 DEF Replay, Complete
<1>8. c \in Replay /\ c.todo = rs /\ c.snap = snap
  <2> HIDE DEF next, snap, clean
  <2> QED
    BY <1>3, <1>4, <1>5, <1>6, <1>7 DEF Replay
<1> HIDE DEF c, snap
<1>9. Turns(q)
  BY <1>2, <1>6, <1>8 DEF Turns, OthersUnrun, List, Sound, TypeOK
<1> QED
  BY <1>9 DEF Turns, List, Sound, TypeOK, store, ledger, upstream

LEMMA PushTyped ==
    ASSUME Sound, NEW q \in Run, NEW r \in Resource,
           Push(q, r) \/ PushSkipped(q, r) \/ PushRejected(q, r) \/ PushUnsure(q, r)
    PROVE  TypeOK' /\ Turns(q)
<1>1. /\ run[q] \in Replay /\ run[q].snap[r] \in Content
      /\ \A s \in run[q].todo : run[q].snap[s] # None
  BY DEF Sound, TypeOK, Snapped, Replay, Push, PushSkipped, PushRejected, PushUnsure, Pushing
<1>2. req' = req
  BY DEF Push, PushSkipped, PushRejected, PushUnsure
<1>3. ASSUME NEW c \in Replay, run' = [run EXCEPT ![q] = c],
             c.todo \subseteq run[q].todo, c.snap = run[q].snap
      PROVE  Turns(q)
  BY <1>1, <1>2, <1>3 DEF Turns, OthersUnrun, Sound, TypeOK
<1>4. CASE Push(q, r)
  <2> DEFINE c == [run[q] EXCEPT !.doing = r, !.wrote = TRUE]
  <2>1. run' = [run EXCEPT ![q] = c]
    BY <1>4 DEF Push
  <2>2. c \in Replay /\ c.todo = run[q].todo /\ c.snap = run[q].snap
    BY <1>1 DEF Replay
  <2> HIDE DEF c
  <2>3. Turns(q)
    BY <1>3, <2>1, <2>2
  <2>4. native' \in [Resource -> Content \cup {None}]
    BY <1>1, <1>4 DEF Push, Sound, TypeOK
  <2> QED
    BY <1>4, <2>3, <2>4 DEF Push, Turns, Sound, TypeOK, store, ledger
<1>5. CASE PushSkipped(q, r)
  <2> DEFINE c == [run[q] EXCEPT !.todo = @ \ {r}, !.clean = FALSE]
  <2>1. run' = [run EXCEPT ![q] = c]
    BY <1>5 DEF PushSkipped
  <2>2. c \in Replay /\ c.todo \subseteq run[q].todo /\ c.snap = run[q].snap
    BY <1>1 DEF Replay
  <2> HIDE DEF c
  <2>3. Turns(q)
    BY <1>3, <2>1, <2>2
  <2> QED
    BY <1>5, <2>3 DEF PushSkipped, Turns, Sound, TypeOK, store, ledger, upstream
<1>6. CASE PushRejected(q, r)
  <2> DEFINE u == run[q].unresolved \/ (r \notin mapped /\ native[r] # None)
             c == [run[q] EXCEPT !.todo = @ \ {r}, !.clean = FALSE, !.wrote = TRUE,
                       !.unresolved = u]
  <2>1. run' = [run EXCEPT ![q] = c]
    BY <1>6 DEF PushRejected
  <2>2. u \in BOOLEAN
    BY <1>1 DEF Replay
  <2>3. c \in Replay /\ c.todo \subseteq run[q].todo /\ c.snap = run[q].snap
    <3> HIDE DEF u
    <3> QED
      BY <1>1, <2>2 DEF Replay
  <2> HIDE DEF c
  <2>4. Turns(q)
    BY <1>3, <2>1, <2>3
  <2> QED
    BY <1>6, <2>4 DEF PushRejected, Turns, Sound, TypeOK, store, ledger, upstream
<1>7. CASE PushUnsure(q, r)
  <2> DEFINE c == [run[q] EXCEPT !.todo = @ \ {r}, !.clean = FALSE, !.wrote = TRUE,
                       !.unresolved = TRUE]
             v == IF Reachable(r) /\ native[r] # None THEN "put" ELSE "post"
  <2>1. run' = [run EXCEPT ![q] = c] /\ Unanswered("native", v, r, run[q].snap[r], q)
    BY <1>7 DEF PushUnsure
  <2>2. c \in Replay /\ c.todo \subseteq run[q].todo /\ c.snap = run[q].snap
    BY <1>1 DEF Replay
  <2>3. v \in {"post", "put", "delete"}
    OBVIOUS
  <2> HIDE DEF c, v
  <2>4. Turns(q)
    BY <1>3, <2>1, <2>2
  <2>5. late' \subseteq Write
    BY <1>1, <2>1, <2>3, UnansweredTyped DEF Sound
  <2> QED
    BY <1>7, <2>4, <2>5 DEF PushUnsure, Turns, Sound, TypeOK, store, ledger
<1> QED
  BY <1>4, <1>5, <1>6, <1>7

LEMMA PushedTyped ==
    ASSUME Sound, NEW q \in Run, Pushed(q)
    PROVE  TypeOK' /\ Turns(q)
<1> DEFINE c == [run[q] EXCEPT !.todo = @ \ {run[q].doing}, !.doing = None]
<1>1. run[q] \in Replay
  BY DEF Sound, TypeOK
<1>2. run' = [run EXCEPT ![q] = c]
  BY DEF Pushed
<1>3. c \in Replay /\ c.todo \subseteq run[q].todo /\ c.snap = run[q].snap
  BY <1>1 DEF Replay
<1>4. run[q].doing \in Resource
  BY <1>1 DEF Replay, Pushed
<1> HIDE DEF c
<1>5. Turns(q)
  BY <1>2, <1>3 DEF Turns, OthersUnrun, Sound, TypeOK, Snapped, Pushed
<1>6. LedgerOK'
  BY DropTyped DEF Pushed, Sound
<1> QED
  BY <1>4, <1>5, <1>6 DEF Pushed, Turns, LedgerOK, Sound, TypeOK, upstream

LEMMA AfterReplayTyped ==
    ASSUME Sound, NEW q \in Run,
           \/ AllPushed(q) \/ Sweep(q) \/ ReleaseClaims(q) \/ Throw(q)
           \/ Unlease(q) \/ RunDies(q)
    PROVE  TypeOK' /\ Turns(q)
<1>1. CASE Unlease(q) \/ RunDies(q)
  BY <1>1, OverDoes, OverTurns
  DEF Unlease, RunDies, Sound, TypeOK, Turns, store, upstream
<1>2. CASE AllPushed(q) \/ Sweep(q) \/ ReleaseClaims(q) \/ Throw(q)
  <2>1. PICK p \in RunPcs : Goes(q, p)
    BY <1>2 DEF AllPushed, Sweep, ReleaseClaims, Throw, RunPcs
  <2>2. req' = req
    BY <1>2 DEF AllPushed, Sweep, ReleaseClaims, Throw
  <2>3. Turns(q)
    BY <2>1, <2>2, GoesTurns
  <2>4. claim' \in [Kinds -> Request \cup Run \cup {None}]
    BY <1>2, ReleasedTyped DEF AllPushed, Sweep, ReleaseClaims, Throw, store, Sound, TypeOK
  <2>5. LedgerOK'
    <3>1. UNCHANGED ledger \/ \E rs : Drop(rs)
      BY <1>2 DEF AllPushed, Sweep, ReleaseClaims, Throw
    <3> QED
      BY <3>1, DropTyped DEF ledger, LedgerOK, Sound, TypeOK
  <2> QED
    BY <1>2, <2>3, <2>4, <2>5
    DEF AllPushed, Sweep, ReleaseClaims, Throw, LedgerOK, Sound, TypeOK, Turns, store, upstream
<1> QED
  BY <1>1, <1>2

LEMMA RunTyped ==
    ASSUME Sound, NEW q \in Run, RunStep(q)
    PROVE  TypeOK' /\ Turns(q)
BY BeforeReplayTyped, ListTyped, PushTyped, PushedTyped, AfterReplayTyped DEF RunStep

-----------------------------------------------------------------------------
(* The upstreams, the start, and the theorem. *)

LEMMA LateWriteTyped ==
    ASSUME Sound, LateWrite
    PROVE  TypeOK' /\ req' = req /\ run' = run
<1>1. PICK w \in late :
          /\ late' = late \ {w}
          /\ native' = IF w.side = "native" THEN Applied(w, native) ELSE native
          /\ workos' = IF w.side = "workos" THEN Applied(w, workos) ELSE workos
          /\ told' = [told EXCEPT ![w.res] = "disturbed"]
  BY DEF LateWrite
<1>2. w.res \in Resource /\ w.content \in Content
  BY DEF Sound, TypeOK, Write
<1>3. ASSUME NEW rows \in [Resource -> Content \cup {None}]
      PROVE  Applied(w, rows) \in [Resource -> Content \cup {None}]
  BY <1>2 DEF Applied
<1>4. /\ native' \in [Resource -> Content \cup {None}]
      /\ workos' \in [Resource -> Content \cup {None}]
  BY <1>1, <1>3 DEF Sound, TypeOK
<1>5. told' \in [Resource -> {"nothing", "success", "disturbed"}] /\ late' \subseteq Write
  BY <1>1 DEF Sound, TypeOK
<1> QED
  BY <1>4, <1>5 DEF LateWrite, Sound, TypeOK, store, ledger

LEMMA InitSound ==
    ASSUME Init
    PROVE  Sound
<1>1. TypeOK
  BY UnaskedTyped, UnrunTyped, LedgerFacts DEF Init, TypeOK
<1>2. Asked
  BY UnaskedTyped DEF Init, Asked, Busy
<1>3. Snapped
  BY UnrunTyped DEF Init, Snapped
<1> QED
  BY <1>1, <1>2, <1>3 DEF Sound

LEMMA NextSound ==
    ASSUME Sound, [Next]_vars
    PROVE  Sound'
<1>1. CASE LateWrite
  BY <1>1, LateWriteTyped DEF Sound, Asked, Snapped, Busy
<1>2. CASE \E x \in Request : LiveStep(x)
  BY <1>2, LiveTyped, MovesSound DEF Sound
<1>3. CASE \E q \in Run : RunStep(q)
  BY <1>3, RunTyped, TurnsSound DEF Sound
<1>4. CASE UNCHANGED vars
  BY <1>4 DEF Sound, TypeOK, Asked, Snapped, Busy, vars, store, ledger, upstream
<1> QED
  BY <1>1, <1>2, <1>3, <1>4 DEF Next

(* Whatever the live writes and the runs do, in any order, with any answer   *)
(* lost and any late write landing, every row, claim and stamp keeps its     *)
(* type: no null content is ever written to native or to WorkOS, and no      *)
(* ledger row outlives its method.                                           *)
THEOREM LedgerTypeCorrect == Spec => []TypeOK
<1>1. Spec => []Sound
  BY InitSound, NextSound, PTL DEF Spec
<1>2. Sound => TypeOK
  BY DEF Sound
<1> QED
  BY <1>1, <1>2, PTL

-----------------------------------------------------------------------------
(***************************************************************************)
(* What the create claims do for Reconcile from WorkOS, for every set of    *)
(* users, groups, writes and runs.  The datastore keeps no lock on a run    *)
(* whose lease was taken over; that replays never overlap, that a lost      *)
(* write of a replay keeps everyone else out, and that a replay restores    *)
(* nothing WorkOS has deleted, rests on who holds the two claims and when.  *)
(***************************************************************************)

(* A create or a delete past its claim holds it. *)
RequestHolds ==
    \A x \in Request :
        Claims(x) /\ req[x].pc \in {"check", "legs"} => claim[Kind(req[x].res)] = x

(* A run that has claimed a kind holds it until it gives both back. *)
RunHolds ==
    \A q \in Run :
        /\ run[q].pc = "Groups" => claim["Users"] = q
        /\ Replaying(q) \/ run[q].pc \in {"maps", "release"} => \A k \in Kinds : claim[k] = q

(* A replayed write that may still land: its run is over, or knows it and    *)
(* will not give the claims back.                                            *)
LateReplayHeld ==
    \A w \in late : w.by \in Run =>
        /\ w.side = "native"
        /\ \A k \in Kinds : claim[k] = w.by
        /\ \/ run[w.by].pc \in {"unlease", "done"}
           \/ Marked(w.by) /\ run[w.by].wrote /\ run[w.by].unresolved

(* A delete that may still land at WorkOS keeps its kind claimed. *)
LateDeleteHeld ==
    \A w \in late : w.by \in Request /\ w.side = "workos" /\ w.verb = "delete" =>
        /\ claim[Kind(w.res)] = w.by
        /\ \/ req[w.by].pc = "done"
           \/ req[w.by].pc = "legs" /\ req[w.by].op = "delete" /\ req[w.by].workos = "unsure"

(* A row recorded since a run stamped the ledger does not carry its stamp.   *)
FreshUnstamped ==
    \A q \in Run :
        /\ run[q].pc \in {"idle", "Users", "Groups", "maps", "mark"} => fresh[q] = {}
        /\ \A r \in fresh[q] : stamp[r] # q

(* What is listed and not yet pushed, WorkOS still holds. *)
ListedStands ==
    \A q \in Run : run[q].pc \in {"pushUsers", "pushGroups"} =>
        \A r \in run[q].todo : workos[r] # None

ReplayInv == /\ Sound /\ RequestHolds /\ RunHolds /\ LateReplayHeld /\ LateDeleteHeld
             /\ FreshUnstamped /\ ListedStands

-----------------------------------------------------------------------------
(* The ledger: a stamp is kept or lost, and a fresh row has just lost it.    *)

Early == {"idle", "Users", "Groups", "maps", "mark"}

LedgerMoves ==
    /\ \A r \in Resource : stamp'[r] \in {stamp[r], None}
    /\ \A p \in Run : \A r \in fresh'[p] : r \in fresh[p] \/ (Marked(p) /\ stamp'[r] = None)

LEMMA RecordMoves ==
    ASSUME TypeOK, NEW r \in Resource, NEW method, Record(r, method)
    PROVE  LedgerMoves
BY DEF TypeOK, Record, LedgerMoves

LEMMA DropMoves ==
    ASSUME TypeOK, NEW rs, Drop(rs)
    PROVE  LedgerMoves
BY DEF TypeOK, Drop, LedgerMoves

LEMMA LedgerStays ==
    ASSUME TypeOK, UNCHANGED ledger
    PROVE  LedgerMoves
BY DEF TypeOK, ledger, LedgerMoves

LEMMA EarlyUnmarked ==
    ASSUME NEW q \in Run, run[q].pc \in Early
    PROVE  ~Marked(q)
BY DEF Early, Marked

LEMMA FreshStays ==
    ASSUME ReplayInv, LedgerMoves, TypeOK',
           \A p \in Run : run'[p].pc \in Early => run[p].pc \in Early
    PROVE  FreshUnstamped'
<1>1. ASSUME NEW p \in Run, run'[p].pc \in Early PROVE fresh'[p] = {}
  <2>1. run[p].pc \in Early
    BY <1>1
  <2>2. fresh[p] = {} /\ ~Marked(p)
    BY <2>1, EarlyUnmarked DEF ReplayInv, FreshUnstamped, Early
  <2> QED
    BY <2>2 DEF LedgerMoves
<1>2. ASSUME NEW p \in Run, NEW r \in fresh'[p] PROVE stamp'[r] # p
  <2>1. r \in Resource
    BY DEF TypeOK
  <2> QED
    BY <2>1, LedgerFacts DEF LedgerMoves, ReplayInv, FreshUnstamped
<1> QED
  BY <1>1, <1>2 DEF FreshUnstamped, Early

-----------------------------------------------------------------------------
(* Live writes. *)

Waits(x) == req[x].pc = "legs" /\ req[x].op = "delete" /\ req[x].workos = "unsure"

(* What a live write does to the rest of the system. *)
LiveEffect(x) ==
    /\ Moves(x) /\ LedgerMoves
    /\ req[x].pc # "done"
    /\ \A k \in Kinds :
          \/ claim'[k] = claim[k]
          \/ claim[k] = None /\ claim'[k] = x
          \/ claim[k] = x /\ ~Waits(x)
    /\ (Claims(x) /\ req[x].pc \in {"check", "legs"} => claim[Kind(req[x].res)] = x)'
    /\ Waits(x) => Waits(x)' \/ req'[x].pc = "done"
    /\ \A w \in late' :
          \/ w \in late
          \/ /\ w.by = x
             /\ w.side = "workos" /\ w.verb = "delete" =>
                   /\ claim'[Kind(w.res)] = x
                   /\ req'[x].pc = "done" \/ Waits(x)'
    /\ \A r \in Resource : workos[r] # None /\ workos'[r] = None => claim[Kind(r)] = x

LEMMA BeforeLegsEffect ==
    ASSUME ReplayInv, NEW x \in Request,
           Receive(x) \/ TakeClaim(x) \/ ClaimBusy(x) \/ Checked(x) \/ Refused(x) \/ Die(x)
    PROVE  LiveEffect(x)
<1>1. Sound /\ TypeOK
  BY DEF ReplayInv, Sound
<1>2. Moves(x)
  BY <1>1, ReceiveTyped, BeforeLegsTyped
<1>3. LedgerMoves
  BY <1>1, LedgerStays DEF Receive, TakeClaim, ClaimBusy, Checked, Refused, Die
<1>4. req[x].pc # "done"
  BY DEF Receive, TakeClaim, ClaimBusy, Checked, Refused, Die, Busy
<1>5. late' = late /\ workos' = workos
  BY DEF Receive, TakeClaim, ClaimBusy, Checked, Refused, Die, upstream
<1>6. CASE Receive(x)
  <2>1. claim' = claim /\ req[x].pc = "idle"
    BY <1>6 DEF Receive, store
  <2>2. /\ req'[x].pc \in {"claim", "check"}
        /\ req'[x].pc = "check" => req'[x].op \notin {"create", "delete"}
    <3>1. PICK op \in Ops, r \in Resource :
              req' = [req EXCEPT ![x] = [Unasked EXCEPT !.op = op, !.res = r,
                        !.pc = IF op \in {"create", "delete"} THEN "claim" ELSE "check"]]
      BY <1>6 DEF Receive
    <3> DEFINE c == [Unasked EXCEPT !.op = op, !.res = r,
                        !.pc = IF op \in {"create", "delete"} THEN "claim" ELSE "check"]
    <3>2. c.op = op /\ c.pc \in {"claim", "check"} /\ (c.pc = "check" => op \notin {"create", "delete"})
      BY DEF Unasked
    <3>3. req'[x] = c
      BY <1>1, <3>1 DEF TypeOK
    <3> HIDE DEF c
    <3> QED
      BY <3>2, <3>3
  <2> QED
    BY <1>2, <1>3, <1>4, <1>5, <2>1, <2>2 DEF LiveEffect, Waits, Claims
<1>7. CASE TakeClaim(x)
  <2>1. To(x, "check") /\ "check" \in LivePcs
    BY <1>7 DEF TakeClaim, LivePcs
  <2>2. /\ req'[x].pc = "check" /\ req'[x].res = req[x].res
        /\ req[x].pc = "claim" /\ claim[Kind(req[x].res)] = None
        /\ claim' = [claim EXCEPT ![Kind(req[x].res)] = x]
    BY <1>1, <1>7, <2>1, ToDoes DEF TakeClaim
  <2>3. Kind(req[x].res) \in Kinds
    BY DEF Kind, Kinds
  <2>4. claim'[Kind(req[x].res)] = x /\ \A k \in Kinds : k # Kind(req[x].res) => claim'[k] = claim[k]
    BY <1>1, <2>2, <2>3 DEF TypeOK
  <2> QED
    BY <1>2, <1>3, <1>4, <1>5, <2>2, <2>4 DEF LiveEffect, Waits, Claims
<1>8. CASE Checked(x)
  <2>1. To(x, "legs") /\ "legs" \in LivePcs
    BY <1>8 DEF Checked, LivePcs
  <2>2. /\ req[x].pc = "check" /\ req'[x].res = req[x].res /\ req'[x].op = req[x].op
        /\ claim' = claim
    BY <1>1, <1>8, <2>1, ToDoes DEF Checked, store
  <2> QED
    BY <1>2, <1>3, <1>4, <1>5, <2>2 DEF LiveEffect, Waits, Claims, ReplayInv, RequestHolds
<1>9. CASE ClaimBusy(x) \/ Refused(x) \/ Die(x)
  <2>1. req'[x].pc = "done"
    BY <1>1, <1>9, FinishedDoes DEF ClaimBusy, Refused, Die
  <2>2. claim' = claim \/ (req[x].pc = "check" /\ claim' = Released(x))
    BY <1>9 DEF ClaimBusy, Refused, Die, store
  <2> QED
    BY <1>2, <1>3, <1>4, <1>5, <2>1, <2>2 DEF LiveEffect, Waits, Released
<1> QED
  BY <1>6, <1>7, <1>8, <1>9

LEMMA NativeEffect ==
    ASSUME ReplayInv, NEW x \in Request,
           NativeApplies(x) \/ NativeAdopts(x) \/ NativeRejects(x) \/ NativeUnsure(x)
    PROVE  LiveEffect(x)
<1>1. Sound /\ TypeOK
  BY DEF ReplayInv, Sound
<1>2. Moves(x)
  BY <1>1, NativeTyped
<1>3. LedgerMoves
  BY <1>1, LedgerStays DEF NativeApplies, NativeAdopts, NativeRejects, NativeUnsure
<1>4. req[x].pc = "legs" /\ claim' = claim /\ workos' = workos
  BY DEF NativeApplies, NativeAdopts, NativeRejects, NativeUnsure, InLegs, store, upstream
<1>5. \E stat \in Stats : NativeAnswers(x, stat)
  BY DEF NativeApplies, NativeAdopts, NativeRejects, NativeUnsure, Stats
<1>6. /\ req'[x].pc = "legs" /\ req'[x].op = req[x].op /\ req'[x].res = req[x].res
      /\ req'[x].workos = req[x].workos
  BY <1>1, <1>4, <1>5, NativeAnswersDoes
<1>7. \A w \in late' : w \in late \/ (w.by = x /\ w.side = "native")
  BY DEF NativeApplies, NativeAdopts, NativeRejects, NativeUnsure, Unanswered, upstream
<1> QED
  BY <1>2, <1>3, <1>4, <1>6, <1>7 DEF LiveEffect, Waits, Claims, ReplayInv, RequestHolds

LEMMA WorkosEffect ==
    ASSUME ReplayInv, NEW x \in Request,
           \/ WorkosApplies(x) \/ WorkosRecovers(x) \/ RecoveryUnsure(x)
           \/ WorkosRejects(x) \/ WorkosUnsure(x)
    PROVE  LiveEffect(x)
<1>1. Sound /\ TypeOK
  BY DEF ReplayInv, Sound
<1>2. Moves(x)
  BY <1>1, WorkosTyped
<1>3. LedgerMoves
  BY <1>1, LedgerStays
  DEF WorkosApplies, WorkosRecovers, RecoveryUnsure, WorkosRejects, WorkosUnsure
<1>4. req[x].pc = "legs" /\ req[x].workos = "none" /\ req[x].op \in Ops
  BY DEF WorkosApplies, WorkosRecovers, RecoveryUnsure, WorkosRejects, WorkosUnsure,
         Recoverable, WorkosOpen, InLegs, Ops
<1>5. PICK stat \in Stats : WorkosAnswers(x, stat) /\ (WorkosUnsure(x) => stat = "unsure")
  BY DEF WorkosApplies, WorkosRecovers, RecoveryUnsure, WorkosRejects, WorkosUnsure, Stats
<1>6. /\ req'[x].pc = "legs" /\ req'[x].op = req[x].op /\ req'[x].res = req[x].res
      /\ req'[x].workos = stat
  BY <1>1, <1>4, <1>5, WorkosAnswersDoes
<1>7. \A r \in Resource : workos[r] # None /\ workos'[r] = None => claim[Kind(r)] = x
  <2>1. ASSUME WorkosApplies(x), NEW r \in Resource, workos[r] # None, workos'[r] = None
        PROVE  req[x].op = "delete" /\ r = req[x].res
    BY <1>1, <1>4, <2>1, LedgerFacts DEF WorkosApplies, TypeOK
  <2>2. ASSUME WorkosRecovers(x), NEW r \in Resource, workos[r] # None PROVE workos'[r] # None
    BY <1>1, <2>2, LedgerFacts DEF WorkosRecovers, TypeOK
  <2>3. ~WorkosApplies(x) /\ ~WorkosRecovers(x) => workos' = workos
    BY DEF RecoveryUnsure, WorkosRejects, WorkosUnsure, upstream
  <2> QED
    BY <1>4, <2>1, <2>2, <2>3 DEF ReplayInv, RequestHolds, Claims
<1>8. CASE RecoveryUnsure(x)
  <2>1. /\ req[x].op = "replace" /\ claim[Kind(req[x].res)] = None
        /\ claim' = [claim EXCEPT ![Kind(req[x].res)] = x]
        /\ \A w \in late' : w \in late \/ (w.by = x /\ w.verb = "post")
    BY <1>8 DEF RecoveryUnsure, Recoverable, WorkosOpen, InLegs, Unanswered
  <2>2. \A k \in Kinds : claim'[k] = claim[k] \/ (claim[k] = None /\ claim'[k] = x)
    BY <1>1, <2>1 DEF TypeOK
  <2> QED
    BY <1>2, <1>3, <1>4, <1>6, <1>7, <2>1, <2>2 DEF LiveEffect, Waits, Claims
<1>9. CASE ~RecoveryUnsure(x)
  <2>1. claim' = claim
    BY <1>9 DEF WorkosApplies, WorkosRecovers, WorkosRejects, WorkosUnsure, store
  <2>2. Claims(x) => claim[Kind(req[x].res)] = x
    BY <1>4 DEF ReplayInv, RequestHolds
  <2>3. \A w \in late' :
            \/ w \in late
            \/ /\ w.by = x /\ w.res = req[x].res /\ w.verb = Verb(x)
               /\ req'[x].workos = "unsure"
    BY <1>5, <1>6, <1>9
    DEF WorkosApplies, WorkosRecovers, WorkosRejects, WorkosUnsure, Unanswered, upstream
  <2>4. Verb(x) = "delete" => req[x].op = "delete"
    BY DEF Verb
  <2> QED
    BY <1>2, <1>3, <1>4, <1>6, <1>7, <2>1, <2>2, <2>3, <2>4 DEF LiveEffect, Waits, Claims
<1> QED
  BY <1>8, <1>9

LEMMA OutcomeEffect ==
    ASSUME ReplayInv, NEW x \in Request,
           \/ FinishUpdate(x) \/ FinishDelete(x) \/ CreateLands(x) \/ CreateFails(x)
           \/ Compensate(x) \/ CompensateFails(x)
    PROVE  LiveEffect(x)
<1>1. Sound /\ TypeOK
  BY DEF ReplayInv, Sound
<1>2. Moves(x)
  BY <1>1, OutcomeTyped
<1>3. req[x].pc = "legs" /\ req[x].res \in Resource /\ req'[x].pc = "done"
  BY <1>1, FinishedDoes
  DEF FinishUpdate, FinishDelete, CreateLands, CreateFails, Compensate, CompensateFails,
      LegsDone, InLegs, Sound, Asked, Busy
<1>4. Claims(x) => claim[Kind(req[x].res)] = x
  BY <1>3 DEF ReplayInv, RequestHolds
<1>5. LedgerMoves
  <2>1. \/ UNCHANGED ledger \/ \E rs : Drop(rs)
        \/ \E method : Record(req[x].res, method)
    BY DEF FinishUpdate, FinishDelete, CreateLands, CreateFails, Compensate, CompensateFails,
           RecordIf, Clear
  <2> QED
    BY <1>1, <1>3, <2>1, RecordMoves, DropMoves, LedgerStays
<1>6. \A k \in Kinds : claim'[k] = claim[k] \/ (claim[k] = x /\ ~Waits(x))
  <2>1. claim' = claim \/ (claim' = Released(x) /\ ~Waits(x))
    BY DEF FinishUpdate, FinishDelete, CreateLands, CreateFails, Compensate, CompensateFails,
           store, CanRelease, Waits, LegsDone, InLegs, WorkosSettled
  <2> QED
    BY <2>1 DEF Released
<1>7. /\ \A r \in Resource : workos[r] # None /\ workos'[r] = None => claim[Kind(r)] = x
      /\ \A w \in late' :
          \/ w \in late
          \/ w.by = x /\ w.side = "workos" /\ w.res = req[x].res /\ claim' = claim /\ Claims(x)
  <2>1. CASE Compensate(x)
    BY <1>1, <1>4, <2>1 DEF Compensate, LegsDone, InLegs, Claims, TypeOK
  <2>2. CASE CompensateFails(x)
    BY <2>2 DEF CompensateFails, Unanswered, LegsDone, InLegs, Claims, store
  <2>3. CASE FinishUpdate(x) \/ FinishDelete(x) \/ CreateLands(x) \/ CreateFails(x)
    BY <2>3 DEF FinishUpdate, FinishDelete, CreateLands, CreateFails, upstream
  <2> QED
    BY <2>1, <2>2, <2>3
<1> QED
  BY <1>2, <1>3, <1>4, <1>5, <1>6, <1>7 DEF LiveEffect, Waits

LEMMA LiveHasEffect ==
    ASSUME ReplayInv, NEW x \in Request, LiveStep(x)
    PROVE  LiveEffect(x)
BY BeforeLegsEffect, NativeEffect, WorkosEffect, OutcomeEffect DEF LiveStep

-----------------------------------------------------------------------------
(* Runs. *)

Holds(q) ==
    /\ run[q].pc = "Groups" => claim["Users"] = q
    /\ Replaying(q) \/ run[q].pc \in {"maps", "release"} => \A k \in Kinds : claim[k] = q

Unsettled(q) == \/ run[q].pc \in {"unlease", "done"}
                \/ Marked(q) /\ run[q].wrote /\ run[q].unresolved

(* What a run does to the rest of the system. *)
RunEffect(q) ==
    /\ Turns(q) /\ workos' = workos
    /\ \A k \in Kinds :
          \/ claim'[k] = claim[k]
          \/ claim[k] = None /\ claim'[k] = q
          \/ claim[k] = q /\ run[q].pc \in {"release", "undo"}
    /\ Holds(q)'
    /\ Unsettled(q) => Unsettled(q)'
    /\ \A w \in late' :
          \/ w \in late
          \/ /\ w.by = q /\ w.side = "native"
             /\ Unsettled(q)' /\ \A k \in Kinds : claim'[k] = q
    /\ FreshUnstamped'
    /\ run'[q].pc \in {"pushUsers", "pushGroups"} => \A r \in run'[q].todo : workos[r] # None

LEMMA OverEffect ==
    ASSUME ReplayInv, NEW q \in Run, StartRefused(q) \/ Unlease(q) \/ RunDies(q)
    PROVE  RunEffect(q)
<1>1. Sound /\ TypeOK
  BY DEF ReplayInv, Sound
<1>2. Turns(q) /\ TypeOK'
  BY <1>1, BeforeReplayTyped, AfterReplayTyped
<1>3. /\ run'[q].pc = "done" /\ claim' = claim /\ late' = late /\ workos' = workos
      /\ stamp' = stamp /\ fresh'[q] = {} /\ \A p \in Run \ {q} : fresh'[p] = fresh[p]
  BY <1>1, OverDoes DEF StartRefused, Unlease, RunDies, store, upstream
<1>4. LedgerMoves
  BY <1>1, <1>3 DEF LedgerMoves, TypeOK
<1>5. FreshUnstamped'
  BY <1>2, <1>3, <1>4, FreshStays DEF Turns, OthersUnrun, Early
<1> QED
  BY <1>2, <1>3, <1>5 DEF RunEffect, Holds, Unsettled, Replaying, Marked

LEMMA BeforeReplayEffect ==
    ASSUME ReplayInv, NEW q \in Run,
           StartRun(q) \/ ClaimKind(q) \/ ClaimKindBusy(q) \/ MapsLoaded(q)
    PROVE  RunEffect(q)
<1>1. Sound /\ TypeOK
  BY DEF ReplayInv, Sound
<1>2. Turns(q) /\ TypeOK'
  BY <1>1, BeforeReplayTyped
<1>3. run[q].pc \in {"idle", "Users", "Groups", "maps"} /\ late' = late /\ workos' = workos
  BY DEF StartRun, ClaimKind, ClaimKindBusy, MapsLoaded, upstream, Kinds
<1>4. LedgerMoves
  BY <1>1, LedgerStays DEF StartRun, ClaimKind, ClaimKindBusy, MapsLoaded
<1>5. FreshUnstamped'
  BY <1>2, <1>3, <1>4, FreshStays DEF Turns, OthersUnrun, Early
<1>6. PICK p \in RunPcs :
          /\ Goes(q, p)
          /\ StartRun(q) => p = "Users"
          /\ ClaimKind(q) => p = IF run[q].pc = "Users" THEN "Groups" ELSE "maps"
          /\ ClaimKindBusy(q) => p = "undo"
          /\ MapsLoaded(q) => p = "mark"
  <2>1. CASE StartRun(q)
    BY <1>1, <2>1 DEF StartRun, ClaimKind, ClaimKindBusy, MapsLoaded, RunPcs, Kinds
  <2>2. CASE ClaimKind(q)
    BY <1>1, <2>2 DEF StartRun, ClaimKind, ClaimKindBusy, MapsLoaded, RunPcs, Kinds
  <2>3. CASE ClaimKindBusy(q)
    BY <1>1, <2>3 DEF StartRun, ClaimKind, ClaimKindBusy, MapsLoaded, RunPcs, Kinds
  <2>4. CASE MapsLoaded(q)
    BY <1>1, <2>4 DEF StartRun, ClaimKind, ClaimKindBusy, MapsLoaded, RunPcs, Kinds
  <2> QED
    BY <2>1, <2>2, <2>3, <2>4
<1>7. run'[q].pc = p
  BY <1>1, <1>6, GoesDoes
<1>8. CASE ClaimKind(q)
  <2>1. /\ run[q].pc \in Kinds /\ claim[run[q].pc] = None
        /\ claim' = [claim EXCEPT ![run[q].pc] = q]
        /\ run[q].pc = "Groups" => claim["Users"] = q
    BY <1>8 DEF ClaimKind, ReplayInv, RunHolds
  <2>2. claim'[run[q].pc] = q /\ \A k \in Kinds \ {run[q].pc} : claim'[k] = claim[k]
    BY <1>1, <2>1 DEF TypeOK
  <2>3. Holds(q)'
    BY <1>6, <1>7, <1>8, <2>1, <2>2 DEF Holds, Replaying, Marked, Kinds
  <2> QED
    BY <1>2, <1>3, <1>5, <1>6, <1>7, <1>8, <2>1, <2>2, <2>3
    DEF RunEffect, Unsettled, Marked, Kinds
<1>9. CASE ~ClaimKind(q)
  <2>1. claim' = claim
    BY <1>9 DEF StartRun, ClaimKindBusy, MapsLoaded, store
  <2>2. MapsLoaded(q) => \A k \in Kinds : claim[k] = q
    BY DEF MapsLoaded, ReplayInv, RunHolds
  <2>3. p \in {"Users", "undo"} \/ (p = "mark" /\ MapsLoaded(q))
    BY <1>6, <1>9
  <2>4. Holds(q)'
    BY <1>7, <2>1, <2>2, <2>3 DEF Holds, Replaying, Marked
  <2> QED
    BY <1>2, <1>3, <1>5, <1>7, <2>1, <2>3, <2>4 DEF RunEffect, Unsettled, Marked
<1> QED
  BY <1>8, <1>9

LEMMA MarkEffect ==
    ASSUME ReplayInv, NEW q \in Run, Mark(q)
    PROVE  RunEffect(q)
<1>1. Sound /\ TypeOK
  BY DEF ReplayInv, Sound
<1>2. Turns(q)
  BY <1>1, BeforeReplayTyped
<1>3. run'[q].pc = "listUsers"
  BY <1>1, GoesDoes DEF Mark, RunPcs
<1>4. /\ run[q].pc = "mark" /\ claim' = claim /\ late' = late /\ workos' = workos /\ fresh' = fresh
      /\ stamp' = [r \in Resource |-> IF gap[r] # "none" /\ stamp[r] = None THEN q ELSE stamp[r]]
  BY DEF Mark, store, upstream
<1>5. fresh[q] = {} /\ \A k \in Kinds : claim[k] = q
  BY <1>4 DEF ReplayInv, FreshUnstamped, RunHolds, Replaying
<1>6. ASSUME NEW p \in Run
      PROVE  /\ run'[p].pc \in Early => fresh'[p] = {}
             /\ \A r \in fresh'[p] : stamp'[r] # p
  <2>1. CASE p = q
    BY <1>3, <1>4, <1>5, <2>1
  <2>2. CASE p # q
    BY <1>1, <1>2, <1>4, <2>2
    DEF Turns, OthersUnrun, ReplayInv, FreshUnstamped, Early, TypeOK
  <2> QED
    BY <2>1, <2>2
<1>7. FreshUnstamped'
  BY <1>6 DEF FreshUnstamped, Early
<1> QED
  BY <1>2, <1>3, <1>4, <1>5, <1>7 DEF RunEffect, Holds, Unsettled, Replaying, Marked

(* A replaying run holds both claims, and keeps them while it replays.       *)
LEMMA ReplayHolds ==
    ASSUME ReplayInv, NEW q \in Run, Marked(q), claim' = claim,
           Marked(q)' \/ run'[q].pc \in {"unlease", "undo"}
    PROVE  Holds(q)' /\ \A k \in Kinds : claim'[k] = q
BY DEF ReplayInv, RunHolds, Replaying, Holds, Marked

(* What a listing leaves of its run.                                         *)
LEMMA ListDoes ==
    ASSUME Sound, NEW q \in Run, List(q)
    PROVE  /\ run'[q].pc \in {"pushUsers", "pushGroups"}
           /\ \A r \in run'[q].todo : workos[r] # None
           /\ run'[q].wrote = run[q].wrote /\ run'[q].unresolved = run[q].unresolved
           /\ run'[q].doing = run[q].doing
<1>1. PICK rs \in SUBSET {r \in OfKind(Listed(q)) : workos[r] # None} :
          run' = [run EXCEPT ![q] = [run[q] EXCEPT
                     !.pc = IF @ = "listUsers" THEN "pushUsers" ELSE "pushGroups",
                     !.snap = [r \in Resource |-> IF r \in rs THEN workos[r] ELSE @[r]],
                     !.todo = rs,
                     !.clean = @ /\ Complete(Listed(q), rs)]]
  BY DEF List
<1> DEFINE next == IF run[q].pc = "listUsers" THEN "pushUsers" ELSE "pushGroups"
           snap == [r \in Resource |-> IF r \in rs THEN workos[r] ELSE run[q].snap[r]]
           clean == run[q].clean /\ Complete(Listed(q), rs)
           c == [run[q] EXCEPT !.pc = next, !.snap = snap, !.todo = rs, !.clean = clean]
<1>2. run'[q] = c
  BY <1>1 DEF Sound, TypeOK
<1>3. next \in {"pushUsers", "pushGroups"}
  OBVIOUS
<1>4. /\ c.pc = next /\ c.todo = rs /\ c.wrote = run[q].wrote
      /\ c.unresolved = run[q].unresolved /\ c.doing = run[q].doing
  <2>1. run[q] \in Replay
    BY DEF Sound, TypeOK
  <2> HIDE DEF next, snap, clean
  <2> QED
    BY <2>1 DEF Replay
<1> HIDE DEF c, next
<1> QED
  BY <1>2, <1>3, <1>4

LEMMA ListEffect ==
    ASSUME ReplayInv, NEW q \in Run, List(q)
    PROVE  RunEffect(q)
<1>1. Sound /\ TypeOK
  BY DEF ReplayInv, Sound
<1>2. Turns(q) /\ TypeOK'
  BY <1>1, ListTyped
<1>3. /\ run[q].pc \in {"listUsers", "listGroups"} /\ claim' = claim /\ late' = late
      /\ workos' = workos
  BY DEF List, store, upstream
<1>4. Marked(q) /\ Marked(q)'
  BY <1>1, <1>3, ListDoes DEF Marked
<1>5. LedgerMoves
  BY <1>1, LedgerStays DEF List
<1>6. FreshUnstamped'
  BY <1>1, <1>2, <1>5, ListDoes, FreshStays DEF Turns, OthersUnrun, Early
<1>7. Holds(q)'
  BY <1>3, <1>4, ReplayHolds
<1>8. Unsettled(q) => Unsettled(q)'
  BY <1>1, <1>3, <1>4, ListDoes DEF Unsettled
<1> QED
  BY <1>1, <1>2, <1>3, <1>6, <1>7, <1>8, ListDoes DEF RunEffect

(* What a push leaves of its run.                                            *)
LEMMA PushDoes ==
    ASSUME Sound, NEW q \in Run,
           \/ Pushed(q)
           \/ \E r \in Resource : Push(q, r) \/ PushSkipped(q, r)
                                \/ PushRejected(q, r) \/ PushUnsure(q, r)
    PROVE  /\ run'[q].pc = run[q].pc /\ run'[q].todo \subseteq run[q].todo
           /\ run[q].wrote => run'[q].wrote
           /\ run[q].unresolved => run'[q].unresolved
           /\ \A r \in Resource : PushUnsure(q, r) => run'[q].wrote /\ run'[q].unresolved
<1>1. run[q] \in Replay /\ run \in [Run -> Replay]
  BY DEF Sound, TypeOK
<1>2. CASE Pushed(q)
  <2> DEFINE c == [run[q] EXCEPT !.todo = @ \ {run[q].doing}, !.doing = None]
  <2>1. run'[q] = c
    BY <1>1, <1>2 DEF Pushed
  <2>2. c.pc = run[q].pc /\ c.todo \subseteq run[q].todo /\ c.wrote = run[q].wrote
        /\ c.unresolved = run[q].unresolved
    BY <1>1 DEF Replay
  <2>3. \A r \in Resource : ~PushUnsure(q, r)
    BY <1>2 DEF Pushed, PushUnsure, Pushing
  <2> HIDE DEF c
  <2> QED
    BY <2>1, <2>2, <2>3
<1>3. ASSUME NEW r \in Resource, Push(q, r) PROVE
        /\ run'[q].pc = run[q].pc /\ run'[q].todo \subseteq run[q].todo
        /\ run'[q].wrote /\ run'[q].unresolved = run[q].unresolved
  <2> DEFINE c == [run[q] EXCEPT !.doing = r, !.wrote = TRUE]
  <2>1. run'[q] = c
    BY <1>1, <1>3 DEF Push
  <2>2. c.pc = run[q].pc /\ c.todo = run[q].todo /\ c.wrote /\ c.unresolved = run[q].unresolved
    BY <1>1 DEF Replay
  <2> HIDE DEF c
  <2> QED
    BY <2>1, <2>2
<1>4. ASSUME NEW r \in Resource, PushSkipped(q, r) PROVE
        /\ run'[q].pc = run[q].pc /\ run'[q].todo \subseteq run[q].todo
        /\ run'[q].wrote = run[q].wrote /\ run'[q].unresolved = run[q].unresolved
  <2> DEFINE c == [run[q] EXCEPT !.todo = @ \ {r}, !.clean = FALSE]
  <2>1. run'[q] = c
    BY <1>1, <1>4 DEF PushSkipped
  <2>2. c.pc = run[q].pc /\ c.todo \subseteq run[q].todo /\ c.wrote = run[q].wrote
        /\ c.unresolved = run[q].unresolved
    BY <1>1 DEF Replay
  <2> HIDE DEF c
  <2> QED
    BY <2>1, <2>2
<1>5. ASSUME NEW r \in Resource, PushRejected(q, r) PROVE
        /\ run'[q].pc = run[q].pc /\ run'[q].todo \subseteq run[q].todo
        /\ run'[q].wrote /\ (run[q].unresolved => run'[q].unresolved)
  <2> DEFINE u == run[q].unresolved \/ (r \notin mapped /\ native[r] # None)
             c == [run[q] EXCEPT !.todo = @ \ {r}, !.clean = FALSE, !.wrote = TRUE,
                       !.unresolved = u]
  <2>1. run'[q] = c
    BY <1>1, <1>5 DEF PushRejected
  <2>2. c.pc = run[q].pc /\ c.todo \subseteq run[q].todo /\ c.wrote /\ c.unresolved = u
    <3> HIDE DEF u
    <3> QED
      BY <1>1 DEF Replay
  <2>3. run[q].unresolved => u
    OBVIOUS
  <2> HIDE DEF c, u
  <2> QED
    BY <2>1, <2>2, <2>3
<1>6. ASSUME NEW r \in Resource, PushUnsure(q, r) PROVE
        /\ run'[q].pc = run[q].pc /\ run'[q].todo \subseteq run[q].todo
        /\ run'[q].wrote /\ run'[q].unresolved
  <2> DEFINE c == [run[q] EXCEPT !.todo = @ \ {r}, !.clean = FALSE, !.wrote = TRUE,
                       !.unresolved = TRUE]
  <2>1. run'[q] = c
    BY <1>1, <1>6 DEF PushUnsure
  <2>2. c.pc = run[q].pc /\ c.todo \subseteq run[q].todo /\ c.wrote /\ c.unresolved
    BY <1>1 DEF Replay
  <2> HIDE DEF c
  <2> QED
    BY <2>1, <2>2
<1> QED
  BY <1>2, <1>3, <1>4, <1>5, <1>6

LEMMA PushEffect ==
    ASSUME ReplayInv, NEW q \in Run,
           \/ Pushed(q)
           \/ \E r \in Resource : Push(q, r) \/ PushSkipped(q, r)
                                \/ PushRejected(q, r) \/ PushUnsure(q, r)
    PROVE  RunEffect(q)
<1>1. Sound /\ TypeOK
  BY DEF ReplayInv, Sound
<1>2. Turns(q) /\ TypeOK'
  BY <1>1, PushTyped, PushedTyped
<1>3. claim' = claim /\ workos' = workos
  BY DEF Pushed, Push, PushSkipped, PushRejected, PushUnsure, store, upstream
<1>4. LedgerMoves
  BY <1>1, LedgerStays, DropMoves DEF Pushed, Push, PushSkipped, PushRejected, PushUnsure
<1>5. /\ run'[q].pc = run[q].pc /\ run'[q].todo \subseteq run[q].todo
      /\ run[q].wrote => run'[q].wrote
      /\ run[q].unresolved => run'[q].unresolved
      /\ \A r \in Resource : PushUnsure(q, r) => run'[q].wrote /\ run'[q].unresolved
  BY <1>1, PushDoes
<1>6. FreshUnstamped'
  BY <1>2, <1>4, <1>5, FreshStays DEF Turns, OthersUnrun
<1>7. Holds(q)'
  BY <1>3, <1>5 DEF ReplayInv, RunHolds, Holds, Replaying, Marked
<1>8. \A w \in late' : w \in late \/ (w.by = q /\ w.side = "native" /\ \E r \in Resource : PushUnsure(q, r))
  <2>1. ASSUME NEW r \in Resource, PushUnsure(q, r)
        PROVE  \A w \in late' : w \in late \/ (w.by = q /\ w.side = "native")
    <3>1. PICK v, content : Unanswered("native", v, r, content, q)
      BY <2>1 DEF PushUnsure
    <3> QED
      BY <3>1 DEF Unanswered
  <2>2. (\E r \in Resource : PushUnsure(q, r)) \/ late' = late
    BY DEF Pushed, Push, PushSkipped, PushRejected, upstream
  <2> QED
    BY <2>1, <2>2
<1>9. ASSUME NEW r \in Resource, PushUnsure(q, r)
      PROVE  Unsettled(q)' /\ \A k \in Kinds : claim'[k] = q
  <2>1. Marked(q) /\ Marked(q)'
    BY <1>5, <1>9 DEF PushUnsure, Pushing, Marked
  <2> QED
    BY <1>3, <1>5, <1>9, <2>1, ReplayHolds DEF Unsettled
<1>10. Unsettled(q) => Unsettled(q)'
  BY <1>5 DEF Unsettled, Marked
<1> QED
  BY <1>2, <1>3, <1>5, <1>6, <1>7, <1>8, <1>9, <1>10 DEF RunEffect, ReplayInv, ListedStands

LEMMA AfterReplayEffect ==
    ASSUME ReplayInv, NEW q \in Run, AllPushed(q) \/ Sweep(q) \/ ReleaseClaims(q) \/ Throw(q)
    PROVE  RunEffect(q)
<1>1. Sound /\ TypeOK
  BY DEF ReplayInv, Sound
<1>2. Turns(q) /\ TypeOK'
  BY <1>1, AfterReplayTyped
<1>3. late' = late /\ workos' = workos
  BY DEF AllPushed, Sweep, ReleaseClaims, Throw, upstream
<1>4. LedgerMoves
  BY <1>1, LedgerStays, DropMoves DEF AllPushed, Sweep, ReleaseClaims, Throw
<1>5. PICK p \in RunPcs :
        /\ Goes(q, p)
        /\ \/ AllPushed(q) /\ p \in {"listGroups", "sweep"}
           \/ Sweep(q) /\ p = IF run[q].unresolved THEN "unlease" ELSE "release"
           \/ ReleaseClaims(q) /\ p = "unlease"
           \/ Throw(q) /\ p = IF run[q].wrote THEN "unlease" ELSE "undo"
  <2>1. CASE AllPushed(q)
    BY <2>1 DEF AllPushed, RunPcs
  <2>2. CASE Sweep(q)
    BY <2>2 DEF Sweep, RunPcs
  <2>3. CASE ReleaseClaims(q)
    BY <2>3 DEF ReleaseClaims, RunPcs
  <2>4. CASE Throw(q)
    BY <2>4 DEF Throw, RunPcs
  <2> QED
    BY <2>1, <2>2, <2>3, <2>4
<1>6. /\ run'[q].pc = p /\ run'[q].todo = run[q].todo
      /\ run'[q].unresolved = run[q].unresolved /\ run'[q].wrote = run[q].wrote
  BY <1>1, <1>5, GoesDoes
<1>7. p \in {"listGroups", "sweep", "release", "undo", "unlease"}
  BY <1>5
<1>8. FreshUnstamped'
  BY <1>2, <1>4, <1>6, <1>7, FreshStays DEF Turns, OthersUnrun, Early
<1>9. \/ claim' = claim
      \/ claim' = Released(q) /\ run[q].pc \in {"release", "undo"} /\ p = "unlease"
  BY <1>5 DEF AllPushed, Sweep, ReleaseClaims, Throw, store
<1>10. p \in {"listGroups", "sweep", "release"} => claim' = claim /\ Marked(q)
  BY <1>5 DEF AllPushed, Sweep, Marked, store
<1>11. Holds(q)'
  <2>1. CASE p \in {"listGroups", "sweep", "release"}
    BY <1>6, <1>10, <2>1 DEF ReplayInv, RunHolds, Holds, Replaying, Marked
  <2>2. CASE p \in {"undo", "unlease"}
    BY <1>6, <2>2 DEF Holds, Replaying, Marked
  <2> QED
    BY <1>7, <2>1, <2>2
<1>12. Unsettled(q) => Unsettled(q)'
  <2>1. CASE AllPushed(q)
    BY <1>5, <1>6, <2>1 DEF AllPushed, Sweep, ReleaseClaims, Throw, MayThrow, Unsettled, Marked, Kinds
  <2>2. CASE Sweep(q)
    BY <1>5, <1>6, <2>2 DEF AllPushed, Sweep, ReleaseClaims, Throw, MayThrow, Unsettled, Marked, Kinds
  <2>3. CASE ReleaseClaims(q)
    BY <1>5, <1>6, <2>3 DEF AllPushed, Sweep, ReleaseClaims, Throw, MayThrow, Unsettled, Marked, Kinds
  <2>4. CASE Throw(q)
    BY <1>5, <1>6, <2>4 DEF AllPushed, Sweep, ReleaseClaims, Throw, MayThrow, Unsettled, Marked, Kinds
  <2> QED
    BY <1>5, <2>1, <2>2, <2>3, <2>4
<1> QED
  BY <1>2, <1>3, <1>6, <1>7, <1>8, <1>9, <1>11, <1>12 DEF RunEffect, Released

LEMMA RunHasEffect ==
    ASSUME ReplayInv, NEW q \in Run, RunStep(q)
    PROVE  RunEffect(q)
BY OverEffect, BeforeReplayEffect, MarkEffect, ListEffect, PushEffect, AfterReplayEffect
DEF RunStep

-----------------------------------------------------------------------------
(* The invariant is inductive. *)

LEMMA LiveKeeps ==
    ASSUME ReplayInv, NEW x \in Request, LiveEffect(x), Sound'
    PROVE  ReplayInv'
<1>1. ASSUME NEW k \in Kinds, claim[k] # x, claim[k] # None PROVE claim'[k] = claim[k]
  BY <1>1 DEF LiveEffect
<1>2. x \notin Run /\ x # None /\ \A r \in Resource : Kind(r) \in Kinds
  BY LedgerFacts
<1>3. run' = run /\ \A y \in Request \ {x} : req'[y] = req[y]
  BY DEF LiveEffect, Moves, OthersUnasked
<1>4. RequestHolds'
  <2>1. ASSUME NEW y \in Request, Claims(y)', req'[y].pc \in {"check", "legs"}, y # x
        PROVE  claim'[Kind(req'[y].res)] = y
    <3>1. claim[Kind(req[y].res)] = y
      BY <1>3, <2>1 DEF ReplayInv, RequestHolds, Claims
    <3> QED
      BY <1>1, <1>3, <2>1, <3>1, LedgerFacts DEF Kind, Kinds
  <2> QED
    BY <2>1 DEF LiveEffect, RequestHolds, Claims
<1>5. ASSUME NEW q \in Run, NEW k \in Kinds, claim[k] = q PROVE claim'[k] = q
  BY <1>1, <1>2, <1>5, LedgerFacts
<1>6. RunHolds'
  BY <1>3, <1>5 DEF ReplayInv, RunHolds, Replaying, Marked, Kinds
<1>7. LateReplayHeld'
  BY <1>2, <1>3, <1>5 DEF ReplayInv, LateReplayHeld, LiveEffect, Marked
<1>8. LateDeleteHeld'
  <2>1. SUFFICES ASSUME NEW w \in late', w.by \in Request, w.side = "workos", w.verb = "delete"
                 PROVE  /\ claim'[Kind(w.res)] = w.by
                        /\ req'[w.by].pc = "done" \/ Waits(w.by)'
    BY DEF LateDeleteHeld, Waits
  <2>2. CASE w \notin late
    BY <2>1, <2>2 DEF LiveEffect
  <2>3. CASE w \in late
    <3>1. claim[Kind(w.res)] = w.by /\ (req[w.by].pc = "done" \/ Waits(w.by))
      BY <2>1, <2>3 DEF ReplayInv, LateDeleteHeld, Waits
    <3>2. Kind(w.res) \in Kinds
      BY DEF Kind, Kinds
    <3>3. CASE w.by = x
      BY <1>2, <3>1, <3>2, <3>3 DEF LiveEffect
    <3>4. CASE w.by # x
      BY <1>1, <1>3, <2>1, <3>1, <3>2, <3>4, LedgerFacts DEF Waits
    <3> QED
      BY <3>3, <3>4
  <2> QED
    BY <2>2, <2>3
<1>9. FreshUnstamped'
  BY <1>3, FreshStays DEF LiveEffect, Sound
<1>10. ListedStands'
  <2>1. ASSUME NEW q \in Run, run[q].pc \in {"pushUsers", "pushGroups"}, NEW r \in run[q].todo
        PROVE  workos'[r] # None
    <3>1. r \in Resource /\ workos[r] # None
      BY <2>1 DEF ReplayInv, ListedStands, Sound, TypeOK, Replay
    <3>2. claim[Kind(r)] = q
      BY <1>2, <2>1, <3>1 DEF ReplayInv, RunHolds, Replaying, Marked
    <3> QED
      BY <1>2, <3>1, <3>2 DEF LiveEffect
  <2> QED
    BY <1>3, <2>1 DEF ListedStands
<1> QED
  BY <1>4, <1>6, <1>7, <1>8, <1>9, <1>10 DEF ReplayInv

LEMMA RunKeeps ==
    ASSUME ReplayInv, NEW q \in Run, RunEffect(q), Sound'
    PROVE  ReplayInv'
<1>1. ASSUME NEW k \in Kinds, claim[k] # q, claim[k] # None PROVE claim'[k] = claim[k]
  BY <1>1 DEF RunEffect
<1>2. q \notin Request /\ q # None /\ \A r : Kind(r) \in Kinds
  BY LedgerFacts DEF Kind, Kinds
<1>3. req' = req /\ workos' = workos /\ \A p \in Run \ {q} : run'[p] = run[p]
  BY DEF RunEffect, Turns, OthersUnrun
<1>4. ASSUME NEW y \in Request \cup Run, y # q, NEW k \in Kinds, claim[k] = y PROVE claim'[k] = y
  BY <1>1, <1>4, LedgerFacts
<1>5. RequestHolds'
  BY <1>2, <1>3, <1>4 DEF ReplayInv, RequestHolds, Claims
<1>6. RunHolds'
  <2>1. ASSUME NEW p \in Run, p # q PROVE Holds(p)'
    BY <1>3, <1>4, <2>1 DEF ReplayInv, RunHolds, Holds, Replaying, Marked, Kinds
  <2> QED
    BY <2>1 DEF RunEffect, RunHolds, Holds, Replaying, Marked
<1>7. LateReplayHeld'
  <2>1. SUFFICES ASSUME NEW w \in late', w.by \in Run
                 PROVE  w.side = "native" /\ (\A k \in Kinds : claim'[k] = w.by) /\ Unsettled(w.by)'
    BY DEF LateReplayHeld, Unsettled, Marked
  <2>2. CASE w \notin late
    BY <2>1, <2>2 DEF RunEffect
  <2>3. CASE w \in late
    <3>1. w.side = "native" /\ (\A k \in Kinds : claim[k] = w.by) /\ Unsettled(w.by)
      BY <2>1, <2>3 DEF ReplayInv, LateReplayHeld, Unsettled
    <3>2. CASE w.by = q
      <4>1. run[q].pc \notin {"release", "undo"}
        BY <3>1, <3>2 DEF Unsettled, Marked
      <4> QED
        BY <1>2, <3>1, <3>2, <4>1 DEF RunEffect
    <3>3. CASE w.by # q
      BY <1>3, <1>4, <2>1, <3>1, <3>3 DEF Unsettled, Marked
    <3> QED
      BY <3>2, <3>3
  <2> QED
    BY <2>2, <2>3
<1>8. LateDeleteHeld'
  BY <1>2, <1>3, <1>4 DEF ReplayInv, LateDeleteHeld, RunEffect
<1>9. ListedStands'
  BY <1>3 DEF ReplayInv, ListedStands, RunEffect
<1> QED
  BY <1>5, <1>6, <1>7, <1>8, <1>9 DEF ReplayInv, RunEffect

LEMMA LateWriteKeeps ==
    ASSUME ReplayInv, LateWrite, Sound'
    PROVE  ReplayInv'
<1>1. PICK w \in late :
          /\ late' = late \ {w}
          /\ workos' = IF w.side = "workos" THEN Applied(w, workos) ELSE workos
  BY DEF LateWrite
<1>2. claim' = claim /\ stamp' = stamp /\ fresh' = fresh /\ req' = req /\ run' = run
  BY DEF LateWrite, store, ledger
<1>3. RequestHolds' /\ RunHolds' /\ FreshUnstamped'
  BY <1>2 DEF ReplayInv, RequestHolds, RunHolds, FreshUnstamped, Claims, Replaying, Marked
<1>4. LateReplayHeld' /\ LateDeleteHeld'
  BY <1>1, <1>2 DEF ReplayInv, LateReplayHeld, LateDeleteHeld, Marked
<1>5. ListedStands'
  <2>1. SUFFICES ASSUME NEW q \in Run, run[q].pc \in {"pushUsers", "pushGroups"},
                        NEW r \in run[q].todo
                 PROVE  workos'[r] # None
    BY <1>2 DEF ListedStands
  <2>2. r \in Resource /\ workos[r] # None
    BY <2>1 DEF ReplayInv, ListedStands, Sound, TypeOK, Replay
  <2>3. claim[Kind(r)] = q
    BY <2>1, <2>2, LedgerFacts DEF ReplayInv, RunHolds, Replaying, Marked
  <2>4. w \in Write /\ w.content # None
    BY LedgerFacts DEF ReplayInv, Sound, TypeOK, Write
  <2>5. ~(w.side = "workos" /\ w.verb = "delete" /\ w.res = r)
    <3>1. w.by \in Request \cup Run /\ q \notin Request
      BY <2>4, LedgerFacts DEF Write
    <3> QED
      BY <2>3, <3>1 DEF ReplayInv, LateReplayHeld, LateDeleteHeld
  <2> QED
    BY <1>1, <2>2, <2>4, <2>5 DEF Applied, ReplayInv, Sound, TypeOK
<1> QED
  BY <1>3, <1>4, <1>5 DEF ReplayInv

LEMMA InitReplayInv ==
    ASSUME Init
    PROVE  ReplayInv
<1>1. Sound
  BY InitSound
<1>2. RequestHolds
  BY UnaskedTyped DEF Init, RequestHolds
<1>3. RunHolds /\ ListedStands /\ FreshUnstamped
  BY UnrunTyped DEF Init, RunHolds, ListedStands, FreshUnstamped, Replaying, Marked
<1>4. LateReplayHeld /\ LateDeleteHeld
  BY DEF Init, LateReplayHeld, LateDeleteHeld
<1> QED
  BY <1>1, <1>2, <1>3, <1>4 DEF ReplayInv

LEMMA NextReplayInv ==
    ASSUME ReplayInv, [Next]_vars
    PROVE  ReplayInv'
<1>1. Sound'
  BY NextSound DEF ReplayInv
<1>2. CASE LateWrite
  BY <1>1, <1>2, LateWriteKeeps
<1>3. CASE \E x \in Request : LiveStep(x)
  BY <1>1, <1>3, LiveHasEffect, LiveKeeps
<1>4. CASE \E q \in Run : RunStep(q)
  BY <1>1, <1>4, RunHasEffect, RunKeeps
<1>5. CASE UNCHANGED vars
  BY <1>1, <1>5
  DEF ReplayInv, RequestHolds, RunHolds, LateReplayHeld, LateDeleteHeld, FreshUnstamped,
      ListedStands, Claims, Replaying, Marked, vars, store, ledger, upstream
<1> QED
  BY <1>2, <1>3, <1>4, <1>5 DEF Next

LEMMA ReplayInvariant == Spec => []ReplayInv
BY InitReplayInv, NextReplayInv, PTL DEF Spec

-----------------------------------------------------------------------------
(* What follows from it. *)

(* At most one run replays at a time, though any lease may be taken over: the *)
(* two create claims, never the lease, keep a second replay out.             *)
THEOREM OneReplayAlways == Spec => []OneReplay
<1>1. ReplayInv => OneReplay
  <2>1. ASSUME ReplayInv, NEW p \in Run, NEW q \in Run, Replaying(p), Replaying(q)
        PROVE  p = q
    BY <2>1 DEF ReplayInv, RunHolds, Kinds
  <2> QED
    BY <2>1 DEF OneReplay
<1> QED
  BY <1>1, ReplayInvariant, PTL

(* While a write of a replay may still land on native, both kinds stay       *)
(* claimed by that run, even after it ended, threw or was killed.            *)
THEOREM LostReplayKeepsClaims == Spec => []UnresolvedReplayKeepsClaims
<1>1. ReplayInv => UnresolvedReplayKeepsClaims
  BY DEF ReplayInv, LateReplayHeld, UnresolvedReplayKeepsClaims
<1> QED
  BY <1>1, ReplayInvariant, PTL

(* A step of a run touches the ledger only by retiring rows it stamped.      *)
LEMMA RunRetires ==
    ASSUME Sound, NEW q \in Run, RunStep(q), NEW r \in Resource, stamp[r] # q
    PROVE  gap'[r] = gap[r]
<1>1. gap' = gap \/ \E rs \in SUBSET Retirable(q) : Drop(rs)
  BY DEF RunStep, StartRun, StartRefused, ClaimKind, ClaimKindBusy, MapsLoaded, Mark, List, Push,
         PushSkipped, PushRejected, PushUnsure, Pushed, AllPushed, Sweep, ReleaseClaims, Throw,
         Unlease, RunDies, ledger
<1>2. r \notin Retirable(q)
  BY DEF Retirable
<1> QED
  BY <1>1, <1>2 DEF Drop

(* A run never retires a row recorded after it stamped the ledger.           *)
THEOREM FreshRowsStandAlways == Spec => FreshRowsStand
<1>1. ASSUME ReplayInv, [Next]_vars
      PROVE  [\A q \in Run, r \in Resource :
                 run'[q] # run[q] /\ r \in fresh[q] => gap'[r] = gap[r]]_vars
  <2>1. SUFFICES ASSUME NEW q \in Run, NEW r \in Resource, run'[q] # run[q], r \in fresh[q]
                 PROVE  gap'[r] = gap[r]
    OBVIOUS
  <2>2. stamp[r] # q
    BY <1>1, <2>1 DEF ReplayInv, FreshUnstamped
  <2>3. RunStep(q)
    <3>1. CASE LateWrite
      BY <2>1, <3>1 DEF LateWrite
    <3>2. CASE \E x \in Request : LiveStep(x)
      BY <1>1, <2>1, <3>2, LiveTyped DEF ReplayInv, Moves
    <3>3. ASSUME NEW p \in Run, RunStep(p), p # q PROVE FALSE
      BY <1>1, <2>1, <3>3, RunTyped DEF ReplayInv, Turns, OthersUnrun
    <3>4. CASE UNCHANGED vars
      BY <2>1, <3>4 DEF vars
    <3> QED
      BY <1>1, <3>1, <3>2, <3>3, <3>4 DEF Next
  <2> QED
    BY <1>1, <2>2, <2>3, RunRetires DEF ReplayInv
<1> QED
  BY <1>1, ReplayInvariant, PTL DEF Spec, FreshRowsStand

(* Only a push puts a resource in hand.                                      *)
LEMMA OnlyPushDoes ==
    ASSUME Sound, NEW q \in Run, RunStep(q), NEW r \in Resource,
           run'[q].doing = r, run[q].doing # r
    PROVE  Push(q, r)
<1>1. run[q] \in Replay /\ run \in [Run -> Replay] /\ TypeOK
  BY DEF Sound, TypeOK
<1>2. ASSUME \E p \in RunPcs : Goes(q, p) PROVE FALSE
  BY <1>1, <1>2, GoesDoes
<1>3. ASSUME Over(q) PROVE FALSE
  BY <1>1, <1>3, LedgerFacts DEF Over, Unrun
<1>4. ASSUME List(q) PROVE FALSE
  BY <1>4, ListDoes
<1>5. ASSUME Pushed(q) PROVE FALSE
  <2> DEFINE c == [run[q] EXCEPT !.todo = @ \ {run[q].doing}, !.doing = None]
  <2>1. run'[q] = c
    BY <1>1, <1>5 DEF Pushed
  <2>2. c.doing = None
    BY <1>1 DEF Replay
  <2> HIDE DEF c
  <2> QED
    BY <2>1, <2>2, LedgerFacts
<1>6. ASSUME NEW s \in Resource, PushSkipped(q, s) \/ PushRejected(q, s) \/ PushUnsure(q, s)
      PROVE  FALSE
  <2>1. run'[q].doing = run[q].doing
    <3>1. CASE PushSkipped(q, s)
      <4> DEFINE c == [run[q] EXCEPT !.todo = @ \ {s}, !.clean = FALSE]
      <4>1. run'[q] = c
        BY <1>1, <3>1 DEF PushSkipped
      <4>2. c.doing = run[q].doing
        BY <1>1 DEF Replay
      <4> HIDE DEF c
      <4> QED
        BY <4>1, <4>2
    <3>2. CASE PushRejected(q, s) \/ PushUnsure(q, s)
      <4>1. PICK u : run' = [run EXCEPT ![q] = [run[q] EXCEPT
                         !.todo = @ \ {s}, !.clean = FALSE, !.wrote = TRUE, !.unresolved = u]]
        BY <3>2 DEF PushRejected, PushUnsure
      <4> DEFINE c == [run[q] EXCEPT
                         !.todo = @ \ {s}, !.clean = FALSE, !.wrote = TRUE, !.unresolved = u]
      <4>2. run'[q] = c
        BY <1>1, <4>1
      <4>3. c.doing = run[q].doing
        BY <1>1 DEF Replay
      <4> HIDE DEF c
      <4> QED
        BY <4>2, <4>3
    <3> QED
      BY <1>6, <3>1, <3>2
  <2> QED
    BY <2>1
<1>7. ASSUME NEW s \in Resource, Push(q, s) PROVE s = r
  <2> DEFINE c == [run[q] EXCEPT !.doing = s, !.wrote = TRUE]
  <2>1. run'[q] = c
    BY <1>1, <1>7 DEF Push
  <2>2. c.doing = s
    BY <1>1 DEF Replay
  <2> HIDE DEF c
  <2> QED
    BY <2>1, <2>2
<1>8. ASSUME \/ StartRun(q) \/ ClaimKind(q) \/ ClaimKindBusy(q) \/ MapsLoaded(q) \/ Mark(q)
             \/ AllPushed(q) \/ Sweep(q) \/ ReleaseClaims(q) \/ Throw(q)
      PROVE  FALSE
  <2>1. \E p \in RunPcs : Goes(q, p)
    BY <1>8 DEF StartRun, ClaimKind, ClaimKindBusy, MapsLoaded, Mark, AllPushed, Sweep,
                ReleaseClaims, Throw, RunPcs
  <2> QED
    BY <1>2, <2>1
<1> QED
  BY <1>3, <1>4, <1>5, <1>6, <1>7, <1>8 DEF RunStep, StartRefused, Unlease, RunDies

(* What a replay writes into native is a resource WorkOS still holds.        *)
THEOREM ReplayRestoresNothingAlways == Spec => ReplayRestoresNothing
<1>1. ASSUME ReplayInv, [Next]_vars
      PROVE  [\A q \in Run, r \in Resource :
                 run'[q].doing = r /\ run[q].doing # r => workos[r] # None]_vars
  <2>1. SUFFICES ASSUME NEW q \in Run, NEW r \in Resource, run'[q].doing = r, run[q].doing # r
                 PROVE  workos[r] # None
    OBVIOUS
  <2>2. CASE RunStep(q)
    <3>1. Pushing(q, r)
      BY <1>1, <2>1, <2>2, OnlyPushDoes DEF ReplayInv, Push
    <3> QED
      BY <1>1, <3>1 DEF Pushing, ReplayInv, ListedStands
  <2>3. CASE run'[q] = run[q]
    BY <2>1, <2>3
  <2>4. RunStep(q) \/ run'[q] = run[q]
    <3>1. CASE LateWrite
      BY <3>1 DEF LateWrite
    <3>2. CASE \E x \in Request : LiveStep(x)
      BY <1>1, <3>2, LiveTyped DEF ReplayInv, Moves
    <3>3. CASE \E p \in Run : RunStep(p)
      BY <1>1, <3>3, RunTyped DEF ReplayInv, Turns, OthersUnrun
    <3>4. CASE UNCHANGED vars
      BY <3>4 DEF vars
    <3> QED
      BY <1>1, <3>1, <3>2, <3>3, <3>4 DEF Next
  <2> QED
    BY <2>2, <2>3, <2>4
<1> QED
  BY <1>1, ReplayInvariant, PTL DEF Spec, ReplayRestoresNothing

-----------------------------------------------------------------------------
(* The ledger between runs *)

(***************************************************************************)
(* What the ledger is worth between runs: where the IdP sends the writes of *)
(* one resource one at a time (Serialized) and an operator reconciles a     *)
(* directory that is quiet (Quiesced), told, ledger and rows agree.         *)
(*                                                                         *)
(* QuietInv has four parts.  A write at work has its resource to itself and *)
(* no run beside it, so what it knows of both sides still holds unless a    *)
(* late write, which sets told to "disturbed", came between (Owned).  Late  *)
(* writes are a past writer's: their resource is still owned by their       *)
(* sender, or the IdP writes anew and learns to distrust what they disturb. *)
(* What rests at a resource no one writes is Settled.  What a run has       *)
(* listed and pushed is what WorkOS has (Replayed).                         *)
(*                                                                         *)
(* LiveQuiet reduces a live step to what it does to its own resource; each  *)
(* step of a run is proved against Replayed and leaves the rest alone.      *)
(***************************************************************************)

(* A claim nobody will give back: its owner is no longer at work. *)
AtWork(o) == (o \in Request /\ Busy(o)) \/ (o \in Run /\ Active(o))
Stuck(k) == claim[k] # None /\ ~AtWork(claim[k])

Begun == \A k \in Kinds : /\ claim[k] \in Request => req[claim[k]].pc # "idle"
                          /\ claim[k] \in Run => run[claim[k]].pc # "idle"

(* One writer at a resource, and none beside a run. *)
OneWriter == \A x, y \in Request : Busy(x) /\ Busy(y) /\ req[x].res = req[y].res => x = y
Apart == \A q \in Run : Active(q) =>
    (\A x \in Request : ~Busy(x)) /\ (\A w \in late : w.by \in Run)

(* Late writes: whose they are, and what they keep claimed. *)
WaitsNative(x) == req[x].pc = "legs" /\ req[x].op = "create" /\ req[x].native = "unsure"

LateOwn == \A w \in late : w.by \in Request =>
    req[w.by].pc # "idle" /\ (Busy(w.by) => req[w.by].res = w.res)
LatePostHeld == \A w \in late : w.by \in Request /\ w.side = "native" /\ w.verb = "post" =>
    /\ claim[Kind(w.res)] = w.by
    /\ req[w.by].pc = "done" \/ WaitsNative(w.by)
LatePush == \A w \in late : w.by \in Run => workos[w.res] # None

(* What a write at work knows of its resource, as long as no late write has *)
(* disturbed it.                                                            *)
Sets(x) == IF req[x].op = "delete" THEN None ELSE x

Owned(x) ==
    LET r == req[x].res IN
    /\ told[r] # "success"
    /\ req[x].pc # "legs" => req[x].native = "none" /\ req[x].workos = "none"
    /\ told[r] = "nothing" =>
          /\ req[x].native \in {"ok", "gone"} => native[r] = Sets(x)
          /\ req[x].workos \in {"ok", "gone", "created"} => workos[r] = Sets(x)
    /\ req[x].op \in {"replace", "patch"} /\ WorkosSettled(x)
          => workos[r] # None \/ Stuck(Kind(r))
    /\ req[x].op # "create" /\ req[x].pc = "legs" => r \in mapped
    /\ req[x].op = "create" /\ req[x].workos = "created" /\ ~NativeNamed(x) => r \notin mapped

(* A row native missed a write of, and that WorkOS does not have: a create  *)
(* or a delete is at work there, or has left its claim.                     *)
Excuses(x, r) ==
    /\ Busy(x) /\ req[x].res = r
    /\ \/ req[x].op = "delete" /\ req[x].workos \in {"ok", "unsure"}
       \/ req[x].op = "create" /\ req[x].native \in {"ok", "unsure"}
Lost(r) == gap[r] = "write" /\ workos[r] = None /\ native[r] # None

Settled(r) ==
    /\ told[r] = "success" => native[r] = workos[r]
    /\ gap[r] = "delete" => r \in mapped
    /\ Lost(r) => Stuck(Kind(r)) \/ \E x \in Request : Excuses(x, r)

(* What a run knows of what it listed. *)
Shot(q) == IF run[q].pc \in {"pushUsers", "listGroups"} THEN OfKind("Users")
           ELSE IF run[q].pc \in {"pushGroups", "sweep"} THEN Resource ELSE {}
Hand(q) == run[q].todo \cup ({run[q].doing} \ {None})

Replayed(q) ==
    /\ run[q].unresolved => ~run[q].clean
    /\ run[q].pc \in {"pushUsers", "pushGroups"} => Hand(q) \subseteq OfKind(IF run[q].pc = "pushUsers" THEN "Users" ELSE "Groups")
    /\ run[q].pc \in Early \cup {"listUsers", "listGroups", "sweep"} => Hand(q) = {}
    /\ Marked(q) =>
          /\ \A r \in run[q].todo : run[q].snap[r] = workos[r]
          /\ run[q].doing # None => native[run[q].doing] = workos[run[q].doing]
          /\ run[q].clean => \A r \in Shot(q) : workos[r] # None
                                => r \in run[q].todo \/ native[r] = workos[r]
          /\ \A w \in late : w.by = q => w.res \in Shot(q) \ Hand(q)

QuietInv ==
    /\ Begun /\ OneWriter /\ Apart /\ LateOwn /\ LatePostHeld /\ LatePush
    /\ \A x \in Request : Busy(x) => Owned(x)
    /\ \A r \in Resource : Settled(r)
    /\ \A q \in Run : Replayed(q)

-----------------------------------------------------------------------------
(* A live write. *)

(* The resource of a write at work is its own, and no run is at work beside  *)
(* it; a request that arrives finds nobody at its resource.                  *)
Elsewhere(r) == \A s \in Resource \ {r} :
    /\ native'[s] = native[s] /\ workos'[s] = workos[s] /\ gap'[s] = gap[s] /\ told'[s] = told[s]
    /\ s \in mapped' <=> s \in mapped

Alone(x, r) ==
    /\ r \in Resource /\ Elsewhere(r)
    /\ \A q \in Run : ~Active(q)
    /\ \A y \in Request \ {x} : Busy(y) => req[y].res # r
    /\ Busy(x) => req[x].res = r
    /\ Busy(x)' => req'[x].res = r
    /\ req'[x].pc # "idle"

(* What it still has to show for itself and leave behind. *)
Leaves(x, r) ==
    /\ \A k \in Kinds : claim'[k] \in {claim[k], None, x}
    /\ Busy(x)' => Owned(x)'
    /\ Settled(r)'
    /\ WaitsNative(x) => WaitsNative(x)' \/ (req'[x].pc = "done" /\ claim'[Kind(r)] = claim[Kind(r)])
    /\ \A w \in late' : w \in late \/
          /\ w.by = x /\ w.res = r
          /\ w.side = "native" /\ w.verb = "post"
                => claim'[Kind(r)] = x /\ (req'[x].pc = "done" \/ WaitsNative(x)')

LEMMA KindIs == \A r : Kind(r) \in Kinds
BY DEF Kind, Kinds

LEMMA LiveStuck ==
    ASSUME ReplayInv, Begun, NEW x \in Request, LiveEffect(x), NEW k \in Kinds, Stuck(k),
           Busy(x) \/ req[x].pc = "idle"
    PROVE  Stuck(k)' /\ claim'[k] = claim[k]
<1>1. claim[k] # x
  BY DEF Stuck, AtWork, Begun
<1>2. claim'[k] = claim[k] /\ claim[k] # None
  BY <1>1 DEF LiveEffect, Stuck
<1>3. run' = run /\ \A y \in Request \ {x} : req'[y] = req[y]
  BY DEF LiveEffect, Moves, OthersUnasked
<1> QED
  BY <1>1, <1>2, <1>3 DEF Stuck, AtWork, Busy, Active

(* An ended write that still has its claim leaves it stuck. *)
LEMMA EndStuck ==
    ASSUME NEW x \in Request, NEW k \in Kinds, claim'[k] = x, req'[x].pc = "done"
    PROVE  Stuck(k)'
BY LedgerFacts DEF Stuck, AtWork, Busy

LEMMA LiveQuiet ==
    ASSUME ReplayInv, QuietInv, NEW x \in Request, LiveEffect(x), NEW r, Alone(x, r), Leaves(x, r),
           Busy(x) \/ req[x].pc = "idle"
    PROVE  QuietInv'
<1>1. /\ run' = run /\ r \in Resource /\ x \notin Run /\ x # None
      /\ \A y \in Request \ {x} : req'[y] = req[y] /\ (Busy(y)' <=> Busy(y))
  BY LedgerFacts DEF LiveEffect, Moves, OthersUnasked, Alone, Busy
<1>2. \A k \in Kinds : claim'[k] \in {claim[k], None, x}
  BY DEF Leaves
<1>3. \A k \in Kinds : Stuck(k) => Stuck(k)'
  BY LiveStuck DEF QuietInv
<1>4. Begun'
  <2>1. ASSUME NEW k \in Kinds, claim'[k] \in Request PROVE req'[claim'[k]].pc # "idle"
    <3>1. CASE claim'[k] = x
      BY <3>1 DEF Alone
    <3>2. CASE claim'[k] # x
      <4>1. claim'[k] = claim[k]
        BY <1>2, <2>1, <3>2, LedgerFacts
      <4> QED
        BY <1>1, <2>1, <3>2, <4>1 DEF QuietInv, Begun
    <3> QED
      BY <3>1, <3>2
  <2>2. ASSUME NEW k \in Kinds, claim'[k] \in Run PROVE run'[claim'[k]].pc # "idle"
    <3>1. claim'[k] = claim[k]
      BY <1>1, <1>2, <2>2, LedgerFacts
    <3> QED
      BY <1>1, <2>2, <3>1 DEF QuietInv, Begun
  <2> QED
    BY <2>1, <2>2 DEF Begun
<1>5. OneWriter'
  BY <1>1 DEF QuietInv, OneWriter, Alone
<1>6. Apart'
  BY <1>1 DEF Apart, Alone, Active
<1>7. LateOwn'
  <2>1. ASSUME NEW w \in late', w.by \in Request
        PROVE  req'[w.by].pc # "idle" /\ (Busy(w.by)' => req'[w.by].res = w.res)
    <3>1. CASE w \in late
      <4>1. CASE w.by = x
        <5>1. req[x].pc # "idle" /\ Busy(x) /\ w.res = r
          BY <2>1, <3>1, <4>1 DEF QuietInv, LateOwn, Alone
        <5> QED
          BY <4>1, <5>1 DEF Alone
      <4>2. CASE w.by # x
        BY <1>1, <2>1, <3>1, <4>2 DEF QuietInv, LateOwn
      <4> QED
        BY <4>1, <4>2
    <3>2. CASE w \notin late
      BY <3>2 DEF Leaves, Alone
    <3> QED
      BY <3>1, <3>2
  <2> QED
    BY <2>1 DEF LateOwn
<1>8. LatePostHeld'
  <2>1. SUFFICES ASSUME NEW w \in late', w.by \in Request, w.side = "native", w.verb = "post"
                 PROVE  claim'[Kind(w.res)] = w.by /\ (req'[w.by].pc = "done" \/ WaitsNative(w.by)')
    BY DEF LatePostHeld, WaitsNative
  <2>2. CASE w \notin late
    BY <2>1, <2>2 DEF Leaves
  <2>3. CASE w \in late
    <3>1. claim[Kind(w.res)] = w.by /\ (req[w.by].pc = "done" \/ WaitsNative(w.by))
      BY <2>1, <2>3 DEF QuietInv, LatePostHeld
    <3>2. CASE w.by = x
      <4>1. WaitsNative(x) /\ Busy(x)
        BY <3>1, <3>2 DEF Busy, LiveEffect, WaitsNative
      <4>2. w.res = r
        BY <2>1, <2>3, <3>2, <4>1 DEF QuietInv, LateOwn, Alone
      <4>3. CASE req'[x].pc = "done" /\ claim'[Kind(r)] = claim[Kind(r)]
        BY <3>1, <3>2, <4>2, <4>3
      <4>4. CASE WaitsNative(x)'
        <5>1. (Claims(x) /\ req[x].pc \in {"check", "legs"} => claim[Kind(req[x].res)] = x)'
          BY DEF LiveEffect
        <5>2. req'[x].res = r
          BY <4>4 DEF Alone, WaitsNative, Busy
        <5> QED
          BY <3>2, <4>2, <4>4, <5>1, <5>2 DEF WaitsNative, Claims
      <4> QED
        BY <4>1, <4>3, <4>4 DEF Leaves
    <3>3. CASE w.by # x
      <4>1. claim'[Kind(w.res)] = claim[Kind(w.res)]
        BY <2>1, <3>1, <3>3, KindIs, LedgerFacts DEF LiveEffect
      <4> QED
        BY <1>1, <2>1, <3>1, <3>3, <4>1 DEF WaitsNative
    <3> QED
      BY <3>2, <3>3
  <2> QED
    BY <2>2, <2>3
<1>9. LatePush'
  <2>1. ASSUME NEW w \in late', w.by \in Run PROVE workos'[w.res] # None
    <3>1. w \in late
      BY <1>1, <2>1 DEF Leaves
    <3>2. claim[Kind(w.res)] = w.by /\ w.res \in Resource /\ workos[w.res] # None
      BY <2>1, <3>1, KindIs DEF ReplayInv, LateReplayHeld, QuietInv, LatePush, Sound, TypeOK, Write
    <3> QED
      BY <1>1, <2>1, <3>2 DEF LiveEffect
  <2> QED
    BY <2>1 DEF LatePush
<1>10. ASSUME NEW y \in Request, Busy(y)' PROVE Owned(y)'
  <2>1. CASE y = x
    BY <1>10, <2>1 DEF Leaves
  <2>2. CASE y # x
    <3> PICK s : s = req[y].res
      OBVIOUS
    <3>1. Busy(y) /\ req'[y] = req[y] /\ s # r /\ Owned(y) /\ s \in Resource
      BY <1>1, <1>10, <2>2 DEF Alone, QuietInv, ReplayInv, Sound, Asked
    <3>2. /\ native'[s] = native[s] /\ workos'[s] = workos[s] /\ told'[s] = told[s]
          /\ s \in mapped' <=> s \in mapped
      BY <3>1 DEF Alone, Elsewhere
    <3>3. Stuck(Kind(s)) => Stuck(Kind(s))'
      BY <1>3, KindIs
    <3> QED
      BY <3>1, <3>2, <3>3 DEF Owned, Sets, NativeNamed, WorkosSettled, Kind
  <2> QED
    BY <2>1, <2>2
<1>11. ASSUME NEW s \in Resource PROVE Settled(s)'
  <2>1. CASE s = r
    BY <2>1 DEF Leaves
  <2>2. CASE s # r
    <3>1. /\ native'[s] = native[s] /\ workos'[s] = workos[s] /\ told'[s] = told[s]
          /\ gap'[s] = gap[s] /\ (s \in mapped' <=> s \in mapped)
      BY <2>2 DEF Alone, Elsewhere
    <3>2. Stuck(Kind(s)) => Stuck(Kind(s))'
      BY <1>3, KindIs
    <3>3. ASSUME NEW y \in Request, Excuses(y, s) PROVE Excuses(y, s)'
      <4>1. y # x
        BY <2>2, <3>3 DEF Excuses, Alone
      <4> QED
        BY <1>1, <3>3, <4>1 DEF Excuses
    <3>4. Settled(s)
      BY DEF QuietInv
    <3> QED
      BY <3>1, <3>2, <3>3, <3>4 DEF Settled, Lost, Kind
  <2> QED
    BY <2>1, <2>2
<1>12. ASSUME NEW q \in Run PROVE Replayed(q)'
  <2>1. ~Marked(q) /\ Replayed(q) /\ run'[q] = run[q]
    BY <1>1 DEF Alone, Active, Marked, QuietInv
  <2> QED
    BY <2>1 DEF Replayed, Marked, Hand
<1> QED
  BY <1>4, <1>5, <1>6, <1>7, <1>8, <1>9, <1>10, <1>11, <1>12 DEF QuietInv

-----------------------------------------------------------------------------
(* Each live step is alone at its resource and leaves it in order. *)

LEMMA BusyAlone ==
    ASSUME ReplayInv, QuietInv, NEW x \in Request, Busy(x), LiveEffect(x),
           NEW r, r = req[x].res, Elsewhere(r), Busy(x)' => req'[x].res = r, req'[x].pc # "idle"
    PROVE  Alone(x, r)
<1>1. r \in Resource
  BY DEF ReplayInv, Sound, Asked
<1>2. \A q \in Run : ~Active(q)
  BY DEF QuietInv, Apart
<1>3. \A y \in Request \ {x} : Busy(y) => req[y].res # r
  BY DEF QuietInv, OneWriter
<1> QED
  BY <1>1, <1>2, <1>3 DEF Alone

(* Only the writer at a resource excuses what native kept there.             *)
LEMMA OnlyExcuse ==
    ASSUME QuietInv, NEW x \in Request, Busy(x), NEW r \in Resource, r = req[x].res, Lost(r)
    PROVE  Stuck(Kind(r)) \/ Excuses(x, r)
<1>1. ASSUME NEW y \in Request, Excuses(y, r) PROVE y = x
  BY <1>1 DEF QuietInv, OneWriter, Excuses
<1> QED
  BY <1>1 DEF QuietInv, Settled

LEMMA ReceiveQuiet ==
    ASSUME Serialized, Quiesced, ReplayInv, QuietInv, NEW x \in Request, Receive(x)
    PROVE  QuietInv'
<1>1. LiveEffect(x) /\ req[x].pc = "idle" /\ TypeOK
  BY BeforeLegsEffect DEF Receive, ReplayInv, Sound
<1>2. PICK op \in Ops, r \in Resource :
          /\ \A y \in Request : Busy(y) => req[y].res # r
          /\ req' = [req EXCEPT ![x] = [Unasked EXCEPT !.op = op, !.res = r,
                        !.pc = IF op \in {"create", "delete"} THEN "claim" ELSE "check"]]
          /\ told' = [told EXCEPT ![r] = "nothing"]
  BY DEF Receive
<1> DEFINE p == IF op \in {"create", "delete"} THEN "claim" ELSE "check"
           c == [Unasked EXCEPT !.op = op, !.res = r, !.pc = p]
<1>3. c.res = r /\ c.pc \in {"claim", "check"} /\ c.native = "none" /\ c.workos = "none"
  BY DEF Unasked
<1>4. req'[x] = c
  BY <1>1, <1>2 DEF TypeOK
<1> HIDE DEF c
<1>5. /\ native' = native /\ workos' = workos /\ late' = late /\ gap' = gap /\ mapped' = mapped
      /\ claim' = claim
  BY DEF Receive, store, ledger, upstream
<1>6. told'[r] = "nothing" /\ \A s \in Resource \ {r} : told'[s] = told[s]
  BY <1>1, <1>2 DEF TypeOK
<1>7. Alone(x, r)
  BY <1>1, <1>2, <1>3, <1>4, <1>5, <1>6 DEF Alone, Elsewhere, Busy, Receive
<1>8. Owned(x)'
  <2>1. req'[x].pc \in {"claim", "check"} /\ req'[x].native = "none" /\ req'[x].workos = "none"
        /\ req'[x].res = r
    BY <1>3, <1>4
  <2> QED
    BY <1>6, <2>1 DEF Owned, WorkosSettled
<1>9. Settled(r)'
  <2>1. Lost(r) => Stuck(Kind(r))
    BY <1>2 DEF QuietInv, Settled, Excuses
  <2>2. Stuck(Kind(r)) => Stuck(Kind(r))'
    BY <1>1, LiveStuck, KindIs DEF QuietInv
  <2> QED
    BY <1>5, <1>6, <2>1, <2>2 DEF QuietInv, Settled, Lost, Kind
<1>10. Leaves(x, r)
  BY <1>1, <1>5, <1>8, <1>9 DEF Leaves, WaitsNative
<1> QED
  BY <1>1, <1>7, <1>10, LiveQuiet

LEMMA BeforeLegsQuiet ==
    ASSUME ReplayInv, QuietInv, NEW x \in Request,
           TakeClaim(x) \/ ClaimBusy(x) \/ Checked(x) \/ Refused(x) \/ Die(x)
    PROVE  QuietInv'
<1>1. LiveEffect(x) /\ TypeOK /\ Busy(x)
  BY BeforeLegsEffect DEF TakeClaim, ClaimBusy, Checked, Refused, Die, Busy, ReplayInv, Sound
<1> PICK r : r = req[x].res
  OBVIOUS
<1>2. r \in Resource /\ Owned(x)
  BY <1>1 DEF ReplayInv, Sound, Asked, QuietInv
<1>3. /\ native' = native /\ workos' = workos /\ late' = late /\ gap' = gap /\ mapped' = mapped
      /\ told' = told
      /\ \A k \in Kinds : claim'[k] \in {claim[k], None, x}
  BY <1>1 DEF TakeClaim, ClaimBusy, Checked, Refused, Die, store, ledger, upstream, Released, TypeOK
<1>4. \/ req'[x].pc = "done"
      \/ /\ TakeClaim(x) \/ Checked(x)
         /\ req'[x].pc \in {"check", "legs"} /\ req'[x].op = req[x].op /\ req'[x].res = r
         /\ req'[x].native = "none" /\ req'[x].workos = "none"
         /\ req'[x].pc = "legs" => Checked(x)
  <2>1. CASE ClaimBusy(x) \/ Refused(x) \/ Die(x)
    BY <1>1, <2>1, FinishedDoes DEF ClaimBusy, Refused, Die
  <2>2. CASE TakeClaim(x)
    <3>1. To(x, "check") /\ "check" \in LivePcs /\ req[x].pc = "claim"
      BY <2>2 DEF TakeClaim, LivePcs
    <3> QED
      BY <1>1, <1>2, <2>2, <3>1, ToDoes DEF Owned
  <2>3. CASE Checked(x)
    <3>1. To(x, "legs") /\ "legs" \in LivePcs /\ req[x].pc = "check"
      BY <2>3 DEF Checked, LivePcs
    <3> QED
      BY <1>1, <1>2, <2>3, <3>1, ToDoes DEF Owned
  <2> QED
    BY <2>1, <2>2, <2>3
<1>5. Alone(x, r)
  BY <1>1, <1>2, <1>3, <1>4, BusyAlone DEF Elsewhere, Busy
<1>6. Busy(x)' => Owned(x)'
  <2>1. Checked(x) => req[x].res \in mapped \/ req[x].op = "create"
    BY DEF Checked
  <2> QED
    BY <1>2, <1>3, <1>4, <2>1 DEF Busy, Owned, WorkosSettled
<1>7. Settled(r)'
  <2>1. ASSUME Lost(r) PROVE Stuck(Kind(r))'
    <3>1. CASE Stuck(Kind(r))
      BY <1>1, <3>1, LiveStuck, KindIs DEF QuietInv
    <3>2. CASE Excuses(x, r)
      <4>1. req[x].pc = "legs" /\ Claims(x)
        BY <1>2, <3>2 DEF Excuses, Owned, Claims
      <4>2. Die(x) /\ claim[Kind(r)] = x
        BY <1>2, <4>1 DEF TakeClaim, ClaimBusy, Checked, Refused, ReplayInv, RequestHolds
      <4>3. claim'[Kind(r)] = x /\ req'[x].pc = "done"
        BY <1>1, <4>2, FinishedDoes DEF Die, store
      <4> QED
        BY <4>3, EndStuck, KindIs
    <3> QED
      BY <1>1, <1>2, <2>1, <3>1, <3>2, OnlyExcuse
  <2> QED
    BY <1>2, <1>3, <2>1 DEF QuietInv, Settled, Lost, Kind
<1>8. WaitsNative(x) => req'[x].pc = "done" /\ claim'[Kind(r)] = claim[Kind(r)]
  <2>1. WaitsNative(x) => Die(x)
    BY DEF WaitsNative, TakeClaim, ClaimBusy, Checked, Refused
  <2> QED
    BY <1>1, <2>1, FinishedDoes DEF Die, store
<1>9. Leaves(x, r)
  BY <1>3, <1>6, <1>7, <1>8 DEF Leaves
<1> QED
  BY <1>1, <1>5, <1>9, LiveQuiet

(* What native answered: the row it shows if the write was taken.            *)
LEMMA NativeLegDoes ==
    ASSUME ReplayInv, NEW x \in Request,
           NativeApplies(x) \/ NativeAdopts(x) \/ NativeRejects(x) \/ NativeUnsure(x),
           NEW r, r = req[x].res
    PROVE  /\ req[x].native = "none" /\ req[x].pc = "legs"
           /\ req'[x].pc = "legs" /\ req'[x].op = req[x].op /\ req'[x].res = r
           /\ req'[x].workos = req[x].workos
           /\ \A s \in Resource \ {r} : native'[s] = native[s]
           /\ native'[r] # native[r] => native'[r] = Sets(x)
           /\ req'[x].native \in {"ok", "gone"} => native'[r] = Sets(x)
           /\ native[r] = None /\ native'[r] # None
                => req[x].op = "create" /\ req'[x].native = "ok"
           /\ \A w \in late' : w \in late \/
                /\ w.by = x /\ w.res = r
                /\ w.verb = "post" => req[x].op = "create" /\ req'[x].native = "unsure"
<1>1. Sound /\ TypeOK /\ r \in Resource /\ req[x].pc = "legs" /\ req[x].native = "none"
  BY DEF ReplayInv, Sound, Asked, Busy, NativeApplies, NativeAdopts, NativeRejects, NativeUnsure, InLegs
<1>2. ASSUME NEW stat \in Stats, NativeAnswers(x, stat)
      PROVE  /\ req'[x].pc = "legs" /\ req'[x].op = req[x].op /\ req'[x].res = r
             /\ req'[x].native = stat /\ req'[x].workos = req[x].workos
  BY <1>1, <1>2, NativeAnswersDoes
<1>3. CASE NativeApplies(x)
  <2>1. PICK stat \in {"ok", "gone"} : NativeAnswers(x, stat) /\ (req[x].op = "create" => stat = "ok")
    BY <1>3 DEF NativeApplies
  <2>2. stat \in Stats
    BY <2>1 DEF Stats
  <2>3. /\ native' = [native EXCEPT ![r] = Sets(x)] /\ late' = late
        /\ native[r] = None => req[x].op \in {"create", "delete"}
    BY <1>3 DEF NativeApplies, Sets
  <2>4. native'[r] = Sets(x) /\ \A s \in Resource \ {r} : native'[s] = native[s]
    BY <1>1, <2>3 DEF TypeOK
  <2>5. req[x].op = "delete" => Sets(x) = None
    BY DEF Sets
  <2> QED
    BY <1>1, <1>2, <2>1, <2>2, <2>3, <2>4, <2>5
<1>4. CASE NativeAdopts(x) \/ NativeRejects(x)
  <2>1. PICK stat \in {"conflict", "rejected"} : NativeAnswers(x, stat)
    BY <1>4 DEF NativeAdopts, NativeRejects
  <2>2. stat \in Stats
    BY <2>1 DEF Stats
  <2>3. native' = native /\ late' = late
    BY <1>4 DEF NativeAdopts, NativeRejects, upstream
  <2> QED
    BY <1>1, <1>2, <2>1, <2>2, <2>3
<1>5. CASE NativeUnsure(x)
  <2>1. NativeAnswers(x, "unsure") /\ "unsure" \in Stats /\ native' = native
    BY <1>5 DEF NativeUnsure, Stats
  <2>2. \A w \in late' : w \in late \/ (w.by = x /\ w.res = r /\ w.verb = Verb(x))
    BY <1>5 DEF NativeUnsure, Unanswered
  <2>3. Verb(x) = "post" => req[x].op = "create"
    BY DEF Verb
  <2> QED
    BY <1>1, <1>2, <2>1, <2>2, <2>3
<1> QED
  BY <1>3, <1>4, <1>5

LEMMA NativeQuiet ==
    ASSUME ReplayInv, QuietInv, NEW x \in Request,
           NativeApplies(x) \/ NativeAdopts(x) \/ NativeRejects(x) \/ NativeUnsure(x)
    PROVE  QuietInv'
<1> PICK r : r = req[x].res
  OBVIOUS
<1>1. LiveEffect(x) /\ TypeOK
  BY NativeEffect DEF ReplayInv, Sound
<1>2. /\ req[x].native = "none" /\ req[x].pc = "legs"
      /\ req'[x].pc = "legs" /\ req'[x].op = req[x].op /\ req'[x].res = r
      /\ req'[x].workos = req[x].workos
      /\ \A s \in Resource \ {r} : native'[s] = native[s]
      /\ req'[x].native \in {"ok", "gone"} => native'[r] = Sets(x)
      /\ native[r] = None /\ native'[r] # None => req[x].op = "create" /\ req'[x].native = "ok"
      /\ \A w \in late' : w \in late \/
            /\ w.by = x /\ w.res = r
            /\ w.verb = "post" => req[x].op = "create" /\ req'[x].native = "unsure"
  BY NativeLegDoes
<1>3. Busy(x) /\ r \in Resource /\ Owned(x)
  BY <1>2 DEF Busy, ReplayInv, Sound, Asked, QuietInv
<1>4. /\ workos' = workos /\ gap' = gap /\ mapped' = mapped /\ told' = told /\ claim' = claim
  BY DEF NativeApplies, NativeAdopts, NativeRejects, NativeUnsure, store, ledger, upstream
<1>5. Alone(x, r)
  BY <1>1, <1>2, <1>3, <1>4, BusyAlone DEF Elsewhere
<1>6. Stuck(Kind(r)) => Stuck(Kind(r))'
  BY <1>1, <1>3, LiveStuck, KindIs DEF QuietInv
<1>7. Owned(x)'
  <2>1. Sets(x)' = Sets(x)
    BY <1>2 DEF Sets
  <2> QED
    BY <1>2, <1>3, <1>4, <1>6, <2>1 DEF Owned, WorkosSettled, NativeNamed, Kind
<1>8. Settled(r)'
  <2>1. ASSUME Lost(r)' PROVE Stuck(Kind(r))' \/ Excuses(x, r)'
    <3>1. CASE native[r] # None
      <4>1. Lost(r)
        BY <1>4, <2>1, <3>1 DEF Lost
      <4>2. Excuses(x, r) => Excuses(x, r)'
        BY <1>2 DEF Excuses, Busy
      <4> QED
        BY <1>3, <1>6, <4>1, <4>2, OnlyExcuse
    <3>2. CASE native[r] = None
      BY <1>2, <2>1, <3>2 DEF Lost, Excuses, Busy
    <3> QED
      BY <3>1, <3>2
  <2>2. told'[r] # "success" /\ (gap'[r] = "delete" => r \in mapped')
    BY <1>3, <1>4 DEF QuietInv, Settled, Owned
  <2> QED
    BY <2>1, <2>2 DEF Settled, Kind
<1>9. ASSUME NEW w \in late' PROVE
        w \in late \/ /\ w.by = x /\ w.res = r
                      /\ w.verb = "post" => claim'[Kind(r)] = x /\ WaitsNative(x)'
  <2>1. req[x].op = "create" => claim[Kind(r)] = x
    BY <1>2 DEF ReplayInv, RequestHolds, Claims
  <2> QED
    BY <1>2, <1>4, <2>1 DEF WaitsNative
<1>10. Leaves(x, r)
  BY <1>2, <1>4, <1>7, <1>8, <1>9 DEF Leaves, WaitsNative
<1> QED
  BY <1>1, <1>3, <1>5, <1>10, LiveQuiet

(* What WorkOS answered, and the row it shows if the write was taken.        *)
LEMMA WorkosLegDoes ==
    ASSUME ReplayInv, NEW x \in Request,
           \/ WorkosApplies(x) \/ WorkosRecovers(x) \/ RecoveryUnsure(x)
           \/ WorkosRejects(x) \/ WorkosUnsure(x),
           NEW r, r = req[x].res
    PROVE  /\ WorkosOpen(x, Ops) /\ req[x].pc = "legs"
           /\ req'[x].pc = "legs" /\ req'[x].op = req[x].op /\ req'[x].res = r
           /\ req'[x].native = req[x].native
           /\ \A s \in Resource \ {r} : workos'[s] = workos[s]
           /\ req'[x].workos \in {"ok", "gone", "created"} => workos'[r] = Sets(x)
           /\ workos[r] # None /\ workos'[r] = None
                => req[x].op = "delete" /\ req'[x].workos = "ok"
           /\ \A w \in late' : w \in late \/ (w.by = x /\ w.res = r /\ w.side = "workos")
           /\ \A k \in Kinds : claim'[k] \in {claim[k], x}
<1>1. Sound /\ TypeOK /\ r \in Resource /\ req[x].pc = "legs" /\ WorkosOpen(x, Ops)
  BY DEF ReplayInv, Sound, Asked, Busy, WorkosApplies, WorkosRecovers, RecoveryUnsure,
         WorkosRejects, WorkosUnsure, Recoverable, WorkosOpen, InLegs, Ops
<1>2. ASSUME NEW stat \in Stats, WorkosAnswers(x, stat)
      PROVE  /\ req'[x].pc = "legs" /\ req'[x].op = req[x].op /\ req'[x].res = r
             /\ req'[x].native = req[x].native /\ req'[x].workos = stat
  BY <1>1, <1>2, WorkosAnswersDoes
<1>3. CASE WorkosApplies(x)
  <2>1. PICK stat \in {"ok", "gone", "created"} :
            WorkosAnswers(x, stat) /\ (stat = "gone" => workos[r] = None)
                                   /\ (req[x].op = "delete" /\ workos[r] # None => stat = "ok")
    BY <1>3 DEF WorkosApplies
  <2>2. stat \in Stats
    BY <2>1 DEF Stats
  <2>3. /\ workos' = [workos EXCEPT ![r] = Sets(x)] /\ late' = late /\ claim' = claim
    BY <1>3 DEF WorkosApplies, Sets, store
  <2>4. workos'[r] = Sets(x) /\ \A s \in Resource \ {r} : workos'[s] = workos[s]
    BY <1>1, <2>3 DEF TypeOK
  <2>5. req[x].op # "delete" => Sets(x) # None
    BY LedgerFacts DEF Sets
  <2> QED
    BY <1>1, <1>2, <2>1, <2>2, <2>3, <2>4, <2>5
<1>4. CASE WorkosRecovers(x)
  <2>1. WorkosAnswers(x, "ok") /\ "ok" \in Stats /\ late' = late /\ claim' = claim
    BY <1>4 DEF WorkosRecovers, Stats, store
  <2>2. workos' = [workos EXCEPT ![r] = x] /\ req[x].op = "replace"
    BY <1>4 DEF WorkosRecovers, Recoverable, WorkosOpen, InLegs
  <2>3. Sets(x) = x /\ x # None
    BY <2>2, LedgerFacts DEF Sets
  <2>4. workos'[r] = Sets(x) /\ \A s \in Resource \ {r} : workos'[s] = workos[s]
    BY <1>1, <2>2, <2>3 DEF TypeOK
  <2> QED
    BY <1>1, <1>2, <2>1, <2>3, <2>4
<1>5. CASE RecoveryUnsure(x)
  <2>1. WorkosAnswers(x, "unsure") /\ "unsure" \in Stats /\ workos' = workos
    BY <1>5 DEF RecoveryUnsure, Stats
  <2>2. \A w \in late' : w \in late \/ (w.by = x /\ w.res = r /\ w.side = "workos")
    BY <1>5 DEF RecoveryUnsure, Unanswered
  <2>3. \A k \in Kinds : claim'[k] \in {claim[k], x}
    BY <1>1, <1>5 DEF RecoveryUnsure, TypeOK
  <2> QED
    BY <1>1, <1>2, <2>1, <2>2, <2>3
<1>6. CASE WorkosRejects(x)
  <2>1. WorkosAnswers(x, "rejected") /\ "rejected" \in Stats
        /\ workos' = workos /\ late' = late /\ claim' = claim
    BY <1>6 DEF WorkosRejects, Stats, store, upstream
  <2> QED
    BY <1>1, <1>2, <2>1
<1>7. CASE WorkosUnsure(x)
  <2>1. WorkosAnswers(x, "unsure") /\ "unsure" \in Stats /\ workos' = workos /\ claim' = claim
    BY <1>7 DEF WorkosUnsure, Stats, store
  <2>2. \A w \in late' : w \in late \/ (w.by = x /\ w.res = r /\ w.side = "workos")
    BY <1>7 DEF WorkosUnsure, Unanswered
  <2> QED
    BY <1>1, <1>2, <2>1, <2>2
<1> QED
  BY <1>3, <1>4, <1>5, <1>6, <1>7

LEMMA WorkosQuiet ==
    ASSUME ReplayInv, QuietInv, NEW x \in Request,
           \/ WorkosApplies(x) \/ WorkosRecovers(x) \/ RecoveryUnsure(x)
           \/ WorkosRejects(x) \/ WorkosUnsure(x)
    PROVE  QuietInv'
<1> PICK r : r = req[x].res
  OBVIOUS
<1>1. LiveEffect(x) /\ TypeOK
  BY WorkosEffect DEF ReplayInv, Sound
<1>2. /\ WorkosOpen(x, Ops) /\ req[x].pc = "legs"
      /\ req'[x].pc = "legs" /\ req'[x].op = req[x].op /\ req'[x].res = r
      /\ req'[x].native = req[x].native
      /\ \A s \in Resource \ {r} : workos'[s] = workos[s]
      /\ req'[x].workos \in {"ok", "gone", "created"} => workos'[r] = Sets(x)
      /\ workos[r] # None /\ workos'[r] = None => req[x].op = "delete" /\ req'[x].workos = "ok"
      /\ \A w \in late' : w \in late \/ (w.by = x /\ w.res = r /\ w.side = "workos")
      /\ \A k \in Kinds : claim'[k] \in {claim[k], x}
  BY WorkosLegDoes
<1>3. Busy(x) /\ r \in Resource /\ Owned(x) /\ req[x].workos = "none"
  BY <1>2 DEF Busy, ReplayInv, Sound, Asked, QuietInv, WorkosOpen
<1>4. native' = native /\ gap' = gap /\ mapped' = mapped /\ told' = told
  BY DEF WorkosApplies, WorkosRecovers, RecoveryUnsure, WorkosRejects, WorkosUnsure, store,
         ledger, upstream
<1>5. Alone(x, r)
  BY <1>1, <1>2, <1>3, <1>4, BusyAlone DEF Elsewhere
<1>6. Stuck(Kind(r)) => Stuck(Kind(r))'
  BY <1>1, <1>3, LiveStuck, KindIs DEF QuietInv
<1>7. Owned(x)'
  <2>1. Sets(x)' = Sets(x) /\ (req[x].op # "delete" => Sets(x) # None)
    BY <1>2, LedgerFacts DEF Sets
  <2>2. NativeNamed(x)' <=> NativeNamed(x)
    BY <1>2 DEF NativeNamed
  <2>3. req[x].op = "create" /\ ~NativeNamed(x) => r \notin mapped
    BY <1>2 DEF WorkosOpen
  <2> QED
    BY <1>2, <1>3, <1>4, <2>1, <2>2, <2>3 DEF Owned, WorkosSettled
<1>8. Settled(r)'
  <2>1. ASSUME Lost(r)' PROVE Stuck(Kind(r))' \/ Excuses(x, r)'
    <3>1. CASE workos[r] = None
      <4>1. Lost(r)
        BY <1>4, <2>1, <3>1 DEF Lost
      <4>2. Excuses(x, r) => Excuses(x, r)'
        BY <1>2, <1>3 DEF Excuses, Busy
      <4> QED
        BY <1>3, <1>6, <4>1, <4>2, OnlyExcuse
    <3>2. CASE workos[r] # None
      BY <1>2, <2>1, <3>2 DEF Lost, Excuses, Busy
    <3> QED
      BY <3>1, <3>2
  <2>2. told'[r] # "success" /\ (gap'[r] = "delete" => r \in mapped')
    BY <1>3, <1>4 DEF QuietInv, Settled, Owned
  <2> QED
    BY <2>1, <2>2 DEF Settled, Kind
<1>9. Leaves(x, r)
  BY <1>2, <1>7, <1>8 DEF Leaves, WaitsNative
<1> QED
  BY <1>1, <1>3, <1>5, <1>9, LiveQuiet

(* What an outcome does to the ledger, and to what the IdP was told.         *)
LEMMA RecordDoes ==
    ASSUME TypeOK, NEW r \in Resource, NEW method \in {"write", "delete"}, Record(r, method)
    PROVE  gap'[r] = method /\ \A s \in Resource \ {r} : gap'[s] = gap[s]
BY DEF TypeOK, Record

LEMMA ClearDoes ==
    ASSUME NEW r \in Resource, Clear(r)
    PROVE  gap'[r] = "none" /\ \A s \in Resource \ {r} : gap'[s] = gap[s]
BY DEF Clear, Drop

LEMMA SucceedsDoes ==
    ASSUME TypeOK, NEW x \in Request, NEW r \in Resource, r = req[x].res, Succeeds(x)
    PROVE  /\ told'[r] = "success" => told[r] \in {"success", "nothing"}
           /\ \A s \in Resource \ {r} : told'[s] = told[s]
BY DEF TypeOK, Succeeds

Outcome(x) == \/ FinishUpdate(x) \/ FinishDelete(x) \/ CreateLands(x) \/ CreateFails(x)
              \/ Compensate(x) \/ CompensateFails(x)

(* What is true of every outcome. *)
LEMMA OutcomeDoes ==
    ASSUME ReplayInv, QuietInv, NEW x \in Request, Outcome(x), NEW r, r = req[x].res
    PROVE  /\ TypeOK /\ LiveEffect(x) /\ Busy(x) /\ req[x].pc = "legs" /\ req'[x].pc = "done"
           /\ r \in Resource /\ Owned(x) /\ Settled(r)
           /\ Claims(x) => claim[Kind(r)] = x
           /\ Stuck(Kind(r)) => Stuck(Kind(r))'
           /\ Lost(r) => Stuck(Kind(r)) \/ Excuses(x, r)
           /\ native' = native
<1>1. TypeOK /\ LiveEffect(x)
  BY OutcomeEffect DEF Outcome, ReplayInv, Sound
<1>2. req[x].pc = "legs" /\ req'[x].pc = "done" /\ native' = native
  BY <1>1, FinishedDoes
  DEF Outcome, FinishUpdate, FinishDelete, CreateLands, CreateFails, Compensate, CompensateFails,
      LegsDone, InLegs, upstream
<1>3. Busy(x) /\ r \in Resource /\ Owned(x) /\ Settled(r)
  BY <1>2 DEF Busy, ReplayInv, Sound, Asked, QuietInv
<1>4. Claims(x) => claim[Kind(r)] = x
  BY <1>2 DEF ReplayInv, RequestHolds
<1>5. Stuck(Kind(r)) => Stuck(Kind(r))'
  BY <1>1, <1>3, LiveStuck, KindIs DEF QuietInv
<1>6. Lost(r) => Stuck(Kind(r)) \/ Excuses(x, r)
  BY <1>3, OnlyExcuse
<1> QED
  BY <1>1, <1>2, <1>3, <1>4, <1>5, <1>6

(* An outcome that leaves its resource settled keeps the invariant.          *)
LEMMA OutcomeQuiet ==
    ASSUME ReplayInv, QuietInv, NEW x \in Request, Outcome(x), NEW r, r = req[x].res,
           Elsewhere(r), Settled(r)',
           \A k \in Kinds : claim'[k] \in {claim[k], None},
           WaitsNative(x) => claim'[Kind(r)] = claim[Kind(r)],
           \A w \in late' : w \in late \/ (w.by = x /\ w.res = r /\ w.side = "workos")
    PROVE  QuietInv'
<1>1. LiveEffect(x) /\ Busy(x) /\ req'[x].pc = "done"
  BY OutcomeDoes
<1>2. Alone(x, r)
  BY <1>1, BusyAlone DEF Busy
<1>3. Leaves(x, r)
  BY <1>1 DEF Leaves, Busy
<1> QED
  BY <1>1, <1>2, <1>3, LiveQuiet

LEMMA FinishUpdateQuiet ==
    ASSUME ReplayInv, QuietInv, NEW x \in Request, FinishUpdate(x)
    PROVE  QuietInv'
<1> PICK r : r = req[x].res
  OBVIOUS
<1>1. Outcome(x) /\ req[x].op \in {"replace", "patch"}
  BY DEF Outcome, FinishUpdate, LegsDone, InLegs
<1>2. /\ TypeOK /\ r \in Resource /\ Owned(x) /\ Settled(r) /\ native' = native
      /\ Stuck(Kind(r)) => Stuck(Kind(r))'
      /\ Lost(r) => Stuck(Kind(r))
  BY <1>1, OutcomeDoes DEF Excuses
<1>3. workos' = workos /\ late' = late /\ claim' = claim /\ mapped' = mapped
  BY DEF FinishUpdate, store, upstream
<1>4. CASE UNCHANGED ledger /\ UNCHANGED told
  <2>1. gap' = gap /\ told' = told
    BY <1>4 DEF ledger
  <2>2. Elsewhere(r) /\ Settled(r)'
    BY <1>2, <1>3, <2>1 DEF Elsewhere, Settled, Lost, Kind
  <2> QED
    BY <1>1, <1>3, <2>2, OutcomeQuiet
<1>5. CASE WorkosSettled(x) /\ Record(r, "write") /\ UNCHANGED told
  <2>1. gap'[r] = "write" /\ \A s \in Resource \ {r} : gap'[s] = gap[s]
    BY <1>2, <1>5, RecordDoes
  <2>2. told[r] # "success" /\ (workos[r] = None => Stuck(Kind(r)))
    BY <1>1, <1>2, <1>5 DEF Owned
  <2>3. Elsewhere(r) /\ Settled(r)'
    BY <1>2, <1>3, <1>5, <2>1, <2>2 DEF Elsewhere, Settled, Lost, Kind
  <2> QED
    BY <1>1, <1>3, <2>3, OutcomeQuiet
<1>6. CASE NativeSettled(x) /\ WorkosSettled(x) /\ Clear(r) /\ Succeeds(x)
  <2>1. gap'[r] = "none" /\ \A s \in Resource \ {r} : gap'[s] = gap[s]
    BY <1>2, <1>6, ClearDoes
  <2>2. /\ told'[r] = "success" => told[r] \in {"success", "nothing"}
        /\ \A s \in Resource \ {r} : told'[s] = told[s]
    BY <1>2, <1>6, SucceedsDoes
  <2>3. told'[r] = "success" => native[r] = workos[r]
    BY <1>2, <1>6, <2>2 DEF Owned, NativeSettled, WorkosSettled
  <2>4. Elsewhere(r) /\ Settled(r)'
    BY <1>2, <1>3, <1>6, <2>1, <2>2, <2>3 DEF Elsewhere, Settled, Lost
  <2> QED
    BY <1>1, <1>3, <2>4, OutcomeQuiet
<1> QED
  BY <1>4, <1>5, <1>6 DEF FinishUpdate, RecordIf

LEMMA FinishDeleteQuiet ==
    ASSUME ReplayInv, QuietInv, NEW x \in Request, FinishDelete(x)
    PROVE  QuietInv'
<1> PICK r : r = req[x].res
  OBVIOUS
<1>1. Outcome(x) /\ req[x].op = "delete"
  BY DEF Outcome, FinishDelete, LegsDone, InLegs
<1>2. /\ TypeOK /\ r \in Resource /\ Owned(x) /\ Settled(r) /\ native' = native
      /\ Stuck(Kind(r)) => Stuck(Kind(r))'
      /\ claim[Kind(r)] = x /\ req'[x].pc = "done" /\ req[x].pc = "legs"
      /\ Lost(r) => Stuck(Kind(r)) \/ Excuses(x, r)
  BY <1>1, OutcomeDoes DEF Claims
<1>3. /\ workos' = workos /\ late' = late /\ ~WaitsNative(x)
      /\ \A k \in Kinds : claim'[k] \in {claim[k], None}
  BY <1>1 DEF FinishDelete, Released, upstream, WaitsNative
<1>4. claim' = claim => Stuck(Kind(r))'
  BY <1>2, EndStuck, KindIs
<1>5. CASE UNCHANGED <<ledger, mapped, told>> /\
           (claim' = claim \/ (CanRelease(x) /\ (NativeSettled(x) \/ req[x].workos # "ok")
                                             /\ ~(NativeSettled(x) /\ WorkosSettled(x))))
  <2>1. gap' = gap /\ told' = told /\ mapped' = mapped
    BY <1>5 DEF ledger
  <2>2. Lost(r) => Stuck(Kind(r))'
    BY <1>1, <1>2, <1>4, <1>5 DEF Excuses, CanRelease, WorkosSettled
  <2>3. Elsewhere(r) /\ Settled(r)'
    BY <1>2, <1>3, <2>1, <2>2 DEF Elsewhere, Settled, Lost, Kind
  <2> QED
    BY <1>1, <1>3, <2>3, OutcomeQuiet
<1>6. CASE Record(r, "delete") /\ UNCHANGED <<mapped, told>>
  <2>1. gap'[r] = "delete" /\ \A s \in Resource \ {r} : gap'[s] = gap[s]
    BY <1>2, <1>6, RecordDoes
  <2>2. told[r] # "success" /\ r \in mapped
    BY <1>1, <1>2 DEF Owned
  <2>3. Elsewhere(r) /\ Settled(r)'
    BY <1>2, <1>3, <1>6, <2>1, <2>2 DEF Elsewhere, Settled, Lost
  <2> QED
    BY <1>1, <1>3, <2>3, OutcomeQuiet
<1>7. CASE NativeSettled(x) /\ WorkosSettled(x) /\ Clear(r) /\ Succeeds(x) /\ mapped' = mapped \ {r}
  <2>1. gap'[r] = "none" /\ \A s \in Resource \ {r} : gap'[s] = gap[s]
    BY <1>2, <1>7, ClearDoes
  <2>2. /\ told'[r] = "success" => told[r] \in {"success", "nothing"}
        /\ \A s \in Resource \ {r} : told'[s] = told[s]
    BY <1>2, <1>7, SucceedsDoes
  <2>3. told'[r] = "success" => native[r] = workos[r]
    BY <1>2, <1>7, <2>2 DEF Owned, NativeSettled, WorkosSettled
  <2>4. Elsewhere(r) /\ Settled(r)'
    BY <1>2, <1>3, <1>7, <2>1, <2>2, <2>3 DEF Elsewhere, Settled, Lost
  <2> QED
    BY <1>1, <1>3, <2>4, OutcomeQuiet
<1> QED
  BY <1>5, <1>6, <1>7 DEF FinishDelete, RecordIf

LEMMA CreateLandsQuiet ==
    ASSUME ReplayInv, QuietInv, NEW x \in Request, CreateLands(x)
    PROVE  QuietInv'
<1> PICK r : r = req[x].res
  OBVIOUS
<1>1. Outcome(x) /\ req[x].op = "create" /\ NativeNamed(x) /\ WorkosSettled(x) /\ Clear(r)
  BY DEF Outcome, CreateLands, LegsDone, InLegs
<1>2. /\ TypeOK /\ r \in Resource /\ Owned(x) /\ Settled(r) /\ native' = native
  BY <1>1, OutcomeDoes
<1>3. /\ workos' = workos /\ late' = late /\ mapped' = mapped \cup {r}
      /\ \A k \in Kinds : claim'[k] \in {claim[k], None}
  BY DEF CreateLands, Released, upstream
<1>4. ~WaitsNative(x)
  BY <1>1 DEF WaitsNative, NativeNamed
<1>5. gap'[r] = "none" /\ \A s \in Resource \ {r} : gap'[s] = gap[s]
  BY <1>1, <1>2, ClearDoes
<1>6. /\ told'[r] = "success" => told[r] = "success" \/ (told[r] = "nothing" /\ req[x].native = "ok")
      /\ \A s \in Resource \ {r} : told'[s] = told[s]
  BY <1>2, SucceedsDoes DEF CreateLands
<1>7. told'[r] = "success" => native[r] = workos[r]
  BY <1>1, <1>2, <1>6 DEF Owned, WorkosSettled
<1>8. Elsewhere(r) /\ Settled(r)'
  BY <1>2, <1>3, <1>5, <1>6, <1>7 DEF Elsewhere, Settled, Lost
<1> QED
  BY <1>1, <1>3, <1>4, <1>8, OutcomeQuiet

LEMMA CreateFailsQuiet ==
    ASSUME ReplayInv, QuietInv, NEW x \in Request, CreateFails(x)
    PROVE  QuietInv'
<1> PICK r : r = req[x].res
  OBVIOUS
<1>1. Outcome(x) /\ req[x].op = "create"
  BY DEF Outcome, CreateFails, LegsDone, InLegs
<1>2. /\ TypeOK /\ r \in Resource /\ Owned(x) /\ Settled(r) /\ native' = native
      /\ Stuck(Kind(r)) => Stuck(Kind(r))'
      /\ claim[Kind(r)] = x /\ req'[x].pc = "done"
      /\ Lost(r) => Stuck(Kind(r)) \/ Excuses(x, r)
  BY <1>1, OutcomeDoes DEF Claims
<1>3. /\ workos' = workos /\ late' = late /\ mapped' = mapped /\ told' = told
      /\ \A k \in Kinds : claim'[k] \in {claim[k], None}
      /\ claim' = claim \/ (req[x].native = "rejected" /\ WorkosUntouched(x))
  BY DEF CreateFails, Released, upstream
<1>4. WaitsNative(x) => claim' = claim
  BY <1>3 DEF WaitsNative
<1>5. claim' = claim => Stuck(Kind(r))'
  BY <1>2, EndStuck, KindIs
<1>6. CASE UNCHANGED ledger
  <2>1. gap' = gap
    BY <1>6 DEF ledger
  <2>2. Lost(r) => Stuck(Kind(r))'
    BY <1>1, <1>2, <1>3, <1>5 DEF Excuses
  <2>3. Elsewhere(r) /\ Settled(r)'
    BY <1>2, <1>3, <2>1, <2>2 DEF Elsewhere, Settled, Lost, Kind
  <2> QED
    BY <1>1, <1>3, <1>4, <2>3, OutcomeQuiet
<1>7. CASE WorkosSettled(x) /\ Record(r, "write")
  <2>1. gap'[r] = "write" /\ \A s \in Resource \ {r} : gap'[s] = gap[s]
    BY <1>2, <1>7, RecordDoes
  <2>2. told[r] # "success" /\ Stuck(Kind(r))'
    BY <1>2, <1>3, <1>5, <1>7 DEF Owned, WorkosUntouched, WorkosSettled
  <2>3. Elsewhere(r) /\ Settled(r)'
    BY <1>2, <1>3, <2>1, <2>2 DEF Elsewhere, Settled, Lost, Kind
  <2> QED
    BY <1>1, <1>3, <1>4, <2>3, OutcomeQuiet
<1> QED
  BY <1>6, <1>7 DEF CreateFails, RecordIf

LEMMA CompensatesQuiet ==
    ASSUME ReplayInv, QuietInv, NEW x \in Request, Compensate(x) \/ CompensateFails(x)
    PROVE  QuietInv'
<1> PICK r : r = req[x].res
  OBVIOUS
<1>1. Outcome(x) /\ req[x].op = "create" /\ ~WaitsNative(x)
  BY DEF Outcome, Compensate, CompensateFails, LegsDone, InLegs, WaitsNative
<1>2. /\ TypeOK /\ r \in Resource /\ Owned(x) /\ Settled(r) /\ native' = native
      /\ claim[Kind(r)] = x /\ req'[x].pc = "done"
  BY <1>1, OutcomeDoes DEF Claims
<1>3. /\ mapped' = mapped /\ told' = told
      /\ \A k \in Kinds : claim'[k] \in {claim[k], None}
      /\ \A w \in late' : w \in late \/ (w.by = x /\ w.res = r /\ w.side = "workos")
  BY DEF Compensate, CompensateFails, Released, Unanswered, store
<1>4. told[r] # "success"
  BY <1>2 DEF Owned
<1>5. CASE Compensate(x)
  <2>1. gap'[r] = "none" /\ \A s \in Resource \ {r} : gap'[s] = gap[s]
    BY <1>2, <1>5, ClearDoes DEF Compensate
  <2>2. \A s \in Resource \ {r} : workos'[s] = workos[s]
    BY <1>2, <1>5 DEF Compensate, TypeOK
  <2>3. Elsewhere(r) /\ Settled(r)'
    BY <1>2, <1>3, <1>4, <2>1, <2>2 DEF Elsewhere, Settled, Lost
  <2> QED
    BY <1>1, <1>3, <2>3, OutcomeQuiet
<1>6. CASE CompensateFails(x)
  <2>1. gap'[r] = "write" /\ \A s \in Resource \ {r} : gap'[s] = gap[s]
    BY <1>2, <1>6, RecordDoes DEF CompensateFails
  <2>2. workos' = workos /\ claim' = claim
    BY <1>6 DEF CompensateFails, store
  <2>3. Stuck(Kind(r))'
    BY <1>2, <2>2, EndStuck, KindIs
  <2>4. Elsewhere(r) /\ Settled(r)'
    BY <1>2, <1>3, <1>4, <2>1, <2>2, <2>3 DEF Elsewhere, Settled, Lost, Kind
  <2> QED
    BY <1>1, <1>3, <2>4, OutcomeQuiet
<1> QED
  BY <1>5, <1>6

LEMMA LiveStepQuiet ==
    ASSUME Serialized, Quiesced, ReplayInv, QuietInv, NEW x \in Request, LiveStep(x)
    PROVE  QuietInv'
BY ReceiveQuiet, BeforeLegsQuiet, NativeQuiet, WorkosQuiet, FinishUpdateQuiet, FinishDeleteQuiet,
   CreateLandsQuiet, CreateFailsQuiet, CompensatesQuiet
DEF LiveStep

-----------------------------------------------------------------------------
(* Runs. *)

Calm == (\A x \in Request : ~Busy(x)) /\ (\A w \in late : w.by \in Run)

(* Whoever moves, a run does so on a quiet directory.                        *)
LEMMA RunsCalmly ==
    ASSUME Quiesced, QuietInv, NEW q \in Run, RunStep(q), ~StartRefused(q)
    PROVE  Calm
<1>1. CASE StartRun(q)
  BY <1>1 DEF StartRun, Calm
<1>2. CASE ~StartRun(q)
  <2>1. Active(q)
    BY <1>2 DEF RunStep, ClaimKind, ClaimKindBusy, MapsLoaded, Mark, List, Push, PushSkipped,
                PushRejected, PushUnsure, Pushing, Pushed, AllPushed, Sweep, ReleaseClaims, Throw,
                MayThrow, Unlease, RunDies, Active, Kinds, Marked
  <2> QED
    BY <2>1 DEF QuietInv, Apart, Calm
<1> QED
  BY <1>1, <1>2

(* What a run's step does to everything but the run itself.                  *)
RunTouches(q) ==
    /\ told' = told /\ workos' = workos /\ req' = req /\ mapped \subseteq mapped'
    /\ \A r \in Resource : gap'[r] \in {gap[r], "none"}
    /\ \A k \in Kinds : claim'[k] \in {claim[k], None, q}
    /\ \A r \in Resource : native'[r] = native[r] \/
          (Marked(q) /\ r \in run[q].todo /\ native'[r] = run[q].snap[r])
    /\ \A w \in late' : w \in late \/
          (w.by = q /\ run[q].pc \in {"pushUsers", "pushGroups"} /\ w.res \in run[q].todo)

LEMMA RunTouchesOnly ==
    ASSUME TypeOK, NEW q \in Run, RunStep(q)
    PROVE  RunTouches(q)
<1>1. CASE StartRun(q) \/ StartRefused(q) \/ ClaimKindBusy(q) \/ MapsLoaded(q) \/ Mark(q)
           \/ List(q) \/ Throw(q) \/ Unlease(q) \/ RunDies(q) \/ AllPushed(q)
  BY <1>1 DEF StartRun, StartRefused, ClaimKindBusy, MapsLoaded, Mark, List, Throw, Unlease,
              RunDies, AllPushed, store, ledger, upstream, RunTouches
<1>2. CASE ClaimKind(q)
  BY <1>2 DEF ClaimKind, ledger, upstream, RunTouches, TypeOK
<1>3. CASE ReleaseClaims(q)
  BY <1>3 DEF ReleaseClaims, Released, ledger, upstream, RunTouches
<1>4. CASE Sweep(q)
  BY <1>4 DEF Sweep, Drop, store, ledger, upstream, RunTouches
<1>5. CASE Pushed(q)
  BY <1>5 DEF Pushed, Drop, upstream, RunTouches
<1>6. ASSUME NEW r \in Resource, PushSkipped(q, r) \/ PushRejected(q, r) PROVE RunTouches(q)
  BY <1>6 DEF PushSkipped, PushRejected, store, ledger, upstream, RunTouches
<1>7. ASSUME NEW r \in Resource, Push(q, r) PROVE RunTouches(q)
  <2>1. Marked(q) /\ r \in run[q].todo /\ native' = [native EXCEPT ![r] = run[q].snap[r]]
    BY <1>7 DEF Push, Pushing, Marked
  <2>2. \A s \in Resource : native'[s] = native[s] \/ (s = r /\ native'[s] = run[q].snap[r])
    BY <2>1 DEF TypeOK
  <2> QED
    BY <1>7, <2>1, <2>2 DEF Push, store, ledger, RunTouches
<1>8. ASSUME NEW r \in Resource, PushUnsure(q, r) PROVE RunTouches(q)
  <2>1. \A w \in late' : w \in late \/ (w.by = q /\ w.res = r)
    BY <1>8 DEF PushUnsure, Unanswered
  <2> QED
    BY <1>8, <2>1 DEF PushUnsure, Pushing, store, ledger, RunTouches
<1> QED
  BY <1>1, <1>2, <1>3, <1>4, <1>5, <1>6, <1>7, <1>8 DEF RunStep

(* A run's own claims are no one's loss while it is at work.                 *)
LEMMA RunStuck ==
    ASSUME QuietInv, NEW q \in Run, RunEffect(q), NEW k \in Kinds, Stuck(k),
           Active(q) \/ run[q].pc = "idle"
    PROVE  Stuck(k)'
<1>1. claim[k] # q /\ claim[k] # None
  BY DEF Stuck, AtWork, QuietInv, Begun
<1>2. claim'[k] = claim[k]
  BY <1>1 DEF RunEffect
<1>3. req' = req /\ \A p \in Run \ {q} : run'[p] = run[p]
  BY DEF RunEffect, Turns, OthersUnrun
<1> QED
  BY <1>1, <1>2, <1>3 DEF Stuck, AtWork, Busy, Active

LEMMA RunQuiet ==
    ASSUME ReplayInv, QuietInv, Calm, NEW q \in Run, RunEffect(q), RunTouches(q),
           Active(q) \/ run[q].pc = "idle", run'[q].pc # "idle", Replayed(q)'
    PROVE  QuietInv'
<1>1. /\ req' = req /\ workos' = workos /\ told' = told /\ mapped \subseteq mapped'
      /\ \A p \in Run \ {q} : run'[p] = run[p]
      /\ q # None /\ q \notin Request
  BY LedgerFacts DEF RunEffect, Turns, OthersUnrun, RunTouches
<1>2. \A x \in Request : ~Busy(x) /\ ~Busy(x)'
  BY <1>1 DEF Calm, Busy
<1>3. Begun'
  <2>1. ASSUME NEW k \in Kinds PROVE
            /\ claim'[k] \in Request => req'[claim'[k]].pc # "idle"
            /\ claim'[k] \in Run => run'[claim'[k]].pc # "idle"
    <3>1. claim'[k] \in {claim[k], None, q}
      BY DEF RunTouches
    <3>2. CASE claim'[k] = q
      BY <1>1, <3>2
    <3>3. CASE claim'[k] = None
      BY <3>3, LedgerFacts
    <3>4. CASE claim'[k] = claim[k] /\ claim'[k] # q
      BY <1>1, <3>4 DEF QuietInv, Begun
    <3> QED
      BY <3>1, <3>2, <3>3, <3>4
  <2> QED
    BY <2>1 DEF Begun
<1>4. \A w \in late' : w.by \in Run
  BY DEF Calm, RunTouches
<1>5. OneWriter' /\ Apart' /\ LateOwn' /\ LatePostHeld'
  BY <1>1, <1>2, <1>4, LedgerFacts DEF OneWriter, Apart, LateOwn, LatePostHeld
<1>6. LatePush'
  BY <1>1, LedgerFacts DEF QuietInv, LatePush, RunTouches, ReplayInv, ListedStands
<1>7. \A x \in Request : Busy(x)' => Owned(x)'
  BY <1>2
<1>8. ASSUME NEW r \in Resource PROVE Settled(r)'
  <2>1. Settled(r) /\ gap'[r] \in {gap[r], "none"}
    BY DEF QuietInv, RunTouches
  <2>2. native'[r] = native[r] \/ (native'[r] = workos[r] /\ workos[r] # None)
    <3>1. CASE Marked(q) /\ r \in run[q].todo /\ native'[r] = run[q].snap[r]
      <4>1. run[q].snap[r] = workos[r]
        BY <3>1 DEF QuietInv, Replayed
      <4>2. run[q].snap[r] # None
        BY <3>1 DEF ReplayInv, Sound, Snapped
      <4> QED
        BY <3>1, <4>1, <4>2
    <3> QED
      BY <3>1 DEF RunTouches
  <2>3. Lost(r)' => Lost(r)
    BY <1>1, <2>1, <2>2 DEF Lost
  <2>4. Lost(r) => Stuck(Kind(r))
    BY <1>2, <2>1 DEF Settled, Excuses
  <2>5. Stuck(Kind(r)) => Stuck(Kind(r))'
    BY RunStuck, KindIs
  <2> QED
    BY <1>1, <2>1, <2>2, <2>3, <2>4, <2>5 DEF Settled, Kind
<1>9. ASSUME NEW p \in Run PROVE Replayed(p)'
  <2>1. CASE p = q
    BY <2>1
  <2>2. CASE p # q
    <3>1. run'[p] = run[p] /\ Replayed(p)
      BY <1>1, <2>2 DEF QuietInv
    <3>2. Marked(p) => ~Marked(q)
      BY <2>2 DEF ReplayInv, RunHolds, Replaying, Kinds
    <3>3. CASE ~Marked(p)
      BY <3>1, <3>3 DEF Replayed, Hand, Marked
    <3>4. CASE Marked(p)
      <4>1. \A r \in Resource : native'[r] = native[r] /\ workos'[r] = workos[r]
        BY <1>1, <3>2, <3>4 DEF RunTouches
      <4>2. \A w \in late' : w.by = p => w \in late
        BY <2>2 DEF RunTouches
      <4>3. run[p] \in Replay
        BY DEF ReplayInv, Sound, TypeOK
      <4>4. run[p].todo \subseteq Resource /\ (run[p].doing # None => run[p].doing \in Resource)
            /\ Shot(p) \subseteq Resource
        BY <4>3 DEF Replay, Shot, OfKind
      <4>5. Shot(p)' = Shot(p) /\ Hand(p)' = Hand(p)
        BY <3>1 DEF Shot, Hand
      <4> QED
        BY <3>1, <3>4, <4>1, <4>2, <4>4, <4>5 DEF Replayed, Marked
    <3> QED
      BY <3>3, <3>4
  <2> QED
    BY <2>1, <2>2
<1> QED
  BY <1>3, <1>5, <1>6, <1>7, <1>8, <1>9 DEF QuietInv

(* A run that is refused touches nothing but itself.                         *)
LEMMA RefusedQuiet ==
    ASSUME ReplayInv, QuietInv, NEW q \in Run, StartRefused(q)
    PROVE  QuietInv'
<1>1. TypeOK /\ run[q].pc = "idle" /\ Over(q)
  BY DEF ReplayInv, Sound, StartRefused
<1>2. run'[q].pc = "done" /\ \A p \in Run \ {q} : run'[p] = run[p]
  BY <1>1, OverDoes DEF OthersUnrun
<1>3. /\ claim' = claim /\ mapped' = mapped /\ gap' = gap /\ native' = native /\ workos' = workos
      /\ late' = late /\ req' = req /\ told' = told
  BY DEF StartRefused, store, upstream
<1>4. \A p \in Run : Active(p)' <=> Active(p)
  BY <1>1, <1>2 DEF Active
<1>5. \A k \in Kinds : Stuck(k)' <=> Stuck(k)
  BY <1>3, <1>4 DEF Stuck, AtWork, Busy
<1>6. Begun'
  <2>1. \A k \in Kinds : claim'[k] \in Run => run'[claim'[k]].pc # "idle"
    BY <1>2, <1>3 DEF QuietInv, Begun
  <2>2. \A k \in Kinds : claim'[k] \in Request => req'[claim'[k]].pc # "idle"
    BY <1>3 DEF QuietInv, Begun
  <2> QED
    BY <2>1, <2>2 DEF Begun
<1>7. OneWriter' /\ Apart' /\ LateOwn' /\ LatePostHeld' /\ LatePush'
  BY <1>3, <1>4
  DEF QuietInv, OneWriter, Apart, LateOwn, LatePostHeld, LatePush, WaitsNative, Busy
<1>8. \A x \in Request : Busy(x)' => Owned(x)'
  BY <1>3, <1>5, KindIs
  DEF QuietInv, Owned, Busy, Sets, WorkosSettled, NativeNamed, Kind
<1>9. \A r \in Resource : Settled(r)'
  BY <1>3, <1>5, KindIs DEF QuietInv, Settled, Lost, Excuses, Busy, Kind
<1>10. ASSUME NEW p \in Run PROVE Replayed(p)'
  <2>1. CASE p = q
    <3> DEFINE c == [Unrun EXCEPT !.pc = "done"]
    <3>1. run'[q] = c
      BY <1>1 DEF Over, TypeOK
    <3>2. c.pc = "done" /\ ~c.unresolved
      BY DEF Unrun
    <3> HIDE DEF c
    <3> QED
      BY <2>1, <3>1, <3>2 DEF Replayed, Marked, Early
  <2>2. CASE p # q
    BY <1>2, <1>3, <2>2 DEF QuietInv, Replayed, Marked, Hand, Shot
  <2> QED
    BY <2>1, <2>2
<1> QED
  BY <1>6, <1>7, <1>8, <1>9, <1>10 DEF QuietInv

(* What a run knows of its listing, step by step.                            *)
LEMMA OverReplayed ==
    ASSUME TypeOK, NEW q \in Run, Unlease(q) \/ RunDies(q)
    PROVE  Replayed(q)' /\ run'[q].pc = "done"
<1> DEFINE c == [Unrun EXCEPT !.pc = "done"]
<1>1. run'[q] = c
  BY DEF Unlease, RunDies, Over, TypeOK
<1>2. c.pc = "done" /\ ~c.unresolved
  BY DEF Unrun
<1> HIDE DEF c
<1> QED
  BY <1>1, <1>2 DEF Replayed, Marked, Early

(* A step that only moves its counter, and where it may move it.             *)
LEMMA GoesReplayed ==
    ASSUME ReplayInv, QuietInv, NEW q \in Run, NEW p \in RunPcs, Goes(q, p),
           native' = native, workos' = workos, late' = late,
           \/ p \notin Early \cup {"listUsers", "pushUsers", "listGroups", "pushGroups", "sweep"}
           \/ run[q].pc \in Early /\ p \in Early
           \/ run[q].pc = "mark" /\ p = "listUsers"
           \/ /\ run[q].todo = {} /\ run[q].doing = None
              /\ \/ run[q].pc = "pushUsers" /\ p = "listGroups"
                 \/ run[q].pc = "pushGroups" /\ p = "sweep"
    PROVE  Replayed(q)'
<1>1. /\ run'[q].pc = p
      /\ run'[q].snap = run[q].snap /\ run'[q].todo = run[q].todo
      /\ run'[q].doing = run[q].doing /\ run'[q].clean = run[q].clean
      /\ run'[q].unresolved = run[q].unresolved
  BY GoesDoes DEF ReplayInv, Sound
<1>2. Replayed(q) /\ Hand(q)' = Hand(q)
  BY <1>1 DEF QuietInv, Hand
<1>3. CASE p \notin Early \cup {"listUsers", "pushUsers", "listGroups", "pushGroups", "sweep"}
  BY <1>1, <1>2, <1>3 DEF Replayed, Marked
<1>4. CASE run[q].pc \in Early /\ p \in Early
  BY <1>1, <1>2, <1>4 DEF Replayed, Marked, Early
<1>5. CASE run[q].pc = "mark" /\ p = "listUsers"
  <2>1. Hand(q) = {} /\ (run[q].unresolved => ~run[q].clean)
    BY <1>2, <1>5 DEF Replayed, Early
  <2>2. run[q].todo = {} /\ run[q].doing = None
    BY <2>1 DEF Hand
  <2>3. \A w \in late : w.by # q
    BY <1>5 DEF ReplayInv, LateReplayHeld, Marked
  <2>4. Shot(q)' = {}
    BY <1>1, <1>5 DEF Shot
  <2> QED
    BY <1>1, <1>2, <1>5, <2>1, <2>2, <2>3, <2>4 DEF Replayed, Marked, Early
<1>6. CASE /\ run[q].todo = {} /\ run[q].doing = None
           /\ \/ run[q].pc = "pushUsers" /\ p = "listGroups"
              \/ run[q].pc = "pushGroups" /\ p = "sweep"
  <2>1. Hand(q) = {} /\ Marked(q) /\ Shot(q)' = Shot(q)
    BY <1>1, <1>6 DEF Hand, Marked, Shot
  <2>2. /\ run[q].unresolved => ~run[q].clean
        /\ run[q].clean => \A r \in Shot(q) : workos[r] # None => native[r] = workos[r]
        /\ \A w \in late : w.by = q => w.res \in Shot(q)
    BY <1>2, <1>6, <2>1 DEF Replayed
  <2>3. run'[q].pc \in {"listGroups", "sweep"}
    BY <1>1, <1>6
  <2>4. run'[q].todo = {} /\ run'[q].doing = None /\ Hand(q)' = {}
    BY <1>1, <1>2, <1>6, <2>1
  <2> QED
    BY <1>1, <2>1, <2>2, <2>3, <2>4 DEF Replayed, Early
<1> QED
  BY <1>3, <1>4, <1>5, <1>6

LEMMA ListReplayed ==
    ASSUME ReplayInv, QuietInv, NEW q \in Run, List(q)
    PROVE  Replayed(q)'
<1>1. TypeOK /\ run[q] \in Replay /\ run[q].pc \in {"listUsers", "listGroups"}
  BY DEF ReplayInv, Sound, TypeOK, List
<1>2. PICK rs \in SUBSET {r \in OfKind(Listed(q)) : workos[r] # None} :
          run' = [run EXCEPT ![q] = [run[q] EXCEPT
                     !.pc = IF @ = "listUsers" THEN "pushUsers" ELSE "pushGroups",
                     !.snap = [r \in Resource |-> IF r \in rs THEN workos[r] ELSE @[r]],
                     !.todo = rs,
                     !.clean = @ /\ Complete(Listed(q), rs)]]
  BY DEF List
<1> DEFINE next == IF run[q].pc = "listUsers" THEN "pushUsers" ELSE "pushGroups"
           snap == [r \in Resource |-> IF r \in rs THEN workos[r] ELSE run[q].snap[r]]
           clean == run[q].clean /\ Complete(Listed(q), rs)
           c == [run[q] EXCEPT !.pc = next, !.snap = snap, !.todo = rs, !.clean = clean]
<1>3. run'[q] = c
  BY <1>1, <1>2 DEF TypeOK
<1>4. /\ c.pc = next /\ c.todo = rs /\ c.snap = snap /\ c.clean = clean
      /\ c.unresolved = run[q].unresolved /\ c.doing = run[q].doing
  <2> HIDE DEF next, snap, clean
  <2> QED
    BY <1>1 DEF Replay
<1>5. rs \subseteq OfKind(Listed(q)) /\ rs \subseteq Resource
  BY DEF OfKind
<1>6. \A r \in rs : snap[r] = workos[r]
  BY <1>5
<1>7. clean => run[q].clean /\ \A r \in OfKind(Listed(q)) : workos[r] # None => r \in rs
  BY DEF Complete
<1> HIDE DEF c, snap, clean, next
<1>8. /\ run'[q].pc = next /\ run'[q].todo = rs /\ run'[q].snap = snap /\ run'[q].clean = clean
      /\ run'[q].unresolved = run[q].unresolved /\ run'[q].doing = run[q].doing
  BY <1>3, <1>4
<1>9. native' = native /\ workos' = workos /\ late' = late
  BY DEF List, upstream
<1>10. Replayed(q) /\ Marked(q) /\ Hand(q) = {}
  BY <1>1 DEF QuietInv, Replayed, Marked
<1>11. run[q].doing = None /\ run[q].todo = {} /\ Hand(q)' = rs
  BY <1>8, <1>10 DEF Hand
<1>12. /\ run[q].unresolved => ~run[q].clean
       /\ run[q].clean => \A r \in Shot(q) : workos[r] # None => native[r] = workos[r]
       /\ \A w \in late : w.by = q => w.res \in Shot(q)
  BY <1>10, <1>11 DEF Replayed
<1>13. CASE run[q].pc = "listUsers"
  <2>1. next = "pushUsers" /\ Listed(q) = "Users" /\ Shot(q) = {}
    BY <1>13 DEF next, Listed, Shot
  <2>2. Shot(q)' = OfKind("Users")
    BY <1>8, <2>1 DEF Shot
  <2>3. run'[q].pc = "pushUsers"
    BY <1>8, <2>1
  <2> QED
    BY <1>5, <1>6, <1>7, <1>8, <1>9, <1>11, <1>12, <2>1, <2>2, <2>3 DEF Replayed, Early
<1>14. CASE run[q].pc = "listGroups"
  <2>1. next = "pushGroups" /\ Listed(q) = "Groups" /\ Shot(q) = OfKind("Users")
    BY <1>14 DEF next, Listed, Shot
  <2>2. Shot(q)' = Resource
    BY <1>8, <2>1 DEF Shot
  <2>3. run'[q].pc = "pushGroups"
    BY <1>8, <2>1
  <2>4. /\ OfKind("Users") \cap OfKind("Groups") = {}
        /\ OfKind("Users") \cup OfKind("Groups") = Resource
    BY DEF OfKind, Kind
  <2> QED
    BY <1>5, <1>6, <1>7, <1>8, <1>9, <1>11, <1>12, <2>1, <2>2, <2>3, <2>4 DEF Replayed, Early
<1> QED
  BY <1>1, <1>13, <1>14

(* Between two pushes: a resource was taken out of hand without a write, and *)
(* the run is no longer clean; or its write was never answered.              *)
LEMMA SkipReplayed ==
    ASSUME ReplayInv, QuietInv, NEW q \in Run, NEW r \in Resource,
           PushSkipped(q, r) \/ PushRejected(q, r) \/ PushUnsure(q, r)
    PROVE  Replayed(q)'
<1>1. /\ TypeOK /\ run[q] \in Replay /\ run[q].pc \in {"pushUsers", "pushGroups"}
      /\ run[q].doing = None /\ r \in run[q].todo
  BY DEF ReplayInv, Sound, TypeOK, PushSkipped, PushRejected, PushUnsure, Pushing
<1>2. /\ run'[q].pc = run[q].pc /\ run'[q].todo = run[q].todo \ {r} /\ run'[q].doing = None
      /\ run'[q].snap = run[q].snap /\ run'[q].clean = FALSE
  <2>1. CASE PushSkipped(q, r)
    <3> DEFINE c == [run[q] EXCEPT !.todo = @ \ {r}, !.clean = FALSE]
    <3>1. run'[q] = c
      BY <1>1, <2>1 DEF PushSkipped, TypeOK
    <3>2. c.pc = run[q].pc /\ c.todo = run[q].todo \ {r} /\ c.doing = None
          /\ c.snap = run[q].snap /\ c.clean = FALSE
      BY <1>1 DEF Replay
    <3> HIDE DEF c
    <3> QED
      BY <3>1, <3>2
  <2>2. CASE PushRejected(q, r) \/ PushUnsure(q, r)
    <3>1. PICK u : run' = [run EXCEPT ![q] = [run[q] EXCEPT
                       !.todo = @ \ {r}, !.clean = FALSE, !.wrote = TRUE, !.unresolved = u]]
      BY <2>2 DEF PushRejected, PushUnsure
    <3> DEFINE c == [run[q] EXCEPT
                       !.todo = @ \ {r}, !.clean = FALSE, !.wrote = TRUE, !.unresolved = u]
    <3>2. run'[q] = c
      BY <1>1, <3>1 DEF TypeOK
    <3>3. c.pc = run[q].pc /\ c.todo = run[q].todo \ {r} /\ c.doing = None
          /\ c.snap = run[q].snap /\ c.clean = FALSE
      BY <1>1 DEF Replay
    <3> HIDE DEF c
    <3> QED
      BY <3>2, <3>3
  <2> QED
    BY <2>1, <2>2
<1>3. workos' = workos /\ \A w \in late' : w \in late \/ (w.by = q /\ w.res = r)
  BY DEF PushSkipped, PushRejected, PushUnsure, Unanswered, upstream
<1>4. Replayed(q) /\ Marked(q) /\ Shot(q)' = Shot(q)
  BY <1>1, <1>2 DEF QuietInv, Marked, Shot
<1>5. Hand(q) = run[q].todo /\ Hand(q)' = run[q].todo \ {r}
  BY <1>1, <1>2 DEF Hand
<1>6. r \in Shot(q)
  <2>1. r \in OfKind(IF run[q].pc = "pushUsers" THEN "Users" ELSE "Groups")
    BY <1>1, <1>4, <1>5 DEF Replayed
  <2> QED
    BY <1>1, <2>1 DEF Shot, OfKind
<1>7. /\ Hand(q) \subseteq OfKind(IF run[q].pc = "pushUsers" THEN "Users" ELSE "Groups")
      /\ \A s \in run[q].todo : run[q].snap[s] = workos[s]
      /\ \A w \in late : w.by = q => w.res \in Shot(q) \ Hand(q)
  BY <1>1, <1>4 DEF Replayed
<1> QED
  BY <1>1, <1>2, <1>3, <1>4, <1>5, <1>6, <1>7 DEF Replayed, Early

LEMMA PushReplayed ==
    ASSUME ReplayInv, QuietInv, NEW q \in Run, NEW r \in Resource, Push(q, r)
    PROVE  Replayed(q)'
<1>1. /\ TypeOK /\ run[q] \in Replay /\ run[q].pc \in {"pushUsers", "pushGroups"}
      /\ run[q].doing = None /\ r \in run[q].todo
  BY DEF ReplayInv, Sound, TypeOK, Push, Pushing
<1> DEFINE c == [run[q] EXCEPT !.doing = r, !.wrote = TRUE]
<1>2. run'[q] = c
  BY <1>1 DEF Push, TypeOK
<1>3. /\ c.pc = run[q].pc /\ c.todo = run[q].todo /\ c.doing = r /\ c.snap = run[q].snap
      /\ c.clean = run[q].clean /\ c.unresolved = run[q].unresolved
  BY <1>1 DEF Replay
<1> HIDE DEF c
<1>4. /\ run'[q].pc = run[q].pc /\ run'[q].todo = run[q].todo /\ run'[q].doing = r
      /\ run'[q].snap = run[q].snap /\ run'[q].clean = run[q].clean
      /\ run'[q].unresolved = run[q].unresolved
  BY <1>2, <1>3
<1>5. Replayed(q) /\ Marked(q) /\ Shot(q)' = Shot(q) /\ Hand(q) = run[q].todo
  BY <1>1, <1>4 DEF QuietInv, Marked, Shot, Hand
<1>6. Hand(q)' = Hand(q)
  BY <1>1, <1>4, <1>5 DEF Hand
<1>7. workos' = workos /\ late' = late
  BY DEF Push
<1>8. native'[r] = workos[r] /\ \A s \in Resource \ {r} : native'[s] = native[s]
  <2>1. run[q].snap[r] = workos[r]
    BY <1>1, <1>5 DEF Replayed
  <2> QED
    BY <1>1, <2>1 DEF Push, TypeOK
<1>9. Shot(q) \subseteq Resource
  BY DEF Shot, OfKind
<1>10. /\ run[q].unresolved => ~run[q].clean
       /\ Hand(q) \subseteq OfKind(IF run[q].pc = "pushUsers" THEN "Users" ELSE "Groups")
       /\ \A s \in run[q].todo : run[q].snap[s] = workos[s]
       /\ run[q].clean => \A s \in Shot(q) : workos[s] # None
                              => s \in run[q].todo \/ native[s] = workos[s]
       /\ \A w \in late : w.by = q => w.res \in Shot(q) \ Hand(q)
  BY <1>1, <1>5 DEF Replayed
<1> QED
  BY <1>1, <1>4, <1>5, <1>6, <1>7, <1>8, <1>9, <1>10 DEF Replayed, Early

LEMMA PushedReplayed ==
    ASSUME ReplayInv, QuietInv, NEW q \in Run, Pushed(q)
    PROVE  Replayed(q)'
<1>1. /\ TypeOK /\ run[q] \in Replay /\ run[q].pc \in {"pushUsers", "pushGroups"}
      /\ run[q].doing # None
  BY DEF ReplayInv, Sound, TypeOK, Pushed
<1> DEFINE c == [run[q] EXCEPT !.todo = @ \ {run[q].doing}, !.doing = None]
<1>2. run'[q] = c
  BY <1>1 DEF Pushed, TypeOK
<1>3. /\ c.pc = run[q].pc /\ c.todo = run[q].todo \ {run[q].doing} /\ c.doing = None
      /\ c.snap = run[q].snap /\ c.clean = run[q].clean /\ c.unresolved = run[q].unresolved
  BY <1>1 DEF Replay
<1> HIDE DEF c
<1>4. /\ run'[q].pc = run[q].pc /\ run'[q].todo = run[q].todo \ {run[q].doing}
      /\ run'[q].doing = None /\ run'[q].snap = run[q].snap /\ run'[q].clean = run[q].clean
      /\ run'[q].unresolved = run[q].unresolved
  BY <1>2, <1>3
<1>5. Replayed(q) /\ Marked(q) /\ Shot(q)' = Shot(q)
  BY <1>1, <1>4 DEF QuietInv, Marked, Shot
<1>6. Hand(q)' \subseteq Hand(q)
  BY <1>4 DEF Hand
<1>7. native' = native /\ workos' = workos /\ late' = late
  BY DEF Pushed, upstream
<1>8. /\ run[q].unresolved => ~run[q].clean
      /\ Hand(q) \subseteq OfKind(IF run[q].pc = "pushUsers" THEN "Users" ELSE "Groups")
      /\ \A s \in run[q].todo : run[q].snap[s] = workos[s]
      /\ native[run[q].doing] = workos[run[q].doing]
      /\ run[q].clean => \A s \in Shot(q) : workos[s] # None
                              => s \in run[q].todo \/ native[s] = workos[s]
      /\ \A w \in late : w.by = q => w.res \in Shot(q) \ Hand(q)
  BY <1>1, <1>5 DEF Replayed
<1> QED
  BY <1>1, <1>4, <1>5, <1>6, <1>7, <1>8 DEF Replayed, Early

LEMMA RunStepQuiet ==
    ASSUME Quiesced, ReplayInv, QuietInv, NEW q \in Run, RunStep(q)
    PROVE  QuietInv'
<1>1. TypeOK /\ RunEffect(q) /\ RunTouches(q)
  BY RunHasEffect, RunTouchesOnly DEF ReplayInv, Sound
<1>2. CASE StartRefused(q)
  BY <1>2, RefusedQuiet
<1>3. CASE ~StartRefused(q)
  <2>1. Calm
    BY <1>3, RunsCalmly
  <2>2. Replayed(q)' /\ run'[q].pc # "idle" /\ (Active(q) \/ run[q].pc = "idle")
    <3>1. CASE Unlease(q) \/ RunDies(q)
      BY <1>1, <3>1, OverReplayed DEF Unlease, RunDies, Active
    <3>2. CASE StartRun(q) \/ ClaimKind(q) \/ ClaimKindBusy(q) \/ MapsLoaded(q) \/ Mark(q)
               \/ AllPushed(q) \/ Sweep(q) \/ ReleaseClaims(q) \/ Throw(q)
      <4>1. native' = native /\ workos' = workos /\ late' = late
        BY <3>2 DEF StartRun, ClaimKind, ClaimKindBusy, MapsLoaded, Mark, AllPushed, Sweep,
                    ReleaseClaims, Throw, upstream
      <4>2. PICK p \in RunPcs \ {"idle"} :
              /\ Goes(q, p)
              /\ \/ p \notin Early \cup {"listUsers", "pushUsers", "listGroups", "pushGroups", "sweep"}
                 \/ run[q].pc \in Early /\ p \in Early
                 \/ run[q].pc = "mark" /\ p = "listUsers"
                 \/ /\ run[q].todo = {} /\ run[q].doing = None
                    /\ \/ run[q].pc = "pushUsers" /\ p = "listGroups"
                       \/ run[q].pc = "pushGroups" /\ p = "sweep"
        <5>1. CASE StartRun(q)
          BY <5>1 DEF StartRun, RunPcs, Early
        <5>2. CASE ClaimKind(q)
          BY <5>2 DEF ClaimKind, RunPcs, Early, Kinds
        <5>3. CASE ClaimKindBusy(q) \/ Throw(q) \/ ReleaseClaims(q)
          BY <5>3 DEF ClaimKindBusy, Throw, ReleaseClaims, RunPcs, Early
        <5>4. CASE MapsLoaded(q) \/ Mark(q)
          BY <5>4 DEF MapsLoaded, Mark, RunPcs, Early
        <5>5. CASE AllPushed(q)
          BY <5>5 DEF AllPushed, RunPcs
        <5>6. CASE Sweep(q)
          BY <5>6 DEF Sweep, RunPcs, Early
        <5> QED
          BY <3>2, <5>1, <5>2, <5>3, <5>4, <5>5, <5>6
      <4>3. Replayed(q)'
        BY <4>1, <4>2, GoesReplayed
      <4>4. run'[q].pc # "idle"
        BY <1>1, <4>2, GoesDoes
      <4>5. run[q].pc = "idle" \/ Active(q)
        BY <3>2 DEF StartRun, ClaimKind, ClaimKindBusy, MapsLoaded, Mark, AllPushed, Sweep,
                    ReleaseClaims, Throw, MayThrow, Marked, Active, Kinds
      <4> QED
        BY <4>3, <4>4, <4>5
    <3>3. CASE List(q)
      <4>1. run'[q].pc # "idle"
        BY <3>3, ListDoes DEF ReplayInv
      <4> QED
        BY <3>3, <4>1, ListReplayed DEF List, Active
    <3>4. CASE \/ Pushed(q)
               \/ \E r \in Resource : Push(q, r) \/ PushSkipped(q, r)
                                    \/ PushRejected(q, r) \/ PushUnsure(q, r)
      <4>1. run'[q].pc = run[q].pc
        BY <3>4, PushDoes DEF ReplayInv
      <4>2. run[q].pc \in {"pushUsers", "pushGroups"}
        BY <3>4 DEF Pushed, Push, PushSkipped, PushRejected, PushUnsure, Pushing
      <4>3. Replayed(q)'
        BY <3>4, PushedReplayed, PushReplayed, SkipReplayed
      <4> QED
        BY <4>1, <4>2, <4>3 DEF Active
    <3> QED
      BY <1>3, <3>1, <3>2, <3>3, <3>4 DEF RunStep
  <2> QED
    BY <1>1, <2>1, <2>2, RunQuiet
<1> QED
  BY <1>2, <1>3

-----------------------------------------------------------------------------
(* A write nobody waits for lands. *)

LEMMA LandsQuiet ==
    ASSUME ReplayInv, QuietInv, LateWrite
    PROVE  QuietInv'
<1>1. PICK w \in late :
          /\ late' = late \ {w}
          /\ native' = IF w.side = "native" THEN Applied(w, native) ELSE native
          /\ workos' = IF w.side = "workos" THEN Applied(w, workos) ELSE workos
          /\ told' = [told EXCEPT ![w.res] = "disturbed"]
  BY DEF LateWrite
<1>2. claim' = claim /\ mapped' = mapped /\ gap' = gap /\ req' = req /\ run' = run
  BY DEF LateWrite, store, ledger
<1>3. TypeOK /\ w \in Write
  BY DEF ReplayInv, Sound, TypeOK
<1> PICK t : t = w.res
  OBVIOUS
<1>4. /\ t \in Resource /\ w.by \in Request \cup Run /\ w.content # None
      /\ w.side \in {"native", "workos"}
  BY <1>3, LedgerFacts DEF Write
<1>5. told'[t] = "disturbed" /\ \A r \in Resource \ {t} : told'[r] = told[r]
  BY <1>1, <1>3, <1>4 DEF TypeOK
<1>6. ASSUME NEW rows \in {native, workos}
      PROVE  /\ \A r \in Resource \ {t} : Applied(w, rows)[r] = rows[r]
             /\ Applied(w, rows)[t] = None /\ rows[t] # None => w.verb = "delete"
             /\ Applied(w, rows)[t] # None /\ rows[t] = None => w.verb = "post"
  <2>1. rows \in [Resource -> Content \cup {None}]
    BY <1>3 DEF TypeOK
  <2> QED
    BY <1>4, <2>1 DEF Applied
<1>7. \A r \in Resource \ {t} : native'[r] = native[r] /\ workos'[r] = workos[r]
  BY <1>1, <1>6
<1>8. workos[t] # None /\ workos'[t] = None => w.side = "workos" /\ w.verb = "delete"
  BY <1>1, <1>6
<1>9. native[t] = None /\ native'[t] # None => w.side = "native" /\ w.verb = "post"
  BY <1>1, <1>6
<1>10. \A k \in Kinds : Stuck(k)' <=> Stuck(k)
  BY <1>2 DEF Stuck, AtWork, Busy, Active
(* A late delete at WorkOS: its claim is stuck, or the delete is at work.    *)
<1>11. ASSUME w.side = "workos", w.verb = "delete"
       PROVE  /\ w.by \in Request /\ claim[Kind(t)] = w.by
              /\ \/ Stuck(Kind(t))
                 \/ Busy(w.by) /\ req[w.by].res = t /\ req[w.by].op = "delete"
                    /\ req[w.by].workos = "unsure"
  <2>1. w.by \in Request
    BY <1>4, <1>11 DEF ReplayInv, LateReplayHeld
  <2>2. claim[Kind(t)] = w.by /\ (req[w.by].pc = "done" \/
            (req[w.by].pc = "legs" /\ req[w.by].op = "delete" /\ req[w.by].workos = "unsure"))
    BY <1>11, <2>1 DEF ReplayInv, LateDeleteHeld
  <2>3. Busy(w.by) => req[w.by].res = t
    BY <2>1 DEF QuietInv, LateOwn
  <2> QED
    BY <2>1, <2>2, <2>3, LedgerFacts DEF Stuck, AtWork, Busy
<1>12. Begun' /\ OneWriter' /\ Apart' /\ LateOwn' /\ LatePostHeld'
  BY <1>1, <1>2
  DEF QuietInv, Begun, OneWriter, Apart, LateOwn, LatePostHeld, WaitsNative, Busy, Active
<1>13. LatePush'
  <2>1. ASSUME NEW v \in late, v.by \in Run PROVE workos'[v.res] # None
    <3>1. workos[v.res] # None /\ v.res \in Resource /\ \A k \in Kinds : claim[k] = v.by
      BY <1>3, <2>1 DEF QuietInv, LatePush, ReplayInv, LateReplayHeld, TypeOK, Write
    <3>2. ~(w.side = "workos" /\ w.verb = "delete")
      BY <1>11, <2>1, <3>1, KindIs, LedgerFacts
    <3> QED
      BY <1>7, <1>8, <3>1, <3>2
  <2> QED
    BY <1>1, <2>1 DEF LatePush
<1>14. ASSUME NEW x \in Request, Busy(x)' PROVE Owned(x)'
  <2>1. Busy(x) /\ Owned(x) /\ req[x].res \in Resource
    BY <1>2, <1>14 DEF Busy, QuietInv, ReplayInv, Sound, Asked
  <2> PICK r : r = req[x].res
    OBVIOUS
  <2>2. CASE r # t
    <3>1. native'[r] = native[r] /\ workos'[r] = workos[r] /\ told'[r] = told[r]
      BY <1>5, <1>7, <2>1, <2>2
    <3> QED
      BY <1>2, <1>10, <2>1, <3>1, KindIs DEF Owned, Sets, WorkosSettled, NativeNamed, Kind
  <2>3. CASE r = t
    <3>1. told'[r] = "disturbed"
      BY <1>5, <2>3
    <3>2. ASSUME req[x].op \in {"replace", "patch"}, WorkosSettled(x)
          PROVE  workos'[r] # None \/ Stuck(Kind(r))
      <4>1. CASE workos[r] # None /\ workos'[r] = None
        <5>1. Busy(w.by) /\ w.by \in Request /\ req[w.by].res = t => w.by = x
          BY <2>1, <2>3 DEF QuietInv, OneWriter
        <5> QED
          BY <1>8, <1>11, <2>3, <3>2, <4>1, <5>1
      <4> QED
        BY <2>1, <3>2, <4>1 DEF Owned
    <3> QED
      BY <1>2, <1>10, <2>1, <3>1, <3>2, KindIs DEF Owned, WorkosSettled, NativeNamed, Kind
  <2> QED
    BY <2>2, <2>3
<1>15. ASSUME NEW r \in Resource PROVE Settled(r)'
  <2>1. Settled(r) /\ \A x \in Request : Excuses(x, r)' <=> Excuses(x, r)
    BY <1>2 DEF QuietInv, Excuses, Busy
  <2>2. CASE r # t
    <3>1. native'[r] = native[r] /\ workos'[r] = workos[r] /\ told'[r] = told[r]
      BY <1>5, <1>7, <2>2
    <3> QED
      BY <1>2, <1>10, <2>1, <3>1, KindIs DEF Settled, Lost, Kind
  <2>3. CASE r = t
    <3>1. told'[r] # "success" /\ (gap'[r] = "delete" => r \in mapped')
      BY <1>2, <1>5, <2>1, <2>3 DEF Settled
    <3>2. ASSUME Lost(r)' PROVE Stuck(Kind(r)) \/ \E x \in Request : Excuses(x, r)
      <4>1. CASE Lost(r)
        BY <2>1, <4>1 DEF Settled
      <4>2. CASE workos[r] # None
        BY <1>8, <1>11, <2>3, <3>2, <4>2 DEF Lost, Excuses
      <4>3. CASE workos[r] = None /\ native[r] = None
        <5>1. w.side = "native" /\ w.verb = "post"
          BY <1>9, <2>3, <3>2, <4>3 DEF Lost
        <5>2. w.by \in Request
          BY <1>4, <2>3, <4>3 DEF QuietInv, LatePush
        <5>3. claim[Kind(t)] = w.by /\ (req[w.by].pc = "done" \/ WaitsNative(w.by))
          BY <5>1, <5>2 DEF QuietInv, LatePostHeld
        <5>4. CASE req[w.by].pc = "done"
          BY <2>3, <5>2, <5>3, <5>4, LedgerFacts DEF Stuck, AtWork, Busy
        <5>5. CASE WaitsNative(w.by)
          <6>1. Busy(w.by) /\ req[w.by].res = t
            BY <5>2, <5>5 DEF QuietInv, LateOwn, WaitsNative, Busy
          <6> QED
            BY <2>3, <5>2, <5>5, <6>1 DEF Excuses, WaitsNative
        <5> QED
          BY <5>3, <5>4, <5>5
      <4> QED
        BY <1>2, <3>2, <4>1, <4>2, <4>3 DEF Lost
    <3> QED
      BY <1>10, <2>1, <3>1, <3>2, KindIs DEF Settled, Kind
  <2> QED
    BY <2>2, <2>3
<1>16. ASSUME NEW q \in Run PROVE Replayed(q)'
  <2>1. Replayed(q) /\ run[q] \in Replay
    BY <1>3 DEF QuietInv, TypeOK
  <2>2. Shot(q)' = Shot(q) /\ Hand(q)' = Hand(q)
    BY <1>2 DEF Shot, Hand
  <2>3. CASE ~Marked(q)
    BY <1>2, <2>1, <2>2, <2>3 DEF Replayed, Marked
  <2>4. CASE Marked(q)
    <3>1. Active(q) /\ \A k \in Kinds : claim[k] = q
      BY <2>4 DEF Marked, Active, ReplayInv, RunHolds, Replaying
    <3>2. w.by \in Run
      BY <3>1 DEF QuietInv, Apart
    <3>3. w.side = "native" /\ w.by = q
      BY <3>1, <3>2 DEF ReplayInv, LateReplayHeld, Kinds
    <3>4. run[q].unresolved
      BY <2>4, <3>3 DEF ReplayInv, LateReplayHeld, Marked
    <3>5. workos' = workos
      BY <1>1, <3>3
    <3>6. t \notin Hand(q) /\ ~run[q].clean
      BY <2>1, <2>4, <3>3, <3>4 DEF Replayed
    <3>7. run[q].doing # None => native'[run[q].doing] = native[run[q].doing]
      BY <1>7, <2>1, <3>6 DEF Hand, Replay
    <3> QED
      BY <1>1, <1>2, <2>1, <2>2, <2>4, <3>5, <3>6, <3>7 DEF Replayed, Marked
  <2> QED
    BY <2>3, <2>4
<1> QED
  BY <1>12, <1>13, <1>14, <1>15, <1>16 DEF QuietInv

-----------------------------------------------------------------------------
(* The invariant is inductive. *)

LEMMA InitQuiet ==
    ASSUME Init
    PROVE  QuietInv
<1>1. /\ \A k \in Kinds : claim[k] = None
      /\ \A x \in Request : req[x].pc = "idle"
      /\ late = {}
      /\ \A q \in Run : run[q] = Unrun
  BY UnaskedTyped DEF Init
<1>2. Begun /\ OneWriter /\ Apart /\ LateOwn /\ LatePostHeld /\ LatePush
  BY <1>1, UnrunTyped, LedgerFacts
  DEF Begun, OneWriter, Apart, LateOwn, LatePostHeld, LatePush, Busy, Active
<1>3. \A x \in Request : ~Busy(x)
  BY <1>1 DEF Busy
<1>4. ASSUME NEW r \in Resource PROVE Settled(r)
  <2>1. Linked(r) \/ Reported(r) \/ Unlinked(r)
    BY DEF Init
  <2>2. told[r] = IF Linked(r) THEN "success" ELSE "nothing"
    BY DEF Init
  <2>3. Before # None
    BY LedgerFacts
  <2> QED
    BY <2>1, <2>2, <2>3 DEF Settled, Lost, Linked, Reported, Unlinked
<1>5. ASSUME NEW q \in Run PROVE Replayed(q)
  <2>1. Unrun.pc = "idle" /\ ~Unrun.unresolved /\ Unrun.todo = {} /\ Unrun.doing = None
    BY DEF Unrun
  <2> QED
    BY <1>1, <2>1 DEF Replayed, Hand, Marked, Early
<1> QED
  BY <1>2, <1>3, <1>4, <1>5 DEF QuietInv

LEMMA NextQuiet ==
    ASSUME Serialized, Quiesced, ReplayInv, QuietInv, [Next]_vars
    PROVE  QuietInv'
<1>1. CASE Next
  BY <1>1, LandsQuiet, LiveStepQuiet, RunStepQuiet DEF Next
<1>2. CASE UNCHANGED vars
  <2>1. /\ claim' = claim /\ mapped' = mapped /\ gap' = gap /\ native' = native /\ workos' = workos
        /\ late' = late /\ req' = req /\ run' = run /\ told' = told
    BY <1>2 DEF vars, store, ledger, upstream
  <2>2. \A x \in Request : Owned(x)' <=> Owned(x)
    BY <2>1 DEF Owned, Sets, WorkosSettled, NativeNamed, Stuck, AtWork, Busy, Active
  <2>3. \A r \in Resource : Settled(r)' <=> Settled(r)
    BY <2>1 DEF Settled, Lost, Excuses, Stuck, AtWork, Busy, Active
  <2>4. \A q \in Run : Replayed(q)' <=> Replayed(q)
    BY <2>1 DEF Replayed, Marked, Hand, Shot
  <2>5. Begun' /\ OneWriter' /\ Apart' /\ LateOwn' /\ LatePostHeld' /\ LatePush'
    BY <2>1
    DEF QuietInv, Begun, OneWriter, Apart, LateOwn, LatePostHeld, LatePush, WaitsNative, Busy, Active
  <2> QED
    BY <2>1, <2>2, <2>3, <2>4, <2>5 DEF QuietInv, Busy
<1> QED
  BY <1>1, <1>2

LEMMA QuietInvariant == Serialized /\ Quiesced /\ Spec => [](ReplayInv /\ QuietInv)
<1>1. Init => ReplayInv /\ QuietInv
  BY InitReplayInv, InitQuiet
<1>2. ASSUME Serialized, Quiesced
      PROVE  ReplayInv /\ QuietInv /\ [Next]_vars => (ReplayInv /\ QuietInv)'
  BY <1>2, NextReplayInv, NextQuiet
<1>3. ASSUME Serialized, Quiesced PROVE Spec => [](ReplayInv /\ QuietInv)
  BY <1>1, <1>2, <1>3, PTL DEF Spec
<1> QED
  BY <1>3

-----------------------------------------------------------------------------
(* What follows from it. *)

(* Where the IdP was told its last write of a resource succeeded, both sides *)
(* show the same until a late write lands there: neither an outcome, nor a   *)
(* crash, nor a replay comes between (docs/architecture.md, mode 3).         *)
THEOREM NativeCurrentAlways == Serialized /\ Quiesced /\ Spec => []NativeCurrent
<1>1. QuietInv => NativeCurrent
  BY DEF QuietInv, Settled, NativeCurrent
<1> QED
  BY <1>1, QuietInvariant, PTL

LEMMA SweepsParity ==
    ASSUME QuietInv, NEW q \in Run, NEW r \in Resource,
           run[q].pc = "sweep", run[q].clean, workos[r] # None
    PROVE  native[r] = workos[r]
<1>1. Replayed(q) /\ Marked(q) /\ Shot(q) = Resource
  BY DEF QuietInv, Marked, Shot
<1>2. run[q].todo = {}
  BY <1>1 DEF Replayed, Hand
<1> QED
  BY <1>1, <1>2 DEF Replayed

(* A clean and complete replay ends in parity: no write, crash or late       *)
(* answer makes native differ from a row the run listed (backfill.ts         *)
(* reconcileFromWorkos, the condition of clearReplayedDivergences).          *)
THEOREM CleanReplayEndsInParity == Serialized /\ Quiesced /\ Spec => []CleanReplayIsParity
<1>1. QuietInv => CleanReplayIsParity
  BY SweepsParity DEF CleanReplayIsParity
<1> QED
  BY <1>1, QuietInvariant, PTL

(* A step that changes a run is that run's own.                              *)
LEMMA OwnTurn ==
    ASSUME ReplayInv, [Next]_vars, NEW q \in Run, run'[q] # run[q]
    PROVE  RunStep(q)
<1>1. CASE LateWrite
  BY <1>1 DEF LateWrite
<1>2. CASE \E x \in Request : LiveStep(x)
  BY <1>2, LiveTyped DEF ReplayInv, Moves
<1>3. ASSUME NEW p \in Run, RunStep(p), p # q PROVE FALSE
  BY <1>3, RunTyped DEF ReplayInv, Turns, OthersUnrun
<1>4. CASE UNCHANGED vars
  BY <1>4 DEF vars
<1> QED
  BY <1>1, <1>2, <1>3, <1>4 DEF Next

(* A run retires only what it repaired.                                      *)
LEMMA RetiresRepaired ==
    ASSUME ReplayInv, QuietInv, NEW q \in Run, RunStep(q), NEW r \in Resource,
           gap[r] = "write", gap'[r] = "none"
    PROVE  native[r] = workos[r]
<1>1. Pushed(q) \/ (Sweep(q) /\ run[q].clean)
  BY DEF RunStep, StartRun, StartRefused, ClaimKind, ClaimKindBusy, MapsLoaded, Mark, List, Push,
         PushSkipped, PushRejected, PushUnsure, AllPushed, Sweep, ReleaseClaims, Throw,
         Unlease, RunDies, ledger
<1>2. CASE Pushed(q)
  <2>1. r = run[q].doing
    BY <1>2 DEF Pushed, Drop
  <2>2. Replayed(q) /\ Marked(q) /\ r # None
    BY <1>2, <2>1 DEF Pushed, Marked, QuietInv
  <2> QED
    BY <2>1, <2>2 DEF Replayed
<1>3. CASE Sweep(q) /\ run[q].clean
  <2>1. run[q].pc = "sweep"
    BY <1>3 DEF Sweep
  <2>2. CASE workos[r] # None
    BY <1>3, <2>1, <2>2, SweepsParity
  <2>3. CASE workos[r] = None
    <3>1. Active(q) /\ \A k \in Kinds : claim[k] = q
      BY <2>1 DEF Active, ReplayInv, RunHolds, Replaying, Marked
    <3>2. ~Stuck(Kind(r))
      BY <3>1, KindIs DEF Stuck, AtWork
    <3>3. \A x \in Request : ~Excuses(x, r)
      BY <3>1 DEF QuietInv, Apart, Excuses
    <3>4. ~Lost(r)
      BY <3>2, <3>3 DEF QuietInv, Settled
    <3> QED
      BY <2>3, <3>4 DEF Lost
  <2> QED
    BY <2>2, <2>3
<1> QED
  BY <1>1, <1>2, <1>3

(* A row saying that native missed a write is retired by a run only when     *)
(* native no longer misses it: by the push of that very resource, or by the  *)
(* sweep of a replay that ended in parity (db.ts clearReplayedDivergences).  *)
THEOREM ReplayRetiresOnlyRepaired == Serialized /\ Quiesced /\ Spec => ReplayRetiresRepaired
<1>1. ASSUME ReplayInv, QuietInv, [Next]_vars
      PROVE  [\A q \in Run, r \in Resource :
                 run'[q] # run[q] /\ gap[r] = "write" /\ gap'[r] = "none"
                    => native[r] = workos[r]]_vars
  BY <1>1, OwnTurn, RetiresRepaired
<1> QED
  BY <1>1, QuietInvariant, PTL DEF Spec, ReplayRetiresRepaired

(* A delete native missed: what a live write may do to its row.              *)
LEMMA LiveKeepsDeleteGap ==
    ASSUME ReplayInv, QuietInv, NEW x \in Request, LiveStep(x), NEW r \in Resource,
           gap[r] = "delete", gap'[r] # "delete"
    PROVE  native'[r] = None \/ workos'[r] # None \/ told[r] = "disturbed"
<1>1. Outcome(x)
  BY DEF LiveStep, Receive, TakeClaim, ClaimBusy, Checked, Refused, Die, NativeApplies,
         NativeAdopts, NativeRejects, NativeUnsure, WorkosApplies, WorkosRecovers, RecoveryUnsure,
         WorkosRejects, WorkosUnsure, ledger, Outcome
<1> PICK s : s = req[x].res
  OBVIOUS
<1>2. /\ TypeOK /\ s \in Resource /\ Owned(x) /\ Settled(r) /\ native' = native
      /\ req[x].pc = "legs"
  BY <1>1, OutcomeDoes DEF QuietInv
<1>3. s = r
  <2>1. UNCHANGED ledger \/ Clear(s) \/ \E method \in {"write", "delete"} : Record(s, method)
    BY <1>1 DEF Outcome, FinishUpdate, FinishDelete, CreateLands, CreateFails, Compensate,
                CompensateFails, RecordIf
  <2> QED
    BY <1>2, <2>1, ClearDoes, RecordDoes DEF ledger
<1>4. r \in mapped /\ told[r] \in {"nothing", "disturbed"}
  BY <1>2, <1>3 DEF Settled, Owned, TypeOK
<1>5. ~(req[x].op = "create" /\ req[x].native = "rejected" /\ req[x].workos = "created")
  BY <1>2, <1>3, <1>4 DEF Owned, NativeNamed
<1>6. workos' = workos
  BY <1>1, <1>5 DEF Outcome, FinishUpdate, FinishDelete, CreateLands, CreateFails, Compensate,
                    CompensateFails, upstream, LegsDone, InLegs
<1>7. \/ WorkosSettled(x) /\ req[x].op # "delete"
      \/ WorkosSettled(x) /\ NativeSettled(x)
  <2>1. ~(UNCHANGED ledger)
    BY DEF ledger
  <2>2. ASSUME Record(s, "delete") PROVE FALSE
    BY <1>2, <1>3, <2>2, RecordDoes
  <2> QED
    BY <1>1, <1>5, <2>1, <2>2
    DEF Outcome, FinishUpdate, FinishDelete, CreateLands, CreateFails, Compensate,
        CompensateFails, RecordIf, LegsDone, InLegs
<1>8. CASE told[r] = "nothing"
  <2>1. workos[r] = Sets(x) /\ (NativeSettled(x) => native[r] = Sets(x))
    BY <1>2, <1>3, <1>7, <1>8 DEF Owned, WorkosSettled, NativeSettled
  <2>2. req[x].op = "delete" => Sets(x) = None
    BY DEF Sets
  <2>3. req[x].op # "delete" => Sets(x) # None
    BY LedgerFacts DEF Sets
  <2> QED
    BY <1>2, <1>6, <1>7, <2>1, <2>2, <2>3
<1> QED
  BY <1>4, <1>8

(* A row saying that native still holds a deleted resource outlives every    *)
(* run, and every write but one that ends it on native or restores it at     *)
(* WorkOS; only a late write at that resource may make it fall in vain.      *)
THEOREM DeleteGapStandsAlways == Serialized /\ Quiesced /\ Spec => DeleteGapStands
<1>1. ASSUME ReplayInv, QuietInv, [Next]_vars
      PROVE  [\A r \in Resource :
                 gap[r] = "delete" /\ gap'[r] # "delete"
                    => native'[r] = None \/ workos'[r] # None \/ told[r] = "disturbed"]_vars
  <2>1. SUFFICES ASSUME NEW r \in Resource, gap[r] = "delete", gap'[r] # "delete"
                 PROVE  native'[r] = None \/ workos'[r] # None \/ told[r] = "disturbed"
    OBVIOUS
  <2>2. ASSUME NEW q \in Run, RunStep(q) PROVE FALSE
    <3>1. gap' = gap \/ \E rs \in SUBSET Retirable(q) : Drop(rs)
      BY <2>2 DEF RunStep, StartRun, StartRefused, ClaimKind, ClaimKindBusy, MapsLoaded, Mark,
             List, Push, PushSkipped, PushRejected, PushUnsure, Pushed, AllPushed, Sweep,
             ReleaseClaims, Throw, Unlease, RunDies, ledger
    <3> QED
      BY <2>1, <3>1 DEF Drop, Retirable
  <2>3. ~LateWrite /\ ~(UNCHANGED vars)
    BY <2>1 DEF LateWrite, vars, ledger
  <2> QED
    BY <1>1, <2>1, <2>2, <2>3, LiveKeepsDeleteGap DEF Next
<1> QED
  BY <1>1, QuietInvariant, PTL DEF Spec, DeleteGapStands
=============================================================================
