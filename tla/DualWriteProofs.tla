---------------------------- MODULE DualWriteProofs ----------------------------
(***************************************************************************)
(* Four results about the model of dual-write, for any number of           *)
(* resources, requests and rows of a page.                                 *)
(*   Where another directory fronts the same native app, what is mapped is *)
(* what was created through this one.  The reason is where a mapping comes *)
(* from: a request gets past Load only as a create, whose resource native  *)
(* has just been given, or with a mapping it already has; and a row of the *)
(* backfill's unscoped listing is written only if it is mapped.            *)
(*   A row of the ledger is closed only for a cause.  That takes all of    *)
(* what a listed resource can have going on: while native has accepted no  *)
(* write of it, a delete that native refuses is the last thing the IdP     *)
(* asks of it, and alone with its row until the gap is closed.             *)
(*   And when nothing is under way both sides hold what the IdP was told,  *)
(* and the panel shows no drift.  ConvInv says what each resource looks    *)
(* like while something is.  TypeOK follows.                               *)
(***************************************************************************)
EXTENDS DualWrite, FiniteSetTheorems, TLAPS

Steps == {"idle", "native", "clear", "load", "put", "post", "reput", "lookup", "sync",
          "record", "patch", "delete", "prune", "retire"}
Dancing == {"put", "post", "reput", "lookup", "sync", "record"}
Requests == [op : Op \cup {None}, res : Res \cup {None},
             val : Flag \cup (SUBSET Users) \cup {None}, mode : Mode \cup {None},
             absent : BOOLEAN]

(* The queue of mappings is some sequence; what is in it is OwnQueued.     *)
Typed ==
    /\ mode \in Mode
    /\ map = [r \in Res |-> map[r]]
    /\ pc \in [Proc -> Steps]
    /\ req = [p \in Proc |-> req[p]]
    /\ \A q \in Req : req[q] \in Requests
    /\ \E S : sink \in Seq(S)

(* A create is of a resource that was not there at first, and native has it   *)
(* once its native leg is over.                                               *)
Created(q) ==
    /\ pc[q] # "idle" /\ req[q].op = "POST" => req[q].res \notin before
    /\ pc[q] \notin {"idle", "native"} /\ req[q].op = "POST" => req[q].res \in ever
HasRes(q) == pc[q] # "idle" => req[q].res \in Res

Requested == before \subseteq ever /\ \A q \in Req : Created(q) /\ HasRes(q)

OwnMapped == \A r \in Res : map[r] # None => r \in Own
OwnDanced == \A q \in Req : pc[q] \in Dancing => req[q].res \in Own
OwnFilled == pc[Filler] # "idle" /\ req[Filler].res \in Res => req[Filler].res \in Own
OwnQueued == \A i \in DOMAIN sink : sink[i][1] \in Res => sink[i][1] \in Own

Scoped == Shared => OwnMapped /\ OwnDanced /\ OwnFilled /\ OwnQueued

Ind == Typed /\ Requested /\ Scoped

-----------------------------------------------------------------------------
(* What the pieces of the actions do *)

LEMMA ProcMembers == Req \subseteq Proc /\ Filler \in Proc /\ Filler \notin Req
BY WorkerAssumption DEF Proc

LEMMA NoReqTyped == NoReq \in Requests
BY DEF NoReq, Requests

LEMMA InitInd == Init => Ind
<1> SUFFICES ASSUME Init PROVE Ind
  OBVIOUS
<1>0. /\ mode = "dual-write" /\ map = [r \in Res |-> None] /\ pc = [p \in Proc |-> "idle"]
      /\ req = [p \in Proc |-> NoReq] /\ sink = <<>> /\ ever = before
  BY DEF Init
<1>1. sink \in Seq({})
  BY <1>0
<1>2. Typed
  BY <1>0, <1>1, NoReqTyped, ProcMembers DEF Typed, Mode, Steps
<1>3. Requested /\ Scoped
  BY <1>0, ProcMembers DEF Requested, Created, HasRes, Scoped, OwnMapped, OwnDanced, OwnFilled,
     OwnQueued, Dancing
<1> QED
  BY <1>2, <1>3 DEF Ind

(* A worker goes on with what it asks for, from one step past the native leg  *)
(* to another, and comes to the dance from nowhere else; or it is done.       *)
GoesOn(p) ==
    \/ pc'[p] = "idle"
    \/ /\ req'[p] = req[p] /\ pc'[p] = pc[p]
    \/ /\ req'[p] = req[p] /\ pc[p] \notin {"idle", "native"} /\ pc'[p] # "native"
       /\ pc'[p] \in Dancing => pc[p] \in Dancing

ShapesStay ==
    /\ pc' \in [Proc -> Steps] /\ req' = [p \in Proc |-> req'[p]]
    /\ \A q \in Req : req'[q] \in Requests

LEMMA GoOnInd ==
    ASSUME Ind, ShapesStay, UNCHANGED setting, mode' \in Mode, ever \subseteq ever',
           \A p \in Proc : GoesOn(p),
           sink' = sink \/ sink' = <<>>,
           map' = [r \in Res |-> map'[r]], \A r \in Res : map'[r] \in {map[r], None}
    PROVE  Ind'
<1>0. before' = before /\ (Shared' <=> Shared) /\ Own \subseteq Own'
  BY DEF setting, Shared, Own
<1>1. \E S : sink' \in Seq(S)
  <2>1. <<>> \in Seq({})
    OBVIOUS
  <2> QED
    BY <2>1 DEF Ind, Typed
<1>2. Typed'
  BY <1>1 DEF Typed, ShapesStay
<1>3. ASSUME NEW q \in Req PROVE Created(q)' /\ HasRes(q)'
  <2>1. GoesOn(q) /\ Created(q) /\ HasRes(q)
    BY ProcMembers DEF Ind, Requested
  <2> QED
    BY <1>0, <2>1 DEF GoesOn, Created, HasRes
<1>4. Requested'
  BY <1>0, <1>3 DEF Ind, Requested
<1>5. ASSUME Shared PROVE (OwnMapped /\ OwnDanced /\ OwnFilled /\ OwnQueued)'
  <2>1. OwnMapped /\ OwnDanced /\ OwnFilled /\ OwnQueued
    BY <1>5 DEF Ind, Scoped
  <2>2. OwnMapped'
    BY <1>0, <2>1 DEF OwnMapped
  <2>3. OwnDanced'
    BY <1>0, <2>1, ProcMembers DEF OwnDanced, GoesOn, Dancing
  <2>4. OwnFilled'
    BY <1>0, <2>1, ProcMembers DEF OwnFilled, GoesOn
  <2>5. OwnQueued'
    BY <1>0, <2>1 DEF OwnQueued
  <2> QED
    BY <2>2, <2>3, <2>4, <2>5
<1>6. Scoped'
  BY <1>0, <1>5 DEF Scoped
<1> QED
  BY <1>2, <1>4, <1>6 DEF Ind

LEMMA ResetDoes ==
    ASSUME Ind, NEW q \in Proc, Reset(q)
    PROVE  ShapesStay /\ \A p \in Proc : GoesOn(p)
<1>1. pc' = [pc EXCEPT ![q] = "idle"] /\ req' = [req EXCEPT ![q] = NoReq]
  BY DEF Reset
<1>2. pc \in [Proc -> Steps] /\ req = [p \in Proc |-> req[p]] /\ \A p \in Req : req[p] \in Requests
  BY DEF Ind, Typed
<1>3. ShapesStay
  BY <1>1, <1>2, NoReqTyped, ProcMembers DEF ShapesStay, Steps
<1> QED
  BY <1>1, <1>2, <1>3 DEF GoesOn

LEMMA StepDoes ==
    ASSUME Ind, NEW q \in Proc, NEW step \in Steps \ {"native"},
           pc' = [pc EXCEPT ![q] = step], UNCHANGED req,
           pc[q] \notin {"idle", "native"}, step \in Dancing => pc[q] \in Dancing
    PROVE  ShapesStay /\ \A p \in Proc : GoesOn(p)
<1>2. pc \in [Proc -> Steps] /\ req = [p \in Proc |-> req[p]] /\ \A p \in Req : req[p] \in Requests
  BY DEF Ind, Typed
<1> QED
  BY <1>2 DEF ShapesStay, GoesOn

(* Actions that write no mapping: a worker steps on or is done.               *)
Plain == UNCHANGED setting /\ mode' = mode /\ ever' = ever /\ sink' = sink /\ map' = map

LEMMA PlainInd ==
    ASSUME Ind, ShapesStay, \A p \in Proc : GoesOn(p), Plain
    PROVE  Ind'
<1>1. /\ UNCHANGED setting /\ mode' \in Mode /\ ever \subseteq ever' /\ sink' = sink
      /\ map' = [r \in Res |-> map'[r]] /\ \A r \in Res : map'[r] \in {map[r], None}
  BY DEF Plain, Ind, Typed
<1> QED
  BY <1>1, GoOnInd

LEMMA DanceInd ==
    ASSUME Ind, NEW q \in Proc, Dance(q)
    PROVE  Ind'
<1>1. PICK step \in Dancing : pc' = [pc EXCEPT ![q] = step]
  BY DEF Dance, PutHits, PutMisses, PostCreates, PostConflicts, Reput, Lookup, Sync, Dancing
<1>2. pc[q] \in Dancing /\ UNCHANGED req /\ Plain
  BY DEF Dance, PutHits, PutMisses, PostCreates, PostConflicts, Reput, Lookup, Sync, Dancing,
     MirrorUnchanged, tables, fill, history, Plain, setting
<1>3. step \in Steps \ {"native"} /\ pc[q] \notin {"idle", "native"}
  BY <1>2 DEF Dancing, Steps
<1> QED
  BY <1>1, <1>2, <1>3, StepDoes, PlainInd

LEMMA QuietInd ==
    ASSUME Ind, NEW q \in Req,
           \/ ClearGap(q) \/ SkipReplace(q) \/ PatchHits(q) \/ PatchAnswerLost(q) \/ DeleteRow(q)
           \/ Retire(q) \/ MirrorFails(q) \/ PruneFails(q)
    PROVE  Ind'
<1>1. Plain
  BY DEF ClearGap, SkipReplace, PatchHits, PatchAnswerLost, DeleteRow, Retire, MirrorFails, PruneFails, Plain,
     MirrorUnchanged, tables, fill, history, setting
<1>2. q \in Proc
  BY ProcMembers
<1>3. ASSUME Reset(q) PROVE Ind'
  BY <1>1, <1>2, <1>3, ResetDoes, PlainInd
<1>4. ASSUME NEW step \in {"load", "prune"}, pc' = [pc EXCEPT ![q] = step], UNCHANGED req,
             pc[q] \notin {"idle", "native"}
      PROVE  Ind'
  <2>1. step \in Steps \ {"native"} /\ step \notin Dancing
    BY DEF Steps, Dancing
  <2> QED
    BY <1>1, <1>2, <1>4, <2>1, StepDoes, PlainInd
<1>5. CASE ClearGap(q) \/ DeleteRow(q)
  BY <1>3, <1>4, <1>5 DEF ClearGap, DeleteRow
<1>6. CASE SkipReplace(q) \/ PatchHits(q) \/ PatchAnswerLost(q) \/ Retire(q) \/ MirrorFails(q) \/ PruneFails(q)
  BY <1>3, <1>6 DEF SkipReplace, PatchHits, PatchAnswerLost, Retire, MirrorFails, PruneFails
<1> QED
  BY <1>5, <1>6

LEMMA PruneInd ==
    ASSUME Ind, NEW q \in Req, PruneMapping(q)
    PROVE  Ind'
<1>1. /\ pc[q] = "prune" /\ UNCHANGED <<setting, mode, ever, sink>>
      /\ map' = [map EXCEPT ![req[q].res] = None] /\ q \in Proc
  BY ProcMembers DEF PruneMapping, fill
<1>2. map = [r \in Res |-> map[r]] /\ mode \in Mode
  BY DEF Ind, Typed
<1>3. map' = [r \in Res |-> map'[r]] /\ \A r \in Res : map'[r] \in {map[r], None}
  BY <1>1, <1>2
<1>4. ShapesStay /\ \A p \in Proc : GoesOn(p)
  <2>1. CASE Reset(q)
    BY <1>1, <2>1, ResetDoes
  <2>2. CASE pc' = [pc EXCEPT ![q] = "retire"] /\ UNCHANGED req
    BY <1>1, <2>2, StepDoes DEF Steps, Dancing
  <2> QED
    BY <2>1, <2>2 DEF PruneMapping
<1> QED
  BY <1>1, <1>2, <1>3, <1>4, GoOnInd

-----------------------------------------------------------------------------
(* A request comes in, and gets past the native leg and Load *)

LEMMA ReceiveInd ==
    ASSUME Ind, NEW q \in Req, NEW op \in Op, NEW r \in Res,
           NEW v \in (IF r \in Users THEN Flag ELSE SUBSET Users), Receive(q, op, r, v)
    PROVE  Ind'
<1> DEFINE rq == [op |-> op, res |-> r, val |-> v, mode |-> mode, absent |-> FALSE]
<1>0. /\ mode \in Mode /\ pc \in [Proc -> Steps] /\ req = [p \in Proc |-> req[p]]
      /\ \A p \in Req : req[p] \in Requests
  BY DEF Ind, Typed
<1>1. v \in Flag \cup (SUBSET Users) \cup {None}
  OBVIOUS
<1>2. rq \in Requests /\ rq.op = op /\ rq.res = r
  BY <1>0, <1>1 DEF Requests
<1>3. /\ req' = [req EXCEPT ![q] = rq] /\ pc[q] = "idle" /\ UNCHANGED <<tables, sink>>
      /\ op = "POST" => r \notin ever
  BY DEF Receive, Legal, fill
<1>4. \/ pc' = [pc EXCEPT ![q] = "native"] /\ ever' = ever
      \/ pc' = [pc EXCEPT ![q] = "load"] /\ ever' = (IF op = "POST" THEN ever \cup {r} ELSE ever)
  BY DEF Receive
<1> HIDE DEF rq
<1>5. Typed' /\ ever \subseteq ever' /\ UNCHANGED <<before, site, map, sink, mode>>
  BY <1>0, <1>2, <1>3, <1>4, ProcMembers DEF Ind, Typed, Steps, tables, setting
<1>6. Requested'
  <2>1. Created(q)' /\ HasRes(q)'
    BY <1>0, <1>2, <1>3, <1>4, <1>5, ProcMembers DEF Created, HasRes, Ind, Requested
  <2>2. \A p \in Req \ {q} : Created(p)' /\ HasRes(p)'
    BY <1>0, <1>3, <1>4, <1>5, ProcMembers DEF Created, HasRes, Ind, Requested
  <2> QED
    BY <1>5, <2>1, <2>2 DEF Ind, Requested
<1>7. Scoped'
  <2>1. pc'[q] \notin Dancing /\ \A p \in Proc \ {q} : pc'[p] = pc[p] /\ req'[p] = req[p]
    BY <1>0, <1>3, <1>4, ProcMembers DEF Dancing
  <2> QED
    BY <1>5, <2>1, ProcMembers
       DEF Ind, Scoped, Shared, OwnMapped, OwnDanced, OwnFilled, OwnQueued, Own
<1> QED
  BY <1>5, <1>6, <1>7 DEF Ind

(* Native accepts: what was to be created is there.                           *)
LEMMA NativeInd ==
    ASSUME Ind, NEW q \in Req, NativeLeg(q) \/ NativeAnswerLost(q)
    PROVE  Ind'
<1>0. /\ pc \in [Proc -> Steps] /\ req = [p \in Proc |-> req[p]]
  BY DEF Ind, Typed
<1>1. /\ pc[q] = "native" /\ UNCHANGED <<tables, sink>>
      /\ ever' = IF req[q].op = "POST" THEN ever \cup {req[q].res} ELSE ever
  BY DEF NativeLeg, NativeAnswerLost, NativeWrites, fill
<1>2. /\ UNCHANGED <<before, site, map, sink, mode>> /\ ever \subseteq ever'
  BY <1>1 DEF tables, setting
<1>3. CASE NativeAnswerLost(q)
  <2>1. ShapesStay /\ \A p \in Proc : GoesOn(p)
    BY <1>3, ResetDoes, ProcMembers DEF NativeAnswerLost
  <2>2. UNCHANGED setting /\ mode' \in Mode /\ map' = [r \in Res |-> map'[r]]
    BY <1>2 DEF Ind, Typed, setting
  <2> QED
    BY <1>2, <2>1, <2>2, GoOnInd
<1>4. CASE NativeLeg(q)
  <2>1. pc' = [pc EXCEPT ![q] = "clear"] /\ UNCHANGED req
    BY <1>4 DEF NativeLeg
  <2>2. Typed'
    BY <1>0, <1>2, <2>1, ProcMembers DEF Ind, Typed, Steps
  <2>3. Created(q)' /\ HasRes(q)'
    BY <1>0, <1>1, <1>2, <2>1, ProcMembers DEF Created, HasRes, Ind, Requested
  <2>4. \A p \in Req \ {q} : Created(p)' /\ HasRes(p)'
    BY <1>0, <1>2, <2>1, ProcMembers DEF Created, HasRes, Ind, Requested
  <2>5. Requested'
    BY <1>2, <2>3, <2>4 DEF Ind, Requested
  <2>6. pc'[q] \notin Dancing /\ \A p \in Proc \ {q} : pc'[p] = pc[p]
    BY <1>0, <2>1, ProcMembers DEF Dancing
  <2>7. Scoped'
    BY <1>2, <2>1, <2>6, ProcMembers
       DEF Ind, Scoped, Shared, OwnMapped, OwnDanced, OwnFilled, OwnQueued, Own
  <2> QED
    BY <2>2, <2>5, <2>7 DEF Ind
<1> QED
  BY <1>3, <1>4

(* A delete that native had no resource for is no create.                     *)
LEMMA RefusesInd ==
    ASSUME Ind, NEW q \in Req, NativeRefuses(q)
    PROVE  Ind'
<1>0. /\ pc \in [Proc -> Steps] /\ req = [p \in Proc |-> req[p]]
      /\ \A p \in Req : req[p] \in Requests
  BY DEF Ind, Typed
<1>1. pc[q] = "native" /\ Plain
  BY DEF NativeRefuses, tables, fill, Plain
<1>2. CASE Reset(q)
  BY <1>1, <1>2, ResetDoes, PlainInd, ProcMembers
<1>3. CASE ~Reset(q)
  <2> DEFINE c == [req[q] EXCEPT !.absent = TRUE]
  <2>1. req[q].op = "DELETE" /\ pc' = [pc EXCEPT ![q] = "load"] /\ req' = [req EXCEPT ![q] = c]
    BY <1>3 DEF NativeRefuses
  <2>2. c \in Requests /\ c.op = "DELETE" /\ c.res = req[q].res
    BY <1>0, <2>1 DEF Requests
  <2> HIDE DEF c
  <2>3. Typed'
    BY <1>0, <1>1, <2>1, <2>2, ProcMembers DEF Ind, Typed, Steps, Plain
  <2>4. Created(q)' /\ HasRes(q)'
    BY <1>0, <1>1, <2>1, <2>2, ProcMembers DEF Created, HasRes, Ind, Requested
  <2>5. \A p \in Req \ {q} : Created(p)' /\ HasRes(p)'
    BY <1>0, <1>1, <2>1, ProcMembers DEF Created, HasRes, Ind, Requested, Plain, setting
  <2>6. Requested'
    BY <1>1, <2>4, <2>5 DEF Ind, Requested, Plain, setting
  <2>7. pc'[q] \notin Dancing /\ \A p \in Proc \ {q} : pc'[p] = pc[p] /\ req'[p] = req[p]
    BY <1>0, <2>1, ProcMembers DEF Dancing
  <2>8. Scoped'
    BY <1>1, <2>7, ProcMembers
       DEF Ind, Scoped, Shared, OwnMapped, OwnDanced, OwnFilled, OwnQueued, Own, Plain, setting
  <2> QED
    BY <2>3, <2>6, <2>8 DEF Ind
<1> QED
  BY <1>2, <1>3

(* Past Load a request is a create, or has a mapping.                         *)
LEMMA LoadInd ==
    ASSUME Ind, NEW q \in Req, Load(q)
    PROVE  Ind'
<1> DEFINE step == IF req[q].op = "DELETE" THEN "delete"
                   ELSE IF req[q].op \in {"POST", "PUT"} THEN "put" ELSE "patch"
<1>0. pc \in [Proc -> Steps] /\ q \in Proc
  BY ProcMembers DEF Ind, Typed
<1>1. /\ pc[q] = "load" /\ pc' = [pc EXCEPT ![q] = step] /\ UNCHANGED req /\ Plain
      /\ ~(req[q].op = "PUT" /\ Refused(q))
  BY DEF Load, tables, fill, Plain
<1>2. step \in Steps \ {"native", "idle"} /\ (step \in Dancing => req[q].op \in {"POST", "PUT"})
  BY DEF Steps, Dancing
<1> HIDE DEF step
<1>3. Typed'
  BY <1>0, <1>1, <1>2 DEF Ind, Typed, Plain
<1>4. \A p \in Req \ {q} : pc'[p] = pc[p]
  BY <1>0, <1>1, ProcMembers
<1>5. Requested'
  <2>1. Created(q)' /\ HasRes(q)'
    BY <1>0, <1>1, <1>2 DEF Created, HasRes, Ind, Requested, Plain, setting
  <2>2. \A p \in Req \ {q} : Created(p)' /\ HasRes(p)'
    BY <1>1, <1>4 DEF Created, HasRes, Ind, Requested, Plain, setting
  <2> QED
    BY <1>1, <2>1, <2>2 DEF Ind, Requested, Plain, setting
<1>6. ASSUME Shared, step \in Dancing PROVE req[q].res \in Own
  <2>1. req[q].res \in Res
    BY <1>1 DEF Ind, Requested, HasRes
  <2>2. CASE req[q].op = "POST"
    BY <1>1, <2>2 DEF Ind, Requested, Created, Own
  <2>3. CASE req[q].op = "PUT"
    BY <1>1, <1>6, <2>1, <2>3 DEF Refused, Ind, Scoped, OwnMapped
  <2> QED
    BY <1>2, <1>6, <2>2, <2>3
<1>7. Scoped'
  <2>1. /\ (Shared' <=> Shared) /\ Own' = Own /\ UNCHANGED <<map, sink, req>>
    BY <1>1 DEF Plain, setting, Shared, Own
  <2>2. pc'[q] = step /\ pc'[Filler] = pc[Filler]
    BY <1>0, <1>1, ProcMembers
  <2>3. Shared => OwnDanced'
    BY <1>4, <1>6, <2>1, <2>2 DEF Ind, Scoped, OwnDanced
  <2> QED
    BY <2>1, <2>2, <2>3 DEF Ind, Scoped, OwnMapped, OwnFilled, OwnQueued
<1> QED
  BY <1>3, <1>5, <1>7 DEF Ind

(* A mapping is written at the end of a request's dance.                      *)
LEMMA RecordInd ==
    ASSUME Ind, NEW q \in Req, Record(q)
    PROVE  Ind'
<1> DEFINE r == req[q].res
<1>0. /\ q \in Proc /\ pc[q] = "record" /\ map' = [map EXCEPT ![r] = row[q]] /\ Reset(q)
      /\ UNCHANGED <<setting, mode, sink, ever>>
  BY ProcMembers DEF Record, Rename, fill
<1>1. ShapesStay /\ \A p \in Proc : GoesOn(p)
  BY <1>0, ResetDoes
<1>2. map = [x \in Res |-> map[x]] /\ r \in Res
  BY <1>0 DEF Ind, Typed, Requested, HasRes
<1>3. map' = [x \in Res |-> map'[x]] /\ \A x \in Res \ {r} : map'[x] = map[x]
  BY <1>0, <1>2
<1>4. Typed'
  BY <1>0, <1>1, <1>3 DEF Ind, Typed, ShapesStay
<1>5. ASSUME NEW p \in Req PROVE Created(p)' /\ HasRes(p)'
  <2>1. GoesOn(p) /\ Created(p) /\ HasRes(p)
    BY <1>1, ProcMembers DEF Ind, Requested
  <2> QED
    BY <1>0, <2>1 DEF GoesOn, Created, HasRes, setting
<1>6. Requested'
  BY <1>0, <1>5 DEF Ind, Requested, setting
<1>7. Scoped'
  <2>1. (Shared' <=> Shared) /\ Own' = Own
    BY <1>0 DEF setting, Shared, Own
  <2>2. Shared => r \in Own
    BY <1>0 DEF Ind, Scoped, OwnDanced, Dancing
  <2>3. Shared => OwnMapped'
    BY <1>3, <2>1, <2>2 DEF Ind, Scoped, OwnMapped
  <2>4. Shared => OwnDanced' /\ OwnFilled'
    BY <1>1, <2>1, ProcMembers DEF Ind, Scoped, OwnDanced, OwnFilled, GoesOn, Dancing
  <2>5. Shared => OwnQueued'
    BY <1>0, <2>1 DEF Ind, Scoped, OwnQueued
  <2> QED
    BY <2>1, <2>3, <2>4, <2>5 DEF Scoped
<1> QED
  BY <1>4, <1>6, <1>7 DEF Ind

-----------------------------------------------------------------------------
(* The backfill *)

LEMMA Still == ASSUME Ind, UNCHANGED <<pc, req>> PROVE ShapesStay /\ \A p \in Proc : GoesOn(p)
BY DEF Ind, Typed, ShapesStay, GoesOn

LEMMA FillPlainInd ==
    ASSUME Ind, StartFill \/ FillPage \/ FillPageFails \/ FillSkips \/ FillFails \/ FillUsersDone
    PROVE  Ind'
<1>1. CASE FillFails
  <2>1. Reset(Filler) /\ Plain
    BY <1>1 DEF FillFails, tables, fill, Plain
  <2> QED
    BY <2>1, ResetDoes, PlainInd, ProcMembers
<1>2. CASE StartFill \/ FillPage \/ FillPageFails \/ FillSkips \/ FillUsersDone
  <2>1. UNCHANGED <<pc, req>> /\ Plain
    BY <1>2 DEF StartFill, FillPage, FillPageFails, FillSkips, FillUsersDone, tables, procs,
       history, Plain
  <2> QED
    BY <2>1, Still, PlainInd
<1> QED
  BY <1>1, <1>2

LEMMA FillRowInd == ASSUME Ind, FillRow PROVE Ind'
<1> DEFINE r == Head(snap)[1]
<1> DEFINE rq == [op |-> "PUT", res |-> r, val |-> Head(snap)[2], mode |-> None,
                  absent |-> FALSE]
<1>0. /\ pc \in [Proc -> Steps] /\ req = [p \in Proc |-> req[p]]
  BY DEF Ind, Typed
<1>1. /\ pc' = [pc EXCEPT ![Filler] = "put"] /\ req' = [req EXCEPT ![Filler] = rq]
      /\ Plain /\ ~(Shared /\ map[r] = None)
  BY DEF FillRow, tables, Plain
<1>2. rq.res = r
  OBVIOUS
<1> HIDE DEF rq
<1>3. \A p \in Req : pc'[p] = pc[p] /\ req'[p] = req[p]
  BY <1>0, <1>1, ProcMembers
<1>4. pc'[Filler] = "put" /\ req'[Filler].res = r
  BY <1>0, <1>1, <1>2, ProcMembers
<1>5. Typed'
  BY <1>0, <1>1, <1>3 DEF Ind, Typed, Plain, Steps
<1>6. Requested'
  BY <1>1, <1>3 DEF Ind, Requested, Created, HasRes, Plain, setting
<1>7. Scoped'
  <2>1. (Shared' <=> Shared) /\ Own' = Own /\ UNCHANGED <<map, sink>>
    BY <1>1 DEF Plain, setting, Shared, Own
  <2>2. Shared => OwnFilled'
    BY <1>1, <1>4, <2>1 DEF Ind, Scoped, OwnMapped, OwnFilled
  <2>3. Shared => OwnMapped' /\ OwnDanced' /\ OwnQueued'
    BY <1>3, <2>1 DEF Ind, Scoped, OwnMapped, OwnDanced, OwnQueued
  <2> QED
    BY <2>1, <2>2, <2>3 DEF Scoped
<1> QED
  BY <1>5, <1>6, <1>7 DEF Ind

LEMMA QueueGrows ==
    ASSUME NEW S, NEW s \in Seq(S), NEW e
    PROVE  /\ Append(s, e) \in Seq(S \cup {e})
           /\ \A i \in DOMAIN Append(s, e) : Append(s, e)[i] = e
                                          \/ (i \in DOMAIN s /\ Append(s, e)[i] = s[i])
<1>1. s \in Seq(S \cup {e}) /\ e \in S \cup {e}
  OBVIOUS
<1> QED
  BY <1>1

LEMMA FillRecordInd == ASSUME Ind, FillRecord PROVE Ind'
<1> DEFINE e == <<req[Filler].res, row[Filler]>>
<1>0. /\ pc[Filler] = "record" /\ sink' = Append(sink, e) /\ Reset(Filler)
      /\ UNCHANGED <<tables, ever>>
  BY DEF FillRecord
<1>1. ShapesStay /\ \A p \in Proc : GoesOn(p)
  BY <1>0, ResetDoes, ProcMembers
<1>2. PICK S : sink \in Seq(S)
  BY DEF Ind, Typed
<1>3. /\ sink' \in Seq(S \cup {e})
      /\ \A i \in DOMAIN sink' : sink'[i] = e \/ (i \in DOMAIN sink /\ sink'[i] = sink[i])
  BY <1>0, <1>2, QueueGrows
<1>4. e[1] = req[Filler].res
  OBVIOUS
<1> HIDE DEF e
<1>5. Typed'
  BY <1>0, <1>1, <1>3 DEF Ind, Typed, ShapesStay, tables
<1>6. ASSUME NEW p \in Req PROVE Created(p)' /\ HasRes(p)'
  <2>1. GoesOn(p) /\ Created(p) /\ HasRes(p)
    BY <1>1, ProcMembers DEF Ind, Requested
  <2> QED
    BY <1>0, <2>1 DEF GoesOn, Created, HasRes, tables, setting
<1>7. Requested'
  BY <1>0, <1>6 DEF Ind, Requested, tables, setting
<1>8. Scoped'
  <2>1. (Shared' <=> Shared) /\ Own' = Own /\ UNCHANGED map
    BY <1>0 DEF tables, setting, Shared, Own
  <2>2. Shared => OwnQueued'
    BY <1>0, <1>3, <1>4, <2>1 DEF Ind, Scoped, OwnQueued, OwnFilled
  <2>3. Shared => OwnMapped' /\ OwnDanced' /\ OwnFilled'
    BY <1>1, <2>1, ProcMembers DEF Ind, Scoped, OwnMapped, OwnDanced, OwnFilled, GoesOn,
     Dancing
  <2> QED
    BY <2>1, <2>2, <2>3 DEF Scoped
<1> QED
  BY <1>5, <1>7, <1>8 DEF Ind

(* A batch maps only what was queued.                                         *)
LEMMA FlushInd == ASSUME Ind, FlushWrites \/ FlushFails PROVE Ind'
<1>0. PICK written \in BOOLEAN : Flush(written)
  BY DEF FlushWrites, FlushFails
<1>1. /\ map' = [r \in Res |-> IF written /\ r \in {x \in Res : Queued(x)} THEN SinkRow(r) ELSE map[r]]
      /\ sink' = <<>> /\ UNCHANGED <<setting, mode, procs, ever>>
  BY <1>0 DEF Flush
<1>2. sink' \in Seq({})
  BY <1>1
<1>3. Typed'
  BY <1>1, <1>2 DEF Ind, Typed, procs
<1>4. Requested'
  BY <1>1 DEF Ind, Requested, Created, HasRes, procs, setting
<1>5. Scoped'
  <2>1. (Shared' <=> Shared) /\ Own' = Own /\ UNCHANGED <<pc, req>>
    BY <1>1 DEF setting, Shared, Own, procs
  <2>2. \A r \in Res : map'[r] = map[r] \/ Queued(r)
    BY <1>1
  <2>3. Shared => OwnMapped'
    BY <2>1, <2>2 DEF Ind, Scoped, OwnMapped, OwnQueued, Queued
  <2>4. Shared => OwnDanced' /\ OwnFilled' /\ OwnQueued'
    BY <1>1, <2>1 DEF Ind, Scoped, OwnDanced, OwnFilled, OwnQueued
  <2> QED
    BY <2>1, <2>3, <2>4 DEF Scoped
<1> QED
  BY <1>3, <1>4, <1>5 DEF Ind

-----------------------------------------------------------------------------
(* The operator, and the process *)

LEMMA OutsideInd ==
    ASSUME Ind, (\E m \in Mode : SetMode(m)) \/ CleanWorkos \/ Crash \/ UNCHANGED vars
    PROVE  Ind'
<1>0. map = [r \in Res |-> map[r]] /\ mode \in Mode
  BY DEF Ind, Typed
<1>1. CASE \E m \in Mode : SetMode(m)
  <2>1. mode' \in Mode /\ UNCHANGED <<setting, pc, req, ever, sink, map>>
    BY <1>1 DEF SetMode, procs, fill, history
  <2> QED
    BY <1>0, <2>1, Still, GoOnInd
<1>2. CASE CleanWorkos \/ UNCHANGED vars
  <2>1. UNCHANGED <<pc, req>> /\ Plain
    BY <1>2 DEF CleanWorkos, vars, tables, procs, fill, history, Plain
  <2> QED
    BY <2>1, Still, PlainInd
<1>3. CASE Crash
  <2>1. /\ pc' = [p \in Proc |-> "idle"] /\ req' = [p \in Proc |-> NoReq] /\ sink' = <<>>
        /\ UNCHANGED <<setting, mode, map, ever>>
    BY <1>3 DEF Crash, tables
  <2>2. ShapesStay /\ \A p \in Proc : GoesOn(p)
    BY <2>1, NoReqTyped, ProcMembers DEF ShapesStay, GoesOn, Steps
  <2> QED
    BY <1>0, <2>1, <2>2, GoOnInd
<1> QED
  BY <1>1, <1>2, <1>3

LEMMA NextInd == Ind /\ [Next]_vars => Ind'
<1> SUFFICES ASSUME Ind, [Next]_vars PROVE Ind'
  OBVIOUS
<1>1. ASSUME NEW q \in Req, Proxy(q) PROVE Ind'
  BY <1>1, NativeInd, RefusesInd, QuietInd, LoadInd, RecordInd, PruneInd DEF Proxy
<1>2. CASE Backfill
  BY <1>2, FillPlainInd, FillRowInd, FillRecordInd, FlushInd DEF Backfill
<1> QED
  BY <1>1, <1>2, ReceiveInd, DanceInd, OutsideInd DEF Next

(* In a shared namespace no request, and no backfill of the unscoped native   *)
(* listing, maps a resource another directory created.                        *)
THEOREM NoNeighbourIsMapped == Spec => []MapsOnlyItsOwn
<1>1. Ind => MapsOnlyItsOwn
  BY DEF Ind, Scoped, OwnMapped, MapsOnlyItsOwn
<1> QED
  BY <1>1, InitInd, NextInd, PTL DEF Spec

-----------------------------------------------------------------------------
(* A row of the ledger is closed for a cause: the invariant *)

(* Every row a worker addresses, a mapping or a queued mapping names is one of *)
(* the two its resource can have.                                              *)
RowsOf(r) == {r, Mint(r)}
Early == {"idle", "native", "clear", "load"}
RowsFit ==
    /\ workos = [w \in Row |-> workos[w]] /\ row = [p \in Proc |-> row[p]]
    /\ \A r \in Res : map[r] \in RowsOf(r) \cup {None}
    /\ \A p \in Proc : pc[p] \notin Early => row[p] \in RowsOf(req[p].res)
    /\ pc[Filler] # "idle" => req[Filler].res \in Res
    /\ \A i \in DOMAIN sink : sink[i][1] \in Res /\ sink[i][2] \in RowsOf(sink[i][1])

(* Native lists each row it has once, and a row has the content its kind has.  *)
NativeLists ==
    /\ native = [r \in Res |-> native[r]] /\ \A r \in Res : native[r] \in Content(r) \cup {None}
    /\ born = [k \in {"users", "groups"} |-> born[k]]
    /\ born["users"] \in Seq(Res) /\ Lists(born["users"], {r \in Users : native[r] # None})
    /\ born["groups"] \in Seq(Res) /\ Lists(born["groups"], {r \in Groups : native[r] # None})

(* What the IdP is told of, the backfill copies and a request asks for.        *)
AsksFit ==
    \A q \in Req : pc[q] # "idle" =>
        /\ req[q].op \in Op /\ req[q].val \in Content(req[q].res)
        /\ req[q].res \in Users => req[q].op \notin {"ADD", "REMOVE"}
CopiesFit ==
    /\ stage \in {"off", "users", "groups", "flush"} \cup Rows
    /\ \E S : snap \in Seq(S)
    /\ \A i \in DOMAIN snap : snap[i][1] \in Res
Listed == NativeLists /\ AsksFit /\ CopiesFit /\ want = [r \in Res |-> want[r]]

OneUnanswered ==
    \A p, q \in Req : Unanswered(p) /\ Unanswered(q) /\ req[p].res = req[q].res => p = q
AbsentDeletes ==
    \A q \in Req : /\ pc[q] = "native" => ~req[q].absent
                   /\ pc[q] = "retire" => req[q].absent
                   /\ pc[q] # "idle" /\ req[q].absent => req[q].mode = "dual-write"

(* A resource on the ledger that native has accepted no write of yet.          *)
Unwritten(r) == gap[r] # None /\ r \notin wrote
Engaged(q, r) == pc[q] # "idle" /\ req[q].res = r

NotCopied(r) == ~Engaged(Filler, r) /\ \A i \in DOMAIN snap : snap[i][1] # r
NotMirrored(r) ==
    \A q \in Req : Engaged(q, r) /\ pc[q] # "native" =>
        pc[q] # "clear" /\ (req[q].mode = "workos-only" \/ req[q].absent)
AloneInDelete(q, r) ==
    /\ native[r] = None /\ want[r] = None
    /\ \A p \in Req \ {q} : ~Engaged(p, r)
    /\ pc[q] \in {"prune", "retire"} => Gone(row[q])

UnwrittenStands(r) ==
    /\ r \in before /\ r \in Users
    /\ native[r] = None => NotCopied(r)
    /\ NotMirrored(r)
    /\ \A q \in Req : Engaged(q, r) /\ req[q].absent => AloneInDelete(q, r)

GapInd ==
    /\ gap = [r \in Res |-> gap[r]] /\ RowsFit /\ Listed /\ OneUnanswered /\ AbsentDeletes
    /\ \A r \in Res : Unwritten(r) => UnwrittenStands(r)

LEMMA OrdersAreLists ==
    ASSUME NEW S, IsFiniteSet(S), NEW order \in [1..Cardinality(S) -> S]
    PROVE  order \in Seq(S) /\ DOMAIN order = 1..Cardinality(S)
BY FS_CardinalityType

LEMMA InitGapInd == Init => GapInd
<1> SUFFICES ASSUME Init PROVE GapInd
  OBVIOUS
<1>0. /\ map = [r \in Res |-> None] /\ pc = [p \in Proc |-> "idle"] /\ row = [p \in Proc |-> None]
      /\ snap = <<>> /\ sink = <<>> /\ stage = "off" /\ wrote = {}
      /\ before = {r \in Res : want[r] # None}
  BY DEF Init
<1>1. PICK there \in SUBSET Res : \E order \in [1..Cardinality(there \cap Users) -> there \cap Users] :
        /\ Lists(order, there \cap Users)
        /\ \E rest \in [1..Cardinality(there \cap Groups) -> there \cap Groups] :
            Lists(rest, there \cap Groups) /\ born = [users |-> order, groups |-> rest]
        /\ native = [r \in Res |-> IF r \notin there THEN None
                                   ELSE IF r \in Users THEN "active" ELSE there \cap Users]
        /\ \E listed \in {{}} \cup {{u} : u \in Users} :
            /\ gap = [r \in Res |-> IF r \notin listed THEN None
                                    ELSE IF r \in there THEN "DELETE" ELSE "POST"]
            /\ oldN = listed \ there
            /\ want = [r \in Res |-> IF r \in oldN THEN "active" ELSE native[r]]
            /\ workos = [w \in Row |-> IF w \in oldN THEN "active" ELSE None]
  BY DEF Init
<1>2. PICK order \in [1..Cardinality(there \cap Users) -> there \cap Users],
           rest \in [1..Cardinality(there \cap Groups) -> there \cap Groups] :
        Lists(order, there \cap Users) /\ Lists(rest, there \cap Groups) /\ born = [users |-> order, groups |-> rest]
  BY <1>1
<1>3. native = [r \in Res |-> IF r \notin there THEN None
                              ELSE IF r \in Users THEN "active" ELSE there \cap Users]
  BY <1>1
<1>4. PICK listed \in {{}} \cup {{u} : u \in Users} :
        /\ gap = [r \in Res |-> IF r \notin listed THEN None
                                ELSE IF r \in there THEN "DELETE" ELSE "POST"]
        /\ want = [r \in Res |-> IF r \in oldN THEN "active" ELSE native[r]]
        /\ workos = [w \in Row |-> IF w \in oldN THEN "active" ELSE None]
        /\ oldN = listed \ there
  BY <1>1
<1>5. \A r \in Res : (native[r] # None) = (r \in there) /\ native[r] \in Content(r) \cup {None}
  <2>1. there \cap Users # None /\ "active" # None /\ "active" \in Flag
    BY NoneAssumption DEF Row, Res, Flag
  <2> QED
    BY <1>3, <2>1 DEF Content
<1>6. Listed
  <2>1. born = [k \in {"users", "groups"} |-> born[k]] /\ born["users"] = order /\ born["groups"] = rest
    BY <1>2
  <2>2. native = [r \in Res |-> native[r]] /\ want = [r \in Res |-> want[r]]
    BY <1>3, <1>4
  <2>3. \E S : snap \in Seq(S)
    <3>1. snap \in Seq({})
      BY <1>0
    <3> QED
      BY <3>1
  <2>4. order \in Seq(Res) /\ rest \in Seq(Res)
    <3>1. IsFiniteSet(there \cap Users) /\ IsFiniteSet(there \cap Groups)
      BY FiniteAssumption, FS_Subset
    <3>2. order \in Seq(there \cap Users) /\ rest \in Seq(there \cap Groups)
      BY <3>1, OrdersAreLists
    <3> QED
      BY <3>2
  <2>5. /\ there \cap Users = {r \in Users : native[r] # None}
        /\ there \cap Groups = {r \in Groups : native[r] # None}
    BY <1>5 DEF Res
  <2>6. /\ Lists(born["users"], {r \in Users : native[r] # None})
        /\ Lists(born["groups"], {r \in Groups : native[r] # None})
    BY <1>2, <2>1, <2>5
  <2>7. stage \in {"off", "users", "groups", "flush"} \cup Rows /\ \A i \in DOMAIN snap : snap[i][1] \in Res
    BY <1>0
  <2> QED
    BY <1>0, <1>5, <2>1, <2>2, <2>3, <2>4, <2>6, <2>7, ProcMembers DEF Listed, NativeLists, AsksFit, CopiesFit
<1>7. RowsFit
  <2>1. workos = [w \in Row |-> workos[w]]
    BY <1>4
  <2> QED
    BY <1>0, <2>1, ProcMembers DEF RowsFit, Early
<1>8. OneUnanswered /\ AbsentDeletes
  BY <1>0, ProcMembers DEF OneUnanswered, AbsentDeletes, Unanswered, Busy
<1>9. ASSUME NEW r \in Res, Unwritten(r) PROVE UnwrittenStands(r)
  <2>1. r \in listed /\ r \in Users
    BY <1>4, <1>9 DEF Unwritten
  <2>2. want[r] # None
    BY <1>3, <1>4, <2>1, NoneAssumption DEF Flag
  <2> QED
    BY <1>0, <2>1, <2>2, ProcMembers
       DEF UnwrittenStands, NotCopied, NotMirrored, Engaged
<1>10. gap = [r \in Res |-> gap[r]]
  BY <1>4
<1> QED
  BY <1>6, <1>7, <1>8, <1>9, <1>10 DEF GapInd

-----------------------------------------------------------------------------
(* Which row is whose *)

LEMMA RowsApart ==
    ASSUME NEW r \in Res, NEW s \in Res
    PROVE  /\ RowsOf(r) \subseteq Row /\ Mint(r) \notin Res
           /\ RowsOf(r) \cap RowsOf(s) # {} => r = s
BY MintAssumption DEF RowsOf, Row, Mint

LEMMA TranslateFits ==
    ASSUME RowsFit, NEW r \in Res PROVE Translate(map, r) \in RowsOf(r)
BY DEF RowsFit, Translate, RowsOf

LEMMA BusyRes ==
    ASSUME Ind, RowsFit, NEW p \in Proc, pc[p] # "idle" PROVE req[p].res \in Res
BY DEF Proc, Ind, Requested, HasRes, RowsFit

(* A delete leaves every other row of a user as it was, and its own row gone.  *)
LEMMA DeleteLeaves ==
    ASSUME RowsFit, NEW r \in Res, NEW w \in RowsOf(r)
    PROVE  /\ WorkosDeletes(w) = [x \in Row |-> WorkosDeletes(w)[x]]
           /\ \A u \in Users : \A x \in RowsOf(u) \ {w} : WorkosDeletes(w)[x] = workos[x]
           /\ LET v == WorkosDeletes(w)[w] IN v = None \/ (Retains /\ v = "inactive")
<1>1. w \in Row /\ workos = [x \in Row |-> workos[x]]
  BY RowsApart DEF RowsFit
<1>2. DOMAIN Without(workos, w) = Row
  BY <1>1 DEF Without
<1>3. ASSUME NEW u \in Users, NEW x \in RowsOf(u) \ {w}
      PROVE  x \in Row /\ Without(workos, w)[x] = workos[x]
  <2>1. u \in Res /\ x \in Row
    BY <1>3, RowsApart DEF Res
  <2>2. x \notin Groups /\ x \notin {Mint(g) : g \in Groups}
    <3>1. ASSUME NEW g \in Groups PROVE x \notin RowsOf(g)
      <4>1. g \in Res /\ g # u
        BY KindAssumption DEF Res
      <4> QED
        BY <1>3, <2>1, <4>1, RowsApart
    <3> QED
      BY <3>1 DEF RowsOf
  <2> QED
    BY <1>1, <2>1, <2>2 DEF Without
<1> DEFINE t == Without(workos, w)
<1>4. [t EXCEPT ![w] = None] = [x \in Row |-> IF x = w THEN None ELSE t[x]]
  <2>1. t = [x \in Row |-> t[x]]
    BY <1>1, <1>2 DEF Without
  <2> QED
    BY <1>1, <2>1
<1>5. WorkosDeletes(w) \in {workos, [workos EXCEPT ![w] = "inactive"], [t EXCEPT ![w] = None],
                            [workos EXCEPT ![w] = None]}
  BY DEF WorkosDeletes
<1>6. /\ WorkosDeletes(w) = workos => workos[w] = None \/ (Retains /\ workos[w] = "inactive")
      /\ WorkosDeletes(w)[w] # None /\ WorkosDeletes(w) # workos => Retains /\ WorkosDeletes(w)[w] = "inactive"
  BY <1>1, <1>4 DEF WorkosDeletes
<1> HIDE DEF t
<1>7. WorkosDeletes(w) = [x \in Row |-> WorkosDeletes(w)[x]]
  BY <1>1, <1>4, <1>5
<1>8. \A u \in Users : \A x \in RowsOf(u) \ {w} : WorkosDeletes(w)[x] = workos[x]
  BY <1>1, <1>3, <1>4, <1>5 DEF t
<1> QED
  BY <1>6, <1>7, <1>8

-----------------------------------------------------------------------------
(* How the workers move *)

MovesOnly(q) ==
    /\ row' = [p \in Proc |-> row'[p]]
    /\ \A p \in Proc \ {q} : pc'[p] = pc[p] /\ req'[p] = req[p] /\ row'[p] = row[p]

LEMMA ResetMoves ==
    ASSUME Ind, RowsFit, NEW q \in Proc, Reset(q)
    PROVE  MovesOnly(q) /\ pc'[q] = "idle"
BY DEF Ind, Typed, RowsFit, Reset, MovesOnly

LEMMA StepMoves ==
    ASSUME Ind, RowsFit, NEW q \in Proc, NEW step, NEW w,
           pc' = [pc EXCEPT ![q] = step], UNCHANGED req, row' \in {row, [row EXCEPT ![q] = w]}
    PROVE  MovesOnly(q) /\ pc'[q] = step /\ req'[q] = req[q] /\ row'[q] \in {row[q], w}
BY DEF Ind, Typed, RowsFit, MovesOnly

(* A step of the dance ends at a row of its resource, and writes no other.      *)
LEMMA DanceMoves ==
    ASSUME Ind, RowsFit, NEW q \in Proc, Dance(q)
    PROVE  /\ MovesOnly(q) /\ pc[q] \in Dancing /\ pc'[q] \in Dancing /\ req'[q] = req[q]
           /\ req[q].res \in Res /\ row'[q] \in RowsOf(req[q].res)
           /\ workos' = [w \in Row |-> workos'[w]]
           /\ \A w \in Row \ {row'[q]} : workos'[w] = workos[w]
<1> DEFINE r == req[q].res
<1>1. pc[q] \in Dancing /\ UNCHANGED req
  BY DEF Dance, PutHits, PutMisses, PostCreates, PostConflicts, Reput, Lookup, Sync, Dancing
<1>2. r \in Res /\ row[q] \in RowsOf(r)
  BY <1>1, BusyRes DEF Dancing, RowsFit, Early
<1>3. PICK step \in Dancing : pc' = [pc EXCEPT ![q] = step]
  BY DEF Dance, PutHits, PutMisses, PostCreates, PostConflicts, Reput, Lookup, Sync, Dancing
<1>4. PICK w \in RowsOf(r) : row' \in {row, [row EXCEPT ![q] = w]} /\ workos' \in {workos, [workos EXCEPT ![row'[q]] = body[q]]}
  <2>1. row = [p \in Proc |-> row[p]]
    BY DEF RowsFit
  <2>2. CASE PutHits(q) \/ PutMisses(q) \/ PostConflicts(q) \/ Sync(q)
    BY <1>2, <2>2 DEF PutHits, PutMisses, PostConflicts, Sync, Overwrite
  <2>3. CASE \E adopts \in BOOLEAN : PostCreates(q, adopts)
    BY <2>1, <2>3 DEF PostCreates, Overwrite, RowsOf
  <2>4. CASE Reput(q)
    BY <2>1, <2>4 DEF Reput, Overwrite, RowsOf
  <2>5. CASE Lookup(q)
    BY <2>5 DEF Lookup, Standing, RowsOf
  <2> QED
    BY <2>2, <2>3, <2>4, <2>5 DEF Dance
<1>5. MovesOnly(q) /\ pc'[q] = step /\ req'[q] = req[q] /\ row'[q] \in {row[q], w}
  BY <1>1, <1>3, <1>4, StepMoves
<1>6. workos = [x \in Row |-> workos[x]]
  BY DEF RowsFit
<1> QED
  BY <1>1, <1>2, <1>3, <1>4, <1>5, <1>6

(* What becomes of a request in a step of its own outside the dance.            *)
Goes(q) ==
    \/ pc'[q] = "idle"
    \/ /\ pc[q] = "native" /\ pc'[q] = "clear" /\ req'[q] = req[q] /\ req[q].res \in wrote'
    \/ /\ pc[q] = "native" /\ pc'[q] = "load" /\ req'[q] = [req[q] EXCEPT !.absent = TRUE]
       /\ NativeRefuses(q)
    \/ pc[q] = "clear" /\ pc'[q] = "load" /\ req'[q] = req[q]
    \/ /\ pc[q] = "load" /\ pc'[q] \in {"delete", "put", "patch"} /\ req'[q] = req[q]
       /\ row'[q] = Translate(map, req[q].res)
    \/ pc[q] = "delete" /\ pc'[q] = "prune" /\ req'[q] = req[q] /\ row'[q] = row[q] /\ DeleteRow(q)
    \/ /\ pc[q] = "prune" /\ pc'[q] = "retire" /\ req'[q] = req[q] /\ row'[q] = row[q]
       /\ req[q].absent

LEMMA ProxyMoves ==
    ASSUME Ind, RowsFit, NEW q \in Req, Proxy(q)
    PROVE  MovesOnly(q) /\ Goes(q) /\ pc[q] # "idle"
<1>0. q \in Proc /\ pc \in [Proc -> Steps] /\ req = [p \in Proc |-> req[p]] /\ row = [p \in Proc |-> row[p]]
  BY ProcMembers DEF Ind, Typed, RowsFit
<1>1. CASE Reset(q) /\ pc[q] # "idle"
  BY <1>0, <1>1, ResetMoves DEF Goes
<1>2. CASE NativeLeg(q)
  <2>1. req[q].res \in wrote'
    BY <1>2 DEF NativeLeg, NativeWrites
  <2> QED
    BY <1>0, <1>2, <2>1 DEF NativeLeg, MovesOnly, Goes
<1>3. CASE NativeRefuses(q) /\ ~Reset(q)
  <2>1. /\ pc[q] = "native" /\ pc' = [pc EXCEPT ![q] = "load"] /\ UNCHANGED row
        /\ req' = [req EXCEPT ![q] = [req[q] EXCEPT !.absent = TRUE]]
    BY <1>3 DEF NativeRefuses
  <2> QED
    BY <1>0, <1>3, <2>1 DEF MovesOnly, Goes
<1>4. CASE ClearGap(q) /\ ~Reset(q)
  BY <1>0, <1>4 DEF ClearGap, MovesOnly, Goes
<1>5. CASE Load(q)
  <2>1. PICK step \in {"delete", "put", "patch"} : pc' = [pc EXCEPT ![q] = step]
    BY <1>5 DEF Load
  <2>2. pc[q] = "load" /\ UNCHANGED req /\ row' = [row EXCEPT ![q] = Translate(map, req[q].res)]
    BY <1>5 DEF Load
  <2> QED
    BY <1>0, <2>1, <2>2 DEF MovesOnly, Goes
<1>6. CASE DeleteRow(q)
  <2>1. pc[q] = "delete" /\ pc' = [pc EXCEPT ![q] = "prune"] /\ UNCHANGED <<req, row>>
    BY <1>6 DEF DeleteRow
  <2> QED
    BY <1>0, <1>6, <2>1 DEF MovesOnly, Goes
<1>7. CASE PruneMapping(q) /\ ~Reset(q)
  BY <1>0, <1>7 DEF PruneMapping, MovesOnly, Goes
<1>8. Proxy(q) => pc[q] # "idle"
  BY DEF Proxy, NativeLeg, NativeRefuses, NativeAnswerLost, ClearGap, SkipReplace, Load, Record,
     PatchHits, PatchAnswerLost, DeleteRow, PruneMapping, PruneFails, Retire, MirrorFails,
     Misses, Fails
<1>9. CASE NativeAnswerLost(q) \/ SkipReplace(q) \/ Record(q) \/ PatchHits(q) \/ PatchAnswerLost(q)
           \/ PruneFails(q) \/ Retire(q) \/ MirrorFails(q)
  <2>1. Reset(q)
    BY <1>9 DEF NativeAnswerLost, SkipReplace, Record, PatchHits, PatchAnswerLost, PruneFails,
       Retire, MirrorFails
  <2> QED
    BY <1>1, <1>8, <2>1
<1> QED
  BY <1>1, <1>2, <1>3, <1>4, <1>5, <1>6, <1>7, <1>8, <1>9 DEF Proxy

(* The rows of WorkOS a proxy step writes.                                      *)
LEMMA ProxyWorkos ==
    ASSUME Ind, RowsFit, NEW q \in Req, Proxy(q)
    PROVE  /\ workos' = [w \in Row |-> workos'[w]]
           /\ \/ UNCHANGED workos
              \/ /\ pc[q] = "patch" /\ row[q] \in RowsOf(req[q].res)
                 /\ \A w \in Row \ {row[q]} : workos'[w] = workos[w]
              \/ DeleteRow(q) /\ row[q] \in RowsOf(req[q].res)
<1>0. workos = [w \in Row |-> workos[w]] /\ q \in Proc
  BY ProcMembers DEF RowsFit
<1>1. CASE PatchHits(q) \/ PatchAnswerLost(q)
  <2>1. pc[q] = "patch" /\ workos' = [workos EXCEPT ![row[q]] = After(workos[row[q]], req[q].op, body[q])]
    BY <1>1 DEF PatchHits, PatchAnswerLost
  <2>2. row[q] \in RowsOf(req[q].res)
    BY <1>0, <2>1 DEF RowsFit, Early
  <2> QED
    BY <1>0, <2>1, <2>2
<1>2. CASE DeleteRow(q)
  <2>1. pc[q] = "delete" /\ workos' = WorkosDeletes(row[q])
    BY <1>2 DEF DeleteRow
  <2>2. row[q] \in RowsOf(req[q].res) /\ req[q].res \in Res
    BY <1>0, <2>1, BusyRes DEF RowsFit, Early
  <2> QED
    BY <1>2, <2>1, <2>2, DeleteLeaves
<1>3. CASE UNCHANGED workos
  BY <1>0, <1>3
<1>4. CASE NativeLeg(q) \/ NativeRefuses(q) \/ NativeAnswerLost(q) \/ ClearGap(q) \/ SkipReplace(q) \/ Load(q)
           \/ Record(q) \/ PruneMapping(q) \/ PruneFails(q) \/ Retire(q) \/ MirrorFails(q)
  <2>1. UNCHANGED workos
    BY <1>4 DEF NativeLeg, NativeRefuses, NativeAnswerLost, ClearGap, SkipReplace, Load, Record,
       PruneMapping, PruneFails, Retire, MirrorFails, upstreams
  <2> QED
    BY <1>3, <2>1
<1> QED
  BY <1>1, <1>2, <1>4 DEF Proxy

LEMMA RowStays ==
    ASSUME RowsFit, NEW q \in Proc, MovesOnly(q),
           pc'[q] \notin Early => row'[q] \in RowsOf(req'[q].res),
           q = Filler => (pc'[Filler] # "idle" => req'[Filler].res \in Res),
           workos' = [w \in Row |-> workos'[w]], \A r \in Res : map'[r] \in RowsOf(r) \cup {None},
           \A i \in DOMAIN sink' : sink'[i][1] \in Res /\ sink'[i][2] \in RowsOf(sink'[i][1])
    PROVE  RowsFit'
BY ProcMembers DEF RowsFit, MovesOnly

LEMMA ProxyRowsFit ==
    ASSUME Ind, RowsFit, NEW q \in Req, Proxy(q)
    PROVE  RowsFit'
<1>0. q \in Proc /\ q # Filler /\ pc[q] # "idle" /\ MovesOnly(q) /\ Goes(q)
  BY ProcMembers, ProxyMoves
<1>1. req[q].res \in Res
  BY <1>0, BusyRes
<1>2. pc'[q] \notin Early => row'[q] \in RowsOf(req'[q].res)
  BY <1>0, <1>1, TranslateFits DEF Goes, RowsFit, Early
<1>3. UNCHANGED sink
  BY DEF Proxy, NativeLeg, NativeRefuses, NativeAnswerLost, ClearGap, SkipReplace, Load, Record,
     PatchHits, PatchAnswerLost, DeleteRow, PruneMapping, PruneFails, Retire, MirrorFails, fill,
     MirrorUnchanged
<1>4. \A r \in Res : map'[r] \in RowsOf(r) \cup {None}
  <2>0. map = [r \in Res |-> map[r]] /\ \A r \in Res : map[r] \in RowsOf(r) \cup {None}
    BY DEF Ind, Typed, RowsFit
  <2>1. CASE Record(q)
    <3>1. map' = [map EXCEPT ![req[q].res] = row[q]] /\ pc[q] = "record"
      BY <2>1 DEF Record, Rename
    <3>2. row[q] \in RowsOf(req[q].res)
      BY <1>0, <3>1 DEF RowsFit, Early
    <3> QED
      BY <1>1, <2>0, <3>1, <3>2
  <2>2. CASE PruneMapping(q)
    BY <1>1, <2>0, <2>2 DEF PruneMapping
  <2>3. CASE ~Record(q) /\ ~PruneMapping(q)
    <3>1. UNCHANGED map
      BY <2>3 DEF Proxy, NativeLeg, NativeRefuses, NativeAnswerLost, ClearGap, SkipReplace, Load,
         PatchHits, PatchAnswerLost, DeleteRow, PruneFails, Retire, MirrorFails, tables,
         MirrorUnchanged
    <3> QED
      BY <2>0, <3>1
  <2> QED
    BY <2>1, <2>2, <2>3
<1>5. \A i \in DOMAIN sink' : sink'[i][1] \in Res /\ sink'[i][2] \in RowsOf(sink'[i][1])
  BY <1>3 DEF RowsFit
<1> QED
  BY <1>0, <1>2, <1>4, <1>5, ProxyWorkos, RowStays

LEMMA DanceRowsFit ==
    ASSUME Ind, RowsFit, NEW q \in Proc, Dance(q)
    PROVE  RowsFit'
<1>1. UNCHANGED <<map, sink>>
  BY DEF Dance, PutHits, PutMisses, PostCreates, PostConflicts, Reput, Lookup, Sync,
     MirrorUnchanged, tables, fill
<1>2. /\ \A r \in Res : map'[r] \in RowsOf(r) \cup {None}
      /\ \A i \in DOMAIN sink' : sink'[i][1] \in Res /\ sink'[i][2] \in RowsOf(sink'[i][1])
  BY <1>1 DEF RowsFit
<1>3. /\ MovesOnly(q) /\ req'[q] = req[q] /\ req[q].res \in Res /\ row'[q] \in RowsOf(req[q].res)
      /\ workos' = [w \in Row |-> workos'[w]]
  BY DanceMoves
<1> QED
  BY <1>2, <1>3, RowStays

LEMMA ReceiveMoves ==
    ASSUME Ind, RowsFit, NEW q \in Req, NEW op, NEW r, NEW v, Receive(q, op, r, v)
    PROVE  /\ MovesOnly(q) /\ pc[q] = "idle" /\ pc'[q] \in {"native", "load"}
           /\ req'[q] = [op |-> op, res |-> r, val |-> v, mode |-> mode, absent |-> FALSE]
           /\ pc'[q] = "load" => mode = "workos-only"
<1>0. q \in Proc /\ pc \in [Proc -> Steps] /\ req = [p \in Proc |-> req[p]] /\ row = [p \in Proc |-> row[p]]
  BY ProcMembers DEF Ind, Typed, RowsFit
<1>1. /\ req' = [req EXCEPT ![q] = [op |-> op, res |-> r, val |-> v, mode |-> mode, absent |-> FALSE]]
      /\ UNCHANGED row /\ pc[q] = "idle"
      /\ \/ pc' = [pc EXCEPT ![q] = "native"]
         \/ pc' = [pc EXCEPT ![q] = "load"] /\ mode = "workos-only"
  BY DEF Receive
<1> QED
  BY <1>0, <1>1 DEF MovesOnly

LEMMA ReceiveRowsFit ==
    ASSUME Ind, RowsFit, NEW q \in Req, NEW op, NEW r, NEW v, Receive(q, op, r, v)
    PROVE  RowsFit'
<1>1. UNCHANGED <<map, sink, workos>>
  BY DEF Receive, upstreams, tables, fill
<1>2. MovesOnly(q) /\ pc'[q] \in {"native", "load"}
  BY ReceiveMoves
<1> QED
  BY <1>1, <1>2, RowStays, ProcMembers DEF RowsFit, Early

LEMMA SnapHead ==
    ASSUME \E S : snap \in Seq(S), snap # <<>>
    PROVE  1 \in DOMAIN snap /\ Head(snap) = snap[1]
OBVIOUS

LEMMA FillRowMoves ==
    ASSUME Ind, RowsFit, Listed, FillRow
    PROVE  /\ MovesOnly(Filler) /\ pc[Filler] = "idle" /\ pc'[Filler] = "put"
           /\ snap # <<>> /\ snap' = Tail(snap) /\ 1 \in DOMAIN snap
           /\ req'[Filler].res = snap[1][1] /\ req'[Filler].res \in Res
           /\ row'[Filler] \in RowsOf(req'[Filler].res)
<1> DEFINE r == Head(snap)[1]
<1> DEFINE rq == [op |-> "PUT", res |-> r, val |-> Head(snap)[2], mode |-> None,
                  absent |-> FALSE]
<1>0. pc \in [Proc -> Steps] /\ req = [p \in Proc |-> req[p]] /\ row = [p \in Proc |-> row[p]]
  BY DEF Ind, Typed, RowsFit
<1>1. /\ pc' = [pc EXCEPT ![Filler] = "put"] /\ req' = [req EXCEPT ![Filler] = rq]
      /\ row' = [row EXCEPT ![Filler] = Translate(map, r)]
      /\ snap # <<>> /\ snap' = Tail(snap) /\ pc[Filler] = "idle"
  BY DEF FillRow
<1>2. rq.res = r
  OBVIOUS
<1> HIDE DEF rq
<1>3. 1 \in DOMAIN snap /\ r = snap[1][1]
  BY <1>1, SnapHead DEF Listed, CopiesFit
<1>4. r \in Res
  BY <1>3 DEF Listed, CopiesFit
<1>5. Translate(map, r) \in RowsOf(r)
  BY <1>4, TranslateFits
<1>6. MovesOnly(Filler) /\ pc'[Filler] = "put" /\ req'[Filler] = rq /\ row'[Filler] = Translate(map, r)
  BY <1>0, <1>1, ProcMembers DEF MovesOnly
<1> QED
  BY <1>1, <1>2, <1>3, <1>4, <1>5, <1>6

LEMMA FillRowsFit ==
    ASSUME Ind, RowsFit, Listed, Backfill
    PROVE  RowsFit'
<1>1. CASE StartFill \/ FillPage \/ FillPageFails \/ FillSkips \/ FillUsersDone
  <2>1. UNCHANGED <<workos, row, map, pc, req, sink>>
    BY <1>1 DEF StartFill, FillPage, FillPageFails, FillSkips, FillUsersDone, upstreams, tables,
       procs
  <2> QED
    BY <2>1 DEF RowsFit
<1>2. CASE FillRow
  <2>1. UNCHANGED <<workos, map, sink>>
    BY <1>2 DEF FillRow, upstreams, tables
  <2>2. UNCHANGED workos /\ workos = [w \in Row |-> workos[w]] /\ UNCHANGED map /\ UNCHANGED sink
    BY <2>1 DEF RowsFit
  <2>3. /\ \A r \in Res : map'[r] \in RowsOf(r) \cup {None}
        /\ \A i \in DOMAIN sink' : sink'[i][1] \in Res /\ sink'[i][2] \in RowsOf(sink'[i][1])
    BY <2>1 DEF RowsFit
  <2> QED
    BY <1>2, <2>2, <2>3, FillRowMoves, RowStays, ProcMembers
<1>3. CASE FillRecord
  <2> DEFINE e == <<req[Filler].res, row[Filler]>>
  <2>0. /\ pc[Filler] = "record" /\ sink' = Append(sink, e) /\ Reset(Filler)
        /\ UNCHANGED <<workos, map>>
    BY <1>3 DEF FillRecord, upstreams, tables
  <2>1. MovesOnly(Filler) /\ pc'[Filler] = "idle"
    BY <2>0, ResetMoves, ProcMembers
  <2>2. PICK S : sink \in Seq(S)
    BY DEF Ind, Typed
  <2>3. \A i \in DOMAIN sink' : sink'[i] = e \/ (i \in DOMAIN sink /\ sink'[i] = sink[i])
    BY <2>0, <2>2, QueueGrows
  <2>4. e[1] \in Res /\ e[2] \in RowsOf(e[1])
    BY <2>0, ProcMembers DEF RowsFit, Early
  <2> HIDE DEF e
  <2>5. \A i \in DOMAIN sink' : sink'[i][1] \in Res /\ sink'[i][2] \in RowsOf(sink'[i][1])
    BY <2>3, <2>4 DEF RowsFit
  <2>6. workos' = [w \in Row |-> workos'[w]] /\ \A r \in Res : map'[r] \in RowsOf(r) \cup {None}
    BY <2>0 DEF RowsFit
  <2> QED
    BY <2>1, <2>5, <2>6, RowStays, ProcMembers DEF Early
<1>4. CASE FillFails
  <2>1. Reset(Filler) /\ UNCHANGED <<workos, map, sink>>
    BY <1>4 DEF FillFails, upstreams, tables, fill
  <2>2. MovesOnly(Filler) /\ pc'[Filler] = "idle"
    BY <2>1, ResetMoves, ProcMembers
  <2>3. /\ workos' = [w \in Row |-> workos'[w]] /\ \A r \in Res : map'[r] \in RowsOf(r) \cup {None}
        /\ \A i \in DOMAIN sink' : sink'[i][1] \in Res /\ sink'[i][2] \in RowsOf(sink'[i][1])
    BY <2>1 DEF RowsFit
  <2> QED
    BY <2>2, <2>3, RowStays, ProcMembers DEF Early
<1>5. CASE FlushWrites \/ FlushFails
  <2>0. PICK written \in BOOLEAN : Flush(written)
    BY <1>5 DEF FlushWrites, FlushFails
  <2>1. /\ map' = [r \in Res |-> IF written /\ r \in {x \in Res : Queued(x)} THEN SinkRow(r) ELSE map[r]]
        /\ sink' = <<>> /\ UNCHANGED <<workos, row, pc, req>>
    BY <2>0 DEF Flush, upstreams, procs
  <2>2. ASSUME NEW r \in Res, Queued(r) PROVE SinkRow(r) \in RowsOf(r)
    BY <2>2 DEF Queued, SinkRow, RowsFit
  <2>3. \A r \in Res : map'[r] \in RowsOf(r) \cup {None}
    BY <2>1, <2>2 DEF RowsFit
  <2> QED
    BY <2>1, <2>3 DEF RowsFit
<1> QED
  BY <1>1, <1>2, <1>3, <1>4, <1>5 DEF Backfill

LEMMA OutsideRowsFit ==
    ASSUME Ind, RowsFit, (\E m \in Mode : SetMode(m)) \/ CleanWorkos \/ Crash \/ UNCHANGED vars
    PROVE  RowsFit'
<1>1. CASE (\E m \in Mode : SetMode(m)) \/ UNCHANGED vars
  <2>1. UNCHANGED <<workos, row, map, pc, req, sink>>
    BY <1>1 DEF SetMode, vars, upstreams, tables, procs, fill
  <2> QED
    BY <2>1 DEF RowsFit
<1>2. CASE CleanWorkos
  <2>1. UNCHANGED <<row, map, pc, req, sink>> /\ workos' = [w \in Row |-> workos'[w]]
    BY <1>2 DEF CleanWorkos, tables, procs, fill
  <2> QED
    BY <2>1 DEF RowsFit
<1>3. CASE Crash
  <2>1. /\ UNCHANGED <<workos, map>> /\ pc' = [p \in Proc |-> "idle"]
        /\ row' = [p \in Proc |-> None] /\ sink' = <<>>
    BY <1>3 DEF Crash, upstreams, tables
  <2> QED
    BY <2>1, ProcMembers DEF RowsFit, Early
<1> QED
  BY <1>1, <1>2, <1>3

LEMMA RowsFitStays == ASSUME Ind, RowsFit, Listed, [Next]_vars PROVE RowsFit'
BY ReceiveRowsFit, ProxyRowsFit, DanceRowsFit, FillRowsFit, OutsideRowsFit DEF Next

-----------------------------------------------------------------------------
(* What native has, and what its listings say *)

LEMMA DropDrops ==
    ASSUME NEW S, NEW s \in Seq(Res), Lists(s, S), NEW r \in S
    PROVE  Drop(s, r) \in Seq(Res) /\ Lists(Drop(s, r), S \ {r})
<1> DEFINE at == CHOOSE i \in DOMAIN s : s[i] = r
<1>1. at \in 1..Len(s) /\ s[at] = r
  BY DEF Lists, Elements
<1> HIDE DEF at
<1> DEFINE d == [i \in 1..(Len(s) - 1) |-> IF i < at THEN s[i] ELSE s[i + 1]]
<1>2. Drop(s, r) = d
  BY DEF Drop, at
<1>3. Len(s) - 1 \in Nat /\ \A i \in 1..(Len(s) - 1) : i \in 1..Len(s) /\ i + 1 \in 1..Len(s)
  BY <1>1
<1>4. d \in Seq(Res) /\ DOMAIN d = 1..(Len(s) - 1)
  BY <1>1, <1>3
<1>5. \A i \in DOMAIN d : d[i] \in S \ {r}
  BY <1>1, <1>3, <1>4 DEF Lists, Elements
<1>6. ASSUME NEW x \in S \ {r} PROVE \E i \in DOMAIN d : d[i] = x
  <2>1. PICK j \in 1..Len(s) : s[j] = x
    BY DEF Lists, Elements
  <2>2. CASE j < at
    BY <1>1, <1>4, <2>1, <2>2
  <2>3. CASE ~(j < at)
    <3>1. j > at /\ j - 1 \in 1..(Len(s) - 1) /\ ~(j - 1 < at) /\ (j - 1) + 1 = j
      BY <1>1, <2>1, <2>3
    <3> QED
      BY <1>4, <2>1, <3>1
  <2> QED
    BY <2>2, <2>3
<1>7. \A i, j \in DOMAIN d : d[i] = d[j] => i = j
  BY <1>1, <1>3, <1>4 DEF Lists
<1>8. Elements(d) = S \ {r}
  BY <1>5, <1>6 DEF Elements
<1> QED
  BY <1>2, <1>4, <1>7, <1>8 DEF Lists

LEMMA ContentIsNoNone ==
    ASSUME NEW r \in Res, NEW v \in Content(r) PROVE v # None
<1>1. SUBSET Users \subseteq SUBSET Row
  BY DEF Row, Res
<1> QED
  BY <1>1, NoneAssumption DEF Content

(* A write of a table leaves the other users, and every other row that is there *)
(* or not, as it was.                                                          *)
LEMMA AppliedLeaves ==
    ASSUME NEW t, t = [x \in Res |-> t[x]], NEW r \in Res, NEW op, NEW v
    PROVE  /\ Applied(t, r, op, v) = [x \in Res |-> Applied(t, r, op, v)[x]]
           /\ \A x \in Users \ {r} : Applied(t, r, op, v)[x] = t[x]
           /\ op = "DELETE" => Applied(t, r, op, v)[r] = None
<1>1. DOMAIN Without(t, r) = Res /\ Without(t, r) = [x \in Res |-> Without(t, r)[x]]
  BY DEF Without
<1>2. \A x \in Users : Without(t, r)[x] = t[x]
  <2>1. \A x \in Users : x \notin Groups /\ x \notin {Mint(g) : g \in Groups} /\ x \in DOMAIN t
    BY KindAssumption, MintAssumption DEF Res
  <2> QED
    BY <2>1 DEF Without
<1> DEFINE w == Without(t, r)
<1>3. CASE op # "DELETE"
  BY <1>3 DEF Applied, Res
<1>4. CASE op = "DELETE" /\ r \in Users
  <2>1. Applied(t, r, op, v) = [w EXCEPT ![r] = None]
    BY <1>4 DEF Applied
  <2> HIDE DEF w
  <2>2. w = [x \in Res |-> w[x]] /\ \A x \in Users : w[x] = t[x]
    BY <1>1, <1>2 DEF w
  <2> QED
    BY <2>1, <2>2 DEF Res
<1>5. CASE op = "DELETE" /\ r \notin Users
  BY <1>5 DEF Applied, Res
<1> QED
  BY <1>3, <1>4, <1>5

LEMMA AppliedTyped ==
    ASSUME NEW t, t = [x \in Res |-> t[x]], \A x \in Res : t[x] \in Content(x) \cup {None},
           NEW r \in Res, NEW op \in Op, NEW v \in Content(r),
           r \in Users => op \notin {"ADD", "REMOVE"}, op \in {"ADD", "REMOVE"} => t[r] # None
    PROVE  \A x \in Res :
             /\ Applied(t, r, op, v)[x] \in Content(x) \cup {None}
             /\ Applied(t, r, op, v)[x] # None <=> IF x = r THEN op # "DELETE" ELSE t[x] # None
<1> DEFINE a == Applied(t, r, op, v)
<1>1. CASE op # "DELETE"
  <2>1. a = [t EXCEPT ![r] = After(t[r], op, v)]
    BY <1>1 DEF Applied
  <2>2. After(t[r], op, v) \in Content(r)
    <3>1. CASE op \in {"POST", "PUT", "PATCH"}
      BY <3>1 DEF After
    <3>2. CASE op \in {"ADD", "REMOVE"}
      <4>1. Content(r) = SUBSET Users /\ t[r] \in SUBSET Users
        BY <3>2 DEF Content
      <4> QED
        BY <3>2, <4>1 DEF After
    <3> QED
      BY <1>1, <3>1, <3>2 DEF Op
  <2>3. After(t[r], op, v) # None
    BY <2>2, ContentIsNoNone
  <2> QED
    BY <1>1, <2>1, <2>2, <2>3
<1>2. CASE op = "DELETE" /\ r \in Users
  <2> DEFINE w == Without(t, r)
  <2>1. a = [w EXCEPT ![r] = None] /\ w = [x \in Res |-> w[x]]
    BY <1>2 DEF Applied, Without
  <2>2. ASSUME NEW x \in Res
        PROVE  w[x] \in Content(x) \cup {None} /\ (w[x] # None <=> t[x] # None)
    <3>1. CASE x \in Groups
      <4>1. w[x] = IF t[x] = None THEN None ELSE t[x] \ {r}
        BY <3>1 DEF Without
      <4>2. Content(x) = SUBSET Users /\ t[x] \in (SUBSET Users) \cup {None}
        BY <3>1, KindAssumption DEF Content
      <4>3. CASE t[x] = None
        BY <4>1, <4>3
      <4>4. CASE t[x] # None
        <5>1. w[x] \in Content(x)
          BY <4>1, <4>2, <4>4
        <5> QED
          BY <4>4, <5>1, ContentIsNoNone
      <4> QED
        BY <4>3, <4>4
    <3>2. CASE x \notin Groups
      <4>1. x \notin {Mint(g) : g \in Groups}
        BY MintAssumption DEF Res
      <4>2. w[x] = t[x]
        BY <3>2, <4>1 DEF Without
      <4> QED
        BY <4>2
    <3> QED
      BY <3>1, <3>2
  <2> HIDE DEF w
  <2> QED
    BY <1>2, <2>1, <2>2
<1>3. CASE op = "DELETE" /\ r \notin Users
  <2>1. a = [t EXCEPT ![r] = None]
    BY <1>3 DEF Applied
  <2> QED
    BY <1>3, <2>1
<1> QED
  BY <1>1, <1>2, <1>3

LEMMA AppendLists ==
    ASSUME NEW S, NEW s \in Seq(Res), Lists(s, S), NEW r \in Res, r \notin S
    PROVE  Append(s, r) \in Seq(Res) /\ Lists(Append(s, r), S \cup {r})
<1> DEFINE a == Append(s, r)
<1>1. /\ a \in Seq(Res) /\ DOMAIN a = 1..(Len(s) + 1) /\ a[Len(s) + 1] = r
      /\ \A i \in 1..Len(s) : a[i] = s[i]
  OBVIOUS
<1> HIDE DEF a
<1>2. DOMAIN s = 1..Len(s) /\ Len(s) \in Nat
  OBVIOUS
<1>3. \A i \in 1..(Len(s) + 1) : i = Len(s) + 1 \/ i \in 1..Len(s)
  BY <1>2
<1>4. \A i \in 1..Len(s) : s[i] \in S /\ s[i] # r
  BY <1>2 DEF Lists, Elements
<1>5. Elements(a) = S \cup {r}
  <2>1. ASSUME NEW x \in Elements(a) PROVE x \in S \cup {r}
    BY <1>1, <1>3, <1>4 DEF Elements
  <2>2. ASSUME NEW x \in S \cup {r} PROVE x \in Elements(a)
    <3>1. CASE x = r
      BY <1>1, <1>2, <3>1 DEF Elements
    <3>2. CASE x \in S
      <4>1. PICK i \in 1..Len(s) : s[i] = x
        BY <1>2, <3>2 DEF Lists, Elements
      <4> QED
        BY <1>1, <1>2, <4>1 DEF Elements
    <3> QED
      BY <3>1, <3>2
  <2> QED
    BY <2>1, <2>2
<1>6. \A i, j \in DOMAIN a : a[i] = a[j] => i = j
  BY <1>1, <1>2, <1>3, <1>4 DEF Lists
<1> QED
  BY <1>1, <1>5, <1>6 DEF Lists, a

LEMMA NativeWritesDoes ==
    ASSUME Ind, Listed, NEW q \in Req, pc[q] = "native", NativeAccepts(req[q].res, req[q].op),
           NativeWrites(q)
    PROVE  NativeLists' /\ wrote' = wrote \cup {req[q].res}
           /\ \A x \in Users \ {req[q].res} : native'[x] = native[x]
<1> DEFINE r == req[q].res
           op == req[q].op
           v == req[q].val
           Has(R) == {x \in R : native[x] # None}
           HasNow(R) == {x \in R : native'[x] # None}
<1>1. /\ r \in Res /\ op \in Op /\ v \in Content(r)
      /\ r \in Users => op \notin {"ADD", "REMOVE"}
      /\ (native[r] = None) <=> (op = "POST")
  <2>1. r \in Res
    BY DEF Ind, Requested, HasRes
  <2>2. (native[r] = None) <=> (op = "POST")
    BY DEF NativeAccepts
  <2> QED
    BY <2>1, <2>2 DEF Listed, AsksFit
<1>2. /\ native' = Applied(native, r, op, v) /\ wrote' = wrote \cup {r}
      /\ born' = [born EXCEPT ![Endpoint(r)] = IF op = "POST" THEN Append(born[Endpoint(r)], r)
                                               ELSE IF op = "DELETE" THEN Drop(born[Endpoint(r)], r)
                                               ELSE born[Endpoint(r)]]
  BY DEF NativeWrites
<1>3. /\ native = [x \in Res |-> native[x]] /\ \A x \in Res : native[x] \in Content(x) \cup {None}
      /\ born = [k \in {"users", "groups"} |-> born[k]]
      /\ born["users"] \in Seq(Res) /\ Lists(born["users"], Has(Users))
      /\ born["groups"] \in Seq(Res) /\ Lists(born["groups"], Has(Groups))
  BY DEF Listed, NativeLists
<1>4. /\ native' = [x \in Res |-> native'[x]]
      /\ \A x \in Users \ {r} : native'[x] = native[x]
      /\ \A x \in Res : native'[x] \in Content(x) \cup {None}
      /\ \A x \in Res : native'[x] # None <=> IF x = r THEN op # "DELETE" ELSE native[x] # None
  <2>1. op \in {"ADD", "REMOVE"} => native[r] # None
    BY <1>1
  <2>2. \A x \in Res : /\ Applied(native, r, op, v)[x] \in Content(x) \cup {None}
                       /\ Applied(native, r, op, v)[x] # None <=>
                            IF x = r THEN op # "DELETE" ELSE native[x] # None
    BY <1>1, <1>3, <2>1, AppliedTyped
  <2> QED
    BY <1>1, <1>2, <1>3, <2>2, AppliedLeaves
<1> HIDE DEF r, op, v
<1>5. ASSUME NEW k \in {"users", "groups"}, NEW R, R = IF k = "users" THEN Users ELSE Groups
      PROVE  born'[k] \in Seq(Res) /\ Lists(born'[k], HasNow(R))
  <2>0. /\ born[k] \in Seq(Res) /\ Lists(born[k], Has(R)) /\ R \subseteq Res
        /\ r \in R <=> Endpoint(r) = k
    BY <1>1, <1>3, <1>5, KindAssumption DEF Res, Endpoint
  <2>1. CASE r \notin R
    <3>2. born'[k] = born[k] /\ HasNow(R) = Has(R)
      BY <1>2, <1>3, <1>4, <2>0, <2>1
    <3> QED
      BY <2>0, <3>2
  <2>2. CASE r \in R
    <3>3. born'[k] = IF op = "POST" THEN Append(born[k], r)
                     ELSE IF op = "DELETE" THEN Drop(born[k], r) ELSE born[k]
      BY <1>2, <1>3, <2>0, <2>2
    <3>4. CASE op = "POST"
      <4>1. r \notin Has(R) /\ HasNow(R) = Has(R) \cup {r}
        BY <1>1, <1>4, <2>0, <2>2, <3>4
      <4> QED
        BY <1>1, <2>0, <3>3, <3>4, <4>1, AppendLists
    <3>5. CASE op = "DELETE"
      <4>1. r \in Has(R) /\ HasNow(R) = Has(R) \ {r}
        BY <1>1, <1>4, <2>0, <2>2, <3>5
      <4>2. Drop(born[k], r) \in Seq(Res) /\ Lists(Drop(born[k], r), Has(R) \ {r})
        BY <2>0, <4>1, DropDrops
      <4> QED
        BY <3>3, <3>5, <4>1, <4>2
    <3>6. CASE op \notin {"POST", "DELETE"}
      <4>1. HasNow(R) = Has(R)
        BY <1>1, <1>4, <2>0, <3>6
      <4> QED
        BY <2>0, <3>3, <3>6, <4>1
    <3> QED
      BY <3>4, <3>5, <3>6
  <2> QED
    BY <2>1, <2>2
<1>6. born' = [k \in {"users", "groups"} |-> born'[k]]
  BY <1>2, <1>3
<1>7. born'["users"] \in Seq(Res) /\ Lists(born'["users"], HasNow(Users))
  BY <1>5
<1>8. born'["groups"] \in Seq(Res) /\ Lists(born'["groups"], HasNow(Groups))
  BY <1>5
<1> QED
  BY <1>2, <1>4, <1>6, <1>7, <1>8 DEF NativeLists, r

LEMMA NativeStep ==
    ASSUME Ind, Listed, [Next]_vars
    PROVE  /\ NativeLists' /\ wrote \subseteq wrote' /\ \A x \in Users \ wrote' : native'[x] = native[x]
<1>1. ASSUME UNCHANGED <<native, born, wrote>>
      PROVE  /\ NativeLists' /\ wrote \subseteq wrote' /\ \A x \in Users \ wrote' : native'[x] = native[x]
  BY <1>1 DEF Listed, NativeLists
<1>2. ASSUME NEW q \in Req, Proxy(q), ~UNCHANGED <<native, born, wrote>>
      PROVE  pc[q] = "native" /\ NativeAccepts(req[q].res, req[q].op) /\ NativeWrites(q)
  <2>1. CASE NativeLeg(q)
    BY <2>1 DEF NativeLeg
  <2>2. CASE NativeAnswerLost(q)
    BY <2>2 DEF NativeAnswerLost
  <2>3. CASE ~NativeLeg(q) /\ ~NativeAnswerLost(q)
    BY <1>2, <2>3 DEF Proxy, NativeRefuses, ClearGap, SkipReplace, Load, Record, PatchHits, PatchAnswerLost, DeleteRow,
       PruneMapping, PruneFails, Retire, MirrorFails, upstreams, history, MirrorUnchanged
  <2> QED
    BY <2>1, <2>2, <2>3
<1>3. ASSUME NEW q \in Req, Proxy(q)
      PROVE  /\ NativeLists' /\ wrote \subseteq wrote' /\ \A x \in Users \ wrote' : native'[x] = native[x]
  BY <1>1, <1>2, <1>3, NativeWritesDoes
<1>4. ASSUME NEW q \in Proc, Dance(q) PROVE UNCHANGED <<native, born, wrote>>
  BY <1>4 DEF Dance, PutHits, PutMisses, PostCreates, PostConflicts, Reput, Lookup, Sync,
     MirrorUnchanged, history
<1>5. ASSUME NEW q \in Req, NEW op, NEW r, NEW v, Receive(q, op, r, v)
      PROVE  UNCHANGED <<native, born, wrote>>
  BY <1>5 DEF Receive, upstreams
<1>6. ASSUME Backfill PROVE UNCHANGED <<native, born, wrote>>
  BY <1>6 DEF Backfill, StartFill, FillPage, FillPageFails, FillSkips, FillRow, FillRecord, FillFails,
     FlushWrites, FlushFails, Flush, FillUsersDone, upstreams, history
<1>7. ASSUME (\E m \in Mode : SetMode(m)) \/ CleanWorkos \/ Crash \/ UNCHANGED vars
      PROVE  UNCHANGED <<native, born, wrote>>
  BY <1>7 DEF SetMode, CleanWorkos, Crash, vars, upstreams, history
<1> QED
  BY <1>1, <1>3, <1>4, <1>5, <1>6, <1>7 DEF Next

-----------------------------------------------------------------------------
(* What the backfill has to copy *)

LEMMA PartOf ==
    ASSUME NEW s \in Seq(Res), NEW from \in Nat \ {0}, NEW to \in Nat, to <= Len(s)
    PROVE  /\ SubSeq(s, from, to) \in Seq(Res)
           /\ \A i \in DOMAIN SubSeq(s, from, to) : \E j \in DOMAIN s : SubSeq(s, from, to)[i] = s[j]
<1>1. CASE from > to
  <2>1. SubSeq(s, from, to) = <<>>
    BY <1>1
  <2> QED
    BY <2>1
<1>2. CASE from <= to
  <2>1. /\ SubSeq(s, from, to) \in Seq(Res) /\ Len(SubSeq(s, from, to)) = to - from + 1
        /\ \A i \in 1..(to - from + 1) : SubSeq(s, from, to)[i] = s[from + i - 1] /\ from + i - 1 \in 1..Len(s)
    BY <1>2
  <2>2. DOMAIN SubSeq(s, from, to) = 1..(to - from + 1) /\ DOMAIN s = 1..Len(s)
    BY <1>2, <2>1
  <2> QED
    BY <2>1, <2>2
<1> QED
  BY <1>1, <1>2

LEMMA PageLists ==
    ASSUME Listed, stage \in {"users", "groups"}, NEW from \in Nat \ {0}
    PROVE  Page(from) \in Seq(Res) /\ \A i \in DOMAIN Page(from) : native[Page(from)[i]] # None
<1>1. Listing \in Seq(Res) /\ \A j \in DOMAIN Listing : native[Listing[j]] # None
  <2>1. PICK S : Lists(Listing, S) /\ \A x \in S : native[x] # None
    <3>1. CASE stage = "users"
      BY <3>1 DEF Listed, NativeLists, Listing
    <3>2. CASE stage = "groups"
      BY <3>2 DEF Listed, NativeLists, Listing
    <3> QED
      BY <3>1, <3>2
  <2>2. Listing \in Seq(Res)
    BY DEF Listed, NativeLists, Listing
  <2>3. \A j \in DOMAIN Listing : Listing[j] \in S
    BY <2>1 DEF Lists, Elements
  <2> QED
    BY <2>1, <2>2, <2>3
<1> DEFINE to == IF from + PageSize - 1 < Len(Listing) THEN from + PageSize - 1 ELSE Len(Listing)
<1>2. to \in Nat /\ to <= Len(Listing)
  BY <1>1, SizeAssumption
<1>3. Page(from) = SubSeq(Listing, from, to)
  BY DEF Page
<1> HIDE DEF to
<1> QED
  BY <1>1, <1>2, <1>3, PartOf

LEMMA CopyOf ==
    ASSUME NEW rows \in Seq(Res)
    PROVE  /\ \E S : Copy(rows) \in Seq(S)
           /\ DOMAIN Copy(rows) = DOMAIN rows /\ \A i \in DOMAIN rows : Copy(rows)[i][1] = rows[i]
<1> DEFINE S == {<<rows[i], native[rows[i]]>> : i \in DOMAIN rows}
<1>1. Copy(rows) \in Seq(S)
  BY DEF Copy
<1> QED
  BY <1>1 DEF Copy

LEMMA JoinedFrom ==
    ASSUME NEW S, NEW s \in Seq(S), NEW T, NEW t \in Seq(T)
    PROVE  /\ s \o t \in Seq(S \cup T)
           /\ \A i \in DOMAIN (s \o t) :
                \/ i \in DOMAIN s /\ (s \o t)[i] = s[i]
                \/ i - Len(s) \in DOMAIN t /\ (s \o t)[i] = t[i - Len(s)]
<1>1. s \in Seq(S \cup T) /\ t \in Seq(S \cup T)
  OBVIOUS
<1> QED
  BY <1>1

LEMMA PageCopies ==
    ASSUME Listed, FillPage
    PROVE  /\ \E S : snap' \in Seq(S)
           /\ \A i \in DOMAIN snap' :
                \/ i \in DOMAIN snap /\ snap'[i] = snap[i]
                \/ snap'[i][1] \in Res /\ native[snap'[i][1]] # None
<1>1. PICK S : snap \in Seq(S)
  BY DEF Listed, CopiesFit
<1>2. stage \in {"users", "groups"} /\ Len(snap) + 1 \in Nat \ {0}
  BY <1>1 DEF FillPage
<1> DEFINE rows == Page(Len(snap) + 1)
           copy == Copy(rows)
<1>3. rows \in Seq(Res) /\ \A i \in DOMAIN rows : native[rows[i]] # None
  BY <1>2, PageLists
<1> HIDE DEF rows
<1>4. /\ \E T : copy \in Seq(T)
      /\ DOMAIN copy = DOMAIN rows /\ \A i \in DOMAIN rows : copy[i][1] = rows[i]
  BY <1>3, CopyOf
<1>5. \A i \in DOMAIN copy : copy[i][1] \in Res /\ native[copy[i][1]] # None
  BY <1>3, <1>4
<1>6. snap' = snap \o copy
  BY DEF FillPage, rows
<1> HIDE DEF copy
<1>7. PICK T : copy \in Seq(T)
  BY <1>4
<1>8. /\ snap \o copy \in Seq(S \cup T)
      /\ \A i \in DOMAIN (snap \o copy) :
            \/ i \in DOMAIN snap /\ (snap \o copy)[i] = snap[i]
            \/ i - Len(snap) \in DOMAIN copy /\ (snap \o copy)[i] = copy[i - Len(snap)]
  BY <1>1, <1>7, JoinedFrom
<1> QED
  BY <1>5, <1>6, <1>8

LEMMA TailOf ==
    ASSUME \E S : snap \in Seq(S), snap # <<>>, snap' = Tail(snap)
    PROVE  /\ \E S : snap' \in Seq(S)
           /\ \A i \in DOMAIN snap' : i + 1 \in DOMAIN snap /\ snap'[i] = snap[i + 1]
<1>1. PICK S : snap \in Seq(S)
  OBVIOUS
<1>2. Tail(snap) \in Seq(S) /\ \A i \in DOMAIN Tail(snap) : i + 1 \in DOMAIN snap /\ Tail(snap)[i] = snap[i + 1]
  BY <1>1
<1> QED
  BY <1>2

LEMMA CopiesStay ==
    ASSUME CopiesFit, stage' \in {"off", "users", "groups", "flush"} \cup Rows,
           \E S : snap' \in Seq(S),
           \A i \in DOMAIN snap' : \/ \E j \in DOMAIN snap : snap'[i][1] = snap[j][1]
                                   \/ snap'[i][1] \in Res /\ native[snap'[i][1]] # None,
           pc'[Filler] # "idle" =>
              \/ pc[Filler] # "idle" /\ req'[Filler].res = req[Filler].res
              \/ \E j \in DOMAIN snap : req'[Filler].res = snap[j][1]
    PROVE  CopiesFit' /\ \A r \in Res : native[r] = None /\ NotCopied(r) => NotCopied(r)'
<1>1. CopiesFit'
  BY DEF CopiesFit
<1>2. ASSUME NEW r \in Res, native[r] = None, NotCopied(r) PROVE NotCopied(r)'
  BY <1>2 DEF NotCopied, Engaged
<1> QED
  BY <1>1, <1>2

LEMMA CopyStep ==
    ASSUME Ind, RowsFit, Listed, [Next]_vars
    PROVE  CopiesFit' /\ \A r \in Res : native[r] = None /\ NotCopied(r) => NotCopied(r)'
<1> DEFINE FillerStays == pc'[Filler] # "idle" => pc[Filler] # "idle" /\ req'[Filler].res = req[Filler].res
<1>0. CopiesFit
  BY DEF Listed
<1>1. ASSUME UNCHANGED snap, stage' \in {"off", "users", "groups", "flush"} \cup Rows, FillerStays
      PROVE  CopiesFit' /\ \A r \in Res : native[r] = None /\ NotCopied(r) => NotCopied(r)'
  <2>1. \A i \in DOMAIN snap' : \E j \in DOMAIN snap : snap'[i][1] = snap[j][1]
    BY <1>1
  <2>2. \E S : snap' \in Seq(S)
    BY <1>0, <1>1 DEF CopiesFit
  <2> QED
    BY <1>0, <1>1, <2>1, <2>2, CopiesStay
<1>2. ASSUME UNCHANGED <<stage, snap>>, FillerStays
      PROVE  CopiesFit' /\ \A r \in Res : native[r] = None /\ NotCopied(r) => NotCopied(r)'
  BY <1>0, <1>1, <1>2 DEF CopiesFit
<1>3. ASSUME NEW q \in Req, MovesOnly(q) PROVE FillerStays
  BY <1>3, ProcMembers DEF MovesOnly
<1>4. ASSUME NEW q \in Req, Proxy(q)
      PROVE  CopiesFit' /\ \A r \in Res : native[r] = None /\ NotCopied(r) => NotCopied(r)'
  <2>1. UNCHANGED <<stage, snap>>
    BY <1>4 DEF Proxy, NativeLeg, NativeRefuses, NativeAnswerLost, ClearGap, SkipReplace, Load, Record,
       PatchHits, PatchAnswerLost, DeleteRow, PruneMapping, PruneFails, Retire, MirrorFails, fill,
       MirrorUnchanged
  <2> QED
    BY <1>2, <1>3, <1>4, <2>1, ProxyMoves
<1>5. ASSUME NEW q \in Proc, Dance(q)
      PROVE  CopiesFit' /\ \A r \in Res : native[r] = None /\ NotCopied(r) => NotCopied(r)'
  <2>1. UNCHANGED <<stage, snap>>
    BY <1>5 DEF Dance, PutHits, PutMisses, PostCreates, PostConflicts, Reput, Lookup, Sync,
       MirrorUnchanged, fill
  <2>2. FillerStays
    BY <1>3, <1>5, DanceMoves, ProcMembers DEF Dancing, Proc
  <2> QED
    BY <1>2, <2>1, <2>2
<1>6. ASSUME NEW q \in Req, NEW op, NEW r, NEW v, Receive(q, op, r, v)
      PROVE  CopiesFit' /\ \A x \in Res : native[x] = None /\ NotCopied(x) => NotCopied(x)'
  <2>1. UNCHANGED <<stage, snap>>
    BY <1>6 DEF Receive, fill
  <2> QED
    BY <1>2, <1>3, <1>6, <2>1, ReceiveMoves
<1>7. CASE FillRecord \/ FillFails
  <2>1. UNCHANGED <<stage, snap>> /\ Reset(Filler)
    BY <1>7 DEF FillRecord, FillFails, fill
  <2> QED
    BY <1>2, <2>1, ResetMoves, ProcMembers
<1>8. CASE StartFill \/ FillPageFails \/ FillUsersDone
  <2>1. UNCHANGED <<snap, pc, req>> /\ stage' \in {"off", "users", "groups", "flush"} \cup Rows
    BY <1>8 DEF StartFill, FillPageFails, FillUsersDone, procs, Rows
  <2> QED
    BY <1>1, <2>1
<1>9. CASE FlushWrites \/ FlushFails
  <2>1. UNCHANGED <<snap, pc, req>> /\ stage' = AfterFlush
    BY <1>9 DEF FlushWrites, FlushFails, Flush, procs
  <2>2. stage' \in {"off", "users", "groups", "flush"} \cup Rows
    BY <1>0, <2>1 DEF AfterFlush, CopiesFit, Rows
  <2> QED
    BY <1>1, <2>1, <2>2
<1>10. CASE FillPage
  <2>1. UNCHANGED <<pc, req>> /\ stage' \in {"off", "users", "groups", "flush"} \cup Rows
    BY <1>10 DEF FillPage, procs, Rows
  <2>2. /\ \E S : snap' \in Seq(S)
        /\ \A i \in DOMAIN snap' : \/ \E j \in DOMAIN snap : snap'[i][1] = snap[j][1]
                                   \/ snap'[i][1] \in Res /\ native[snap'[i][1]] # None
    BY <1>10, PageCopies
  <2> QED
    BY <1>0, <2>1, <2>2, CopiesStay
<1>11. CASE FillSkips \/ FillRow
  <2>1. UNCHANGED stage /\ snap # <<>> /\ snap' = Tail(snap)
    BY <1>11 DEF FillSkips, FillRow
  <2>2. \E S : snap \in Seq(S)
    BY <1>0 DEF CopiesFit
  <2>3. /\ \E S : snap' \in Seq(S)
        /\ \A i \in DOMAIN snap' : \E j \in DOMAIN snap : snap'[i][1] = snap[j][1]
    BY <2>1, <2>2, TailOf
  <2>4. pc'[Filler] # "idle" =>
              \/ pc[Filler] # "idle" /\ req'[Filler].res = req[Filler].res
              \/ \E j \in DOMAIN snap : req'[Filler].res = snap[j][1]
    <3>1. CASE FillSkips
      BY <3>1 DEF FillSkips, procs
    <3>2. CASE FillRow
      BY <3>2, FillRowMoves
    <3> QED
      BY <1>11, <3>1, <3>2
  <2> QED
    BY <1>0, <2>1, <2>3, <2>4, CopiesStay DEF CopiesFit
<1>12. CASE Backfill
  BY <1>7, <1>8, <1>9, <1>10, <1>11, <1>12 DEF Backfill
<1>13. CASE (\E m \in Mode : SetMode(m)) \/ CleanWorkos \/ UNCHANGED vars
  <2>1. UNCHANGED <<stage, snap, pc, req>>
    BY <1>13 DEF SetMode, CleanWorkos, vars, procs, fill
  <2> QED
    BY <1>2, <2>1
<1>14. CASE Crash
  <2>1. stage' = "off" /\ snap' = <<>> /\ pc'[Filler] = "idle"
    BY <1>14, ProcMembers DEF Crash
  <2>2. snap' \in Seq({})
    BY <2>1
  <2>3. \A i \in DOMAIN snap' : FALSE
    BY <2>1
  <2>4. \E S : snap' \in Seq(S)
    BY <2>2
  <2> QED
    BY <1>0, <2>1, <2>3, <2>4, CopiesStay
<1> QED
  BY <1>4, <1>5, <1>6, <1>12, <1>13, <1>14 DEF Next

-----------------------------------------------------------------------------
(* What the requests ask for *)

Onward(p) ==
    \/ pc'[p] = "idle"
    \/ pc'[p] = pc[p] /\ req'[p] = req[p] /\ row'[p] = row[p]
    \/ pc[p] # "idle" /\ Goes(p)
    \/ pc[p] \in Dancing /\ pc'[p] \in Dancing /\ req'[p] = req[p]

Arrives(p) == \E op \in Op, r \in Res : \E v \in Content(r) : Receive(p, op, r, v)

LEMMA RequestsMove ==
    ASSUME Ind, RowsFit, Listed, [Next]_vars
    PROVE  \/ \A p \in Req : Onward(p)
           \/ \E q \in Req : Arrives(q) /\ \A p \in Req \ {q} : Onward(p)
<1>1. ASSUME NEW q \in Proc, MovesOnly(q) PROVE \A p \in Req \ {q} : Onward(p)
  BY <1>1, ProcMembers DEF MovesOnly, Onward
<1>2. ASSUME NEW q \in Req, Proxy(q) PROVE \A p \in Req : Onward(p)
  <2>1. MovesOnly(q) /\ Onward(q) /\ q \in Proc
    BY <1>2, ProxyMoves, ProcMembers DEF Onward
  <2> QED
    BY <1>1, <2>1
<1>3. ASSUME NEW q \in Proc, Dance(q) PROVE \A p \in Req : Onward(p)
  <2>1. MovesOnly(q) /\ Onward(q)
    BY <1>3, DanceMoves DEF Onward
  <2> QED
    BY <1>1, <2>1
<1>4. ASSUME NEW q \in Req, NEW op \in Op, NEW r \in Res,
             NEW v \in (IF r \in Users THEN Flag ELSE SUBSET Users), Receive(q, op, r, v)
      PROVE  Arrives(q) /\ \A p \in Req \ {q} : Onward(p)
  <2>1. MovesOnly(q) /\ q \in Proc
    BY <1>4, ReceiveMoves, ProcMembers
  <2>2. v \in Content(r)
    BY DEF Content
  <2>3. Arrives(q)
    BY <1>4, <2>2 DEF Arrives
  <2> QED
    BY <1>1, <2>1, <2>3
<1>5. ASSUME UNCHANGED <<pc, req, row>> PROVE \A p \in Req : Onward(p)
  BY <1>5 DEF Onward
<1>6. CASE Backfill
  <2>1. CASE FillRow
    BY <1>1, <2>1, FillRowMoves, ProcMembers
  <2>2. CASE FillRecord \/ FillFails
    <3>1. Reset(Filler)
      BY <2>2 DEF FillRecord, FillFails
    <3> QED
      BY <1>1, <3>1, ResetMoves, ProcMembers
  <2>3. CASE ~FillRow /\ ~FillRecord /\ ~FillFails
    <3>1. UNCHANGED <<pc, req, row>>
      BY <1>6, <2>3 DEF Backfill, StartFill, FillPage, FillPageFails, FillSkips, FlushWrites,
         FlushFails, Flush, FillUsersDone, procs
    <3> QED
      BY <1>5, <3>1
  <2> QED
    BY <2>1, <2>2, <2>3
<1>7. CASE (\E m \in Mode : SetMode(m)) \/ CleanWorkos \/ UNCHANGED vars
  <2>1. UNCHANGED <<pc, req, row>>
    BY <1>7 DEF SetMode, CleanWorkos, vars, procs
  <2> QED
    BY <1>5, <2>1
<1>8. CASE Crash
  BY <1>8, ProcMembers DEF Crash, Onward
<1> QED
  BY <1>2, <1>3, <1>4, <1>6, <1>7, <1>8 DEF Next

(* A request keeps what it asks for while it is under way.                      *)
LEMMA OnwardKeeps ==
    ASSUME Ind, NEW p \in Req, Onward(p), pc'[p] # "idle"
    PROVE  /\ pc[p] # "idle" /\ req'[p].res = req[p].res /\ req'[p].op = req[p].op
           /\ req'[p].val = req[p].val /\ req'[p].mode = req[p].mode
<1>1. req[p] \in Requests /\ pc[p] \in Steps
  BY ProcMembers DEF Ind, Typed
<1>2. CASE pc[p] # "idle" /\ req'[p] = [req[p] EXCEPT !.absent = TRUE]
  <2> DEFINE c == [req[p] EXCEPT !.absent = TRUE]
  <2>1. c.res = req[p].res /\ c.op = req[p].op /\ c.val = req[p].val /\ c.mode = req[p].mode
    BY <1>1 DEF Requests
  <2> QED
    BY <1>2, <2>1
<1>3. CASE req'[p] = req[p] /\ pc[p] # "idle"
  BY <1>3
<1>4. \/ req'[p] = req[p]
      \/ Goes(p) /\ req'[p] = [req[p] EXCEPT !.absent = TRUE]
  BY DEF Onward, Goes
<1>5. pc[p] # "idle"
  BY DEF Onward, Dancing
<1> QED
  BY <1>2, <1>3, <1>4, <1>5

LEMMA AsksStep ==
    ASSUME Ind, RowsFit, Listed, OneUnanswered, AbsentDeletes, [Next]_vars
    PROVE  AsksFit' /\ OneUnanswered' /\ AbsentDeletes'
<1>0. AsksFit
  BY DEF Listed
<1>1. ASSUME NEW p \in Req, Onward(p), pc'[p] # "idle"
      PROVE  /\ req'[p].op \in Op /\ req'[p].val \in Content(req'[p].res)
             /\ req'[p].res \in Users => req'[p].op \notin {"ADD", "REMOVE"}
  BY <1>0, <1>1, OnwardKeeps DEF AsksFit
<1>2. ASSUME NEW p \in Req, Onward(p), Unanswered(p)'
      PROVE  Unanswered(p) /\ req'[p].res = req[p].res
  <2>1. pc'[p] # "idle"
    BY <1>2 DEF Unanswered, Busy
  <2>2. pc[p] # "idle" /\ req'[p].res = req[p].res /\ req'[p].mode = req[p].mode
    BY <1>2, <2>1, OnwardKeeps
  <2>3. pc'[p] = "native" => pc[p] = "native"
    BY <1>2, <2>1 DEF Onward, Goes, Dancing
  <2> QED
    BY <1>2, <2>2, <2>3 DEF Unanswered, Busy
<1>3. ASSUME NEW p \in Req, Onward(p), pc'[p] # "idle"
      PROVE  /\ pc'[p] = "native" => ~req'[p].absent
             /\ pc'[p] = "retire" => req'[p].absent
             /\ req'[p].absent => req'[p].mode = "dual-write"
  <2>0. /\ pc[p] # "idle" /\ req'[p].mode = req[p].mode /\ req[p] \in Requests
        /\ pc[p] = "native" => ~req[p].absent
        /\ pc[p] = "retire" => req[p].absent
        /\ req[p].absent => req[p].mode = "dual-write"
    BY <1>3, OnwardKeeps, ProcMembers DEF Ind, Typed, AbsentDeletes
  <2>1. CASE req'[p] = req[p]
    BY <1>3, <2>0, <2>1 DEF Onward, Goes, Dancing
  <2>2. CASE req'[p] # req[p]
    <3>1. NativeRefuses(p) /\ pc'[p] = "load"
      BY <1>3, <2>2 DEF Onward, Goes
    <3>2. pc'[p] = "idle" \/ req[p].mode = "dual-write"
      <4>1. CASE Reset(p)
        BY <4>1, ProcMembers DEF Reset, Ind, Typed
      <4>2. CASE ~Reset(p)
        BY <3>1, <4>2 DEF NativeRefuses
      <4> QED
        BY <4>1, <4>2
    <3> QED
      BY <2>0, <3>1, <3>2
  <2> QED
    BY <2>1, <2>2
<1>4. CASE \A p \in Req : Onward(p)
  <2>1. AsksFit'
    BY <1>1, <1>4 DEF AsksFit
  <2>2. OneUnanswered'
    BY <1>2, <1>4 DEF OneUnanswered
  <2>3. AbsentDeletes'
    BY <1>3, <1>4 DEF AbsentDeletes
  <2> QED
    BY <2>1, <2>2, <2>3
<1>5. ASSUME NEW q \in Req, Arrives(q), \A p \in Req \ {q} : Onward(p)
      PROVE  AsksFit' /\ OneUnanswered' /\ AbsentDeletes'
  <2>1. PICK op \in Op, r \in Res : \E v \in Content(r) : Receive(q, op, r, v)
    BY <1>5 DEF Arrives
  <2>2. PICK v \in Content(r) : Receive(q, op, r, v)
    BY <2>1
  <2> DEFINE rq == [op |-> op, res |-> r, val |-> v, mode |-> mode, absent |-> FALSE]
  <2>3. pc'[q] \in {"native", "load"} /\ req'[q] = rq
    BY <2>2, ReceiveMoves
  <2>4. req'[q].op = op /\ req'[q].res = r /\ req'[q].val = v /\ ~req'[q].absent
    BY <2>3
  <2>5. /\ r \in Users => op \notin {"ADD", "REMOVE"}
        /\ \A p \in Req : Unanswered(p) => req[p].res # r
    BY <2>2 DEF Receive, Legal
  <2> HIDE DEF rq
  <2>6. AsksFit'
    BY <1>1, <1>5, <2>4, <2>5 DEF AsksFit
  <2>7. OneUnanswered'
    BY <1>2, <1>5, <2>4, <2>5 DEF OneUnanswered
  <2>8. AbsentDeletes'
    BY <1>3, <1>5, <2>3, <2>4 DEF AbsentDeletes
  <2> QED
    BY <2>6, <2>7, <2>8
<1> QED
  BY <1>4, <1>5, RequestsMove

-----------------------------------------------------------------------------
(* What the IdP has been told, what the ledger lists, and what is gone *)

LEMMA SettleWant ==
    ASSUME NEW q \in Req, NEW ok, NEW aside, SettleAside(q, ok, aside), pc[q] # "idle"
    PROVE  \/ want' = want
           \/ /\ req[q].mode = "workos-only"
              /\ want' = Applied(want, req[q].res, req[q].op, req[q].val)
BY DEF SettleAside

(* Only an answer changes what the IdP was told.                                *)
LEMMA WantMoves ==
    ASSUME [Next]_vars
    PROVE  \/ want' = want
           \/ \E q \in Req : \E op, v :
                /\ pc[q] # "idle" /\ (pc[q] = "native" \/ req[q].mode = "workos-only")
                /\ want' = Applied(want, req[q].res, op, v)
<1> DEFINE Told(q) ==
        /\ pc[q] # "idle" /\ (pc[q] = "native" \/ req[q].mode = "workos-only")
        /\ \E op, v : want' = Applied(want, req[q].res, op, v)
<1>1. ASSUME NEW q \in Req, Proxy(q) PROVE want' = want \/ Told(q)
  <2>1. CASE NativeLeg(q) \/ NativeRefuses(q)
    BY <2>1 DEF NativeLeg, NativeRefuses
  <2>2. CASE NativeAnswerLost(q) \/ ClearGap(q) \/ Load(q) \/ DeleteRow(q)
    BY <2>2 DEF NativeAnswerLost, ClearGap, Load, DeleteRow, history, MirrorUnchanged
  <2>3. CASE SkipReplace(q) \/ Record(q) \/ PatchHits(q) \/ PatchAnswerLost(q) \/ PruneMapping(q)
             \/ Retire(q) \/ MirrorFails(q)
    <3>1. pc[q] # "idle" /\ (want' = want \/ \E ok, aside : SettleAside(q, ok, aside))
      BY <2>3 DEF SkipReplace, Record, PatchHits, PatchAnswerLost, PruneMapping, Retire, MirrorFails,
         Misses, Fails, Settle
    <3> QED
      BY <3>1, SettleWant
  <2>4. CASE PruneFails(q)
    BY <2>4 DEF PruneFails
  <2> QED
    BY <1>1, <2>1, <2>2, <2>3, <2>4 DEF Proxy
<1>2. ASSUME NEW q \in Proc, Dance(q) PROVE want' = want
  BY <1>2 DEF Dance, PutHits, PutMisses, PostCreates, PostConflicts, Reput, Lookup, Sync,
     MirrorUnchanged, history
<1>3. ASSUME NEW q \in Req, NEW op, NEW r, NEW v, Receive(q, op, r, v) PROVE want' = want
  BY <1>3 DEF Receive
<1>4. CASE Backfill
  BY <1>4 DEF Backfill, StartFill, FillPage, FillPageFails, FillSkips, FillRow, FillRecord, FillFails,
     FlushWrites, FlushFails, Flush, FillUsersDone, history
<1>5. CASE (\E m \in Mode : SetMode(m)) \/ CleanWorkos \/ Crash \/ UNCHANGED vars
  BY <1>5 DEF SetMode, CleanWorkos, Crash, vars, history
<1> QED
  BY <1>1, <1>2, <1>3, <1>4, <1>5 DEF Next

LEMMA WantStep ==
    ASSUME Ind, Listed, [Next]_vars
    PROVE  /\ want' = [x \in Res |-> want'[x]]
           /\ \A r \in Users :
                /\ want[r] = None
                /\ \A q \in Req : Engaged(q, r) => pc[q] # "native" /\ req[q].mode # "workos-only"
                => want'[r] = None
<1>0. want = [x \in Res |-> want[x]]
  BY DEF Listed
<1>1. CASE want' = want
  BY <1>0, <1>1
<1>2. ASSUME NEW q \in Req, NEW op, NEW v, pc[q] # "idle", pc[q] = "native" \/ req[q].mode = "workos-only",
             want' = Applied(want, req[q].res, op, v)
      PROVE  /\ want' = [x \in Res |-> want'[x]]
             /\ \A r \in Users \ {req[q].res} : want'[r] = want[r]
  BY <1>0, <1>2, AppliedLeaves DEF Ind, Requested, HasRes
<1>3. CASE want' # want
  <2>1. PICK q \in Req : \E op, v :
                /\ pc[q] # "idle" /\ (pc[q] = "native" \/ req[q].mode = "workos-only")
                /\ want' = Applied(want, req[q].res, op, v)
    BY <1>3, WantMoves
  <2>2. /\ want' = [x \in Res |-> want'[x]] /\ \A r \in Users \ {req[q].res} : want'[r] = want[r]
    BY <1>2, <2>1
  <2> QED
    BY <2>1, <2>2 DEF Engaged
<1> QED
  BY <1>1, <1>3

(* Two steps close a gap, and none opens one.                                   *)
LEMMA GapStep ==
    ASSUME [Next]_vars
    PROVE  /\ UNCHANGED setting
           /\ \/ UNCHANGED gap
              \/ \E q \in Req : /\ ClearGap(q) \/ Retire(q)
                                /\ gap' = [gap EXCEPT ![req[q].res] = None]
<1>1. ASSUME NEW q \in Req, Proxy(q)
      PROVE  UNCHANGED setting /\ (UNCHANGED gap \/ ((ClearGap(q) \/ Retire(q)) /\ gap' = [gap EXCEPT ![req[q].res] = None]))
  <2>1. CASE ClearGap(q) \/ Retire(q)
    BY <2>1 DEF ClearGap, Retire
  <2>2. CASE ~(ClearGap(q) \/ Retire(q))
    BY <1>1, <2>2 DEF Proxy, NativeLeg, NativeRefuses, NativeAnswerLost, SkipReplace, Load, Record,
       PatchHits, PatchAnswerLost, DeleteRow, PruneMapping, PruneFails, MirrorFails, tables,
       MirrorUnchanged
  <2> QED
    BY <2>1, <2>2
<1>2. ASSUME NEW q \in Proc, Dance(q) PROVE UNCHANGED <<setting, gap>>
  BY <1>2 DEF Dance, PutHits, PutMisses, PostCreates, PostConflicts, Reput, Lookup, Sync,
     MirrorUnchanged, tables
<1>3. ASSUME NEW q \in Req, NEW op, NEW r, NEW v, Receive(q, op, r, v) PROVE UNCHANGED <<setting, gap>>
  BY <1>3 DEF Receive, tables
<1>4. CASE Backfill
  <2>1. UNCHANGED <<setting, gap>>
    BY <1>4 DEF Backfill, StartFill, FillPage, FillPageFails, FillSkips, FillRow, FillRecord,
       FillFails, FlushWrites, FlushFails, Flush, FillUsersDone, tables
  <2> QED
    BY <2>1
<1>5. CASE (\E m \in Mode : SetMode(m)) \/ CleanWorkos \/ Crash \/ UNCHANGED vars
  <2>1. UNCHANGED <<setting, gap>>
    BY <1>5 DEF SetMode, CleanWorkos, Crash, vars, tables
  <2> QED
    BY <2>1
<1> QED
  BY <1>1, <1>2, <1>3, <1>4, <1>5 DEF Next

(* What is gone comes back only by a mirror of its own resource.                *)
LEMMA GoneStep ==
    ASSUME Ind, RowsFit, [Next]_vars, NEW r \in Users, NEW w \in RowsOf(r), Gone(w),
           \A p \in Proc : Engaged(p, r) => pc[p] \notin Dancing \cup {"patch"}
    PROVE  Gone(w)'
<1>0. r \in Res /\ w \in Row /\ (Retains' <=> Retains)
  BY RowsApart, GapStep DEF Res, setting, Retains
<1>1. ASSUME workos'[w] = workos[w] PROVE Gone(w)'
  BY <1>0, <1>1 DEF Gone
<1>2. ASSUME NEW q \in Proc, Dance(q) PROVE Gone(w)'
  <2>1. /\ pc[q] \in Dancing /\ req[q].res \in Res /\ row'[q] \in RowsOf(req[q].res)
        /\ \A x \in Row \ {row'[q]} : workos'[x] = workos[x]
    BY <1>2, DanceMoves
  <2>2. req[q].res # r
    BY <2>1 DEF Engaged, Dancing
  <2>3. w # row'[q]
    BY <1>0, <2>1, <2>2, RowsApart
  <2> QED
    BY <1>0, <1>1, <2>1, <2>3
<1>3. ASSUME NEW q \in Req, Proxy(q) PROVE Gone(w)'
  <2>0. pc[q] # "idle" /\ req[q].res \in Res
    BY <1>3, ProxyMoves, BusyRes, ProcMembers
  <2>1. CASE UNCHANGED workos
    BY <1>1, <2>1
  <2>2. CASE /\ pc[q] = "patch" /\ row[q] \in RowsOf(req[q].res)
             /\ \A x \in Row \ {row[q]} : workos'[x] = workos[x]
    <3>1. req[q].res # r
      BY <2>2, ProcMembers DEF Engaged
    <3>2. w # row[q]
      BY <1>0, <2>0, <2>2, <3>1, RowsApart
    <3> QED
      BY <1>0, <1>1, <2>2, <3>2
  <2>3. CASE DeleteRow(q) /\ row[q] \in RowsOf(req[q].res)
    <3>1. workos' = WorkosDeletes(row[q])
      BY <2>3 DEF DeleteRow
    <3>2. CASE w = row[q]
      BY <1>0, <2>0, <2>3, <3>1, <3>2, DeleteLeaves DEF Gone
    <3>3. CASE w # row[q]
      <4>1. workos'[w] = workos[w]
        BY <2>0, <2>3, <3>1, <3>3, DeleteLeaves
      <4> QED
        BY <1>1, <4>1
    <3> QED
      BY <3>2, <3>3
  <2> QED
    BY <1>3, <2>1, <2>2, <2>3, ProxyWorkos
<1>4. CASE CleanWorkos
  <2>1. workos'[w] \in {"inactive", None} /\ (workos'[w] = "inactive" => Retains \/ workos'[w] = None)
    BY <1>0, <1>4 DEF CleanWorkos
  <2> QED
    BY <1>0, <2>1 DEF Gone
<1>5. CASE (\E q \in Req, op \in Op, x \in Res :
              \E v \in (IF x \in Users THEN Flag ELSE SUBSET Users) : Receive(q, op, x, v))
           \/ Backfill \/ (\E m \in Mode : SetMode(m)) \/ Crash \/ UNCHANGED vars
  <2>1. UNCHANGED workos
    BY <1>5 DEF Receive, Backfill, StartFill, FillPage, FillPageFails, FillSkips, FillRow, FillRecord,
       FillFails, FlushWrites, FlushFails, Flush, FillUsersDone, SetMode, Crash, vars, upstreams
  <2> QED
    BY <1>1, <2>1
<1> QED
  BY <1>2, <1>3, <1>4, <1>5 DEF Next

-----------------------------------------------------------------------------
(* A resource on the ledger that native has accepted no write of *)

LEMMA NotMirroredStays ==
    ASSUME Ind, RowsFit, Listed, AbsentDeletes, [Next]_vars, NEW r \in Res, r \notin wrote', NotMirrored(r)
    PROVE  NotMirrored(r)'
<1>1. ASSUME NEW p \in Req, Onward(p), Engaged(p, r)', pc'[p] # "native"
      PROVE  pc'[p] # "clear" /\ (req'[p].mode = "workos-only" \/ req'[p].absent)
  <2>1. pc'[p] # "idle" /\ req'[p].res = r
    BY <1>1 DEF Engaged
  <2>2. pc[p] # "idle" /\ req[p].res = r /\ req'[p].mode = req[p].mode
    BY <1>1, <2>1, OnwardKeeps
  <2>3. pc[p] # "native" => pc[p] # "clear" /\ (req[p].mode = "workos-only" \/ req[p].absent)
    BY <2>2 DEF NotMirrored, Engaged
  <2>4. CASE pc'[p] = pc[p] /\ req'[p] = req[p]
    BY <1>1, <2>3, <2>4
  <2>5. CASE Goes(p)
    <3>1. CASE pc[p] = "native"
      <4>1. /\ pc'[p] = "load" /\ req'[p] = [req[p] EXCEPT !.absent = TRUE]
            /\ req[p] \in Requests
        BY <2>1, <2>2, <2>5, <3>1, ProcMembers DEF Goes, Ind, Typed
      <4>2. req'[p].absent
        BY <4>1 DEF Requests
      <4> QED
        BY <4>1, <4>2
    <3>2. CASE pc[p] # "native"
      BY <2>1, <2>3, <2>5, <3>2 DEF Goes
    <3> QED
      BY <3>1, <3>2
  <2>6. CASE pc[p] \in Dancing /\ pc'[p] \in Dancing /\ req'[p] = req[p]
    BY <2>3, <2>6 DEF Dancing
  <2> QED
    BY <1>1, <2>1, <2>4, <2>5, <2>6 DEF Onward
<1>2. ASSUME NEW p \in Req, Arrives(p), Engaged(p, r)', pc'[p] # "native"
      PROVE  pc'[p] # "clear" /\ (req'[p].mode = "workos-only" \/ req'[p].absent)
  <2>1. PICK op \in Op, x \in Res : \E v \in Content(x) : Receive(p, op, x, v)
    BY <1>2 DEF Arrives
  <2>2. PICK v \in Content(x) : Receive(p, op, x, v)
    BY <2>1
  <2>3. /\ pc'[p] = "load" /\ mode = "workos-only"
        /\ req'[p] = [op |-> op, res |-> x, val |-> v, mode |-> mode, absent |-> FALSE]
    BY <1>2, <2>2, ReceiveMoves
  <2> QED
    BY <2>3
<1>3. \A p \in Req : Onward(p) \/ Arrives(p)
  BY RequestsMove
<1> QED
  BY <1>1, <1>2, <1>3 DEF NotMirrored

(* Once a delete that native refused is under way, nothing else happens to the  *)
(* resource: the IdP has nothing to ask of it any more.                         *)
LEMMA AloneStays ==
    ASSUME Ind, RowsFit, Listed, AbsentDeletes, [Next]_vars, NEW r \in Res, r \in Users, r \in before,
           r \notin wrote', native[r] = None => NotCopied(r),
           NEW q \in Req, Engaged(q, r), req[q].absent, AloneInDelete(q, r), Engaged(q, r)'
    PROVE  AloneInDelete(q, r)'
<1>1. native'[r] = None
  BY NativeStep DEF AloneInDelete
<1>2. pc[q] # "native" /\ req[q].mode = "dual-write" /\ q \in Proc
  BY ProcMembers DEF AbsentDeletes, Engaged
<1>3. want'[r] = None
  <2>1. \A p \in Req : Engaged(p, r) => pc[p] # "native" /\ req[p].mode # "workos-only"
    BY <1>2 DEF AloneInDelete
  <2> QED
    BY <2>1, WantStep DEF AloneInDelete
<1>4. ASSUME NEW p \in Req, Arrives(p), Engaged(p, r)' PROVE FALSE
  <2>1. PICK op \in Op, x \in Res : \E v \in Content(x) : Receive(p, op, x, v)
    BY <1>4 DEF Arrives
  <2>2. PICK v \in Content(x) : Receive(p, op, x, v)
    BY <2>1
  <2>3. req'[p] = [op |-> op, res |-> x, val |-> v, mode |-> mode, absent |-> FALSE]
    BY <2>2, ReceiveMoves
  <2>4. x = r
    BY <1>4, <2>3 DEF Engaged
  <2>5. Legal(op, r, v)
    BY <2>2, <2>4 DEF Receive
  <2> QED
    BY <2>5 DEF Legal, AloneInDelete, Ind, Requested
<1>5. ASSUME NEW p \in Req \ {q} PROVE ~Engaged(p, r)'
  <2>1. CASE Onward(p)
    BY <2>1, OnwardKeeps DEF AloneInDelete, Engaged
  <2> QED
    BY <1>4, <2>1, RequestsMove
<1>6. ~Arrives(q)
  <2>1. Arrives(q) => pc[q] = "idle"
    BY ReceiveMoves DEF Arrives
  <2> QED
    BY <2>1 DEF Engaged
<1>7. Onward(q) /\ pc'[q] # "idle"
  BY <1>6, RequestsMove DEF Engaged
<1>8. ASSUME pc'[q] \in {"prune", "retire"} PROVE Gone(row[q])'
  <2>1. CASE pc[q] \in {"prune", "retire"} /\ row'[q] = row[q]
    <3>1. Gone(row[q]) /\ row[q] \in RowsOf(r)
      BY <1>2, <2>1 DEF AloneInDelete, RowsFit, Early, Engaged
    <3>2. \A p \in Proc : Engaged(p, r) => pc[p] \notin Dancing \cup {"patch"}
      BY <2>1 DEF AloneInDelete, NotCopied, Proc, Dancing
    <3>3. PICK w \in RowsOf(r) : w = row[q]
      BY <3>1
    <3>4. Gone(w)'
      BY <3>1, <3>2, <3>3, GoneStep
    <3>5. row'[q] = w
      BY <2>1, <3>3
    <3> QED
      BY <3>4, <3>5 DEF Gone
  <2>2. CASE DeleteRow(q) /\ row'[q] = row[q]
    <3>0. pc[q] = "delete"
      BY <2>2 DEF DeleteRow
    <3>1. row[q] \in RowsOf(r) /\ workos' = WorkosDeletes(row[q]) /\ (Retains' <=> Retains)
      BY <1>2, <2>2, <3>0, GapStep DEF DeleteRow, RowsFit, Early, Engaged, setting, Retains
    <3> QED
      BY <2>2, <3>1, DeleteLeaves DEF Gone
  <2>3. \/ pc[q] \in {"prune", "retire"} /\ row'[q] = row[q]
        \/ DeleteRow(q) /\ row'[q] = row[q]
    BY <1>7, <1>8 DEF Onward, Goes, Dancing
  <2> QED
    BY <2>1, <2>2, <2>3
<1> QED
  BY <1>1, <1>3, <1>5, <1>8 DEF AloneInDelete

LEMMA AloneBegins ==
    ASSUME Ind, RowsFit, Listed, OneUnanswered, AbsentDeletes, NEW r \in Res, UnwrittenStands(r),
           NEW q \in Req, Engaged(q, r), NativeRefuses(q), pc'[q] = "load"
    PROVE  AloneInDelete(q, r)'
<1>0. q \in Proc /\ MovesOnly(q) /\ pc[q] = "native" /\ req[q].res = r
  BY ProxyMoves, ProcMembers DEF Engaged, NativeRefuses, Proxy
<1>1. /\ req[q].op = "DELETE" /\ native[r] = None /\ native' = native
      /\ want' = Applied(want, r, "DELETE", None)
  <2>1. CASE Reset(q)
    BY <1>0, <2>1 DEF Reset, Ind, Typed
  <2>2. CASE ~Reset(q)
    BY <1>0, <2>2 DEF NativeRefuses, NativeAccepts, upstreams
  <2> QED
    BY <2>1, <2>2
<1>2. want'[r] = None
  BY <1>1, AppliedLeaves DEF Listed
<1>3. ASSUME NEW p \in Req \ {q}, Engaged(p, r)' PROVE FALSE
  <2>1. Engaged(p, r)
    BY <1>0, <1>3, ProcMembers DEF Engaged, MovesOnly
  <2>2. ~Unanswered(p)
    BY <1>0, <2>1 DEF OneUnanswered, Unanswered, Engaged
  <2>3. pc[p] # "native" /\ req[p].mode # "workos-only"
    BY <2>1, <2>2 DEF Unanswered, Busy, Engaged
  <2>4. req[p].absent
    BY <2>1, <2>3 DEF UnwrittenStands, NotMirrored
  <2> QED
    BY <1>3, <2>1, <2>4 DEF UnwrittenStands, AloneInDelete
<1> QED
  BY <1>1, <1>2, <1>3 DEF AloneInDelete

LEMMA GapNext == Ind /\ GapInd /\ [Next]_vars => GapInd'
<1> SUFFICES ASSUME Ind, GapInd, [Next]_vars PROVE GapInd'
  OBVIOUS
<1>0. RowsFit /\ Listed /\ OneUnanswered /\ AbsentDeletes /\ gap = [r \in Res |-> gap[r]]
  BY DEF GapInd
<1>1. RowsFit' /\ AsksFit' /\ OneUnanswered' /\ AbsentDeletes' /\ NativeLists' /\ CopiesFit'
      /\ want' = [r \in Res |-> want'[r]]
  BY <1>0, RowsFitStays, AsksStep, NativeStep, CopyStep, WantStep
<1>2. /\ gap' = [r \in Res |-> gap'[r]] /\ UNCHANGED before
      /\ \A r \in Res : gap'[r] # None => gap[r] # None
  BY <1>0, GapStep DEF setting
<1>3. ASSUME NEW r \in Res, Unwritten(r)' PROVE UnwrittenStands(r)'
  <2>1. Unwritten(r) /\ r \notin wrote' /\ r \notin wrote
    BY <1>0, <1>2, <1>3, NativeStep DEF Unwritten
  <2>2. UnwrittenStands(r)
    BY <2>1 DEF GapInd
  <2>3. r \in before /\ r \in Users /\ r \in before'
    BY <1>2, <2>2 DEF UnwrittenStands
  <2>4. (native[r] = None => NotCopied(r)) /\ (native'[r] = None => NotCopied(r)')
    BY <1>0, <2>1, <2>2, <2>3, NativeStep, CopyStep DEF UnwrittenStands
  <2>5. NotMirrored(r)'
    BY <1>0, <2>1, <2>2, NotMirroredStays DEF UnwrittenStands
  <2>6. ASSUME NEW q \in Req, Engaged(q, r)', req'[q].absent PROVE AloneInDelete(q, r)'
    <3>1. CASE Arrives(q)
      <4>1. PICK op \in Op, x \in Res : \E v \in Content(x) : Receive(q, op, x, v)
        BY <3>1 DEF Arrives
      <4>2. PICK v \in Content(x) : Receive(q, op, x, v)
        BY <4>1
      <4>3. req'[q] = [op |-> op, res |-> x, val |-> v, mode |-> mode, absent |-> FALSE]
        BY <1>0, <4>2, ReceiveMoves
      <4> QED
        BY <2>6, <4>3
    <3>2. CASE Onward(q)
      <4>0. pc'[q] # "idle" /\ req'[q].res = r
        BY <2>6 DEF Engaged
      <4>1. Engaged(q, r)
        BY <3>2, <4>0, OnwardKeeps DEF Engaged
      <4>2. CASE req[q].absent
        <5>1. AloneInDelete(q, r)
          BY <2>2, <4>1, <4>2 DEF UnwrittenStands
        <5> QED
          BY <1>0, <2>1, <2>3, <2>4, <2>6, <4>1, <4>2, <5>1, AloneStays
      <4>3. CASE ~req[q].absent
        <5>1. NativeRefuses(q) /\ pc'[q] = "load"
          BY <2>6, <3>2, <4>0, <4>3 DEF Onward, Goes
        <5> QED
          BY <1>0, <2>2, <4>1, <5>1, AloneBegins
      <4> QED
        BY <4>2, <4>3
    <3> QED
      BY <1>0, <3>1, <3>2, RequestsMove
  <2> QED
    BY <2>3, <2>4, <2>5, <2>6 DEF UnwrittenStands
<1> QED
  BY <1>1, <1>2, <1>3 DEF GapInd, Listed

LEMMA GapCause ==
    Ind /\ GapInd /\ [Next]_vars =>
        \A r \in Res : gap[r] # None /\ gap'[r] = None =>
            \/ r \in wrote
            \/ /\ native[r] = None
               /\ \A q \in Req : pc[q] = "retire" /\ req[q].res = r => Gone(row[q])
<1> SUFFICES ASSUME Ind, GapInd, [Next]_vars, NEW r \in Res, gap[r] # None, gap'[r] = None, r \notin wrote
             PROVE  /\ native[r] = None
                    /\ \A q \in Req : pc[q] = "retire" /\ req[q].res = r => Gone(row[q])
  OBVIOUS
<1>1. UnwrittenStands(r) /\ AbsentDeletes /\ gap = [x \in Res |-> gap[x]]
  BY DEF GapInd, Unwritten
<1>2. PICK q \in Req : (ClearGap(q) \/ Retire(q)) /\ gap' = [gap EXCEPT ![req[q].res] = None]
  BY GapStep
<1>3. req[q].res = r
  BY <1>1, <1>2
<1>4. ~ClearGap(q)
  BY <1>1, <1>3 DEF ClearGap, UnwrittenStands, NotMirrored, Engaged
<1>5. pc[q] = "retire" /\ req[q].absent
  BY <1>1, <1>2, <1>4 DEF Retire, AbsentDeletes
<1>6. AloneInDelete(q, r)
  BY <1>1, <1>3, <1>5 DEF UnwrittenStands, Engaged
<1>7. \A p \in Req : pc[p] = "retire" /\ req[p].res = r => p = q
  BY <1>6 DEF AloneInDelete, Engaged
<1> QED
  BY <1>5, <1>6, <1>7 DEF AloneInDelete

(* A row of the ledger is retired only when native took a write of its          *)
(* resource, or when native lacks it and WorkOS no longer holds the row it was  *)
(* asked to delete: clearDivergenceForWrite follows a native leg, and the 404   *)
(* of native is mirrored before retireWorkosPrimaryWriteGap.                    *)
THEOREM GapsAreClosedForCause == Spec => GapsCloseForCause
<1>1. Ind /\ GapInd /\ [Next]_vars =>
        [\A r \in Res : gap[r] # None /\ gap'[r] = None =>
         \/ r \in wrote
         \/ /\ native[r] = None
            /\ \A q \in Req : pc[q] = "retire" /\ req[q].res = r => Gone(row[q])]_vars
  BY GapCause
<1> QED
  BY <1>1, InitInd, NextInd, InitGapInd, GapNext, PTL DEF Spec, GapsCloseForCause

-----------------------------------------------------------------------------
(***************************************************************************)
(* When nothing is under way, WorkOS and native hold what the IdP was last *)
(* told.  The properties speak only of the moments at rest, so the         *)
(* invariant below says what a resource looks like in between: a request   *)
(* nobody ran across has left behind what its step says (Follows); so has  *)
(* the backfill (FillerFollows, SinkFollows); and a resource none of them  *)
(* is at is as the IdP was told, but for those known to differ (Holding).  *)
(*   A group's row is the hard part, since others than its own requests    *)
(* change what it should be: a deleted user leaves the members of each     *)
(* group, and a mapping gives a user another row.  FitsUser says of each   *)
(* user what the row may have of it while that is going on.                *)
(***************************************************************************)

UserRows == UNION {RowsOf(u) : u \in Users}
\* The rows a group's content has of one user.
In(u, c) == c \cap RowsOf(u)

(* Who is at work on a resource, and what the backfill has of it.             *)
Resting(r) == \A q \in Req : Busy(q) => req[q].res # r
Filling(r) == pc[Filler] # "idle" /\ req[Filler].res = r
InSnap(r) == \E i \in DOMAIN snap : snap[i][1] = r
Copied(r) == Filling(r) \/ Queued(r) \/ InSnap(r)

(* Contents are of the kind of their resource, and a stage is one its         *)
(* operation comes through.                                                   *)
BodyFits(p) ==
    pc[p] \in Dancing \cup {"patch"} =>
        IF req[p].res \in Users THEN body[p] \in Flag ELSE body[p] \subseteq UserRows
Kinds ==
    /\ crossed \in [Proc -> BOOLEAN] /\ body = [p \in Proc |-> body[p]]
    /\ \A r \in Res : want[r] \in Content(r) \cup {None}
    /\ \A u \in Users : \A w \in RowsOf(u) : workos[w] \in Flag \cup {None}
    /\ \A g \in Groups : \A w \in RowsOf(g) : workos[w] = None \/ workos[w] \subseteq UserRows
    /\ \A p \in Proc : BodyFits(p)
    /\ pc[Filler] # "idle" => pc[Filler] \in Dancing /\ req[Filler].val \in Content(req[Filler].res)
    /\ \A i \in DOMAIN snap : snap[i][2] \in Content(snap[i][1])
    /\ \A q \in Req : pc[q] \in Dancing => req[q].op \in {"POST", "PUT"}
    /\ \A q \in Req : pc[q] = "patch" => req[q].op \in {"PATCH", "ADD", "REMOVE"}
    /\ \A q \in Req : pc[q] \in {"delete", "prune", "retire"} => req[q].op = "DELETE"
    /\ \A q \in Req : pc[q] # "idle" => /\ req[q].mode \in Mode
                                        /\ req[q].mode = "passthrough" => pc[q] \in {"native", "clear"}
                                        /\ pc[q] \in {"native", "clear"} => req[q].mode # "workos-only"

(* A resource the IdP knows of: no create of it awaits its answer.            *)
Born(r) == r \in ever /\ \A q \in Req : Unanswered(q) /\ req[q].op = "POST" => req[q].res # r

(* The IdP creates what it does not have, and writes or deletes what it has;  *)
(* a delete past native has been told.                                        *)
Asked ==
    \A q \in Req :
        /\ Unanswered(q) =>
            /\ req[q].op = "POST" => want[req[q].res] = None
            /\ req[q].op = "POST" /\ pc[q] = "native" => req[q].res \notin ever
            /\ req[q].op # "POST" => want[req[q].res] # None
        /\ Busy(q) /\ req[q].mode # "workos-only" /\ req[q].op = "DELETE" =>
            want[req[q].res] = None /\ Born(req[q].res)

(* Somebody names u as a member.  Only users the IdP knows of are named.      *)
Mentioned(u) ==
    \/ \E g \in Groups : want[g] # None /\ u \in want[g]
    \/ \E g \in Groups : native[g] # None /\ u \in native[g]
    \/ \E g \in Groups : \E w \in RowsOf(g) : workos[w] # None /\ In(u, workos[w]) # {}
    \/ \E p \in Proc : u \in Members(req[p])
    \/ \E p \in Proc : pc[p] \in Dancing \cup {"patch"} /\ req[p].res \in Groups /\ In(u, body[p]) # {}
    \/ \E i \in DOMAIN snap : snap[i][1] \in Groups /\ u \in snap[i][2]
BornFirst ==
    /\ \A r \in Res : want[r] # None => Born(r)
    /\ \A r \in Res : native[r] # None => r \in ever
    /\ \A u \in Users : Mentioned(u) => Born(u)

(* Native has what the IdP was told, and no member the IdP does not list but  *)
(* a deleted one native is known to have missed.                              *)
NativeAgrees ==
    /\ \A u \in Users \ oldN : native[u] = want[u]
    /\ \A g \in Groups \ oldN :
        /\ native[g] = None <=> want[g] = None
        /\ want[g] # None =>
             /\ want[g] \subseteq native[g]
             /\ \A u \in native[g] \ want[g] : u \in oldN /\ want[u] = None

(* A resource has one row of WorkOS at a time.                                *)
OneRow == \A r \in Res : workos[r] = None \/ workos[Mint(r)] = None

(* A resource is copied, being written or queued, one at a time.              *)
Distinct ==
    /\ \A i, j \in DOMAIN snap : snap[i][1] = snap[j][1] => i = j
    /\ \A i, j \in DOMAIN sink : sink[i][1] = sink[j][1] => i = j
    /\ \A r \in Res : /\ InSnap(r) => ~Filling(r) /\ ~Queued(r)
                      /\ Filling(r) => ~Queued(r)

(* What is copied and queued in each phase of the backfill; while it lists,   *)
(* no row of the listing comes after its copy.                                *)
Stages ==
    /\ stage = "off" => snap = <<>> /\ sink = <<>>
    /\ \A i \in DOMAIN snap : snap[i][1] \in ever
    /\ stage = "users" => sink = <<>> /\ \A i \in DOMAIN snap : snap[i][1] \in Users
    /\ stage = "groups" => (\A i \in DOMAIN snap : snap[i][1] \in Groups)
    /\ stage \in {"users", "user-rows", "groups"} => \A i \in DOMAIN sink : sink[i][1] \in Users
    /\ stage = "user-rows" => (\A i \in DOMAIN snap : snap[i][1] \in Users)
                              /\ (pc[Filler] # "idle" => req[Filler].res \in Users)
    /\ pc[Filler] # "idle" => stage \in Rows
    /\ stage \in {"users", "groups"} =>
         \A i \in DOMAIN snap, j \in DOMAIN Listing : Listing[j] = snap[i][1] => j <= i

(* A copy nobody wrote after it was read is what native has.                  *)
Copies ==
    /\ pc[Filler] # "idle" /\ req[Filler].res \notin stale \cup oldN =>
            native[req[Filler].res] = req[Filler].val
    /\ \A i \in DOMAIN snap : snap[i][1] \notin stale \cup oldN => native[snap[i][1]] = snap[i][2]

(* A mirror nobody ran across has its resource to itself.                     *)
Crossing ==
    \A q \in Req : Busy(q) =>
        /\ ~crossed[q] => /\ \A p \in Req \ {q} : Busy(p) => ~Touches(req[p], req[q])
                          /\ ~Copied(req[q].res)
        /\ Copied(req[q].res) => req[q].res \in stale

(* A deleted user WorkOS is known not to follow, or soon will be; and one it   *)
(* has deleted while the IdP is not told yet.                                 *)
Doomed(u) ==
    want[u] = None /\ (u \in oldW \/ \E q \in Req : Busy(q) /\ req[q].res = u /\ crossed[q])
Pruning(u) ==
    \E q \in Req : pc[q] = "prune" /\ req[q].mode = "workos-only" /\ req[q].res = u

(* A group lists a deleted user only if no clean mirror of the delete is left.*)
Dangling ==
    \A g \in Groups : want[g] # None =>
        \A u \in want[g] : want[u] = None =>
            \A q \in Req : Busy(q) /\ req[q].res = u => crossed[q]

(* What a group's content may have of u: its row, by the name its mapping     *)
(* gives, if the IdP lists it; of a deleted user, what is left of its rows.   *)
FitsUser(g, c, u) ==
    /\ u \in want[g] => want[u] # None \/ Doomed(u)
    /\ want[u] # None => /\ u \in want[g] => Pruning(u) \/ In(u, c) = {Translate(map, u)}
                         /\ u \notin want[g] => In(u, c) = {}
    /\ want[u] = None /\ ~Doomed(u) /\ u \notin oldN => In(u, c) \subseteq Standing(u)
Fits(g, c) == \A u \in Users : FitsUser(g, c, u)

(* The row w of WorkOS is what the IdP was told of r.                         *)
Right(r, w) ==
    want[r] # None /\ IF r \in Users THEN workos[w] = want[r] ELSE Fits(r, workos[w])

(* r is deleted, and WorkOS keeps nothing of it but an inactive user.         *)
Left(r) == \A w \in Standing(r) : r \in Users /\ Retains /\ workos[w] = "inactive"

(* A resource at rest and not known to differ is mapped to its one row, and   *)
(* the row is right unless the backfill has still to map it.                  *)
Mapped(r) == IF want[r] = None THEN map[r] = None ELSE Standing(r) = {map[r]}
Holding ==
    \A r \in Res \ oldW : Resting(r) =>
        /\ Mapped(r)
        /\ ~Filling(r) /\ ~Queued(r) => IF want[r] = None THEN Left(r) ELSE Right(r, map[r])

(* What a mirror nobody ran across can rely on: what the IdP was told is what *)
(* the request says, the content it carries is translated as it would be now, *)
(* and the rows are as its stage needs them.                                  *)
TellsOf(q) ==
    LET r == req[q].res  op == req[q].op  v == req[q].val IN
    req[q].mode = "dual-write" =>
        /\ op \in {"POST", "PUT", "PATCH"} => want[r] = v
        /\ op = "ADD" => want[r] # None /\ v \subseteq want[r]
        /\ op = "REMOVE" => want[r] # None /\ v \cap want[r] = {}
        /\ op = "DELETE" => want[r] = None
BodyRight(q) ==
    LET r == req[q].res  v == req[q].val IN
    IF r \in Users THEN body[q] = v
    ELSE /\ body[q] \subseteq UNION {RowsOf(u) : u \in v}
         /\ \A u \in v : /\ In(u, body[q]) = {Translate(map, u)}
                         /\ want[u] # None \/ Doomed(u)
BeforePatch(q) ==
    LET r == req[q].res  c == workos[map[r]] IN
    /\ Standing(r) = {map[r]}
    /\ r \in Groups /\ req[q].op # "PATCH" => \A u \in Users :
         IF u \in req[q].val THEN want[u] # None => In(u, c) \subseteq {Translate(map, u)}
         ELSE FitsUser(r, c, u)
Follows(q) ==
    LET r == req[q].res  op == req[q].op IN
    /\ TellsOf(q)
    /\ pc[q] \in Dancing \cup {"patch"} => BodyRight(q)
    /\ pc[q] = "record" => Standing(r) = {row[q]} /\ workos[row[q]] = body[q]
    /\ r \notin oldW =>
        /\ pc[q] \in {"clear", "load", "patch"} /\ op \in {"PATCH", "ADD", "REMOVE"} => BeforePatch(q)
        /\ pc[q] \in {"clear", "load", "delete"} /\ op = "DELETE" => Standing(r) = {map[r]}
        /\ pc[q] \in {"patch", "delete"} => row[q] = map[r]
        /\ pc[q] \in {"prune", "retire"} => Left(r)
        /\ pc[q] = "retire" => map[r] = None
Following ==
    \A q \in Req : Busy(q) =>
        /\ req[q].mode = "passthrough" => req[q].res \in oldW
        /\ ~crossed[q] /\ req[q].mode # "passthrough" => Follows(q)

(* The same of the row the backfill is writing, and of those it has written   *)
(* and not yet mapped.                                                        *)
FillerFollows ==
    LET r == req[Filler].res  v == req[Filler].val IN
    pc[Filler] # "idle" /\ r \notin stale \cup oldN /\ ~crossed[Filler] =>
        /\ IF r \in Users THEN body[Filler] = v
           ELSE /\ body[Filler] \subseteq UNION {RowsOf(u) : u \in v}
                /\ \A u \in v : /\ want[u] # None => In(u, body[Filler]) = {Translate(map, u)}
                                /\ u \in want[r] => want[u] # None \/ Doomed(u)
        /\ pc[Filler] = "record" => Standing(r) = {row[Filler]} /\ Right(r, row[Filler])
SinkFollows ==
    \A i \in DOMAIN sink : sink[i][1] \notin stale \cup oldN =>
        Standing(sink[i][1]) = {sink[i][2]} /\ Right(sink[i][1], sink[i][2])

ConvInv ==
    /\ Kinds /\ Asked /\ BornFirst /\ NativeAgrees /\ OneRow /\ Distinct /\ Stages /\ Copies
    /\ Crossing /\ Dangling /\ Holding /\ Following /\ FillerFollows /\ SinkFollows

-----------------------------------------------------------------------------
(* What is written where: a table, and the rows of WorkOS, after one write *)

LEMMA RowFacts ==
    ASSUME NEW r \in Res, NEW w \in RowsOf(r)
    PROVE  w \in Row /\ w # None /\ Of(w) = r
<1>1. w \in Row /\ w # None
  BY MintAssumption, KindAssumption DEF RowsOf, Row, Res
<1>2. ASSUME NEW s \in Res, w \in {s, Mint(s)} PROVE s = r
  BY <1>2, RowsApart DEF RowsOf
<1>3. w \in {r, Mint(r)}
  BY DEF RowsOf
<1> QED
  BY <1>1, <1>2, <1>3 DEF Of

LEMMA KindFacts ==
    /\ \A w \in Row : \E r \in Res : w \in RowsOf(r)
    /\ \A g \in Groups : g \notin Users /\ g \in Res
    /\ \A u \in Users : u \notin Groups /\ u \in Res
    /\ \A r, s \in Res : r # s => RowsOf(r) \cap RowsOf(s) = {}
BY RowsApart, KindAssumption DEF RowsOf, Row, Res

(* A row of a group is a group's: Without tells them so.                       *)
LEMMA RowKinds ==
    ASSUME NEW r \in Res, NEW w \in RowsOf(r)
    PROVE  (w \in Groups \/ w \in {Mint(g) : g \in Groups}) <=> r \in Groups
<1>1. CASE r \in Groups
  BY <1>1 DEF RowsOf
<1>2. CASE r \notin Groups
  <2>1. ASSUME NEW g \in Groups PROVE w # g /\ w # Mint(g)
    BY <1>2, KindFacts, RowFacts DEF RowsOf
  <2> QED
    BY <1>2, <2>1
<1> QED
  BY <1>1, <1>2

(* A user that is deleted is taken off the lists of members.                    *)
Off(x, old, u) == IF x \in Groups /\ u \in Users /\ old # None THEN old \ {u} ELSE old

LEMMA AppliedIs ==
    ASSUME NEW t, t = [x \in Res |-> t[x]], NEW r \in Res, NEW op, NEW v
    PROVE  /\ Applied(t, r, op, v) = [x \in Res |-> Applied(t, r, op, v)[x]]
           /\ Applied(t, r, op, v)[r] = IF op = "DELETE" THEN None ELSE After(t[r], op, v)
           /\ \A x \in Res \ {r} :
                Applied(t, r, op, v)[x] = IF op = "DELETE" THEN Off(x, t[x], r) ELSE t[x]
<1> DEFINE w == Without(t, r)
<1>1. w = [x \in Res |-> w[x]] /\ \A x \in Res : r \in Users => w[x] = Off(x, t[x], r)
  <2>1. \A x \in Res : x \notin {Mint(g) : g \in Groups}
    BY MintAssumption DEF Res
  <2>2. DOMAIN t = Res
    OBVIOUS
  <2>3. \A x \in Res : w[x] = IF x \in Groups THEN IF t[x] = None THEN None ELSE t[x] \ {r} ELSE t[x]
    BY <2>1, <2>2 DEF Without
  <2>4. w = [x \in Res |-> w[x]]
    BY <2>2 DEF Without
  <2> QED
    BY <2>3, <2>4 DEF Off
<1> HIDE DEF w
<1>2. CASE op # "DELETE"
  BY <1>2 DEF Applied
<1>3. CASE op = "DELETE" /\ r \in Users
  <2>1. Applied(t, r, op, v) = [w EXCEPT ![r] = None]
    BY <1>3 DEF Applied, w
  <2> QED
    BY <1>1, <1>3, <2>1
<1>4. CASE op = "DELETE" /\ r \notin Users
  <2>1. Applied(t, r, op, v) = [t EXCEPT ![r] = None]
    BY <1>4 DEF Applied
  <2> QED
    BY <1>4, <2>1 DEF Off
<1> QED
  BY <1>2, <1>3, <1>4

LEMMA OffStays ==
    ASSUME NEW x, NEW old, NEW u, old = None \/ old \in Content(x), x \in Res, Off(x, old, u) # old
    PROVE  /\ x \in Groups /\ u \in Users /\ old # None /\ Off(x, old, u) = old \ {u}
           /\ Off(x, old, u) # None
<1>1. x \in Groups /\ u \in Users /\ old # None /\ Off(x, old, u) = old \ {u}
  BY DEF Off
<1>2. old \ {u} \in Content(x)
  BY <1>1, KindFacts DEF Content
<1> QED
  BY <1>1, <1>2, ContentIsNoNone

(* The rows of WorkOS after a DELETE of one.                                    *)
LEMMA DeletedRows ==
    ASSUME RowsFit, NEW r \in Res, NEW w \in RowsOf(r)
    PROVE  /\ WorkosDeletes(w) = [x \in Row |-> WorkosDeletes(w)[x]]
           /\ WorkosDeletes(w)[w] =
                IF workos[w] # None /\ Retains /\ r \in Users THEN "inactive" ELSE None
           /\ \A s \in Res : \A x \in RowsOf(s) \ {w} :
                WorkosDeletes(w)[x] = IF workos[w] # None /\ ~Retains /\ r \in Users /\ s \in Groups
                                         /\ workos[x] # None
                                      THEN workos[x] \ {w} ELSE workos[x]
<1> DEFINE t == Without(workos, w)
<1>0. workos = [x \in Row |-> workos[x]] /\ w \in Row /\ Of(w) = r
  BY RowFacts DEF RowsFit
<1>1. t = [x \in Row |-> t[x]]
  <2>1. DOMAIN workos = Row
    BY <1>0
  <2> QED
    BY <2>1 DEF Without
<1>2. ASSUME NEW s \in Res, NEW x \in RowsOf(s)
      PROVE  x \in Row /\ t[x] = IF s \in Groups THEN IF workos[x] = None THEN None ELSE workos[x] \ {w}
                                 ELSE workos[x]
  <2>1. x \in Row /\ x \in DOMAIN workos
    BY <1>0, RowFacts
  <2>2. (x \in Groups \/ x \in {Mint(g) : g \in Groups}) <=> s \in Groups
    BY RowKinds
  <2> QED
    BY <2>1, <2>2 DEF Without
<1> HIDE DEF t
<1>3. CASE workos[w] = None
  <2>1. WorkosDeletes(w) = workos
    BY <1>3 DEF WorkosDeletes
  <2> QED
    BY <1>0, <1>3, <2>1
<1>4. CASE workos[w] # None /\ Retains /\ r \in Users
  <2>1. WorkosDeletes(w) = [workos EXCEPT ![w] = "inactive"]
    BY <1>0, <1>4 DEF WorkosDeletes
  <2> QED
    BY <1>0, <1>2, <1>4, <2>1
<1>5. CASE workos[w] # None /\ ~Retains /\ r \in Users
  <2>1. WorkosDeletes(w) = [t EXCEPT ![w] = None]
    BY <1>0, <1>5 DEF WorkosDeletes, t
  <2> QED
    BY <1>0, <1>1, <1>2, <1>5, <2>1
<1>6. CASE workos[w] # None /\ r \notin Users
  <2>1. WorkosDeletes(w) = [workos EXCEPT ![w] = None]
    BY <1>0, <1>6 DEF WorkosDeletes
  <2> QED
    BY <1>0, <1>2, <1>6, <2>1
<1> QED
  BY <1>3, <1>4, <1>5, <1>6

(* The three invariants, and what the proofs mostly use of them.                *)
Inv == Ind /\ GapInd /\ ConvInv

LEMMA InvFacts ==
    ASSUME Inv
    PROVE  /\ Ind /\ RowsFit /\ Listed /\ OneUnanswered /\ AbsentDeletes
           /\ Kinds /\ Asked /\ BornFirst /\ NativeAgrees /\ OneRow /\ Distinct /\ Stages /\ Copies
           /\ Crossing /\ Dangling /\ Holding /\ Following /\ FillerFollows /\ SinkFollows
           /\ pc \in [Proc -> Steps] /\ req = [p \in Proc |-> req[p]]
           /\ row = [p \in Proc |-> row[p]] /\ body = [p \in Proc |-> body[p]]
           /\ crossed \in [Proc -> BOOLEAN] /\ workos = [w \in Row |-> workos[w]]
           /\ map = [r \in Res |-> map[r]] /\ want = [r \in Res |-> want[r]]
           /\ native = [r \in Res |-> native[r]] /\ \A q \in Req : req[q] \in Requests
BY DEF Inv, GapInd, ConvInv, Ind, Typed, RowsFit, Listed, Kinds, NativeLists

LEMMA AtRes ==
    ASSUME Inv, NEW p \in Proc, pc[p] # "idle"
    PROVE  /\ req[p].res \in Res /\ (pc[p] \notin Early => row[p] \in RowsOf(req[p].res))
           /\ p \in Req => req[p].op \in Op /\ req[p].val \in Content(req[p].res)
           /\ p = Filler => req[p].val \in Content(req[p].res)
<1>1. req[p].res \in Res
  BY InvFacts, BusyRes
<1>2. pc[p] \notin Early => row[p] \in RowsOf(req[p].res)
  BY InvFacts DEF RowsFit
<1>3. p \in Req => req[p].op \in Op /\ req[p].val \in Content(req[p].res)
  BY InvFacts DEF Listed, AsksFit
<1>4. p = Filler => req[p].val \in Content(req[p].res)
  BY InvFacts DEF Kinds
<1> QED
  BY <1>1, <1>2, <1>3, <1>4

-----------------------------------------------------------------------------
(* What a step does to what the IdP was told *)

Concludes(q) ==
    /\ Busy(q) /\ req[q].mode = "workos-only" /\ pc'[q] = "idle"
    /\ oldN' = oldN \cup {req[q].res} /\ UNCHANGED <<native, ever>>
Tells(q) == NativeLeg(q) \/ (NativeRefuses(q) /\ req[q].op = "DELETE") \/ Concludes(q)

LEMMA ResetTo ==
    ASSUME Inv, NEW q \in Proc, Reset(q)
    PROVE  /\ pc'[q] = "idle" /\ req'[q] = NoReq
           /\ \A p \in Proc \ {q} : pc'[p] = pc[p] /\ req'[p] = req[p] /\ row'[p] = row[p] /\ body'[p] = body[p]
           /\ pc' = [pc EXCEPT ![q] = "idle"]
BY InvFacts DEF Reset

LEMMA WantCause ==
    ASSUME Inv, [Next]_vars
    PROVE  \/ want' = want
           \/ \E q \in Req : Tells(q) /\ want' = Applied(want, req[q].res, req[q].op, req[q].val)
<1> DEFINE Told(q) == Tells(q) /\ want' = Applied(want, req[q].res, req[q].op, req[q].val)
<1>1. ASSUME NEW q \in Req, Proxy(q) PROVE want' = want \/ Told(q)
  <2>0. q \in Proc
    BY ProcMembers
  <2>1. CASE NativeLeg(q)
    BY <2>1 DEF NativeLeg, Tells
  <2>2. CASE NativeRefuses(q)
    BY <2>2 DEF NativeRefuses, Tells, Applied
  <2>3. CASE NativeAnswerLost(q) \/ ClearGap(q) \/ Load(q) \/ DeleteRow(q)
    BY <2>3 DEF NativeAnswerLost, ClearGap, Load, DeleteRow, history, MirrorUnchanged
  <2>4. ASSUME NEW ok, NEW aside, SettleAside(q, ok, aside), Reset(q), UNCHANGED <<native, ever>>, Busy(q)
        PROVE  want' = want \/ Told(q)
    <3>1. pc'[q] = "idle"
      BY <2>0, <2>4, ResetTo
    <3> QED
      BY <2>4, <3>1 DEF SettleAside, Tells, Concludes
  <2>5. CASE Record(q)
    BY <2>4, <2>5 DEF Record, Busy, upstreams
  <2>6. CASE SkipReplace(q)
    BY <2>4, <2>6 DEF SkipReplace, Busy, upstreams, Settle
  <2>7. CASE PatchHits(q) \/ PatchAnswerLost(q)
    BY <2>4, <2>7 DEF PatchHits, PatchAnswerLost, Busy, Settle
  <2>8. CASE PruneMapping(q)
    BY <2>4, <2>8 DEF PruneMapping, Busy, upstreams, Settle
  <2>9. CASE Retire(q)
    BY <2>4, <2>9 DEF Retire, Busy, upstreams, Settle
  <2>10. CASE MirrorFails(q)
    <3>1. Busy(q)
      BY <2>10 DEF MirrorFails, Misses, Fails, Busy
    <3> QED
      BY <2>4, <2>10, <3>1 DEF MirrorFails, upstreams, Settle
  <2>11. CASE PruneFails(q)
    <3>1. pc'[q] = "idle" /\ Busy(q) /\ req[q].op = "DELETE"
      BY <2>0, <2>11, ResetTo, InvFacts DEF PruneFails, Kinds, Busy
    <3>2. UNCHANGED <<native, ever>>
      BY <2>11 DEF PruneFails, upstreams
    <3> QED
      BY <2>11, <3>1, <3>2 DEF PruneFails, Tells, Concludes, Applied
  <2> QED
    BY <1>1, <2>1, <2>2, <2>3, <2>5, <2>6, <2>7, <2>8, <2>9, <2>10, <2>11 DEF Proxy
<1>2. ASSUME NEW q \in Proc, Dance(q) PROVE want' = want
  BY <1>2 DEF Dance, PutHits, PutMisses, PostCreates, PostConflicts, Reput, Lookup, Sync,
     MirrorUnchanged, history
<1>3. ASSUME NEW q \in Req, NEW op, NEW r, NEW v, Receive(q, op, r, v) PROVE want' = want
  BY <1>3 DEF Receive
<1>4. CASE Backfill
  BY <1>4 DEF Backfill, StartFill, FillPage, FillPageFails, FillSkips, FillRow, FillRecord, FillFails,
     FlushWrites, FlushFails, Flush, FillUsersDone, history
<1>5. CASE (\E m \in Mode : SetMode(m)) \/ CleanWorkos \/ Crash \/ UNCHANGED vars
  BY <1>5 DEF SetMode, CleanWorkos, Crash, vars, history
<1> QED
  BY <1>1, <1>2, <1>3, <1>4, <1>5 DEF Next

(* Who tells has an unanswered request, and no other has one of its resource.   *)
LEMMA TellerAsks ==
    ASSUME Inv, NEW q \in Req, Tells(q)
    PROVE  /\ Unanswered(q) /\ req[q].res \in Res /\ req[q].op \in Op /\ req[q].val \in Content(req[q].res)
           /\ q \in Proc /\ ~Unanswered(q)'
           /\ req[q].op = "POST" <=> want[req[q].res] = None
           /\ \A p \in Req \ {q} : Unanswered(p) => req[p].res # req[q].res
<1>0. q \in Proc
  BY ProcMembers
<1>1. Unanswered(q) /\ pc[q] # "idle"
  BY DEF Tells, NativeLeg, NativeRefuses, Concludes, Unanswered, Busy
<1>2. ~Unanswered(q)'
  <2>1. CASE NativeLeg(q)
    <3>1. pc'[q] = "clear" /\ req'[q] = req[q] /\ req[q].mode # "workos-only"
      BY <1>0, <2>1, InvFacts DEF NativeLeg, Kinds
    <3> QED
      BY <3>1 DEF Unanswered, Busy
  <2>2. CASE NativeRefuses(q) /\ Reset(q)
    BY <1>0, <2>2, ResetTo DEF Unanswered, Busy
  <2>3. CASE NativeRefuses(q) /\ ~Reset(q)
    <3>1. pc' = [pc EXCEPT ![q] = "load"] /\ req' = [req EXCEPT ![q] = [req[q] EXCEPT !.absent = TRUE]]
          /\ req[q].mode = "dual-write"
      BY <2>3 DEF NativeRefuses
    <3>2. pc'[q] = "load" /\ req'[q].mode = "dual-write"
      BY <1>0, <3>1, InvFacts DEF Requests
    <3> QED
      BY <3>2 DEF Unanswered, Busy
  <2>4. CASE Concludes(q)
    BY <2>4 DEF Concludes, Unanswered, Busy
  <2> QED
    BY <2>1, <2>2, <2>3, <2>4 DEF Tells
<1> QED
  BY <1>0, <1>1, <1>2, AtRes, InvFacts DEF Asked, OneUnanswered

(* What it tells, resource by resource.                                         *)
LEMMA TellsWhat ==
    ASSUME Inv, NEW q \in Req, Tells(q), want' = Applied(want, req[q].res, req[q].op, req[q].val)
    PROVE  LET r == req[q].res IN
           /\ want' = [x \in Res |-> want'[x]]
           /\ want'[r] = IF req[q].op = "DELETE" THEN None ELSE After(want[r], req[q].op, req[q].val)
           /\ req[q].op # "DELETE" => want'[r] \in Content(r) /\ want'[r] # None
           /\ \A x \in Res \ {r} :
                /\ want'[x] = IF req[q].op = "DELETE" THEN Off(x, want[x], r) ELSE want[x]
                /\ want'[x] \in Content(x) \cup {None} /\ (want'[x] = None <=> want[x] = None)
<1> DEFINE r == req[q].res
<1>1. r \in Res /\ req[q].op \in Op /\ req[q].val \in Content(r) /\ (req[q].op = "POST" <=> want[r] = None)
      /\ pc[q] # "idle"
  BY TellerAsks DEF Unanswered, Busy
<1>2. want = [x \in Res |-> want[x]] /\ \A x \in Res : want[x] \in Content(x) \cup {None}
  BY InvFacts DEF Kinds
<1>3. (r \in Users => req[q].op \notin {"ADD", "REMOVE"})
  BY <1>1, InvFacts DEF Listed, AsksFit
<1>4. req[q].op \in {"ADD", "REMOVE"} => want[r] # None
  BY <1>1
<1>5. \A x \in Res : /\ want'[x] \in Content(x) \cup {None}
                     /\ want'[x] # None <=> IF x = r THEN req[q].op # "DELETE" ELSE want[x] # None
  BY <1>1, <1>2, <1>3, <1>4, AppliedTyped
<1> QED
  BY <1>1, <1>2, <1>5, AppliedIs

-----------------------------------------------------------------------------
(* What writes the mappings and the rows of WorkOS *)

LEMMA MapCause ==
    ASSUME Inv, [Next]_vars
    PROVE  \/ map' = map
           \/ \E q \in Req : Record(q) /\ map' = [map EXCEPT ![req[q].res] = row[q]]
           \/ \E q \in Req : PruneMapping(q) /\ map' = [map EXCEPT ![req[q].res] = None]
           \/ FlushWrites /\ map' = [r \in Res |-> IF Queued(r) THEN SinkRow(r) ELSE map[r]]
<1>1. ASSUME NEW q \in Req, Proxy(q)
      PROVE  \/ map' = map
             \/ Record(q) /\ map' = [map EXCEPT ![req[q].res] = row[q]]
             \/ PruneMapping(q) /\ map' = [map EXCEPT ![req[q].res] = None]
  <2>1. CASE Record(q)
    BY <2>1 DEF Record, Rename
  <2>2. CASE PruneMapping(q)
    BY <2>2 DEF PruneMapping
  <2>3. CASE ~Record(q) /\ ~PruneMapping(q)
    BY <1>1, <2>3 DEF Proxy, NativeLeg, NativeRefuses, NativeAnswerLost, ClearGap, SkipReplace, Load,
       PatchHits, PatchAnswerLost, DeleteRow, PruneFails, Retire, MirrorFails, tables, MirrorUnchanged
  <2> QED
    BY <2>1, <2>2, <2>3
<1>2. ASSUME NEW q \in Proc, Dance(q) PROVE map' = map
  BY <1>2 DEF Dance, PutHits, PutMisses, PostCreates, PostConflicts, Reput, Lookup, Sync,
     MirrorUnchanged, tables
<1>3. ASSUME NEW q \in Req, NEW op, NEW r, NEW v, Receive(q, op, r, v) PROVE map' = map
  BY <1>3 DEF Receive, tables
<1>4. CASE FlushWrites
  <2>1. map' = [r \in Res |-> IF TRUE /\ r \in {x \in Res : Queued(x)} THEN SinkRow(r) ELSE map[r]]
    BY <1>4 DEF FlushWrites, Flush
  <2> QED
    BY <1>4, <2>1
<1>5. CASE FlushFails
  <2>1. map' = [r \in Res |-> IF FALSE /\ r \in {x \in Res : Queued(x)} THEN SinkRow(r) ELSE map[r]]
    BY <1>5 DEF FlushFails, Flush
  <2> QED
    BY <2>1, InvFacts
<1>6. CASE Backfill /\ ~FlushWrites /\ ~FlushFails
  BY <1>6 DEF Backfill, StartFill, FillPage, FillPageFails, FillSkips, FillRow, FillRecord, FillFails,
     FillUsersDone, tables
<1>7. CASE (\E m \in Mode : SetMode(m)) \/ CleanWorkos \/ Crash \/ UNCHANGED vars
  BY <1>7 DEF SetMode, CleanWorkos, Crash, vars, tables
<1> QED
  BY <1>1, <1>2, <1>3, <1>4, <1>5, <1>6, <1>7 DEF Next

LEMMA BodyThere ==
    ASSUME Inv, NEW p \in Proc, pc[p] \in Dancing \cup {"patch"}
    PROVE  body[p] # None /\ IF req[p].res \in Users THEN body[p] \in Flag ELSE body[p] \subseteq UserRows
<1>1. IF req[p].res \in Users THEN body[p] \in Flag ELSE body[p] \subseteq UserRows
  BY InvFacts DEF Kinds, BodyFits
<1>2. UserRows \subseteq Row
  BY RowFacts, KindFacts DEF UserRows
<1> QED
  BY <1>1, <1>2, NoneAssumption

DanceFrame == <<req, body, native, born, setting, mode, map, gap, stage, snap, sink, want, oldN, oldW,
                crossed, stale, held, ever, wrote>>

LEMMA DanceDoes ==
    ASSUME Inv, NEW p \in Proc, Dance(p)
    PROVE  /\ req[p].res \in Res /\ pc[p] \in Dancing /\ pc'[p] \in Dancing /\ UNCHANGED DanceFrame
           /\ \A o \in Proc \ {p} : pc'[o] = pc[o] /\ row'[o] = row[o]
           /\ row'[p] \in RowsOf(req[p].res)
           /\ \/ workos' = workos /\ pc'[p] # "record"
              \/ /\ pc'[p] = "record" /\ workos' = [workos EXCEPT ![row'[p]] = body[p]]
                 /\ workos[row'[p]] # None \/ Standing(req[p].res) = {}
<1>0. Ind /\ RowsFit /\ pc \in [Proc -> Steps] /\ row = [o \in Proc |-> row[o]]
  BY InvFacts
<1>1. /\ MovesOnly(p) /\ pc[p] \in Dancing /\ pc'[p] \in Dancing
      /\ req[p].res \in Res /\ row'[p] \in RowsOf(req[p].res)
  BY <1>0, DanceMoves
<1>2. UNCHANGED DanceFrame
  BY DEF Dance, PutHits, PutMisses, PostCreates, PostConflicts, Reput, Lookup, Sync, MirrorUnchanged,
     DanceFrame, tables, fill, history
<1>3. \/ workos' = workos /\ pc'[p] # "record"
      \/ /\ pc'[p] = "record" /\ workos' = [workos EXCEPT ![row'[p]] = body[p]]
         /\ workos[row'[p]] # None \/ Standing(req[p].res) = {}
  <2>1. CASE PutHits(p) \/ Sync(p)
    BY <1>0, <2>1 DEF PutHits, Sync, Overwrite
  <2>2. CASE PutMisses(p) \/ PostConflicts(p) \/ Lookup(p)
    BY <1>0, <2>2 DEF PutMisses, PostConflicts, Lookup
  <2>3. ASSUME NEW adopts \in BOOLEAN, PostCreates(p, adopts)
        PROVE  /\ pc'[p] = "record" /\ workos' = [workos EXCEPT ![row'[p]] = body[p]]
               /\ Standing(req[p].res) = {}
    BY <1>0, <2>3 DEF PostCreates, Overwrite
  <2>4. CASE Reput(p)
    BY <1>0, <2>4 DEF Reput, Overwrite
  <2> QED
    BY <2>1, <2>2, <2>3, <2>4 DEF Dance
<1> QED
  BY <1>1, <1>2, <1>3 DEF MovesOnly

LEMMA PatchDoes ==
    ASSUME Inv, NEW q \in Req, PatchHits(q) \/ PatchAnswerLost(q)
    PROVE  /\ pc[q] = "patch" /\ req[q].res \in Res /\ row[q] \in RowsOf(req[q].res)
           /\ workos' = [workos EXCEPT ![row[q]] = After(workos[row[q]], req[q].op, body[q])]
           /\ req[q].op \in {"PATCH", "ADD", "REMOVE"} /\ workos[row[q]] # None /\ q \in Proc
           /\ UNCHANGED <<native, born, tables, fill, crossed, stale, held, ever, wrote>>
           /\ Reset(q)
<1>1. pc[q] = "patch" /\ q \in Proc
  BY ProcMembers DEF PatchHits, PatchAnswerLost
<1>2. req[q].res \in Res /\ row[q] \in RowsOf(req[q].res) /\ req[q].op \in {"PATCH", "ADD", "REMOVE"}
  BY <1>1, AtRes, InvFacts DEF Early, Kinds
<1> QED
  BY <1>1, <1>2 DEF PatchHits, PatchAnswerLost

LEMMA DeleteDoes ==
    ASSUME Inv, NEW q \in Req, DeleteRow(q)
    PROVE  /\ pc[q] = "delete" /\ req[q].res \in Res /\ row[q] \in RowsOf(req[q].res) /\ q \in Proc
           /\ pc' = [pc EXCEPT ![q] = "prune"] /\ workos' = WorkosDeletes(row[q])
           /\ req[q].op = "DELETE"
           /\ UNCHANGED <<req, body, row, native, born, tables, fill, history>>
<1>1. pc[q] = "delete" /\ q \in Proc
  BY ProcMembers DEF DeleteRow
<1> QED
  BY <1>1, AtRes, InvFacts DEF DeleteRow, Early, Kinds, MirrorUnchanged

WritesRow(p) == Dance(p) \/ (p \in Req /\ (PatchHits(p) \/ PatchAnswerLost(p) \/ DeleteRow(p)))

LEMMA RowsCause ==
    ASSUME [Next]_vars
    PROVE  workos' = workos \/ CleanWorkos \/ \E p \in Proc : WritesRow(p)
<1>1. ASSUME NEW q \in Req, Proxy(q) PROVE workos' = workos \/ WritesRow(q)
  BY <1>1 DEF Proxy, NativeLeg, NativeRefuses, NativeAnswerLost, ClearGap, SkipReplace, Load, Record,
     PruneMapping, PruneFails, Retire, MirrorFails, upstreams, WritesRow
<1>2. ASSUME NEW q \in Proc, Dance(q) PROVE WritesRow(q)
  BY <1>2 DEF WritesRow
<1>3. ASSUME NEW q \in Req, NEW op, NEW r, NEW v, Receive(q, op, r, v) PROVE workos' = workos
  BY <1>3 DEF Receive, upstreams
<1>4. CASE Backfill
  BY <1>4 DEF Backfill, StartFill, FillPage, FillPageFails, FillSkips, FillRow, FillRecord, FillFails,
     FlushWrites, FlushFails, Flush, FillUsersDone, upstreams
<1>5. CASE (\E m \in Mode : SetMode(m)) \/ CleanWorkos \/ Crash \/ UNCHANGED vars
  BY <1>5 DEF SetMode, Crash, vars, upstreams
<1> QED
  BY <1>1, <1>2, <1>3, <1>4, <1>5, ProcMembers DEF Next

(* The deletion of a user takes the row from the lists of members.              *)
Strikes(q) == DeleteRow(q) /\ req[q].res \in Users /\ ~Retains /\ workos[row[q]] # None

LEMMA RowsElse ==
    ASSUME Inv, [Next]_vars, ~CleanWorkos, NEW r \in Res, \A p \in Proc : WritesRow(p) => req[p].res # r
    PROVE  /\ Standing(r)' = Standing(r)
           /\ \/ \A w \in RowsOf(r) : workos'[w] = workos[w]
              \/ /\ r \in Groups
                 /\ \E q \in Req : /\ Strikes(q)
                                   /\ \A w \in RowsOf(r) :
                                        workos'[w] = IF workos[w] = None THEN None ELSE workos[w] \ {row[q]}
<1>0. workos = [w \in Row |-> workos[w]] /\ \A w \in RowsOf(r) : w \in Row
  BY InvFacts, RowFacts
<1>1. ASSUME \A w \in RowsOf(r) : workos'[w] = workos[w]
      PROVE  Standing(r)' = Standing(r)
  BY <1>1 DEF Standing, RowsOf
<1>2. CASE workos' = workos
  BY <1>1, <1>2
<1>3. ASSUME NEW p \in Proc, WritesRow(p), req[p].res \in Res, NEW w \in RowsOf(req[p].res), NEW v,
             workos' = [workos EXCEPT ![w] = v]
      PROVE  \A x \in RowsOf(r) : workos'[x] = workos[x]
  BY <1>0, <1>3, KindFacts
<1>4. ASSUME NEW p \in Proc, Dance(p) PROVE \A x \in RowsOf(r) : workos'[x] = workos[x]
  BY <1>3, <1>4, DanceDoes DEF WritesRow
<1>5. ASSUME NEW p \in Req, PatchHits(p) \/ PatchAnswerLost(p)
      PROVE  \A x \in RowsOf(r) : workos'[x] = workos[x]
  BY <1>3, <1>5, PatchDoes DEF WritesRow
<1>6. ASSUME NEW q \in Req, DeleteRow(q)
      PROVE  /\ Standing(r)' = Standing(r)
             /\ \/ \A w \in RowsOf(r) : workos'[w] = workos[w]
                \/ /\ r \in Groups /\ Strikes(q)
                   /\ \A w \in RowsOf(r) : workos'[w] = IF workos[w] = None THEN None ELSE workos[w] \ {row[q]}
  <2>0. /\ req[q].res \in Res /\ row[q] \in RowsOf(req[q].res) /\ q \in Proc
        /\ workos' = WorkosDeletes(row[q]) /\ req[q].res # r /\ RowsFit
    BY <1>6, DeleteDoes, InvFacts DEF WritesRow
  <2>1. \A s \in Res : \A x \in RowsOf(s) \ {row[q]} :
          WorkosDeletes(row[q])[x] = IF workos[row[q]] # None /\ ~Retains /\ req[q].res \in Users
                                        /\ s \in Groups /\ workos[x] # None
                                     THEN workos[x] \ {row[q]} ELSE workos[x]
    BY <2>0, DeletedRows
  <2>2. \A x \in RowsOf(r) : x # row[q]
    BY <2>0, KindFacts
  <2>3. CASE r \in Groups /\ Strikes(q)
    <3>1. \A w \in RowsOf(r) : workos'[w] = IF workos[w] = None THEN None ELSE workos[w] \ {row[q]}
      BY <2>0, <2>1, <2>2, <2>3 DEF Strikes
    <3>2. ASSUME NEW w \in RowsOf(r), workos[w] # None PROVE workos[w] \ {row[q]} # None
      <4>1. workos[w] \subseteq UserRows
        BY <2>3, <3>2, InvFacts DEF Kinds
      <4>2. UserRows \subseteq Row
        BY RowFacts, KindFacts DEF UserRows
      <4> QED
        BY <4>1, <4>2, NoneAssumption
    <3> QED
      BY <2>3, <3>1, <3>2 DEF Standing, RowsOf
  <2>4. CASE ~(r \in Groups /\ Strikes(q))
    <3>1. \A w \in RowsOf(r) : workos'[w] = workos[w]
      BY <1>6, <2>0, <2>1, <2>2, <2>4 DEF Strikes
    <3> QED
      BY <1>1, <3>1
  <2> QED
    BY <2>3, <2>4
<1> QED
  BY <1>1, <1>2, <1>4, <1>5, <1>6, RowsCause DEF WritesRow

-----------------------------------------------------------------------------
(* Who moves *)

Keeps(p) == pc'[p] = pc[p] /\ req'[p] = req[p] /\ row'[p] = row[p] /\ body'[p] = body[p]
Moves(p) ==
    \/ p \in Req /\ (Proxy(p) \/ Arrives(p))
    \/ Dance(p)
    \/ p = Filler /\ (FillRow \/ FillRecord \/ FillFails)

LEMMA KeepsElse ==
    ASSUME Inv, [Next]_vars, ~Crash, NEW p \in Proc, ~Moves(p)
    PROVE  Keeps(p)
<1>0. /\ Ind /\ RowsFit /\ Listed /\ pc \in [Proc -> Steps] /\ req = [o \in Proc |-> req[o]]
      /\ row = [o \in Proc |-> row[o]] /\ body = [o \in Proc |-> body[o]]
  BY InvFacts
<1>1. ASSUME UNCHANGED procs PROVE Keeps(p)
  BY <1>1 DEF procs, Keeps
<1>2. ASSUME NEW q \in Proc \ {p}, MovesOnly(q), body' = [body EXCEPT ![q] = body'[q]] PROVE Keeps(p)
  BY <1>0, <1>2 DEF MovesOnly, Keeps
<1>3. ASSUME NEW q \in Req, Proxy(q) PROVE Keeps(p)
  <2>0. q \in Proc /\ q # p
    BY <1>3, ProcMembers DEF Moves
  <2>1. CASE Reset(q)
    BY <1>0, <1>2, <2>0, <2>1, ResetMoves DEF Reset
  <2>2. CASE Load(q)
    BY <1>0, <1>2, <1>3, <2>0, <2>2, ProxyMoves DEF Load
  <2>3. CASE UNCHANGED body
    BY <1>0, <1>2, <1>3, <2>0, <2>3, ProxyMoves
  <2> QED
    BY <1>3, <2>1, <2>2, <2>3 DEF Proxy, NativeLeg, NativeRefuses, NativeAnswerLost, ClearGap, SkipReplace,
       Record, PatchHits, PatchAnswerLost, DeleteRow, PruneMapping, PruneFails, Retire, MirrorFails
<1>4. ASSUME NEW q \in Proc, Dance(q) PROVE Keeps(p)
  <2>1. q # p /\ MovesOnly(q) /\ body' = body
    BY <1>0, <1>4, DanceMoves, DanceDoes DEF Moves, DanceFrame
  <2> QED
    BY <1>0, <1>2, <2>1
<1>5. ASSUME NEW q \in Req, NEW op \in Op, NEW r \in Res,
             NEW v \in (IF r \in Users THEN Flag ELSE SUBSET Users), Receive(q, op, r, v)
      PROVE  Keeps(p)
  <2>1. q # p /\ q \in Proc
    BY <1>5, ProcMembers DEF Moves, Arrives, Content
  <2>2. MovesOnly(q) /\ body' = body
    BY <1>0, <1>5, ReceiveMoves DEF Receive
  <2> QED
    BY <1>0, <1>2, <2>1, <2>2
<1>6. CASE Backfill
  <2>0. Filler \in Proc
    BY ProcMembers
  <2>1. CASE FillRow
    <3>1. Filler # p
      BY <2>1 DEF Moves
    <3> QED
      BY <1>0, <1>2, <2>0, <2>1, <3>1, FillRowMoves DEF FillRow
  <2>2. CASE FillRecord \/ FillFails
    <3>1. Filler # p /\ Reset(Filler)
      BY <2>2 DEF Moves, FillRecord, FillFails
    <3> QED
      BY <1>0, <1>2, <2>0, <3>1, ResetMoves DEF Reset
  <2>3. CASE ~FillRow /\ ~FillRecord /\ ~FillFails
    BY <1>1, <1>6, <2>3 DEF Backfill, StartFill, FillPage, FillPageFails, FillSkips, FlushWrites,
       FlushFails, Flush, FillUsersDone
  <2> QED
    BY <2>1, <2>2, <2>3
<1>7. CASE (\E m \in Mode : SetMode(m)) \/ CleanWorkos \/ UNCHANGED vars
  BY <1>1, <1>7 DEF SetMode, CleanWorkos, vars
<1> QED
  BY <1>3, <1>4, <1>5, <1>6, <1>7 DEF Next

LEMMA CrashDoes ==
    ASSUME Crash
    PROVE  /\ \A p \in Proc : pc'[p] = "idle" /\ req'[p] = NoReq /\ body'[p] = None /\ row'[p] = None
           /\ pc' = [p \in Proc |-> "idle"] /\ req' = [p \in Proc |-> NoReq]
           /\ stage' = "off" /\ snap' = <<>> /\ sink' = <<>> /\ stale' = {}
           /\ UNCHANGED <<upstreams, setting, mode, map, gap, want, oldN, crossed, held, ever, wrote>>
           /\ oldW \subseteq oldW'
           /\ \A p \in Proc : Busy(p) => req[p].res \in oldW'
           /\ \A p \in Proc : pc[p] = "prune" => GroupsOf(req[p].res) \subseteq oldW'
           /\ \A i \in DOMAIN sink : sink[i][1] \in oldW'
<1>1. \A i \in DOMAIN sink : sink[i] \in Elements(sink)
  BY DEF Elements
<1> QED
  BY <1>1 DEF Crash, tables

-----------------------------------------------------------------------------
(* What only grows *)

LEMMA CrossedGrows ==
    ASSUME Inv, [Next]_vars
    PROVE  /\ crossed' \in [Proc -> BOOLEAN]
           /\ \A p \in Proc : Busy(p) /\ crossed[p] => crossed'[p]
<1> DEFINE Grows == /\ crossed' \in [Proc -> BOOLEAN]
                    /\ \A p \in Proc : Busy(p) /\ crossed[p] => crossed'[p]
<1>0. crossed \in [Proc -> BOOLEAN]
  BY InvFacts
<1>1. ASSUME UNCHANGED crossed PROVE Grows
  BY <1>0, <1>1
<1>2. ASSUME NEW q, ~Busy(q), NEW rq, Cross(q, rq) PROVE Grows
  BY <1>0, <1>2 DEF Cross
<1>3. ASSUME NEW q \in Req, Proxy(q) PROVE Grows
  <2>1. CASE NativeLeg(q)
    <3>1. ~Busy(q) /\ Cross(q, req[q])
      BY <2>1 DEF NativeLeg, Busy
    <3> QED
      BY <1>2, <3>1
  <2>2. CASE NativeRefuses(q)
    <3>1. ~Busy(q) /\ (Cross(q, req[q]) \/ UNCHANGED crossed)
      BY <2>2 DEF NativeRefuses, Busy
    <3> QED
      BY <1>1, <1>2, <3>1
  <2>3. CASE Load(q)
    <3>1. crossed' = [crossed EXCEPT ![q] = crossed[q] \/ \E u \in Members(req[q]) : map[u] = None]
      BY <2>3 DEF Load
    <3> QED
      BY <1>0, <3>1, ProcMembers
  <2>4. CASE Record(q)
    <3>1. PICK w : crossed' = [p \in Proc |-> crossed[p] \/ (w /\ req[q].res \in Members(req[p]))]
      BY <2>4 DEF Record, Rename
    <3> QED
      BY <1>0, <3>1
  <2>5. CASE UNCHANGED crossed
    BY <1>1, <2>5
  <2> QED
    BY <1>3, <2>1, <2>2, <2>3, <2>4, <2>5 DEF Proxy, NativeAnswerLost, ClearGap, SkipReplace, PatchHits, PatchAnswerLost, DeleteRow,
       PruneMapping, PruneFails, Retire, MirrorFails, MirrorUnchanged, history
<1>4. ASSUME NEW q \in Proc, Dance(q) PROVE Grows
  BY <1>1, <1>4, DanceDoes DEF DanceFrame
<1>5. ASSUME NEW q \in Req, NEW op, NEW r, NEW v, Receive(q, op, r, v) PROVE Grows
  <2>1. ~Busy(q) /\ (UNCHANGED crossed \/ \E rq : Cross(q, rq))
    BY <1>5 DEF Receive, Busy
  <2> QED
    BY <1>1, <1>2, <2>1
<1>6. CASE Backfill
  <2>1. CASE FillPage
    <3>1. PICK S : crossed' = [p \in Proc |-> crossed[p] \/ p \in S]
      BY <2>1 DEF FillPage
    <3> QED
      BY <1>0, <3>1
  <2>2. CASE FillRow
    <3>1. ~Busy(Filler) /\ crossed' = [crossed EXCEPT ![Filler] = FALSE]
      BY <2>2 DEF FillRow, Busy
    <3> QED
      BY <1>0, <3>1
  <2>3. CASE FlushWrites \/ FlushFails
    <3>1. PICK S : crossed' = [p \in Proc |-> crossed[p] \/ S \cap Members(req[p]) # {}]
      BY <2>3 DEF FlushWrites, FlushFails, Flush
    <3> QED
      BY <1>0, <3>1
  <2>4. CASE UNCHANGED crossed
    BY <1>1, <2>4
  <2> QED
    BY <1>6, <2>1, <2>2, <2>3, <2>4 DEF Backfill, StartFill, FillPageFails, FillSkips, FillRecord, FillFails, FillUsersDone, history
<1>7. CASE CleanWorkos
  BY <1>7 DEF CleanWorkos
<1>8. CASE (\E m \in Mode : SetMode(m)) \/ Crash \/ UNCHANGED vars
  BY <1>1, <1>8 DEF SetMode, Crash, vars, history
<1> QED
  BY <1>3, <1>4, <1>5, <1>6, <1>7, <1>8 DEF Next

NoneCopied == stage' = "off" /\ sink' = <<>> /\ snap' = <<>> /\ pc'[Filler] = "idle"

LEMMA StaleGrows ==
    ASSUME Inv, [Next]_vars
    PROVE  stale \subseteq stale' \/ NoneCopied
<1>1. ASSUME NEW q, NEW rq, Cross(q, rq) PROVE stale \subseteq stale'
  BY <1>1 DEF Cross
<1>2. ASSUME NEW q \in Req, Proxy(q) PROVE stale \subseteq stale'
  BY <1>1, <1>2 DEF Proxy, NativeLeg, NativeRefuses, NativeAnswerLost, ClearGap, SkipReplace, Load, Record,
     PatchHits, PatchAnswerLost, DeleteRow, PruneMapping, PruneFails, Retire, MirrorFails, MirrorUnchanged, history
<1>3. ASSUME NEW q \in Proc, Dance(q) PROVE stale \subseteq stale'
  BY <1>3, DanceDoes DEF DanceFrame
<1>4. ASSUME NEW q \in Req, NEW op, NEW r, NEW v, Receive(q, op, r, v) PROVE stale \subseteq stale'
  BY <1>1, <1>4 DEF Receive
<1>5. CASE FlushWrites \/ FlushFails
  <2>1. /\ pc[Filler] = "idle" /\ FlushDue /\ stage \in Rows \cup {"flush"} /\ sink' = <<>>
        /\ stage' = AfterFlush /\ stale' = (IF AfterFlush = "off" THEN {} ELSE stale) /\ UNCHANGED <<pc, snap>>
    BY <1>5 DEF FlushWrites, FlushFails, Flush, procs
  <2>2. CASE AfterFlush # "off"
    BY <2>1, <2>2
  <2>3. CASE AfterFlush = "off"
    <3>1. ~Full
      BY <2>1, <2>3 DEF AfterFlush, Rows
    <3>2. snap = <<>>
      BY <2>1, <2>3, <3>1 DEF AfterFlush, FlushDue
    <3> QED
      BY <2>1, <2>3, <3>2 DEF NoneCopied
  <2> QED
    BY <2>2, <2>3
<1>6. CASE Backfill /\ ~FlushWrites /\ ~FlushFails
  BY <1>6 DEF Backfill, StartFill, FillPage, FillPageFails, FillSkips, FillRow, FillRecord, FillFails, FillUsersDone, history
<1>7. CASE Crash
  BY <1>7, CrashDoes, ProcMembers DEF NoneCopied
<1>8. CASE (\E m \in Mode : SetMode(m)) \/ CleanWorkos \/ UNCHANGED vars
  BY <1>8 DEF SetMode, CleanWorkos, vars, history
<1> QED
  BY <1>2, <1>3, <1>4, <1>5, <1>6, <1>7, <1>8 DEF Next

-----------------------------------------------------------------------------
(* What is known to differ is forgotten when it is written anew *)

Repairs(q) == Record(q) /\ ~crossed[q] /\ req[q].op \in {"POST", "PUT"}

LEMMA OldWCause ==
    ASSUME Inv, [Next]_vars, NEW r \in Res, r \in oldW, r \notin oldW'
    PROVE  \/ \E q \in Req : Repairs(q) /\ req[q].res = r
           \/ FlushWrites /\ Queued(r) /\ r \notin stale \cup oldN
<1>1. ASSUME NEW q \in Req, NEW ok, NEW aside, SettleAside(q, ok, aside)
      PROVE  req[q].res = r /\ ok /\ ~crossed[q] /\ req[q].op \in {"POST", "PUT"}
  BY <1>1 DEF SettleAside
<1>2. ASSUME NEW q \in Req, Proxy(q) PROVE Repairs(q) /\ req[q].res = r
  <2>1. CASE Record(q)
    BY <1>1, <2>1 DEF Record, Repairs
  <2>2. CASE SkipReplace(q) \/ PatchAnswerLost(q) \/ MirrorFails(q)
    BY <1>1, <2>2 DEF SkipReplace, PatchAnswerLost, MirrorFails, Settle
  <2>3. CASE PatchHits(q)
    BY <1>1, <2>3, PatchDoes DEF PatchHits, Settle
  <2>4. CASE PruneMapping(q) \/ Retire(q)
    <3>1. req[q].op = "DELETE"
      BY <2>4, InvFacts DEF PruneMapping, Retire, Kinds
    <3> QED
      BY <1>1, <2>4, <3>1 DEF PruneMapping, Retire, Settle
  <2>5. CASE NativeLeg(q) \/ NativeRefuses(q) \/ NativeAnswerLost(q) \/ PruneFails(q)
    BY <2>5 DEF NativeLeg, NativeRefuses, NativeAnswerLost, PruneFails
  <2>6. CASE ClearGap(q) \/ Load(q) \/ DeleteRow(q)
    BY <2>6 DEF ClearGap, Load, DeleteRow, MirrorUnchanged, history
  <2> QED
    BY <1>2, <2>1, <2>2, <2>3, <2>4, <2>5, <2>6 DEF Proxy
<1>3. ASSUME NEW q \in Proc, Dance(q) PROVE FALSE
  BY <1>3, DanceDoes DEF DanceFrame
<1>4. ASSUME NEW q \in Req, NEW op, NEW x, NEW v, Receive(q, op, x, v) PROVE FALSE
  BY <1>4 DEF Receive
<1>5. CASE FlushWrites \/ FlushFails
  <2>1. PICK written \in BOOLEAN : Flush(written) /\ (written => FlushWrites)
    BY <1>5 DEF FlushWrites, FlushFails
  <2>2. r \in {x \in {y \in Res : Queued(y)} : written /\ x \notin stale \cup oldN}
    BY <2>1 DEF Flush
  <2> QED
    BY <2>1, <2>2
<1>6. CASE Backfill /\ ~FlushWrites /\ ~FlushFails
  BY <1>6 DEF Backfill, StartFill, FillPage, FillPageFails, FillSkips, FillRow, FillRecord, FillFails, FillUsersDone, history
<1>7. CASE (\E m \in Mode : SetMode(m)) \/ CleanWorkos \/ Crash \/ UNCHANGED vars
  BY <1>7, CrashDoes DEF SetMode, CleanWorkos, vars, history
<1> QED
  BY <1>2, <1>3, <1>4, <1>5, <1>6, <1>7 DEF Next

LEMMA OldNCause ==
    ASSUME Inv, [Next]_vars, NEW r \in Res, r \in oldN, r \notin oldN'
    PROVE  \E q \in Req : NativeLeg(q) /\ req[q].res = r /\ req[q].op \in {"POST", "PUT", "DELETE"}
<1>1. ASSUME NEW q \in Req, Proxy(q) PROVE NativeLeg(q) /\ req[q].res = r /\ req[q].op \in {"POST", "PUT", "DELETE"}
  <2>1. CASE NativeLeg(q)
    BY <2>1 DEF NativeLeg
  <2>2. CASE ~NativeLeg(q)
    BY <1>1, <2>2 DEF Proxy, NativeRefuses, NativeAnswerLost, ClearGap, SkipReplace, Load, Record, PatchHits,
       PatchAnswerLost, DeleteRow, PruneMapping, PruneFails, Retire, MirrorFails, MirrorUnchanged, history,
       Settle, SettleAside
  <2> QED
    BY <2>1, <2>2
<1>3. ASSUME NEW q \in Proc, Dance(q) PROVE FALSE
  BY <1>3, DanceDoes DEF DanceFrame
<1>4. ASSUME NEW q \in Req, NEW op, NEW x, NEW v, Receive(q, op, x, v) PROVE FALSE
  BY <1>4 DEF Receive
<1>5. CASE Backfill
  BY <1>5 DEF Backfill, StartFill, FillPage, FillPageFails, FillSkips, FillRow, FillRecord, FillFails,
     FlushWrites, FlushFails, Flush, FillUsersDone, history
<1>7. CASE (\E m \in Mode : SetMode(m)) \/ CleanWorkos \/ Crash \/ UNCHANGED vars
  BY <1>7 DEF SetMode, CleanWorkos, Crash, vars, history
<1> QED
  BY <1>1, <1>3, <1>4, <1>5, <1>7 DEF Next

-----------------------------------------------------------------------------
(* Who is unanswered, and who was born *)

LEMMA UnansweredFrom ==
    ASSUME Inv, [Next]_vars, NEW p \in Req, Unanswered(p)'
    PROVE  \/ /\ Unanswered(p) /\ req'[p].res = req[p].res /\ req'[p].op = req[p].op
              /\ req'[p].val = req[p].val /\ req'[p].mode = req[p].mode /\ ~Tells(p)
              /\ pc'[p] = "native" => pc[p] = "native"
           \/ \E op \in Op, r \in Res : \E v \in Content(r) :
                /\ Receive(p, op, r, v) /\ req'[p].op = op /\ req'[p].res = r
                /\ req'[p].val = v /\ req'[p].mode = mode
<1>0. Ind /\ RowsFit /\ Listed
  BY InvFacts
<1>1. pc'[p] # "idle"
  BY DEF Unanswered, Busy
<1>2. CASE Onward(p)
  <2>2. pc[p] # "idle" /\ req'[p].res = req[p].res /\ req'[p].mode = req[p].mode
        /\ req'[p].op = req[p].op /\ req'[p].val = req[p].val
    BY <1>0, <1>1, <1>2, OnwardKeeps
  <2>3. pc'[p] = "native" => pc[p] = "native"
    BY <1>1, <1>2 DEF Onward, Goes, Dancing
  <2>4. ~Tells(p)
    BY TellerAsks
  <2> QED
    BY <2>2, <2>3, <2>4 DEF Unanswered, Busy
<1>3. CASE Arrives(p)
  <2>1. PICK op \in Op, r \in Res : \E v \in Content(r) : Receive(p, op, r, v)
    BY <1>3 DEF Arrives
  <2>2. PICK v \in Content(r) : Receive(p, op, r, v)
    BY <2>1
  <2>3. req'[p] = [op |-> op, res |-> r, val |-> v, mode |-> mode, absent |-> FALSE]
    BY <1>0, <2>2, ReceiveMoves
  <2>4. req'[p].op = op /\ req'[p].res = r /\ req'[p].val = v /\ req'[p].mode = mode
    BY <2>3
  <2> QED
    BY <2>2, <2>4
<1> QED
  BY <1>0, <1>2, <1>3, RequestsMove

LEMMA EverGrows ==
    ASSUME Inv, [Next]_vars
    PROVE  /\ ever \subseteq ever'
           /\ \A r \in ever' \ ever : \E q \in Req :
                \/ pc[q] = "native" /\ req[q].res = r /\ req[q].op = "POST" /\ ~(pc'[q] = "native")
                \/ \E op, v : Receive(q, op, r, v) /\ op = "POST" /\ mode = "workos-only"
<1> DEFINE Cause(q, r) == \/ pc[q] = "native" /\ req[q].res = r /\ req[q].op = "POST" /\ ~(pc'[q] = "native")
                          \/ \E op, v : Receive(q, op, r, v) /\ op = "POST" /\ mode = "workos-only"
<1>0. pc \in [Proc -> Steps] /\ Req \subseteq Proc
  BY InvFacts, ProcMembers
<1>1. ASSUME NEW q \in Req, Proxy(q) PROVE ever' = ever \/ (ever' = ever \cup {req[q].res} /\ Cause(q, req[q].res))
  <2>1. CASE NativeLeg(q)
    <3>1. pc[q] = "native" /\ pc'[q] = "clear" /\ NativeWrites(q)
      BY <1>0, <2>1 DEF NativeLeg
    <3> QED
      BY <3>1 DEF NativeWrites
  <2>2. CASE NativeAnswerLost(q)
    <3>1. pc[q] = "native" /\ pc'[q] = "idle" /\ NativeWrites(q)
      BY <1>0, <2>2 DEF NativeAnswerLost, Reset
    <3> QED
      BY <3>1 DEF NativeWrites
  <2>3. CASE ~NativeLeg(q) /\ ~NativeAnswerLost(q)
    BY <1>1, <2>3 DEF Proxy, NativeRefuses, ClearGap, SkipReplace, Load, Record, PatchHits,
       PatchAnswerLost, DeleteRow, PruneMapping, PruneFails, Retire, MirrorFails, MirrorUnchanged, history
  <2> QED
    BY <2>1, <2>2, <2>3
<1>3. ASSUME NEW q \in Proc, Dance(q) PROVE ever' = ever
  BY <1>3, DanceDoes DEF DanceFrame
<1>4. ASSUME NEW q \in Req, NEW op, NEW x, NEW v, Receive(q, op, x, v)
      PROVE  ever' = ever \/ (ever' = ever \cup {x} /\ Cause(q, x))
  BY <1>4 DEF Receive
<1>5. ASSUME Backfill PROVE ever' = ever
  BY <1>5 DEF Backfill, StartFill, FillPage, FillPageFails, FillSkips, FillRow, FillRecord, FillFails,
     FlushWrites, FlushFails, Flush, FillUsersDone, history
<1>7. ASSUME (\E m \in Mode : SetMode(m)) \/ CleanWorkos \/ Crash \/ UNCHANGED vars PROVE ever' = ever
  BY <1>7 DEF SetMode, CleanWorkos, Crash, vars, history
<1> DEFINE Grown == ever \subseteq ever' /\ \A r \in ever' \ ever : \E q \in Req : Cause(q, r)
<1> HIDE DEF Cause
<1>8. ever' = ever => Grown
  OBVIOUS
<1>9. ASSUME NEW q \in Req, NEW r, ever' = ever \cup {r}, Cause(q, r) PROVE Grown
  BY <1>9
<1> HIDE DEF Grown
<1>11. ASSUME NEW q \in Req, Proxy(q) PROVE Grown
  BY <1>1, <1>8, <1>9, <1>11
<1>12. ASSUME NEW q \in Req, NEW op, NEW x, NEW v, Receive(q, op, x, v) PROVE Grown
  BY <1>4, <1>8, <1>9, <1>12
<1>10. Grown
  BY <1>3, <1>5, <1>7, <1>8, <1>11, <1>12 DEF Next
<1> QED
  BY <1>10 DEF Cause, Grown

LEMMA BornStays ==
    ASSUME Inv, [Next]_vars, NEW r \in Res, Born(r)
    PROVE  Born(r)'
<1>1. r \in ever'
  BY EverGrows DEF Born
<1>2. ASSUME NEW q \in Req, Unanswered(q)', req'[q].op = "POST", req'[q].res = r PROVE FALSE
  <2>1. CASE Unanswered(q) /\ req'[q].res = req[q].res /\ req'[q].op = req[q].op
    BY <1>2, <2>1 DEF Born
  <2>2. ASSUME NEW op, NEW x, NEW v, Receive(q, op, x, v), req'[q].op = op, req'[q].res = x PROVE FALSE
    BY <1>2, <2>2 DEF Born, Receive, Legal
  <2> QED
    BY <1>2, <2>1, <2>2, UnansweredFrom
<1> QED
  BY <1>1, <1>2 DEF Born

LEMMA DeadStays ==
    ASSUME Inv, [Next]_vars, NEW r \in Res, Born(r), want[r] = None
    PROVE  want'[r] = None
<1>1. ASSUME NEW q \in Req, Tells(q), want' = Applied(want, req[q].res, req[q].op, req[q].val)
      PROVE  want'[r] = None
  <2>1. CASE req[q].res = r
    <3>1. Unanswered(q) /\ req[q].op = "POST"
      BY <1>1, <2>1, TellerAsks
    <3> QED
      BY <2>1, <3>1 DEF Born
  <2>2. CASE req[q].res # r
    BY <1>1, <2>2, TellsWhat
  <2> QED
    BY <2>1, <2>2
<1> QED
  BY <1>1, WantCause

-----------------------------------------------------------------------------
(* What a page adds, and what a worker starts with *)

LEMMA SubSeqIs ==
    ASSUME NEW s \in Seq(Res), NEW from \in Nat \ {0}, NEW to \in Nat, to <= Len(s)
    PROVE  /\ SubSeq(s, from, to) \in Seq(Res)
           /\ \A i \in DOMAIN SubSeq(s, from, to) :
                i \in Nat \ {0} /\ from + i - 1 \in DOMAIN s /\ SubSeq(s, from, to)[i] = s[from + i - 1]
<1>1. CASE from > to
  <2>1. SubSeq(s, from, to) = <<>>
    BY <1>1
  <2> QED
    BY <2>1
<1>2. CASE from <= to
  <2>1. /\ SubSeq(s, from, to) \in Seq(Res) /\ Len(SubSeq(s, from, to)) = to - from + 1
        /\ \A i \in 1..(to - from + 1) : SubSeq(s, from, to)[i] = s[from + i - 1] /\ from + i - 1 \in 1..Len(s)
    BY <1>2
  <2>2. DOMAIN SubSeq(s, from, to) = 1..(to - from + 1) /\ DOMAIN s = 1..Len(s)
    BY <1>2, <2>1
  <2> QED
    BY <2>1, <2>2
<1> QED
  BY <1>1, <1>2

LEMMA ListingIs ==
    ASSUME Inv, stage \in {"users", "groups"}
    PROVE  /\ Listing \in Seq(Res) /\ \A i, j \in DOMAIN Listing : Listing[i] = Listing[j] => i = j
           /\ \A j \in DOMAIN Listing : /\ Listing[j] \in Res /\ native[Listing[j]] # None
                                        /\ Listing[j] \in Users <=> stage = "users"
                                        /\ native[Listing[j]] \in Content(Listing[j])
<1>0. NativeLists
  BY InvFacts DEF Listed
<1>1. ASSUME NEW R \in {Users, Groups}, NEW s \in Seq(Res), Lists(s, {r \in R : native[r] # None})
      PROVE  /\ \A i, j \in DOMAIN s : s[i] = s[j] => i = j
             /\ \A j \in DOMAIN s : s[j] \in R /\ s[j] \in Res /\ native[s[j]] # None /\ native[s[j]] \in Content(s[j])
  <2>1. \A j \in DOMAIN s : s[j] \in R /\ native[s[j]] # None
    BY <1>1 DEF Lists, Elements
  <2>2. R \subseteq Res
    BY DEF Res
  <2> QED
    BY <1>0, <1>1, <2>1, <2>2 DEF Lists, NativeLists
<1>2. CASE stage = "users"
  BY <1>0, <1>1, <1>2 DEF NativeLists, Listing
<1>3. CASE stage = "groups"
  BY <1>0, <1>1, <1>3, KindFacts DEF NativeLists, Listing
<1> QED
  BY <1>2, <1>3

LEMMA PageDoes ==
    ASSUME Inv, FillPage
    PROVE  /\ stage \in {"users", "groups"}
           /\ \A i \in DOMAIN snap' :
                \/ i \in DOMAIN snap /\ snap'[i] = snap[i]
                \/ /\ i \notin DOMAIN snap /\ i \in DOMAIN Listing
                   /\ snap'[i] = <<Listing[i], native[Listing[i]]>>
           /\ \A i \in DOMAIN snap : \A j \in Nat \ DOMAIN snap : j > 0 => i < j
<1>1. PICK S : snap \in Seq(S)
  BY InvFacts DEF Listed, CopiesFit
<1>2. stage \in {"users", "groups"} /\ Len(snap) + 1 \in Nat \ {0} /\ Len(snap) \in Nat
      /\ DOMAIN snap = 1..Len(snap)
  BY <1>1 DEF FillPage
<1> DEFINE from == Len(snap) + 1
           to == IF from + PageSize - 1 < Len(Listing) THEN from + PageSize - 1 ELSE Len(Listing)
           rows == Page(from)
           copy == Copy(rows)
<1>3. Listing \in Seq(Res)
  BY <1>2, ListingIs
<1>4. to \in Nat /\ to <= Len(Listing)
  BY <1>2, <1>3, SizeAssumption
<1>5. rows = SubSeq(Listing, from, to)
  BY DEF Page
<1> HIDE DEF to, rows
<1>6. /\ rows \in Seq(Res)
      /\ \A i \in DOMAIN rows : i \in Nat \ {0} /\ from + i - 1 \in DOMAIN Listing /\ rows[i] = Listing[from + i - 1]
  BY <1>2, <1>3, <1>4, <1>5, SubSeqIs
<1>7. /\ DOMAIN copy = DOMAIN rows
      /\ \A i \in DOMAIN rows : copy[i] = <<rows[i], native[rows[i]]>>
  BY DEF Copy
<1>8. \E T : copy \in Seq(T)
  BY <1>6, CopyOf
<1>9. snap' = snap \o copy
  BY DEF FillPage, rows
<1> HIDE DEF copy
<1>10. PICK T : copy \in Seq(T)
  BY <1>8
<1>11. \A i \in DOMAIN snap' : \/ i \in DOMAIN snap /\ snap'[i] = snap[i]
                               \/ i - Len(snap) \in DOMAIN copy /\ snap'[i] = copy[i - Len(snap)] /\ i \in Nat
  BY <1>1, <1>9, <1>10
<1>12. ASSUME NEW i \in Nat, i - Len(snap) \in DOMAIN copy
       PROVE  /\ i \notin DOMAIN snap /\ i \in DOMAIN Listing
              /\ copy[i - Len(snap)] = <<Listing[i], native[Listing[i]]>>
  <2> DEFINE k == i - Len(snap)
  <2>0. k \in DOMAIN rows
    BY <1>7, <1>12
  <2>1. k \in Nat \ {0} /\ from + k - 1 = i /\ k \in DOMAIN rows
    <3>1. k \in Nat \ {0}
      BY <1>6, <2>0
    <3>2. from + k - 1 = i
      <4>1. \A m, n \in Nat : m + 1 + (n - m) - 1 = n
        OBVIOUS
      <4> QED
        BY <1>2, <4>1
    <3> QED
      BY <2>0, <3>1, <3>2
  <2> HIDE DEF k
  <2>2. copy[k] = <<Listing[i], native[Listing[i]]>> /\ i \in DOMAIN Listing
    BY <1>6, <1>7, <2>1
  <2>3. i > Len(snap)
    BY <1>2, <2>1
  <2> QED
    BY <1>2, <2>2, <2>3 DEF k
<1> QED
  BY <1>2, <1>11, <1>12

LEMMA LoadDoes ==
    ASSUME Inv, NEW q \in Req, Load(q)
    PROVE  /\ q \in Proc /\ pc[q] = "load" /\ req[q].res \in Res /\ req' = req
           /\ pc'[q] = (IF req[q].op = "DELETE" THEN "delete"
                        ELSE IF req[q].op \in {"POST", "PUT"} THEN "put" ELSE "patch")
           /\ row'[q] = Translate(map, req[q].res)
           /\ body'[q] = IF req[q].res \in Groups THEN {Translate(map, u) : u \in req[q].val} ELSE req[q].val
           /\ body' = [p \in Proc |-> body'[p]]
           /\ crossed'[q] = (crossed[q] \/ \E u \in Members(req[q]) : map[u] = None)
           /\ UNCHANGED <<upstreams, tables, fill, want, oldN, oldW, stale, held, ever, wrote, spent>>
<1>0. q \in Proc /\ pc[q] = "load"
  BY ProcMembers DEF Load
<1>1. /\ body' = [body EXCEPT ![q] =
                  IF req[q].res \in Groups THEN {Translate(map, u) : u \in req[q].val} ELSE req[q].val]
      /\ row' = [row EXCEPT ![q] = Translate(map, req[q].res)]
      /\ crossed' = [crossed EXCEPT ![q] = crossed[q] \/ \E u \in Members(req[q]) : map[u] = None]
      /\ pc' = [pc EXCEPT ![q] = IF req[q].op = "DELETE" THEN "delete"
                               ELSE IF req[q].op \in {"POST", "PUT"} THEN "put" ELSE "patch"]
      /\ UNCHANGED <<upstreams, tables, req, fill, want, oldN, oldW, stale, held, ever, wrote, spent>>
  BY DEF Load
<1> QED
  BY <1>0, <1>1, InvFacts, AtRes

LEMMA FillRowDoes ==
    ASSUME Inv, FillRow
    PROVE  LET r == snap[1][1]  v == snap[1][2] IN
           /\ Filler \in Proc /\ pc[Filler] = "idle" /\ pc'[Filler] = "put" /\ 1 \in DOMAIN snap
           /\ r \in Res /\ v \in Content(r) /\ snap # <<>> /\ snap' = Tail(snap) /\ stage \in Rows
           /\ \A i \in DOMAIN snap' : i + 1 \in DOMAIN snap /\ i + 1 # 1 /\ snap'[i] = snap[i + 1]
           /\ req'[Filler].res = r /\ req'[Filler].val = v
           /\ row'[Filler] = Translate(map, r)
           /\ body'[Filler] = (IF r \in Groups THEN {Translate(map, u) : u \in v} ELSE v)
           /\ body' = [p \in Proc |-> body'[p]]
           /\ stale' = IF r \in Groups /\ \E u \in v : map[u] = None THEN stale \cup {r} ELSE stale
           /\ crossed' = [crossed EXCEPT ![Filler] = FALSE]
           /\ UNCHANGED <<upstreams, tables, stage, sink, want, oldN, oldW, held, ever, wrote, spent>>
<1>0. Filler \in Proc /\ pc[Filler] = "idle" /\ snap # <<>> /\ snap' = Tail(snap) /\ stage \in Rows
  BY ProcMembers DEF FillRow
<1>1. PICK S : snap \in Seq(S)
  BY InvFacts DEF Listed, CopiesFit
<1>2. 1 \in DOMAIN snap /\ Head(snap) = snap[1]
      /\ \A i \in DOMAIN snap' : i + 1 \in DOMAIN snap /\ i + 1 # 1 /\ snap'[i] = snap[i + 1]
  BY <1>0, <1>1
<1>3. snap[1][1] \in Res /\ snap[1][2] \in Content(snap[1][1])
  BY <1>2, InvFacts DEF Listed, CopiesFit, Kinds
<1> DEFINE r == snap[1][1]
           v == snap[1][2]
           rq == [op |-> "PUT", res |-> r, val |-> v, mode |-> None, absent |-> FALSE]
<1>4. /\ req' = [req EXCEPT ![Filler] = rq]
      /\ body' = [body EXCEPT ![Filler] = IF r \in Groups THEN {Translate(map, u) : u \in v} ELSE v]
      /\ row' = [row EXCEPT ![Filler] = Translate(map, r)]
      /\ pc' = [pc EXCEPT ![Filler] = "put"]
      /\ stale' = (IF \E u \in (IF r \in Groups THEN v ELSE {}) : map[u] = None THEN stale \cup {r} ELSE stale)
      /\ crossed' = [crossed EXCEPT ![Filler] = FALSE]
      /\ UNCHANGED <<upstreams, tables, stage, sink, want, oldN, oldW, held, ever, wrote, spent>>
  BY <1>2 DEF FillRow
<1>5. rq.res = r /\ rq.val = v
  OBVIOUS
<1> HIDE DEF rq
<1>6. stale' = IF r \in Groups /\ \E u \in v : map[u] = None THEN stale \cup {r} ELSE stale
  BY <1>4
<1> HIDE DEF r, v
<1>7. pc'[Filler] = "put" /\ req'[Filler].res = r /\ req'[Filler].val = v
      /\ row'[Filler] = Translate(map, r)
      /\ body'[Filler] = (IF r \in Groups THEN {Translate(map, u) : u \in v} ELSE v)
      /\ body' = [p \in Proc |-> body'[p]]
  BY <1>0, <1>4, <1>5, InvFacts
<1> QED
  BY <1>0, <1>2, <1>3, <1>4, <1>6, <1>7 DEF r, v

-----------------------------------------------------------------------------
(* The steps of a request, from one stage to the next *)

SameAsk(p) ==
    /\ req'[p].res = req[p].res /\ req'[p].op = req[p].op
    /\ req'[p].val = req[p].val /\ req'[p].mode = req[p].mode

BeginsMirror(q) == NativeLeg(q) /\ pc[q] = "native" /\ pc'[q] = "clear"
BeginsDelete(q) ==
    /\ NativeRefuses(q) /\ pc[q] = "native" /\ pc'[q] = "load"
    /\ req[q].op = "DELETE" /\ req[q].mode = "dual-write" /\ Cross(q, req[q])
    /\ want' = Applied(want, req[q].res, "DELETE", None) /\ native[req[q].res] = None
    /\ UNCHANGED <<upstreams, tables, fill, held, ever, wrote, oldN, oldW, spent>>
Proceeds(q) == ClearGap(q) /\ req[q].mode # "passthrough" /\ pc[q] = "clear" /\ pc'[q] = "load"
Lingers(q) == PruneMapping(q) /\ req[q].absent /\ pc[q] = "prune" /\ pc'[q] = "retire"

LEMMA ProxySteps ==
    ASSUME Inv, NEW q \in Req, Proxy(q)
    PROVE  /\ q \in Proc /\ pc[q] # "idle"
           /\ \/ pc'[q] = "idle" /\ Reset(q)
              \/ /\ SameAsk(q) /\ row'[q] = row[q] /\ body' = body
                 /\ BeginsMirror(q) \/ BeginsDelete(q) \/ Proceeds(q) \/ Lingers(q) \/ DeleteRow(q)
              \/ Load(q) /\ SameAsk(q)
<1>0. q \in Proc /\ Ind /\ RowsFit /\ pc \in [Proc -> Steps] /\ req = [p \in Proc |-> req[p]] /\ req[q] \in Requests
  BY InvFacts, ProcMembers
<1>1. CASE Reset(q)
  BY <1>0, <1>1, ProxyMoves DEF Reset
<1>2. CASE NativeLeg(q)
  BY <1>0, <1>2 DEF NativeLeg, BeginsMirror, SameAsk
<1>3. CASE NativeRefuses(q) /\ ~Reset(q)
  <2>1. /\ pc[q] = "native" /\ pc' = [pc EXCEPT ![q] = "load"] /\ UNCHANGED <<row, body>>
        /\ req' = [req EXCEPT ![q] = [req[q] EXCEPT !.absent = TRUE]]
        /\ req[q].op = "DELETE" /\ req[q].mode = "dual-write" /\ Cross(q, req[q])
        /\ want' = Applied(want, req[q].res, "DELETE", None)
        /\ ~NativeAccepts(req[q].res, "DELETE")
        /\ UNCHANGED <<upstreams, tables, fill, held, ever, wrote, oldN, oldW, spent>>
    BY <1>3 DEF NativeRefuses
  <2>2. native[req[q].res] = None
    BY <2>1 DEF NativeAccepts
  <2>3. SameAsk(q)
    BY <1>0, <2>1 DEF SameAsk, Requests
  <2> QED
    BY <1>0, <1>3, <2>1, <2>2, <2>3 DEF BeginsDelete
<1>4. CASE ClearGap(q) /\ ~Reset(q)
  BY <1>0, <1>4 DEF ClearGap, Proceeds, SameAsk
<1>5. CASE Load(q)
  BY <1>0, <1>5, LoadDoes DEF SameAsk
<1>6. CASE DeleteRow(q)
  BY <1>0, <1>6, DeleteDoes DEF SameAsk
<1>7. CASE PruneMapping(q) /\ ~Reset(q)
  BY <1>0, <1>7 DEF PruneMapping, Lingers, SameAsk
<1>9. CASE NativeAnswerLost(q) \/ SkipReplace(q) \/ Record(q) \/ PatchHits(q) \/ PatchAnswerLost(q)
           \/ PruneFails(q) \/ Retire(q) \/ MirrorFails(q)
  BY <1>1, <1>9 DEF NativeAnswerLost, SkipReplace, Record, PatchHits, PatchAnswerLost, PruneFails,
     Retire, MirrorFails
<1> QED
  BY <1>1, <1>2, <1>3, <1>4, <1>5, <1>6, <1>7, <1>9 DEF Proxy

LEMMA ReceiveDoes ==
    ASSUME Inv, NEW q \in Req, NEW op, NEW r, NEW v, Receive(q, op, r, v)
    PROVE  /\ q \in Proc /\ pc[q] = "idle" /\ Legal(op, r, v) /\ \A p \in Req : Unanswered(p) => req[p].res # r
           /\ req'[q].op = op /\ req'[q].res = r /\ req'[q].val = v /\ req'[q].mode = mode
           /\ \/ pc'[q] = "native" /\ mode # "workos-only" /\ UNCHANGED <<crossed, stale, ever>>
              \/ /\ pc'[q] = "load" /\ mode = "workos-only" /\ Cross(q, req'[q])
                 /\ ever' = IF op = "POST" THEN ever \cup {r} ELSE ever
           /\ UNCHANGED <<upstreams, tables, body, row, fill, want, oldN, oldW, held, wrote>>
<1> DEFINE rq == [op |-> op, res |-> r, val |-> v, mode |-> mode, absent |-> FALSE]
<1>0. q \in Proc /\ pc \in [Proc -> Steps] /\ req = [p \in Proc |-> req[p]]
  BY InvFacts, ProcMembers
<1>1. req'[q] = rq
  BY <1>0 DEF Receive
<1>2. rq.op = op /\ rq.res = r /\ rq.val = v /\ rq.mode = mode
  OBVIOUS
<1>3. \/ pc'[q] = "native" /\ mode # "workos-only" /\ UNCHANGED <<crossed, stale, ever>>
      \/ /\ pc'[q] = "load" /\ mode = "workos-only" /\ Cross(q, rq)
         /\ ever' = IF op = "POST" THEN ever \cup {r} ELSE ever
  BY <1>0 DEF Receive
<1>4. /\ pc[q] = "idle" /\ Legal(op, r, v) /\ \A p \in Req : Unanswered(p) => req[p].res # r
      /\ UNCHANGED <<upstreams, tables, body, row, fill, want, oldN, oldW, held, wrote>>
  BY DEF Receive
<1> HIDE DEF rq
<1> QED
  BY <1>0, <1>1, <1>2, <1>3, <1>4

(* The stages a request can be in, by what it asks and under which mode.        *)
AskFits(q) ==
    /\ pc[q] \in Dancing => req[q].op \in {"POST", "PUT"}
    /\ pc[q] = "patch" => req[q].op \in {"PATCH", "ADD", "REMOVE"}
    /\ pc[q] \in {"delete", "prune", "retire"} => req[q].op = "DELETE"
    /\ pc[q] # "idle" => /\ req[q].mode \in Mode
                         /\ req[q].mode = "passthrough" => pc[q] \in {"native", "clear"}
                         /\ pc[q] \in {"native", "clear"} => req[q].mode # "workos-only"

LEMMA AskFitsStays ==
    ASSUME Inv, [Next]_vars, NEW q \in Req
    PROVE  AskFits(q)'
<1>0. q \in Proc /\ AskFits(q) /\ mode \in Mode
  BY ProcMembers, InvFacts DEF Kinds, AskFits, Ind, Typed
<1>1. CASE pc'[q] = "idle"
  BY <1>1 DEF AskFits, Dancing
<1>2. CASE Keeps(q)
  BY <1>0, <1>2 DEF AskFits, Keeps
<1>3. CASE Proxy(q) /\ pc'[q] # "idle"
  <2>1. CASE Load(q) /\ SameAsk(q)
    <3>1. pc[q] = "load" /\ req[q].op \in Op
      BY <1>0, <2>1, LoadDoes, AtRes
    <3>2. pc'[q] = (IF req[q].op = "DELETE" THEN "delete"
                    ELSE IF req[q].op \in {"POST", "PUT"} THEN "put" ELSE "patch")
      BY <2>1, LoadDoes
    <3> QED
      BY <1>0, <2>1, <3>1, <3>2 DEF AskFits, SameAsk, Dancing, Op
  <2>2. CASE SameAsk(q) /\ BeginsMirror(q)
    BY <1>0, <2>2 DEF AskFits, SameAsk, BeginsMirror, Dancing
  <2>3. CASE SameAsk(q) /\ BeginsDelete(q)
    BY <1>0, <2>3 DEF AskFits, SameAsk, BeginsDelete, Dancing
  <2>4. CASE SameAsk(q) /\ Proceeds(q)
    BY <1>0, <2>4 DEF AskFits, SameAsk, Proceeds, Dancing
  <2>5. CASE SameAsk(q) /\ Lingers(q)
    BY <1>0, <2>5 DEF AskFits, SameAsk, Lingers, Dancing
  <2>6. CASE SameAsk(q) /\ DeleteRow(q)
    <3>1. pc[q] = "delete" /\ pc'[q] = "prune"
      BY <1>0, <2>6, DeleteDoes, InvFacts
    <3> QED
      BY <1>0, <2>6, <3>1 DEF AskFits, SameAsk, Dancing
  <2> QED
    BY <1>3, <2>1, <2>2, <2>3, <2>4, <2>5, <2>6, ProxySteps
<1>4. CASE Dance(q)
  <2>1. pc[q] \in Dancing /\ pc'[q] \in Dancing /\ req' = req
    BY <1>0, <1>4, DanceDoes DEF DanceFrame
  <2> QED
    BY <1>0, <2>1 DEF AskFits, Dancing
<1>5. CASE Arrives(q)
  <2>1. PICK op \in Op, r \in Res : \E v \in Content(r) : Receive(q, op, r, v)
    BY <1>5 DEF Arrives
  <2>2. PICK v \in Content(r) : Receive(q, op, r, v)
    BY <2>1
  <2>3. req'[q].mode = mode /\ (\/ pc'[q] = "native" /\ mode # "workos-only"
                                \/ pc'[q] = "load" /\ mode = "workos-only")
    BY <2>2, ReceiveDoes
  <2> QED
    BY <1>0, <2>3 DEF AskFits, Dancing
<1>6. CASE Crash
  BY <1>0, <1>1, <1>6, CrashDoes
<1>7. q # Filler
  BY ProcMembers
<1> QED
  BY <1>0, <1>1, <1>2, <1>3, <1>4, <1>5, <1>6, <1>7, KeepsElse DEF Moves

-----------------------------------------------------------------------------
(* What a request sends to WorkOS, and what a row holds *)

LEMMA TranslatedKind ==
    ASSUME Inv, NEW S \in SUBSET Users
    PROVE  {Translate(map, u) : u \in S} \subseteq UserRows
<1>1. \A u \in S : Translate(map, u) \in RowsOf(u)
  BY TranslateFits, InvFacts, KindFacts
<1> QED
  BY <1>1 DEF UserRows

LEMMA BodyShape ==
    ASSUME Inv, [Next]_vars PROVE body' = [p \in Proc |-> body'[p]]
<1>0. body = [p \in Proc |-> body[p]]
  BY InvFacts
<1>1. ASSUME NEW q \in Proc, Reset(q) PROVE body' = [p \in Proc |-> body'[p]]
  BY <1>0, <1>1 DEF Reset
<1>2. ASSUME NEW q \in Req, Proxy(q) PROVE body' = [p \in Proc |-> body'[p]]
  BY <1>0, <1>1, <1>2, ProxySteps, LoadDoes
<1>3. ASSUME NEW q \in Proc, Dance(q) PROVE body' = [p \in Proc |-> body'[p]]
  BY <1>0, <1>3, DanceDoes DEF DanceFrame
<1>4. ASSUME NEW q \in Req, NEW op, NEW x, NEW v, Receive(q, op, x, v) PROVE body' = [p \in Proc |-> body'[p]]
  BY <1>0, <1>4, ReceiveDoes
<1>5. CASE FillRow
  BY <1>5, FillRowDoes
<1>6. CASE FillRecord \/ FillFails
  BY <1>1, <1>6, ProcMembers DEF FillRecord, FillFails
<1>7. CASE Backfill /\ ~FillRow /\ ~FillRecord /\ ~FillFails
  BY <1>0, <1>7 DEF Backfill, StartFill, FillPage, FillPageFails, FillSkips,
     FlushWrites, FlushFails, Flush, FillUsersDone, procs
<1>8. CASE (\E m \in Mode : SetMode(m)) \/ CleanWorkos \/ Crash \/ UNCHANGED vars
  BY <1>0, <1>8, CrashDoes DEF SetMode, CleanWorkos, Crash, vars, procs
<1> QED
  BY <1>2, <1>3, <1>4, <1>5, <1>6, <1>7, <1>8 DEF Next

LEMMA BodyFitsStays ==
    ASSUME Inv, [Next]_vars, NEW p \in Proc
    PROVE  BodyFits(p)'
<1>0. BodyFits(p)
  BY InvFacts DEF Kinds
<1>1. CASE pc'[p] = "idle"
  BY <1>1 DEF BodyFits, Dancing
<1>2. CASE Keeps(p)
  BY <1>0, <1>2 DEF BodyFits, Keeps
<1>3. CASE p \in Req /\ Proxy(p) /\ pc'[p] # "idle"
  <2>1. CASE Load(p) /\ SameAsk(p)
    <3>1. body'[p] = (IF req[p].res \in Groups THEN {Translate(map, u) : u \in req[p].val} ELSE req[p].val)
          /\ pc[p] = "load"
      BY <1>3, <2>1, LoadDoes
    <3>2. req[p].val \in Content(req[p].res) /\ req[p].res \in Res
      BY <1>3, <3>1, AtRes
    <3>3. req[p].res \notin Users => req[p].res \in Groups /\ req[p].val \in SUBSET Users
      BY <3>2 DEF Content, Res
    <3>4. req[p].res \notin Users => body'[p] \subseteq UserRows
      BY <3>1, <3>3, TranslatedKind
    <3>5. req[p].res \in Users => body'[p] \in Flag
      BY <3>1, <3>2, KindFacts DEF Content
    <3> QED
      BY <2>1, <3>4, <3>5 DEF BodyFits, SameAsk
  <2>2. CASE BeginsMirror(p) \/ BeginsDelete(p) \/ Proceeds(p) \/ Lingers(p)
    BY <2>2 DEF BeginsMirror, BeginsDelete, Proceeds, Lingers, BodyFits, Dancing
  <2>3. CASE DeleteRow(p)
    BY <1>3, <2>3, DeleteDoes, InvFacts DEF BodyFits, Dancing
  <2> QED
    BY <1>3, <2>1, <2>2, <2>3, ProxySteps
<1>4. CASE Dance(p)
  BY <1>0, <1>4, DanceDoes DEF BodyFits, DanceFrame
<1>5. CASE p \in Req /\ Arrives(p)
  <2>1. pc'[p] \in {"native", "load"}
    BY <1>5, ReceiveDoes DEF Arrives
  <2> QED
    BY <2>1 DEF BodyFits, Dancing
<1>6. CASE Crash
  BY <1>1, <1>6, CrashDoes
<1>7. CASE p = Filler /\ FillRow
  <2>1. /\ snap[1][1] \in Res /\ snap[1][2] \in Content(snap[1][1]) /\ req'[Filler].res = snap[1][1]
        /\ body'[Filler] = (IF snap[1][1] \in Groups THEN {Translate(map, u) : u \in snap[1][2]} ELSE snap[1][2])
    BY <1>7, FillRowDoes
  <2>2. snap[1][1] \notin Users => snap[1][1] \in Groups /\ snap[1][2] \in SUBSET Users
    BY <2>1 DEF Content, Res
  <2>3. snap[1][1] \notin Users => body'[Filler] \subseteq UserRows
    BY <2>1, <2>2, TranslatedKind
  <2>4. snap[1][1] \in Users => body'[Filler] \in Flag
    BY <2>1, KindFacts DEF Content
  <2> QED
    BY <1>7, <2>1, <2>3, <2>4 DEF BodyFits
<1>8. CASE p = Filler /\ (FillRecord \/ FillFails)
  <2>1. pc'[p] = "idle"
    BY <1>8, InvFacts DEF FillRecord, FillFails, Reset
  <2> QED
    BY <1>1, <2>1
<1> QED
  BY <1>1, <1>2, <1>3, <1>4, <1>5, <1>6, <1>7, <1>8, KeepsElse DEF Moves

RowFits(r, w) == workos[w] = None \/ IF r \in Users THEN workos[w] \in Flag ELSE workos[w] \subseteq UserRows

LEMMA RowFitsStays ==
    ASSUME Inv, [Next]_vars, NEW r \in Res, NEW w \in RowsOf(r)
    PROVE  RowFits(r, w)'
<1>0. RowFits(r, w) /\ workos = [x \in Row |-> workos[x]] /\ w \in Row /\ Of(w) = r
  <2>1. r \notin Users => r \in Groups
    BY DEF Res
  <2> QED
    BY <2>1, InvFacts, RowFacts DEF Kinds, RowFits
<1>1. CASE CleanWorkos
  <2>1. workos'[w] = IF Retains /\ Of(w) \in Users /\ workos[w] # None THEN "inactive" ELSE None
    BY <1>0, <1>1 DEF CleanWorkos
  <2> QED
    BY <1>0, <2>1 DEF RowFits, Flag
<1>2. ASSUME NEW p \in Proc, Dance(p), req[p].res = r PROVE RowFits(r, w)'
  <2>1. /\ pc[p] \in Dancing
        /\ \/ workos' = workos
           \/ workos' = [workos EXCEPT ![row'[p]] = body[p]]
    BY <1>2, DanceDoes
  <2>2. IF r \in Users THEN body[p] \in Flag ELSE body[p] \subseteq UserRows
    BY <1>2, <2>1, BodyThere
  <2> QED
    BY <1>0, <2>1, <2>2 DEF RowFits
<1>3. ASSUME NEW q \in Req, PatchHits(q) \/ PatchAnswerLost(q), req[q].res = r PROVE RowFits(r, w)'
  <2>1. /\ pc[q] = "patch" /\ workos' = [workos EXCEPT ![row[q]] = After(workos[row[q]], req[q].op, body[q])]
        /\ req[q].op \in {"PATCH", "ADD", "REMOVE"} /\ workos[row[q]] # None /\ q \in Proc /\ row[q] \in RowsOf(r)
    BY <1>3, PatchDoes
  <2>2. IF r \in Users THEN body[q] \in Flag ELSE body[q] \subseteq UserRows
    BY <1>3, <2>1, BodyThere
  <2>3. r \in Users => req[q].op = "PATCH"
    BY <1>3, <2>1, InvFacts DEF Listed, AsksFit
  <2>4. r \notin Users => workos[row[q]] \subseteq UserRows
    BY <2>1, InvFacts DEF Kinds, Res
  <2>5. LET v == After(workos[row[q]], req[q].op, body[q]) IN
        IF r \in Users THEN v \in Flag ELSE v \subseteq UserRows
    BY <2>1, <2>2, <2>3, <2>4 DEF After
  <2> HIDE DEF After
  <2> QED
    BY <1>0, <2>1, <2>5 DEF RowFits
<1>4. ASSUME NEW q \in Req, DeleteRow(q), req[q].res = r PROVE RowFits(r, w)'
  <2>1. row[q] \in RowsOf(r) /\ workos' = WorkosDeletes(row[q]) /\ RowsFit
    BY <1>4, DeleteDoes, InvFacts
  <2>2. w = row[q] => workos'[w] \in {"inactive", None} /\ (workos'[w] = "inactive" => r \in Users \/ workos'[w] = None)
    BY <2>1, DeletedRows
  <2>3. ASSUME w # row[q] PROVE workos'[w] = workos[w]
    <3>1. w \in RowsOf(r) \ {row[q]}
      BY <2>3
    <3>2. WorkosDeletes(row[q])[w] = IF workos[row[q]] # None /\ ~Retains /\ r \in Users /\ r \in Groups
                                        /\ workos[w] # None
                                     THEN workos[w] \ {row[q]} ELSE workos[w]
      BY <2>1, <3>1, DeletedRows
    <3> QED
      BY <2>1, <3>2, KindFacts
  <2> QED
    BY <1>0, <2>2, <2>3, KindFacts DEF RowFits, Flag
<1>5. CASE ~CleanWorkos /\ \A p \in Proc : WritesRow(p) => req[p].res # r
  <2>1. \/ workos'[w] = workos[w]
        \/ r \in Groups /\ \E q \in Req : workos'[w] = IF workos[w] = None THEN None ELSE workos[w] \ {row[q]}
    BY <1>5, RowsElse
  <2> QED
    BY <1>0, <2>1, KindFacts DEF RowFits
<1> QED
  BY <1>1, <1>2, <1>3, <1>4, <1>5 DEF WritesRow

-----------------------------------------------------------------------------
(* The rows to replay, and the mappings to write *)

LEMMA TailDoes ==
    ASSUME Inv, FillSkips \/ FillRow
    PROVE  /\ stage \in Rows /\ pc[Filler] = "idle" /\ 1 \in DOMAIN snap
           /\ \A i \in DOMAIN snap' : i + 1 \in DOMAIN snap /\ i + 1 # 1 /\ i \in Nat /\ snap'[i] = snap[i + 1]
           /\ UNCHANGED <<stage, sink>>
<1>1. PICK S : snap \in Seq(S)
  BY InvFacts DEF Listed, CopiesFit
<1>2. snap # <<>> /\ snap' = Tail(snap) /\ stage \in Rows /\ pc[Filler] = "idle" /\ UNCHANGED <<stage, sink>>
  BY DEF FillSkips, FillRow
<1> QED
  BY <1>1, <1>2

LEMMA SnapFrom ==
    ASSUME Inv, [Next]_vars
    PROVE  \/ snap' = snap
           \/ FillPage
           \/ FillSkips \/ FillRow
           \/ Crash
<1>1. ASSUME NEW q \in Req, Proxy(q) PROVE snap' = snap
  BY <1>1 DEF Proxy, NativeLeg, NativeRefuses, NativeAnswerLost, ClearGap, SkipReplace, Load, Record,
     PatchHits, PatchAnswerLost, DeleteRow, PruneMapping, PruneFails, Retire, MirrorFails, MirrorUnchanged, fill
<1>2. ASSUME NEW q \in Proc, Dance(q) PROVE snap' = snap
  BY <1>2, DanceDoes DEF DanceFrame
<1>3. ASSUME NEW q \in Req, NEW op, NEW x, NEW v, Receive(q, op, x, v) PROVE snap' = snap
  BY <1>3 DEF Receive, fill
<1>4. CASE Backfill
  BY <1>4 DEF Backfill, StartFill, FillPage, FillPageFails, FillSkips, FillRow, FillRecord, FillFails,
     FlushWrites, FlushFails, Flush, FillUsersDone, fill
<1>5. CASE (\E m \in Mode : SetMode(m)) \/ CleanWorkos \/ Crash \/ UNCHANGED vars
  BY <1>5 DEF SetMode, CleanWorkos, vars, fill
<1> QED
  BY <1>1, <1>2, <1>3, <1>4, <1>5 DEF Next

LEMMA SinkFrom ==
    ASSUME Inv, [Next]_vars
    PROVE  \/ sink' = sink
           \/ /\ FillRecord /\ \E S : sink \in Seq(S)
              /\ \A i \in DOMAIN sink' :
                   \/ i \in DOMAIN sink /\ sink'[i] = sink[i]
                   \/ i = Len(sink) + 1 /\ sink'[i] = <<req[Filler].res, row[Filler]>>
              /\ \E i \in DOMAIN sink' : sink'[i] = <<req[Filler].res, row[Filler]>>
              /\ \A i \in DOMAIN sink : i \in DOMAIN sink' /\ sink'[i] = sink[i]
           \/ sink' = <<>> /\ (FlushWrites \/ FlushFails \/ Crash)
<1>1. ASSUME NEW q \in Req, Proxy(q) PROVE sink' = sink
  BY <1>1 DEF Proxy, NativeLeg, NativeRefuses, NativeAnswerLost, ClearGap, SkipReplace, Load, Record,
     PatchHits, PatchAnswerLost, DeleteRow, PruneMapping, PruneFails, Retire, MirrorFails, MirrorUnchanged, fill
<1>2. ASSUME NEW q \in Proc, Dance(q) PROVE sink' = sink
  BY <1>2, DanceDoes DEF DanceFrame
<1>3. ASSUME NEW q \in Req, NEW op, NEW x, NEW v, Receive(q, op, x, v) PROVE sink' = sink
  BY <1>3 DEF Receive, fill
<1>4. CASE FillRecord
  <2> DEFINE e == <<req[Filler].res, row[Filler]>>
  <2>1. PICK S : sink \in Seq(S)
    BY InvFacts DEF Ind, Typed
  <2>2. sink' = Append(sink, e)
    BY <1>4 DEF FillRecord
  <2> HIDE DEF e
  <2>3. /\ \A i \in DOMAIN sink' : \/ i \in DOMAIN sink /\ sink'[i] = sink[i]
                                   \/ i = Len(sink) + 1 /\ sink'[i] = e
        /\ Len(sink) + 1 \in DOMAIN sink' /\ sink'[Len(sink) + 1] = e
        /\ \A i \in DOMAIN sink : i \in DOMAIN sink' /\ sink'[i] = sink[i]
    <3>1. sink \in Seq(S \cup {e})
      BY <2>1
    <3> QED
      BY <2>2, <3>1
  <2> QED
    BY <1>4, <2>1, <2>3 DEF e
<1>5. CASE Backfill /\ ~FillRecord
  BY <1>5 DEF Backfill, StartFill, FillPage, FillPageFails, FillSkips, FillRow, FillFails,
     FlushWrites, FlushFails, Flush, FillUsersDone, fill
<1>6. CASE (\E m \in Mode : SetMode(m)) \/ CleanWorkos \/ Crash \/ UNCHANGED vars
  BY <1>6, CrashDoes DEF SetMode, CleanWorkos, vars, fill
<1> QED
  BY <1>1, <1>2, <1>3, <1>4, <1>5, <1>6 DEF Next


LEMMA FillerMoves ==
    ASSUME Inv, [Next]_vars
    PROVE  \/ Keeps(Filler)
           \/ Dance(Filler)
           \/ FillRow
           \/ pc'[Filler] = "idle" /\ (FillRecord \/ FillFails \/ Crash)
<1>1. Filler \in Proc /\ Filler \notin Req
  BY ProcMembers
<1>2. CASE FillRecord \/ FillFails
  BY <1>1, <1>2, InvFacts DEF FillRecord, FillFails, Reset
<1>3. CASE Crash
  BY <1>1, <1>3, CrashDoes
<1> QED
  BY <1>1, <1>2, <1>3, KeepsElse DEF Moves

LEMMA WantTyped ==
    ASSUME Inv, [Next]_vars
    PROVE  want' = [x \in Res |-> want'[x]] /\ \A r \in Res : want'[r] \in Content(r) \cup {None}
<1>1. want = [x \in Res |-> want[x]] /\ \A r \in Res : want[r] \in Content(r) \cup {None}
  BY InvFacts DEF Kinds
<1>2. ASSUME NEW q \in Req, Tells(q), want' = Applied(want, req[q].res, req[q].op, req[q].val)
      PROVE  want' = [x \in Res |-> want'[x]] /\ \A r \in Res : want'[r] \in Content(r) \cup {None}
  BY <1>2, TellsWhat
<1> QED
  BY <1>1, <1>2, WantCause

LEMMA KindsStays == ASSUME Inv, [Next]_vars PROVE Kinds'
<1>1. crossed' \in [Proc -> BOOLEAN] /\ body' = [p \in Proc |-> body'[p]]
  BY CrossedGrows, BodyShape
<1>2. \A r \in Res : want'[r] \in Content(r) \cup {None}
  BY WantTyped
<1>3. /\ \A u \in Users : \A w \in RowsOf(u) : workos'[w] \in Flag \cup {None}
      /\ \A g \in Groups : \A w \in RowsOf(g) : workos'[w] = None \/ workos'[w] \subseteq UserRows
  <2>1. \A r \in Res : \A w \in RowsOf(r) : workos'[w] = None \/ IF r \in Users THEN workos'[w] \in Flag ELSE workos'[w] \subseteq UserRows
    BY RowFitsStays DEF RowFits
  <2> QED
    BY <2>1, KindFacts
<1>4. \A p \in Proc : BodyFits(p)'
  BY BodyFitsStays
<1>5. pc'[Filler] # "idle" => pc'[Filler] \in Dancing /\ req'[Filler].val \in Content(req'[Filler].res)
  <2>0. pc[Filler] # "idle" => pc[Filler] \in Dancing /\ req[Filler].val \in Content(req[Filler].res)
    BY InvFacts DEF Kinds
  <2>1. CASE Keeps(Filler)
    BY <2>0, <2>1 DEF Keeps
  <2>2. CASE Dance(Filler)
    BY <2>0, <2>2, DanceDoes, ProcMembers DEF DanceFrame, Dancing
  <2>3. CASE FillRow
    BY <2>3, FillRowDoes DEF Dancing
  <2> QED
    BY <2>1, <2>2, <2>3, FillerMoves
<1>6. \A i \in DOMAIN snap' : snap'[i][2] \in Content(snap'[i][1])
  <2>0. \A i \in DOMAIN snap : snap[i][2] \in Content(snap[i][1])
    BY InvFacts DEF Kinds
  <2>1. CASE snap' = snap
    BY <2>0, <2>1
  <2>2. CASE FillPage
    BY <2>0, <2>2, PageDoes, ListingIs
  <2>3. CASE FillSkips \/ FillRow
    BY <2>0, <2>3, TailDoes
  <2>4. CASE Crash
    BY <2>4, CrashDoes
  <2> QED
    BY <2>1, <2>2, <2>3, <2>4, SnapFrom
<1>7. \A q \in Req : AskFits(q)'
  BY AskFitsStays
<1> QED
  BY <1>1, <1>2, <1>3, <1>4, <1>5, <1>6, <1>7 DEF Kinds, AskFits

-----------------------------------------------------------------------------
(* A row by one id or the other *)

LEMMA StandingIs == ASSUME NEW r PROVE Standing(r) = {w \in RowsOf(r) : workos[w] # None}
BY DEF Standing, RowsOf

LEMMA RowPair ==
    ASSUME NEW r \in Res
    PROVE  r \in RowsOf(r) /\ Mint(r) \in RowsOf(r) /\ r # Mint(r)
           /\ \A w \in RowsOf(r) : w = r \/ w = Mint(r)
BY MintAssumption DEF RowsOf

(* A write of the dance leaves its resource with the row it wrote.              *)
LEMMA DanceWrites ==
    ASSUME Inv, NEW p \in Proc, Dance(p), pc'[p] = "record", NEW r, req[p].res = r
    PROVE  /\ r \in Res /\ row'[p] \in RowsOf(r) /\ Standing(r)' = {row'[p]} /\ workos'[row'[p]] = body[p]
           /\ body[p] # None /\ \A w \in Row \ {row'[p]} : workos'[w] = workos[w]
           /\ Standing(r) # {} => Standing(r) = {row'[p]}
<1>1. /\ r \in Res /\ row'[p] \in RowsOf(r) /\ pc[p] \in Dancing
      /\ workos' = [workos EXCEPT ![row'[p]] = body[p]]
      /\ workos[row'[p]] # None \/ Standing(r) = {}
  BY DanceDoes
<1>2. body[p] # None
  BY <1>1, BodyThere
<1>3. workos = [w \in Row |-> workos[w]] /\ row'[p] \in Row /\ RowsOf(r) \subseteq Row
  BY <1>1, InvFacts, RowFacts
<1>4. workos[r] = None \/ workos[Mint(r)] = None
  BY <1>1, InvFacts DEF OneRow
<1>5. /\ workos'[row'[p]] = body[p] /\ \A w \in Row \ {row'[p]} : workos'[w] = workos[w]
  BY <1>1, <1>3
<1>6. \A w \in RowsOf(r) \ {row'[p]} : workos[w] = None
  BY <1>1, <1>4, RowPair, StandingIs
<1>7. Standing(r)' = {row'[p]}
  BY <1>1, <1>2, <1>3, <1>5, <1>6 DEF Standing, RowsOf
<1>8. Standing(r) # {} => Standing(r) = {row'[p]}
  BY <1>1, <1>6, StandingIs
<1> QED
  BY <1>1, <1>2, <1>5, <1>7, <1>8

LEMMA OneRowStays == ASSUME Inv, [Next]_vars PROVE OneRow'
<1> SUFFICES ASSUME NEW r \in Res PROVE (workos[r] = None \/ workos[Mint(r)] = None)'
  BY DEF OneRow
<1>0. (workos[r] = None \/ workos[Mint(r)] = None) /\ r \in RowsOf(r) /\ Mint(r) \in RowsOf(r)
      /\ workos = [w \in Row |-> workos[w]] /\ r \in Row /\ Mint(r) \in Row /\ r # Mint(r)
  BY InvFacts, RowPair, RowFacts DEF OneRow
<1>1. ASSUME \A w \in RowsOf(r) : workos[w] = None => workos'[w] = None
      PROVE  (workos[r] = None \/ workos[Mint(r)] = None)'
  BY <1>0, <1>1
<1>2. CASE CleanWorkos
  BY <1>0, <1>2 DEF CleanWorkos
<1>3. ASSUME NEW p \in Proc, Dance(p), req[p].res = r PROVE (workos[r] = None \/ workos[Mint(r)] = None)'
  <2>1. CASE workos' = workos
    BY <1>0, <2>1
  <2>2. CASE pc'[p] = "record"
    <3>1. Standing(r)' = {row'[p]}
      BY <1>3, <2>2, DanceWrites
    <3> QED
      BY <1>0, <3>1 DEF Standing
  <2> QED
    BY <1>3, <2>1, <2>2, DanceDoes
<1>4. ASSUME NEW q \in Req, PatchHits(q) \/ PatchAnswerLost(q), req[q].res = r
      PROVE  (workos[r] = None \/ workos[Mint(r)] = None)'
  <2>1. workos[row[q]] # None /\ workos' = [workos EXCEPT ![row[q]] = After(workos[row[q]], req[q].op, body[q])]
    BY <1>4, PatchDoes
  <2> HIDE DEF After
  <2> QED
    BY <1>0, <2>1
<1>5. ASSUME NEW q \in Req, DeleteRow(q), req[q].res = r
      PROVE  (workos[r] = None \/ workos[Mint(r)] = None)'
  <2>1. row[q] \in RowsOf(r) /\ workos' = WorkosDeletes(row[q]) /\ RowsFit
    BY <1>5, DeleteDoes, InvFacts
  <2>2. workos[row[q]] = None => workos'[row[q]] = None
    BY <2>1, DeletedRows
  <2>3. \A w \in RowsOf(r) \ {row[q]} : workos[w] = None => workos'[w] = None
    BY <2>1, DeletedRows
  <2> QED
    BY <1>1, <2>2, <2>3
<1>6. CASE ~CleanWorkos /\ \A p \in Proc : WritesRow(p) => req[p].res # r
  <2>1. Standing(r)' = Standing(r)
    BY <1>6, RowsElse
  <2> QED
    BY <1>0, <2>1 DEF Standing
<1> QED
  BY <1>2, <1>3, <1>4, <1>5, <1>6 DEF WritesRow

-----------------------------------------------------------------------------
(* Who is busy, and since when *)

LEMMA BusyFrom ==
    ASSUME Inv, [Next]_vars, NEW q \in Req, Busy(q)'
    PROVE  \/ Busy(q) /\ SameAsk(q)
           \/ BeginsMirror(q) /\ SameAsk(q)
           \/ BeginsDelete(q) /\ SameAsk(q)
           \/ \E op \in Op, r \in Res : \E v \in Content(r) : Receive(q, op, r, v) /\ mode = "workos-only" /\ pc'[q] = "load"
<1>0. q \in Proc /\ pc'[q] # "idle" /\ pc'[q] # "native" /\ q # Filler
  BY ProcMembers DEF Busy
<1>1. CASE Keeps(q)
  BY <1>0, <1>1 DEF Keeps, Busy, SameAsk
<1>2. CASE Proxy(q)
  <2>1. CASE Load(q) /\ SameAsk(q)
    BY <2>1 DEF Load, Busy
  <2>2. CASE SameAsk(q) /\ (Proceeds(q) \/ Lingers(q) \/ DeleteRow(q))
    BY <2>2 DEF Proceeds, Lingers, DeleteRow, Busy
  <2> QED
    BY <1>0, <1>2, <2>1, <2>2, ProxySteps
<1>3. CASE Dance(q)
  BY <1>0, <1>3, DanceDoes DEF DanceFrame, Busy, Dancing, SameAsk
<1>4. CASE Arrives(q)
  <2>1. PICK op \in Op, r \in Res : \E v \in Content(r) : Receive(q, op, r, v)
    BY <1>4 DEF Arrives
  <2>2. PICK v \in Content(r) : Receive(q, op, r, v)
    BY <2>1
  <2>3. pc'[q] = "load" /\ mode = "workos-only"
    BY <1>0, <2>2, ReceiveDoes
  <2> QED
    BY <2>2, <2>3
<1>5. CASE Crash
  BY <1>0, <1>5, CrashDoes
<1> QED
  BY <1>0, <1>1, <1>2, <1>3, <1>4, <1>5, KeepsElse DEF Moves

LEMMA NullStays ==
    ASSUME Inv, [Next]_vars, NEW r \in Res, \A q \in Req : Tells(q) => req[q].res # r
    PROVE  want'[r] = None <=> want[r] = None
<1>1. ASSUME NEW q \in Req, Tells(q), want' = Applied(want, req[q].res, req[q].op, req[q].val)
      PROVE  want'[r] = None <=> want[r] = None
  BY <1>1, TellsWhat
<1> QED
  BY <1>1, WantCause

LEMMA AskedStays == ASSUME Inv, [Next]_vars PROVE Asked'
<1> SUFFICES ASSUME NEW q \in Req
             PROVE  /\ Unanswered(q)' =>
                        /\ req'[q].op = "POST" => want'[req'[q].res] = None
                        /\ req'[q].op = "POST" /\ pc'[q] = "native" => req'[q].res \notin ever'
                        /\ req'[q].op # "POST" => want'[req'[q].res] # None
                    /\ Busy(q)' /\ req'[q].mode # "workos-only" /\ req'[q].op = "DELETE" =>
                        want'[req'[q].res] = None /\ Born(req[q].res)'
  BY DEF Asked, Unanswered, Busy, Born
<1>0. q \in Proc
  BY ProcMembers
<1>1. ASSUME Unanswered(q)'
      PROVE  /\ req'[q].op = "POST" => want'[req'[q].res] = None
             /\ req'[q].op = "POST" /\ pc'[q] = "native" => req'[q].res \notin ever'
             /\ req'[q].op # "POST" => want'[req'[q].res] # None
  <2>1. CASE Unanswered(q) /\ SameAsk(q) /\ ~Tells(q) /\ (pc'[q] = "native" => pc[q] = "native")
    <3>0. pc[q] # "idle" /\ req[q].res \in Res
      BY <1>0, <2>1, AtRes DEF Unanswered, Busy
    <3>1. \A p \in Req : Tells(p) => req[p].res # req[q].res
      BY <2>1, TellerAsks
    <3>2. want'[req[q].res] = None <=> want[req[q].res] = None
      BY <3>0, <3>1, NullStays
    <3>3. ASSUME req[q].op = "POST", pc'[q] = "native", req[q].res \in ever' PROVE FALSE
      <4>1. req[q].res \notin ever
        BY <2>1, <3>3, InvFacts DEF Asked
      <4>2. PICK p \in Req : 
                \/ pc[p] = "native" /\ req[p].res = req[q].res /\ req[p].op = "POST" /\ ~(pc'[p] = "native")
                \/ \E op, v : Receive(p, op, req[q].res, v) /\ op = "POST" /\ mode = "workos-only"
        BY <3>3, <4>1, EverGrows
      <4>3. CASE pc[p] = "native" /\ req[p].res = req[q].res /\ req[p].op = "POST" /\ ~(pc'[p] = "native")
        BY <2>1, <3>3, <4>3, InvFacts DEF OneUnanswered, Unanswered
      <4>4. ASSUME NEW op, NEW v, Receive(p, op, req[q].res, v) PROVE FALSE
        BY <2>1, <4>4 DEF Receive
      <4> QED
        BY <4>2, <4>3, <4>4
    <3> QED
      BY <2>1, <3>2, <3>3, InvFacts DEF Asked, SameAsk
  <2>2. ASSUME NEW op \in Op, NEW r \in Res, NEW v \in Content(r), Receive(q, op, r, v)
        PROVE  /\ req'[q].op = "POST" => want'[req'[q].res] = None
               /\ req'[q].op = "POST" /\ pc'[q] = "native" => req'[q].res \notin ever'
               /\ req'[q].op # "POST" => want'[req'[q].res] # None
    <3>1. Legal(op, r, v) /\ req'[q].op = op /\ req'[q].res = r /\ want' = want
          /\ (pc'[q] = "native" => ever' = ever)
      BY <2>2, ReceiveDoes
    <3> QED
      BY <3>1 DEF Legal
  <2> QED
    BY <1>1, <2>1, <2>2, UnansweredFrom DEF SameAsk
<1>2. ASSUME Busy(q)', req'[q].mode # "workos-only", req'[q].op = "DELETE"
      PROVE  SameAsk(q) /\ want'[req[q].res] = None /\ Born(req[q].res) /\ req[q].res \in Res
  <2>1. CASE Busy(q) /\ SameAsk(q)
    <3>1. want[req[q].res] = None /\ Born(req[q].res) /\ req[q].res \in Res
      BY <1>0, <1>2, <2>1, InvFacts, AtRes DEF Asked, SameAsk, Busy
    <3> QED
      BY <2>1, <3>1, DeadStays
  <2>2. CASE SameAsk(q) /\ (BeginsMirror(q) \/ BeginsDelete(q))
    <3>1. Unanswered(q) /\ req[q].op = "DELETE" /\ req[q].res \in Res /\ Tells(q)
          /\ want' = Applied(want, req[q].res, req[q].op, req[q].val)
      <4>1. pc[q] = "native"
        BY <2>2 DEF BeginsMirror, BeginsDelete
      <4>2. Unanswered(q) /\ req[q].op = "DELETE" /\ req[q].res \in Res
        BY <1>0, <1>2, <2>2, <4>1, AtRes DEF Unanswered, SameAsk
      <4>3. CASE BeginsMirror(q)
        BY <4>2, <4>3 DEF BeginsMirror, Tells, NativeLeg
      <4>4. CASE BeginsDelete(q)
        BY <4>2, <4>4 DEF BeginsDelete, Tells, Applied
      <4> QED
        BY <2>2, <4>2, <4>3, <4>4
    <3>2. want[req[q].res] # None /\ Born(req[q].res)
      BY <3>1, InvFacts DEF Asked, BornFirst
    <3>3. want'[req[q].res] = None
      BY <3>1, TellsWhat
    <3> QED
      BY <2>2, <3>1, <3>2, <3>3
  <2>3. ASSUME NEW op \in Op, NEW r \in Res, NEW v \in Content(r), Receive(q, op, r, v), mode = "workos-only"
        PROVE  FALSE
    BY <1>2, <2>3, ReceiveDoes
  <2> QED
    BY <1>2, <2>1, <2>2, <2>3, BusyFrom
<1> QED
  BY <1>1, <1>2, BornStays DEF SameAsk

-----------------------------------------------------------------------------
(* What a step does to native *)

WritesNative(q) == NativeLeg(q) \/ NativeAnswerLost(q)

LEMMA NativeCause ==
    ASSUME Inv, [Next]_vars
    PROVE  \/ native' = native
           \/ \E q \in Req : WritesNative(q)
<1>1. ASSUME NEW q \in Req, Proxy(q) PROVE native' = native \/ WritesNative(q)
  BY <1>1 DEF Proxy, WritesNative, NativeRefuses, ClearGap, SkipReplace, Load, Record,
     PatchHits, PatchAnswerLost, DeleteRow, PruneMapping, PruneFails, Retire, MirrorFails, MirrorUnchanged, upstreams
<1>2. ASSUME NEW q \in Proc, Dance(q) PROVE native' = native
  BY <1>2, DanceDoes DEF DanceFrame
<1>3. ASSUME NEW q \in Req, NEW op, NEW x, NEW v, Receive(q, op, x, v) PROVE native' = native
  BY <1>3, ReceiveDoes DEF upstreams
<1>4. ASSUME Backfill PROVE native' = native
  BY <1>4 DEF Backfill, StartFill, FillPage, FillPageFails, FillSkips, FillRow, FillRecord, FillFails,
     FlushWrites, FlushFails, Flush, FillUsersDone, upstreams
<1>5. ASSUME (\E m \in Mode : SetMode(m)) \/ CleanWorkos \/ Crash \/ UNCHANGED vars PROVE native' = native
  BY <1>5, CrashDoes DEF SetMode, CleanWorkos, vars, upstreams
<1> QED
  BY <1>1, <1>2, <1>3, <1>4, <1>5 DEF Next

LEMMA NativeWhat ==
    ASSUME Inv, NEW q \in Req, WritesNative(q)
    PROVE  LET r == req[q].res IN
           /\ pc[q] = "native" /\ Unanswered(q) /\ q \in Proc
           /\ r \in Res /\ req[q].op \in Op /\ req[q].val \in Content(r)
           /\ r \in Users => req[q].op \notin {"ADD", "REMOVE"}
           /\ native[r] = None <=> req[q].op = "POST"
           /\ want[r] = None <=> req[q].op = "POST"
           /\ native'[r] = IF req[q].op = "DELETE" THEN None ELSE After(native[r], req[q].op, req[q].val)
           /\ \A x \in Res \ {r} :
                /\ native'[x] = IF req[q].op = "DELETE" THEN Off(x, native[x], r) ELSE native[x]
                /\ native'[x] = None <=> native[x] = None
           /\ req[q].op = "POST" => r \in ever'
           /\ ever \subseteq ever'
<1> DEFINE r == req[q].res
<1>1. pc[q] = "native" /\ NativeAccepts(r, req[q].op) /\ NativeWrites(q) /\ q \in Proc
  BY ProcMembers DEF WritesNative, NativeLeg, NativeAnswerLost
<1>2. /\ r \in Res /\ req[q].op \in Op /\ req[q].val \in Content(r) /\ Unanswered(q)
      /\ r \in Users => req[q].op \notin {"ADD", "REMOVE"}
  BY <1>1, AtRes, InvFacts DEF Listed, AsksFit, Unanswered
<1>3. (native[r] = None <=> req[q].op = "POST") /\ (want[r] = None <=> req[q].op = "POST")
  BY <1>1, <1>2, InvFacts DEF NativeAccepts, Asked
<1>4. native' = Applied(native, r, req[q].op, req[q].val)
      /\ ever' = IF req[q].op = "POST" THEN ever \cup {r} ELSE ever
  BY <1>1 DEF NativeWrites
<1>5. native = [x \in Res |-> native[x]] /\ \A x \in Res : native[x] \in Content(x) \cup {None}
  BY InvFacts DEF Listed, NativeLists
<1>6. req[q].op \in {"ADD", "REMOVE"} => native[r] # None
  BY <1>3
<1>7. \A x \in Res : Applied(native, r, req[q].op, req[q].val)[x] # None <=>
                        IF x = r THEN req[q].op # "DELETE" ELSE native[x] # None
  BY <1>2, <1>5, <1>6, AppliedTyped
<1> QED
  BY <1>1, <1>2, <1>3, <1>4, <1>5, <1>7, AppliedIs

(* What a member is after a write was one before or in what was written.        *)
LEMMA AfterFrom ==
    ASSUME NEW old, NEW op, NEW v, NEW u, u \in After(old, op, v), op \in Op, op # "DELETE"
    PROVE  u \in v \/ (u \in old /\ op \in {"ADD", "REMOVE"})
BY DEF After, Op

-----------------------------------------------------------------------------
(* A resource is known to native, or spoken of, only once it was created *)

LEMMA ToldIsBorn ==
    ASSUME Inv, [Next]_vars, NEW r \in Res, want'[r] # None
    PROVE  Born(r)'
<1>1. CASE want[r] # None
  BY <1>1, BornStays, InvFacts DEF BornFirst
<1>2. CASE want[r] = None
  <2>1. PICK q \in Req : Tells(q) /\ req[q].res = r
    BY <1>2, NullStays
  <2>2. Unanswered(q) /\ req[q].op = "POST" /\ q \in Proc
    BY <1>2, <2>1, TellerAsks
  <2>3. r \in ever'
    <3>1. CASE NativeLeg(q)
      BY <2>1, <2>2, <3>1 DEF NativeLeg, NativeWrites
    <3>2. CASE Concludes(q)
      <4>1. Created(q)
        BY InvFacts DEF Ind, Requested
      <4> QED
        BY <2>1, <2>2, <3>2, <4>1 DEF Concludes, Created, Busy
    <3> QED
      BY <2>1, <2>2, <3>1, <3>2 DEF Tells
  <2>4. ASSUME NEW p \in Req, Unanswered(p)', req'[p].res = r PROVE FALSE
    <3>1. CASE Unanswered(p) /\ req'[p].res = req[p].res /\ ~Tells(p)
      BY <2>1, <2>2, <2>4, <3>1, InvFacts DEF OneUnanswered
    <3>2. ASSUME NEW op, NEW x, NEW v, Receive(p, op, x, v), req'[p].res = x PROVE FALSE
      BY <2>1, <2>2, <2>4, <3>2 DEF Receive
    <3> QED
      BY <2>4, <3>1, <3>2, UnansweredFrom
  <2> QED
    BY <2>3, <2>4 DEF Born
<1> QED
  BY <1>1, <1>2

LEMMA NativeIsBorn ==
    ASSUME Inv, [Next]_vars, NEW r \in Res, native'[r] # None
    PROVE  r \in ever'
<1>1. CASE native[r] # None
  BY <1>1, EverGrows, InvFacts DEF BornFirst
<1>2. CASE native[r] = None
  <2>1. PICK q \in Req : WritesNative(q)
    BY <1>2, NativeCause
  <2>2. req[q].res = r
    BY <1>2, <2>1, NativeWhat
  <2>3. native'[r] = IF req[q].op = "DELETE" THEN None ELSE After(native[r], req[q].op, req[q].val)
    BY <2>1, <2>2, NativeWhat
  <2>4. req[q].op = "POST" => r \in ever'
    BY <2>1, <2>2, NativeWhat
  <2>5. native[r] = None <=> req[q].op = "POST"
    BY <2>1, <2>2, NativeWhat
  <2> QED
    BY <1>2, <2>4, <2>5
<1> QED
  BY <1>1, <1>2

Spoken(u) == Mentioned(u) \/ want[u] # None

LEMMA SpokenIn ==
    ASSUME NEW u \in Users
    PROVE  /\ \A g \in Groups : want[g] # None /\ u \in want[g] => Spoken(u)
           /\ \A g \in Groups : native[g] # None /\ u \in native[g] => Spoken(u)
           /\ \A g \in Groups : \A w \in RowsOf(g) : workos[w] # None /\ In(u, workos[w]) # {} => Spoken(u)
           /\ \A p \in Proc : u \in Members(req[p]) => Spoken(u)
           /\ \A p \in Proc : pc[p] \in Dancing \cup {"patch"} /\ req[p].res \in Groups /\ In(u, body[p]) # {} => Spoken(u)
           /\ \A i \in DOMAIN snap : snap[i][1] \in Groups /\ u \in snap[i][2] => Spoken(u)
BY DEF Spoken, Mentioned

LEMMA SpokenWant ==
    ASSUME Inv, [Next]_vars, NEW u \in Users, NEW g \in Groups, want'[g] # None, u \in want'[g]
    PROVE  Spoken(u)
<1>0. g \in Res /\ want[g] \in Content(g) \cup {None}
  BY KindFacts, InvFacts DEF Kinds
<1>1. CASE want' = want
  BY <1>1, SpokenIn
<1>2. ASSUME NEW q \in Req, Tells(q), want' = Applied(want, req[q].res, req[q].op, req[q].val)
      PROVE  Spoken(u)
  <2>0. req[q].op \in Op /\ (req[q].op = "POST" <=> want[req[q].res] = None) /\ q \in Proc
    BY <1>2, TellerAsks
  <2>1. CASE g # req[q].res
    <3>1. want'[g] = (IF req[q].op = "DELETE" THEN Off(g, want[g], req[q].res) ELSE want[g])
          /\ want[g] # None
      BY <1>0, <1>2, <2>1, TellsWhat
    <3>2. u \in want[g]
      BY <3>1 DEF Off
    <3> QED
      BY <3>1, <3>2, SpokenIn
  <2>2. CASE g = req[q].res
    <3>1. want'[g] = IF req[q].op = "DELETE" THEN None ELSE After(want[g], req[q].op, req[q].val)
      BY <1>2, <2>2, TellsWhat
    <3>2. u \in req[q].val \/ (u \in want[g] /\ req[q].op # "POST")
      BY <2>0, <3>1, AfterFrom
    <3>3. u \in req[q].val => u \in Members(req[q])
      BY <2>2 DEF Members
    <3> QED
      BY <2>0, <2>2, <3>2, <3>3, SpokenIn
  <2> QED
    BY <2>1, <2>2
<1> QED
  BY <1>1, <1>2, WantCause

LEMMA SpokenNative ==
    ASSUME Inv, [Next]_vars, NEW u \in Users, NEW g \in Groups, native'[g] # None, u \in native'[g]
    PROVE  Spoken(u)
<1>0. g \in Res
  BY KindFacts
<1>1. CASE native' = native
  BY <1>1, SpokenIn
<1>2. ASSUME NEW q \in Req, WritesNative(q)
      PROVE  Spoken(u)
  <2>0. req[q].op \in Op /\ (req[q].op = "POST" <=> native[req[q].res] = None) /\ q \in Proc
    BY <1>2, NativeWhat
  <2>1. CASE g # req[q].res
    <3>1. native'[g] = (IF req[q].op = "DELETE" THEN Off(g, native[g], req[q].res) ELSE native[g])
          /\ native[g] # None
      BY <1>0, <1>2, <2>1, NativeWhat
    <3>2. u \in native[g]
      BY <3>1 DEF Off
    <3> QED
      BY <3>1, <3>2, SpokenIn
  <2>2. CASE g = req[q].res
    <3>1. native'[g] = IF req[q].op = "DELETE" THEN None ELSE After(native[g], req[q].op, req[q].val)
      BY <1>2, <2>2, NativeWhat
    <3>2. u \in req[q].val \/ (u \in native[g] /\ req[q].op # "POST")
      BY <2>0, <3>1, AfterFrom
    <3>3. u \in req[q].val => u \in Members(req[q])
      BY <2>2 DEF Members
    <3> QED
      BY <2>0, <2>2, <3>2, <3>3, SpokenIn
  <2> QED
    BY <2>1, <2>2
<1> QED
  BY <1>1, <1>2, NativeCause

LEMMA SpokenRow ==
    ASSUME Inv, [Next]_vars, NEW u \in Users, NEW g \in Groups, NEW w \in RowsOf(g),
           workos'[w] # None, In(u, workos'[w]) # {}
    PROVE  Spoken(u)
<1>0. g \in Res /\ workos = [x \in Row |-> workos[x]] /\ w \in Row /\ Of(w) = g /\ g \notin Users
  BY KindFacts, RowFacts, InvFacts
<1>1. ASSUME workos[w] # None, workos'[w] \subseteq workos[w] PROVE Spoken(u)
  BY <1>1, SpokenIn DEF In
<1>2. CASE CleanWorkos
  BY <1>0, <1>2 DEF CleanWorkos
<1>3. ASSUME NEW p \in Proc, Dance(p), req[p].res = g PROVE Spoken(u)
  <2>1. CASE workos' = workos
    BY <1>1, <2>1
  <2>2. CASE pc'[p] = "record" /\ pc[p] \in Dancing /\ workos' = [workos EXCEPT ![row'[p]] = body[p]]
    <3>1. CASE w = row'[p]
      BY <1>0, <1>3, <2>2, <3>1, SpokenIn
    <3>2. CASE w # row'[p]
      BY <1>0, <1>1, <2>2, <3>2
    <3> QED
      BY <3>1, <3>2
  <2> QED
    BY <1>3, <2>1, <2>2, DanceDoes
<1>4. ASSUME NEW q \in Req, PatchHits(q) \/ PatchAnswerLost(q), req[q].res = g PROVE Spoken(u)
  <2>1. /\ pc[q] = "patch" /\ workos' = [workos EXCEPT ![row[q]] = After(workos[row[q]], req[q].op, body[q])]
        /\ req[q].op \in {"PATCH", "ADD", "REMOVE"} /\ workos[row[q]] # None /\ q \in Proc
    BY <1>4, PatchDoes
  <2>2. CASE w # row[q]
    BY <1>0, <1>1, <2>1, <2>2
  <2>3. CASE w = row[q]
    <3>1. workos'[w] = After(workos[w], req[q].op, body[q])
      BY <1>0, <2>1, <2>3
    <3>2. PICK x : x \in workos'[w] /\ x \in RowsOf(u)
      BY DEF In
    <3>3. x \in body[q] \/ x \in workos[w]
      BY <2>1, <3>1, <3>2, AfterFrom DEF Op
    <3>4. In(u, body[q]) # {} \/ In(u, workos[w]) # {}
      BY <3>2, <3>3 DEF In
    <3> QED
      BY <1>4, <2>1, <2>3, <3>4, SpokenIn
  <2> QED
    BY <2>2, <2>3
<1>5. ASSUME NEW q \in Req, DeleteRow(q), req[q].res = g PROVE Spoken(u)
  <2>1. row[q] \in RowsOf(g) /\ workos' = WorkosDeletes(row[q]) /\ RowsFit
    BY <1>5, DeleteDoes, InvFacts
  <2>2. workos'[row[q]] = None
    BY <1>0, <2>1, DeletedRows
  <2>3. w \in RowsOf(g) \ {row[q]}
    BY <2>2
  <2>4. WorkosDeletes(row[q])[w] = IF workos[row[q]] # None /\ ~Retains /\ g \in Users /\ g \in Groups
                                       /\ workos[w] # None
                                    THEN workos[w] \ {row[q]} ELSE workos[w]
    <3>1. \A s \in Res : \A x \in RowsOf(s) \ {row[q]} :
            WorkosDeletes(row[q])[x] = IF workos[row[q]] # None /\ ~Retains /\ g \in Users
                                          /\ s \in Groups /\ workos[x] # None
                                       THEN workos[x] \ {row[q]} ELSE workos[x]
      BY <1>0, <2>1, DeletedRows
    <3> QED
      BY <1>0, <2>3, <3>1
  <2>5. workos'[w] = workos[w]
    BY <1>0, <2>1, <2>4
  <2> QED
    BY <1>1, <2>5
<1>6. CASE ~CleanWorkos /\ \A p \in Proc : WritesRow(p) => req[p].res # g
  <2>1. \/ workos'[w] = workos[w]
        \/ \E q \in Req : workos'[w] = IF workos[w] = None THEN None ELSE workos[w] \ {row[q]}
    BY <1>0, <1>6, RowsElse
  <2> QED
    BY <1>1, <2>1
<1> QED
  BY <1>2, <1>3, <1>4, <1>5, <1>6 DEF WritesRow

LEMMA TranslatedIn ==
    ASSUME Inv, NEW S \in SUBSET Users, NEW u \in Users, In(u, {Translate(map, x) : x \in S}) # {}
    PROVE  u \in S
<1>1. PICK x \in S : Translate(map, x) \in RowsOf(u)
  BY DEF In
<1>2. Translate(map, x) \in RowsOf(x)
  BY TranslateFits, InvFacts, KindFacts
<1> QED
  BY <1>1, <1>2, KindFacts

LEMMA SpokenReq ==
    ASSUME Inv, [Next]_vars, NEW u \in Users, NEW p \in Proc
    PROVE  /\ u \in Members(req'[p]) => Spoken(u)
           /\ pc'[p] \in Dancing \cup {"patch"} /\ req'[p].res \in Groups /\ In(u, body'[p]) # {} => Spoken(u)
<1> DEFINE Goal == /\ u \in Members(req'[p]) => Spoken(u)
                   /\ pc'[p] \in Dancing \cup {"patch"} /\ req'[p].res \in Groups /\ In(u, body'[p]) # {} => Spoken(u)
<1>0. "idle" \notin Dancing \cup {"patch"}
  BY DEF Dancing
<1>1. ASSUME pc'[p] = "idle", req'[p] = NoReq PROVE Goal
  <2>1. NoReq.res \notin Groups
    BY KindAssumption DEF NoReq
  <2> QED
    BY <1>0, <1>1, <2>1 DEF Members
<1>2. CASE Keeps(p)
  BY <1>2, SpokenIn DEF Keeps
<1>3. CASE p \in Req /\ Proxy(p)
  <2>1. CASE Load(p) /\ SameAsk(p)
    <3>1. /\ pc[p] = "load" /\ req[p].res \in Res
          /\ body'[p] = IF req[p].res \in Groups THEN {Translate(map, x) : x \in req[p].val} ELSE req[p].val
      BY <1>3, <2>1, LoadDoes
    <3>2. u \in Members(req'[p]) => u \in Members(req[p])
      BY <2>1 DEF SameAsk, Members
    <3>3. ASSUME req[p].res \in Groups, In(u, body'[p]) # {} PROVE u \in Members(req[p])
      <4>1. req[p].val \in SUBSET Users
        BY <1>3, <3>1, <3>3, AtRes, KindFacts DEF Content
      <4> QED
        BY <3>1, <3>3, <4>1, TranslatedIn DEF Members
    <3> QED
      BY <2>1, <3>2, <3>3, SpokenIn DEF SameAsk
  <2>2. CASE SameAsk(p) /\ (BeginsMirror(p) \/ BeginsDelete(p) \/ Proceeds(p) \/ Lingers(p) \/ DeleteRow(p))
    <3>1. pc'[p] \notin Dancing \cup {"patch"}
      BY <1>3, <2>2, DeleteDoes, InvFacts DEF BeginsMirror, BeginsDelete, Proceeds, Lingers, Dancing
    <3>2. u \in Members(req'[p]) => u \in Members(req[p])
      BY <2>2 DEF SameAsk, Members
    <3> QED
      BY <3>1, <3>2, SpokenIn
  <2>3. CASE Reset(p)
    BY <1>1, <2>3, ResetTo
  <2> QED
    BY <1>3, <2>1, <2>2, <2>3, ProxySteps
<1>4. CASE Dance(p)
  <2>1. pc[p] \in Dancing /\ req' = req /\ body' = body
    BY <1>4, DanceDoes DEF DanceFrame
  <2> QED
    BY <2>1, SpokenIn
<1>5. CASE p \in Req /\ Arrives(p)
  <2>1. PICK op \in Op, r \in Res : \E v \in Content(r) : Receive(p, op, r, v)
    BY <1>5 DEF Arrives
  <2>2. PICK v \in Content(r) : Receive(p, op, r, v)
    BY <2>1
  <2>3. Legal(op, r, v) /\ req'[p].res = r /\ req'[p].val = v /\ pc'[p] \in {"native", "load"}
    BY <1>5, <2>2, ReceiveDoes
  <2>4. pc'[p] \notin Dancing \cup {"patch"}
    BY <2>3 DEF Dancing
  <2>5. ASSUME r \in Groups, u \in v PROVE want[u] # None
    BY <2>3, <2>5, KindFacts DEF Legal, Known
  <2> QED
    BY <2>3, <2>4, <2>5 DEF Members, Spoken
<1>6. CASE Crash
  BY <1>1, <1>6, CrashDoes
<1>7. CASE p = Filler /\ FillRow
  <2>1. /\ 1 \in DOMAIN snap /\ snap[1][1] \in Res /\ snap[1][2] \in Content(snap[1][1])
        /\ req'[p].res = snap[1][1] /\ req'[p].val = snap[1][2]
        /\ body'[p] = (IF snap[1][1] \in Groups THEN {Translate(map, x) : x \in snap[1][2]} ELSE snap[1][2])
    BY <1>7, FillRowDoes
  <2>2. ASSUME snap[1][1] \in Groups PROVE snap[1][2] \in SUBSET Users
    BY <2>1, <2>2, KindFacts DEF Content
  <2>3. u \in Members(req'[p]) => snap[1][1] \in Groups /\ u \in snap[1][2]
    BY <2>1 DEF Members
  <2>4. req'[p].res \in Groups /\ In(u, body'[p]) # {} => snap[1][1] \in Groups /\ u \in snap[1][2]
    BY <2>1, <2>2, TranslatedIn
  <2> QED
    BY <2>1, <2>3, <2>4, SpokenIn
<1>8. CASE p = Filler /\ (FillRecord \/ FillFails)
  <2>1. Reset(Filler)
    BY <1>8 DEF FillRecord, FillFails
  <2> QED
    BY <1>1, <1>8, <2>1, ResetTo
<1> QED
  BY <1>2, <1>3, <1>4, <1>5, <1>6, <1>7, <1>8, KeepsElse DEF Moves

LEMMA SpokenSnap ==
    ASSUME Inv, [Next]_vars, NEW u \in Users, NEW i \in DOMAIN snap', snap'[i][1] \in Groups, u \in snap'[i][2]
    PROVE  Spoken(u)
<1>1. CASE snap' = snap
  BY <1>1, SpokenIn
<1>2. CASE FillPage
  <2>1. CASE i \in DOMAIN snap /\ snap'[i] = snap[i]
    BY <2>1, SpokenIn
  <2>2. CASE i \in DOMAIN Listing /\ snap'[i] = <<Listing[i], native[Listing[i]]>> /\ stage \in {"users", "groups"}
    BY <2>2, SpokenIn, ListingIs
  <2> QED
    BY <1>2, <2>1, <2>2, PageDoes
<1>3. CASE FillSkips \/ FillRow
  BY <1>3, TailDoes, SpokenIn
<1>4. CASE Crash
  BY <1>4, CrashDoes
<1> QED
  BY <1>1, <1>2, <1>3, <1>4, SnapFrom

LEMMA BornFirstStays == ASSUME Inv, [Next]_vars PROVE BornFirst'
<1>1. ASSUME NEW r \in Res, want'[r] # None PROVE Born(r)'
  BY <1>1, ToldIsBorn
<1>2. ASSUME NEW r \in Res, native'[r] # None PROVE r \in ever'
  BY <1>2, NativeIsBorn
<1>3. ASSUME NEW u \in Users, Mentioned(u)' PROVE Born(u)'
  <2>1. Spoken(u)
    BY <1>3, SpokenWant, SpokenNative, SpokenRow, SpokenReq, SpokenSnap DEF Mentioned, Members
  <2> QED
    BY <2>1, BornStays, InvFacts, KindFacts DEF Spoken, BornFirst
<1> QED
  BY <1>1, <1>2, <1>3 DEF BornFirst

-----------------------------------------------------------------------------
(* Native has what the IdP was told, but for what is known *)

LEMMA NotAnew ==
    ASSUME Inv, NEW q \in Req, Unanswered(q), pc[q] # "idle", req[q].res \in Users, NEW g \in Groups,
           native[g] # None, req[q].res \in native[g]
    PROVE  req[q].op # "POST" /\ want[req[q].res] # None
<1>1. Mentioned(req[q].res)
  BY DEF Mentioned
<1>2. Born(req[q].res)
  BY <1>1, InvFacts DEF BornFirst
<1>3. req[q].op # "POST"
  BY <1>2 DEF Born
<1> QED
  BY <1>3, InvFacts DEF Asked

GroupAgrees(g) ==
    /\ native[g] = None <=> want[g] = None
    /\ want[g] # None => /\ want[g] \subseteq native[g]
                         /\ \A u \in native[g] \ want[g] : u \in oldN /\ want[u] = None

LEMMA NativeSets ==
    ASSUME Inv, NEW g \in Groups
    PROVE  /\ g \in Res /\ g \notin Users /\ want[g] \in (SUBSET Users) \cup {None}
           /\ native[g] \in (SUBSET Users) \cup {None}
<1>1. g \in Res /\ g \notin Users /\ Content(g) = SUBSET Users
  BY KindFacts DEF Content
<1> QED
  BY <1>1, InvFacts DEF Kinds, Listed, NativeLists

LEMMA AgreesInLeg ==
    ASSUME Inv, NEW q \in Req, NativeLeg(q)
    PROVE  NativeAgrees'
<1> DEFINE r == req[q].res
           op == req[q].op
           v == req[q].val
<1>1. /\ pc[q] = "native" /\ Unanswered(q) /\ r \in Res /\ op \in Op /\ v \in Content(r)
      /\ r \in Users => op \notin {"ADD", "REMOVE"}
      /\ (native[r] = None <=> op = "POST") /\ (want[r] = None <=> op = "POST")
      /\ native'[r] = (IF op = "DELETE" THEN None ELSE After(native[r], op, v))
      /\ \A x \in Res \ {r} : native'[x] = IF op = "DELETE" THEN Off(x, native[x], r) ELSE native[x]
      /\ \A x \in Res \ {r} : native'[x] = None <=> native[x] = None
  BY NativeWhat DEF WritesNative
<1>2. /\ want'[r] = (IF op = "DELETE" THEN None ELSE After(want[r], op, v))
      /\ \A x \in Res \ {r} : want'[x] = IF op = "DELETE" THEN Off(x, want[x], r) ELSE want[x]
      /\ \A x \in Res \ {r} : want'[x] = None <=> want[x] = None
      /\ op # "DELETE" => want'[r] # None
  BY TellsWhat DEF Tells, NativeLeg
<1>3. oldN' = IF op \in {"POST", "PUT", "DELETE"} THEN oldN \ {r} ELSE oldN
  BY DEF NativeLeg
<1>4. /\ \A u \in Users \ oldN : native[u] = want[u]
      /\ \A g \in Groups \ oldN : GroupAgrees(g)
  BY InvFacts DEF NativeAgrees, GroupAgrees
<1>5. op # "DELETE" => native'[r] # None
  <2>1. \A x \in Res : native[x] \in Content(x) \cup {None}
    BY InvFacts DEF Listed, NativeLists
  <2>2. op \in {"ADD", "REMOVE"} => native[r] # None
    BY <1>1
  <2>3. native' = Applied(native, r, op, v) /\ native = [x \in Res |-> native[x]]
    BY InvFacts DEF NativeLeg, NativeWrites
  <2> QED
    BY <1>1, <2>1, <2>2, <2>3, AppliedTyped
<1>6. ASSUME NEW g \in Groups \ {r}, native[g] # None, r \in native[g], r \in Users
      PROVE  op # "POST" /\ want[r] # None
  BY <1>1, <1>6, NotAnew
<1> HIDE DEF r, op, v
<1>7. ASSUME NEW u \in Users, u \notin oldN' PROVE native'[u] = want'[u]
  <2>0. u \in Res /\ u \notin Groups
    BY KindFacts
  <2>1. CASE u # r
    BY <1>1, <1>2, <1>3, <1>4, <1>7, <2>0, <2>1 DEF Off
  <2>2. CASE u = r /\ op \in {"POST", "PUT", "PATCH"}
    BY <1>1, <1>2, <2>2 DEF After
  <2>3. CASE u = r /\ op = "DELETE"
    BY <1>1, <1>2, <2>3
  <2> QED
    BY <1>1, <2>1, <2>2, <2>3 DEF Op
<1>8. ASSUME NEW g \in Groups, g \notin oldN' PROVE GroupAgrees(g)'
  <2>0. /\ g \in Res /\ g \notin Users /\ want[g] \in (SUBSET Users) \cup {None}
        /\ native[g] \in (SUBSET Users) \cup {None}
    BY NativeSets
  <2>1. CASE g = r /\ op = "DELETE"
    BY <1>1, <1>2, <2>1 DEF GroupAgrees
  <2>2. CASE g = r /\ op \in {"POST", "PUT", "PATCH"}
    <3>1. native'[g] = v /\ want'[g] = v
      BY <1>1, <1>2, <2>2 DEF After
    <3> QED
      BY <3>1 DEF GroupAgrees
  <2>3. CASE g = r /\ op \in {"ADD", "REMOVE"}
    <3>1. GroupAgrees(g) /\ oldN' = oldN /\ native[g] # None /\ want[g] # None
      BY <1>1, <1>3, <1>4, <1>8, <2>3
    <3>2. /\ native'[g] = (IF op = "ADD" THEN native[g] \cup v ELSE native[g] \ v)
          /\ want'[g] = (IF op = "ADD" THEN want[g] \cup v ELSE want[g] \ v)
      BY <1>1, <1>2, <2>3 DEF After
    <3>3. native'[g] # None /\ want'[g] # None
      BY <1>2, <1>5, <2>3
    <3>4. \A u \in native'[g] \ want'[g] : u \in native[g] \ want[g]
      BY <3>2
    <3>5. \A u \in native[g] \ want[g] : u \in Res \ {r} /\ want'[u] = want[u]
      BY <1>2, <2>0, <2>3, <3>1, KindFacts
    <3>6. want'[g] \subseteq native'[g]
      BY <3>1, <3>2 DEF GroupAgrees
    <3> QED
      BY <3>1, <3>3, <3>4, <3>5, <3>6 DEF GroupAgrees
  <2>4. CASE g # r
    <3>1. GroupAgrees(g)
      BY <1>3, <1>4, <1>8, <2>4
    <3>2. (native'[g] = None <=> native[g] = None) /\ (want'[g] = None <=> want[g] = None)
      BY <1>1, <1>2, <2>0, <2>4
    <3>3. CASE want[g] = None
      BY <3>1, <3>2, <3>3 DEF GroupAgrees
    <3>4. CASE want[g] # None
      <4>0. native[g] # None /\ want'[g] # None /\ native'[g] # None
        BY <3>1, <3>2, <3>4 DEF GroupAgrees
      <4>1. native'[g] = (IF op = "DELETE" /\ r \in Users THEN native[g] \ {r} ELSE native[g])
            /\ want'[g] = (IF op = "DELETE" /\ r \in Users THEN want[g] \ {r} ELSE want[g])
        BY <1>1, <1>2, <2>0, <2>4, <3>4, <4>0 DEF Off
      <4>2. want'[g] \subseteq native'[g]
        BY <3>1, <3>4, <4>1 DEF GroupAgrees
      <4>3. ASSUME NEW u \in native'[g] \ want'[g] PROVE u \in oldN' /\ want'[u] = None
        <5>1. u \in native[g] \ want[g] /\ u \in Users /\ u \in Res
          BY <2>0, <4>0, <4>1, <4>3, KindFacts
        <5>2. u \in oldN /\ want[u] = None
          BY <3>1, <3>4, <5>1 DEF GroupAgrees
        <5>3. u # r
          BY <1>6, <2>4, <4>0, <5>1, <5>2
        <5> QED
          BY <1>2, <1>3, <5>1, <5>2, <5>3
      <4> QED
        BY <3>2, <4>0, <4>2, <4>3 DEF GroupAgrees
    <3> QED
      BY <3>3, <3>4
  <2> QED
    BY <1>1, <2>1, <2>2, <2>3, <2>4 DEF Op
<1> QED
  BY <1>7, <1>8 DEF NativeAgrees, GroupAgrees

LEMMA AgreesInRefusal ==
    ASSUME Inv, NEW q \in Req, Tells(q), ~NativeLeg(q),
           want' = Applied(want, req[q].res, req[q].op, req[q].val)
    PROVE  NativeAgrees'
<1> DEFINE r == req[q].res
           op == req[q].op
           v == req[q].val
<1>1. /\ Unanswered(q) /\ r \in Res /\ op \in Op /\ (op = "POST" <=> want[r] = None) /\ pc[q] # "idle"
      /\ r \in Users => op \notin {"ADD", "REMOVE"}
  BY TellerAsks, InvFacts DEF Unanswered, Busy, Listed, AsksFit
<1>2. /\ want'[r] = (IF op = "DELETE" THEN None ELSE After(want[r], op, v))
      /\ \A x \in Res \ {r} : want'[x] = IF op = "DELETE" THEN Off(x, want[x], r) ELSE want[x]
      /\ \A x \in Res \ {r} : want'[x] = None <=> want[x] = None
  BY TellsWhat
<1>3. native' = native /\ oldN \subseteq oldN'
      /\ (r \in oldN' \/ (native[r] = None /\ op = "DELETE"))
  <2>1. CASE NativeRefuses(q)
    BY <1>1, <2>1 DEF NativeRefuses, upstreams, NativeAccepts, Tells, Concludes, Busy
  <2>2. CASE Concludes(q)
    BY <2>2 DEF Concludes
  <2> QED
    BY <2>1, <2>2 DEF Tells
<1>4. /\ \A u \in Users \ oldN : native[u] = want[u]
      /\ \A g \in Groups \ oldN : GroupAgrees(g)
  BY InvFacts DEF NativeAgrees, GroupAgrees
<1>6. ASSUME NEW g \in Groups \ {r}, native[g] # None, r \in native[g], r \in Users
      PROVE  op # "POST" /\ want[r] # None
  BY <1>1, <1>6, NotAnew
<1> HIDE DEF r, op, v
<1>7. ASSUME NEW u \in Users, u \notin oldN' PROVE native'[u] = want'[u]
  <2>0. u \in Res /\ u \notin Groups
    BY KindFacts
  <2>1. CASE u # r
    BY <1>2, <1>3, <1>4, <1>7, <2>0, <2>1 DEF Off
  <2>2. CASE u = r
    BY <1>2, <1>3, <1>7, <2>2
  <2> QED
    BY <2>1, <2>2
<1>8. ASSUME NEW g \in Groups, g \notin oldN' PROVE GroupAgrees(g)'
  <2>0. /\ g \in Res /\ g \notin Users /\ want[g] \in (SUBSET Users) \cup {None}
        /\ native[g] \in (SUBSET Users) \cup {None} /\ g \notin oldN
    BY <1>3, <1>8, NativeSets
  <2>1. CASE g = r
    BY <1>2, <1>3, <1>8, <2>1 DEF GroupAgrees
  <2>4. CASE g # r
    <3>1. GroupAgrees(g)
      BY <1>4, <2>0
    <3>2. want'[g] = None <=> want[g] = None
      BY <1>2, <2>0, <2>4
    <3>3. CASE want[g] = None
      BY <1>3, <3>1, <3>2, <3>3 DEF GroupAgrees
    <3>4. CASE want[g] # None
      <4>0. native[g] # None /\ want'[g] # None
        BY <3>1, <3>2, <3>4 DEF GroupAgrees
      <4>1. want'[g] = (IF op = "DELETE" /\ r \in Users THEN want[g] \ {r} ELSE want[g])
        BY <1>2, <2>0, <2>4, <3>4 DEF Off
      <4>2. want'[g] \subseteq native[g]
        BY <3>1, <3>4, <4>1 DEF GroupAgrees
      <4>3. ASSUME NEW u \in native[g] \ want'[g] PROVE u \in oldN' /\ want'[u] = None
        <5>0. u \in Users /\ u \in Res
          BY <2>0, <4>0, KindFacts
        <5>1. CASE u # r
          <6>1. u \in native[g] \ want[g]
            BY <4>1, <4>3, <5>1
          <6>2. u \in oldN /\ want[u] = None
            BY <3>1, <3>4, <6>1 DEF GroupAgrees
          <6> QED
            BY <1>2, <1>3, <5>0, <5>1, <6>2
        <5>2. CASE u = r
          <6>1. op # "POST" /\ want[r] # None
            BY <1>6, <2>4, <4>0, <4>3, <5>0, <5>2
          <6>2. u \in want[g]
            BY <3>1, <3>4, <4>3, <5>2, <6>1 DEF GroupAgrees
          <6>3. op = "DELETE"
            BY <4>1, <4>3, <6>2
          <6>4. want'[u] = None
            BY <1>2, <5>2, <6>3
          <6>5. u \in oldN'
            BY <1>3, <1>4, <5>0, <5>2, <6>1
          <6> QED
            BY <6>4, <6>5
        <5> QED
          BY <5>1, <5>2
      <4> QED
        BY <1>3, <4>0, <4>2, <4>3 DEF GroupAgrees
    <3> QED
      BY <3>3, <3>4
  <2> QED
    BY <2>1, <2>4
<1> QED
  BY <1>7, <1>8 DEF NativeAgrees, GroupAgrees

LEMMA AgreesInLoss ==
    ASSUME Inv, NEW q \in Req, NativeAnswerLost(q)
    PROVE  NativeAgrees'
<1> DEFINE r == req[q].res
<1>1. /\ want' = want /\ oldN' = oldN \cup {r} \cup {g \in Groups : native[g] # native'[g]}
  BY DEF NativeAnswerLost
<1>2. r \in Res /\ \A x \in Res \ {r} : native'[x] = IF req[q].op = "DELETE" THEN Off(x, native[x], r) ELSE native[x]
  BY NativeWhat DEF WritesNative
<1>3. \A u \in Users \ {r} : native'[u] = native[u]
  BY <1>2, KindFacts DEF Off
<1>4. \A g \in Groups : g \notin oldN' => native'[g] = native[g] /\ g \notin oldN
  BY <1>1
<1>5. /\ \A u \in Users \ oldN : native[u] = want[u]
      /\ \A g \in Groups \ oldN : GroupAgrees(g)
  BY InvFacts DEF NativeAgrees, GroupAgrees
<1>6. \A u \in Users : u \notin oldN' => native'[u] = want'[u]
  BY <1>1, <1>3, <1>5
<1>7. \A g \in Groups : g \notin oldN' => GroupAgrees(g)'
  BY <1>1, <1>4, <1>5 DEF GroupAgrees
<1> QED
  BY <1>6, <1>7 DEF NativeAgrees, GroupAgrees

LEMMA NativeAgreesStays == ASSUME Inv, [Next]_vars PROVE NativeAgrees'
<1>1. ASSUME NEW q \in Req, NativeLeg(q) PROVE NativeAgrees'
  BY <1>1, AgreesInLeg
<1>2. ASSUME NEW q \in Req, NativeAnswerLost(q) PROVE NativeAgrees'
  BY <1>2, AgreesInLoss
<1>3. ASSUME NEW q \in Req, ~NativeLeg(q), Tells(q), want' = Applied(want, req[q].res, req[q].op, req[q].val)
      PROVE  NativeAgrees'
  BY <1>3, AgreesInRefusal
<1>4. CASE want' = want /\ native' = native /\ ~\E q \in Req : NativeLeg(q)
  <2>1. oldN \cap Res \subseteq oldN'
    BY <1>4, OldNCause
  <2>2. Users \subseteq Res /\ Groups \subseteq Res
    BY DEF Res
  <2>3. /\ \A u \in Users \ oldN : native[u] = want[u]
        /\ \A g \in Groups \ oldN : GroupAgrees(g)
    BY InvFacts DEF NativeAgrees, GroupAgrees
  <2>4. \A u \in Users : u \notin oldN' => native'[u] = want'[u]
    BY <1>4, <2>1, <2>2, <2>3
  <2>5. ASSUME NEW g \in Groups, g \notin oldN' PROVE GroupAgrees(g)'
    <3>1. GroupAgrees(g)
      BY <2>1, <2>2, <2>3, <2>5
    <3>2. want[g] # None => \A u \in native[g] \ want[g] : u \in Res
      BY <2>2, <3>1, NativeSets DEF GroupAgrees
    <3> QED
      BY <1>4, <2>1, <3>1, <3>2 DEF GroupAgrees
  <2> QED
    BY <2>4, <2>5 DEF NativeAgrees, GroupAgrees
<1> QED
  BY <1>1, <1>2, <1>3, <1>4, WantCause, NativeCause DEF WritesNative

-----------------------------------------------------------------------------
(* The backfill's rows, from its listing to the mapping it queues *)

LEMMA StageFrom ==
    ASSUME Inv, [Next]_vars
    PROVE  \/ stage' = stage
           \/ StartFill \/ FillPage \/ FillPageFails \/ FillUsersDone \/ Crash
           \/ (\E written \in BOOLEAN : Flush(written)) /\ (FlushWrites \/ FlushFails)
<1>1. ASSUME NEW q \in Req, Proxy(q) PROVE stage' = stage
  BY <1>1 DEF Proxy, NativeLeg, NativeRefuses, NativeAnswerLost, ClearGap, SkipReplace, Load, Record,
     PatchHits, PatchAnswerLost, DeleteRow, PruneMapping, PruneFails, Retire, MirrorFails, MirrorUnchanged, fill
<1>2. ASSUME NEW q \in Proc, Dance(q) PROVE stage' = stage
  BY <1>2, DanceDoes DEF DanceFrame
<1>3. ASSUME NEW q \in Req, NEW op, NEW x, NEW v, Receive(q, op, x, v) PROVE stage' = stage
  BY <1>3 DEF Receive, fill
<1>4. CASE FlushWrites \/ FlushFails
  BY <1>4 DEF FlushWrites, FlushFails
<1>5. CASE Backfill /\ ~FlushWrites /\ ~FlushFails
  BY <1>5 DEF Backfill, FillSkips, FillRow, FillRecord, FillFails, fill
<1>6. CASE (\E m \in Mode : SetMode(m)) \/ CleanWorkos \/ Crash \/ UNCHANGED vars
  BY <1>6 DEF SetMode, CleanWorkos, vars, fill
<1> QED
  BY <1>1, <1>2, <1>3, <1>4, <1>5, <1>6 DEF Next

LEMMA FlushEnds ==
    ASSUME FlushWrites \/ FlushFails
    PROVE  /\ pc[Filler] = "idle" /\ stage \in Rows \cup {"flush"} /\ sink' = <<>> /\ stage' = AfterFlush
           /\ UNCHANGED <<procs, snap>>
           /\ stage' = stage \/ (stage = "flush" /\ stage' = "group-rows") \/ NoneCopied
<1>1. /\ pc[Filler] = "idle" /\ FlushDue /\ stage \in Rows \cup {"flush"} /\ sink' = <<>>
      /\ stage' = AfterFlush /\ UNCHANGED <<procs, snap>>
  BY DEF FlushWrites, FlushFails, Flush
<1>2. CASE Full
  BY <1>1, <1>2 DEF AfterFlush
<1>3. CASE ~Full /\ stage = "flush"
  BY <1>1, <1>3 DEF AfterFlush
<1>4. CASE ~Full /\ stage # "flush"
  <2>1. stage' = "off"
    BY <1>1, <1>4 DEF AfterFlush
  <2>2. snap = <<>>
    BY <1>1, <1>4 DEF FlushDue
  <2> QED
    BY <1>1, <2>1, <2>2 DEF NoneCopied, procs
<1> QED
  BY <1>1, <1>2, <1>3, <1>4

LEMMA FillingFrom ==
    ASSUME Inv, [Next]_vars, NEW r \in Res, pc'[Filler] # "idle", req'[Filler].res = r
    PROVE  \/ /\ Filling(r) /\ req'[Filler].val = req[Filler].val /\ ~FillRow
              /\ Keeps(Filler) \/ Dance(Filler)
           \/ FillRow /\ 1 \in DOMAIN snap /\ snap[1][1] = r /\ snap[1][2] = req'[Filler].val
<1>0. Filler \in Proc /\ (FillRow => pc[Filler] = "idle") /\ "idle" \notin Dancing
  BY ProcMembers DEF FillRow, Dancing
<1>1. CASE Keeps(Filler)
  BY <1>0, <1>1 DEF Keeps, Filling
<1>2. CASE Dance(Filler)
  BY <1>0, <1>2, DanceDoes DEF DanceFrame, Filling
<1>3. CASE FillRow
  BY <1>3, FillRowDoes
<1> QED
  BY <1>1, <1>2, <1>3, FillerMoves

LEMMA InSnapFrom ==
    ASSUME Inv, [Next]_vars, NEW i \in DOMAIN snap'
    PROVE  \/ snap' = snap /\ i \in DOMAIN snap
           \/ FillPage /\ i \in DOMAIN snap /\ snap'[i] = snap[i]
           \/ /\ FillPage /\ i \notin DOMAIN snap /\ i \in DOMAIN Listing /\ stage \in {"users", "groups"}
              /\ snap'[i] = <<Listing[i], native[Listing[i]]>>
           \/ /\ FillSkips \/ FillRow
              /\ i + 1 \in DOMAIN snap /\ i + 1 # 1 /\ i \in Nat /\ snap'[i] = snap[i + 1] /\ 1 \in DOMAIN snap
<1>1. CASE Crash
  BY <1>1, CrashDoes
<1> QED
  BY <1>1, SnapFrom, PageDoes, TailDoes

LEMMA DistinctStays == ASSUME Inv, [Next]_vars PROVE Distinct'
<1>0. /\ \A i, j \in DOMAIN snap : snap[i][1] = snap[j][1] => i = j
      /\ \A i, j \in DOMAIN sink : sink[i][1] = sink[j][1] => i = j
      /\ \A r \in Res : /\ InSnap(r) => ~Filling(r) /\ ~Queued(r)
                        /\ Filling(r) => ~Queued(r)
  BY InvFacts DEF Distinct
<1>00. pc[Filler] # "idle" => stage \in Rows
  BY InvFacts DEF Stages
<1>1. ASSUME NEW i \in DOMAIN snap', NEW j \in DOMAIN snap', snap'[i][1] = snap'[j][1] PROVE i = j
  <2>1. CASE snap' = snap
    BY <1>0, <1>1, <2>1
  <2>2. CASE FillPage
    <3>0. /\ stage \in {"users", "groups"} /\ Listing \in Seq(Res)
          /\ \A k, l \in DOMAIN Listing : Listing[k] = Listing[l] => k = l
          /\ \A k \in DOMAIN snap, l \in DOMAIN Listing : Listing[l] = snap[k][1] => l <= k
          /\ \A k \in DOMAIN snap : \A l \in Nat \ DOMAIN snap : l > 0 => k < l
      BY <2>2, PageDoes, ListingIs, InvFacts DEF Stages
    <3>1. \A k \in DOMAIN Listing : k \in Nat /\ k > 0
      BY <3>0
    <3>2. \A k \in DOMAIN snap : k \in Nat
      <4>1. PICK S : snap \in Seq(S)
        BY InvFacts DEF Listed, CopiesFit
      <4> QED
        BY <4>1
    <3>3. ASSUME NEW k \in DOMAIN snap, NEW l \in DOMAIN Listing, l \notin DOMAIN snap, Listing[l] = snap[k][1]
          PROVE  FALSE
      <4>1. l <= k /\ k < l /\ k \in Nat /\ l \in Nat
        BY <3>0, <3>1, <3>2, <3>3
      <4> QED
        BY <4>1
    <3>4. CASE i \in DOMAIN snap /\ snap'[i] = snap[i] /\ j \in DOMAIN snap /\ snap'[j] = snap[j]
      BY <1>0, <1>1, <3>4
    <3>5. CASE i \in DOMAIN snap /\ snap'[i] = snap[i] /\ j \notin DOMAIN snap /\ j \in DOMAIN Listing
               /\ snap'[j] = <<Listing[j], native[Listing[j]]>>
      BY <1>1, <3>3, <3>5
    <3>6. CASE j \in DOMAIN snap /\ snap'[j] = snap[j] /\ i \notin DOMAIN snap /\ i \in DOMAIN Listing
               /\ snap'[i] = <<Listing[i], native[Listing[i]]>>
      BY <1>1, <3>3, <3>6
    <3>7. CASE /\ j \in DOMAIN Listing /\ snap'[j] = <<Listing[j], native[Listing[j]]>>
               /\ i \in DOMAIN Listing /\ snap'[i] = <<Listing[i], native[Listing[i]]>>
      BY <1>1, <3>0, <3>7
    <3> QED
      BY <2>2, <3>4, <3>5, <3>6, <3>7, PageDoes
  <2>3. CASE FillSkips \/ FillRow
    <3>1. /\ i + 1 \in DOMAIN snap /\ i \in Nat /\ snap'[i] = snap[i + 1]
          /\ j + 1 \in DOMAIN snap /\ j \in Nat /\ snap'[j] = snap[j + 1]
      BY <2>3, TailDoes
    <3>2. i + 1 = j + 1
      BY <1>0, <1>1, <3>1
    <3> QED
      BY <3>1, <3>2
  <2>4. CASE Crash
    BY <2>4, CrashDoes
  <2> QED
    BY <2>1, <2>2, <2>3, <2>4, SnapFrom
<1>2. ASSUME NEW i \in DOMAIN sink', NEW j \in DOMAIN sink', sink'[i][1] = sink'[j][1] PROVE i = j
  <2>1. CASE sink' = sink
    BY <1>0, <1>2, <2>1
  <2>2. CASE sink' = <<>>
    BY <2>2
  <2>3. CASE FillRecord /\ \A k \in DOMAIN sink' :
                  \/ k \in DOMAIN sink /\ sink'[k] = sink[k]
                  \/ k = Len(sink) + 1 /\ sink'[k] = <<req[Filler].res, row[Filler]>>
    <3>1. Filling(req[Filler].res) /\ req[Filler].res \in Res
      BY <2>3, AtRes, ProcMembers DEF FillRecord, Filling
    <3>2. ~Queued(req[Filler].res)
      BY <1>0, <3>1
    <3> QED
      BY <1>0, <1>2, <2>3, <3>2 DEF Queued
  <2> QED
    BY <2>1, <2>2, <2>3, SinkFrom
<1>3. ASSUME NEW r \in Res
      PROVE  /\ Queued(r)' => Queued(r) \/ (FillRecord /\ Filling(r) /\ pc'[Filler] = "idle")
             /\ Queued(r)' => ~FlushWrites /\ ~FlushFails
  <2>1. CASE sink' = sink /\ ~FlushWrites /\ ~FlushFails
    BY <2>1 DEF Queued
  <2>2. CASE sink' = <<>>
    BY <2>2 DEF Queued
  <2>3. CASE FillRecord /\ \A k \in DOMAIN sink' :
                  \/ k \in DOMAIN sink /\ sink'[k] = sink[k]
                  \/ k = Len(sink) + 1 /\ sink'[k] = <<req[Filler].res, row[Filler]>>
    <3>1. Filling(req[Filler].res) /\ pc[Filler] = "record" /\ pc'[Filler] = "idle"
      BY <2>3, ResetTo, ProcMembers DEF FillRecord, Filling
    <3> QED
      BY <2>3, <3>1 DEF Queued, FlushWrites, FlushFails, Flush
  <2>4. FlushWrites \/ FlushFails => sink' = <<>>
    BY DEF FlushWrites, FlushFails, Flush
  <2> QED
    BY <2>1, <2>2, <2>3, <2>4, SinkFrom
<1>4. ASSUME NEW r \in Res, InSnap(r)' PROVE ~Filling(r)' /\ ~Queued(r)'
  <2>1. PICK i \in DOMAIN snap' : snap'[i][1] = r
    BY <1>4 DEF InSnap
  <2>2. CASE i \in DOMAIN snap /\ snap'[i] = snap[i] /\ ~FillRow
    <3>1. ~Filling(r) /\ ~Queued(r)
      BY <1>0, <2>1, <2>2 DEF InSnap
    <3>2. ~Filling(r)'
      BY <2>2, <3>1, FillingFrom DEF Filling
    <3> QED
      BY <1>3, <3>1, <3>2
  <2>3. CASE FillPage /\ i \in DOMAIN Listing /\ stage \in {"users", "groups"} /\ snap'[i] = <<Listing[i], native[Listing[i]]>>
    <3>1. pc[Filler] = "idle" /\ pc'[Filler] = "idle" /\ sink' = sink
      BY <1>00, <2>3 DEF Rows, FillPage, procs
    <3>2. r = Listing[i] /\ (r \in Users <=> stage = "users")
      BY <2>1, <2>3, ListingIs
    <3>3. ~Queued(r)
      <4>1. CASE stage = "users"
        <5>1. sink = <<>>
          BY <4>1, InvFacts DEF Stages
        <5> QED
          BY <5>1 DEF Queued
      <4>2. CASE stage = "groups"
        <5>1. \A k \in DOMAIN sink : sink[k][1] \in Users
          BY <4>2, InvFacts DEF Stages
        <5> QED
          BY <3>2, <4>2, <5>1 DEF Queued
      <4> QED
        BY <2>3, <4>1, <4>2
    <3> QED
      BY <3>1, <3>3 DEF Filling, Queued
  <2>4. CASE (FillSkips \/ FillRow) /\ i + 1 \in DOMAIN snap /\ i + 1 # 1 /\ snap'[i] = snap[i + 1] /\ 1 \in DOMAIN snap
    <3>1. ~Filling(r) /\ ~Queued(r)
      BY <1>0, <2>1, <2>4 DEF InSnap
    <3>2. snap[1][1] # r
      BY <1>0, <2>1, <2>4
    <3>3. ~Filling(r)'
      BY <3>1, <3>2, FillingFrom DEF Filling
    <3> QED
      BY <1>3, <3>1, <3>3
  <2>5. CASE snap' = snap /\ i \in DOMAIN snap /\ FillRow
    <3>1. i + 1 \in DOMAIN snap /\ i + 1 # 1 /\ snap'[i] = snap[i + 1] /\ 1 \in DOMAIN snap
      BY <2>5, TailDoes
    <3> QED
      BY <2>4, <2>5, <3>1
  <2>6. FillPage => ~FillRow
    BY DEF FillPage, FillRow, Rows
  <2> QED
    BY <2>1, <2>2, <2>3, <2>4, <2>5, <2>6, InSnapFrom
<1>5. ASSUME NEW r \in Res, Filling(r)' PROVE ~Queued(r)'
  <2>1. CASE Filling(r)
    BY <1>0, <1>3, <1>5, <2>1 DEF Filling
  <2>2. CASE FillRow /\ 1 \in DOMAIN snap /\ snap[1][1] = r
    <3>1. ~Queued(r) /\ sink' = sink
      BY <1>0, <2>2, FillRowDoes DEF InSnap
    <3> QED
      BY <3>1 DEF Queued
  <2> QED
    BY <1>5, <2>1, <2>2, FillingFrom DEF Filling
<1> QED
  BY <1>1, <1>2, <1>4, <1>5 DEF Distinct, InSnap

-----------------------------------------------------------------------------
(* A listing only loses rows in front of a page, and gains none it had *)

LEMMA ListingFrom ==
    ASSUME Inv, [Next]_vars, NEW k \in {"users", "groups"}, NEW j \in DOMAIN (born'[k]), NEW r \in ever, born'[k][j] = r
    PROVE  \/ j \in DOMAIN born[k] /\ born[k][j] = r
           \/ j + 1 \in DOMAIN born[k] /\ born[k][j + 1] = r /\ j \in Nat
<1>0. born = [x \in {"users", "groups"} |-> born[x]] /\ born[k] \in Seq(Res)
  BY InvFacts DEF Listed, NativeLists
<1>1. CASE born' = born
  BY <1>1
<1>2. ASSUME NEW q \in Req, WritesNative(q)
      PROVE  \/ j \in DOMAIN born[k] /\ born[k][j] = r
             \/ j + 1 \in DOMAIN born[k] /\ born[k][j + 1] = r /\ j \in Nat
  <2> DEFINE x == req[q].res
             op == req[q].op
  <2>0. /\ pc[q] = "native" /\ Unanswered(q) /\ x \in Res /\ op \in Op
        /\ born' = [born EXCEPT ![Endpoint(x)] = IF op = "POST" THEN Append(born[Endpoint(x)], x)
                                            ELSE IF op = "DELETE" THEN Drop(born[Endpoint(x)], x) ELSE born[Endpoint(x)]]
        /\ native[x] = None <=> op = "POST"
    BY <1>2, NativeWhat DEF WritesNative, NativeLeg, NativeAnswerLost, NativeWrites
  <2>1. op = "POST" => x \notin ever
    BY <2>0, InvFacts DEF Asked
  <2> HIDE DEF x, op
  <2>2. CASE Endpoint(x) # k \/ op \notin {"POST", "DELETE"}
    BY <1>0, <2>0, <2>2
  <2>3. CASE Endpoint(x) = k /\ op = "POST"
    <3>1. born'[k] = Append(born[k], x)
      BY <1>0, <2>0, <2>3
    <3>2. j \in 1..(Len(born[k]) + 1) /\ (j = Len(born[k]) + 1 => born'[k][j] = x)
          /\ (j # Len(born[k]) + 1 => born'[k][j] = born[k][j] /\ j \in DOMAIN born[k])
      BY <1>0, <2>0, <3>1
    <3>3. x # r
      BY <2>1, <2>3
    <3> QED
      BY <3>2, <3>3
  <2>4. CASE Endpoint(x) = k /\ op = "DELETE"
    <3>1. born'[k] = Drop(born[k], x)
      BY <1>0, <2>0, <2>4
    <3> DEFINE at == CHOOSE i \in DOMAIN born[k] : born[k][i] = x
    <3>2. born'[k] = [i \in 1..(Len(born[k]) - 1) |-> IF i < at THEN born[k][i] ELSE born[k][i + 1]]
      BY <3>1 DEF Drop
    <3> HIDE DEF at
    <3>3. j \in 1..(Len(born[k]) - 1) /\ born'[k][j] = IF j < at THEN born[k][j] ELSE born[k][j + 1]
      BY <3>2
    <3>4. j \in DOMAIN born[k] /\ j + 1 \in DOMAIN born[k] /\ j \in Nat
      BY <1>0, <3>3
    <3> QED
      BY <3>3, <3>4
  <2> QED
    BY <2>0, <2>2, <2>3, <2>4
<1>3. born' = born \/ \E q \in Req : WritesNative(q)
  <2>1. ASSUME NEW q \in Req, Proxy(q) PROVE born' = born \/ WritesNative(q)
    BY <2>1 DEF Proxy, WritesNative, NativeRefuses, ClearGap, SkipReplace, Load, Record,
       PatchHits, PatchAnswerLost, DeleteRow, PruneMapping, PruneFails, Retire, MirrorFails, MirrorUnchanged, upstreams
  <2>2. ASSUME NEW q \in Proc, Dance(q) PROVE born' = born
    BY <2>2, DanceDoes DEF DanceFrame
  <2>3. ASSUME NEW q \in Req, NEW op, NEW x, NEW v, Receive(q, op, x, v) PROVE born' = born
    BY <2>3, ReceiveDoes DEF upstreams
  <2>4. ASSUME Backfill PROVE born' = born
    BY <2>4 DEF Backfill, StartFill, FillPage, FillPageFails, FillSkips, FillRow, FillRecord, FillFails,
       FlushWrites, FlushFails, Flush, FillUsersDone, upstreams
  <2>5. ASSUME (\E m \in Mode : SetMode(m)) \/ CleanWorkos \/ Crash \/ UNCHANGED vars PROVE born' = born
    BY <2>5, CrashDoes DEF SetMode, CleanWorkos, vars, upstreams
  <2> QED
    BY <2>1, <2>2, <2>3, <2>4, <2>5 DEF Next
<1> QED
  BY <1>1, <1>2, <1>3

LEMMA StagesStays == ASSUME Inv, [Next]_vars PROVE Stages'
<1>0. Stages /\ RowsFit
  BY InvFacts
<1>1. PICK S : snap \in Seq(S)
  BY InvFacts DEF Listed, CopiesFit
<1>2. ASSUME stage' = "off" PROVE snap' = <<>> /\ sink' = <<>>
  <2>1. CASE stage' = stage
    <3>1. snap = <<>> /\ sink = <<>>
      BY <1>0, <1>2, <2>1 DEF Stages
    <3>2. snap' = <<>>
      <4>1. DOMAIN snap = {}
        BY <3>1
      <4>2. ~FillPage /\ ~FillSkips /\ ~FillRow
        BY <1>2, <2>1 DEF FillPage, FillSkips, FillRow, Rows
      <4> QED
        BY <3>1, <4>2, SnapFrom, CrashDoes
    <3>3. ~FillRecord
      <4>1. FillRecord => pc[Filler] # "idle"
        BY DEF FillRecord
      <4> QED
        BY <1>0, <1>2, <2>1, <4>1 DEF Stages, Rows
    <3> QED
      BY <3>1, <3>2, <3>3, SinkFrom
  <2>2. CASE StartFill \/ FillPage \/ FillPageFails \/ FillUsersDone
    BY <1>2, <2>2 DEF StartFill, FillPage, FillPageFails, FillUsersDone
  <2>3. CASE Crash
    BY <2>3, CrashDoes
  <2>4. CASE FlushWrites \/ FlushFails
    BY <1>2, <2>1, <2>4, FlushEnds DEF NoneCopied
  <2> QED
    BY <2>1, <2>2, <2>3, <2>4, StageFrom
<1>3. ASSUME NEW i \in DOMAIN snap' PROVE snap'[i][1] \in ever'
  <2>1. \A k \in DOMAIN snap : snap[k][1] \in ever
    BY <1>0 DEF Stages
  <2>2. stage \in {"users", "groups"} => \A k \in DOMAIN Listing : Listing[k] \in ever
    BY ListingIs, InvFacts DEF BornFirst
  <2> QED
    BY <2>1, <2>2, InSnapFrom, EverGrows
<1>4. ASSUME NEW R \in {Users, Groups}, \A k \in DOMAIN snap : snap[k][1] \in R,
             FillPage => (stage = "users" /\ R = Users) \/ (stage = "groups" /\ R = Groups)
      PROVE  \A k \in DOMAIN snap' : snap'[k][1] \in R
  <2>1. ASSUME FillPage, NEW k \in DOMAIN Listing PROVE Listing[k] \in R
    BY <1>4, <2>1, ListingIs, KindFacts DEF Res
  <2> QED
    BY <1>4, <2>1, InSnapFrom
<1>5. CASE stage' = stage
  <2>0. FillPage => stage \in {"users", "groups"} /\ pc[Filler] = "idle"
    BY <1>0 DEF FillPage, Stages, Rows
  <2>1. stage' = "users" => sink' = <<>> /\ \A k \in DOMAIN snap' : snap'[k][1] \in Users
    <3>1. ASSUME stage = "users" PROVE sink' = sink /\ sink = <<>>
      <4>1. ~FillRecord
        <5>1. FillRecord => pc[Filler] # "idle"
          BY DEF FillRecord
        <5> QED
          BY <1>0, <3>1, <5>1 DEF Stages, Rows
      <4>2. sink = <<>>
        BY <1>0, <3>1 DEF Stages
      <4> QED
        BY <4>1, <4>2, SinkFrom
    <3> QED
      BY <1>0, <1>4, <1>5, <3>1 DEF Stages
  <2>2. stage' = "groups" => \A k \in DOMAIN snap' : snap'[k][1] \in Groups
    BY <1>0, <1>4, <1>5 DEF Stages
  <2>3. stage' \in {"users", "user-rows", "groups"} => \A k \in DOMAIN sink' : sink'[k][1] \in Users
    <3>1. ASSUME stage \in {"users", "user-rows", "groups"}, FillRecord PROVE req[Filler].res \in Users
      BY <1>0, <3>1 DEF Stages, FillRecord, Rows
    <3> QED
      BY <1>0, <1>5, <3>1, SinkFrom DEF Stages
  <2>4. stage' = "user-rows" => (\A k \in DOMAIN snap' : snap'[k][1] \in Users)
                                /\ (pc'[Filler] # "idle" => req'[Filler].res \in Users)
    <3>1. ASSUME stage = "user-rows", pc'[Filler] # "idle" PROVE req'[Filler].res \in Users
      <4>1. CASE Keeps(Filler)
        BY <1>0, <3>1, <4>1 DEF Keeps, Stages
      <4>2. CASE Dance(Filler)
        <5>1. req' = req /\ pc[Filler] # "idle"
          BY <4>2, DanceDoes, ProcMembers DEF DanceFrame, Dancing
        <5> QED
          BY <1>0, <3>1, <5>1 DEF Stages
      <4>3. CASE FillRow
        BY <1>0, <3>1, <4>3, FillRowDoes DEF Stages
      <4> QED
        BY <3>1, <4>1, <4>2, <4>3, FillerMoves
    <3> QED
      BY <1>0, <1>4, <1>5, <2>0, <3>1 DEF Stages
  <2>5. pc'[Filler] # "idle" => stage' \in Rows
    <3>1. CASE Keeps(Filler)
      BY <1>0, <1>5, <3>1 DEF Keeps, Stages
    <3>2. CASE Dance(Filler)
      <4>1. pc[Filler] # "idle"
        BY <3>2, DanceDoes, ProcMembers DEF Dancing
      <4> QED
        BY <1>0, <1>5, <4>1 DEF Stages
    <3>3. CASE FillRow
      BY <1>5, <3>3 DEF FillRow
    <3> QED
      BY <3>1, <3>2, <3>3, FillerMoves
  <2>6. ASSUME stage' \in {"users", "groups"}, NEW i \in DOMAIN snap', NEW j \in DOMAIN Listing',
               Listing'[j] = snap'[i][1]
        PROVE  j <= i
    <3>1. Listing' = born'[stage] /\ Listing = born[stage] /\ stage \in {"users", "groups"} /\ stage' = stage
      BY <1>5, <2>6 DEF Listing
    <3>2. born[stage] \in Seq(Res) /\ \A k, l \in DOMAIN born[stage] : born[stage][k] = born[stage][l] => k = l
      BY <3>1, ListingIs
    <3>22. NativeLists'
      BY InvFacts, NativeStep
    <3>23. born'[stage] \in Seq(Res)
      BY <3>1, <3>22 DEF NativeLists
    <3>24. i \in Nat /\ j \in Nat
      <4>1. \E T : snap' \in Seq(T)
        BY InvFacts, CopyStep DEF CopiesFit
      <4> QED
        BY <2>6, <3>1, <3>23, <4>1
    <3>3. CASE snap' = snap /\ i \in DOMAIN snap
      <4>1. snap[i][1] \in ever /\ born'[stage][j] = snap[i][1]
        BY <1>0, <2>6, <3>1, <3>3 DEF Stages
      <4>2. j \in DOMAIN (born'[stage])
        BY <2>6, <3>1
      <4>3. \/ j \in DOMAIN born[stage] /\ born[stage][j] = snap[i][1]
            \/ j + 1 \in DOMAIN born[stage] /\ born[stage][j + 1] = snap[i][1] /\ j \in Nat
        BY <3>1, <4>1, <4>2, ListingFrom
      <4>4. j <= i \/ j + 1 <= i
        BY <1>0, <3>1, <3>3, <4>3 DEF Stages
      <4> QED
        BY <3>24, <4>4
    <3>4. CASE FillPage
      <4>1. born' = born
        BY <3>4 DEF FillPage, upstreams
      <4>2. CASE i \in DOMAIN snap /\ snap'[i] = snap[i]
        <5>1. Listing[j] = snap[i][1] /\ j \in DOMAIN Listing
          BY <2>6, <3>1, <4>1, <4>2
        <5> QED
          BY <1>0, <3>1, <4>2, <5>1 DEF Stages
      <4>3. CASE i \in DOMAIN Listing /\ snap'[i] = <<Listing[i], native[Listing[i]]>>
        <5>1. Listing[j] = Listing[i] /\ j \in DOMAIN Listing
          BY <2>6, <3>1, <4>1, <4>3
        <5>2. j = i
          BY <3>1, <3>2, <4>3, <5>1
        <5> QED
          BY <3>24, <5>2
      <4> QED
        BY <3>4, <4>2, <4>3, PageDoes
    <3>5. ~FillSkips /\ ~FillRow
      BY <3>1 DEF FillSkips, FillRow, Rows
    <3>6. CASE Crash
      BY <3>6, CrashDoes
    <3> QED
      BY <3>3, <3>4, <3>5, <3>6, SnapFrom
  <2> QED
    BY <1>2, <1>3, <2>1, <2>2, <2>3, <2>4, <2>5, <2>6 DEF Stages
<1>6. CASE Crash
  <2>1. pc'[Filler] = "idle"
    BY <1>6, CrashDoes, ProcMembers
  <2> QED
    BY <1>2, <1>3, <1>6, <2>1, CrashDoes DEF Stages
<1>7. CASE StartFill
  <2>1. stage = "off" /\ stage' = "users" /\ UNCHANGED <<snap, sink, pc>>
    BY <1>7 DEF StartFill, procs
  <2>2. snap = <<>> /\ sink = <<>> /\ pc[Filler] = "idle"
    BY <1>0, <2>1 DEF Stages, Rows
  <2> QED
    BY <2>1, <2>2 DEF Stages
<1>8. CASE FillUsersDone
  <2>1. stage = "user-rows" /\ stage' = "groups" /\ pc[Filler] = "idle" /\ snap = <<>> /\ UNCHANGED <<snap, sink, pc>>
    BY <1>8 DEF FillUsersDone, procs
  <2>2. \A i \in DOMAIN sink : sink[i][1] \in Users
    BY <1>0, <2>1 DEF Stages
  <2> QED
    BY <2>1, <2>2 DEF Stages
<1>9. CASE (FillPage \/ FillPageFails) /\ stage' # stage
  <2>1. /\ stage \in {"users", "groups"} /\ UNCHANGED <<sink, pc, req>>
        /\ stage' = IF stage = "users" THEN "user-rows" ELSE "flush"
    BY <1>9 DEF FillPage, FillPageFails, procs
  <2>2. pc[Filler] = "idle"
    BY <1>0, <2>1 DEF Stages, Rows
  <2>3. ASSUME stage = "users" PROVE /\ \A k \in DOMAIN snap' : snap'[k][1] \in Users
                                     /\ \A i \in DOMAIN sink : sink[i][1] \in Users
    BY <1>0, <1>4, <2>3 DEF Stages
  <2> QED
    BY <1>3, <2>1, <2>2, <2>3 DEF Stages
<1>10. CASE (FlushWrites \/ FlushFails) /\ stage' # stage
  <2>1. pc'[Filler] = "idle" /\ sink' = <<>> /\ (stage' = "group-rows" \/ stage' = "off")
    BY <1>10, FlushEnds DEF NoneCopied, procs
  <2> QED
    BY <1>2, <1>3, <2>1 DEF Stages
<1> QED
  BY <1>5, <1>6, <1>7, <1>8, <1>9, <1>10, StageFrom

-----------------------------------------------------------------------------
(* What a write of native does to the copies of it *)

LEMMA CapturedIs == ASSUME NEW r PROVE r \in Captured <=> Copied(r)
<1>1. r \in {s[1] : s \in Elements(snap)} <=> InSnap(r)
  BY DEF Elements, InSnap
<1>2. r \in {s[1] : s \in Elements(sink)} <=> Queued(r)
  BY DEF Elements, Queued
<1>3. r \in (IF pc[Filler] = "idle" THEN {} ELSE {req[Filler].res}) <=> Filling(r)
  BY DEF Filling
<1> QED
  BY <1>1, <1>2, <1>3 DEF Captured, Copied

LEMMA CopyingIs ==
    ASSUME NEW g \in Groups, NEW u
    PROVE  /\ \A i \in DOMAIN snap : snap[i][1] = g /\ u \in snap[i][2] => g \in Copying(u)
           /\ Filling(g) /\ u \in req[Filler].val => g \in Copying(u)
<1>1. ASSUME NEW i \in DOMAIN snap, snap[i][1] = g, u \in snap[i][2] PROVE g \in Copying(u)
  <2>1. snap[i] \in {s \in Elements(snap) : s[1] \in Groups /\ u \in s[2]}
    BY <1>1 DEF Elements
  <2> QED
    BY <1>1, <2>1 DEF Copying
<1>2. ASSUME Filling(g), u \in req[Filler].val PROVE g \in Copying(u)
  <2>1. req[Filler].res = g /\ u \in Members(req[Filler])
    BY <1>2 DEF Filling, Members
  <2> QED
    BY <2>1 DEF Copying
<1> QED
  BY <1>1, <1>2

CopyIs(r, v) ==
    \/ Filling(r) /\ v = req[Filler].val
    \/ \E i \in DOMAIN snap : snap[i][1] = r /\ snap[i][2] = v

LEMMA CopyStands ==
    ASSUME Inv, [Next]_vars, ~NoneCopied, NEW x \in Res, NEW v, CopyIs(x, v), x \notin stale' \cup oldN'
    PROVE  native'[x] = v
<1>1. x \notin stale /\ Copied(x) /\ x \in Captured
  BY StaleGrows, CapturedIs DEF CopyIs, Copied, InSnap
<1>2. x \notin oldN
  <2>1. ASSUME NEW q \in Req, NativeLeg(q), req[q].res = x PROVE FALSE
    BY <1>1, <2>1 DEF NativeLeg, Cross
  <2> QED
    BY <2>1, OldNCause
<1>3. native[x] = v
  BY <1>1, <1>2, InvFacts DEF Copies, CopyIs, Filling
<1>4. ASSUME NEW q \in Req, WritesNative(q) PROVE native'[x] = v
  <2> DEFINE r == req[q].res
  <2>1. r # x
    <3>1. NativeLeg(q) => x # r
      BY <1>1 DEF NativeLeg, Cross
    <3>2. NativeAnswerLost(q) => x # r
      BY DEF NativeAnswerLost
    <3> QED
      BY <1>4, <3>1, <3>2 DEF WritesNative
  <2>2. native'[x] = IF req[q].op = "DELETE" THEN Off(x, native[x], r) ELSE native[x]
    BY <1>4, <2>1, NativeWhat
  <2>3. ASSUME native'[x] # native[x] PROVE FALSE
    <3>1. x \in Groups /\ r \in Users /\ native[x] # None /\ r \in native[x]
      BY <2>2, <2>3 DEF Off
    <3>2. CASE NativeLeg(q)
      <4>1. x \in Copying(r)
        BY <1>3, <3>1, CopyingIs DEF CopyIs
      <4> QED
        BY <3>2, <4>1 DEF NativeLeg, Cross
    <3>3. CASE NativeAnswerLost(q)
      BY <2>3, <3>1, <3>3 DEF NativeAnswerLost
    <3> QED
      BY <1>4, <3>2, <3>3 DEF WritesNative
  <2> QED
    BY <1>3, <2>3
<1> QED
  BY <1>3, <1>4, NativeCause

LEMMA CopiesStays == ASSUME Inv, [Next]_vars PROVE Copies'
<1>1. CASE NoneCopied
  <2>1. DOMAIN snap' = {} /\ pc'[Filler] = "idle"
    BY <1>1 DEF NoneCopied
  <2> QED
    BY <2>1 DEF Copies
<1>2. CASE ~NoneCopied
  <2>0. Kinds' /\ Stages'
    BY KindsStays, StagesStays
  <2>1. ASSUME pc'[Filler] # "idle", req'[Filler].res \notin stale' \cup oldN'
        PROVE  native'[req'[Filler].res] = req'[Filler].val
    <3> DEFINE x == req'[Filler].res
    <3>1. x \in Res
      <4>1. RowsFit'
        BY InvFacts, RowsFitStays
      <4> QED
        BY <2>1, <4>1 DEF RowsFit
    <3>2. CopyIs(x, req'[Filler].val)
      BY <2>1, <3>1, FillingFrom DEF CopyIs
    <3> QED
      BY <1>2, <2>1, <3>1, <3>2, CopyStands
  <2>2. ASSUME NEW i \in DOMAIN snap', snap'[i][1] \notin stale' \cup oldN'
        PROVE  native'[snap'[i][1]] = snap'[i][2]
    <3>0. snap'[i][1] \in Res
      <4>1. CopiesFit'
        BY InvFacts, CopyStep
      <4> QED
        BY <4>1 DEF CopiesFit
    <3>1. CASE CopyIs(snap'[i][1], snap'[i][2])
      BY <1>2, <2>2, <3>0, <3>1, CopyStands
    <3>2. CASE FillPage /\ i \in DOMAIN Listing /\ snap'[i] = <<Listing[i], native[Listing[i]]>>
      BY <3>2 DEF FillPage, upstreams
    <3> QED
      BY <3>1, <3>2, InSnapFrom DEF CopyIs
  <2> QED
    BY <2>1, <2>2 DEF Copies
<1> QED
  BY <1>1, <1>2

-----------------------------------------------------------------------------
(* Who runs across whom *)

LEMMA CopiedFrom ==
    ASSUME Inv, [Next]_vars, NEW r \in Res, Copied(r)'
    PROVE  Copied(r) \/ (FillPage /\ InSnap(r)')
<1>1. CASE InSnap(r)'
  <2>1. PICK i \in DOMAIN snap' : snap'[i][1] = r
    BY <1>1 DEF InSnap
  <2> QED
    BY <1>1, <2>1, InSnapFrom DEF Copied, InSnap
<1>2. CASE Filling(r)'
  <2>1. Filling(r) \/ (1 \in DOMAIN snap /\ snap[1][1] = r)
    BY <1>2, FillingFrom DEF Filling
  <2> QED
    BY <2>1 DEF Copied, InSnap
<1>3. CASE Queued(r)'
  <2>1. PICK i \in DOMAIN sink' : sink'[i][1] = r
    BY <1>3 DEF Queued
  <2>2. CASE i \in DOMAIN sink /\ sink'[i] = sink[i]
    BY <2>1, <2>2 DEF Copied, Queued
  <2>3. CASE FillRecord /\ sink'[i] = <<req[Filler].res, row[Filler]>>
    BY <2>1, <2>3 DEF Copied, Filling, FillRecord
  <2> QED
    BY <2>1, <2>2, <2>3, SinkFrom
<1> QED
  BY <1>1, <1>2, <1>3 DEF Copied

LEMMA NewlyBusy ==
    ASSUME Inv, [Next]_vars, NEW q \in Req, ~Busy(q), Busy(q)'
    PROVE  /\ \E rq : Cross(q, rq) /\ rq.res = req'[q].res /\ Members(rq) = Members(req'[q])
           /\ \A p \in Proc \ {q} : pc'[p] = pc[p] /\ req'[p] = req[p] /\ body'[p] = body[p]
           /\ UNCHANGED <<fill, workos, map>>
<1>0. q \in Proc /\ Ind /\ RowsFit
  BY ProcMembers, InvFacts
<1>1. CASE BeginsMirror(q) /\ SameAsk(q)
  <2>1. NativeLeg(q) /\ req' = req /\ Cross(q, req[q]) /\ pc' = [pc EXCEPT ![q] = "clear"]
        /\ UNCHANGED <<workos, tables, body, fill>>
    BY <1>1 DEF BeginsMirror, NativeLeg
  <2>2. Proxy(q)
    BY <2>1 DEF Proxy
  <2>3. MovesOnly(q)
    BY <1>0, <2>2, ProxyMoves
  <2> QED
    BY <2>1, <2>3 DEF MovesOnly, tables
<1>2. CASE BeginsDelete(q) /\ SameAsk(q)
  <2>1. NativeRefuses(q) /\ Cross(q, req[q]) /\ UNCHANGED <<upstreams, tables, fill>>
    BY <1>2 DEF BeginsDelete
  <2>2. Proxy(q)
    BY <2>1 DEF Proxy
  <2>3. MovesOnly(q)
    BY <1>0, <2>2, ProxyMoves
  <2>4. body' = body
    <3>1. ~Reset(q)
      BY <1>2, ResetTo, <1>0 DEF BeginsDelete
    <3> QED
      BY <2>1, <3>1 DEF NativeRefuses
  <2> QED
    BY <1>2, <2>1, <2>3, <2>4 DEF MovesOnly, tables, upstreams, SameAsk, Members
<1>3. ASSUME NEW op \in Op, NEW r \in Res, NEW v \in Content(r), Receive(q, op, r, v), mode = "workos-only"
      PROVE  /\ \E rq : Cross(q, rq) /\ rq.res = req'[q].res /\ Members(rq) = Members(req'[q])
             /\ \A p \in Proc \ {q} : pc'[p] = pc[p] /\ req'[p] = req[p] /\ body'[p] = body[p]
             /\ UNCHANGED <<fill, workos, map>>
  <2>1. Cross(q, req'[q]) /\ UNCHANGED <<upstreams, tables, body, row, fill, want, oldN>>
    BY <1>3, ReceiveDoes
  <2>2. MovesOnly(q)
    BY <1>0, <1>3, ReceiveMoves
  <2> QED
    BY <2>1, <2>2 DEF MovesOnly, upstreams, tables
<1> QED
  BY <1>1, <1>2, <1>3, BusyFrom

LEMMA TouchesBoth == ASSUME NEW a, NEW b PROVE Touches(a, b) <=> Touches(b, a)
BY DEF Touches

LEMMA CrossingStays == ASSUME Inv, [Next]_vars PROVE Crossing'
<1> SUFFICES ASSUME NEW q \in Req, Busy(q)'
             PROVE  /\ ~crossed'[q] => /\ \A p \in Req \ {q} : Busy(p)' => ~Touches(req[p], req[q])'
                                      /\ ~Copied(req[q].res)'
                    /\ Copied(req[q].res)' => req'[q].res \in stale'
  BY DEF Crossing
<1>00. PICK r : r = req'[q].res
  OBVIOUS
<1>0. q \in Proc /\ Req \subseteq Proc /\ crossed \in [Proc -> BOOLEAN] /\ crossed' \in [Proc -> BOOLEAN]
  BY ProcMembers, CrossedGrows, InvFacts
<1>1. ASSUME NEW p \in Req, ~Busy(p), Busy(p)'
      PROVE  /\ \A o \in Req \ {p} : Busy(o)' /\ Touches(req'[o], req'[p]) => crossed'[o] /\ crossed'[p]
             /\ \A x : x = req'[p].res /\ Copied(x)' => crossed'[p] /\ x \in stale'
  <2>0. p \in Proc
    BY ProcMembers
  <2>1. PICK rq : Cross(p, rq) /\ rq.res = req'[p].res /\ Members(rq) = Members(req'[p])
    BY <1>1, NewlyBusy
  <2>2. /\ \A o \in Proc \ {p} : pc'[o] = pc[o] /\ req'[o] = req[o] /\ body'[o] = body[o]
        /\ UNCHANGED fill
    BY <1>1, NewlyBusy
  <2>3. ASSUME NEW o \in Req \ {p}, Busy(o)', Touches(req'[o], req'[p]) PROVE crossed'[o] /\ crossed'[p]
    <3>1. Busy(o) /\ Touches(req[o], rq) /\ o \in Proc
      BY <1>0, <2>1, <2>2, <2>3 DEF Busy, Touches
    <3>2. o \in Across(p, rq)
      BY <3>1 DEF Across
    <3> QED
      BY <2>0, <2>1, <3>1, <3>2 DEF Cross
  <2>4. ASSUME NEW x, x = req'[p].res, Copied(x)' PROVE crossed'[p] /\ x \in stale'
    <3>1. /\ pc'[Filler] = pc[Filler] /\ req'[Filler] = req[Filler] /\ snap' = snap /\ sink' = sink
      BY <1>1, <2>2, ProcMembers DEF fill
    <3>2. Copied(x) /\ x = rq.res
      BY <2>1, <2>4, <3>1 DEF Copied, Filling, Queued, InSnap
    <3>3. rq.res \in Captured
      BY <3>2, CapturedIs
    <3> QED
      BY <2>0, <2>1, <3>2, <3>3 DEF Cross
  <2> QED
    BY <2>3, <2>4
<1>2. CASE ~Busy(q)
  <2>1. ASSUME NEW p \in Req \ {q}, Busy(p)', Touches(req'[p], req'[q]) PROVE crossed'[q]
    BY <1>1, <1>2, <2>1
  <2>2. Copied(r)' => crossed'[q] /\ r \in stale'
    BY <1>00, <1>1, <1>2
  <2>3. Copied(req[q].res)' <=> Copied(r)'
    BY <1>00 DEF Copied, Filling, Queued, InSnap
  <2>4. \A p \in Req : Touches(req[p], req[q])' <=> Touches(req'[p], req'[q])
    BY DEF Touches, Members
  <2> QED
    BY <1>00, <2>1, <2>2, <2>3, <2>4
<1>3. CASE Busy(q)
  <2>0. SameAsk(q) /\ r = req[q].res /\ r \in Res
    <3>1. pc[q] # "idle"
      BY <1>3 DEF Busy
    <3> QED
      BY <1>0, <1>00, <1>3, <3>1, BusyFrom, AtRes DEF SameAsk, BeginsMirror, BeginsDelete, Receive, Busy
  <2>1. crossed[q] => crossed'[q]
    BY <1>3, <1>0, CrossedGrows
  <2>2. Crossing
    BY InvFacts
  <2>3. ASSUME NEW p \in Req \ {q}, Busy(p)', Touches(req'[p], req'[q]) PROVE crossed'[q]
    <3>1. CASE ~Busy(p)
      BY <1>1, <2>3, <3>1, TouchesBoth
    <3>2. CASE Busy(p)
      <4>1. SameAsk(p)
        BY <2>3, <3>2, BusyFrom DEF BeginsMirror, BeginsDelete, Receive, Busy
      <4>2. Touches(req[p], req[q])
        BY <2>0, <2>3, <4>1 DEF SameAsk, Touches, Members
      <4> QED
        BY <1>3, <2>1, <2>2, <3>2, <4>2 DEF Crossing
    <3> QED
      BY <3>1, <3>2
  <2>4. ASSUME Copied(r)' PROVE crossed'[q] /\ r \in stale'
    <3>1. CASE Copied(r)
      <4>1. crossed'[q] /\ r \in stale
        BY <1>3, <2>0, <2>1, <2>2, <3>1, <1>0 DEF Crossing
      <4>2. ~NoneCopied
        BY <2>4 DEF NoneCopied, Copied, InSnap, Filling, Queued
      <4> QED
        BY <4>1, <4>2, StaleGrows
    <3>2. CASE FillPage /\ InSnap(r)'
      <4>1. /\ stale' = stale \cup {req[o].res : o \in Beside(snap')}
            /\ crossed' = [p \in Proc |-> crossed[p] \/ p \in Beside(snap')]
        BY <3>2 DEF FillPage
      <4>2. r \in {s[1] : s \in Elements(snap')}
        BY <3>2 DEF InSnap, Elements
      <4>3. q \in Beside(snap')
        BY <1>3, <2>0, <4>2 DEF Beside
      <4> QED
        BY <1>0, <2>0, <4>1, <4>3
    <3> QED
      BY <2>0, <2>4, <3>1, <3>2, CopiedFrom
  <2>5. Copied(req[q].res)' <=> Copied(r)'
    BY <1>00 DEF Copied, Filling, Queued, InSnap
  <2>6. \A p \in Req : Touches(req[p], req[q])' <=> Touches(req'[p], req'[q])
    BY DEF Touches, Members
  <2> QED
    BY <1>00, <2>3, <2>4, <2>5, <2>6
<1> QED
  BY <1>2, <1>3

-----------------------------------------------------------------------------
(* How a mirror ends *)

EndsWell(q) ==
    /\ ~crossed[q] /\ req[q].mode # "passthrough"
    /\ Record(q) \/ PatchHits(q) \/ PruneMapping(q) \/ Retire(q)

LEMMA EndsHow ==
    ASSUME Inv, [Next]_vars, NEW q \in Req, Busy(q), ~(Busy(q)' /\ SameAsk(q))
    PROVE  pc'[q] = "idle" /\ (req[q].res \in oldW' \/ EndsWell(q))
<1>0. q \in Proc /\ q # Filler /\ pc[q] # "idle" /\ pc[q] # "native"
  BY ProcMembers DEF Busy
<1>1. CASE Keeps(q)
  BY <1>1 DEF Keeps, Busy, SameAsk
<1>2. CASE Crash
  BY <1>0, <1>2, CrashDoes
<1>3. CASE Dance(q)
  BY <1>0, <1>3, DanceDoes DEF DanceFrame, Busy, Dancing, SameAsk
<1>4. ASSUME Arrives(q) PROVE FALSE
  BY <1>0, <1>4 DEF Arrives, Receive
<1>5. CASE Proxy(q)
  <2>1. pc'[q] = "idle"
    <3>1. CASE Load(q) /\ SameAsk(q)
      <4>1. pc'[q] \in {"delete", "put", "patch"}
        BY <3>1, LoadDoes
      <4> QED
        BY <3>1, <4>1 DEF Busy
    <3>2. CASE SameAsk(q) /\ (BeginsMirror(q) \/ BeginsDelete(q) \/ Proceeds(q) \/ Lingers(q) \/ DeleteRow(q))
      <4>1. pc'[q] \notin {"idle", "native"}
        BY <1>0, <3>2, DeleteDoes, InvFacts DEF BeginsMirror, BeginsDelete, Proceeds, Lingers
      <4> QED
        BY <3>2, <4>1 DEF Busy
    <3> QED
      BY <1>5, <3>1, <3>2, ProxySteps
  <2> DEFINE r == req[q].res
  <2>2. ASSUME NEW aside, SettleAside(q, FALSE, aside) PROVE r \in oldW'
    BY <2>2 DEF SettleAside
  <2>3. ASSUME NEW aside, SettleAside(q, TRUE, aside), crossed[q] PROVE r \in oldW'
    BY <2>3 DEF SettleAside
  <2>4. CASE SkipReplace(q) \/ PatchAnswerLost(q) \/ MirrorFails(q)
    BY <2>1, <2>2, <2>4 DEF SkipReplace, PatchAnswerLost, MirrorFails, Settle
  <2>5. CASE PruneFails(q)
    BY <2>1, <2>5 DEF PruneFails
  <2>6. CASE ClearGap(q)
    <3>1. req[q].mode = "passthrough" /\ oldW' = oldW
      BY <1>0, <2>1, <2>6, InvFacts DEF ClearGap, history
    <3> QED
      BY <2>1, <3>1, InvFacts DEF Following, Busy
  <2>7. CASE Record(q) \/ PatchHits(q) \/ PruneMapping(q) \/ Retire(q)
    <3>1. req[q].mode # "passthrough"
      BY <1>0, <2>7, InvFacts DEF Kinds, Record, PatchHits, PruneMapping, Retire
    <3>2. PruneMapping(q) => Settle(q, TRUE)
      BY <1>0, <2>1, InvFacts DEF PruneMapping
    <3>3. \E aside : SettleAside(q, TRUE, aside)
      BY <2>7, <3>2 DEF Record, PatchHits, Retire, Settle
    <3> QED
      BY <2>1, <2>3, <2>7, <3>1, <3>3 DEF EndsWell
  <2>8. ~NativeLeg(q) /\ ~NativeRefuses(q) /\ ~NativeAnswerLost(q)
    BY <1>0 DEF NativeLeg, NativeRefuses, NativeAnswerLost
  <2>9. ~Load(q) /\ ~DeleteRow(q)
    BY <1>0, <2>1, InvFacts DEF Load, DeleteRow
  <2> QED
    BY <1>5, <2>4, <2>5, <2>6, <2>7, <2>8, <2>9 DEF Proxy
<1> QED
  BY <1>0, <1>1, <1>2, <1>3, <1>4, <1>5, KeepsElse DEF Moves

(* A mirror at work on a resource was told of it, or asks for it.               *)
LEMMA RepairMeansThere ==
    ASSUME Inv, NEW q \in Req, Busy(q), ~crossed[q], req[q].op \in {"POST", "PUT"}, req[q].mode # "passthrough"
    PROVE  want[req[q].res] # None \/ (req[q].op = "POST" /\ Unanswered(q))
<1>1. req[q].mode \in Mode /\ req[q].val \in Content(req[q].res) /\ req[q].res \in Res
  BY ProcMembers, AtRes, InvFacts DEF Kinds, Busy
<1>2. CASE req[q].mode = "workos-only"
  <2>1. Unanswered(q)
    BY <1>2 DEF Unanswered
  <2> QED
    BY <2>1, InvFacts DEF Asked
<1>3. CASE req[q].mode = "dual-write"
  <2>1. want[req[q].res] = req[q].val
    BY <1>3, InvFacts DEF Following, Follows, TellsOf
  <2> QED
    BY <1>1, <2>1, ContentIsNoNone
<1> QED
  BY <1>1, <1>2, <1>3 DEF Mode

LEMMA DoomedStays ==
    ASSUME Inv, [Next]_vars, NEW u \in Users, Doomed(u), Born(u)
    PROVE  Doomed(u)'
<1>0. u \in Res /\ want'[u] = None /\ want[u] = None
  BY DeadStays, KindFacts DEF Doomed
<1>1. CASE u \in oldW
  <2>1. ASSUME NEW q \in Req, Repairs(q), req[q].res = u PROVE FALSE
    <3>1. pc[q] = "record" /\ Busy(q)
      BY <2>1 DEF Repairs, Record, Busy
    <3>2. req[q].mode # "passthrough"
      BY <3>1, InvFacts DEF Kinds
    <3>3. want[u] # None \/ (req[q].op = "POST" /\ Unanswered(q))
      BY <2>1, <3>1, <3>2, RepairMeansThere DEF Repairs
    <3> QED
      BY <1>0, <2>1, <3>3 DEF Born
  <2>2. ASSUME Queued(u), u \notin stale \cup oldN PROVE FALSE
    BY <1>0, <2>2, InvFacts DEF SinkFollows, Right, Queued
  <2>3. u \in oldW'
    BY <1>0, <1>1, <2>1, <2>2, OldWCause
  <2> QED
    BY <1>0, <2>3 DEF Doomed
<1>2. ASSUME NEW q \in Req, Busy(q), req[q].res = u, crossed[q] PROVE Doomed(u)'
  <2>1. CASE Busy(q)' /\ SameAsk(q)
    <3>1. crossed'[q] /\ req'[q].res = u
      BY <1>2, <2>1, CrossedGrows, ProcMembers DEF SameAsk
    <3> QED
      BY <1>0, <2>1, <3>1 DEF Doomed
  <2>2. CASE ~(Busy(q)' /\ SameAsk(q))
    <3>1. u \in oldW'
      BY <1>2, <2>2, EndsHow DEF EndsWell
    <3> QED
      BY <1>0, <3>1 DEF Doomed
  <2> QED
    BY <2>1, <2>2
<1> QED
  BY <1>1, <1>2 DEF Doomed

LEMMA DanglingStays == ASSUME Inv, [Next]_vars PROVE Dangling'
<1> SUFFICES ASSUME NEW g \in Groups, want'[g] # None, NEW u \in want'[g], want'[u] = None,
                    NEW q \in Req, Busy(q)', req'[q].res = u
             PROVE  crossed'[q]
  BY DEF Dangling, Busy
<1>0. /\ g \in Res /\ g \notin Users /\ u \in Users /\ u \in Res /\ u # g /\ u \notin Groups
      /\ want[g] \in (SUBSET Users) \cup {None} /\ q \in Proc
  <2>1. want'[g] \in Content(g) \cup {None}
    BY WantTyped, KindFacts
  <2> QED
    BY <2>1, KindFacts, NativeSets, ProcMembers DEF Content
<1>1. ASSUME NEW p \in Req, Tells(p), want' = Applied(want, req[p].res, req[p].op, req[p].val)
      PROVE  /\ want[u] = None
             /\ \/ want[g] # None /\ u \in want[g]
                \/ req[p].res = g /\ u \in Members(req[p]) /\ req[p].op # "DELETE"
  <2>1. ASSUME req[p].res = u
        PROVE  FALSE
    <3>1. req[p].op = "DELETE"
      BY <1>1, <2>1, TellsWhat
    <3>2. \A x \in Res \ {u} : want'[x] = Off(x, want[x], u) /\ (want'[x] = None <=> want[x] = None)
      <4>1. \A x \in Res \ {req[p].res} :
               /\ want'[x] = IF req[p].op = "DELETE" THEN Off(x, want[x], req[p].res) ELSE want[x]
               /\ want'[x] = None <=> want[x] = None
        BY <1>1, TellsWhat
      <4> QED
        BY <2>1, <3>1, <4>1
    <3>3. want'[g] = Off(g, want[g], u) /\ want[g] # None
      BY <1>0, <3>2
    <3> QED
      BY <1>0, <3>3 DEF Off
  <2>2. want[u] = None
    BY <1>0, <1>1, <2>1, TellsWhat
  <2>3. CASE req[p].res # g
    <3>1. want'[g] = (IF req[p].op = "DELETE" THEN Off(g, want[g], req[p].res) ELSE want[g]) /\ want[g] # None
      BY <1>0, <1>1, <2>3, TellsWhat
    <3> QED
      BY <2>2, <3>1 DEF Off
  <2>4. CASE req[p].res = g
    <3>1. want'[g] = (IF req[p].op = "DELETE" THEN None ELSE After(want[g], req[p].op, req[p].val))
          /\ req[p].op \in Op /\ (req[p].op = "POST" <=> want[g] = None)
      BY <1>1, <2>4, TellsWhat, TellerAsks
    <3>2. u \in req[p].val \/ (u \in want[g] /\ req[p].op \in {"ADD", "REMOVE"})
      BY <3>1, AfterFrom
    <3> QED
      BY <2>2, <2>4, <3>1, <3>2 DEF Members
  <2> QED
    BY <2>2, <2>3, <2>4
<1>2. CASE want[u] = None /\ want[g] # None /\ u \in want[g]
  <2>1. CASE Busy(q) /\ SameAsk(q)
    <3>1. crossed[q]
      BY <1>2, <2>1, InvFacts DEF Dangling, SameAsk
    <3> QED
      BY <1>0, <2>1, <3>1, CrossedGrows
  <2>2. Born(u)
    <3>1. Mentioned(u)
      BY <1>2 DEF Mentioned
    <3> QED
      BY <1>0, <3>1, InvFacts DEF BornFirst
  <2>3. ASSUME SameAsk(q), BeginsMirror(q) \/ BeginsDelete(q) PROVE FALSE
    <3>1. Unanswered(q) /\ req[q].res = u
      BY <2>3 DEF BeginsMirror, BeginsDelete, Unanswered, SameAsk
    <3> QED
      BY <1>2, <2>2, <3>1, InvFacts DEF Asked, Born
  <2>4. ASSUME NEW op \in Op, NEW r \in Res, NEW v \in Content(r), Receive(q, op, r, v) PROVE FALSE
    <3>1. r = u /\ Legal(op, r, v)
      BY <2>4, ReceiveDoes
    <3> QED
      BY <1>2, <2>2, <3>1 DEF Legal, Born
  <2> QED
    BY <2>1, <2>3, <2>4, BusyFrom
<1>3. ASSUME NEW p \in Req, Tells(p), want' = Applied(want, req[p].res, req[p].op, req[p].val),
             req[p].res = g, u \in Members(req[p]), req[p].op # "DELETE", want[u] = None
      PROVE  crossed'[q]
  <2>0. Mentioned(u) /\ Born(u) /\ p \in Proc
    <3>1. Mentioned(u)
      BY <1>3, ProcMembers DEF Mentioned
    <3> QED
      BY <1>0, <3>1, InvFacts, ProcMembers DEF BornFirst
  <2>1. CASE Busy(q) /\ SameAsk(q)
    <3>1. q # p /\ Touches(req[q], req[p]) /\ Touches(req[p], req[q])
      BY <1>0, <1>3, <2>1 DEF SameAsk, Touches
    <3>2. CASE NativeLeg(p)
      <4>1. Cross(p, req[p]) /\ q \in Across(p, req[p])
        BY <1>0, <2>1, <3>1, <3>2 DEF NativeLeg, Across
      <4> QED
        BY <1>0, <3>1, <4>1 DEF Cross
    <3>3. CASE Concludes(p)
      <4>1. crossed[q]
        BY <2>1, <3>1, <3>3, InvFacts DEF Crossing, Concludes
      <4> QED
        BY <1>0, <2>1, <4>1, CrossedGrows
    <3> QED
      BY <1>3, <3>2, <3>3 DEF Tells
  <2>3. ASSUME SameAsk(q), BeginsMirror(q) \/ BeginsDelete(q) PROVE FALSE
    <3>1. Unanswered(q) /\ req[q].res = u
      BY <2>3 DEF BeginsMirror, BeginsDelete, Unanswered, SameAsk
    <3> QED
      BY <1>3, <2>0, <3>1, InvFacts DEF Asked, Born
  <2>4. ASSUME NEW op \in Op, NEW r \in Res, NEW v \in Content(r), Receive(q, op, r, v) PROVE FALSE
    <3>1. r = u /\ Legal(op, r, v)
      BY <2>4, ReceiveDoes
    <3> QED
      BY <1>3, <2>0, <3>1 DEF Legal, Born
  <2> QED
    BY <2>1, <2>3, <2>4, BusyFrom
<1>4. CASE want' = want
  BY <1>2, <1>4
<1> QED
  BY <1>1, <1>2, <1>3, <1>4, WantCause

-----------------------------------------------------------------------------
(* What a group that nobody writes goes on naming *)

LEMMA RowLost ==
    ASSUME Inv, [Next]_vars, ~CleanWorkos, NEW u \in Users, NEW w \in RowsOf(u), workos[w] # None, workos'[w] = None
    PROVE  \E q \in Req : Strikes(q) /\ row[q] = w
<1>0. u \in Res /\ w \in Row /\ u \notin Groups
  BY RowFacts, KindFacts
<1>1. PICK p \in Proc : WritesRow(p)
  BY RowsCause
<1>2. CASE Dance(p)
  <2>1. \/ workos' = workos
        \/ workos' = [workos EXCEPT ![row'[p]] = body[p]]
    BY <1>2, DanceDoes
  <2>2. body[p] # None
    BY <1>2, BodyThere, DanceDoes
  <2> QED
    BY <1>0, <2>1, <2>2, InvFacts
<1>3. CASE p \in Req /\ (PatchHits(p) \/ PatchAnswerLost(p))
  <2>1. /\ pc[p] = "patch" /\ req[p].res \in Res /\ row[p] \in RowsOf(req[p].res)
        /\ workos' = [workos EXCEPT ![row[p]] = After(workos[row[p]], req[p].op, body[p])]
    BY <1>3, PatchDoes
  <2>2. row[p] = w
    BY <1>0, <2>1, InvFacts
  <2>3. req[p].res = u
    BY <1>0, <2>1, <2>2, KindFacts
  <2>4. req[p].op = "PATCH" /\ body[p] # None
    <3>1. req[p].op \in {"PATCH", "ADD", "REMOVE"} /\ req[p].op \notin {"ADD", "REMOVE"}
      BY <1>3, <2>1, <2>3, InvFacts, PatchDoes DEF Listed, AsksFit
    <3> QED
      BY <2>1, <3>1, BodyThere
  <2>5. workos'[w] = body[p]
    BY <1>0, <2>1, <2>2, <2>4, InvFacts DEF After
  <2> QED
    BY <2>4, <2>5
<1>4. CASE p \in Req /\ DeleteRow(p)
  <2>1. req[p].res \in Res /\ row[p] \in RowsOf(req[p].res) /\ workos' = WorkosDeletes(row[p])
    BY <1>4, DeleteDoes
  <2>2. CASE row[p] = w
    <3>1. req[p].res = u
      BY <1>0, <2>1, <2>2, KindFacts
    <3>2. workos'[w] = IF workos[w] # None /\ Retains /\ u \in Users THEN "inactive" ELSE None
      BY <1>0, <2>1, <2>2, InvFacts, DeletedRows
    <3>3. ~Retains
      BY <3>2, NoneAssumption DEF Flag
    <3> QED
      BY <1>4, <2>2, <3>1, <3>3 DEF Strikes
  <2>3. CASE row[p] # w
    <3>1. \A s \in Res : \A x \in RowsOf(s) \ {row[p]} :
             s \notin Groups => WorkosDeletes(row[p])[x] = workos[x]
      <4>1. \A s \in Res : \A x \in RowsOf(s) \ {row[p]} :
               WorkosDeletes(row[p])[x] = IF workos[row[p]] # None /\ ~Retains /\ req[p].res \in Users /\ s \in Groups
                                             /\ workos[x] # None
                                          THEN workos[x] \ {row[p]} ELSE workos[x]
        BY <2>1, InvFacts, DeletedRows
      <4> QED
        BY <4>1
    <3> QED
      BY <1>0, <2>1, <2>3, <3>1
  <2> QED
    BY <2>2, <2>3
<1> QED
  BY <1>1, <1>2, <1>3, <1>4 DEF WritesRow

(* A user gets another id in WorkOS: the groups that name it are set aside, and *)
(* those who carry it as a member are crossed.                                  *)
LEMMA Renamed ==
    ASSUME Inv, [Next]_vars, NEW u \in Users, want'[u] # None, Translate(map, u)' # Translate(map, u)
    PROVE  /\ \A p \in Proc : u \in Members(req[p]) => crossed'[p]
           /\ \A g \in Groups : want[g] # None /\ u \in want[g] =>
                g \in oldW' /\ ~(Queued(g)' /\ g \notin stale')
<1>0. u \in Res
  BY KindFacts
<1>1. ASSUME NEW q \in Req, Record(q), map' = [map EXCEPT ![req[q].res] = row[q]]
      PROVE  /\ \A p \in Proc : u \in Members(req[p]) => crossed'[p]
             /\ \A g \in Groups : want[g] # None /\ u \in want[g] =>
                  g \in oldW' /\ ~(Queued(g)' /\ g \notin stale')
  <2>1. req[q].res = u /\ map'[u] = row[q]
    BY <1>0, <1>1, InvFacts DEF Translate
  <2>2. row[q] # Translate(map, u)
    <3>1. row[q] # None
      BY <1>0, <1>1, <2>1, InvFacts, ProcMembers, RowFacts DEF RowsFit, Early, Record
    <3> QED
      BY <2>1, <3>1 DEF Translate
  <2>3. \A p \in Proc : u \in Members(req[p]) => crossed'[p]
    BY <1>1, <2>1, <2>2 DEF Record, Rename, Translate
  <2>4. Moved(u, row[q]) = GroupsOf(u)
    BY <2>2 DEF Moved
  <2>5. GroupsOf(u) \subseteq oldW' /\ stale' = stale \cup (GroupsOf(u) \cap {s[1] : s \in Elements(sink)}) /\ sink' = sink
    BY <1>1, <2>1, <2>4 DEF Record, SettleAside, fill
  <2>6. \A g \in Groups : want[g] # None /\ u \in want[g] => g \in oldW' /\ ~(Queued(g)' /\ g \notin stale')
    BY <2>5 DEF GroupsOf, Queued, Elements
  <2> QED
    BY <2>3, <2>6
<1>2. ASSUME NEW q \in Req, PruneMapping(q), map' = [map EXCEPT ![req[q].res] = None]
      PROVE  FALSE
  <2>1. req[q].res = u
    BY <1>0, <1>2, InvFacts DEF Translate
  <2>2. Busy(q) /\ req[q].op = "DELETE" /\ pc[q] = "prune" /\ pc[q] # "idle"
    BY <1>2, InvFacts DEF Kinds, PruneMapping, Busy
  <2>3. CASE req[q].mode = "workos-only"
    <3>1. ~req[q].absent
      BY <2>2, <2>3, InvFacts DEF AbsentDeletes
    <3>2. want' = Applied(want, u, "DELETE", req[q].val)
      BY <1>2, <2>1, <2>2, <2>3, <3>1 DEF PruneMapping, Settle, SettleAside
    <3> QED
      BY <1>0, <3>2, InvFacts, AppliedIs
  <2>4. CASE req[q].mode # "workos-only"
    <3>1. want[u] = None /\ Born(u)
      BY <2>1, <2>2, <2>4, InvFacts DEF Asked
    <3> QED
      BY <1>0, <3>1, DeadStays
  <2> QED
    BY <2>3, <2>4
<1>3. ASSUME FlushWrites, map' = [r \in Res |-> IF Queued(r) THEN SinkRow(r) ELSE map[r]]
      PROVE  /\ \A p \in Proc : u \in Members(req[p]) => crossed'[p]
             /\ \A g \in Groups : want[g] # None /\ u \in want[g] =>
                  g \in oldW' /\ ~(Queued(g)' /\ g \notin stale')
  <2>1. Queued(u) /\ map'[u] = SinkRow(u)
    BY <1>0, <1>3 DEF Translate
  <2>2. SinkRow(u) # None
    <3>1. \E i \in DOMAIN sink : sink[i][1] = u
      BY <2>1 DEF Queued
    <3>2. (CHOOSE i \in DOMAIN sink : sink[i][1] = u) \in DOMAIN sink
          /\ sink[CHOOSE i \in DOMAIN sink : sink[i][1] = u][1] = u
      BY <3>1
    <3>3. SinkRow(u) \in RowsOf(u)
      BY <3>2, InvFacts DEF RowsFit, SinkRow
    <3> QED
      BY <1>0, <3>3, RowFacts
  <2>3. SinkRow(u) # Translate(map, u)
    BY <2>1, <2>2 DEF Translate
  <2> DEFINE renamed == {r \in {y \in Res : Queued(y)} : TRUE /\ SinkRow(r) # Translate(map, r)}
  <2>4. u \in renamed
    BY <1>0, <2>1, <2>3
  <2>5. /\ crossed' = [p \in Proc |-> crossed[p] \/ renamed \cap Members(req[p]) # {}]
        /\ UNION {GroupsOf(r) : r \in renamed} \subseteq oldW'
        /\ sink' = <<>>
    BY <1>3 DEF FlushWrites, Flush
  <2>6. \A p \in Proc : u \in Members(req[p]) => crossed'[p]
    BY <2>4, <2>5
  <2>7. \A g \in Groups : want[g] # None /\ u \in want[g] => g \in oldW'
    BY <2>4, <2>5 DEF GroupsOf
  <2>8. \A g \in Groups : ~Queued(g)'
    BY <2>5 DEF Queued
  <2> QED
    BY <2>6, <2>7, <2>8
<1> QED
  BY <1>1, <1>2, <1>3, MapCause

LEMMA PruningStays ==
    ASSUME Inv, [Next]_vars, NEW u \in Users, Pruning(u)
    PROVE  \/ Pruning(u)' \/ want'[u] = None
           \/ NoneCopied /\ (\A p \in Proc : pc'[p] = "idle")
              /\ \A g \in Groups : want[g] # None /\ u \in want[g] => g \in oldW'
<1>1. PICK q \in Req : pc[q] = "prune" /\ req[q].mode = "workos-only" /\ req[q].res = u
  BY DEF Pruning
<1>0. u \in Res /\ q \in Proc
  BY KindFacts, ProcMembers
<1>2. CASE Keeps(q)
  BY <1>1, <1>2 DEF Keeps, Pruning
<1>3. CASE Crash
  BY <1>0, <1>1, <1>3, CrashDoes, ProcMembers DEF NoneCopied, GroupsOf
<1>4. CASE Proxy(q)
  <2>0. (want' = Applied(want, u, "DELETE", req[q].val)) => want'[u] = None
    BY <1>0, InvFacts, AppliedIs
  <2>1. req[q].op = "DELETE" /\ ~req[q].absent
    BY <1>1, InvFacts DEF Kinds, AbsentDeletes
  <2>2. CASE PruneMapping(q)
    BY <1>1, <2>0, <2>1, <2>2 DEF PruneMapping, Settle, SettleAside
  <2>3. CASE PruneFails(q)
    <3>1. want' = Applied(want, u, "DELETE", None)
      BY <1>1, <2>3 DEF PruneFails
    <3> QED
      BY <1>0, <3>1, InvFacts, AppliedIs
  <2> QED
    BY <1>1, <1>4, <2>2, <2>3 DEF Proxy, NativeLeg, NativeRefuses, NativeAnswerLost, ClearGap, SkipReplace, Load,
       Record, PatchHits, PatchAnswerLost, DeleteRow, Retire, MirrorFails, Misses, Fails
<1>5. CASE Dance(q)
  BY <1>0, <1>1, <1>5, DanceDoes DEF Dancing
<1>6. ~Arrives(q) /\ q # Filler
  BY <1>1, ProcMembers DEF Arrives, Receive
<1> QED
  BY <1>0, <1>2, <1>3, <1>4, <1>5, <1>6, KeepsElse DEF Moves

LEMMA NewlyDead ==
    ASSUME Inv, [Next]_vars, NEW u \in Users, want[u] # None, want'[u] = None, u \notin oldN', ~Doomed(u)'
    PROVE  Resting(u) /\ ~Copied(u) /\ u \notin oldW /\ workos' = workos
<1>0. u \in Res
  BY KindFacts
<1>1. PICK q \in Req : Tells(q) /\ want' = Applied(want, req[q].res, req[q].op, req[q].val)
  BY WantCause
<1>2. req[q].res = u
  <2>1. \A x \in Res \ {req[q].res} : want'[x] = None <=> want[x] = None
    BY <1>1, TellsWhat
  <2> QED
    BY <1>0, <2>1
<1>3. req[q].op = "DELETE" /\ q \in Proc
  <2>1. req[q].op # "DELETE" => want'[req[q].res] # None
    BY <1>1, TellsWhat
  <2> QED
    BY <1>2, <2>1, ProcMembers
<1>4. CASE NativeLeg(q)
  <2>1. pc' = [pc EXCEPT ![q] = "clear"] /\ req' = req /\ Cross(q, req[q]) /\ workos' = workos /\ oldW \subseteq oldW'
    BY <1>4 DEF NativeLeg
  <2>2. Busy(q)' /\ (req[q].res)' = u
    BY <1>2, <1>3, <2>1, InvFacts DEF Busy
  <2>3. ~crossed'[q] /\ u \notin oldW'
    BY <2>2 DEF Doomed
  <2>4. Across(q, req[q]) = {} /\ u \notin Captured
    BY <1>2, <1>3, <2>1, <2>3 DEF Cross
  <2>5. ~Copied(u)
    BY <2>4, CapturedIs
  <2>6. Resting(u)
    <3> SUFFICES ASSUME NEW p \in Req, Busy(p), req[p].res = u PROVE FALSE
      BY DEF Resting
    <3>1. p # q
      BY <1>4 DEF NativeLeg, Busy
    <3>2. p \in Across(q, req[q])
      BY <1>2, <3>1 DEF Across, Touches
    <3> QED
      BY <2>4, <3>2
  <2> QED
    BY <2>1, <2>3, <2>5, <2>6
<1>5. CASE NativeRefuses(q)
  <2>1. native[u] = None /\ oldN' = oldN
    BY <1>2, <1>3, <1>5 DEF NativeRefuses, NativeAccepts
  <2>2. u \in oldN
    BY <2>1, InvFacts DEF NativeAgrees
  <2> QED
    BY <2>1, <2>2
<1>6. CASE Concludes(q)
  BY <1>2, <1>6 DEF Concludes
<1> QED
  BY <1>1, <1>4, <1>5, <1>6 DEF Tells

(* A group's row goes on standing for what the IdP was told as long as nobody   *)
(* writes it and nothing that is set aside happens to it.                       *)
Kept(g) ==
    \/ g \notin oldW'
    \/ Queued(g)' /\ g \notin stale'
    \/ Filling(g)' /\ ~crossed'[Filler] /\ g \notin stale' \cup oldN'

LEMMA KeptNames ==
    ASSUME Inv, [Next]_vars, NEW g \in Groups, Kept(g), want[g] # None, NEW u \in want[g], want'[u] # None
    PROVE  Translate(map, u)' = Translate(map, u)
<1>0. u \in Users /\ g \in Res
  <2>1. want[g] \in (SUBSET Users) \cup {None}
    BY NativeSets
  <2> QED
    BY <2>1, KindFacts
<1>1. SUFFICES ASSUME Translate(map, u)' # Translate(map, u) PROVE FALSE
  OBVIOUS
<1>2. /\ \A p \in Proc : u \in Members(req[p]) => crossed'[p]
      /\ g \in oldW' /\ ~(Queued(g)' /\ g \notin stale')
  BY <1>0, <1>1, Renamed
<1>3. Filling(g)' /\ ~crossed'[Filler] /\ g \notin stale' \cup oldN'
  BY <1>2 DEF Kept
<1>4. pc'[Filler] # "idle" /\ req'[Filler].res = g
  BY <1>3 DEF Filling
<1>5. CASE Filling(g)
  <2>1. g \notin stale
    BY <1>3, <1>4, StaleGrows DEF NoneCopied
  <2>2. g \notin oldN
    <3>1. ASSUME NEW q \in Req, NativeLeg(q), req[q].res = g PROVE FALSE
      <4>1. g \in Captured
        BY <1>5, CapturedIs DEF Copied
      <4> QED
        BY <1>3, <3>1, <4>1 DEF NativeLeg, Cross
    <3> QED
      BY <1>0, <1>3, <3>1, OldNCause
  <2>3. native[g] = req[Filler].val
    BY <1>5, <2>1, <2>2, InvFacts DEF Copies, Filling
  <2>4. u \in req[Filler].val
    BY <2>2, <2>3, InvFacts DEF NativeAgrees
  <2>5. u \in Members(req[Filler])
    BY <1>5, <2>4 DEF Members, Filling
  <2> QED
    BY <1>2, <1>3, <2>5, ProcMembers
<1>6. CASE ~Filling(g)
  <2>1. FillRow
    BY <1>0, <1>4, <1>6, FillingFrom
  <2>2. map' = map
    BY <2>1, FillRowDoes DEF tables
  <2> QED
    BY <1>1, <2>2 DEF Translate
<1> QED
  BY <1>5, <1>6

LEMMA FitsUserStays ==
    ASSUME Inv, [Next]_vars, NEW g \in Groups, NEW w \in RowsOf(g), workos[w] # None, want[g] # None,
           NEW u \in Users, FitsUser(g, workos[w], u), Kept(g), ~CleanWorkos,
           \A q \in Req : Tells(q) => req[q].res # g,
           \A p \in Proc : WritesRow(p) => req[p].res # g
    PROVE  FitsUser(g, workos[w], u)'
<1>0. u \in Res /\ g \in Res /\ g # u /\ want[g] \in SUBSET Users /\ g \notin Users
  <2>1. want[g] \in (SUBSET Users) \cup {None}
    BY NativeSets
  <2> QED
    BY <2>1, KindFacts
<1>1. /\ workos'[w] \subseteq workos[w]
      /\ \A x \in workos[w] \ workos'[w] : \E q \in Req : Strikes(q) /\ x = row[q]
      /\ \A q \in Req : Strikes(q) => row[q] \notin workos'[w]
  <2>1. ASSUME NEW q \in Req, Strikes(q) PROVE row[q] \notin workos'[w]
    <3>1. /\ req[q].res \in Res /\ req[q].res \in Users /\ row[q] \in RowsOf(req[q].res) /\ workos' = WorkosDeletes(row[q])
          /\ ~Retains /\ workos[row[q]] # None /\ req[q].res # g
      BY <1>0, <2>1, DeleteDoes DEF Strikes
    <3>2. w # row[q]
      BY <1>0, <3>1, KindFacts
    <3>3. workos'[w] = workos[w] \ {row[q]}
      <4>1. \A s \in Res : \A x \in RowsOf(s) \ {row[q]} :
               WorkosDeletes(row[q])[x] = IF workos[row[q]] # None /\ ~Retains /\ req[q].res \in Users /\ s \in Groups
                                             /\ workos[x] # None
                                          THEN workos[x] \ {row[q]} ELSE workos[x]
        BY <3>1, InvFacts, DeletedRows
      <4> QED
        BY <1>0, <3>1, <3>2, <4>1
    <3> QED
      BY <3>3
  <2>2. \/ \A x \in RowsOf(g) : workos'[x] = workos[x]
        \/ \E q \in Req : Strikes(q) /\ \A x \in RowsOf(g) :
              workos'[x] = IF workos[x] = None THEN None ELSE workos[x] \ {row[q]}
    BY <1>0, RowsElse
  <2> QED
    BY <2>1, <2>2
<1>2. \/ want'[g] = want[g]
      \/ \E d \in Users : want'[g] = want[g] \ {d} /\ want'[d] = None
  <2>1. ASSUME NEW q \in Req, Tells(q), want' = Applied(want, req[q].res, req[q].op, req[q].val)
        PROVE  \/ want'[g] = want[g]
               \/ \E d \in Users : want'[g] = want[g] \ {d} /\ want'[d] = None
    <3>1. \A x \in Res \ {req[q].res} : want'[x] = IF req[q].op = "DELETE" THEN Off(x, want[x], req[q].res) ELSE want[x]
      BY <2>1, TellsWhat
    <3>2. req[q].op = "DELETE" => want'[req[q].res] = None
      BY <2>1, TellsWhat
    <3>3. req[q].res # g
      BY <2>1
    <3> QED
      BY <1>0, <3>1, <3>2, <3>3 DEF Off
  <2> QED
    BY <2>1, WantCause
<1>3. ~Born(u) => u \notin want[g] /\ In(u, workos[w]) = {}
  BY InvFacts DEF BornFirst, Mentioned
<1>4. In(u, workos'[w]) \subseteq In(u, workos[w])
  BY <1>1 DEF In
<1>5. u \in want'[g] => u \in want[g] /\ (want'[u] # None \/ Doomed(u)')
  <2>0. SUFFICES ASSUME u \in want'[g], want'[u] = None PROVE u \in want[g] /\ Doomed(u)'
    BY <1>2
  <2>1. u \in want[g] /\ Born(u)
    BY <1>2, <1>3, <2>0
  <2>2. want[u] = None
    <3>1. ASSUME want[u] # None PROVE FALSE
      <4>1. PICK q \in Req : Tells(q) /\ want' = Applied(want, req[q].res, req[q].op, req[q].val)
        BY <2>0, <3>1, WantCause
      <4>2. \A x \in Res \ {req[q].res} :
              /\ want'[x] = IF req[q].op = "DELETE" THEN Off(x, want[x], req[q].res) ELSE want[x]
              /\ want'[x] = None <=> want[x] = None
        BY <4>1, TellsWhat
      <4>3. req[q].res = u
        BY <1>0, <2>0, <3>1, <4>2
      <4>4. req[q].op = "DELETE"
        BY <2>0, <4>1, <4>3, TellsWhat
      <4>5. want'[g] = Off(g, want[g], u)
        BY <1>0, <4>2, <4>3, <4>4
      <4> QED
        BY <1>0, <2>0, <4>5 DEF Off
    <3> QED
      BY <3>1
  <2>3. Doomed(u)
    BY <2>1, <2>2 DEF FitsUser
  <2> QED
    BY <2>1, <2>3, DoomedStays
<1>6. ASSUME want'[u] # None
      PROVE  /\ u \in want'[g] => Pruning(u)' \/ In(u, workos'[w]) = {Translate(map, u)'}
             /\ u \notin want'[g] => In(u, workos'[w]) = {}
  <2>1. CASE ~Born(u)
    BY <1>3, <1>4, <1>5, <2>1
  <2>2. CASE Born(u)
    <3>1. want[u] # None
      BY <1>0, <1>6, <2>2, DeadStays
    <3>2. u \in want'[g] <=> u \in want[g]
      BY <1>2, <1>6
    <3>3. u \notin want'[g] => In(u, workos'[w]) = {}
      BY <1>4, <3>1, <3>2 DEF FitsUser
    <3>4. ASSUME u \in want[g], Pruning(u) PROVE Pruning(u)'
      <4>1. ASSUME NoneCopied, \A p \in Proc : pc'[p] = "idle", g \in oldW' PROVE FALSE
        <5>1. ~Queued(g)'
          BY <4>1 DEF NoneCopied, Queued
        <5>2. ~Filling(g)'
          BY <4>1, ProcMembers DEF Filling
        <5> QED
          BY <4>1, <5>1, <5>2 DEF Kept
      <4>2. \/ Pruning(u)' \/ want'[u] = None
            \/ NoneCopied /\ (\A p \in Proc : pc'[p] = "idle")
               /\ \A h \in Groups : want[h] # None /\ u \in want[h] => h \in oldW'
        BY <3>4, PruningStays
      <4> QED
        BY <1>6, <3>4, <4>1, <4>2
    <3>5. ASSUME u \in want[g], ~Pruning(u) PROVE Pruning(u)' \/ In(u, workos'[w]) = {Translate(map, u)'}
      <4>1. In(u, workos[w]) = {Translate(map, u)} /\ Translate(map, u)' = Translate(map, u)
        BY <1>6, <3>1, <3>5, KeptNames DEF FitsUser
      <4>2. CASE Translate(map, u) \in workos'[w]
        BY <1>4, <4>1, <4>2 DEF In
      <4>3. CASE Translate(map, u) \notin workos'[w]
        <5>1. PICK q \in Req : Strikes(q) /\ row[q] = Translate(map, u)
          BY <1>1, <4>1, <4>3 DEF In
        <5>2. /\ pc[q] = "delete" /\ req[q].res \in Res /\ row[q] \in RowsOf(req[q].res)
              /\ q \in Proc /\ pc' = [pc EXCEPT ![q] = "prune"] /\ req[q].op = "DELETE" /\ req' = req
          BY <5>1, DeleteDoes DEF Strikes
        <5>3. req[q].res = u
          BY <1>0, <5>1, <5>2, KindFacts, TranslateFits, InvFacts
        <5>4. req[q].mode = "workos-only"
          BY <3>1, <5>2, <5>3, InvFacts DEF Asked, Busy
        <5>5. pc'[q] = "prune"
          BY <5>2, InvFacts
        <5> QED
          BY <5>2, <5>3, <5>4, <5>5 DEF Pruning
      <4> QED
        BY <4>2, <4>3
    <3> QED
      BY <3>2, <3>3, <3>4, <3>5
  <2> QED
    BY <2>1, <2>2
<1>7. ASSUME want'[u] = None, ~Doomed(u)', u \notin oldN', NEW x \in In(u, workos'[w])
      PROVE  x \in Standing(u)'
  <2>1. Born(u) /\ x \in In(u, workos[w]) /\ x \in RowsOf(u)
    BY <1>3, <1>4, <1>7 DEF In
  <2>2. x \in Standing(u)
    <3>1. CASE want[u] = None
      <4>1. ~Doomed(u)
        BY <1>7, <2>1, DoomedStays
      <4>2. u \notin oldN
        <5>1. ASSUME NEW q \in Req, NativeLeg(q), req[q].res = u, req[q].op \in {"POST", "PUT", "DELETE"} PROVE FALSE
          <6>1. Unanswered(q)
            BY <5>1 DEF NativeLeg, Unanswered
          <6> QED
            BY <2>1, <3>1, <5>1, <6>1, InvFacts DEF Asked, Born
        <5> QED
          BY <1>0, <1>7, <5>1, OldNCause
      <4> QED
        BY <2>1, <3>1, <4>1, <4>2 DEF FitsUser
    <3>2. CASE want[u] # None
      <4>1. Resting(u) /\ ~Copied(u) /\ u \notin oldW
        BY <1>7, <3>2, NewlyDead
      <4>2. Standing(u) = {map[u]}
        BY <1>0, <3>2, <4>1, InvFacts DEF Holding, Mapped
      <4>3. Translate(map, u) = map[u]
        <5>1. map[u] # None
          BY <1>0, <4>2, RowFacts, StandingIs
        <5> QED
          BY <5>1 DEF Translate
      <4>4. ~Pruning(u)
        BY <4>1 DEF Pruning, Resting, Busy
      <4> QED
        BY <2>1, <3>2, <4>2, <4>3, <4>4 DEF FitsUser
    <3> QED
      BY <3>1, <3>2
  <2>3. workos'[x] # None
    <3>1. ASSUME workos'[x] = None PROVE FALSE
      <4>1. PICK q \in Req : Strikes(q) /\ row[q] = x
        BY <2>1, <2>2, <3>1, RowLost, StandingIs
      <4> QED
        BY <1>1, <1>7, <4>1 DEF In
    <3> QED
      BY <3>1
  <2> QED
    BY <2>1, <2>3 DEF Standing, RowsOf
<1> QED
  BY <1>5, <1>6, <1>7 DEF FitsUser

-----------------------------------------------------------------------------
(* What a mirror that ended well leaves in WorkOS *)

LEMMA WritesMove ==
    ASSUME Inv, NEW p \in Proc, WritesRow(p) PROVE pc'[p] # pc[p]
<1>1. CASE Dance(p)
  BY <1>1, InvFacts DEF Dance, PutHits, PutMisses, PostCreates, PostConflicts, Reput, Lookup, Sync
<1>2. CASE p \in Req /\ (PatchHits(p) \/ PatchAnswerLost(p))
  BY <1>2, PatchDoes, ResetTo
<1>3. CASE p \in Req /\ DeleteRow(p)
  BY <1>3, DeleteDoes, InvFacts
<1> QED
  BY <1>1, <1>2, <1>3 DEF WritesRow

LEMMA RightStays ==
    ASSUME Inv, [Next]_vars, NEW r \in Res, NEW w \in RowsOf(r), workos[w] # None, Right(r, w), Kept(r), ~CleanWorkos,
           \A q \in Req : Tells(q) => req[q].res # r,
           \A p \in Proc : WritesRow(p) => req[p].res # r
    PROVE  Right(r, w)'
<1>1. want'[r] # None
  BY NullStays DEF Right
<1>2. CASE r \in Users
  <2>1. workos'[w] = workos[w]
    <3>1. \A x \in RowsOf(r) : workos'[x] = workos[x]
      BY <1>2, KindFacts, RowsElse
    <3> QED
      BY <3>1
  <2>2. want'[r] = want[r]
    <3>1. ASSUME NEW q \in Req, Tells(q), want' = Applied(want, req[q].res, req[q].op, req[q].val)
          PROVE  want'[r] = want[r]
      <4>1. \A x \in Res \ {req[q].res} : want'[x] = IF req[q].op = "DELETE" THEN Off(x, want[x], req[q].res) ELSE want[x]
        BY <3>1, TellsWhat
      <4>2. r \notin Groups /\ req[q].res # r
        BY <1>2, <3>1, KindFacts
      <4> QED
        BY <4>1, <4>2 DEF Off
    <3> QED
      BY <3>1, WantCause
  <2> QED
    BY <1>1, <1>2, <2>1, <2>2 DEF Right
<1>3. CASE r \notin Users
  <2>1. r \in Groups
    BY <1>3 DEF Res
  <2>2. ASSUME NEW u \in Users PROVE FitsUser(r, workos[w], u)'
    BY <1>3, <2>1, FitsUserStays DEF Right, Fits
  <2> QED
    BY <1>1, <1>3, <2>2 DEF Right, Fits
<1> QED
  BY <1>2, <1>3

(* What an uncrossed mirror asks for is what the IdP ends up being told.       *)
LEMMA RecordHolds ==
    ASSUME Inv, [Next]_vars, NEW q \in Req, Record(q), ~crossed[q], NEW r, r = req[q].res
    PROVE  Mapped(r)' /\ Right(r, map[r])'
<1> DEFINE v == req[q].val
<1>0. /\ pc[q] = "record" /\ Busy(q) /\ q \in Proc /\ r \in Res /\ v \in Content(r)
      /\ req[q].op \in {"POST", "PUT"} /\ req[q].mode \in Mode /\ req[q].mode # "passthrough"
      /\ row[q] \in RowsOf(r) /\ workos' = workos /\ map' = [map EXCEPT ![r] = row[q]]
      /\ SettleAside(q, TRUE, Moved(r, row[q])) /\ req[q].op # "PATCH"
  <2>1. pc[q] = "record" /\ q \in Proc
    BY ProcMembers DEF Record
  <2>2. req[q].mode \in Mode /\ req[q].mode # "passthrough" /\ req[q].op \in {"POST", "PUT"}
    BY <2>1, InvFacts DEF Kinds, Dancing
  <2> QED
    BY <2>1, <2>2, AtRes DEF Busy, Early, Record, Rename, upstreams
<1>1. Follows(q)
  BY <1>0, InvFacts DEF Following
<1>2. want'[r] = v /\ \A x \in Res \ {r} : want'[x] = want[x]
  <2>1. CASE req[q].mode = "workos-only"
    <3>1. want' = Applied(want, r, req[q].op, v)
      BY <1>0, <2>1 DEF SettleAside
    <3>2. /\ Applied(want, r, req[q].op, v)[r] = After(want[r], req[q].op, v)
          /\ \A x \in Res \ {r} : Applied(want, r, req[q].op, v)[x] = want[x]
      <4>1. /\ Applied(want, r, req[q].op, v)[r] =
                 IF req[q].op = "DELETE" THEN None ELSE After(want[r], req[q].op, v)
            /\ \A x \in Res \ {r} : Applied(want, r, req[q].op, v)[x] =
                 IF req[q].op = "DELETE" THEN Off(x, want[x], r) ELSE want[x]
        BY <1>0, InvFacts, AppliedIs
      <4> QED
        BY <1>0, <4>1
    <3> QED
      BY <1>0, <3>1, <3>2 DEF After
  <2>2. CASE req[q].mode = "dual-write"
    BY <1>0, <1>1, <2>2 DEF SettleAside, Follows, TellsOf
  <2> QED
    BY <1>0, <2>1, <2>2 DEF Mode
<1>3. v # None
  BY <1>0, ContentIsNoNone
<1>4. Standing(r)' = {row[q]} /\ workos'[row[q]] = body[q] /\ map'[r] = row[q]
  BY <1>0, <1>1, InvFacts DEF Follows, Standing
<1>5. Mapped(r)'
  BY <1>2, <1>3, <1>4 DEF Mapped
<1>6. CASE r \in Users
  BY <1>0, <1>1, <1>2, <1>3, <1>4, <1>5, <1>6 DEF Right, Follows, BodyRight, Dancing
<1>7. CASE r \notin Users
  <2>0. r \in Groups /\ v \in SUBSET Users
    BY <1>0, <1>7 DEF Res, Content
  <2>1. PICK c : c = body[q]
    OBVIOUS
  <2>2. /\ c \subseteq UNION {RowsOf(u) : u \in v}
        /\ \A u \in v : In(u, c) = {Translate(map, u)} /\ (want[u] # None \/ Doomed(u))
    BY <1>0, <1>1, <1>7, <2>1 DEF Follows, BodyRight, Dancing
  <2>3. ASSUME NEW u \in Users PROVE FitsUser(r, c, u)'
    <3>1. u \in Res /\ want'[u] = want[u] /\ Translate(map, u)' = Translate(map, u)
      BY <1>0, <1>2, <1>7, KindFacts, InvFacts DEF Translate
    <3>2. CASE u \in v
      <4>1. Born(u)
        <5>1. Mentioned(u)
          BY <1>0, <2>0, <3>2 DEF Mentioned, Members
        <5> QED
          BY <5>1, InvFacts DEF BornFirst
      <4>2. want'[u] # None \/ Doomed(u)'
        BY <2>2, <3>1, <3>2, <4>1, DoomedStays
      <4>3. In(u, c) = {Translate(map, u)'}
        BY <2>2, <3>1, <3>2
      <4>4. u \in want'[r]
        BY <1>2, <3>2
      <4> QED
        BY <4>2, <4>3, <4>4 DEF FitsUser
    <3>3. CASE u \notin v
      <4>1. In(u, c) = {}
        <5> SUFFICES ASSUME NEW x \in c, x \in RowsOf(u) PROVE FALSE
          BY DEF In
        <5>1. PICK y \in v : x \in RowsOf(y)
          BY <2>2
        <5> QED
          BY <2>0, <3>1, <3>3, <5>1, KindFacts
      <4>2. u \notin want'[r]
        BY <1>2, <3>3
      <4> QED
        BY <4>1, <4>2 DEF FitsUser
    <3> QED
      BY <3>2, <3>3
  <2> QED
    BY <1>2, <1>3, <1>4, <1>5, <1>7, <2>1, <2>3 DEF Right, Fits
<1> QED
  BY <1>6, <1>7

LEMMA PatchHolds ==
    ASSUME Inv, [Next]_vars, NEW q \in Req, PatchHits(q), ~crossed[q], NEW r, r = req[q].res, r \notin oldW
    PROVE  Mapped(r)' /\ Right(r, map[r])'
<1> DEFINE v == req[q].val
           op == req[q].op
<1>0. /\ pc[q] = "patch" /\ Busy(q) /\ q \in Proc /\ r \in Res /\ v \in Content(r)
      /\ op \in {"PATCH", "ADD", "REMOVE"} /\ req[q].mode \in Mode /\ req[q].mode # "passthrough"
      /\ row[q] \in RowsOf(r) /\ row[q] \in Row /\ workos[row[q]] # None /\ map' = map /\ crossed' = crossed
      /\ workos' = [workos EXCEPT ![row[q]] = After(workos[row[q]], op, body[q])]
      /\ Settle(q, TRUE) /\ Reset(q) /\ op # "DELETE"
  <2>1. pc[q] = "patch" /\ q \in Proc
    BY ProcMembers DEF PatchHits
  <2>2. req[q].mode \in Mode /\ req[q].mode # "passthrough" /\ op \in {"PATCH", "ADD", "REMOVE"}
    BY <2>1, InvFacts DEF Kinds
  <2>3. /\ req[q].res \in Res /\ row[q] \in RowsOf(req[q].res) /\ workos[row[q]] # None
        /\ workos' = [workos EXCEPT ![row[q]] = After(workos[row[q]], req[q].op, body[q])]
        /\ UNCHANGED <<native, born, tables, fill, crossed, stale, held, ever, wrote>> /\ Reset(q)
    BY PatchDoes
  <2>4. v \in Content(r)
    BY <2>1, AtRes
  <2> QED
    BY <2>1, <2>2, <2>3, <2>4, RowFacts DEF Busy, PatchHits, tables
<1>1. Follows(q)
  BY <1>0, InvFacts DEF Following
<1>2. BeforePatch(q) /\ row[q] = map[r] /\ BodyRight(q)
  BY <1>0, <1>1 DEF Follows
<1>3. want[r] # None
  <2>1. CASE req[q].mode = "workos-only"
    BY <1>0, <2>1, InvFacts DEF Asked, Unanswered
  <2>2. CASE req[q].mode = "dual-write"
    <3>1. v # None
      BY <1>0, ContentIsNoNone
    <3> QED
      BY <1>0, <1>1, <2>2, <3>1 DEF Follows, TellsOf
  <2> QED
    BY <1>0, <2>1, <2>2 DEF Mode
<1>4. /\ \A x \in Res \ {r} : want'[x] = want[x]
      /\ \/ want'[r] = After(want[r], op, v)
         \/ /\ want'[r] = want[r]
            /\ op = "PATCH" => want[r] = v
            /\ op = "ADD" => v \subseteq want[r]
            /\ op = "REMOVE" => v \cap want[r] = {}
      /\ oldN \subseteq oldN'
  <2>0. oldN \subseteq oldN'
    BY <1>0 DEF Settle, SettleAside
  <2>1. CASE req[q].mode = "workos-only"
    <3>1. want' = Applied(want, r, op, v)
      BY <1>0, <2>1 DEF Settle, SettleAside
    <3>2. /\ Applied(want, r, op, v)[r] = IF op = "DELETE" THEN None ELSE After(want[r], op, v)
          /\ \A x \in Res \ {r} : Applied(want, r, op, v)[x] = IF op = "DELETE" THEN Off(x, want[x], r) ELSE want[x]
      BY <1>0, InvFacts, AppliedIs
    <3> QED
      BY <1>0, <2>0, <3>1, <3>2
  <2>2. CASE req[q].mode = "dual-write"
    <3>1. want' = want
      BY <1>0, <2>2 DEF Settle, SettleAside
    <3>2. TellsOf(q)
      BY <1>1 DEF Follows
    <3> QED
      BY <1>0, <2>0, <2>2, <3>1, <3>2 DEF TellsOf
  <2> QED
    BY <1>0, <2>1, <2>2 DEF Mode
<1>5. want'[r] # None
  <2>1. \A x \in Req : Tells(x) => req[x].res = r \/ req[x].res # r
    OBVIOUS
  <2>2. CASE want'[r] = want[r]
    BY <1>3, <2>2
  <2>3. CASE want'[r] = After(want[r], op, v)
    <3>1. v # None
      BY <1>0, ContentIsNoNone
    <3>2. op \in {"ADD", "REMOVE"} => r \in Groups
      <4>1. r \in Users => op \notin {"ADD", "REMOVE"}
        BY <1>0, InvFacts DEF Listed, AsksFit
      <4> QED
        BY <1>0, <4>1 DEF Res
    <3>3. op \in {"ADD", "REMOVE"} => After(want[r], op, v) \in SUBSET Users
      <4>1. r \in Groups => want[r] \in SUBSET Users /\ v \in SUBSET Users
        BY <1>0, <1>3, NativeSets DEF Content
      <4> QED
        BY <3>2, <4>1 DEF After
    <3>4. op = "PATCH" => After(want[r], op, v) = v
      BY DEF After
    <3> QED
      <4>1. \A S \in SUBSET Users : S # None
        BY NoneAssumption DEF Row, Res
      <4> QED
        BY <1>0, <2>3, <3>1, <3>3, <3>4, <4>1
  <2> QED
    BY <1>4, <2>2, <2>3
<1>6. /\ \A x \in Row \ {row[q]} : workos'[x] = workos[x]
      /\ workos'[row[q]] = After(workos[row[q]], op, body[q]) /\ workos'[row[q]] # None
  <2>1. workos'[row[q]] = After(workos[row[q]], op, body[q]) /\ \A x \in Row \ {row[q]} : workos'[x] = workos[x]
    BY <1>0, InvFacts
  <2>2. body[q] # None /\ IF r \in Users THEN body[q] \in Flag ELSE body[q] \subseteq UserRows
    BY <1>0, BodyThere
  <2>3. workos'[row[q]] # None
    <3>1. CASE op = "PATCH"
      BY <2>1, <2>2, <3>1 DEF After
    <3>2. CASE op \in {"ADD", "REMOVE"}
      <4>1. r \in Groups
        BY <1>0, <3>2, InvFacts DEF Listed, AsksFit, Res
      <4>2. workos[row[q]] \subseteq Row /\ body[q] \subseteq Row
        <5>1. UserRows \subseteq Row
          BY RowFacts, KindFacts DEF UserRows
        <5>2. workos[row[q]] \subseteq UserRows
          BY <1>0, <4>1, InvFacts DEF Kinds
        <5>3. r \notin Users
          BY <4>1, KindFacts
        <5> QED
          BY <2>2, <5>1, <5>2, <5>3
      <4>3. After(workos[row[q]], op, body[q]) \in SUBSET Row
        BY <3>2, <4>2 DEF After
      <4> QED
        BY <2>1, <4>3, NoneAssumption
    <3> QED
      BY <1>0, <3>1, <3>2
  <2> QED
    BY <2>1, <2>3
<1>7. Standing(r)' = {row[q]} /\ map'[r] = row[q]
  <2>1. Standing(r) = {row[q]} /\ map'[r] = row[q]
    BY <1>0, <1>2 DEF BeforePatch
  <2>2. \A w \in RowsOf(r) : w \in Row
    BY <1>0, RowFacts
  <2> QED
    BY <1>0, <1>6, <2>1, <2>2 DEF Standing, RowsOf
<1>8. Mapped(r)'
  BY <1>5, <1>7 DEF Mapped
<1>9. CASE r \in Users
  <2>1. op = "PATCH"
    BY <1>0, <1>9, InvFacts DEF Listed, AsksFit
  <2>2. want'[r] = v
    BY <1>4, <2>1 DEF After
  <2>3. workos'[row[q]] = v
    BY <1>0, <1>2, <1>6, <1>9, <2>1 DEF After, BodyRight
  <2> QED
    BY <1>5, <1>7, <1>8, <1>9, <2>2, <2>3 DEF Right
<1>10. CASE r \notin Users
  <2>0. r \in Groups /\ v \in SUBSET Users
    BY <1>0, <1>10 DEF Res, Content
  <2>1. PICK c : c = workos'[row[q]]
    OBVIOUS
  <2>2. /\ body[q] \subseteq UNION {RowsOf(u) : u \in v}
        /\ \A u \in v : In(u, body[q]) = {Translate(map, u)} /\ (want[u] # None \/ Doomed(u))
    BY <1>2, <1>10 DEF BodyRight
  <2>3. ASSUME NEW u \in Users PROVE FitsUser(r, c, u)'
    <3>1. u \in Res /\ u # r /\ want'[u] = want[u] /\ Translate(map, u)' = Translate(map, u)
      BY <1>0, <1>4, <1>10, KindFacts DEF Translate
    <3>2. /\ op = "PATCH" => In(u, c) = In(u, body[q])
          /\ op = "ADD" => In(u, c) = In(u, workos[row[q]]) \cup In(u, body[q])
          /\ op = "REMOVE" => In(u, c) = In(u, workos[row[q]]) \ In(u, body[q])
      BY <1>6, <2>1 DEF After, In
    <3>3. CASE u \in v
      <4>1. Born(u)
        <5>1. Mentioned(u)
          BY <1>0, <2>0, <3>3 DEF Mentioned, Members
        <5> QED
          BY <5>1, InvFacts DEF BornFirst
      <4>2. want'[u] # None \/ Doomed(u)'
        BY <2>2, <3>1, <3>3, <4>1, DoomedStays
      <4>3. u \in want'[r] <=> op # "REMOVE"
        BY <1>0, <1>4, <3>3 DEF After
      <4>4. ASSUME want'[u] # None
            PROVE  In(u, c) = IF op = "REMOVE" THEN {} ELSE {Translate(map, u)'}
        <5>1. In(u, body[q]) = {Translate(map, u)}
              /\ (op # "PATCH" => In(u, workos[row[q]]) \subseteq {Translate(map, u)})
          BY <1>2, <1>10, <2>0, <2>2, <3>1, <3>3, <4>4 DEF BeforePatch
        <5> QED
          BY <1>0, <3>1, <3>2, <5>1
      <4>5. want'[u] = None => Doomed(u)'
        BY <4>2
      <4> QED
        BY <4>2, <4>3, <4>4, <4>5 DEF FitsUser
    <3>4. CASE u \notin v
      <4>1. In(u, body[q]) = {}
        <5> SUFFICES ASSUME NEW x \in body[q], x \in RowsOf(u) PROVE FALSE
          BY DEF In
        <5>1. PICK y \in v : x \in RowsOf(y)
          BY <2>2
        <5> QED
          BY <2>0, <3>1, <3>4, <5>1, KindFacts
      <4>2. CASE op = "PATCH"
        <5>1. In(u, c) = {} /\ u \notin want'[r]
          BY <1>4, <3>2, <3>4, <4>1, <4>2 DEF After
        <5> QED
          BY <5>1 DEF FitsUser
      <4>3. CASE op \in {"ADD", "REMOVE"}
        <5>1. In(u, c) = In(u, workos[row[q]]) /\ (u \in want'[r] <=> u \in want[r])
          BY <1>4, <3>2, <3>4, <4>1, <4>3 DEF After
        <5>2. FitsUser(r, workos[row[q]], u)
          BY <1>2, <2>0, <3>4, <4>3 DEF BeforePatch
        <5>3. u \in want[r] \/ In(u, workos[row[q]]) # {} => Born(u)
          BY <1>0, <1>3, <2>0, InvFacts DEF BornFirst, Mentioned
        <5>4. Born(u) /\ Doomed(u) => Doomed(u)'
          BY DoomedStays
        <5>5. Pruning(u) => Pruning(u)'
          <6> SUFFICES ASSUME NEW p \in Req, pc[p] = "prune", req[p].mode = "workos-only", req[p].res = u
                       PROVE  pc'[p] = "prune" /\ req'[p] = req[p]
            BY DEF Pruning
          <6>1. p # q /\ p \in Proc
            BY <1>0, ProcMembers
          <6> QED
            BY <1>0, <6>1, ResetTo
        <5>6. Standing(u)' = Standing(u)
          <6>1. \A w \in RowsOf(u) : w \in Row \ {row[q]}
            BY <1>0, <3>1, RowFacts, KindFacts
          <6> QED
            BY <1>6, <6>1, StandingIs DEF Standing, RowsOf
        <5>7. want'[u] # None => (u \in want'[r] => Pruning(u)' \/ In(u, c) = {Translate(map, u)'})
                                 /\ (u \notin want'[r] => In(u, c) = {})
          BY <3>1, <5>1, <5>2, <5>5 DEF FitsUser
        <5>8. u \in want'[r] => want'[u] # None \/ Doomed(u)'
          BY <3>1, <5>1, <5>2, <5>3, <5>4 DEF FitsUser
        <5>9. want'[u] = None /\ ~Doomed(u)' /\ u \notin oldN' => In(u, c) \subseteq Standing(u)'
          BY <1>4, <3>1, <5>1, <5>2, <5>3, <5>4, <5>6 DEF FitsUser
        <5> QED
          BY <5>7, <5>8, <5>9 DEF FitsUser
      <4> QED
        BY <1>0, <4>2, <4>3
    <3> QED
      BY <3>3, <3>4
  <2> QED
    BY <1>5, <1>7, <1>8, <1>10, <2>1, <2>3 DEF Right, Fits
<1> QED
  BY <1>9, <1>10

LEMMA MapElse ==
    ASSUME Inv, [Next]_vars, NEW r \in Res, ~(FlushWrites /\ Queued(r)),
           \A q \in Req : Record(q) \/ PruneMapping(q) => req[q].res # r
    PROVE  map'[r] = map[r]
<1>1. ASSUME NEW q \in Req, Record(q) \/ PruneMapping(q), NEW w, map' = [map EXCEPT ![req[q].res] = w]
      PROVE  map'[r] = map[r]
  BY <1>1, InvFacts
<1>2. CASE FlushWrites /\ map' = [x \in Res |-> IF Queued(x) THEN SinkRow(x) ELSE map[x]]
  BY <1>2
<1> QED
  BY <1>1, <1>2, MapCause

LEMMA LeftStays ==
    ASSUME Inv, [Next]_vars, NEW r \in Res, Left(r), ~CleanWorkos, \A p \in Proc : WritesRow(p) => req[p].res # r
    PROVE  Left(r)'
<1>1. Retains' = Retains /\ Standing(r)' = Standing(r)
  BY RowsElse, GapStep, InvFacts DEF setting, Retains
<1>2. ASSUME NEW w \in Standing(r), r \in Users PROVE workos'[w] = workos[w]
  <2>1. \A x \in RowsOf(r) : workos'[x] = workos[x]
    BY <1>2, RowsElse, KindFacts
  <2> QED
    BY <2>1, StandingIs
<1> QED
  BY <1>1, <1>2 DEF Left

LEMMA DeleteHolds ==
    ASSUME Inv, [Next]_vars, NEW q \in Req, pc'[q] = "idle", PruneMapping(q) \/ Retire(q), ~crossed[q],
           NEW r, r = req[q].res, r \notin oldW
    PROVE  r \in Res /\ want'[r] = None /\ map'[r] = None /\ Left(r)'
<1>0. /\ pc[q] \in {"prune", "retire"} /\ Busy(q) /\ q \in Proc /\ r \in Res /\ req[q].op = "DELETE"
      /\ req[q].mode \in {"dual-write", "workos-only"} /\ workos' = workos /\ site' = site
  <2>1. pc[q] \in {"prune", "retire"} /\ q \in Proc /\ workos' = workos /\ site' = site
    BY ProcMembers DEF PruneMapping, Retire, upstreams, setting
  <2>2. req[q].mode \in Mode /\ req[q].mode # "passthrough" /\ req[q].op = "DELETE"
    BY <2>1, InvFacts DEF Kinds
  <2> QED
    BY <2>1, <2>2, AtRes DEF Busy, Mode
<1>1. Follows(q)
  BY <1>0, InvFacts DEF Following
<1>2. Left(r) /\ (Retire(q) => map[r] = None)
  BY <1>0, <1>1 DEF Follows, Retire
<1>3. Settle(q, TRUE)
  BY <1>0, InvFacts DEF PruneMapping, Retire
<1>4. want'[r] = None
  <2>1. CASE req[q].mode = "workos-only"
    <3>1. want' = Applied(want, r, "DELETE", req[q].val)
      BY <1>0, <1>3, <2>1 DEF Settle, SettleAside
    <3> QED
      BY <1>0, <3>1, InvFacts, AppliedIs
  <2>2. CASE req[q].mode = "dual-write"
    BY <1>0, <1>1, <1>3, <2>2 DEF Settle, SettleAside, Follows, TellsOf
  <2> QED
    BY <1>0, <2>1, <2>2
<1>5. map'[r] = None
  BY <1>0, <1>2, InvFacts DEF PruneMapping, Retire
<1>6. Left(r)'
  BY <1>0, <1>2 DEF Left, Standing, Retains
<1> QED
  BY <1>0, <1>4, <1>5, <1>6

LEMMA FlushHolds ==
    ASSUME Inv, [Next]_vars, FlushWrites, NEW r \in Res, Queued(r), r \notin oldW'
    PROVE  Mapped(r)' /\ Right(r, map[r])'
<1>0. UNCHANGED procs /\ workos' = workos /\ ~CleanWorkos /\ want' = want
      /\ map' = [x \in Res |-> IF Queued(x) THEN SinkRow(x) ELSE map[x]]
  <2>1. UNCHANGED procs /\ workos' = workos /\ spent' = spent /\ want' = want
        /\ map' = [x \in Res |-> IF TRUE /\ x \in {y \in Res : Queued(y)} THEN SinkRow(x) ELSE map[x]]
    BY DEF FlushWrites, Flush, upstreams
  <2>2. oldW \cup Res # oldW'
    OBVIOUS
  <2> QED
    BY <2>1, <2>2 DEF CleanWorkos
<1>1. r \notin stale \cup oldN
  BY DEF FlushWrites, Flush
<1>2. DEFINE i == CHOOSE i \in DOMAIN sink : sink[i][1] = r
<1>3. i \in DOMAIN sink /\ sink[i][1] = r /\ SinkRow(r) = sink[i][2]
  BY DEF Queued, SinkRow
<1>4. Standing(r) = {SinkRow(r)} /\ Right(r, SinkRow(r)) /\ map'[r] = SinkRow(r) /\ SinkRow(r) \in RowsOf(r)
  <2>1. Standing(sink[i][1]) = {sink[i][2]} /\ Right(sink[i][1], sink[i][2]) /\ sink[i][2] \in RowsOf(sink[i][1])
    BY <1>1, <1>3, InvFacts DEF SinkFollows, RowsFit
  <2>2. map'[r] = SinkRow(r)
    BY <1>0
  <2> QED
    BY <1>3, <2>1, <2>2
<1>5. \A q \in Req : ~Tells(q)
  BY <1>0, TellerAsks DEF procs, Unanswered, Busy
<1>6. \A p \in Proc : ~WritesRow(p)
  BY <1>0, WritesMove DEF procs
<1>7. PICK w \in RowsOf(r) : w = SinkRow(r)
  BY <1>4
<1>8. Right(r, w)'
  <2>1. workos[w] # None /\ Right(r, w)
    BY <1>4, <1>7, StandingIs
  <2> QED
    BY <1>0, <1>5, <1>6, <2>1, RightStays DEF Kept
<1>9. map'[r] = w
  BY <1>4, <1>7
<1>10. Right(r, map[r])'
  BY <1>8, <1>9
<1>11. Mapped(r)'
  <2>1. Standing(r)' = Standing(r)
    BY <1>0 DEF Standing
  <2> QED
    BY <1>4, <1>8, <1>9, <2>1 DEF Mapped, Right
<1> QED
  BY <1>10, <1>11

LEMMA TakenFrom ==
    ASSUME Inv, [Next]_vars, NEW r \in Res, r \notin oldW', Filling(r) \/ Queued(r),
           ~(FlushWrites /\ Queued(r))
    PROVE  Filling(r)' \/ Queued(r)'
<1>1. CASE Filling(r)
  <2>0. pc[Filler] # "idle" /\ req[Filler].res = r /\ Filler \in Proc
    BY <1>1, ProcMembers DEF Filling
  <2>1. CASE Keeps(Filler)
    BY <2>0, <2>1 DEF Keeps, Filling
  <2>2. CASE Dance(Filler)
    <3>1. pc'[Filler] \in Dancing /\ req' = req
      BY <2>0, <2>2, DanceDoes DEF DanceFrame
    <3> QED
      BY <2>0, <3>1 DEF Filling, Dancing
  <2>3. CASE FillRecord
    <3>1. \E i \in DOMAIN sink' : sink'[i] = <<req[Filler].res, row[Filler]>>
      <4>1. sink' # sink
        <5>1. PICK S : sink \in Seq(S)
          BY InvFacts DEF Ind, Typed
        <5>2. sink' = Append(sink, <<req[Filler].res, row[Filler]>>)
          BY <2>3 DEF FillRecord
        <5>3. Len(sink) \in Nat /\ DOMAIN sink = 1..Len(sink) /\ DOMAIN sink' = 1..(Len(sink) + 1)
          BY <5>1, <5>2
        <5> QED
          BY <5>3
      <4>2. sink' # <<>>
        BY <2>3, QueueGrows, InvFacts DEF FillRecord, Ind, Typed
      <4> QED
        BY <4>1, <4>2, SinkFrom
    <3> QED
      BY <2>0, <3>1 DEF Queued
  <2>4. ~FillFails
    BY <2>0 DEF FillFails
  <2>5. ~Crash
    <3>1. pc[Filler] # "native"
      BY <2>0, InvFacts DEF Kinds, Dancing
    <3> QED
      BY <2>0, <3>1, CrashDoes DEF Busy
  <2>6. ~FillRow
    BY <2>0 DEF FillRow
  <2> QED
    BY <2>1, <2>2, <2>3, <2>4, <2>5, <2>6, FillerMoves
<1>2. CASE Queued(r)
  <2>1. PICK i \in DOMAIN sink : sink[i][1] = r
    BY <1>2 DEF Queued
  <2>2. CASE i \in DOMAIN sink' /\ sink'[i] = sink[i]
    BY <2>1, <2>2 DEF Queued
  <2>3. ~FlushFails
    BY <1>2 DEF FlushFails, Flush
  <2>4. ~Crash
    BY <2>1, CrashDoes
  <2> QED
    BY <1>2, <2>1, <2>2, <2>3, <2>4, SinkFrom
<1> QED
  BY <1>1, <1>2

LEMMA HoldingStays == ASSUME Inv, [Next]_vars PROVE Holding'
<1> SUFFICES ASSUME NEW r \in Res, r \notin oldW', Resting(r)'
             PROVE  /\ Mapped(r)'
                    /\ ~Filling(r)' /\ ~Queued(r)' => IF want'[r] = None THEN Left(r)' ELSE Right(r, map[r])'
  BY DEF Holding
<1>0. ~CleanWorkos
  BY DEF CleanWorkos
<1>1. CASE FlushWrites /\ Queued(r)
  BY <1>1, FlushHolds DEF Right
<1>2. ASSUME NEW q \in Req, Busy(q), req[q].res = r, ~(FlushWrites /\ Queued(r))
      PROVE  /\ Mapped(r)'
             /\ ~Filling(r)' /\ ~Queued(r)' => IF want'[r] = None THEN Left(r)' ELSE Right(r, map[r])'
  <2>1. ~(Busy(q)' /\ SameAsk(q))
    BY <1>2 DEF Resting, SameAsk, Busy
  <2>2. pc'[q] = "idle" /\ EndsWell(q)
    BY <1>2, <2>1, EndsHow
  <2>3. CASE Record(q)
    BY <1>2, <2>2, <2>3, RecordHolds DEF EndsWell, Right
  <2>4. CASE ~Record(q)
    <3>1. r \notin oldW
      <4>1. ASSUME NEW p \in Req, Repairs(p), req[p].res = r PROVE FALSE
        <5>1. p # q /\ Busy(p) /\ Touches(req[p], req[q])
          BY <1>2, <2>4, <4>1 DEF Repairs, Record, Busy, Touches
        <5> QED
          BY <1>2, <2>2, <5>1, InvFacts DEF Crossing, EndsWell
      <4> QED
        BY <1>2, <4>1, OldWCause
    <3>2. CASE PatchHits(q)
      BY <1>2, <2>2, <3>1, <3>2, PatchHolds DEF EndsWell, Right
    <3>3. CASE PruneMapping(q) \/ Retire(q)
      <4>1. want'[r] = None /\ map'[r] = None /\ Left(r)'
        BY <1>2, <2>2, <3>1, <3>3, DeleteHolds DEF EndsWell
      <4> QED
        BY <4>1 DEF Mapped
    <3> QED
      BY <2>2, <2>4, <3>2, <3>3 DEF EndsWell
  <2> QED
    BY <2>3, <2>4
<1>3. CASE Resting(r) /\ ~(FlushWrites /\ Queued(r))
  <2>1. r \notin oldW
    <3>1. ASSUME NEW p \in Req, Repairs(p), req[p].res = r PROVE FALSE
      BY <1>3, <3>1 DEF Repairs, Record, Busy, Resting
    <3> QED
      BY <1>3, <3>1, OldWCause
  <2>2. /\ Mapped(r)
        /\ ~Filling(r) /\ ~Queued(r) => IF want[r] = None THEN Left(r) ELSE Right(r, map[r])
    BY <1>3, <2>1, InvFacts DEF Holding
  <2>3. ASSUME NEW q \in Req, Tells(q), req[q].res = r PROVE FALSE
    <3>0. q \in Proc
      BY ProcMembers
    <3>1. ASSUME Busy(q)', req'[q].res = r PROVE FALSE
      BY <3>1 DEF Resting, Busy
    <3>2. CASE NativeLeg(q)
      <4>1. pc' = [pc EXCEPT ![q] = "clear"] /\ req' = req
        BY <3>2 DEF NativeLeg
      <4> QED
        BY <2>3, <3>0, <3>1, <4>1, InvFacts DEF Busy
    <3>3. CASE NativeRefuses(q) /\ req[q].op = "DELETE"
      <4>1. CASE req[q].mode = "dual-write"
        <5>1. /\ pc' = [pc EXCEPT ![q] = "load"] /\ req' = [req EXCEPT ![q] = [@ EXCEPT !.absent = TRUE]]
          BY <3>3, <4>1 DEF NativeRefuses
        <5>2. pc'[q] = "load" /\ req'[q] = [req[q] EXCEPT !.absent = TRUE]
          BY <3>0, <5>1, InvFacts
        <5>3. req'[q].res = req[q].res
          BY <5>2, InvFacts DEF Requests
        <5> QED
          BY <2>3, <3>1, <5>2, <5>3 DEF Busy
      <4>2. CASE req[q].mode # "dual-write"
        BY <2>3, <3>3, <4>2 DEF NativeRefuses
      <4> QED
        BY <4>1, <4>2
    <3>4. CASE Concludes(q)
      BY <1>3, <2>3, <3>4 DEF Concludes, Resting
    <3> QED
      BY <2>3, <3>2, <3>3, <3>4 DEF Tells
  <2>4. ASSUME NEW p \in Proc, WritesRow(p), req[p].res = r PROVE p = Filler /\ Filling(r) /\ Dance(Filler)
    <3>1. pc[p] \notin {"idle", "native"} /\ p \in Req \cup {Filler}
      <4>1. Dance(p) => pc[p] \in Dancing
        BY DanceDoes
      <4>2. p \in Req /\ (PatchHits(p) \/ PatchAnswerLost(p)) => pc[p] = "patch"
        BY PatchDoes
      <4>3. p \in Req /\ DeleteRow(p) => pc[p] = "delete"
        BY DeleteDoes
      <4> QED
        BY <2>4, <4>1, <4>2, <4>3 DEF WritesRow, Dancing, Proc
    <3>2. p \notin Req
      BY <1>3, <2>4, <3>1 DEF Resting, Busy
    <3> QED
      BY <2>4, <3>1, <3>2 DEF WritesRow, Filling
  <2>5. map'[r] = map[r]
    <3>1. ASSUME NEW q \in Req, Record(q) \/ PruneMapping(q), req[q].res = r PROVE FALSE
      BY <1>3, <3>1 DEF Record, PruneMapping, Resting, Busy
    <3> QED
      BY <1>3, <3>1, MapElse
  <2>6. want'[r] = None <=> want[r] = None
    BY <2>3, NullStays
  <2>7. ASSUME want[r] # None PROVE Standing(r)' = Standing(r)
    <3>1. CASE Dance(Filler) /\ Filling(r)
      <4>1. CASE workos' = workos
        BY <4>1 DEF Standing
      <4>2. CASE workos' # workos
        <5>1. pc'[Filler] = "record" /\ Filler \in Proc /\ req[Filler].res = r
          BY <3>1, <4>2, DanceDoes, ProcMembers DEF Filling
        <5>2. Standing(r)' = {row'[Filler]} /\ (Standing(r) # {} => Standing(r) = {row'[Filler]})
          BY <3>1, <5>1, DanceWrites
        <5>3. Standing(r) # {}
          BY <2>2, <2>7 DEF Mapped
        <5> QED
          BY <5>2, <5>3
      <4> QED
        BY <4>1, <4>2
    <3>2. CASE ~(Dance(Filler) /\ Filling(r))
      BY <1>0, <2>4, <3>2, RowsElse
    <3> QED
      BY <3>1, <3>2
  <2>8. Mapped(r)'
    BY <2>2, <2>5, <2>6, <2>7 DEF Mapped
  <2>9. ASSUME ~Filling(r)', ~Queued(r)'
        PROVE  IF want'[r] = None THEN Left(r)' ELSE Right(r, map[r])'
    <3>1. ~Filling(r) /\ ~Queued(r)
      BY <1>3, <2>9, TakenFrom
    <3>2. \A p \in Proc : WritesRow(p) => req[p].res # r
      BY <2>4, <3>1
    <3>3. CASE want[r] = None
      BY <1>0, <2>2, <2>6, <3>1, <3>2, <3>3, LeftStays
    <3>4. CASE want[r] # None
      <4>1. Standing(r) = {map[r]} /\ Right(r, map[r])
        BY <2>2, <3>1, <3>4 DEF Mapped
      <4>2. PICK w : w = map[r]
        OBVIOUS
      <4>3. w \in RowsOf(r) /\ workos[w] # None
        BY <4>1, <4>2, StandingIs
      <4>4. Right(r, w)'
        BY <1>0, <2>3, <3>2, <4>1, <4>2, <4>3, RightStays DEF Kept
      <4> QED
        BY <2>5, <2>6, <3>4, <4>2, <4>4
    <3> QED
      BY <3>3, <3>4
  <2> QED
    BY <2>8, <2>9
<1> QED
  BY <1>1, <1>2, <1>3 DEF Resting

-----------------------------------------------------------------------------
(* How a mirror starts *)

LEMMA Starts ==
    ASSUME Inv, [Next]_vars, NEW q \in Req, ~Busy(q), Busy(q)', ~crossed'[q], NEW r, r = req'[q].res
    PROVE  /\ r \in Res /\ q \in Proc /\ pc'[q] \in {"clear", "load"} /\ workos' = workos /\ map' = map
           /\ Resting(r) /\ ~Copied(r) /\ oldW \subseteq oldW'
           /\ \A p \in Req \ {q} : Busy(p) => ~Touches(req[p], req'[q])
           /\ \A p \in Proc \ {q} : pc'[p] = pc[p] /\ req'[p] = req[p] /\ body'[p] = body[p]
           /\ req'[q].op \in Op /\ req'[q].val \in Content(r) /\ req'[q].mode \in Mode
           /\ req'[q].op # "POST" => want[r] # None
           /\ \/ want' = Applied(want, r, req'[q].op, req'[q].val)
              \/ want' = want /\ req'[q].mode = "workos-only"
           /\ req'[q].op \in {"PATCH", "ADD", "REMOVE"} => oldN' = oldN
           /\ req'[q].mode = "passthrough" => r \in oldW'
<1>0. q \in Proc
  BY ProcMembers
<1>1. /\ \E rq : Cross(q, rq) /\ rq.res = req'[q].res /\ Members(rq) = Members(req'[q])
      /\ \A p \in Proc \ {q} : pc'[p] = pc[p] /\ req'[p] = req[p] /\ body'[p] = body[p]
      /\ UNCHANGED <<fill, workos, map>>
  BY NewlyBusy
<1>2. PICK rq : Cross(q, rq) /\ rq.res = r /\ Members(rq) = Members(req'[q])
  BY <1>1
<1>3. Across(q, rq) = {} /\ r \notin Captured
  BY <1>0, <1>2 DEF Cross
<1>4. ~Copied(r)
  BY <1>3, CapturedIs
<1>5. \A p \in Req \ {q} : Busy(p) => ~Touches(req[p], req'[q])
  BY <1>2, <1>3 DEF Across, Touches
<1>6. Resting(r)
  BY <1>5 DEF Resting, Touches
<1>7. CASE BeginsMirror(q) /\ SameAsk(q)
  <2>1. /\ NativeLeg(q) /\ pc[q] = "native" /\ pc'[q] = "clear" /\ req' = req
        /\ want' = Applied(want, req[q].res, req[q].op, req[q].val)
        /\ oldN' = IF req[q].op \in {"POST", "PUT", "DELETE"} THEN oldN \ {r} ELSE oldN
        /\ oldW' = IF req[q].mode = "passthrough" THEN oldW \cup {r} ELSE oldW
    BY <1>7 DEF BeginsMirror, NativeLeg
  <2>2. /\ r \in Res /\ req[q].op \in Op /\ req[q].val \in Content(r) /\ req[q].mode \in Mode
        /\ req[q].op # "POST" => want[r] # None
    BY <1>0, <2>1, AtRes, InvFacts DEF Asked, Unanswered, Kinds
  <2> QED
    BY <1>0, <1>1, <1>4, <1>5, <1>6, <2>1, <2>2
<1>8. CASE BeginsDelete(q) /\ SameAsk(q)
  <2>1. /\ pc[q] = "native" /\ pc'[q] = "load" /\ req'[q].op = req[q].op /\ req'[q].val = req[q].val
        /\ req'[q].mode = req[q].mode /\ req[q].res = r /\ req[q].op = "DELETE" /\ req[q].mode = "dual-write"
        /\ want' = Applied(want, req[q].res, "DELETE", None) /\ oldW' = oldW
    BY <1>8 DEF BeginsDelete, SameAsk
  <2>2. /\ r \in Res /\ req[q].op \in Op /\ req[q].val \in Content(r) /\ req[q].mode \in Mode
        /\ req[q].op # "POST" => want[r] # None
    BY <1>0, <2>1, AtRes, InvFacts DEF Asked, Unanswered, Kinds
  <2>3. Applied(want, r, "DELETE", None) = Applied(want, r, "DELETE", req[q].val)
    BY DEF Applied
  <2> QED
    BY <1>0, <1>1, <1>4, <1>5, <1>6, <2>1, <2>2, <2>3
<1>9. ASSUME NEW op \in Op, NEW x \in Res, NEW v \in Content(x), Receive(q, op, x, v), mode = "workos-only", pc'[q] = "load"
      PROVE  /\ r \in Res /\ pc'[q] \in {"clear", "load"} /\ oldW \subseteq oldW'
             /\ req'[q].op \in Op /\ req'[q].val \in Content(r) /\ req'[q].mode \in Mode
             /\ req'[q].op # "POST" => want[r] # None
             /\ want' = want /\ req'[q].mode = "workos-only"
             /\ oldN' = oldN
  <2>1. /\ Legal(op, x, v) /\ req'[q].op = op /\ req'[q].res = x /\ req'[q].val = v /\ req'[q].mode = mode
        /\ UNCHANGED <<upstreams, tables, body, row, fill, want, oldN, oldW, held, wrote>>
    BY <1>9, ReceiveDoes
  <2> QED
    BY <1>9, <2>1 DEF Legal, Mode
<1>10. ASSUME NEW op \in Op, NEW x \in Res, NEW v \in Content(x), Receive(q, op, x, v), mode = "workos-only", pc'[q] = "load"
       PROVE  /\ r \in Res /\ q \in Proc /\ pc'[q] \in {"clear", "load"} /\ workos' = workos /\ map' = map
              /\ Resting(r) /\ ~Copied(r) /\ oldW \subseteq oldW'
              /\ \A p \in Req \ {q} : Busy(p) => ~Touches(req[p], req'[q])
              /\ \A p \in Proc \ {q} : pc'[p] = pc[p] /\ req'[p] = req[p] /\ body'[p] = body[p]
              /\ req'[q].op \in Op /\ req'[q].val \in Content(r) /\ req'[q].mode \in Mode
              /\ req'[q].op # "POST" => want[r] # None
              /\ want' = want /\ req'[q].mode = "workos-only"
              /\ oldN' = oldN
  BY <1>0, <1>1, <1>4, <1>5, <1>6, <1>9, <1>10
<1> QED
  BY <1>7, <1>8, <1>10, BusyFrom

LEMMA FollowsAnew ==
    ASSUME Inv, [Next]_vars, NEW q \in Req, ~Busy(q), Busy(q)', ~crossed'[q], req'[q].mode # "passthrough"
    PROVE  Follows(q)'
<1>1. PICK r : r = req'[q].res
  OBVIOUS
<1>2. PICK v : v = req'[q].val
  OBVIOUS
<1>3. PICK op : op = req'[q].op
  OBVIOUS
<1>4. /\ r \in Res /\ q \in Proc /\ pc'[q] \in {"clear", "load"} /\ workos' = workos /\ map' = map
      /\ Resting(r) /\ ~Copied(r) /\ oldW \subseteq oldW'
      /\ \A p \in Req \ {q} : Busy(p) => ~Touches(req[p], req'[q])
      /\ \A p \in Proc \ {q} : pc'[p] = pc[p] /\ req'[p] = req[p] /\ body'[p] = body[p]
      /\ op \in Op /\ v \in Content(r) /\ req'[q].mode \in Mode
      /\ op # "POST" => want[r] # None
      /\ \/ want' = Applied(want, r, op, v)
         \/ want' = want /\ req'[q].mode = "workos-only"
      /\ op \in {"PATCH", "ADD", "REMOVE"} => oldN' = oldN
  BY <1>1, <1>2, <1>3, Starts
<1>5. /\ want' = Applied(want, r, op, v) => want'[r] = IF op = "DELETE" THEN None ELSE After(want[r], op, v)
      /\ op # "DELETE" => \A x \in Res \ {r} : want'[x] = want[x]
  <2>1. /\ Applied(want, r, op, v)[r] = IF op = "DELETE" THEN None ELSE After(want[r], op, v)
        /\ \A x \in Res \ {r} : Applied(want, r, op, v)[x] = IF op = "DELETE" THEN Off(x, want[x], r) ELSE want[x]
    BY <1>4, InvFacts, AppliedIs
  <2> QED
    BY <1>4, <2>1
<1>6. TellsOf(q)'
  <2>1. CASE want' = Applied(want, r, op, v)
    <3>0. op \in {"POST", "PUT", "PATCH"} => want'[r] = v
      BY <1>5, <2>1 DEF After
    <3>1. op = "DELETE" => want'[r] = None
      BY <1>5, <2>1
    <3>2. op \in {"ADD", "REMOVE"} => After(want[r], op, v) # None
      <4>1. op \in {"ADD", "REMOVE"} => r \in Groups
        <5>1. r \in Users => op \notin {"ADD", "REMOVE"}
          <6>1. ASSUME NEW o \in Op, NEW x \in Res, NEW y \in Content(x), Receive(q, o, x, y) PROVE r \in Users => op \notin {"ADD", "REMOVE"}
            BY <1>1, <1>3, <6>1, ReceiveDoes DEF Legal
          <6>2. ASSUME SameAsk(q), pc[q] = "native" PROVE r \in Users => op \notin {"ADD", "REMOVE"}
            BY <1>1, <1>3, <6>2, InvFacts DEF Listed, AsksFit, SameAsk
          <6> QED
            BY <6>1, <6>2, BusyFrom DEF BeginsMirror, BeginsDelete
        <5> QED
          BY <1>4, <5>1 DEF Res
      <4>2. op \in {"ADD", "REMOVE"} => want[r] \in SUBSET Users /\ v \in SUBSET Users
        <5>1. op \in {"ADD", "REMOVE"} => want[r] # None
          BY <1>4
        <5> QED
          BY <1>4, <4>1, <5>1, NativeSets DEF Content
      <4>3. op \in {"ADD", "REMOVE"} => After(want[r], op, v) \in SUBSET Users
        BY <4>2 DEF After
      <4> QED
        BY <4>3, NoneAssumption DEF Row, Res
    <3>3. op \in {"ADD", "REMOVE"} => want'[r] # None
      BY <1>5, <2>1, <3>2
    <3>4. op = "ADD" => v \subseteq want'[r]
      BY <1>5, <2>1 DEF After
    <3>5. op = "REMOVE" => v \cap want'[r] = {}
      BY <1>5, <2>1 DEF After
    <3> QED
      BY <1>1, <1>2, <1>3, <3>0, <3>1, <3>3, <3>4, <3>5 DEF TellsOf
  <2>2. CASE req'[q].mode = "workos-only"
    BY <2>2 DEF TellsOf
  <2> QED
    BY <1>4, <2>1, <2>2
<1>7. ASSUME r \notin oldW', op # "POST"
      PROVE  Standing(r) = {map[r]} /\ Right(r, map[r])
  BY <1>4, <1>7, InvFacts DEF Holding, Mapped, Copied
<1>8. Standing(r)' = Standing(r)
  BY <1>4 DEF Standing
<1>9. ASSUME r \notin oldW', op \in {"PATCH", "ADD", "REMOVE"}
      PROVE  BeforePatch(q)'
  <2>1. Standing(r) = {map[r]} /\ Right(r, map[r])
    BY <1>7, <1>9
  <2>2. ASSUME r \in Groups, op # "PATCH", NEW u \in Users, u \in v, want'[u] # None
        PROVE  In(u, workos[map[r]]) \subseteq {Translate(map, u)}
    <3>1. want[u] # None /\ r \notin Users
      BY <1>5, <1>9, <2>2, KindFacts
    <3>2. ~Pruning(u)
      <4> SUFFICES ASSUME NEW p \in Req, pc[p] = "prune", req[p].res = u PROVE FALSE
        BY DEF Pruning
      <4>1. Busy(p) /\ p # q
        BY DEF Busy
      <4>2. u \in Members(req'[q])
        BY <1>1, <1>2, <2>2 DEF Members
      <4> QED
        BY <1>4, <4>1, <4>2 DEF Touches
    <3> QED
      BY <2>1, <3>1, <3>2 DEF Right, Fits, FitsUser
  <2>3. ASSUME r \in Groups, op # "PATCH", NEW u \in Users, u \notin v
        PROVE  FitsUser(r, workos[map[r]], u)'
    <3>0. u \in Res /\ u # r /\ r \notin Users
      BY <2>3, KindFacts
    <3>1. want'[u] = want[u] /\ Translate(map, u)' = Translate(map, u) /\ Standing(u)' = Standing(u)
      BY <1>4, <1>5, <1>9, <3>0 DEF Standing, Translate
    <3>2. u \in want'[r] <=> u \in want[r]
      BY <1>4, <1>5, <1>9, <2>3 DEF After
    <3>3. FitsUser(r, workos[map[r]], u)
      BY <2>1, <3>0 DEF Right, Fits
    <3>4. u \in want[r] \/ In(u, workos[map[r]]) # {} => Born(u)
      <4>1. map[r] \in RowsOf(r) /\ workos[map[r]] # None /\ want[r] # None
        BY <1>4, <1>9, <2>1, StandingIs
      <4> QED
        BY <2>3, <4>1, InvFacts DEF BornFirst, Mentioned
    <3>5. Born(u) /\ Doomed(u) => Doomed(u)'
      BY DoomedStays
    <3>6. Pruning(u) => Pruning(u)'
      <4> SUFFICES ASSUME NEW p \in Req, pc[p] = "prune", req[p].mode = "workos-only", req[p].res = u
                   PROVE  pc'[p] = "prune" /\ req'[p] = req[p]
        BY DEF Pruning
      <4>1. p # q /\ p \in Proc
        BY ProcMembers DEF Busy
      <4> QED
        BY <1>4, <4>1
    <3>7. workos'[map'[r]] = workos[map[r]]
      BY <1>4
    <3>8. /\ want'[u] # None => (u \in want'[r] => Pruning(u)' \/ In(u, workos[map[r]]) = {Translate(map, u)'})
          /\ want'[u] # None => (u \notin want'[r] => In(u, workos[map[r]]) = {})
      BY <3>1, <3>2, <3>3, <3>6 DEF FitsUser
    <3>9. u \in want'[r] => want'[u] # None \/ Doomed(u)'
      BY <3>1, <3>2, <3>3, <3>4, <3>5 DEF FitsUser
    <3>10. want'[u] = None /\ ~Doomed(u)' /\ u \notin oldN' => In(u, workos[map[r]]) \subseteq Standing(u)'
      BY <1>4, <1>9, <3>1, <3>3, <3>4, <3>5 DEF FitsUser
    <3> QED
      BY <3>7, <3>8, <3>9, <3>10 DEF FitsUser
  <2>4. /\ Standing(r)' = {map'[r]} /\ workos'[map'[r]] = workos[map[r]]
        /\ \A u \in Users : Translate(map, u)' = Translate(map, u)
    BY <1>4, <1>8, <2>1 DEF Translate
  <2> QED
    BY <1>1, <1>2, <1>3, <2>2, <2>3, <2>4 DEF BeforePatch
<1>10. ASSUME r \notin oldW', op = "DELETE" PROVE Standing(r)' = {map'[r]}
  BY <1>4, <1>7, <1>8, <1>10
<1> QED
  BY <1>1, <1>3, <1>4, <1>6, <1>9, <1>10 DEF Follows, Dancing

-----------------------------------------------------------------------------
(* How a mirror goes on *)

LEMMA FlushRenames ==
    ASSUME Inv, FlushWrites, NEW u \in Res, Queued(u), Translate(map, u)' # Translate(map, u)
    PROVE  \A p \in Proc : u \in Members(req[p]) => crossed'[p]
<1>1. map'[u] = SinkRow(u)
  BY DEF FlushWrites, Flush
<1>2. SinkRow(u) # None
  <2>1. \E i \in DOMAIN sink : sink[i][1] = u
    BY DEF Queued
  <2>2. (CHOOSE i \in DOMAIN sink : sink[i][1] = u) \in DOMAIN sink
        /\ sink[CHOOSE i \in DOMAIN sink : sink[i][1] = u][1] = u
    BY <2>1
  <2>3. SinkRow(u) \in RowsOf(u)
    BY <2>2, InvFacts DEF RowsFit, SinkRow
  <2> QED
    BY <2>3, RowFacts
<1>3. SinkRow(u) # Translate(map, u)
  BY <1>1, <1>2 DEF Translate
<1> DEFINE renamed == {r \in {y \in Res : Queued(y)} : TRUE /\ SinkRow(r) # Translate(map, r)}
<1>4. u \in renamed
  BY <1>3
<1>5. crossed' = [p \in Proc |-> crossed[p] \/ renamed \cap Members(req[p]) # {}]
  BY DEF FlushWrites, Flush
<1> QED
  BY <1>4, <1>5

LEMMA Undisturbed ==
    ASSUME Inv, [Next]_vars, NEW q \in Req, Busy(q), Busy(q)', SameAsk(q), ~crossed'[q], NEW r, r = req[q].res
    PROVE  /\ ~crossed[q] /\ q \in Proc /\ r \in Res /\ ~CleanWorkos /\ ~Copied(r)
           /\ \A p \in Req : Tells(p) => ~Touches(req[p], req[q]) /\ p # q
           /\ \A p \in Req \ {q} : Busy(p) => ~Touches(req[p], req[q])
           /\ r \in oldW => r \in oldW'
           /\ \A p \in Proc : WritesRow(p) /\ req[p].res = r => p = q
           /\ ~PruneMapping(q) => map'[r] = map[r]
           /\ \A u \in Members(req[q]) : /\ u \in Users /\ u \in Res /\ Born(u)
                                         /\ Translate(map, u)' = Translate(map, u) /\ want'[u] = want[u]
           /\ want'[r] = want[r] \/ \E s \in Users \ Members(req[q]) : want'[r] = want[r] \ {s} /\ want[r] # None
           /\ want'[r] = None <=> want[r] = None
<1>0. /\ ~crossed[q] /\ q \in Proc /\ r \in Res /\ ~CleanWorkos /\ ~Copied(r)
      /\ \A p \in Req \ {q} : Busy(p) => ~Touches(req[p], req[q])
  <2>1. ~crossed[q] /\ q \in Proc
    BY CrossedGrows, ProcMembers
  <2>2. ~CleanWorkos
    BY <2>1 DEF CleanWorkos
  <2>3. r \in Res
    BY <2>1, AtRes DEF Busy
  <2> QED
    BY <2>1, <2>2, <2>3, InvFacts DEF Crossing
<1>1. ASSUME NEW p \in Req, Tells(p) PROVE ~Touches(req[p], req[q]) /\ p # q
  <2>1. p # q
    BY <1>1 DEF Tells, NativeLeg, NativeRefuses, Concludes, Busy
  <2>2. CASE Cross(p, req[p])
    <3>1. q \notin Across(p, req[p])
      BY <1>0, <2>1, <2>2 DEF Cross
    <3> QED
      BY <2>1, <3>1, TouchesBoth DEF Across
  <2>3. NativeLeg(p) => Cross(p, req[p])
    BY DEF NativeLeg
  <2>4. NativeRefuses(p) /\ req[p].op = "DELETE" => Cross(p, req[p])
    BY DEF NativeRefuses
  <2>5. CASE Concludes(p)
    BY <1>0, <2>1, <2>5 DEF Concludes
  <2> QED
    BY <1>1, <2>1, <2>2, <2>3, <2>4, <2>5 DEF Tells
<1>2. ASSUME NEW p \in Req, Record(p) PROVE p # q /\ ~Touches(req[p], req[q])
  <2>1. Busy(p) /\ p \in Proc
    BY <1>2, ProcMembers DEF Record, Busy
  <2>2. pc'[p] = "idle"
    BY <1>2, <2>1, ResetTo DEF Record
  <2> QED
    BY <1>0, <2>1, <2>2 DEF Busy
<1>3. r \in oldW => r \in oldW'
  <2>1. ASSUME NEW p \in Req, Repairs(p), req[p].res = r PROVE FALSE
    BY <1>2, <2>1 DEF Repairs, Touches
  <2> QED
    BY <1>0, <2>1, OldWCause DEF Copied
<1>4. ASSUME NEW p \in Proc, WritesRow(p), req[p].res = r PROVE p = q
  <2>1. pc[p] \notin {"idle", "native"} /\ p \in Req \cup {Filler}
    <3>1. Dance(p) => pc[p] \in Dancing
      BY DanceDoes
    <3>2. p \in Req /\ (PatchHits(p) \/ PatchAnswerLost(p)) => pc[p] = "patch"
      BY PatchDoes
    <3>3. p \in Req /\ DeleteRow(p) => pc[p] = "delete"
      BY DeleteDoes
    <3> QED
      BY <1>4, <3>1, <3>2, <3>3 DEF WritesRow, Dancing, Proc
  <2>2. p # Filler
    BY <1>0, <1>4, <2>1 DEF Copied, Filling
  <2> QED
    BY <1>0, <1>4, <2>1, <2>2 DEF Busy, Touches
<1>5. ASSUME ~PruneMapping(q) PROVE map'[r] = map[r]
  <2>1. ASSUME NEW p \in Req, Record(p) \/ PruneMapping(p), req[p].res = r PROVE FALSE
    <3>1. CASE Record(p)
      BY <1>2, <2>1, <3>1 DEF Touches
    <3>2. CASE PruneMapping(p)
      BY <1>0, <1>5, <2>1, <3>2 DEF PruneMapping, Busy, Touches
    <3> QED
      BY <2>1, <3>1, <3>2
  <2> QED
    BY <1>0, <2>1, MapElse DEF Copied
<1>6. ASSUME NEW u \in Members(req[q])
      PROVE  /\ u \in Users /\ u \in Res /\ Born(u)
             /\ Translate(map, u)' = Translate(map, u) /\ want'[u] = want[u]
  <2>1. u \in Users /\ u \in Res /\ u # r /\ u \notin Groups
    <3>1. r \in Groups /\ req[q].val \in Content(r) /\ u \in req[q].val
      BY <1>0, <1>6, AtRes DEF Members, Busy
    <3> QED
      BY <3>1, KindFacts DEF Content
  <2>2. Born(u)
    <3>1. Mentioned(u)
      BY <1>0, <1>6 DEF Mentioned
    <3> QED
      BY <2>1, <3>1, InvFacts DEF BornFirst
  <2>3. want'[u] = want[u]
    <3>1. ASSUME NEW p \in Req, Tells(p), want' = Applied(want, req[p].res, req[p].op, req[p].val)
          PROVE  want'[u] = want[u]
      <4>1. \A x \in Res \ {req[p].res} : want'[x] = IF req[p].op = "DELETE" THEN Off(x, want[x], req[p].res) ELSE want[x]
        BY <3>1, TellsWhat
      <4>2. req[p].res # u
        BY <1>1, <1>6, <3>1 DEF Touches
      <4> QED
        BY <2>1, <4>1, <4>2 DEF Off
    <3> QED
      BY <3>1, WantCause
  <2>4. Translate(map, u)' = Translate(map, u)
    <3>1. ASSUME NEW p \in Req, Record(p) \/ PruneMapping(p), req[p].res = u PROVE FALSE
      <4>1. CASE Record(p)
        BY <1>2, <1>6, <3>1, <4>1 DEF Touches
      <4>2. CASE PruneMapping(p)
        BY <1>0, <1>6, <2>1, <3>1, <4>2 DEF PruneMapping, Busy, Touches
      <4> QED
        BY <3>1, <4>1, <4>2
    <3>2. CASE FlushWrites /\ Queued(u)
      BY <1>0, <1>6, <2>1, <3>2, FlushRenames
    <3>3. CASE ~(FlushWrites /\ Queued(u))
      BY <2>1, <3>1, <3>3, MapElse DEF Translate
    <3> QED
      BY <3>2, <3>3
  <2> QED
    BY <2>1, <2>2, <2>3, <2>4
<1>7. /\ want'[r] = want[r] \/ \E s \in Users \ Members(req[q]) : want'[r] = want[r] \ {s} /\ want[r] # None
      /\ want'[r] = None <=> want[r] = None
  <2>1. ASSUME NEW p \in Req, Tells(p), want' = Applied(want, req[p].res, req[p].op, req[p].val)
        PROVE  /\ want'[r] = want[r] \/ \E s \in Users \ Members(req[q]) : want'[r] = want[r] \ {s} /\ want[r] # None
               /\ want'[r] = None <=> want[r] = None
    <3>1. \A x \in Res \ {req[p].res} :
            /\ want'[x] = IF req[p].op = "DELETE" THEN Off(x, want[x], req[p].res) ELSE want[x]
            /\ want'[x] = None <=> want[x] = None
      BY <2>1, TellsWhat
    <3>2. req[p].res # r /\ req[p].res \notin Members(req[q])
      BY <1>1, <2>1 DEF Touches
    <3> QED
      BY <1>0, <3>1, <3>2 DEF Off
  <2> QED
    BY <2>1, WantCause
<1> QED
  BY <1>0, <1>1, <1>3, <1>4, <1>5, <1>6, <1>7

LEMMA OnwardHow ==
    ASSUME Inv, [Next]_vars, NEW q \in Req, Busy(q), Busy(q)', SameAsk(q)
    PROVE  \/ Keeps(q)
           \/ Dance(q) /\ pc[q] \in Dancing /\ pc'[q] \in Dancing /\ UNCHANGED DanceFrame
           \/ Load(q)
           \/ /\ Proceeds(q) \/ Lingers(q) \/ DeleteRow(q)
              /\ row'[q] = row[q] /\ body' = body
<1>0. q \in Proc /\ q # Filler /\ pc'[q] # "idle"
  BY ProcMembers DEF Busy
<1>1. CASE Crash
  BY <1>0, <1>1, CrashDoes
<1>2. CASE Dance(q)
  BY <1>0, <1>2, DanceDoes
<1>3. CASE Proxy(q)
  <2>1. ~BeginsMirror(q) /\ ~BeginsDelete(q)
    BY DEF BeginsMirror, BeginsDelete, Busy
  <2> QED
    BY <1>0, <1>3, <2>1, ProxySteps
<1>4. ~Arrives(q)
  BY DEF Arrives, Receive, Busy
<1> QED
  BY <1>0, <1>1, <1>2, <1>3, <1>4, KeepsElse DEF Moves

LEMMA TellsOn ==
    ASSUME Inv, [Next]_vars, NEW q \in Req, Busy(q), Busy(q)', SameAsk(q), ~crossed'[q], TellsOf(q)
    PROVE  TellsOf(q)'
<1>1. PICK r : r = req[q].res
  OBVIOUS
<1>2. /\ r \in Res /\ q \in Proc
      /\ want'[r] = want[r] \/ \E s \in Users \ Members(req[q]) : want'[r] = want[r] \ {s} /\ want[r] # None
      /\ want'[r] = None <=> want[r] = None
      /\ \A u \in Members(req[q]) : u \in Users
  BY <1>1, Undisturbed
<1>3. CASE want'[r] = want[r]
  BY <1>1, <1>3 DEF TellsOf, SameAsk
<1>4. ASSUME NEW s \in Users \ Members(req[q]), want'[r] = want[r] \ {s}, want[r] # None, want'[r] # want[r]
      PROVE  TellsOf(q)'
  <2>1. r \in Groups
    <3>1. r \in Users => want'[r] = want[r]
      <4>1. ASSUME NEW p \in Req, Tells(p), want' = Applied(want, req[p].res, req[p].op, req[p].val), r \in Users
            PROVE  want'[r] = want[r]
        <5>1. \A x \in Res \ {req[p].res} : want'[x] = IF req[p].op = "DELETE" THEN Off(x, want[x], req[p].res) ELSE want[x]
          BY <4>1, TellsWhat
        <5>2. req[p].res # r
          BY <1>1, <4>1, Undisturbed DEF Touches
        <5> QED
          BY <1>2, <4>1, <5>1, <5>2, KindFacts DEF Off
      <4> QED
        BY <4>1, WantCause
    <3> QED
      BY <1>2, <1>4, <3>1 DEF Res
  <2>2. s \notin req[q].val
    BY <1>1, <1>4, <2>1 DEF Members
  <2> QED
    BY <1>1, <1>2, <1>4, <2>2 DEF TellsOf, SameAsk
<1> QED
  BY <1>2, <1>3, <1>4

LEMMA BodyOn ==
    ASSUME Inv, [Next]_vars, NEW q \in Req, Busy(q), Busy(q)', SameAsk(q), ~crossed'[q],
           req[q].mode # "passthrough", pc'[q] \in Dancing \cup {"patch"}
    PROVE  BodyRight(q)'
<1>1. PICK r : r = req[q].res
  OBVIOUS
<1>2. /\ ~crossed[q] /\ r \in Res /\ q \in Proc
      /\ \A u \in Members(req[q]) : /\ u \in Users /\ u \in Res /\ Born(u)
                                    /\ Translate(map, u)' = Translate(map, u) /\ want'[u] = want[u]
      /\ \A p \in Req \ {q} : Busy(p) => ~Touches(req[p], req[q])
  BY <1>1, Undisturbed
<1>3. PICK v : v = req[q].val
  OBVIOUS
<1>4. Follows(q) /\ v \in Content(r)
  BY <1>1, <1>2, <1>3, AtRes, InvFacts DEF Following, Busy
<1>5. PICK b : b = body'[q]
  OBVIOUS
<1>6. /\ r \in Users => b = v
      /\ r \notin Users => /\ b \subseteq UNION {RowsOf(u) : u \in v}
                           /\ \A u \in v : In(u, b) = {Translate(map, u)} /\ (want[u] # None \/ Doomed(u))
  <2>1. CASE pc[q] \in Dancing \cup {"patch"} /\ body'[q] = body[q]
    BY <1>1, <1>3, <1>4, <1>5, <2>1 DEF Follows, BodyRight
  <2>2. CASE Load(q)
    <3>1. /\ b = (IF r \in Groups THEN {Translate(map, u) : u \in v} ELSE v)
          /\ crossed'[q] = (crossed[q] \/ \E u \in Members(req[q]) : map[u] = None)
      BY <1>1, <1>3, <1>5, <2>2, LoadDoes
    <3>2. CASE r \in Users
      BY <3>1, <3>2, KindFacts
    <3>3. CASE r \notin Users
      <4>1. r \in Groups /\ v \in SUBSET Users /\ Members(req[q]) = v
        BY <1>1, <1>2, <1>3, <1>4, <3>3 DEF Res, Content, Members
      <4>2. b = {Translate(map, u) : u \in v}
        BY <3>1, <4>1
      <4>3. \A u \in v : Translate(map, u) \in RowsOf(u)
        BY <1>2, <4>1, TranslateFits, InvFacts
      <4>4. b \subseteq UNION {RowsOf(u) : u \in v}
        BY <4>2, <4>3
      <4>5. ASSUME NEW u \in v PROVE In(u, b) = {Translate(map, u)}
        <5>1. u \in Res
          BY <1>2, <4>1
        <5>2. \A x \in v : Translate(map, x) \in RowsOf(u) => x = u
          BY <1>2, <4>1, <4>3, <5>1, KindFacts
        <5> QED
          BY <4>2, <4>3, <5>2 DEF In
      <4>6. ASSUME NEW u \in v, want[u] = None PROVE Doomed(u)
        <5>1. map[u] # None /\ u \in Res
          BY <1>2, <3>1, <4>1
        <5>2. ASSUME u \notin oldW PROVE FALSE
          <6>1. Resting(u)
            <7> SUFFICES ASSUME NEW p \in Req, Busy(p), req[p].res = u PROVE FALSE
              BY DEF Resting
            <7>1. p # q
              BY <1>1, <4>1, KindFacts
            <7> QED
              BY <1>2, <4>1, <7>1 DEF Touches
          <6> QED
            BY <4>6, <5>1, <5>2, <6>1, InvFacts DEF Holding, Mapped
        <5> QED
          BY <4>6, <5>2 DEF Doomed
      <4> QED
        BY <3>3, <4>4, <4>5, <4>6
    <3> QED
      BY <3>2, <3>3
  <2>3. CASE Keeps(q)
    BY <2>1, <2>3 DEF Keeps
  <2>4. CASE Dance(q) /\ pc[q] \in Dancing /\ UNCHANGED DanceFrame
    BY <2>1, <2>4 DEF DanceFrame
  <2>5. CASE Proceeds(q) \/ Lingers(q) \/ DeleteRow(q)
    BY <1>2, <2>5, DeleteDoes, InvFacts DEF Proceeds, Lingers, Dancing
  <2> QED
    BY <2>2, <2>3, <2>4, <2>5, OnwardHow
<1>7. CASE r \in Users
  BY <1>1, <1>3, <1>5, <1>6, <1>7 DEF BodyRight, SameAsk
<1>8. CASE r \notin Users
  <2>1. Members(req[q]) = v
    BY <1>1, <1>2, <1>3, <1>8 DEF Members, Res
  <2>2. \A u \in v : In(u, b) = {Translate(map, u)'} /\ (want'[u] # None \/ Doomed(u)')
    <3> SUFFICES ASSUME NEW u \in v PROVE In(u, b) = {Translate(map, u)'} /\ (want'[u] # None \/ Doomed(u)')
      OBVIOUS
    <3>1. Doomed(u) => Doomed(u)'
      BY <1>2, <2>1, DoomedStays
    <3> QED
      BY <1>2, <1>6, <1>8, <2>1, <3>1
  <2> QED
    BY <1>1, <1>3, <1>5, <1>6, <1>8, <2>2 DEF BodyRight, SameAsk
<1> QED
  BY <1>7, <1>8

(* What is taken from a group's row is a member the request does not carry.    *)
RowsKept(q, r) ==
    \/ \A w \in RowsOf(r) : workos'[w] = workos[w]
    \/ /\ r \in Groups
       /\ \E s \in Users \ Members(req[q]) : \E x \in RowsOf(s) : \A w \in RowsOf(r) :
             workos'[w] = IF workos[w] = None THEN None ELSE workos[w] \ {x}

LEMMA RowsOn ==
    ASSUME Inv, [Next]_vars, NEW q \in Req, Busy(q), Busy(q)', SameAsk(q), ~crossed'[q], NEW r, r = req[q].res,
           ~WritesRow(q)
    PROVE  /\ Standing(r)' = Standing(r)
           /\ \A p \in Proc : WritesRow(p) => req[p].res # r
           /\ RowsKept(q, r)
<1>1. /\ r \in Res /\ ~CleanWorkos /\ q \in Proc
      /\ \A p \in Proc : WritesRow(p) /\ req[p].res = r => p = q
      /\ \A p \in Req \ {q} : Busy(p) => ~Touches(req[p], req[q])
  BY Undisturbed
<1>2. \A p \in Proc : WritesRow(p) => req[p].res # r
  BY <1>1
<1>3. /\ Standing(r)' = Standing(r)
      /\ \/ \A w \in RowsOf(r) : workos'[w] = workos[w]
         \/ /\ r \in Groups
            /\ \E p \in Req : /\ Strikes(p)
                              /\ \A w \in RowsOf(r) :
                                   workos'[w] = IF workos[w] = None THEN None ELSE workos[w] \ {row[p]}
  BY <1>1, <1>2, RowsElse
<1>4. ASSUME NEW p \in Req, Strikes(p)
      PROVE  req[p].res \in Users \ Members(req[q]) /\ row[p] \in RowsOf(req[p].res)
  <2>1. /\ pc[p] = "delete" /\ req[p].res \in Users /\ row[p] \in RowsOf(req[p].res) /\ DeleteRow(p)
    BY <1>4, DeleteDoes DEF Strikes
  <2>2. p # q
    BY <2>1 DEF WritesRow
  <2> QED
    BY <1>1, <2>1, <2>2 DEF Touches, Busy
<1> QED
  BY <1>2, <1>3, <1>4 DEF RowsKept

LEMMA RecordOn ==
    ASSUME Inv, [Next]_vars, NEW q \in Req, Busy(q), Busy(q)', SameAsk(q), ~crossed'[q],
           req[q].mode # "passthrough", pc'[q] = "record", NEW r, r = req[q].res
    PROVE  Standing(r)' = {row'[q]} /\ workos'[row'[q]] = body'[q]
<1>0. ~crossed[q] /\ r \in Res /\ q \in Proc
  BY Undisturbed
<1>1. CASE Dance(q)
  <2>1. body' = body
    BY <1>1, <1>0, DanceDoes DEF DanceFrame
  <2> QED
    BY <1>0, <1>1, <2>1, DanceWrites
<1>2. CASE Keeps(q) /\ ~Dance(q)
  <2>0. pc[q] = "record" /\ row'[q] = row[q] /\ body'[q] = body[q] /\ Follows(q)
    BY <1>0, <1>2, InvFacts DEF Keeps, Following
  <2>1. Standing(r) = {row[q]} /\ workos[row[q]] = body[q] /\ row[q] \in RowsOf(r)
    BY <1>0, <2>0, AtRes DEF Follows, Early
  <2>2. ~WritesRow(q)
    BY <1>2, <2>0 DEF WritesRow, PatchHits, PatchAnswerLost, DeleteRow
  <2>3. Standing(r)' = Standing(r) /\ RowsKept(q, r)
    BY <2>2, RowsOn
  <2>4. ASSUME r \in Groups, NEW s \in Users \ Members(req[q]), NEW x \in RowsOf(s),
               workos'[row[q]] = workos[row[q]] \ {x}
        PROVE  workos'[row[q]] = workos[row[q]]
    <3>1. body[q] \subseteq UNION {RowsOf(u) : u \in Members(req[q])}
      BY <2>0, <2>4, KindFacts DEF Follows, BodyRight, Dancing, Members
    <3>2. Members(req[q]) \subseteq Res
      BY Undisturbed
    <3>3. x \notin body[q]
      <4> SUFFICES ASSUME x \in body[q] PROVE FALSE
        OBVIOUS
      <4>1. PICK y \in Members(req[q]) : x \in RowsOf(y)
        BY <3>1
      <4> QED
        BY <2>4, <3>2, <4>1, KindFacts
    <3> QED
      BY <2>1, <2>4, <3>3
  <2>5. workos[row[q]] # None
    BY <2>1, StandingIs
  <2>6. workos'[row[q]] = workos[row[q]]
    BY <2>1, <2>3, <2>4, <2>5 DEF RowsKept
  <2> QED
    BY <2>0, <2>1, <2>3, <2>6
<1>3. CASE Load(q)
  BY <1>0, <1>3, LoadDoes
<1>4. CASE Proceeds(q) \/ Lingers(q) \/ DeleteRow(q)
  BY <1>0, <1>4, DeleteDoes, InvFacts DEF Proceeds, Lingers
<1> QED
  BY <1>1, <1>2, <1>3, <1>4, OnwardHow

LEMMA PatchOn ==
    ASSUME Inv, [Next]_vars, NEW q \in Req, Busy(q), Busy(q)', SameAsk(q), ~crossed'[q],
           req[q].mode # "passthrough", NEW r, r = req[q].res, r \notin oldW',
           pc[q] \in {"clear", "load", "patch"}, req[q].op \in {"PATCH", "ADD", "REMOVE"}
    PROVE  BeforePatch(q)' /\ map'[r] = map[r] /\ BeforePatch(q)
<1>0. /\ ~crossed[q] /\ r \in Res /\ q \in Proc /\ ~CleanWorkos
      /\ r \in oldW => r \in oldW'
      /\ ~PruneMapping(q) => map'[r] = map[r]
      /\ \A p \in Req : Tells(p) => ~Touches(req[p], req[q]) /\ p # q
      /\ \A u \in Members(req[q]) : /\ u \in Users /\ u \in Res /\ Born(u)
                                    /\ Translate(map, u)' = Translate(map, u) /\ want'[u] = want[u]
      /\ want'[r] = None <=> want[r] = None
  BY Undisturbed
<1>1. BeforePatch(q) /\ TellsOf(q)
  BY <1>0, InvFacts DEF Following, Follows
<1>2. ~WritesRow(q)
  <2>1. ~Dance(q)
    BY <1>0, DanceDoes DEF Dancing
  <2>2. ~PatchHits(q) /\ ~PatchAnswerLost(q)
    BY <1>0, PatchDoes, ResetTo DEF Busy
  <2>3. ~DeleteRow(q)
    BY DEF DeleteRow
  <2> QED
    BY <2>1, <2>2, <2>3 DEF WritesRow
<1>3. map'[r] = map[r]
  BY <1>0 DEF PruneMapping
<1>4. Standing(r)' = Standing(r) /\ \A p \in Proc : WritesRow(p) => req[p].res # r
  BY <1>2, RowsOn
<1>5. PICK w : w = map[r]
  OBVIOUS
<1>6. Standing(r) = {w} /\ w \in RowsOf(r) /\ workos[w] # None
  BY <1>0, <1>1, <1>5, StandingIs DEF BeforePatch
<1>7. ASSUME r \in Groups, req[q].op # "PATCH", NEW u \in Users
      PROVE  IF u \in req[q].val THEN want'[u] # None => In(u, workos'[w]) \subseteq {Translate(map, u)'}
             ELSE FitsUser(r, workos[w], u)'
  <2>1. CASE u \in req[q].val
    <3>1. u \in Members(req[q])
      BY <1>7, <2>1 DEF Members
    <3>2. want[u] # None => In(u, workos[w]) \subseteq {Translate(map, u)}
      BY <1>1, <1>5, <1>7, <2>1 DEF BeforePatch
    <3>3. workos'[w] \subseteq workos[w]
      <4>1. \/ \A x \in RowsOf(r) : workos'[x] = workos[x]
            \/ \E p \in Req : \A x \in RowsOf(r) :
                  workos'[x] = IF workos[x] = None THEN None ELSE workos[x] \ {row[p]}
        BY <1>0, <1>4, RowsElse
      <4> QED
        BY <1>6, <4>1
    <3>4. In(u, workos'[w]) \subseteq In(u, workos[w])
      BY <3>3 DEF In
    <3> QED
      BY <1>0, <2>1, <3>1, <3>2, <3>4
  <2>2. CASE u \notin req[q].val
    <3>1. FitsUser(r, workos[w], u)
      BY <1>1, <1>5, <1>7, <2>2 DEF BeforePatch
    <3>2. want[r] # None
      <4>1. CASE req[q].mode = "workos-only"
        BY <4>1, InvFacts DEF Asked, Unanswered
      <4>2. CASE req[q].mode = "dual-write"
        BY <1>1, <1>7, <4>2 DEF TellsOf
      <4>3. req[q].mode \in Mode
        BY <1>0, InvFacts DEF Kinds, Busy
      <4> QED
        BY <4>1, <4>2, <4>3 DEF Mode
    <3>3. \A p \in Req : Tells(p) => req[p].res # r
      BY <1>0 DEF Touches
    <3>4. FitsUser(r, workos[w], u)'
      BY <1>0, <1>4, <1>6, <1>7, <3>1, <3>2, <3>3, FitsUserStays DEF Kept
    <3> QED
      BY <2>2, <3>4
  <2> QED
    BY <2>1, <2>2
<1> QED
  BY <1>1, <1>3, <1>4, <1>5, <1>6, <1>7 DEF BeforePatch, SameAsk

LEMMA FollowsOn ==
    ASSUME Inv, [Next]_vars, NEW q \in Req, Busy(q), Busy(q)', SameAsk(q), ~crossed'[q], req[q].mode # "passthrough"
    PROVE  Follows(q)'
<1> DEFINE op == req[q].op
<1>1. PICK r : r = req[q].res
  OBVIOUS
<1>0. /\ ~crossed[q] /\ r \in Res /\ q \in Proc /\ ~CleanWorkos
      /\ r \in oldW => r \in oldW'
      /\ ~PruneMapping(q) => map'[r] = map[r]
  BY <1>1, Undisturbed
<1>2. Follows(q)
  BY <1>0, InvFacts DEF Following
<1>3. TellsOf(q)'
  BY <1>2, TellsOn DEF Follows
<1>4. pc'[q] \in Dancing \cup {"patch"} => BodyRight(q)'
  BY BodyOn
<1>5. pc'[q] = "record" => Standing(r)' = {row'[q]} /\ workos'[row'[q]] = body'[q]
  BY <1>1, RecordOn
<1>6. /\ pc'[q] \in {"clear", "load", "patch"} => pc[q] \in {"clear", "load", "patch"}
      /\ pc'[q] \in {"clear", "load", "delete"} => pc[q] \in {"clear", "load", "delete"}
  <2>1. CASE Load(q)
    BY <1>0, <2>1, LoadDoes
  <2>2. CASE Proceeds(q) \/ Lingers(q) \/ DeleteRow(q)
    BY <1>0, <2>2, DeleteDoes, InvFacts DEF Proceeds, Lingers
  <2> QED
    BY <2>1, <2>2, OnwardHow DEF Keeps, Dancing
<1>7. ASSUME r \notin oldW', pc'[q] \in {"clear", "load", "patch"}, op \in {"PATCH", "ADD", "REMOVE"}
      PROVE  BeforePatch(q)' /\ map'[r] = map[r] /\ BeforePatch(q)
  BY <1>1, <1>6, <1>7, PatchOn
<1>8. ASSUME r \notin oldW', pc'[q] \in {"clear", "load", "delete"}, op = "DELETE"
      PROVE  Standing(r)' = {map'[r]} /\ map'[r] = map[r] /\ Standing(r) = {map[r]}
  <2>1. Standing(r) = {map[r]} /\ pc[q] \in {"clear", "load", "delete"}
    BY <1>0, <1>1, <1>2, <1>6, <1>8 DEF Follows
  <2>2. ~WritesRow(q)
    <3>1. ~Dance(q)
      BY <1>0, <2>1, DanceDoes DEF Dancing
    <3>2. ~PatchHits(q) /\ ~PatchAnswerLost(q)
      BY <2>1 DEF PatchHits, PatchAnswerLost
    <3>3. ~DeleteRow(q)
      BY <1>0, <1>8, DeleteDoes, InvFacts
    <3> QED
      BY <3>1, <3>2, <3>3 DEF WritesRow
  <2>3. Standing(r)' = Standing(r)
    BY <1>1, <2>2, RowsOn
  <2>4. map'[r] = map[r]
    BY <1>0, <2>1 DEF PruneMapping
  <2> QED
    BY <2>1, <2>3, <2>4
<1>9. ASSUME r \notin oldW', pc'[q] \in {"patch", "delete"} PROVE row'[q] = map'[r]
  <2>0. Standing(r) = {map[r]} /\ map'[r] = map[r]
    <3>1. pc'[q] = "patch" => op \in {"PATCH", "ADD", "REMOVE"}
      BY AskFitsStays DEF AskFits, SameAsk
    <3>2. pc'[q] = "delete" => op = "DELETE"
      BY AskFitsStays DEF AskFits, SameAsk
    <3> QED
      BY <1>1, <1>7, <1>8, <1>9, <3>1, <3>2 DEF BeforePatch
  <2>1. CASE Keeps(q)
    BY <1>0, <1>1, <1>2, <1>9, <2>0, <2>1 DEF Keeps, Follows
  <2>2. CASE Load(q)
    <3>1. row'[q] = Translate(map, r)
      BY <1>1, <2>2, LoadDoes
    <3>2. map[r] # None
      BY <1>0, <2>0, StandingIs, RowFacts
    <3> QED
      BY <2>0, <3>1, <3>2 DEF Translate
  <2>3. ~(Dance(q) /\ pc'[q] \in Dancing) /\ ~Proceeds(q) /\ ~Lingers(q)
    BY <1>9 DEF Dancing, Proceeds, Lingers
  <2>4. ~DeleteRow(q)
    BY <1>0, <1>9, DeleteDoes, InvFacts
  <2> QED
    BY <2>1, <2>2, <2>3, <2>4, OnwardHow
<1>10. ASSUME r \notin oldW', pc'[q] \in {"prune", "retire"} PROVE Left(r)'
  <2>1. CASE DeleteRow(q)
    <3>1. pc[q] = "delete" /\ row[q] \in RowsOf(r) /\ workos' = WorkosDeletes(row[q]) /\ op = "DELETE"
      BY <1>1, <2>1, DeleteDoes
    <3>2. row[q] = map[r] /\ Standing(r) = {map[r]}
      BY <1>0, <1>1, <1>2, <1>10, <3>1 DEF Follows
    <3>3. /\ WorkosDeletes(row[q])[row[q]] =
               IF workos[row[q]] # None /\ Retains /\ r \in Users THEN "inactive" ELSE None
          /\ \A s \in Res : \A x \in RowsOf(s) \ {row[q]} :
               WorkosDeletes(row[q])[x] = IF workos[row[q]] # None /\ ~Retains /\ r \in Users /\ s \in Groups
                                             /\ workos[x] # None
                                          THEN workos[x] \ {row[q]} ELSE workos[x]
      BY <1>0, <3>1, InvFacts, DeletedRows
    <3>4. Retains' = Retains
      BY GapStep DEF setting, Retains
    <3>5. \A x \in RowsOf(r) \ {row[q]} : workos'[x] = None
      <4>1. \A x \in RowsOf(r) \ {row[q]} : workos[x] = None
        BY <3>2, StandingIs
      <4> QED
        BY <1>0, <3>1, <3>3, <4>1
    <3>6. \A x \in Standing(r)' : x = row[q]
      BY <3>5 DEF Standing, RowsOf
    <3>7. workos'[row[q]] # None => r \in Users /\ Retains /\ workos'[row[q]] = "inactive"
      BY <3>1, <3>3
    <3>8. \A x \in Standing(r)' : workos'[x] # None
      BY DEF Standing
    <3> QED
      BY <3>4, <3>6, <3>7, <3>8 DEF Left
  <2>2. CASE ~DeleteRow(q)
    <3>1. pc[q] \in {"prune", "retire"}
      <4>1. ~Load(q)
        BY <1>0, <1>10, LoadDoes
      <4> QED
        BY <1>10, <2>2, <4>1, OnwardHow DEF Keeps, Dancing, Proceeds, Lingers
    <3>2. Left(r)
      BY <1>0, <1>1, <1>2, <1>10, <3>1 DEF Follows
    <3>3. ~WritesRow(q)
      BY <1>0, <2>2, <3>1, DanceDoes DEF WritesRow, PatchHits, PatchAnswerLost, Dancing
    <3>4. \A p \in Proc : WritesRow(p) => req[p].res # r
      BY <1>1, <3>3, RowsOn
    <3> QED
      BY <1>0, <3>2, <3>4, LeftStays
  <2> QED
    BY <2>1, <2>2
<1>11. ASSUME r \notin oldW', pc'[q] = "retire" PROVE map'[r] = None
  <2>1. CASE Lingers(q)
    BY <1>0, <1>1, <2>1, InvFacts DEF Lingers, PruneMapping
  <2>2. CASE ~Lingers(q)
    <3>1. pc[q] = "retire"
      <4>1. ~Load(q)
        BY <1>0, <1>11, LoadDoes
      <4>2. ~DeleteRow(q)
        BY <1>0, <1>11, DeleteDoes, InvFacts
      <4> QED
        BY <1>11, <2>2, <4>1, <4>2, OnwardHow DEF Keeps, Dancing, Proceeds
    <3>2. map[r] = None
      BY <1>0, <1>1, <1>2, <1>11, <3>1 DEF Follows
    <3> QED
      BY <1>0, <3>1, <3>2 DEF PruneMapping
  <2> QED
    BY <2>1, <2>2
<1> QED
  BY <1>1, <1>3, <1>4, <1>5, <1>7, <1>8, <1>9, <1>10, <1>11 DEF Follows, SameAsk

LEMMA FollowingStays == ASSUME Inv, [Next]_vars PROVE Following'
<1> SUFFICES ASSUME NEW q \in Req, Busy(q)'
             PROVE  /\ req'[q].mode = "passthrough" => req'[q].res \in oldW'
                    /\ ~crossed'[q] /\ req'[q].mode # "passthrough" => Follows(q)'
  BY DEF Following
<1>1. CASE ~Busy(q)
  <2>1. ~crossed'[q] /\ req'[q].mode # "passthrough" => Follows(q)'
    BY <1>1, FollowsAnew
  <2>2. req'[q].mode = "passthrough" => req'[q].res \in oldW'
    <3>1. CASE BeginsMirror(q)
      BY <3>1 DEF BeginsMirror, NativeLeg
    <3>2. CASE BeginsDelete(q) /\ SameAsk(q)
      BY <3>2 DEF BeginsDelete, SameAsk
    <3>3. ASSUME NEW op \in Op, NEW r \in Res, NEW v \in Content(r), Receive(q, op, r, v), mode = "workos-only"
          PROVE  req'[q].mode # "passthrough"
      BY <3>3, ReceiveDoes
    <3> QED
      BY <1>1, <3>1, <3>2, <3>3, BusyFrom
  <2> QED
    BY <2>1, <2>2
<1>2. CASE Busy(q)
  <2>0. SameAsk(q)
    <3>1. ~BeginsMirror(q) /\ ~BeginsDelete(q)
      BY <1>2 DEF BeginsMirror, BeginsDelete, Busy
    <3>2. ASSUME NEW op, NEW r, NEW v, Receive(q, op, r, v) PROVE FALSE
      BY <1>2, <3>2 DEF Receive, Busy
    <3> QED
      BY <3>1, <3>2, BusyFrom
  <2>1. ~crossed'[q] /\ req'[q].mode # "passthrough" => Follows(q)'
    BY <1>2, <2>0, FollowsOn DEF SameAsk
  <2>2. ASSUME req'[q].mode = "passthrough" PROVE req'[q].res \in oldW'
    <3>0. req[q].mode = "passthrough" /\ req'[q].res = req[q].res /\ req[q].res \in oldW /\ q \in Proc
      BY <1>2, <2>0, <2>2, InvFacts, ProcMembers DEF SameAsk, Following
    <3>1. req[q].res \in Res
      BY <1>2, <3>0, AtRes DEF Busy
    <3>2. ASSUME NEW p \in Req, Repairs(p), req[p].res = req[q].res PROVE FALSE
      <4>1. p # q
        BY <3>0, <3>2, InvFacts DEF Repairs, Record, Kinds
      <4> QED
        BY <1>2, <3>2, <4>1, InvFacts DEF Crossing, Repairs, Record, Busy, Touches
    <3>3. ~(Queued(req[q].res) /\ req[q].res \notin stale \cup oldN)
      BY <1>2, InvFacts DEF Crossing, Copied
    <3> QED
      BY <3>0, <3>1, <3>2, <3>3, OldWCause
  <2> QED
    BY <2>1, <2>2
<1> QED
  BY <1>1, <1>2

-----------------------------------------------------------------------------
(* What the backfill carries *)

LEMMA CopyKept ==
    ASSUME Inv, [Next]_vars, NEW r \in Res, Copied(r), r \notin stale', ~NoneCopied
    PROVE  /\ r \notin stale /\ ~CleanWorkos
           /\ r \in oldN => r \in oldN'
           /\ \A q \in Req : Busy(q) => req[q].res # r
           /\ \A q \in Req : Tells(q) => req[q].res # r
           /\ \A p \in Proc : WritesRow(p) /\ req[p].res = r => p = Filler /\ Dance(Filler) /\ Filling(r)
<1>1. r \notin stale /\ r \in Captured
  BY StaleGrows, CapturedIs
<1>2. ~CleanWorkos
  BY <1>1 DEF CleanWorkos
<1>3. \A q \in Req : Busy(q) => req[q].res # r
  BY <1>1, InvFacts DEF Crossing
<1>4. ASSUME NEW q \in Req, Tells(q), req[q].res = r PROVE FALSE
  <2>1. Cross(q, req[q]) => r \in stale'
    BY <1>1, <1>4 DEF Cross
  <2>2. NativeLeg(q) => Cross(q, req[q])
    BY DEF NativeLeg
  <2>3. NativeRefuses(q) /\ req[q].op = "DELETE" => Cross(q, req[q])
    BY DEF NativeRefuses
  <2>4. ~Concludes(q)
    BY <1>3, <1>4 DEF Concludes
  <2> QED
    BY <1>4, <2>1, <2>2, <2>3, <2>4 DEF Tells
<1>5. r \in oldN => r \in oldN'
  <2>1. ASSUME NEW q \in Req, NativeLeg(q), req[q].res = r PROVE FALSE
    BY <1>4, <2>1 DEF Tells
  <2> QED
    BY <2>1, OldNCause
<1>6. ASSUME NEW p \in Proc, WritesRow(p), req[p].res = r PROVE p = Filler /\ Dance(Filler) /\ Filling(r)
  <2>1. pc[p] \notin {"idle", "native"} /\ p \in Req \cup {Filler}
    <3>1. Dance(p) => pc[p] \in Dancing
      BY DanceDoes
    <3>2. p \in Req /\ (PatchHits(p) \/ PatchAnswerLost(p)) => pc[p] = "patch"
      BY PatchDoes
    <3>3. p \in Req /\ DeleteRow(p) => pc[p] = "delete"
      BY DeleteDoes
    <3> QED
      BY <1>6, <3>1, <3>2, <3>3 DEF WritesRow, Dancing, Proc
  <2>2. p = Filler
    BY <1>3, <1>6, <2>1 DEF Busy
  <2> QED
    BY <1>6, <2>1, <2>2, ProcMembers DEF WritesRow, Filling
<1> QED
  BY <1>1, <1>2, <1>3, <1>4, <1>5, <1>6

LEMMA NamedStays ==
    ASSUME Inv, [Next]_vars, NEW g \in Groups, want[g] # None, NEW u \in Users, u \in want'[g],
           \A q \in Req : Tells(q) => req[q].res # g
    PROVE  u \in want[g] /\ (want'[u] = None => want[u] = None)
<1>0. g \in Res /\ u \in Res /\ g \notin Users /\ u # g
  BY KindFacts
<1>1. ASSUME NEW q \in Req, Tells(q), want' = Applied(want, req[q].res, req[q].op, req[q].val)
      PROVE  u \in want[g] /\ (want'[u] = None => want[u] = None)
  <2>1. \A x \in Res \ {req[q].res} :
          /\ want'[x] = IF req[q].op = "DELETE" THEN Off(x, want[x], req[q].res) ELSE want[x]
          /\ want'[x] = None <=> want[x] = None
    BY <1>1, TellsWhat
  <2>2. req[q].res # g
    BY <1>1
  <2>3. want'[g] = IF req[q].op = "DELETE" THEN Off(g, want[g], req[q].res) ELSE want[g]
    BY <1>0, <2>1, <2>2
  <2>4. u \in want[g]
    BY <2>3 DEF Off
  <2>5. ASSUME req[q].res = u, want'[u] = None PROVE FALSE
    <3>1. req[q].op = "DELETE"
      BY <1>1, <2>5, TellsWhat
    <3> QED
      BY <1>0, <2>3, <2>5, <3>1 DEF Off
  <2> QED
    BY <1>0, <2>1, <2>4, <2>5
<1> QED
  BY <1>1, WantCause

LEMMA FillerFollowsStays == ASSUME Inv, [Next]_vars PROVE FillerFollows'
<1>1. PICK r : r = req'[Filler].res
  OBVIOUS
<1>2. PICK v : v = req'[Filler].val
  OBVIOUS
<1>3. PICK b : b = body'[Filler]
  OBVIOUS
<1> SUFFICES ASSUME pc'[Filler] # "idle", r \notin stale' \cup oldN', ~crossed'[Filler]
             PROVE  /\ IF r \in Users THEN b = v
                       ELSE /\ b \subseteq UNION {RowsOf(u) : u \in v}
                            /\ \A u \in v : /\ want'[u] # None => In(u, b) = {Translate(map, u)'}
                                            /\ u \in want'[r] => want'[u] # None \/ Doomed(u)'
                    /\ pc'[Filler] = "record" => Standing(r)' = {row'[Filler]} /\ Right(r, row[Filler])'
  BY <1>1, <1>2, <1>3 DEF FillerFollows
<1>0. Filler \in Proc /\ ~NoneCopied
  BY ProcMembers DEF NoneCopied
<1>4. CASE FillRow
  <2>1. /\ r \in Res /\ v \in Content(r) /\ pc'[Filler] = "put" /\ 1 \in DOMAIN snap /\ snap[1][1] = r /\ snap[1][2] = v
        /\ b = (IF r \in Groups THEN {Translate(map, u) : u \in v} ELSE v)
        /\ stale' = IF r \in Groups /\ \E u \in v : map[u] = None THEN stale \cup {r} ELSE stale
        /\ UNCHANGED <<upstreams, tables, stage, sink, want, oldN, oldW, held, ever, wrote, spent>>
    BY <1>1, <1>2, <1>3, <1>4, FillRowDoes
  <2>2. map' = map /\ want' = want
    BY <2>1 DEF tables
  <2>3. CASE r \in Users
    BY <2>1, <2>3, KindFacts
  <2>4. CASE r \notin Users
    <3>1. r \in Groups /\ v \in SUBSET Users
      BY <2>1, <2>4 DEF Res, Content
    <3>2. \A u \in v : u \in Res /\ Translate(map, u) \in RowsOf(u)
      BY <3>1, TranslateFits, InvFacts, KindFacts
    <3>3. b = {Translate(map, u) : u \in v}
      BY <2>1, <3>1
    <3>4. b \subseteq UNION {RowsOf(u) : u \in v}
      BY <3>2, <3>3
    <3>5. ASSUME NEW u \in v PROVE In(u, b) = {Translate(map, u)'}
      <4>1. \A x \in v : Translate(map, x) \in RowsOf(u) => x = u
        BY <3>2, KindFacts
      <4>2. In(u, b) = {Translate(map, u)}
        BY <3>2, <3>3, <4>1 DEF In
      <4> QED
        BY <2>2, <4>2 DEF Translate
    <3>6. ASSUME NEW u \in v, u \in want'[r], want'[u] = None PROVE Doomed(u)'
      <4>0. u \in Users /\ u \in Res /\ map[u] # None /\ want[u] = None /\ u \in want[r]
        BY <2>1, <2>2, <3>1, <3>2, <3>6
      <4>1. Born(u)
        <5>1. Mentioned(u)
          BY <2>1, <3>1, <3>6 DEF Mentioned
        <5> QED
          BY <4>0, <5>1, InvFacts DEF BornFirst
      <4>2. Doomed(u)
        <5>1. want[r] # None
          <6>1. r \notin stale \cup oldN
            BY <2>1
          <6>2. native[r] = v
            BY <2>1, <6>1, InvFacts DEF Copies
          <6>3. v # None
            BY <2>1, ContentIsNoNone
          <6> QED
            BY <3>1, <6>1, <6>2, <6>3, InvFacts DEF NativeAgrees
        <5>2. CASE Resting(u) /\ u \notin oldW
          BY <4>0, <5>2, InvFacts DEF Holding, Mapped
        <5>3. ASSUME NEW q \in Req, Busy(q), req[q].res = u PROVE crossed[q]
          BY <3>1, <4>0, <5>1, <5>3, InvFacts DEF Dangling
        <5> QED
          BY <4>0, <5>2, <5>3 DEF Doomed, Resting
      <4> QED
        BY <4>0, <4>1, <4>2, DoomedStays
    <3> QED
      BY <2>1, <2>4, <3>4, <3>5, <3>6
  <2> QED
    BY <2>3, <2>4
<1>5. CASE Keeps(Filler) \/ Dance(Filler)
  <2>1. /\ req[Filler].res = r /\ req[Filler].val = v /\ body[Filler] = b
        /\ pc[Filler] \in Dancing /\ pc'[Filler] \in Dancing /\ r \in Res /\ v \in Content(r)
    <3>1. CASE Dance(Filler)
      <4>1. pc[Filler] \in Dancing /\ pc'[Filler] \in Dancing /\ UNCHANGED DanceFrame
        BY <1>0, <3>1, DanceDoes
      <4> QED
        BY <1>0, <1>1, <1>2, <1>3, <4>1, AtRes DEF DanceFrame, Dancing
    <3>2. CASE Keeps(Filler)
      <4>1. pc[Filler] # "idle" /\ pc'[Filler] = pc[Filler] /\ req'[Filler] = req[Filler] /\ body'[Filler] = body[Filler]
        BY <3>2 DEF Keeps
      <4> QED
        BY <1>0, <1>1, <1>2, <1>3, <4>1, AtRes, InvFacts DEF Kinds
    <3> QED
      BY <1>5, <3>1, <3>2
  <2>2. Filling(r) /\ Copied(r) /\ pc[Filler] # "idle" /\ Busy(Filler)
    BY <2>1 DEF Filling, Copied, Dancing, Busy
  <2>3. /\ r \notin stale /\ ~CleanWorkos /\ r \notin oldN
        /\ \A q \in Req : Busy(q) => req[q].res # r
        /\ \A q \in Req : Tells(q) => req[q].res # r
        /\ \A p \in Proc : WritesRow(p) /\ req[p].res = r => p = Filler /\ Dance(Filler) /\ Filling(r)
    BY <1>0, <2>1, <2>2, CopyKept
  <2>4. ~crossed[Filler]
    BY <1>0, <2>2, CrossedGrows
  <2>5. /\ r \in Users => b = v
        /\ r \notin Users => /\ b \subseteq UNION {RowsOf(u) : u \in v}
                             /\ \A u \in v : /\ want[u] # None => In(u, b) = {Translate(map, u)}
                                             /\ u \in want[r] => want[u] # None \/ Doomed(u)
        /\ pc[Filler] = "record" => Standing(r) = {row[Filler]} /\ Right(r, row[Filler])
    BY <2>1, <2>2, <2>3, <2>4, InvFacts DEF FillerFollows
  <2>6. native[r] = v
    BY <2>1, <2>2, <2>3, InvFacts DEF Copies
  <2>7. /\ want[r] # None /\ r \in Users => want[r] = v
        /\ r \in Groups => want[r] \subseteq v /\ \A u \in v \ want[r] : u \in oldN /\ want[u] = None
    <3>1. v # None
      BY <2>1, ContentIsNoNone
    <3> QED
      BY <2>1, <2>3, <2>6, <3>1, InvFacts DEF NativeAgrees, Res
  <2>8. want[r] # None
    <3>1. v # None
      BY <2>1, ContentIsNoNone
    <3> QED
      BY <2>1, <2>3, <2>6, <3>1, InvFacts DEF NativeAgrees, Res
  <2>9. ASSUME NEW u \in v, r \notin Users
        PROVE  /\ want'[u] # None => In(u, b) = {Translate(map, u)'}
               /\ u \in want'[r] => want'[u] # None \/ Doomed(u)'
    <3>0. u \in Users /\ u \in Res /\ r \in Groups /\ u \in Members(req[Filler])
      BY <2>1, <2>9, KindFacts DEF Res, Content, Members
    <3>1. Born(u)
      <4>1. Mentioned(u)
        BY <1>0, <3>0 DEF Mentioned
      <4> QED
        BY <3>0, <4>1, InvFacts DEF BornFirst
    <3>2. ASSUME want'[u] # None PROVE In(u, b) = {Translate(map, u)'}
      <4>1. want[u] # None
        BY <3>0, <3>1, <3>2, DeadStays
      <4>2. Translate(map, u)' = Translate(map, u)
        <5>1. ASSUME Translate(map, u)' # Translate(map, u) PROVE FALSE
          <6>1. \A p \in Proc : u \in Members(req[p]) => crossed'[p]
            BY <3>0, <3>2, <5>1, Renamed
          <6> QED
            BY <1>0, <3>0, <6>1
        <5> QED
          BY <5>1
      <4> QED
        BY <2>5, <2>9, <4>1, <4>2
    <3>3. ASSUME u \in want'[r], want'[u] = None PROVE Doomed(u)'
      <4>1. u \in want[r] /\ want[u] = None
        BY <2>3, <2>8, <3>0, <3>3, NamedStays
      <4>2. Doomed(u)
        BY <2>5, <2>9, <4>1
      <4> QED
        BY <3>0, <3>1, <4>2, DoomedStays
    <3> QED
      BY <3>2, <3>3
  <2>10. ASSUME pc'[Filler] = "record" PROVE Standing(r)' = {row'[Filler]} /\ Right(r, row[Filler])'
    <3>1. CASE Dance(Filler)
      <4>1. PICK w : w = row'[Filler]
        OBVIOUS
      <4>2. Standing(r)' = {w} /\ workos'[w] = b
        BY <1>0, <2>1, <2>10, <3>1, <4>1, DanceWrites
      <4>3. map' = map /\ want' = want /\ oldN' = oldN /\ oldW' = oldW /\ crossed' = crossed /\ req' = req
        BY <1>0, <3>1, DanceDoes DEF DanceFrame
      <4>4. CASE r \in Users
        BY <2>5, <2>7, <2>8, <4>1, <4>2, <4>3, <4>4 DEF Right
      <4>5. CASE r \notin Users
        <5>0. r \in Groups /\ v \in SUBSET Users
          BY <2>1, <4>5 DEF Res, Content
        <5>1. ASSUME NEW u \in Users PROVE FitsUser(r, b, u)'
          <6>0. u \in Res /\ want'[u] = want[u] /\ want'[r] = want[r] /\ Translate(map, u)' = Translate(map, u)
            BY <4>3, KindFacts DEF Translate
          <6>1. u \notin v => In(u, b) = {} /\ u \notin want'[r]
            <7>1. ASSUME u \notin v, NEW x \in b, x \in RowsOf(u) PROVE FALSE
              <8>1. PICK y \in v : x \in RowsOf(y)
                BY <2>5, <4>5, <7>1
              <8> QED
                BY <5>0, <6>0, <7>1, <8>1, KindFacts
            <7> QED
              BY <2>7, <5>0, <6>0, <7>1 DEF In
          <6>2. ASSUME u \in v PROVE FitsUser(r, b, u)'
            <7>1. u \in want'[r] => want'[u] # None \/ Doomed(u)'
              BY <2>9, <4>5, <6>2
            <7>2. want'[u] # None => In(u, b) = {Translate(map, u)'} /\ u \in want'[r]
              BY <2>7, <2>9, <4>5, <5>0, <6>0, <6>2
            <7>3. want'[u] = None /\ ~Doomed(u)' => u \in oldN'
              BY <2>7, <4>3, <5>0, <6>0, <6>2, <7>1
            <7> QED
              BY <7>1, <7>2, <7>3 DEF FitsUser
          <6>3. u \notin v => FitsUser(r, b, u)'
            BY <6>1 DEF FitsUser
          <6> QED
            BY <6>2, <6>3
        <5> QED
          BY <2>8, <4>1, <4>2, <4>3, <4>5, <5>1 DEF Right, Fits
      <4> QED
        BY <4>1, <4>2, <4>4, <4>5
    <3>2. CASE Keeps(Filler) /\ ~Dance(Filler)
      <4>1. pc[Filler] = "record" /\ row'[Filler] = row[Filler]
        BY <2>10, <3>2 DEF Keeps
      <4>2. PICK w : w = row[Filler]
        OBVIOUS
      <4>3. Standing(r) = {w} /\ Right(r, w)
        BY <2>5, <4>1, <4>2
      <4>4. w \in RowsOf(r) /\ workos[w] # None
        BY <4>3, StandingIs
      <4>5. \A p \in Proc : WritesRow(p) => req[p].res # r
        BY <2>3, <3>2
      <4>6. Kept(r)
        BY <1>1 DEF Kept, Filling
      <4>7. Right(r, w)'
        BY <2>1, <2>3, <4>3, <4>4, <4>5, <4>6, RightStays
      <4>8. Standing(r)' = Standing(r)
        BY <2>1, <2>3, <4>5, RowsElse
      <4> QED
        BY <4>1, <4>2, <4>3, <4>7, <4>8
    <3> QED
      BY <1>5, <3>1, <3>2
  <2> QED
    BY <2>5, <2>9, <2>10
<1> QED
  BY <1>4, <1>5, FillerMoves

(* A row queued as the last one written is right as it is queued.               *)
LEMMA RightUnchanged ==
    ASSUME NEW r, NEW w, Right(r, w), UNCHANGED <<site, workos, map, want, oldN, oldW, crossed>>,
           \A q \in Req : pc'[q] = pc[q] /\ req'[q] = req[q]
    PROVE  Right(r, w)'
<1>1. \A u \in Users : /\ (Doomed(u)' <=> Doomed(u)) /\ (Pruning(u)' <=> Pruning(u))
                       /\ Standing(u)' = Standing(u) /\ Translate(map, u)' = Translate(map, u)
  BY DEF Doomed, Pruning, Busy, Standing, Translate
<1>2. CASE r \in Users
  BY <1>2 DEF Right
<1>3. CASE r \notin Users
  <2>1. ASSUME NEW u \in Users PROVE FitsUser(r, workos[w], u)'
    <3>1. FitsUser(r, workos[w], u)
      BY <1>3 DEF Right, Fits
    <3>2. (Doomed(u)' <=> Doomed(u)) /\ (Pruning(u)' <=> Pruning(u))
          /\ Standing(u)' = Standing(u) /\ Translate(map, u)' = Translate(map, u)
      BY <1>1
    <3> QED
      BY <3>1, <3>2 DEF FitsUser
  <2> QED
    BY <1>3, <2>1 DEF Right, Fits
<1> QED
  BY <1>2, <1>3

LEMMA SinkFollowsStays == ASSUME Inv, [Next]_vars PROVE SinkFollows'
<1> SUFFICES ASSUME NEW i \in DOMAIN sink', NEW r, r = sink'[i][1], r \notin stale' \cup oldN',
                    NEW w, w = sink'[i][2]
             PROVE  Standing(r)' = {w} /\ Right(r, w)'
  BY DEF SinkFollows
<1>1. ~NoneCopied /\ Filler \in Proc
  BY ProcMembers DEF NoneCopied
<1>2. CASE i \in DOMAIN sink /\ sink'[i] = sink[i]
  <2>1. r \in Res /\ w \in RowsOf(r) /\ Queued(r) /\ Queued(r)'
    BY <1>2, InvFacts DEF RowsFit, Queued
  <2>2. Copied(r) /\ ~Filling(r)
    BY <2>1, InvFacts DEF Copied, Distinct
  <2>3. /\ r \notin stale /\ ~CleanWorkos /\ r \notin oldN
        /\ \A q \in Req : Tells(q) => req[q].res # r
        /\ \A p \in Proc : WritesRow(p) => req[p].res # r
    BY <1>1, <2>1, <2>2, CopyKept
  <2>4. Standing(r) = {w} /\ Right(r, w)
    BY <1>2, <2>3, InvFacts DEF SinkFollows
  <2>5. workos[w] # None
    BY <2>4, StandingIs
  <2>6. Kept(r)
    BY <2>1 DEF Kept
  <2>7. Standing(r)' = Standing(r)
    BY <2>1, <2>3, RowsElse
  <2> QED
    BY <2>1, <2>3, <2>4, <2>5, <2>6, <2>7, RightStays
<1>3. CASE FillRecord /\ sink'[i] = <<req[Filler].res, row[Filler]>>
  <2>1. r = req[Filler].res /\ w = row[Filler] /\ pc[Filler] = "record"
    BY <1>3 DEF FillRecord
  <2>2. /\ UNCHANGED <<site, workos, map, want, oldN, oldW, crossed>>
        /\ stale' = (IF crossed[Filler] THEN stale \cup {r} ELSE stale)
        /\ pc' = [pc EXCEPT ![Filler] = "idle"] /\ req' = [req EXCEPT ![Filler] = NoReq]
    BY <1>3, <2>1 DEF FillRecord, Reset, upstreams, tables, setting
  <2>3. Standing(r) = {w} /\ Right(r, w)
    BY <2>1, <2>2, InvFacts DEF FillerFollows
  <2>4. \A q \in Req : pc'[q] = pc[q] /\ req'[q] = req[q]
    BY <2>2, ProcMembers, InvFacts
  <2>5. Right(r, w)'
    BY <2>2, <2>3, <2>4, RightUnchanged
  <2>6. Standing(r)' = Standing(r)
    BY <2>2 DEF Standing
  <2> QED
    BY <2>3, <2>5, <2>6
<1> QED
  <2>1. CASE sink' = sink
    BY <1>2, <2>1
  <2>2. sink' # <<>>
    OBVIOUS
  <2> QED
    BY <1>2, <1>3, <2>1, <2>2, SinkFrom

(* At first nothing is mapped and nothing is under way: WorkOS is empty, or     *)
(* has the one user workos-primary created.                                     *)
LEMMA InitConv == Init => ConvInv
<1> SUFFICES ASSUME Init PROVE ConvInv
  OBVIOUS
<1>0. /\ map = [r \in Res |-> None] /\ pc = [p \in Proc |-> "idle"] /\ req = [p \in Proc |-> NoReq]
      /\ body = [p \in Proc |-> None] /\ snap = <<>> /\ sink = <<>> /\ stage = "off"
      /\ crossed = [p \in Proc |-> FALSE] /\ oldW = {r \in Res : want[r] # None}
      /\ before = {r \in Res : want[r] # None} /\ ever = before
  BY DEF Init
<1>1. PICK there \in SUBSET Res :
        /\ native = [r \in Res |-> IF r \notin there THEN None
                                   ELSE IF r \in Users THEN "active" ELSE there \cap Users]
        /\ \E listed \in {{}} \cup {{u} : u \in Users} :
            /\ oldN = listed \ there
            /\ want = [r \in Res |-> IF r \in oldN THEN "active" ELSE native[r]]
            /\ workos = [w \in Row |-> IF w \in oldN THEN "active" ELSE None]
  BY DEF Init
<1>2. /\ oldN \subseteq Users /\ oldN \cap there = {}
      /\ want = [r \in Res |-> IF r \in oldN THEN "active" ELSE native[r]]
      /\ workos = [w \in Row |-> IF w \in oldN THEN "active" ELSE None]
  BY <1>1
<1>3. native = [r \in Res |-> IF r \notin there THEN None
                              ELSE IF r \in Users THEN "active" ELSE there \cap Users]
  BY <1>1
<1>4. there \cap Users # None /\ "active" # None /\ "active" \in Flag
  BY NoneAssumption DEF Row, Res, Flag
<1>5. \A p \in Proc : pc[p] = "idle" /\ req[p] = NoReq /\ ~Busy(p) /\ Members(req[p]) = {} /\ crossed[p] \in BOOLEAN
  BY <1>0, KindAssumption DEF Busy, Members, NoReq
<1>6. Filler \in Proc /\ Req \subseteq Proc /\ DOMAIN snap = {} /\ DOMAIN sink = {}
  BY <1>0, ProcMembers
<1>7. ASSUME NEW r \in Res, NEW w \in RowsOf(r)
      PROVE  workos[w] = (IF w \in oldN THEN "active" ELSE None) /\ (w \in oldN => w = r)
  <2>1. w \in Row
    BY RowFacts
  <2>2. Mint(r) \notin oldN
    BY <1>2, MintAssumption DEF Res
  <2> QED
    BY <1>2, <2>1, <2>2 DEF RowsOf
<1>8. ASSUME NEW g \in Groups PROVE /\ g \in Res /\ g \notin oldN /\ want[g] = native[g]
                                    /\ native[g] = IF g \in there THEN there \cap Users ELSE None
                                    /\ \A w \in RowsOf(g) : workos[w] = None
  <2>1. g \in Res /\ g \notin Users /\ g \notin oldN
    BY <1>2, KindFacts
  <2> QED
    BY <1>2, <1>3, <1>7, <2>1
<1>9. ASSUME NEW u \in Users PROVE /\ u \in Res /\ want[u] = IF u \in oldN \/ u \in there THEN "active" ELSE None
                                   /\ u \notin oldN => native[u] = want[u]
                                   /\ native[u] # None => u \in there
  BY <1>2, <1>3, KindFacts
<1>10. Kinds
  <2>1. \A r \in Res : want[r] \in Content(r) \cup {None}
    BY <1>4, <1>8, <1>9 DEF Res, Content
  <2>2. \A u \in Users : \A w \in RowsOf(u) : workos[w] \in Flag \cup {None}
    BY <1>4, <1>7, <1>9
  <2>3. \A g \in Groups : \A w \in RowsOf(g) : workos[w] = None \/ workos[w] \subseteq UserRows
    BY <1>8
  <2>4. crossed \in [Proc -> BOOLEAN] /\ body = [p \in Proc |-> body[p]]
    BY <1>0
  <2>5. \A p \in Proc : BodyFits(p)
    BY <1>5 DEF BodyFits, Dancing
  <2> QED
    BY <1>5, <1>6, <2>1, <2>2, <2>3, <2>4, <2>5 DEF Kinds, Dancing
<1>11. BornFirst
  <2>1. \A r \in Res : want[r] # None => Born(r)
    BY <1>0, <1>5, <1>6 DEF Born, Unanswered
  <2>2. \A r \in Res : native[r] # None => r \in ever
    BY <1>0, <1>4, <1>8, <1>9 DEF Res
  <2>3. ASSUME NEW u \in Users, Mentioned(u) PROVE Born(u)
    <3>1. u \in there
      BY <1>4, <1>5, <1>6, <1>8, <2>3 DEF Mentioned, Dancing
    <3> QED
      BY <1>4, <1>9, <2>1, <3>1
  <2> QED
    BY <2>1, <2>2, <2>3 DEF BornFirst
<1>12. NativeAgrees
  BY <1>8, <1>9 DEF NativeAgrees
<1>13. OneRow
  BY <1>7, MintAssumption DEF OneRow, RowsOf
<1>14. Distinct /\ Stages /\ Copies /\ FillerFollows /\ SinkFollows
  <2>1. pc[Filler] = "idle"
    BY <1>5, <1>6
  <2>2. Distinct
    BY <1>6, <2>1 DEF Distinct, InSnap, Filling, Queued
  <2>3. Stages
    BY <1>0, <1>6, <2>1 DEF Stages
  <2>4. Copies /\ FillerFollows /\ SinkFollows
    BY <1>6, <2>1 DEF Copies, FillerFollows, SinkFollows
  <2> QED
    BY <2>2, <2>3, <2>4
<1>15. Asked /\ Crossing /\ Dangling /\ Following
  BY <1>5, <1>6 DEF Asked, Crossing, Dangling, Following, Unanswered
<1>16. Holding
  <2>1. ASSUME NEW r \in Res \ oldW PROVE Mapped(r) /\ Left(r) /\ want[r] = None
    <3>1. want[r] = None /\ map[r] = None
      BY <1>0, <2>1
    <3>2. r \notin oldN
      BY <1>2, <1>4, <1>9, <3>1
    <3>3. Standing(r) = {}
      BY <1>7, <3>2, StandingIs
    <3> QED
      BY <3>1, <3>3 DEF Mapped, Left
  <2> QED
    BY <2>1 DEF Holding
<1> QED
  BY <1>10, <1>11, <1>12, <1>13, <1>14, <1>15, <1>16 DEF ConvInv

LEMMA ConvNext == Inv /\ [Next]_vars => Inv'
<1> SUFFICES ASSUME Inv, [Next]_vars PROVE Inv'
  OBVIOUS
<1>1. (Ind /\ GapInd)'
  BY NextInd, GapNext DEF Inv
<1>2. (Kinds /\ Asked /\ BornFirst /\ NativeAgrees /\ OneRow /\ Distinct /\ Stages /\ Copies)'
  BY KindsStays, AskedStays, BornFirstStays, NativeAgreesStays, OneRowStays, DistinctStays, StagesStays, CopiesStays
<1>3. (Crossing /\ Dangling /\ Holding /\ Following /\ FillerFollows /\ SinkFollows)'
  BY CrossingStays, DanglingStays, HoldingStays, FollowingStays, FillerFollowsStays, SinkFollowsStays
<1> QED
  BY <1>1, <1>2, <1>3 DEF Inv, ConvInv

(* When nothing is under way. *)
LEMMA AtRest ==
    ASSUME Inv, Quiet, NEW r \in Res \ oldW
    PROVE  /\ Mapped(r) /\ IF want[r] = None THEN Left(r) ELSE Right(r, map[r])
           /\ ~Doomed(r) /\ ~Pruning(r)
           /\ want[r] # None => map[r] \in RowsOf(r) /\ map[r] # None /\ workos[map[r]] # None
<1>1. \A p \in Proc : pc[p] = "idle"
  BY DEF Quiet
<1>2. Resting(r) /\ ~Filling(r) /\ ~Queued(r)
  <2>1. DOMAIN sink = {}
    BY InvFacts DEF Quiet, Stages
  <2> QED
    BY <1>1, <2>1, ProcMembers DEF Resting, Busy, Filling, Queued
<1>3. Mapped(r) /\ IF want[r] = None THEN Left(r) ELSE Right(r, map[r])
  BY <1>2, InvFacts DEF Holding
<1>4. ~Doomed(r) /\ ~Pruning(r)
  BY <1>1, ProcMembers DEF Doomed, Pruning, Busy
<1>5. ASSUME want[r] # None PROVE map[r] \in RowsOf(r) /\ map[r] # None /\ workos[map[r]] # None
  <2>1. map[r] \in RowsOf(r) /\ workos[map[r]] # None
    BY <1>3, <1>5, StandingIs DEF Mapped
  <2> QED
    BY <2>1, RowFacts
<1> QED
  BY <1>3, <1>4, <1>5

(* What a group's row then has of a user known to WorkOS.                       *)
LEMMA MembersAtRest ==
    ASSUME Inv, Quiet, NEW g \in Groups, g \notin oldW, want[g] # None, NEW u \in Users, u \notin oldW
    PROVE  /\ u \in want[g] => want[u] # None
           /\ want[u] # None => In(u, workos[map[g]]) = IF u \in want[g] THEN {map[u]} ELSE {}
           /\ want[u] = None /\ u \notin oldN => In(u, workos[map[g]]) \subseteq Standing(u)
<1>1. g \in Res /\ u \in Res /\ g \notin Users
  BY KindFacts
<1>2. FitsUser(g, workos[map[g]], u)
  BY <1>1, AtRest DEF Right, Fits
<1>3. ~Doomed(u) /\ ~Pruning(u) /\ (want[u] # None => map[u] # None)
  BY <1>1, AtRest
<1> QED
  BY <1>2, <1>3 DEF FitsUser, Translate

LEMMA Converge == Inv => MirrorsConverge
<1> SUFFICES ASSUME Inv, Quiet PROVE (\A r \in Res \ oldW : WorkosHolds(r)) /\ (\A r \in Res \ oldN : NativeHolds(r))
  BY DEF MirrorsConverge
<1>1. ASSUME NEW r \in Res \ oldW PROVE WorkosHolds(r)
  <2>1. CASE want[r] = None
    BY <2>1, AtRest DEF WorkosHolds, Mapped, Left
  <2>2. CASE want[r] # None /\ r \in Users
    BY <2>2, AtRest DEF WorkosHolds, Mapped, Right
  <2>3. CASE want[r] # None /\ r \notin Users
    <3> DEFINE c == workos[map[r]]
    <3>0. r \in Groups /\ c \subseteq UserRows
      BY <2>3, AtRest, InvFacts DEF Res, Kinds
    <3>1. want[r] \subseteq Users
      BY <2>3, <3>0, InvFacts DEF Kinds, Content
    <3>2. ASSUME NEW w \in c, Of(w) \notin oldW, want[Of(w)] # None
          PROVE  \E u \in want[r] \ oldW : w = map[u]
      <4>1. PICK u \in Users : w \in RowsOf(u)
        BY <3>0 DEF UserRows
      <4>2. Of(w) = u /\ w \in In(u, c)
        BY <4>1, RowFacts, KindFacts DEF In
      <4>3. In(u, c) = IF u \in want[r] THEN {map[u]} ELSE {}
        BY <2>3, <3>0, <3>2, <4>2, MembersAtRest
      <4> QED
        BY <3>2, <4>2, <4>3
    <3>3. ASSUME NEW u \in want[r] \ oldW PROVE map[u] \in c /\ Of(map[u]) = u /\ want[u] # None
      <4>1. u \in Users /\ u \in Res
        BY <3>1, KindFacts
      <4>2. want[u] # None /\ In(u, c) = {map[u]}
        BY <2>3, <3>0, <4>1, MembersAtRest
      <4>3. map[u] \in RowsOf(u)
        BY <4>1, <4>2, AtRest
      <4> QED
        BY <4>1, <4>2, <4>3, RowFacts DEF In
    <3>4. {w \in c : Of(w) \notin oldW /\ want[Of(w)] # None} = {map[u] : u \in want[r] \ oldW}
      BY <3>2, <3>3
    <3> QED
      BY <2>3, <3>4, AtRest DEF WorkosHolds, Mapped
  <2> QED
    BY <2>1, <2>2, <2>3
<1>2. ASSUME NEW r \in Res \ oldN PROVE NativeHolds(r)
  <2>1. CASE r \in Users
    BY <2>1, InvFacts DEF NativeHolds, NativeAgrees
  <2>2. CASE r \notin Users
    BY <2>2, InvFacts DEF NativeHolds, NativeAgrees, Res
  <2> QED
    BY <2>1, <2>2
<1> QED
  BY <1>1, <1>2

(* The panel sees a user the same on both sides, or what WorkOS keeps of it.    *)
LEMMA UserSeen ==
    ASSUME Inv, Quiet, NEW u \in Users, u \notin oldN \cup oldW
    PROVE  /\ ~UserDiverged(u)
           /\ want[u] = None /\ Standing(u) # {} => Tombstone(u)
<1>0. u \in Res
  BY KindFacts
<1>1. native[u] = want[u]
  BY InvFacts DEF NativeAgrees
<1>2. CASE want[u] = None
  <2>1. NativeSees(u) = "absent"
    BY <1>1, <1>2 DEF NativeSees, Presence
  <2>2. ASSUME Standing(u) # {} PROVE WorkosSees(u) = "inactive"
    <3>1. (CHOOSE w \in Standing(u) : TRUE) \in Standing(u)
      BY <2>2
    <3>2. \A w \in Standing(u) : workos[w] = "inactive"
      BY <1>0, <1>2, AtRest DEF Left
    <3> QED
      BY <2>2, <3>1, <3>2 DEF WorkosSees
  <2>3. Standing(u) = {} => WorkosSees(u) = "absent"
    BY DEF WorkosSees
  <2> QED
    BY <2>1, <2>2, <2>3 DEF UserDiverged, Tombstone
<1>3. CASE want[u] # None
  <2>1. Standing(u) = {map[u]} /\ workos[map[u]] = want[u]
    BY <1>0, <1>3, AtRest DEF Mapped, Right
  <2>2. WorkosSees(u) = want[u]
    BY <2>1 DEF WorkosSees
  <2>3. NativeSees(u) = want[u]
    BY <1>1, <1>3 DEF NativeSees, Presence
  <2> QED
    BY <1>3, <2>2, <2>3 DEF UserDiverged
<1> QED
  BY <1>2, <1>3

(* A row a group's row names is there, if it is of a user both sides are known  *)
(* to agree on: the panel names it by that user.                                *)
LEMMA NamesSeen ==
    ASSUME Inv, Quiet, NEW g \in Groups, g \notin oldW, want[g] # None, NEW w \in workos[map[g]],
           Of(NameOf(w)) \notin oldN \cup oldW
    PROVE  NameOf(w) \in Users /\ w \in In(NameOf(w), workos[map[g]])
<1>0. g \in Res /\ g \notin Users
  BY KindFacts
<1>1. workos[map[g]] \subseteq UserRows
  BY <1>0, AtRest, InvFacts DEF Kinds
<1>2. PICK u \in Users : w \in RowsOf(u)
  BY <1>1 DEF UserRows
<1>3. u \in Res /\ w \in Row /\ Of(w) = u /\ u \in RowsOf(u) /\ Of(u) = u /\ w \in In(u, workos[map[g]])
  BY <1>2, RowFacts, KindFacts, RowPair DEF In
<1>4. Of(NameOf(w)) = u
  BY <1>3 DEF NameOf
<1>5. u \notin oldN \cup oldW
  BY <1>4
<1>6. workos[w] # None
  <2>1. CASE want[u] = None
    <3>1. w \in Standing(u)
      BY <1>3, <1>5, <2>1, MembersAtRest
    <3> QED
      BY <3>1, StandingIs
  <2>2. CASE want[u] # None
    <3>1. w = map[u]
      BY <1>3, <1>5, <2>2, MembersAtRest
    <3> QED
      BY <1>3, <1>5, <2>2, <3>1, AtRest
  <2> QED
    BY <2>1, <2>2
<1>7. NameOf(w) = u
  BY <1>3, <1>6 DEF NameOf
<1> QED
  BY <1>3, <1>7

LEMMA PanelShows == Inv => PanelShowsNoDrift
<1> DEFINE known == Res \ (oldN \cup oldW)
<1> SUFFICES ASSUME Inv, Quiet
             PROVE  /\ \A u \in Users \cap known : ~UserDiverged(u)
                    /\ \A g \in Groups \cap known :
                        /\ ~PresenceDiverged(g)
                        /\ \A n \in NativeEdges(g) \cup WorkosEdges(g) : Of(n) \in known => ~EdgeDiverged(g, n)
  BY DEF PanelShowsNoDrift
<1>1. \A u \in Users \cap known : ~UserDiverged(u)
  BY UserSeen
<1>2. ASSUME NEW g \in Groups \cap known
      PROVE  /\ ~PresenceDiverged(g)
             /\ \A n \in NativeEdges(g) \cup WorkosEdges(g) : Of(n) \in known => ~EdgeDiverged(g, n)
  <2>0. g \in Res /\ g \notin Users /\ g \notin oldN /\ g \notin oldW
    BY <1>2, KindFacts
  <2>1. native[g] = None <=> want[g] = None
    BY <2>0, InvFacts DEF NativeAgrees
  <2>2. CASE want[g] = None
    <3>1. Standing(g) = {}
      BY <2>0, <2>2, AtRest DEF Left
    <3>2. NativeEdges(g) = {} /\ WorkosEdges(g) = {}
      BY <2>1, <2>2, <3>1 DEF NativeEdges, WorkosEdges
    <3> QED
      BY <2>1, <2>2, <3>1, <3>2 DEF PresenceDiverged
  <2>3. CASE want[g] # None
    <3> DEFINE c == workos[map[g]]
    <3>1. Standing(g) = {map[g]}
      BY <2>0, <2>3, AtRest DEF Mapped
    <3>2. NativeEdges(g) = native[g] /\ WorkosEdges(g) = {NameOf(w) : w \in c}
      <4>1. UNION {{NameOf(w) : w \in workos[x]} : x \in {map[g]}} = {NameOf(w) : w \in c}
        OBVIOUS
      <4> QED
        BY <2>1, <2>3, <3>1, <4>1 DEF NativeEdges, WorkosEdges
    <3>3. /\ native[g] \subseteq Users /\ want[g] \subseteq native[g]
          /\ \A u \in native[g] \ want[g] : u \in oldN /\ want[u] = None
      BY <2>0, <2>1, <2>3, NativeSets, InvFacts DEF NativeAgrees
    <3>4. ASSUME NEW n \in NativeEdges(g) \cup WorkosEdges(g), Of(n) \in known PROVE ~EdgeDiverged(g, n)
      <4>1. /\ n \in Users
            /\ n \in WorkosEdges(g) => \E w : w \in In(n, c)
        <5>1. CASE n \in WorkosEdges(g)
          <6>1. PICK w \in c : n = NameOf(w)
            BY <3>2, <5>1
          <6>2. n \in Users /\ w \in In(n, c)
            BY <2>0, <2>3, <3>4, <6>1, NamesSeen
          <6> QED
            BY <6>2
        <5>2. CASE n \notin WorkosEdges(g)
          BY <3>2, <3>3, <3>4, <5>2
        <5> QED
          BY <5>1, <5>2
      <4>2. n \in Res /\ n \notin oldN /\ n \notin oldW
        <5>1. n \in Res /\ n \in RowsOf(n)
          BY <4>1, KindFacts, RowPair
        <5>2. Of(n) = n
          BY <5>1, RowFacts
        <5> QED
          BY <3>4, <5>1, <5>2
      <4>3. n \in NativeEdges(g) <=> n \in want[g]
        BY <3>2, <3>3, <4>2
      <4>4. /\ n \in want[g] => want[n] # None
            /\ want[n] # None => In(n, c) = IF n \in want[g] THEN {map[n]} ELSE {}
            /\ want[n] = None => In(n, c) \subseteq Standing(n)
        BY <2>0, <2>3, <4>1, <4>2, MembersAtRest
      <4>5. CASE want[n] = None
        <5>1. n \in WorkosEdges(g) => Tombstone(n)
          <6>1. want[n] = None /\ Standing(n) # {} => Tombstone(n)
            BY <4>1, <4>2, UserSeen
          <6> QED
            BY <4>1, <4>4, <4>5, <6>1
        <5> QED
          BY <4>1, <4>3, <4>4, <4>5, <5>1 DEF EdgeDiverged
      <4>6. CASE want[n] # None
        <5>1. ASSUME n \in want[g] PROVE n \in WorkosEdges(g)
          <6>1. map[n] \in c /\ map[n] \in RowsOf(n) /\ workos[map[n]] # None
            BY <4>2, <4>4, <4>6, <5>1, AtRest DEF In
          <6>2. NameOf(map[n]) = n
            BY <4>2, <6>1, RowFacts DEF NameOf
          <6> QED
            BY <3>2, <6>1, <6>2
        <5>2. n \in WorkosEdges(g) => n \in want[g]
          BY <4>1, <4>4, <4>6
        <5> QED
          BY <4>3, <5>1, <5>2 DEF EdgeDiverged
      <4> QED
        BY <4>5, <4>6
    <3>5. ~PresenceDiverged(g)
      BY <2>1, <2>3, <3>1 DEF PresenceDiverged
    <3> QED
      BY <3>4, <3>5
  <2> QED
    BY <2>2, <2>3
<1> QED
  BY <1>1, <1>2

(* When nothing is under way, both sides hold what the IdP was last told, for   *)
(* every resource nothing is known to have happened to: the mirror of           *)
(* src/workers/proxy/index.ts, the dance of upsertToWorkos and the backfill     *)
(* leave one row, mapped, with the content told and its members translated,     *)
(* however requests, backfill pages, crashes and mode changes interleave.       *)
THEOREM MirrorsAlwaysConverge == Spec => []MirrorsConverge
<1>1. Init => Inv
  BY InitInd, InitGapInd, InitConv DEF Inv
<1> QED
  BY <1>1, ConvNext, Converge, PTL DEF Spec

(* The live state (src/workers/shared/reconcile.ts) then shows no divergence    *)
(* among those resources: deleted users WorkOS keeps, and the memberships left  *)
(* of them, are tombstones.                                                     *)
THEOREM PanelNeverDrifts == Spec => []PanelShowsNoDrift
<1>1. Init => Inv
  BY InitInd, InitGapInd, InitConv DEF Inv
<1> QED
  BY <1>1, ConvNext, PanelShows, PTL DEF Spec

-----------------------------------------------------------------------------
(* Types *)

(* What the histories name are resources, and a gap is one of two kinds.        *)
Named ==
    /\ gap \in [Res -> {None, "DELETE", "POST"}]
    /\ oldN \subseteq Res /\ oldW \subseteq Res /\ ever \subseteq Res

LEMMA InitNamed == Init => Named
<1> SUFFICES ASSUME Init PROVE Named
  OBVIOUS
<1>1. PICK there \in SUBSET Res : \E listed \in {{}} \cup {{u} : u \in Users} :
        /\ gap = [r \in Res |-> IF r \notin listed THEN None
                                ELSE IF r \in there THEN "DELETE" ELSE "POST"]
        /\ oldN = listed \ there
  BY DEF Init
<1>2. /\ oldW = {r \in Res : want[r] # None}
      /\ before = {r \in Res : want[r] # None} /\ ever = before
  BY DEF Init
<1> QED
  BY <1>1, <1>2 DEF Named, Res

LEMMA NamedByProxy ==
    ASSUME Inv, Named, NEW q \in Req, Proxy(q)
    PROVE  oldN' \subseteq Res /\ oldW' \subseteq Res /\ ever' \subseteq Res
<1>0. /\ req[q].res \in Res /\ Groups \subseteq Res /\ \A r : GroupsOf(r) \subseteq Res
      /\ oldN \subseteq Res /\ oldW \subseteq Res /\ ever \subseteq Res
  <2>1. pc[q] # "idle" /\ q \in Proc
    BY ProxySteps
  <2> QED
    BY <2>1, AtRes DEF GroupsOf, Res, Named
<1>1. \A ok \in BOOLEAN : Settle(q, ok) => oldN' \subseteq Res /\ oldW' \subseteq Res
  BY <1>0 DEF Settle, SettleAside
<1>2. CASE NativeLeg(q)
  BY <1>0, <1>2 DEF NativeLeg, NativeWrites
<1>3. CASE NativeRefuses(q)
  BY <1>0, <1>3 DEF NativeRefuses
<1>4. CASE NativeAnswerLost(q)
  BY <1>0, <1>4 DEF NativeAnswerLost, NativeWrites
<1>5. CASE ClearGap(q) \/ Load(q)
  BY <1>0, <1>5 DEF ClearGap, Load, history
<1>6. CASE Record(q)
  <2>1. Moved(req[q].res, row[q]) \subseteq Res
    BY <1>0 DEF Moved
  <2> QED
    BY <1>0, <1>6, <2>1 DEF Record, SettleAside
<1>7. CASE SkipReplace(q) \/ PatchHits(q) \/ PatchAnswerLost(q) \/ Retire(q) \/ MirrorFails(q)
  BY <1>0, <1>1, <1>7 DEF SkipReplace, PatchHits, PatchAnswerLost, Retire, MirrorFails
<1>8. CASE DeleteRow(q)
  BY <1>0, <1>8 DEF DeleteRow, MirrorUnchanged, history
<1>9. CASE PruneMapping(q)
  BY <1>0, <1>1, <1>9 DEF PruneMapping
<1>10. CASE PruneFails(q)
  BY <1>0, <1>10 DEF PruneFails
<1> QED
  BY <1>2, <1>3, <1>4, <1>5, <1>6, <1>7, <1>8, <1>9, <1>10 DEF Proxy

LEMMA NamedNext == Inv /\ Named /\ [Next]_vars => Named'
<1> SUFFICES ASSUME Inv, Named, [Next]_vars PROVE Named'
  OBVIOUS
<1>0. oldN \subseteq Res /\ oldW \subseteq Res /\ ever \subseteq Res
  BY DEF Named
<1>1. gap' \in [Res -> {None, "DELETE", "POST"}]
  BY GapStep DEF Named
<1> DEFINE Names == oldN' \subseteq Res /\ oldW' \subseteq Res /\ ever' \subseteq Res
<1>2. ASSUME NEW q \in Req, Proxy(q) PROVE Names
  BY <1>2, NamedByProxy
<1>3. ASSUME NEW q \in Req, NEW op, NEW r \in Res, NEW v, Receive(q, op, r, v) PROVE Names
  BY <1>0, <1>3 DEF Receive
<1>4. ASSUME NEW p \in Proc, Dance(p) PROVE Names
  BY <1>0, <1>4 DEF Dance, PutHits, PutMisses, PostCreates, PostConflicts, Reput, Lookup, Sync, MirrorUnchanged, history
<1>5. ASSUME FillFails PROVE Names
  <2>1. pc[Filler] # "idle"
    BY <1>5 DEF FillFails, Misses, Fails
  <2>2. req[Filler].res \in Res
    BY <2>1, ProcMembers, AtRes
  <2> QED
    BY <1>0, <1>5, <2>2 DEF FillFails
<1>6. ASSUME FlushWrites \/ FlushFails PROVE Names
  <2>1. \A r : GroupsOf(r) \subseteq Res
    BY DEF GroupsOf, Res
  <2> QED
    BY <1>0, <1>6, <2>1 DEF FlushWrites, FlushFails, Flush
<1>7. ASSUME StartFill \/ FillPage \/ FillPageFails \/ FillSkips \/ FillRow \/ FillRecord \/ FillUsersDone PROVE Names
  BY <1>0, <1>7 DEF StartFill, FillPage, FillPageFails, FillSkips, FillRow, FillRecord, FillUsersDone, history
<1>8. ASSUME (\E m \in Mode : SetMode(m)) \/ CleanWorkos \/ UNCHANGED vars PROVE Names
  BY <1>0, <1>8 DEF SetMode, CleanWorkos, vars, history
<1>9. ASSUME Crash PROVE Names
  <2>1. \A p \in Proc : pc[p] # "idle" => req[p].res \in Res
    BY AtRes
  <2>2. \A p \in Proc : Busy(p) => pc[p] # "idle"
    BY DEF Busy
  <2>3. \A i \in DOMAIN sink : sink[i][1] \in Res
    BY InvFacts DEF RowsFit
  <2>4. /\ {req[p].res : p \in {p \in Proc : Busy(p)}} \subseteq Res
        /\ {s[1] : s \in Elements(sink)} \subseteq Res
        /\ UNION {GroupsOf(req[p].res) : p \in {p \in Proc : pc[p] = "prune"}} \subseteq Res
    BY <2>1, <2>2, <2>3 DEF Elements, GroupsOf, Res
  <2> QED
    BY <1>0, <1>9, <2>4 DEF Crash
<1>10. Names
  BY <1>2, <1>3, <1>4, <1>5, <1>6, <1>7, <1>8, <1>9 DEF Next, Backfill
<1> QED
  BY <1>1, <1>10 DEF Named

LEMMA TypesHold == Inv /\ Named => TypeOK
<1> SUFFICES ASSUME Inv, Named PROVE TypeOK
  OBVIOUS
<1>1. ASSUME NEW w \in Row PROVE workos[w] = None \/ workos[w] \in RowContent(w)
  <2>1. PICK r \in Res : w \in RowsOf(r)
    BY <1>1, KindFacts
  <2>2. Of(w) = r
    BY <2>1, RowFacts
  <2>3. r \in Users => workos[w] \in Flag \cup {None}
    BY <2>1, InvFacts DEF Kinds
  <2>4. UserRows \subseteq Row
    BY KindFacts, RowFacts DEF UserRows
  <2>5. r \notin Users => workos[w] = None \/ workos[w] \subseteq Row
    BY <2>1, <2>4, InvFacts DEF Kinds, Res
  <2> QED
    BY <2>2, <2>3, <2>5 DEF RowContent
<1>2. \A r \in Res : /\ native[r] = None \/ native[r] \in Content(r)
                     /\ want[r] = None \/ want[r] \in Content(r)
  BY InvFacts DEF Listed, NativeLists, Kinds
<1>3. /\ Lists(born["users"], {r \in Users : native[r] # None})
      /\ Lists(born["groups"], {r \in Groups : native[r] # None})
  BY InvFacts DEF Listed, NativeLists
<1>4. \A r \in Res : map[r] \in {None, r, Mint(r)}
  BY InvFacts DEF RowsFit, RowsOf
<1>5. /\ \A p \in Proc : pc[p] # "idle" => req[p].res \in Res
      /\ \A q \in Req : pc[q] \in Steps
  BY AtRes, InvFacts, ProcMembers
<1>6. mode \in Mode /\ before \subseteq ever /\ stage \in {"off", "users", "groups", "flush"} \cup Rows
  BY InvFacts DEF Ind, Typed, Requested, Listed, CopiesFit
<1> QED
  BY <1>1, <1>2, <1>3, <1>4, <1>5, <1>6 DEF TypeOK, Named, Steps

(* Rows, mappings, the ledger and what is under way keep their types; native    *)
(* lists exactly the ids of its rows, once each.                                *)
THEOREM DualWriteTypeCorrect == Spec => []TypeOK
<1>1. Init => Inv /\ Named
  BY InitInd, InitGapInd, InitConv, InitNamed DEF Inv
<1> QED
  BY <1>1, ConvNext, NamedNext, TypesHold, PTL DEF Spec
=============================================================================
