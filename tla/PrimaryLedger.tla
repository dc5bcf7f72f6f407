---------------------------- MODULE PrimaryLedger ----------------------------
(***************************************************************************)
(* What native is missing, and its repair.  One directory on               *)
(* workos-primary: live writes of its users and groups                     *)
(* (workers/proxy/index.ts), the native_write_failures ledger with its     *)
(* sweep stamps, the create claims and the reconcile lease                 *)
(* (workers/shared/db.ts), and Reconcile from WorkOS                       *)
(* (workers/shared/backfill.ts runReconcileFromWorkos).                    *)
(*                                                                         *)
(* What is kept is CONTENT: which write a row shows on either side, what   *)
(* the ledger says of it, and who may write it.  A resource is known by    *)
(* one key on both sides; how the two id spaces are linked, and every      *)
(* refusal that linking brings, is PrimaryIdentity's.                      *)
(***************************************************************************)
CONSTANTS
    User, Group, \* the directory's resources
    Request,     \* live writes; a write's content is the write itself
    Run,         \* attempts at Reconcile from WorkOS
    Serialized,  \* TRUE if the IdP never overlaps two writes of one resource
    Quiesced,    \* TRUE if no live write overlaps a run
    Before,      \* the content WorkOS rows start with
    Stale,       \* the content of a native row that missed a write
    None         \* null

Resource == User \cup Group
Kinds    == {"Users", "Groups"}
Content  == Request \cup {Before, Stale}

Kind(r) == IF r \in User THEN "Users" ELSE "Groups"
OfKind(k) == {r \in Resource : Kind(r) = k}

ASSUME LedgerAssumption ==
    /\ User \cap Group = {} /\ Request \cap Run = {}
    /\ Before \notin Request /\ Stale \notin Request /\ Before # Stale
    /\ None \notin Resource \cup Content \cup Run
    /\ Serialized \in BOOLEAN /\ Quiesced \in BOOLEAN

VARIABLES
    claim,   \* kind -> owner of its workos_primary_create_claims row, or None
    lease,   \* scim_directories.reconcile_token
    mapped,  \* resources with an id_mappings row
    gap,     \* native_write_failures.method: "none", "write" or "delete"
    stamp,   \* native_write_failures.sweep_token
    native,  \* content of each native row, or None
    workos,  \* content of each WorkOS row, or None
    late,    \* writes sent whose answer never came; each may still apply
    req,     \* the live writes
    run,     \* the reconcile runs
    told,    \* history: what the IdP was told of a resource's last write
    fresh    \* history: rows recorded since a run stamped the ledger

store    == <<claim, lease, mapped>>
ledger   == <<gap, stamp, fresh>>
upstream == <<native, workos, late>>
vars     == <<store, ledger, upstream, req, run, told>>

Ops   == {"create", "replace", "patch", "delete"}
Stats == {"none", "ok", "created", "gone", "conflict", "rejected", "unsure"}

Write == [side : {"native", "workos"}, verb : {"post", "put", "delete"},
          res : Resource, content : Content, by : Request \cup Run]

Live == [op : Ops \cup {"none"}, res : Resource \cup {None},
         pc : {"idle", "claim", "check", "legs", "done"},
         native : Stats, workos : Stats]

(* todo: listed and not yet replayed; doing: written, its rows not yet       *)
(* cleared; clean: nothing failed and both lists complete.                   *)
Replay == [pc : {"idle", "Users", "Groups", "maps", "mark", "listUsers", "pushUsers",
                 "listGroups", "pushGroups", "sweep", "release", "undo", "unlease", "done"},
           snap : [Resource -> Content \cup {None}], todo : SUBSET Resource,
           doing : Resource \cup {None}, clean : BOOLEAN,
           unresolved : BOOLEAN, wrote : BOOLEAN]

TypeOK ==
    /\ claim \in [Kinds -> Request \cup Run \cup {None}]
    /\ lease \in Run \cup {None}
    /\ mapped \subseteq Resource
    /\ gap \in [Resource -> {"none", "write", "delete"}]
    /\ stamp \in [Resource -> Run \cup {None}]
    /\ native \in [Resource -> Content \cup {None}]
    /\ workos \in [Resource -> Content \cup {None}]
    /\ late \subseteq Write
    /\ req \in [Request -> Live]
    /\ run \in [Run -> Replay]
    /\ told \in [Resource -> {"nothing", "success", "disturbed"}]
    /\ fresh \in [Run -> SUBSET Resource]

Unasked == [op |-> "none", res |-> None, pc |-> "idle", native |-> "none", workos |-> "none"]
Unrun == [pc |-> "idle", snap |-> [r \in Resource |-> None], todo |-> {}, doing |-> None,
          clean |-> TRUE, unresolved |-> FALSE, wrote |-> FALSE]

(* A moment at which nobody is at work.  A mapped resource shows the same on *)
(* both sides, or the ledger says that native missed a write or a delete; of *)
(* an unmapped one either side may have a row.                               *)
Linked(r) == /\ r \in mapped /\ gap[r] = "none"
             /\ native[r] = Before /\ workos[r] = Before

Reported(r) == /\ r \in mapped
               /\ \/ gap[r] = "write" /\ native[r] = Stale /\ workos[r] = Before
                  \/ gap[r] = "delete" /\ native[r] = Before /\ workos[r] = None

Unlinked(r) == /\ r \notin mapped /\ gap[r] = "none"
               /\ native[r] \in {Before, None} /\ workos[r] \in {Before, None}

Init ==
    /\ mapped \in SUBSET Resource
    /\ gap \in [Resource -> {"none", "write", "delete"}]
    /\ native \in [Resource -> {Before, Stale, None}]
    /\ workos \in [Resource -> {Before, None}]
    /\ \A r \in Resource : Linked(r) \/ Reported(r) \/ Unlinked(r)
    /\ claim = [k \in Kinds |-> None] /\ lease = None
    /\ stamp = [r \in Resource |-> None]
    /\ late = {}
    /\ req = [x \in Request |-> Unasked]
    /\ run = [q \in Run |-> Unrun]
    /\ told = [r \in Resource |-> IF Linked(r) THEN "success" ELSE "nothing"]
    /\ fresh = [q \in Run |-> {}]

-----------------------------------------------------------------------------
(* The ledger. *)

Marked(q) == run[q].pc \in {"listUsers", "pushUsers", "listGroups", "pushGroups", "sweep"}

(* Mutant: the upsert leaves the stamp of an earlier run on the row. *)
RecordStamped(r, method) ==
    /\ gap' = [gap EXCEPT ![r] = method]
    /\ fresh' = [q \in Run |-> IF Marked(q) THEN fresh[q] \cup {r} ELSE fresh[q]]
    /\ UNCHANGED stamp

(* recordNativeWriteFailure: one row per resource, without a stamp. *)
Record(r, method) ==
    /\ gap' = [gap EXCEPT ![r] = method]
    /\ stamp' = [stamp EXCEPT ![r] = None]
    /\ fresh' = [q \in Run |-> IF Marked(q) THEN fresh[q] \cup {r} ELSE fresh[q]]

(* Mutant: a cleared row keeps its place with a null method. *)
DropToNull(rs) ==
    /\ gap' = [r \in Resource |-> IF r \in rs THEN None ELSE gap[r]]
    /\ stamp' = [r \in Resource |-> IF r \in rs THEN None ELSE stamp[r]]
    /\ fresh' = [q \in Run |-> fresh[q] \ rs]

Drop(rs) ==
    /\ gap' = [r \in Resource |-> IF r \in rs THEN "none" ELSE gap[r]]
    /\ stamp' = [r \in Resource |-> IF r \in rs THEN None ELSE stamp[r]]
    /\ fresh' = [q \in Run |-> fresh[q] \ rs]

(* clearNativeWriteFailure *)
Clear(r) == Drop({r})

(* Mutant: a stamped row is retired whatever its method. *)
RetirableDeletes(q) == {r \in Resource : stamp[r] = q}

(* The rows a run may retire: it stamped them, and a PUT can repair them.    *)
Retirable(q) == {r \in Resource : stamp[r] = q /\ gap[r] # "delete"}

-----------------------------------------------------------------------------
(* Live writes. *)

Busy(x) == req[x].pc \notin {"idle", "done"}
Active(q) == run[q].pc \notin {"idle", "done"}

To(x, pc) == req' = [req EXCEPT ![x].pc = pc]
Finished(x) == req' = [req EXCEPT ![x] = [Unasked EXCEPT !.pc = "done"]]

Claims(x) == req[x].op \in {"create", "delete"}

Released(x) == [k \in Kinds |-> IF claim[k] = x THEN None ELSE claim[k]]

Receive(x) ==
    /\ req[x].pc = "idle"
    /\ \E op \in Ops, r \in Resource :
          /\ Serialized => \A y \in Request : Busy(y) => req[y].res # r
          /\ Quiesced => \A q \in Run : ~Active(q)
          /\ req' = [req EXCEPT ![x] = [Unasked EXCEPT !.op = op, !.res = r,
                        !.pc = IF op \in {"create", "delete"} THEN "claim" ELSE "check"]]
          /\ told' = [told EXCEPT ![r] = "nothing"]
    /\ UNCHANGED <<store, ledger, upstream, run>>

(* claimWorkosPrimaryCreate, shared by creates, deletes, recoveries and runs. *)
TakeClaim(x) ==
    /\ req[x].pc = "claim" /\ claim[Kind(req[x].res)] = None
    /\ claim' = [claim EXCEPT ![Kind(req[x].res)] = x]
    /\ To(x, "check")
    /\ UNCHANGED <<lease, mapped, ledger, upstream, run, told>>

ClaimBusy(x) ==
    /\ req[x].pc = "claim" /\ claim[Kind(req[x].res)] # None
    /\ Finished(x)
    /\ UNCHANGED <<store, ledger, upstream, run, told>>

(* Any other write than a create needs a mapping.  A create that names a     *)
(* mapped resource can only be its retry, which native still holds.          *)
Checked(x) ==
    /\ req[x].pc = "check"
    /\ \/ req[x].res \in mapped /\ req[x].op # "create"
       \/ /\ req[x].op = "create"
          /\ req[x].res \in mapped => native[req[x].res] # None
    /\ To(x, "legs")
    /\ UNCHANGED <<store, ledger, upstream, run, told>>

(* Not mapped, or a preflight check refused or failed: nothing was written.  *)
Refused(x) ==
    /\ req[x].pc = "check"
    /\ claim' = Released(x)
    /\ Finished(x)
    /\ UNCHANGED <<lease, mapped, ledger, upstream, run, told>>

(* The process stops, or an exception leaves the handler after writes began. *)
Die(x) ==
    /\ Busy(x)
    /\ Finished(x)
    /\ UNCHANGED <<store, ledger, upstream, run, told>>

-----------------------------------------------------------------------------
(* The native leg: the request as the IdP sent it. *)

InLegs(x, ops) == req[x].pc = "legs" /\ req[x].op \in ops

NativeAnswers(x, stat) == req' = [req EXCEPT ![x].native = stat]

Unanswered(side, verb, r, content, by) ==
    late' = late \cup {[side |-> side, verb |-> verb, res |-> r, content |-> content, by |-> by]}

NativeApplies(x) ==
    /\ InLegs(x, Ops) /\ req[x].native = "none"
    /\ LET r == req[x].res IN
          \/ /\ req[x].op \in {"replace", "patch"} /\ native[r] # None
             /\ native' = [native EXCEPT ![r] = x]
             /\ NativeAnswers(x, "ok")
          \/ /\ req[x].op = "create" /\ native[r] = None
             /\ native' = [native EXCEPT ![r] = x]
             /\ NativeAnswers(x, "ok")
          \/ /\ req[x].op = "delete"
             /\ native' = [native EXCEPT ![r] = None]
             /\ NativeAnswers(x, IF native[r] = None THEN "gone" ELSE "ok")
    /\ UNCHANGED <<store, ledger, workos, late, run, told>>

(* nativeCreate's 409: the row native already has, resolved and adopted as   *)
(* it is.  One that cannot be resolved or attributed is unsure.              *)
NativeAdopts(x) ==
    /\ InLegs(x, {"create"}) /\ req[x].native = "none" /\ native[req[x].res] # None
    /\ NativeAnswers(x, "conflict")
    /\ UNCHANGED <<store, ledger, upstream, run, told>>

NativeRejects(x) ==
    /\ InLegs(x, Ops) /\ req[x].native = "none"
    /\ NativeAnswers(x, "rejected")
    /\ UNCHANGED <<store, ledger, upstream, run, told>>

Verb(x) == IF req[x].op = "create" THEN "post"
           ELSE IF req[x].op = "delete" THEN "delete" ELSE "put"

NativeUnsure(x) ==
    /\ InLegs(x, Ops) /\ req[x].native = "none"
    /\ NativeAnswers(x, "unsure")
    /\ Unanswered("native", Verb(x), req[x].res, x, x)
    /\ UNCHANGED <<store, ledger, native, workos, run, told>>

-----------------------------------------------------------------------------
(* The WorkOS leg: workosOnly and the migrated-id dance. *)

WorkosAnswers(x, stat) == req' = [req EXCEPT ![x].workos = stat]

NativeNamed(x) == req[x].native \in {"ok", "conflict"}

(* The leg of a retried create waits for native to name the mapped row.      *)
WorkosOpen(x, ops) ==
    /\ InLegs(x, ops) /\ req[x].workos = "none"
    /\ req[x].op = "create" /\ req[x].res \in mapped => NativeNamed(x)

WorkosApplies(x) ==
    /\ WorkosOpen(x, Ops)
    /\ LET r == req[x].res IN
          \/ /\ req[x].op # "delete" /\ workos[r] # None
             /\ workos' = [workos EXCEPT ![r] = x]
             /\ WorkosAnswers(x, "ok")
          \/ /\ req[x].op = "create" /\ workos[r] = None
             /\ workos' = [workos EXCEPT ![r] = x]
             /\ WorkosAnswers(x, "created")
          \/ /\ req[x].op = "delete"
             /\ workos' = [workos EXCEPT ![r] = None]
             /\ WorkosAnswers(x, IF workos[r] = None THEN "gone" ELSE "ok")
    /\ UNCHANGED <<store, ledger, native, late, run, told>>

(* recoverMappedResource: the mapped row is gone, and the kind's claim is    *)
(* free for the POST that makes it again.                                    *)
Recoverable(x) == /\ WorkosOpen(x, {"replace"}) /\ workos[req[x].res] = None
                  /\ req[x].res \in mapped /\ claim[Kind(req[x].res)] = None

WorkosRecovers(x) ==
    /\ Recoverable(x)
    /\ workos' = [workos EXCEPT ![req[x].res] = x]
    /\ WorkosAnswers(x, "ok")
    /\ UNCHANGED <<store, ledger, native, late, run, told>>

(* The POST's answer never came: the claim stays. *)
RecoveryUnsure(x) ==
    /\ Recoverable(x)
    /\ claim' = [claim EXCEPT ![Kind(req[x].res)] = x]
    /\ Unanswered("workos", "post", req[x].res, x, x)
    /\ WorkosAnswers(x, "unsure")
    /\ UNCHANGED <<lease, mapped, ledger, native, workos, run, told>>

(* Refused, or not found by a PATCH or a recovery that lost its claim.       *)
WorkosRejects(x) ==
    /\ WorkosOpen(x, Ops)
    /\ WorkosAnswers(x, "rejected")
    /\ UNCHANGED <<store, ledger, upstream, run, told>>

WorkosUnsure(x) ==
    /\ WorkosOpen(x, Ops)
    /\ WorkosAnswers(x, "unsure")
    /\ Unanswered("workos", Verb(x), req[x].res, x, x)
    /\ UNCHANGED <<store, ledger, native, workos, run, told>>

-----------------------------------------------------------------------------
(* Both legs are done: what is recorded, and what the IdP hears. *)

(* Mutant: any answer of WorkOS counts as done. *)
WorkosAnswered(x) == req[x].workos \notin {"none", "unsure"}

NativeSettled(x) == req[x].native \in {"ok", "gone"}
WorkosSettled(x) == req[x].workos \in {"ok", "gone", "created"}

(* A create whose native leg named no id need not have called WorkOS.        *)
LegsDone(x, ops) ==
    /\ InLegs(x, ops) /\ req[x].native # "none"
    /\ \/ req[x].workos # "none"
       \/ req[x].op = "create" /\ req[x].native \in {"rejected", "unsure"}

(* nativeLegFailed: a gap is recorded where WorkOS is known to have committed. *)
RecordIf(committed, x, method) ==
    IF committed THEN Record(req[x].res, method) ELSE UNCHANGED ledger

(* The IdP hears 2xx; what that says is void if a late write landed since.   *)
Succeeds(x) == told' = [told EXCEPT ![req[x].res] = IF @ = "nothing" THEN "success" ELSE @]

FinishUpdate(x) ==
    /\ LegsDone(x, {"replace", "patch"})
    /\ Finished(x)
    /\ \/ /\ ~NativeSettled(x)
          /\ RecordIf(WorkosSettled(x), x, "write")
          /\ UNCHANGED told
       \/ /\ NativeSettled(x) /\ ~WorkosSettled(x)
          /\ UNCHANGED <<ledger, told>>
       \/ /\ NativeSettled(x) /\ WorkosSettled(x)
          /\ Clear(req[x].res)
          /\ Succeeds(x)
    /\ UNCHANGED <<store, upstream, run>>

(* Mutant: a timeout of WorkOS counts as a certain outcome. *)
CanReleaseOnTimeout(x) == req[x].native # "unsure"

(* certainDeleteOutcome on both sides *)
CanRelease(x) == "unsure" \notin {req[x].native, req[x].workos}

FinishDelete(x) ==
    /\ LegsDone(x, {"delete"})
    /\ Finished(x)
    /\ \/ /\ ~CanRelease(x)  \* a 2xx that does not say it is done: nothing is recorded
          /\ UNCHANGED <<claim, ledger, mapped, told>>
       \/ /\ ~(NativeSettled(x) /\ WorkosSettled(x))
          /\ RecordIf(~NativeSettled(x) /\ req[x].workos = "ok", x, "delete")
          /\ claim' = IF CanRelease(x) THEN Released(x) ELSE claim
          /\ UNCHANGED <<mapped, told>>
       \/ /\ NativeSettled(x) /\ WorkosSettled(x)
          /\ Clear(req[x].res)
          /\ mapped' = mapped \ {req[x].res}
          /\ claim' = Released(x)
          /\ Succeeds(x)
    /\ UNCHANGED <<lease, upstream, run>>

WorkosUntouched(x) == req[x].workos \in {"none", "rejected"}

(* The create is linked and answered 201.  A row native already had keeps    *)
(* what it showed, so only a row native made counts as a success here.       *)
CreateLands(x) ==
    /\ LegsDone(x, {"create"})
    /\ NativeNamed(x) /\ WorkosSettled(x)
    /\ mapped' = mapped \cup {req[x].res}
    /\ Clear(req[x].res)
    /\ claim' = Released(x)
    /\ IF req[x].native = "ok" THEN Succeeds(x) ELSE UNCHANGED told
    /\ Finished(x)
    /\ UNCHANGED <<lease, upstream, run>>

CreateFails(x) ==
    /\ LegsDone(x, {"create"})
    /\ ~(NativeNamed(x) /\ WorkosSettled(x))
    /\ ~(req[x].native = "rejected" /\ req[x].workos = "created")
    /\ RecordIf(WorkosSettled(x), x, "write")
    /\ claim' = IF req[x].native = "rejected" /\ WorkosUntouched(x) THEN Released(x) ELSE claim
    /\ Finished(x)
    /\ UNCHANGED <<lease, mapped, upstream, run, told>>

(* The compensating DELETE of the WorkOS row this create made.               *)
Compensate(x) ==
    /\ LegsDone(x, {"create"})
    /\ req[x].native = "rejected" /\ req[x].workos = "created"
    /\ workos' = [workos EXCEPT ![req[x].res] = None]
    /\ Clear(req[x].res)
    /\ claim' = Released(x)
    /\ Finished(x)
    /\ UNCHANGED <<lease, mapped, native, late, run, told>>

CompensateFails(x) ==
    /\ LegsDone(x, {"create"})
    /\ req[x].native = "rejected" /\ req[x].workos = "created"
    /\ \/ UNCHANGED late
       \/ Unanswered("workos", "delete", req[x].res, x, x)
    /\ Record(req[x].res, "write")
    /\ Finished(x)
    /\ UNCHANGED <<store, native, workos, run, told>>

-----------------------------------------------------------------------------
(* Reconcile from WorkOS. *)

Goes(q, pc) == run' = [run EXCEPT ![q].pc = pc]
Over(q) == /\ run' = [run EXCEPT ![q] = [Unrun EXCEPT !.pc = "done"]]
           /\ fresh' = [fresh EXCEPT ![q] = {}]

(* A lease older than 30 minutes is taken over; time is not modelled, so any *)
(* lease may be that old.                                                    *)
StartRun(q) ==
    /\ run[q].pc = "idle"
    /\ Quiesced => (\A x \in Request : ~Busy(x)) /\ late = {}
    /\ lease' = q
    /\ Goes(q, "Users")
    /\ UNCHANGED <<claim, mapped, ledger, upstream, req, told>>

StartRefused(q) ==
    /\ run[q].pc = "idle" /\ lease # None
    /\ Over(q)
    /\ UNCHANGED <<store, gap, stamp, upstream, req, told>>

(* Mutant: a busy claim does not stop the run. *)
ClaimKindAnyway(q) ==
    /\ run[q].pc \in Kinds
    /\ claim' = [claim EXCEPT ![run[q].pc] = IF @ = None THEN q ELSE @]
    /\ Goes(q, IF run[q].pc = "Users" THEN "Groups" ELSE "maps")
    /\ UNCHANGED <<lease, mapped, ledger, upstream, req, told>>

ClaimKind(q) ==
    /\ run[q].pc \in Kinds /\ claim[run[q].pc] = None
    /\ claim' = [claim EXCEPT ![run[q].pc] = q]
    /\ Goes(q, IF run[q].pc = "Users" THEN "Groups" ELSE "maps")
    /\ UNCHANGED <<lease, mapped, ledger, upstream, req, told>>

ClaimKindBusy(q) ==
    /\ run[q].pc \in Kinds /\ claim[run[q].pc] # None
    /\ Goes(q, "undo")
    /\ UNCHANGED <<store, ledger, upstream, req, told>>

(* loadIdMaps, strict: ambiguous ownership stops the run before it begins.   *)
MapsLoaded(q) ==
    /\ run[q].pc = "maps"
    /\ Goes(q, "mark")
    /\ UNCHANGED <<store, ledger, upstream, req, told>>

(* markDivergencesForSweep *)
Mark(q) ==
    /\ run[q].pc = "mark"
    /\ stamp' = [r \in Resource |-> IF gap[r] # "none" /\ stamp[r] = None THEN q ELSE stamp[r]]
    /\ Goes(q, "listUsers")
    /\ UNCHANGED <<store, gap, fresh, upstream, req, told>>

Listed(q) == IF run[q].pc = "listUsers" THEN "Users" ELSE "Groups"

(* Mutant: a list that broke off counts as complete. *)
CompleteAnyway(k, rs) == TRUE

Complete(k, rs) == rs = {r \in OfKind(k) : workos[r] # None}

(* snapshot: the resources WorkOS lists, or a part of them. *)
List(q) ==
    /\ run[q].pc \in {"listUsers", "listGroups"}
    /\ \E rs \in SUBSET {r \in OfKind(Listed(q)) : workos[r] # None} :
          run' = [run EXCEPT ![q] = [run[q] EXCEPT
                     !.pc = IF @ = "listUsers" THEN "pushUsers" ELSE "pushGroups",
                     !.snap = [r \in Resource |-> IF r \in rs THEN workos[r] ELSE @[r]],
                     !.todo = rs,
                     !.clean = @ /\ Complete(Listed(q), rs)]]
    /\ UNCHANGED <<store, ledger, upstream, req, told>>

Pushing(q, r) == /\ run[q].pc \in {"pushUsers", "pushGroups"}
                 /\ run[q].doing = None /\ r \in run[q].todo

(* A mapped native row is updated in place.  An unmapped one is created, or  *)
(* updated if its attribute finds it.                                        *)
Reachable(r) == r \in mapped => native[r] # None

Push(q, r) ==
    /\ Pushing(q, r) /\ Reachable(r)
    /\ native' = [native EXCEPT ![r] = run[q].snap[r]]
    /\ run' = [run EXCEPT ![q] = [run[q] EXCEPT !.doing = r, !.wrote = TRUE]]
    /\ UNCHANGED <<store, ledger, workos, late, req, told>>

(* An identity that cannot be attributed, a group with an unmapped member:   *)
(* nothing is written.                                                       *)
PushSkipped(q, r) ==
    /\ Pushing(q, r)
    /\ run' = [run EXCEPT ![q] = [run[q] EXCEPT !.todo = @ \ {r}, !.clean = FALSE]]
    /\ UNCHANGED <<store, ledger, upstream, req, told>>

PushRejected(q, r) ==
    /\ Pushing(q, r)
    /\ run' = [run EXCEPT ![q] = [run[q] EXCEPT !.todo = @ \ {r}, !.clean = FALSE, !.wrote = TRUE,
                  !.unresolved = @ \/ (r \notin mapped /\ native[r] # None)]]
    /\ UNCHANGED <<store, ledger, upstream, req, told>>

(* No answer, 408 or 5xx, or an answer that does not confirm the id.         *)
PushUnsure(q, r) ==
    /\ Pushing(q, r)
    /\ Unanswered("native", IF Reachable(r) /\ native[r] # None THEN "put" ELSE "post",
                  r, run[q].snap[r], q)
    /\ run' = [run EXCEPT ![q] = [run[q] EXCEPT !.todo = @ \ {r}, !.clean = FALSE, !.wrote = TRUE,
                  !.unresolved = TRUE]]
    /\ UNCHANGED <<store, ledger, native, workos, req, told>>

(* The mapping is persisted and the rows the replay repaired are cleared.    *)
Pushed(q) ==
    /\ run[q].pc \in {"pushUsers", "pushGroups"} /\ run[q].doing # None
    /\ mapped' = mapped \cup {run[q].doing}
    /\ Drop({run[q].doing} \cap Retirable(q))
    /\ run' = [run EXCEPT ![q] = [run[q] EXCEPT !.todo = @ \ {run[q].doing}, !.doing = None]]
    /\ UNCHANGED <<claim, lease, upstream, req, told>>

AllPushed(q) ==
    /\ run[q].pc \in {"pushUsers", "pushGroups"}
    /\ run[q].todo = {} /\ run[q].doing = None
    /\ Goes(q, IF run[q].pc = "pushUsers" THEN "listGroups" ELSE "sweep")
    /\ UNCHANGED <<store, ledger, upstream, req, told>>

(* Mutant: a run sweeps though some replay failed. *)
SweepAnyway(q) ==
    /\ run[q].pc = "sweep"
    /\ Drop(Retirable(q))
    /\ Goes(q, IF run[q].unresolved THEN "unlease" ELSE "release")
    /\ UNCHANGED <<store, upstream, req, told>>

(* clearReplayedDivergences, only after a clean and complete replay. *)
Sweep(q) ==
    /\ run[q].pc = "sweep"
    /\ IF run[q].clean THEN Drop(Retirable(q)) ELSE UNCHANGED ledger
    /\ Goes(q, IF run[q].unresolved THEN "unlease" ELSE "release")
    /\ UNCHANGED <<store, upstream, req, told>>

(* releaseReconcileCreateClaims, after the replay or before it began. *)
ReleaseClaims(q) ==
    /\ run[q].pc \in {"release", "undo"}
    /\ claim' = Released(q)
    /\ Goes(q, "unlease")
    /\ UNCHANGED <<lease, mapped, ledger, upstream, req, told>>

(* Every step of a run uses the datastore but the listing of groups; the      *)
(* stamp may be stored and its acknowledgement lost.                         *)
MayThrow(q) == \/ run[q].pc \in Kinds \cup {"maps", "mark"}
               \/ Marked(q) /\ run[q].pc # "listGroups"

(* Mutant: an exception gives the claims back whether or not writes began.   *)
ThrowReleasing(q) ==
    /\ MayThrow(q)
    /\ Goes(q, "undo")
    /\ UNCHANGED <<store, ledger, upstream, req, told>>

(* An exception: the claims stay held once a native write started.           *)
Throw(q) ==
    /\ MayThrow(q)
    /\ Goes(q, IF run[q].wrote THEN "unlease" ELSE "undo")
    /\ UNCHANGED <<store, ledger, upstream, req, told>>

(* releaseReconcileRun, scoped to its owner. *)
Unlease(q) ==
    /\ run[q].pc = "unlease"
    /\ lease' = IF lease = q THEN None ELSE lease
    /\ Over(q)
    /\ UNCHANGED <<claim, mapped, gap, stamp, upstream, req, told>>

RunDies(q) ==
    /\ Active(q)
    /\ Over(q)
    /\ UNCHANGED <<store, gap, stamp, upstream, req, told>>

-----------------------------------------------------------------------------
(* The upstreams: a write nobody waits for is applied as if it just arrived. *)

Applied(w, rows) ==
    IF w.verb = "delete" THEN [rows EXCEPT ![w.res] = None]
    ELSE IF (w.verb = "post") = (rows[w.res] = None)
         THEN [rows EXCEPT ![w.res] = w.content] ELSE rows

LateWrite ==
    /\ \E w \in late :
          /\ late' = late \ {w}
          /\ native' = IF w.side = "native" THEN Applied(w, native) ELSE native
          /\ workos' = IF w.side = "workos" THEN Applied(w, workos) ELSE workos
          /\ told' = [told EXCEPT ![w.res] = "disturbed"]
    /\ UNCHANGED <<store, ledger, req, run>>

LiveStep(x) ==
    \/ Receive(x) \/ TakeClaim(x) \/ ClaimBusy(x) \/ Checked(x) \/ Refused(x) \/ Die(x)
    \/ NativeApplies(x) \/ NativeAdopts(x) \/ NativeRejects(x) \/ NativeUnsure(x)
    \/ WorkosApplies(x) \/ WorkosRecovers(x) \/ RecoveryUnsure(x)
    \/ WorkosRejects(x) \/ WorkosUnsure(x)
    \/ FinishUpdate(x) \/ FinishDelete(x) \/ CreateLands(x) \/ CreateFails(x)
    \/ Compensate(x) \/ CompensateFails(x)

RunStep(q) ==
    \/ StartRun(q) \/ StartRefused(q) \/ ClaimKind(q) \/ ClaimKindBusy(q)
    \/ MapsLoaded(q) \/ Mark(q) \/ List(q)
    \/ \E r \in Resource : Push(q, r) \/ PushSkipped(q, r) \/ PushRejected(q, r) \/ PushUnsure(q, r)
    \/ Pushed(q) \/ AllPushed(q) \/ Sweep(q) \/ ReleaseClaims(q)
    \/ Throw(q) \/ Unlease(q) \/ RunDies(q)

Next == LateWrite \/ (\E x \in Request : LiveStep(x)) \/ (\E q \in Run : RunStep(q))

Spec == Init /\ [][Next]_vars

-----------------------------------------------------------------------------
(* Properties. *)

(* At most one run replays at a time, though the lease of a run that overran *)
(* may be taken over while it is still replaying: the second would restamp   *)
(* and retire what the first one's older snapshot is about to undo           *)
(* (backfill.ts runReconcileFromWorkos, db.ts RECONCILE_CLAIM_TTL_MS).       *)
Replaying(q) == Marked(q) \/ run[q].pc = "mark"

OneReplay == \A p, q \in Run : Replaying(p) /\ Replaying(q) => p = q

(* A replayed write that may still be applied keeps both claims, so that no  *)
(* create, delete, recovery or second replay meets it.                       *)
UnresolvedReplayKeepsClaims ==
    \A w \in late, k \in Kinds : w.by \in Run => claim[k] = w.by

(* A run never retires a row recorded after it stamped the ledger: its       *)
(* snapshot may be older than the gap (db.ts clearReplayedDivergence...).    *)
FreshRowsStand ==
    [][\A q \in Run, r \in Resource :
          run'[q] # run[q] /\ r \in fresh[q] => gap'[r] = gap[r]]_vars

(* What a replay writes into native is a resource WorkOS still holds: no     *)
(* delete, and no compensation of a create, overtakes the snapshot.          *)
ReplayRestoresNothing ==
    [][\A q \in Run, r \in Resource :
          run'[q].doing = r /\ run[q].doing # r => workos[r] # None]_vars

(* Where the IdP was told its last write of a resource succeeded, and no     *)
(* write nobody waited for landed since, both sides show the same, whatever  *)
(* is retried, replayed or swept afterwards (docs/architecture.md, mode 3).  *)
NativeCurrent ==
    \A r \in Resource : told[r] = "success" => native[r] = workos[r]

(* At the end of a clean and complete replay native shows what WorkOS shows, *)
(* which is what entitles the run to sweep (backfill.ts reconcileFromWorkos). *)
CleanReplayIsParity ==
    \A q \in Run, r \in Resource :
        run[q].pc = "sweep" /\ run[q].clean /\ workos[r] # None => native[r] = workos[r]

(* A row saying that native missed a write is retired by a run only when     *)
(* native no longer misses it.                                               *)
ReplayRetiresRepaired ==
    [][\A q \in Run, r \in Resource :
          run'[q] # run[q] /\ gap[r] = "write" /\ gap'[r] = "none" => native[r] = workos[r]]_vars

(* A row saying that native still holds a deleted resource stands until      *)
(* native has lost it or WorkOS has it again; it may fall to a PUT both sides *)
(* took if a DELETE nobody waited for lands before the PUT is answered.       *)
DeleteGapStands ==
    [][\A r \in Resource :
          gap[r] = "delete" /\ gap'[r] # "delete"
              => native'[r] = None \/ workos'[r] # None \/ told[r] = "disturbed"]_vars

(* A row saying that native missed a write is retired, by anyone, only when  *)
(* native no longer misses it.                                               *)
RetiredRowsAreRepaired ==
    [][\A r \in Resource :
          gap[r] = "write" /\ gap'[r] = "none" /\ workos'[r] # None => native'[r] = workos'[r]]_vars

(* A clean and complete replay leaves no row standing, for a write native    *)
(* missed, that was there when the run began.                                *)
CleanReplayRetires ==
    [][\A q \in Run, r \in Resource :
          run[q].pc = "sweep" /\ run[q].clean /\ run'[q].pc = "release" /\ gap[r] = "write"
              => r \in fresh[q] \/ gap'[r] = "none"]_vars
=============================================================================
