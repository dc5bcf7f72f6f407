--------------------------- MODULE PrimaryIdentity ---------------------------
(***************************************************************************)
(* The writes of one directory and one resource type while the directory   *)
(* is on workos-primary: POST (create), PUT (replace) and DELETE, as       *)
(* workers/proxy/index.ts and the migrated-id dance of                     *)
(* workers/shared/scim.ts run them.                                        *)
(*                                                                         *)
(* What is kept is IDENTITY: which native row and which WorkOS row exist,  *)
(* whose they are, the id_mappings row that links them, the create claim   *)
(* that serialises every identity change, the native_write_failures row    *)
(* that reports a gap, and writes an upstream may still apply after the    *)
(* proxy stopped waiting for them.  What a resource contains is left to    *)
(* PrimaryLedger.                                                          *)
(*                                                                         *)
(* One action is one stretch of a handler between two awaits.  Reads of    *)
(* id_mappings are merged with the write they guard only where the handler *)
(* holds the claim, which MappingMovesUnderClaim shows is what keeps them  *)
(* current.                                                                *)
(***************************************************************************)
CONSTANTS
    NativeId,    \* ids the native app mints for its rows
    ExternalId,  \* externalId values an IdP sends
    MintedId,    \* ids WorkOS, or crypto.randomUUID in the proxy, mints
    Person,      \* values of the unique attribute (userName, displayName)
    Request,     \* requests; a request's token is the request
    Resident,    \* persons who may have rows before the mode is reached
    Foreign,     \* native rows of other directories on the same native app
    Serialized,  \* TRUE if the IdP never overlaps two writes of one resource
    None         \* null

Id == NativeId \cup ExternalId \cup MintedId

ASSUME IdAssumption ==
    /\ None \notin Id \cup Person \cup Request
    /\ Id \cap Person = {}
    /\ Resident \subseteq Person /\ Foreign \subseteq NativeId
    /\ Serialized \in BOOLEAN

VARIABLES
    claim,    \* owner of the workos_primary_create_claims row, or None
    mapping,  \* id_mappings: native id -> WorkOS id, or None
    ledger,   \* resource keys with a native_write_failures row
    native,   \* the native app's rows: id -> unique attribute, or None
    workos,   \* the WorkOS directory's rows
    late,     \* writes sent whose answer never came; each may still apply
    call,     \* what each request asks
    pc,       \* where each request is
    nleg,     \* its native leg
    wleg,     \* its WorkOS leg
    acked,    \* requests the IdP was told are settled
    legacy,   \* history: what was already unlinked when the run began
    astray    \* history: WorkOS rows made another person's by a PUT that did not ask

store    == <<claim, mapping, ledger>>
upstream == <<native, workos, late>>
local    == <<call, pc, nleg, wleg>>
history  == <<acked, legacy, astray>>
vars     == <<store, upstream, local, history>>

Stats == {"none", "ok", "gone", "conflict", "rejected", "unsure", "incomplete"}

(* A write in flight: who sent it, and under whose claim. *)
Write == [id : Id \cup {None}, side : {"native", "workos"},
          verb : {"post", "put", "delete"}, person : Person \cup {None},
          by : Request, under : Request \cup {None}]

Call == [id : Id \cup {None}, person : Person \cup {None},
         op : {"create", "replace", "delete", "none"}, ext : ExternalId \cup {None}]

NativeLeg == [id : Id \cup {None}, stat : Stats]

(* key: the native id the leg is keyed on; to: the address of its PUT;       *)
(* owner: the native id the create must turn out to be; sink: the WorkOS id  *)
(* it ended on; created: a POST of its own made that row.                    *)
WorkosLeg == [key : Id \cup {None}, stat : Stats,
              at : {"off", "wait", "read", "put", "recover", "post", "reput",
                    "lookup", "record", "unclaim", "done"},
              to : Id \cup {None}, owner : Id \cup {None},
              sink : Id \cup {None}, created : BOOLEAN]

Pcs == {"idle", "claim", "check", "legs", "compensate", "persist", "settle",
        "prune", "release", "done", "dead"}

Shared == Foreign # {}

Owners(w) == {n \in Id : mapping[n] = w}

(* getMappingByWorkosId throws on a WorkOS id two rows own, CheckedIdMap on *)
(* every spelling that takes part in such an ambiguity.                     *)
Ambiguous(w) == \E m, n \in Owners(w) : m # n

Contested(i) == \E w \in Id : Ambiguous(w) /\ i \in Owners(w) \cup {w}

(* Rows of a store that carry a unique attribute. *)
Holders(rows, p) == {i \in Id : rows[i] = p}

CanHold(rows, p, i) == Holders(rows, p) \subseteq {i}

(* An id nothing names: what WorkOS and the proxy mint is new. *)
Unused(i) == /\ native[i] = None /\ workos[i] = None
             /\ mapping[i] = None /\ Owners(i) = {}
             /\ \A r \in Request : i \notin {wleg[r].key, wleg[r].to, wleg[r].sink,
                                            call[r].id, call[r].ext}
             /\ \A w \in late : w.id # i

(* Ids the native app may give a new row: an id somebody addresses is taken. *)
Mintable == {n \in NativeId : /\ native[n] = None /\ mapping[n] = None
                              /\ \A r \in Request : call[r].id # n}

StoreOK == /\ claim \in Request \cup {None}
           /\ mapping \in [Id -> Id \cup {None}]
           /\ ledger \subseteq Id \cup Person

UpstreamOK == /\ native \in [Id -> Person \cup {None}]
              /\ workos \in [Id -> Person \cup {None}]
              /\ late \subseteq Write

LocalOK == /\ call \in [Request -> Call]
           /\ pc \in [Request -> Pcs]
           /\ nleg \in [Request -> NativeLeg]
           /\ wleg \in [Request -> WorkosLeg]

HistoryOK == /\ acked \subseteq Request
             /\ legacy \in [native : SUBSET Id, workos : SUBSET Id, gone : SUBSET Id]
             /\ astray \subseteq Id \cup {None}

TypeOK == StoreOK /\ UpstreamOK /\ LocalOK /\ HistoryOK

-----------------------------------------------------------------------------
(* Initial states: rows that were mapped before the mode was reached, of    *)
(* which either side may have lost its own since, and rows no mapping names. *)

NoCall == [id |-> None, person |-> None, op |-> "none", ext |-> None]
NoNativeLeg == [id |-> None, stat |-> "none"]
NoWorkosLeg == [key |-> None, stat |-> "none", at |-> "off", to |-> None,
                owner |-> None, sink |-> None, created |-> FALSE]

UniqueRows(rows) == \A p \in Person : \A i, j \in Holders(rows, p) : i = j

(* What earlier modes leave behind: each mapping is injective and its two   *)
(* rows, where they still exist, are one person's.                          *)
Inherited ==
    /\ native \in [Id -> Resident \cup {None}]
    /\ \A i \in Id : native[i] # None => i \in NativeId
    /\ \A f \in Foreign : native[f] # None
    /\ UniqueRows(native)
    /\ mapping \in [Id -> Id \cup {None}]
    /\ \A i \in Id : mapping[i] # None => i \in NativeId \ Foreign
    /\ \A w \in Id : ~Ambiguous(w)
    /\ \A i \in Id : mapping[i] \in NativeId \ ExternalId => mapping[i] = i
    /\ workos \in [Id -> Resident \cup {None}]
    /\ UniqueRows(workos)
    /\ \A i \in NativeId : workos[i] # None => native[i] = workos[i]
    /\ \A n, w \in Id :
          mapping[n] = w /\ native[n] # None /\ workos[w] # None => native[n] = workos[w]

Init ==
    /\ Inherited
    /\ claim = None /\ ledger = {} /\ late = {}
    /\ call = [r \in Request |-> NoCall]
    /\ pc = [r \in Request |-> "idle"]
    /\ nleg = [r \in Request |-> NoNativeLeg]
    /\ wleg = [r \in Request |-> NoWorkosLeg]
    /\ acked = {} /\ astray = {}
    /\ legacy = [native |-> {i \in Id : native[i] # None /\ mapping[i] = None},
                 workos |-> {i \in Id : workos[i] # None /\ Owners(i) = {}},
                 gone   |-> {i \in Id : mapping[i] # None /\ workos[mapping[i]] = None}]

-----------------------------------------------------------------------------
(* Requests.  Before the claim nothing is read or written. *)

InFlight(r) == pc[r] \notin {"idle", "done", "dead"}

SameResource(c, d) == \/ c.id # None /\ c.id = d.id
                      \/ c.person # None /\ c.person = d.person

(* Where the handler goes next; one that is over forgets what it knew. *)
Go(r, next) ==
    /\ pc' = [pc EXCEPT ![r] = next]
    /\ IF next \in {"done", "dead"}
       THEN /\ call' = [call EXCEPT ![r] = NoCall]
            /\ nleg' = [nleg EXCEPT ![r] = NoNativeLeg]
            /\ wleg' = [wleg EXCEPT ![r] = NoWorkosLeg]
       ELSE UNCHANGED <<call, nleg, wleg>>

(* The IdP hears 2xx. *)
Ack(r) == acked' = acked \cup {r}

Receive(r, c) ==
    /\ pc[r] = "idle"
    /\ Serialized => \A s \in Request : InFlight(s) => ~SameResource(c, call[s])
    /\ call' = [call EXCEPT ![r] = c]
    /\ pc' = [pc EXCEPT ![r] = IF c.op = "replace" THEN "check" ELSE "claim"]
    /\ UNCHANGED <<store, upstream, nleg, wleg, history>>

ReceiveCreate(r) ==
    \E p \in Person, e \in ExternalId \cup {None} :
        Receive(r, [id |-> None, person |-> p, op |-> "create", ext |-> e])

ReceiveDelete(r) ==
    \E i \in Id : Receive(r, [id |-> i, person |-> None, op |-> "delete", ext |-> None])

(* A replace carries the unique attribute the resource already has, on the   *)
(* side or sides that still have it.                                         *)
ReceiveReplace(r) ==
    \E i \in Id, p \in Person :
        /\ native[i] \in {p, None}
        /\ mapping[i] # None => /\ workos[mapping[i]] \in {p, None}
                               /\ p \in {native[i], workos[mapping[i]]}
        /\ Receive(r, [id |-> i, person |-> p, op |-> "replace", ext |-> None])

(* claimWorkosPrimaryCreate: one row per directory and resource type. *)
TakeClaim(r) ==
    /\ pc[r] = "claim" /\ claim = None
    /\ claim' = r
    /\ pc' = [pc EXCEPT ![r] = "check"]
    /\ UNCHANGED <<mapping, ledger, upstream, call, nleg, wleg, history>>

(* Mutant: a request that did not get the claim gives it back all the same. *)
ReleaseUnheld(r) ==
    /\ pc[r] = "claim" /\ claim # None
    /\ claim' = None
    /\ Go(r, "done")
    /\ UNCHANGED <<mapping, ledger, upstream, history>>

ClaimBusy(r) ==
    /\ pc[r] = "claim" /\ claim # None
    /\ Go(r, "done")
    /\ UNCHANGED <<store, upstream, history>>

(* releaseWorkosPrimaryCreate, scoped to its owner. *)
Release(r) ==
    /\ pc[r] = "release"
    /\ claim' = IF claim = r THEN None ELSE claim
    /\ Go(r, "done")
    /\ UNCHANGED <<mapping, ledger, upstream, history>>

(* The process stops, or an exception leaves the handler once writes began. *)
Die(r) ==
    /\ InFlight(r)
    /\ Go(r, "dead")
    /\ UNCHANGED <<store, upstream, history>>

-----------------------------------------------------------------------------
(* Preflight checks. *)

StartLegs(r, at, key, to, owner) ==
    /\ wleg' = [wleg EXCEPT ![r] = [key |-> key, stat |-> "none", at |-> at, to |-> to,
                                    owner |-> owner, sink |-> None, created |-> FALSE]]
    /\ pc' = [pc EXCEPT ![r] = "legs"]
    /\ UNCHANGED <<store, upstream, call, nleg, history>>

(* workosMintId: the externalId where the directory owns the native        *)
(* namespace, a random id where it does not, none without an externalId.   *)
Mints(r) == IF call[r].ext = None THEN {None}
            ELSE IF Shared THEN {u \in MintedId : Unused(u)} ELSE {call[r].ext}

(* The mapping this create can only be a retry of: its owner's native id,  *)
(* looked up by WorkOS id first and by native id second.                    *)
ClaimedOwners(m) ==
    IF m = None THEN {}
    ELSE IF Owners(m) # {} THEN Owners(m)
    ELSE IF mapping[m] # None THEN {m} ELSE {}

Refusing(m, n) == Ambiguous(m) \/ (Owners(m) = {} /\ Contested(n))

(* findNativeByUniqueAttribute; a failed lookup answers null. *)
NativeLookups(p) == Holders(native, p) \cup {None}

CheckCreate(r) ==
    /\ pc[r] = "check" /\ call[r].op = "create"
    /\ \E m \in Mints(r) :
          \/ /\ ClaimedOwners(m) = {}
             /\ StartLegs(r, IF m = None THEN "wait" ELSE "read", m, None, None)
          \/ \E n \in ClaimedOwners(m) :
                /\ ~Refusing(m, n)
                /\ n \in Holders(native, call[r].person)
                /\ StartLegs(r, "wait", None, None, n)

CreateRefused(r) ==
    /\ pc[r] = "check" /\ call[r].op = "create"
    /\ \E m \in Mints(r) : \E n \in ClaimedOwners(m) :
          \/ Refusing(m, n)
          \/ \E prior \in NativeLookups(call[r].person) : prior # n
    /\ Go(r, "release")
    /\ UNCHANGED <<store, upstream, history>>

CheckDelete(r) ==
    /\ pc[r] = "check" /\ call[r].op = "delete"
    /\ mapping[call[r].id] # None /\ ~Contested(call[r].id)
    /\ StartLegs(r, "put", call[r].id, mapping[call[r].id], None)

CheckReplace(r) ==
    /\ pc[r] = "check" /\ call[r].op = "replace"
    /\ mapping[call[r].id] # None /\ ~Ambiguous(call[r].id)
    /\ StartLegs(r, "read", call[r].id, None, None)

(* No mapping under the path id: 404 if it is a WorkOS id, 409 if unknown,  *)
(* 503 if its ownership is ambiguous.  A replace holds no claim to release. *)
WriteRefused(r) ==
    /\ pc[r] = "check" /\ call[r].op \in {"delete", "replace"}
    /\ \/ mapping[call[r].id] = None
       \/ Ambiguous(call[r].id)
       \/ call[r].op = "delete" /\ Contested(call[r].id)
    /\ Go(r, IF call[r].op = "delete" THEN "release" ELSE "done")
    /\ UNCHANGED <<store, upstream, history>>

(* A preflight read failed: 503, and the claim goes back. *)
PreflightFails(r) ==
    /\ pc[r] = "check"
    /\ Go(r, IF call[r].op = "replace" THEN "done" ELSE "release")
    /\ UNCHANGED <<store, upstream, history>>

-----------------------------------------------------------------------------
(* The native leg.  An upstream answers, rejects, or leaves the outcome      *)
(* unknown ("unsure": no answer, 408 or 5xx), in which case the write may    *)
(* be applied at any later time or never.                                    *)

Unanswered(r, side, verb, i, p) ==
    late' = late \cup {[id |-> i, side |-> side, verb |-> verb, person |-> p,
                        by |-> r, under |-> IF claim = r THEN r ELSE None]}

InLegs(r, op) == pc[r] = "legs" /\ call[r].op = op

(* What the native leg's end starts: a create whose WorkOS leg waits for    *)
(* native's id goes on with it, unless native named none or a third id.     *)
NativeDone(r, stat, i) ==
    /\ nleg' = [nleg EXCEPT ![r] = [id |-> i, stat |-> stat]]
    /\ wleg' = [wleg EXCEPT ![r] =
          IF @.at # "wait" THEN @
          ELSE IF i # None /\ @.owner \in {None, i}
               THEN [@ EXCEPT !.at = "read", !.key = i]
               ELSE [@ EXCEPT !.at = "done"]]
    /\ UNCHANGED <<store, call, pc, history>>

CanTake(r, op) == InLegs(r, op) /\ nleg[r].stat = "none"

(* nativeCreate: 2xx with native's id, or 409 resolved to the row that has   *)
(* the unique attribute, adopted unless a neighbour may own it.              *)
NativeCreated(r) ==
    /\ CanTake(r, "create") /\ Holders(native, call[r].person) = {}
    /\ \E n \in Mintable :
          /\ native' = [native EXCEPT ![n] = call[r].person]
          /\ NativeDone(r, "ok", n)
    /\ UNCHANGED <<workos, late>>

(* Mutant: a native row found by its attribute is adopted whoever owns it. *)
AdoptAny(n) == TRUE

Adoptable(n) == mapping[n] # None \/ ~Shared

(* Mutant: the look-up after a 409 takes the first row native lists.        *)
NativeConflictFirst(r) ==
    /\ CanTake(r, "create") /\ Holders(native, call[r].person) # {}
    /\ \E n \in {i \in Id : native[i] # None} :
          \E found \in {i \in {n} : Adoptable(i)} \cup {None} : NativeDone(r, "conflict", found)
    /\ UNCHANGED upstream

NativeConflict(r) ==
    /\ CanTake(r, "create")
    /\ \E n \in Holders(native, call[r].person) :
          \E found \in {i \in {n} : Adoptable(i)} \cup {None} : NativeDone(r, "conflict", found)
    /\ UNCHANGED upstream

(* nativeWrite: the request as the IdP sent it.  A row that is not there is  *)
(* a 404, which a PUT reports as a rejection.                               *)
NativeReplaced(r) ==
    /\ CanTake(r, "replace") /\ native[call[r].id] # None
    /\ NativeDone(r, "ok", None)
    /\ UNCHANGED upstream

NativeDeleted(r) ==
    /\ CanTake(r, "delete")
    /\ native' = [native EXCEPT ![call[r].id] = None]
    /\ NativeDone(r, IF native[call[r].id] = None THEN "gone" ELSE "ok", None)
    /\ UNCHANGED <<workos, late>>

(* Also the 404 of a DELETE whose path does not spell the id byte for byte.  *)
NativeRejected(r) ==
    /\ pc[r] = "legs" /\ nleg[r].stat = "none"
    /\ NativeDone(r, "rejected", None)
    /\ UNCHANGED upstream

NativeUnsure(r) ==
    /\ pc[r] = "legs" /\ nleg[r].stat = "none"
    /\ \E stat \in {"unsure"} \cup (IF call[r].op = "delete" THEN {"incomplete"} ELSE {}) :
          NativeDone(r, stat, None)
    /\ CASE call[r].op = "create"  -> Unanswered(r, "native", "post", None, call[r].person)
         [] call[r].op = "delete"  -> Unanswered(r, "native", "delete", call[r].id, None)
         [] call[r].op = "replace" -> UNCHANGED late  \* replaces a row, never an identity
    /\ UNCHANGED <<native, workos>>

-----------------------------------------------------------------------------
(* The WorkOS leg: mirrorUpsert, createViaPost, resolveCreateRace and, for a *)
(* mapped row WorkOS answers 404 for, recoverMappedResource.                 *)

At(r, at) == pc[r] = "legs" /\ wleg[r].at = at

Recovering(r) == call[r].op = "replace"
                 /\ wleg[r].at \in {"post", "reput", "lookup", "record"}

(* A create collects its mapping in the sink; a recovery records it.  A      *)
(* recovery that failed for certain gives its claim back.                    *)
Mirrored(r, w, fresh) ==
    wleg' = [wleg EXCEPT ![r] = [@ EXCEPT !.sink = w, !.created = fresh, !.stat = "ok",
                !.at = IF Recovering(r) THEN "record" ELSE "done"]]

MirrorFailed(r, stat) ==
    wleg' = [wleg EXCEPT ![r] = [@ EXCEPT !.stat = stat,
                !.at = IF Recovering(r) /\ stat # "unsure" THEN "unclaim" ELSE "done"]]

Goto(r, at) == wleg' = [wleg EXCEPT ![r].at = at]

(* A write is blind where it does not know whose row it hits: without the claim, *)
(* a row that was deleted and made anew since it was addressed; at its own key,  *)
(* where a POST or the PUT after its conflict goes, one another resource owns.   *)
Blind(r, w) == claim # r \/ Owners(w) \ {wleg[r].key} # {}

(* WorkOS gives row w the attribute p, or drops it. *)
Written(w, p, blind) ==
    /\ workos' = [workos EXCEPT ![w] = p]
    /\ astray' = IF workos[w] = p THEN astray
                 ELSE IF blind THEN astray \cup {w} ELSE astray \ {w}

Elsewhere == <<claim, mapping, ledger, native, call, pc, nleg, acked, legacy>>

MirrorReadFails(r, to) ==
    \/ /\ call[r].op = "replace" /\ mapping[wleg[r].key] = None
       /\ MirrorFailed(r, "rejected")
    \/ /\ Ambiguous(to) /\ MirrorFailed(r, "unsure")
    \/ /\ ~Ambiguous(to) /\ Owners(to) \ {wleg[r].key} # {}
       /\ MirrorFailed(r, "conflict")

(* The address: the mapped WorkOS id, or on first touch the key itself.      *)
MirrorRead(r) ==
    LET key == wleg[r].key
        to  == IF mapping[key] # None THEN mapping[key] ELSE key
    IN /\ At(r, "read")
       /\ \/ MirrorReadFails(r, to)
          \/ /\ call[r].op = "replace" => mapping[key] # None
             /\ Owners(to) \subseteq {key}
             /\ wleg' = [wleg EXCEPT ![r] = [@ EXCEPT !.at = "put", !.to = to]]
       /\ UNCHANGED <<Elsewhere, workos, late, astray>>

(* Mutant: the row found under the attribute is taken without asking who     *)
(* owns it.                                                                  *)
AddressedUnasked(r) ==
    {w \in Id : \/ wleg[r].at = "put" /\ w = wleg[r].to
                \/ wleg[r].at = "reput" /\ w = wleg[r].key
                \/ wleg[r].at = "lookup" /\ workos[w] = call[r].person}

(* Where its next PUT goes: the address it read, the key itself after a POST *)
(* that met a conflict, or the row found under the unique attribute unless   *)
(* another resource owns it.                                                 *)
Addressed(r) ==
    {w \in Id : \/ wleg[r].at = "put" /\ w = wleg[r].to
                \/ wleg[r].at = "reput" /\ w = wleg[r].key
                \/ /\ wleg[r].at = "lookup" /\ workos[w] = call[r].person
                   /\ Owners(w) \subseteq {wleg[r].key}}

Putting(r) == /\ pc[r] = "legs" /\ call[r].op # "delete"
              /\ wleg[r].at \in {"put", "reput", "lookup"}

(* PUT by id: only a row that exists is updated. *)
MirrorPut(r) ==
    /\ Putting(r)
    /\ \E w \in Addressed(r) :
          /\ workos[w] # None /\ CanHold(workos, call[r].person, w)
          /\ Written(w, call[r].person, Blind(r, w))
          /\ Mirrored(r, w, FALSE)
    /\ UNCHANGED <<Elsewhere, late>>

MirrorPutMissing(r) ==
    /\ Putting(r)
    /\ \E w \in Addressed(r) : workos[w] = None
    /\ \/ wleg[r].at = "reput" /\ Goto(r, "lookup")
       \/ wleg[r].at = "put" /\ call[r].op = "replace" /\ Goto(r, "recover")
       \/ wleg[r].at = "put" /\ call[r].op = "create" /\ Goto(r, "post")
    /\ UNCHANGED <<Elsewhere, workos, late, astray>>

(* A PUT WorkOS refuses, a unique attribute another row has included.        *)
MirrorPutRejected(r) ==
    /\ Putting(r)
    /\ \E w \in Addressed(r) :
          MirrorFailed(r, IF CanHold(workos, call[r].person, w) THEN "rejected" ELSE "conflict")
    /\ UNCHANGED <<Elsewhere, workos, late, astray>>

MirrorPutUnsure(r) ==
    /\ Putting(r)
    /\ \E w \in Addressed(r) : Unanswered(r, "workos", "put", w, call[r].person)
    /\ MirrorFailed(r, "unsure")
    /\ UNCHANGED <<Elsewhere, workos, astray>>

(* 409 recovery finds no row under the attribute, or one another owns.       *)
MirrorLookupFails(r) ==
    /\ Putting(r) /\ wleg[r].at = "lookup" /\ Addressed(r) = {}
    /\ MirrorFailed(r, IF \E w \in Holders(workos, call[r].person) : Ambiguous(w)
                       THEN "unsure" ELSE "conflict")
    /\ UNCHANGED <<Elsewhere, workos, late, astray>>

(* POST with the migrated-id header: WorkOS adopts the id or mints its own.  *)
PostTaken(r) == Holders(workos, call[r].person) # {} \/ workos[wleg[r].key] # None

MirrorPost(r) ==
    /\ At(r, "post") /\ ~PostTaken(r)
    /\ \E w \in {wleg[r].key} \cup {i \in MintedId : Unused(i)} :
          /\ Written(w, call[r].person, Blind(r, w))
          /\ Mirrored(r, w, TRUE)
    /\ UNCHANGED <<Elsewhere, late>>

MirrorPostConflict(r) ==
    /\ At(r, "post") /\ PostTaken(r)
    /\ Goto(r, "reput")
    /\ UNCHANGED <<Elsewhere, workos, late, astray>>

MirrorPostFails(r) ==
    /\ At(r, "post")
    /\ \/ MirrorFailed(r, "rejected") /\ UNCHANGED late
       \/ /\ MirrorFailed(r, "unsure")
          /\ Unanswered(r, "workos", "post", wleg[r].key, call[r].person)
    /\ UNCHANGED <<Elsewhere, workos, astray>>

-----------------------------------------------------------------------------
(* recoverMappedResource: under a claim of its own, and only while the       *)
(* mapping is still the one whose row was missing.                           *)

(* Mutant: a recovery goes ahead without a claim. *)
RecoverUnclaimed(r) ==
    /\ At(r, "recover") /\ mapping[wleg[r].key] = wleg[r].to
    /\ Goto(r, "post")
    /\ UNCHANGED <<claim, mapping, ledger, upstream, call, pc, nleg, history>>

RecoverClaim(r) ==
    /\ At(r, "recover") /\ claim = None /\ mapping[wleg[r].key] = wleg[r].to
    /\ claim' = r
    /\ Goto(r, "post")
    /\ UNCHANGED <<mapping, ledger, upstream, call, pc, nleg, history>>

RecoverRefused(r) ==
    /\ At(r, "recover")
    /\ claim # None \/ mapping[wleg[r].key] # wleg[r].to
    /\ MirrorFailed(r, "rejected")
    /\ UNCHANGED <<Elsewhere, workos, late, astray>>

RecoverRecord(r) ==
    /\ At(r, "record")
    /\ mapping' = [mapping EXCEPT ![wleg[r].key] = wleg[r].sink]
    /\ Goto(r, "unclaim")
    /\ UNCHANGED <<claim, ledger, upstream, call, pc, nleg, history>>

(* The write threw: the row may or may not have been stored.                 *)
RecoverRecordFails(r) ==
    /\ At(r, "record")
    /\ \/ UNCHANGED mapping
       \/ mapping' = [mapping EXCEPT ![wleg[r].key] = wleg[r].sink]
    /\ wleg' = [wleg EXCEPT ![r] = [@ EXCEPT !.stat = "unsure", !.at = "done"]]
    /\ UNCHANGED <<claim, ledger, upstream, call, pc, nleg, history>>

RecoverUnclaim(r) ==
    /\ At(r, "unclaim")
    /\ claim' = IF claim = r THEN None ELSE claim
    /\ Goto(r, "done")
    /\ UNCHANGED <<mapping, ledger, upstream, call, pc, nleg, history>>

(* The DELETE leg of workosOnly. *)
WorkosDeleted(r) ==
    /\ At(r, "put") /\ call[r].op = "delete"
    /\ Written(wleg[r].to, None, FALSE)
    /\ wleg' = [wleg EXCEPT ![r] = [@ EXCEPT !.at = "done",
                   !.stat = IF workos[wleg[r].to] = None THEN "gone" ELSE "ok"]]
    /\ UNCHANGED <<Elsewhere, late>>

WorkosDeleteFails(r) ==
    /\ At(r, "put") /\ call[r].op = "delete"
    /\ \/ MirrorFailed(r, "rejected") /\ UNCHANGED late
       \/ /\ \E stat \in {"unsure", "incomplete"} : MirrorFailed(r, stat)
          /\ Unanswered(r, "workos", "delete", wleg[r].to, None)
    /\ UNCHANGED <<Elsewhere, workos, astray>>

-----------------------------------------------------------------------------
(* Both legs are done: what is recorded, what the IdP hears, and whether the *)
(* claim may go.                                                             *)

LegsDone(r, op) == /\ InLegs(r, op)
                   /\ nleg[r].stat # "none" /\ wleg[r].at = "done"

(* Mutant: any answer of WorkOS counts as done. *)
WorkosAnswered(r) == wleg[r].stat \notin {"none", "unsure"}

NativeSettled(r) == nleg[r].stat \in {"ok", "gone"}
WorkosSettled(r) == wleg[r].stat \in {"ok", "gone"}

(* Mutant: a clear forgets to name its resource. *)
ClearAll(ks) == ledger' = {}

Record(k) == ledger' = ledger \cup {k}
Clear(ks) == ledger' = ledger \ ks

(* nativeLegFailed: a gap is recorded where WorkOS is known to have committed. *)
RecordIf(committed, k) == IF committed THEN Record(k) ELSE UNCHANGED ledger

FinishReplace(r) ==
    /\ LegsDone(r, "replace")
    /\ Go(r, "done")
    /\ \/ /\ ~NativeSettled(r)
          /\ RecordIf(WorkosSettled(r), call[r].id)
          /\ UNCHANGED acked
       \/ /\ NativeSettled(r) /\ ~WorkosSettled(r)
          /\ UNCHANGED <<ledger, acked>>
       \/ /\ NativeSettled(r) /\ WorkosSettled(r)
          /\ Clear({call[r].id}) /\ Ack(r)
    /\ UNCHANGED <<claim, mapping, upstream, legacy, astray>>

(* Mutant: a timeout counts as a certain outcome. *)
CanReleaseOnTimeout(r) == "incomplete" \notin {nleg[r].stat, wleg[r].stat}

(* certainDeleteOutcome on both sides. *)
CanRelease(r) == {nleg[r].stat, wleg[r].stat} \cap {"unsure", "incomplete"} = {}

FinishDelete(r) ==
    /\ LegsDone(r, "delete")
    /\ \/ /\ "incomplete" \in {nleg[r].stat, wleg[r].stat}
          /\ UNCHANGED ledger
          /\ Go(r, "done")
       \/ /\ "incomplete" \notin {nleg[r].stat, wleg[r].stat}
          /\ ~(NativeSettled(r) /\ WorkosSettled(r))
          /\ RecordIf(~NativeSettled(r) /\ wleg[r].stat = "ok", call[r].id)
          /\ Go(r, IF CanRelease(r) THEN "release" ELSE "done")
       \/ /\ NativeSettled(r) /\ WorkosSettled(r)
          /\ Clear({call[r].id})
          /\ Go(r, "prune")
    /\ UNCHANGED <<claim, mapping, upstream, history>>

Prune(r) ==
    /\ pc[r] = "prune"
    /\ mapping' = [mapping EXCEPT ![call[r].id] = None]
    /\ Ack(r) /\ Go(r, "release")
    /\ UNCHANGED <<claim, ledger, upstream, legacy, astray>>

(* The prune threw: the delete is still answered, the claim is kept. *)
PruneFails(r) ==
    /\ pc[r] = "prune"
    /\ \/ UNCHANGED mapping
       \/ mapping' = [mapping EXCEPT ![call[r].id] = None]
    /\ Ack(r) /\ Go(r, "done")
    /\ UNCHANGED <<claim, ledger, upstream, legacy, astray>>

(* Mutant: a create native gave no id for counts as refused, a timeout too. *)
NativeNamedNone(r) == nleg[r].id = None

(* isDefinitiveCreateRejection: a 4xx that is neither 408 nor 409. *)
NativeRefusedCreate(r) == nleg[r].id = None /\ nleg[r].stat = "rejected"

WorkosUntouched(r) == wleg[r].stat \in {"none", "rejected"}

Compensable(r) == /\ NativeRefusedCreate(r)
                  /\ wleg[r].stat = "ok" /\ wleg[r].created /\ Owners(wleg[r].sink) = {}

(* Mutant: a create is recorded under the id native never gave it. *)
FailureKeyNative(r) == nleg[r].id

FailureKey(r) == IF call[r].ext # None THEN call[r].ext ELSE call[r].person

ThirdId(r) == nleg[r].id # None /\ wleg[r].owner \notin {None, nleg[r].id}

CreateFailed(r) ==
    /\ LegsDone(r, "create")
    /\ \/ /\ nleg[r].id = None /\ ~Compensable(r)
          /\ RecordIf(wleg[r].stat = "ok", FailureKey(r))
          /\ Go(r, IF NativeRefusedCreate(r) /\ WorkosUntouched(r)
                   THEN "release" ELSE "done")
       \/ /\ nleg[r].id # None /\ (ThirdId(r) \/ wleg[r].stat # "ok")
          /\ UNCHANGED ledger
          /\ Go(r, "done")
    /\ UNCHANGED <<claim, mapping, upstream, history>>

CreateLanded(r) ==
    /\ LegsDone(r, "create")
    /\ \/ /\ nleg[r].id = None /\ Compensable(r)
          /\ Go(r, "compensate")
       \/ /\ nleg[r].id # None /\ ~ThirdId(r) /\ wleg[r].stat = "ok"
          /\ Go(r, "persist")
    /\ UNCHANGED <<store, upstream, history>>

(* The compensating DELETE of a WorkOS row this create made. *)
Compensate(r) ==
    /\ pc[r] = "compensate"
    /\ Written(wleg[r].sink, None, FALSE)
    /\ Clear({FailureKey(r)})
    /\ Go(r, "release")
    /\ UNCHANGED <<claim, mapping, native, late, acked, legacy>>

CompensateFails(r) ==
    /\ pc[r] = "compensate"
    /\ \/ UNCHANGED late
       \/ Unanswered(r, "workos", "delete", wleg[r].sink, None)
    /\ Record(FailureKey(r))
    /\ Go(r, "done")
    /\ UNCHANGED <<claim, mapping, native, workos, history>>

Persist(r) ==
    /\ pc[r] = "persist"
    /\ mapping' = [mapping EXCEPT ![nleg[r].id] = wleg[r].sink]
    /\ Go(r, "settle")
    /\ UNCHANGED <<claim, ledger, upstream, history>>

Settle(r) ==
    /\ pc[r] = "settle"
    /\ Clear({FailureKey(r), nleg[r].id})
    /\ Ack(r) /\ Go(r, "release")
    /\ UNCHANGED <<claim, mapping, upstream, legacy, astray>>

-----------------------------------------------------------------------------
(* The upstreams. *)

(* A write nobody waits for any more is applied as if it had just arrived.   *)
ApplyNative(w) ==
    /\ w.side = "native"
    /\ \/ /\ w.verb = "post" /\ Holders(native, w.person) = {}
          /\ \E n \in Mintable :
                native' = [native EXCEPT ![n] = w.person]
       \/ /\ w.verb = "delete"
          /\ native' = [native EXCEPT ![w.id] = None]
    /\ UNCHANGED <<workos, astray>>

ApplyWorkos(w) ==
    /\ w.side = "workos"
    /\ \/ /\ w.verb = "put" /\ workos[w.id] # None /\ CanHold(workos, w.person, w.id)
          /\ Written(w.id, w.person, TRUE)
       \/ /\ w.verb = "post" /\ workos[w.id] = None /\ Holders(workos, w.person) = {}
          /\ \E i \in {w.id} \cup {u \in MintedId : Unused(u)} :
                Written(i, w.person, Owners(i) # {})
       \/ /\ w.verb = "delete"
          /\ Written(w.id, None, FALSE)
    /\ UNCHANGED native

LateWrite ==
    /\ \E w \in late : /\ late' = late \ {w}
                       /\ ApplyNative(w) \/ ApplyWorkos(w)
    /\ UNCHANGED <<store, local, acked, legacy>>

Step(r) ==
    \/ ReceiveCreate(r) \/ ReceiveDelete(r) \/ ReceiveReplace(r)
    \/ TakeClaim(r) \/ ClaimBusy(r) \/ Release(r) \/ Die(r)
    \/ CheckCreate(r) \/ CreateRefused(r) \/ CheckDelete(r) \/ CheckReplace(r)
    \/ WriteRefused(r) \/ PreflightFails(r)
    \/ NativeCreated(r) \/ NativeConflict(r) \/ NativeReplaced(r)
    \/ NativeDeleted(r) \/ NativeRejected(r) \/ NativeUnsure(r)
    \/ MirrorRead(r) \/ MirrorPut(r) \/ MirrorPutMissing(r) \/ MirrorPutRejected(r)
    \/ MirrorPutUnsure(r) \/ MirrorLookupFails(r)
    \/ MirrorPost(r) \/ MirrorPostConflict(r) \/ MirrorPostFails(r)
    \/ RecoverClaim(r) \/ RecoverRefused(r) \/ RecoverRecord(r)
    \/ RecoverRecordFails(r) \/ RecoverUnclaim(r)
    \/ WorkosDeleted(r) \/ WorkosDeleteFails(r)
    \/ FinishReplace(r) \/ FinishDelete(r) \/ Prune(r) \/ PruneFails(r)
    \/ CreateFailed(r) \/ CreateLanded(r) \/ Compensate(r) \/ CompensateFails(r)
    \/ Persist(r) \/ Settle(r)

Next == LateWrite \/ \E r \in Request : Step(r)

Spec == Init /\ [][Next]_vars

-----------------------------------------------------------------------------
(* Properties. *)

(* No row id_mappings has for one resource leads to the WorkOS row of        *)
(* another, whatever creates, replaces and recoveries overlap: a write or a  *)
(* delete addressed to either would land on both (scim.ts claimedByAnother,  *)
(* index.ts workosPrimaryCreate).  The one exception is the resource the     *)
(* WorkOS id is the native id of, whose own PUT or POST at that id does not  *)
(* ask who has it (scim.ts:928).                                             *)
StrangersNeverShare == \A w \in Id : \A m, n \in Owners(w) \ {w} : m = n

(* Without the exception: what two requests cannot break while the native    *)
(* ids and the externalIds are disjoint, and three can.                      *)
MappingInjective == \A w \in Id : ~Ambiguous(w)

(* A WorkOS row that is linked to a native row and one person's is never made *)
(* another's by a write that asked whose it is: no leg of the dance writes    *)
(* over a neighbour it found under an id (scim.ts mirrorUpsert,               *)
(* claimedByAnother), unless to put right what a blind PUT had done.          *)
KeepsPersons ==
    \A n, w \in Id :
        /\ mapping[n] = w /\ native[n] # None /\ workos[w] # None
        /\ w \notin astray \cup astray'
        => workos'[w] \in {None, workos[w]}

MappedRowKeepsItsPerson == [][KeepsPersons]_vars

(* A write of a create, a delete or a recovery that may still be applied     *)
(* keeps its claim, so that nothing it could hit is created meanwhile        *)
(* (migrations/0014: claims do not expire).                                  *)
UnresolvedWriteKeepsClaim ==
    \A w \in late : w.under # None \/ w.verb # "put" => claim = w.by

(* Every row is reachable through a mapping, or was unlinked from the start, *)
(* or a claim reports that an identity is unresolved.  A WorkOS row that went *)
(* astray may be left behind: the retry of its create no longer finds it.    *)
Unlinked ==
    \/ \E n \in Id : native[n] # None /\ mapping[n] = None /\ n \notin legacy.native
    \/ \E w \in Id : workos[w] # None /\ Owners(w) = {} /\ w \notin legacy.workos \cup astray

LinkedOrClaimed == Unlinked => claim # None

(* Where WorkOS dropped a resource that native still has, the ledger says so *)
(* or a claim stands for the unfinished delete.                              *)
GapIsVisible ==
    \A n \in Id \ legacy.gone :
        mapping[n] # None /\ native[n] # None /\ workos[mapping[n]] = None
            => n \in ledger \/ claim # None

(* id_mappings only changes while the request that changes it holds the      *)
(* claim, so what was read under the claim is still true when used.          *)
MappingMovesUnderClaim ==
    [][mapping' # mapping => claim # None /\ claim' = claim]_vars

(* A neighbour's native row is neither mapped nor deleted by this directory, *)
(* though its unique attribute is one this directory's IdP can name          *)
(* (index.ts nativeCreate).                                                  *)
NeighbourUntouched == \A f \in Foreign : mapping[f] = None /\ native[f] # None

(* The IdP hears 2xx to a create only when both rows exist, are linked and   *)
(* are that person's, unless a PUT that did not ask wrote over WorkOS' row   *)
(* meanwhile, and to a delete only when neither row exists.                  *)
Landed(r) ==
    CASE call[r].op = "create" ->
            LET n == nleg[r].id
                w == mapping[n]
            IN /\ w # None /\ native[n] = call[r].person
               /\ workos[w] = call[r].person \/ (workos[w] # None /\ w \in astray)
      [] call[r].op = "delete" -> native[call[r].id] = None /\ workos[wleg[r].to] = None
      [] OTHER -> TRUE

SuccessIsTrue ==
    [][\A r \in acked' \ acked : Landed(r)]_vars
=============================================================================
