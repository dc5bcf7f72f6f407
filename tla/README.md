# scim-bridge in TLA+

scim-bridge stands between an identity provider (IdP) that provisions users and
groups over SCIM and two places that must both end up with them: the customer
application's own SCIM server ("native") and WorkOS Directory Sync.  A
directory is moved from one to the other along a ladder of modes.  This
directory holds TLA+ models of the bridge, the TLC configurations that check
them, and TLAPS proofs of what matters most.

The program has two hard halves.  While both sides are written, every change
reaches two systems without transactions, either of which may fail, answer late
or not at all, and the two know the same person under different ids.  Once the
proxy stops writing native, the same changes come back to the native app as
events, in any order and more than once, and for a moment it is unclear which
of the two writes.  The models cover both halves and the handover between them.

## Contents

| module | subject | checked by | proved in |
|---|---|---|---|
| `PrimaryIdentity` | workos-primary: who is linked to whom | `PrimaryIdentity_overlap`, `IdentityCases_orders` | `PrimaryIdentityProofs` |
| `PrimaryLedger` | workos-primary: what native is missing, and Reconcile from WorkOS | `PrimaryLedger_traffic`, `_quiet`, `_stuck` | `PrimaryLedgerProofs` |
| `DualWrite` | passthrough, dual-write and workos-only, the backfill, the panel's comparison | `DualWrite_mirror` | `DualWriteProofs` |
| `ModeHandoff` | proxy or listener: mode changes, status endpoint and its client | `ModeHandoff_cutover`, `_rollback` | `ModeHandoffProofs` |
| `DsyncListener` | what an event does to native, event links | `DsyncListener_deliveries` | `DsyncListenerProofs` |
| `EventsPoller` | the events transport and its controller | `EventsPoller_feed` | `EventsPollerProofs` |
| `OrderedFeed` | what the transport promises (abstract) | as a property of `EventsPoller_feed` | as a theorem of `EventsPollerProofs` |
| `ScimServer` | the bundled native and mock WorkOS servers, the mock's event log | `ScimServer_requests` | `ScimServerProofs` |
| `IdpSimulator` | the simulated identity provider and its timer | `IdpSimulator_churn` | `IdpSimulatorProofs` |

`MC<module>.tla` holds the definitions TLC needs (symmetry, function-valued
constants); `MCIdentityCases` puts two instances of `PrimaryIdentity` in one run.
`PROJECT.json` lists the components, the runs, a plausible bug of the code for
every property that the property catches, the source lines of every definition,
the hazards, the findings and the theorems.  Run a configuration with
`tlc -workers 2 -config PrimaryLedger_quiet.cfg MCPrimaryLedger.tla` and the
proofs with `tlapm PrimaryLedgerProofs.tla`.

## Inventory

| component | source | state | operations | what is hard about it | modelled in |
|---|---|---|---|---|---|
| workos-primary write path | `workers/proxy/index.ts` | nothing beyond a request | create, replace, patch, delete on both upstreams | two upstreams, three-valued outcomes, compensation, crash between steps | `PrimaryIdentity`, `PrimaryLedger` |
| migrated-id dance | `workers/shared/scim.ts` | none | `mirrorUpsert`, `createViaPost`, `resolveCreateRace`, `recoverMappedResource` | reads before awaits; ids minted in one space under two conventions | `PrimaryIdentity` under a claim, `DualWrite` without |
| proxy tables | `workers/shared/db.ts` | `id_mappings`, `native_write_failures`, `workos_primary_create_claims`, `scim_directories` | upsert and prune a mapping, record, clear, stamp and sweep a gap, claim, release, lease | release scoped to owners; every retry repeats what may have been stored | both, and `DualWrite` |
| reconcile from WorkOS | `workers/shared/backfill.ts` | the lease, both claims, stamps | list WorkOS, push into native, retire ledger rows | long run over live traffic; a lease that expires under it | `PrimaryLedger` |
| backfill to WorkOS | `workers/shared/backfill.ts` | mapping buffer | snapshot native, mirror, flush | no claim; a delete meanwhile is undone | `DualWrite` |
| passthrough, dual-write | `workers/proxy/index.ts` | mappings, logs | answer from native, mirror afterwards | mirrors of two writes are unordered | `DualWrite` |
| workos-only | `workers/proxy/index.ts` | mappings | translate ids | one upstream; prune | `DualWrite` |
| mode ladder, status endpoint | `workers/proxy/status.ts`, `workers/native/status-client.ts` | `scim_directories.mode`, the client's cache | change mode, answer instructions, cache them | a request keeps the mode it began with, a listener the answer it has | `ModeHandoff`, `DualWrite` |
| Directory Sync listener | `workers/native/listener.ts` | `listener_versions`, `listener_events`, native rows | apply user, group and membership events | any order, duplicates, two scopes per event | `DsyncListener` |
| event links | `workers/shared/event-links.ts` | link rows | bind, resolve | insert-or-nothing, then read back | `DsyncListener` |
| events poller and controller | `workers/native/events-poller.ts`, `events-transport.ts` | cursor, attempts, stored choices | poll a page, retry, give up, advance; start, stop, retarget | crash within a page; two loops after a restart | `EventsPoller` |
| native namespace attribution | `workers/shared/native-namespace.ts`, `server/config.ts` | prefix or shared flag | attribute a native row to a directory | check-then-write on save | a constant of `PrimaryIdentity`, an initial choice of `DualWrite` |
| bundled SCIM servers, mock emitter | `workers/native` | rows, event log | SCIM on users and groups; log each write | no transaction around a request | `ScimServer` |
| IdP simulator | `workers/idp` | its own rows, a timer and the row about it | drive a directory by hand, seed or timer | read, send, save; two calls at once | `IdpSimulator` |
| panel: live-state comparison | `app/routes/panel/reconcile.ts` | none | compare three listings by name | tombstones are not drift | operators of `DualWrite` |
| tokens, upstream URL policy | `workers/shared` | hashes | rotate, validate | pure checks | no |
| datastore drivers, migrations | `server/db`, `workers/shared/datastore.ts` | schema | retry six times | a retried statement may have run | no |
| panel pages, boot, deployment | `app/`, `server/index.ts`, `deploy/`, `scripts/` | none of their own | display, configure | presentation | no |

How they interact: the IdP calls the write path over HTTP; the write path calls
both upstreams and the tables; reconcile and backfill are started by an operator
from the panel and share tables and upstreams with the write path; WorkOS sends
events to the listener (webhook) or answers the poller, and the listener writes
native once a directory is on workos-only, which it learns from the status
endpoint.

What makes each correct:

* **write path**: a native id and a WorkOS id are linked one to one; a 2xx is
  true of both upstreams; whatever is left half done is visible in the ledger or
  blocked by a claim; a neighbour directory's rows are never touched.
* **reconcile**: one at a time; after a clean run native equals WorkOS; it retires
  exactly the gaps it repaired, and restores nothing that was deleted.
* **dual-write, backfill**: what native accepted reaches WorkOS once, in order.
* **listener, poller**: an event is applied in the order of its versions in each
  scope, none is lost but an abandoned one, and every order of delivery converges.
* **mode ladder**: no write is applied by both or by neither of proxy and listener.

The hazards behind these, each at its line, are in `PROJECT.json`, with the
properties that cover them or the reason none does.

## PrimaryIdentity: who is linked to whom

One directory, one resource type.  A *person* is what the IdP means
(its attribute: `userName` or `displayName`, and perhaps an `externalId`); native
and WorkOS each hold rows under ids of their own.

| variable | code |
|---|---|
| `native`, `workos` | the rows each upstream holds, by id, with the person they are |
| `mapping` | `id_mappings` of the kind |
| `ledger` | the resources with a `native_write_failures` row |
| `claim` | the kind's row of `workos_primary_create_claims` |
| `pc`, `call`, `nleg`, `wleg` | the locals of each handler between two awaits |
| `late` | requests sent whose answer never came: each may still be applied, once, at any time or never |
| `acked`, `legacy` | histories: what the IdP was told; what was unlinked when the behaviour began |
| `astray` | history: the WorkOS rows a write that did not ask whose they were gave to another person |

Each `await` that reads or writes shared state is a step, so two handlers
interleave at exactly the points the event loop lets them.  The steps follow the
code: claim, preflight, the two legs in parallel, the WorkOS leg as the
migrated-id dance with its own reads and writes, compensation of a refused
create, persisting the mapping, clearing the ledger row, releasing the claim.  A
handler may stop at any of them (`Die`): the process was killed, or an exception
left the handler after writes began.

Choices a reader should know:

* An uncertain outcome (timeout, 5xx, 2xx that confirms nothing) is one action:
  the request becomes a late write.  "Applied, acknowledgement lost" is the case
  where it lands at once.
* The lookup and the PUT of `resolveCreateRace` are one step; the claim keeps
  other creates and deletes out between them.
* Some writes to WorkOS do not ask whose row they hit.  A PUT takes no claim, so the
  row it addressed may be deleted and made anew for somebody else before it lands;
  and the PUT after a POST's conflict goes to the resource's own native id, which may
  be a row another resource is mapped to.  Both need a third request to do harm.
  `Blind` names such writes and `astray` remembers the rows they gave away.
* Native answers a PUT to a missing row with 404.  The repository's stand-in
  upserts; real servers do not, and the code has a branch for it.
* Not in this module: PATCH (it changes no identity), member checks of groups,
  renames, an operator deleting a stuck claim, changes to native made by others.

## PrimaryLedger: what native is missing

The same rung seen from the data.  A resource has one key on both sides, and
each side shows some *content*: the write that put it there.  All four live
operations are modelled with their two legs and outcomes, and
`runReconcileFromWorkos` step by step: lease, both claims (users, then groups),
identity maps, stamping, a listing and a replay per kind, per-resource clears,
the sweep, and every way out: refused, claim busy, exception, death.

| variable | code |
|---|---|
| `claim`, `lease`, `mapped` | the create claims, `reconcile_token`, `id_mappings` |
| `gap`, `stamp` | method and `sweep_token` of `native_write_failures` |
| `native`, `workos`, `late` | the upstreams, and writes whose answer never came |
| `req`, `run` | handlers and runs |
| `told`, `fresh` | histories: what the IdP was told; rows recorded since a run stamped the ledger |

Choices:

* What identities can make fail appears as outcomes: `Refused`, `PushSkipped`,
  `PushRejected`, an unsure native 409.  The steps inside a recovery are
  `PrimaryIdentity`'s; here it is one.
* A lease older than 30 minutes may be taken over.  Time is not modelled: any
  lease may be that old.  A lease taken with a lost acknowledgement leaves the
  same state as a run that dies at once.
* A listing is taken in one step per kind, and may be partial.  The mapping write
  and the per-resource clear that follow a push are one step.
* `Init` is a quiet moment, not an empty directory: resources may be mapped and
  equal, reported missing on native (a write or a delete), or present on one or
  both sides without a mapping.
* `Quiesced` restricts a run to start without live writers or late writes, and
  live writes to arrive outside runs; `Serialized` makes the IdP send the writes
  of one resource one at a time.  Each run says which it uses.

## DualWrite: one side leads, the other follows

The rungs on which one side answers the IdP: native on passthrough and
dual-write, WorkOS on workos-only; and the backfill an operator starts from the
panel.  A dual-write request is answered after its native leg and mirrored in
`waitUntil`, so mirrors run beside whatever comes next.

| variable | code |
|---|---|
| `mode`, `site` | the directory's rung; its own native app, a shared one, or a WorkOS that keeps deleted users as inactive |
| `native`, `born`, `workos` | rows of the two sides; `born` is what each of native's two listings has, oldest first |
| `map`, `gap` | `id_mappings`, and the ledger rows an earlier workos-primary left |
| `pc`, `req`, `body`, `row` | each request between two awaits: its step, what it asks, the translated content, the WorkOS row it addresses |
| `stage`, `snap`, `sink` | the backfill: its phase, the rows it listed, the mappings it has not yet written |
| `want` | history: what the IdP was last told it has |
| `oldN`, `oldW`, `crossed`, `stale` | histories: why a side may differ (below) |
| `held`, `before`, `ever`, `wrote` | histories for the listing, the namespace and the ledger |

The dance of `mirrorUpsert` is one action per request to WorkOS (`PutHits`,
`PutMisses`, `PostCreates`, `PostConflicts`, `Reput`, `Lookup`, `Sync`), shared by
mirrors, workos-only requests and the backfill's rows.  Choices:

* The IdP sends one request per resource at a time.  A passthrough or dual-write
  request counts as answered after its native leg.
* `oldN` and `oldW` name the resources something is *known* to have happened to: a
  write the other rung did not mirror, a failed or unheard leg, a crash, or a
  mirror that ran across another writer of the same resource or its members.
  A later replace, delete or backfill that nothing crosses takes the resource out
  again.  `MirrorsConverge` is about all others, so what it says is that nothing
  *else* makes the sides differ.
* The backfill lists by offset, page by page, from a table that changes under it;
  members are translated by the mappings flushed so far; any page, row or flush
  may fail.  In the code a workos-primary directory may be backfilled too.
* Group members are translated on writes.  The translation of ids in what reads
  answer is left out.

## ModeHandoff: who writes native

Through a cutover, native changes hands from the proxy to the listener, which
learns of it from the status endpoint and caches what it is told.  Write `n` of
one resource leaves the value `n`, so "native has the last write" is
`native = latest`.

| variable | code |
|---|---|
| `now` | the clock, in ticks |
| `mode`, `updated` | the directory row, from which the entity tag is made |
| `legs`, `latest` | the write under way, in the order its mode reaches the upstreams; how many there were |
| `pending` | events WorkOS has not had acknowledged |
| `cache`, `failedUntil` | the status client's entry and its backoff |
| `version` | the listener's high-water mark |
| `pc`, `run` | each delivery: its step, and the entry, request time and reply it holds over an await |

`ReadCache`, `BackOff`, `Ask`, `Serve`, `Hear304`, `Hear200` and `FetchFails` are the
paths through `fetchDirectoryStatus`; `Conclude` is `dsyncInstructionForEvent`, which
asks a second time, demanding confirmation, before it ignores an event.  Choices:

* A tick is short: the status is never asked for and changed within one tick.
  Without this, two answers of one instant could not be told apart by their time.
* No fetch lasts longer than `Timeout`; the abort is in the code.
* `Bundled` says whether the listener runs beside the proxy and may fall back on
  the directory row itself.
* Applying an event is one step here; it is the subject of the next module.

## DsyncListener: what an event does to native

WorkOS emits events about people, groups and memberships, each stamped with its
time; deliveries come in any order, any number of times, to handlers that may
fail at any statement.

| variable | code |
|---|---|
| `log`, `person`, `group`, `edges` | WorkOS: what it emitted, and what it holds |
| `scheme` | events with a Directory Sync id ("dsync"), or the bundled emitter's without ("legacy") |
| `live` | the status endpoint's `apply_dsync_events` |
| `users`, `groups`, `members` | the native app's tables |
| `links` | `dsync_event_links` |
| `versions` | `listener_versions`: the newest event per scope |
| `processed`, `ignored` | `listener_events` |
| `run` | each delivery: what it resolved, and the statements it has still to run |

A delivery reads three times (on arrival, at `resolve` and at `plan`) and then runs
its statements one by one at `write`: rows, memberships, versions, the record.  Before the
cutover an event is recorded and advances its versions, but writes nothing.
Choices:

* An event's time is its place in `log`: the code compares ISO timestamps as
  strings.
* Rows are looked up once, where the code looks them up, and used afterwards.
* `OwnIdentity` and `OwnGroup` in the convergence properties exclude people
  and groups that shared an idp_id or a name with another: which of the two ends
  on the row is not defined by the code.  In the legacy scheme they also exclude
  a changed idp_id, which names another row.

## EventsPoller and OrderedFeed: the feed in order

`OrderedFeed` is the promise: events of a feed are settled in order, none that the
API still serves is passed over, and each event of the feed being followed is
settled in the end.  `EventsPoller` is `pollDsyncEventsOnce`, the loop around it
and the controller.

| variable | code |
|---|---|
| `emitted`, `retained` | each Events API: what it has, and from where it still serves it |
| `processed`, `abandoned` | `listener_events` |
| `cursor`, `retry`, `config` | `native.events_cursor`, `native.events_retry`, the stored transport, target and key |
| `loop`, `on`, `src`, `key`, `due` | the controller: its loop, whose timers run, what they were started with, whether a reconcile is due |
| `pc`, `cur`, `budget`, `pos`, `hi`, `last` | each poll: its step, its copies of cursor and budget, where it is in its page |
| `fails` | history: failed attempts per event |

The refinement mapping takes `settled` to `processed \cup abandoned` and `watched` to
the source the controller's loop follows once it has caught up with the panel.
Stopping a loop clears its timer and nothing else; a poll in flight runs on, and
shares one cursor and one budget with the loop that replaced it.

## ScimServer: the servers that come with the bridge

Each request is the list of statements it has still to run (`handleCreate`,
`handlePut`, `patchUser`, `patchGroup`, `handleDelete`, `handleGet`, `handleList`), and two
requests interleave between statements, since nothing ties them together.  `role`
is the server's migrated-id mode: the native app creates on a PUT that brings the
id, the mock directory adopts it on POST and tells every write in its event log.
`Contract` says what a verb does and answers in one step, from the tables as they
were when the request began: an abstract specification for requests nothing runs
beside.  `told` is what a reader of the log would believe.

## IdpSimulator: the other end

Every operation is look, send, save, on the simulator's tables (`row`, `edges`)
and on upstream accounts (`account`, `links`, external).  A call is a list of
operations (`plan`); a seed is several, an order to start or stop the timer is
clear, halt, run, arm.  `timer` is the entry of the map, `leaked` counts timers no
entry points to any more, `auto` is the row the panel shows.  `upset` and `tangled`
remember which resources a fault, an overlap or a reset touched and whether orders
crossed, for properties about all others.

## What the runs check

The names are those of `PROJECT.json`, which gives each run's configuration.

| run | instance | shows |
|---|---|---|
| `identity_overlap` | 2 writes of any kind, inherited rows | `StrangersNeverShare` (besides the resource whose own id it is, at most one is mapped to a WorkOS row), `UnresolvedWriteKeepsClaim`, `LinkedOrClaimed` (every row is reachable through a mapping or was unlinked from the start, or a claim stands), `MappedRowKeepsItsPerson` (no linked row is given to another person by a write that asked whose it is), `MappingMovesUnderClaim`, `SuccessIsTrue` (a create answered 2xx has two linked rows, a delete none) |
| `identity_cases` | two deployments: writes of one resource in order; a native app with a neighbour directory's row | `GapIsVisible` (native never keeps what WorkOS dropped unseen), `NeighbourUntouched` |
| `ledger_traffic` | 2 runs, 1 write, everything overlaps, leases taken over | `OneReplay`, `UnresolvedReplayKeepsClaims`, `FreshRowsStand`, `ReplayRestoresNothing` |
| `ledger_quiet` | runs and writes do not overlap | `NativeCurrent`, `CleanReplayIsParity`, `ReplayRetiresRepaired`, `DeleteGapStands` |
| `ledger_stuck` | two runs, the first not clean | finding 1 |
| `listener_deliveries` | 2 people and a group over two idp_ids that share a user name, 4 events, one failed statement, both schemes | `UserConverges`, `EdgesConverge` (once all events are recorded native is as WorkOS), `HandoverIsClean` (a row that changes hands carries no membership over), `SupersededNeverWrites` (no event writes when a newer one of its scopes is recorded) |
| `poller_feed` | 2 feeds, 2 loops, 2 events, 2 attempts, one panel action, one restart | `NoGap`, `GivenUpOnlyWhenSpent`, `FeedOrder` (refinement of `OrderedFeed`), `EveryEventSettles` (liveness) |
| `dualwrite_mirror` | 2 users and a group, three sites, two actors | `MirrorsConverge`, `PanelShowsNoDrift`, `MapsOnlyItsOwn`, `GapsCloseForCause` |
| `handoff_cutover` | 2 deliveries, 2 writes, 2 moves, 1 fault, cache of 2 ticks | `CutoverLosesNothing`, `DropIsConfirmed`, `ApplyIsRecent` |
| `handoff_rollback` | 1 delivery, no faults, 4 ticks | finding 2 |
| `scim_requests` | 2 requests out of all there are, on either role | `NamesAreUnique`, `MeetsTheContract`, `RefusalWritesNothing`, `LogTellsTheState` |
| `idp_churn` | 4 calls, two at a time, one fault | `TwinsAgree`, `TimerObeys`, `RowTellsTimer` |

Every property is paired in `PROJECT.json` with a mutant, a plausible bug of the
code (a dropped guard, an unscoped release, a stamp kept by an upsert, a cursor
moved to the end of the page), under which TLC finds it violated.  The type
invariants of `DualWrite`, `DsyncListener`, `ScimServer` and `IdpSimulator` are not
listed as properties; a line `INVARIANT TypeOK` in their configurations checks them.

CHECK_DEADLOCK is FALSE everywhere: writes, calls, runs and moves are bounded, so
every behaviour ends.

### Bounds, and why they are enough

The interesting cases need an actor and a rival, and a third where a delete, its
retry and a create meet.  Resources meet only through claims, leases, ids, names
and memberships, so one or two of each kind suffice.

* `PrimaryIdentity`: two persons and, in `overlap`, one person's inherited rows;
  native ids and externalIds are disjoint, and `PrimaryIdentity_alias` shows why that
  is needed.  `PrimaryLedger`: one user, and one group where both claims matter;
  larger instances (two writes and a run, three writes and a run, two users) were
  checked and hold.
* `DsyncListener`, 4.1 million states: two people whose idp_ids share one user name
  are the least for a recycled id and for the UNIQUE index to bite; four events allow
  add, remove, rename and delete of one membership; at most three precede the cutover.
* `EventsPoller`, 130,832 states: two events and two attempts are the least for a
  poison event with one behind it; pages of two put both in one page, and the end of
  the page at the end of the feed.  Two loops are the least for an overlap.
* `DualWrite`, 2.8 million: `MaxSpent` 3 counts writes, faults and moves; a backfill
  costs two, so it meets one write, one fault or one crash.  Pages of one make an
  offset shift possible with two users; a flush of two makes a partial flush possible.
* `ModeHandoff`, 3.2 million: a cache of two ticks, a fetch of at most one, and three
  ticks let an entry be fresh, old and expired; two moves are a cutover and its
  rollback; two deliveries are the least for one to revalidate the other's entry.
* `ScimServer`, 1.5 million: every pair of requests, from every small set of tables.
* `IdpSimulator`, 2.0 million: four calls cover start, tick, stop and one operation.

Symmetry is used over requests, handlers, callers, users and groups where no
definition singles one out, and never with liveness.

### Fairness

Only `EventsPoller` states any, and only `EveryEventSettles` uses it (`FeedOrder` is
the safety part of `OrderedFeed`):

* weak fairness of `Reconcile`: a panel action and boot run on to their reconcile;
* weak fairness of `Tick(l)` and `PollStep(l)`: a timer that runs fires again, and a
  poll goes on from one statement to the next;
* weak fairness of `Handled(l)`: the listener returns, with success or failure;
* strong fairness of `Answered(l)`: an API asked again and again answers sometimes.

Nothing is assumed of an event succeeding (a poison event is given up on), of the
operator, or of crashes, which the bound ends.  The property excuses events the
API forgot and feeds the operator turned away from, nothing else.

## Findings

1. **Stuck stamps** (`ledger_stuck`).  A run that is not clean leaves its stamp
   behind; later runs stamp only unstamped rows and retire only rows they stamped,
   so those rows outlive every clean run.
2. **A rollback is not benign** (`handoff_rollback`).  `docs/listener-status.md` says
   that a listener which keeps applying for a cache's length after a rollback does
   no harm, since its handlers are idempotent.  An event of a write made before
   the rollback then lands after the proxy wrote a later value to native itself,
   and stays: the versions know events, not the proxy's own writes.

### Divergences kept beside the runs

Configurations that TLC finds violated, kept for what they show.  Run each with
`tlc -config X.cfg MC<module>.tla`.

| configuration | property | what happens |
|---|---|---|
| `PrimaryIdentity_alias` | `MappingInjective` | `recoverMappedResource` and the creates that end in `createViaPost` take the WorkOS id an answer brings without asking whose it is; if one resource's native id is another's `externalId`, two native ids end on one WorkOS row |
| `PrimaryIdentity_cleared` | `GapIsVisible` | PUTs take no claim: one whose native leg succeeded before an overlapping DELETE's failed may finish last, and clears the ledger row the DELETE recorded |
| `PrimaryLedger_replay` | `NativeCurrent` | a PUT accepted by both sides between a run's listing and its push is overwritten on native, with no ledger row |
| `PrimaryLedger_adopted` | `RetiredRowsAreRepaired` | native's 409 to a retried create adopts the existing row unchanged, but the ledger row for the write it missed is cleared |
| `DsyncListener_rename` | `ChangedExternalIdConverges` | the comment at `listener.ts:398` says clearing the memberships of a row whose external id changes converges for a new occupant and for the same person alike; for the same person the memberships WorkOS still has stay lost, since no event adds them again |
| `DsyncListener_concurrent` | `SupersededNeverWrites` | with two deliveries at once the version is tested (`listener.ts:202`) several statements before the row is written, and an older event writes over a newer one |
| `DualWrite_snapshot` | `SnapshotIsComplete` | the comment on `snapshot` says every way the enumeration can come up short records an error; a row deleted on native between two pages moves a later one across the offset and out of a listing that records none |
| `EventsPoller_strands` | `KeyNeverStrands` | `clearEventsApiKey` (`events-transport.ts:418`) takes an absent target for the mock; where the default is real WorkOS, clearing the key stops the running poller it means to protect |
| `EventsPoller_overlap` | `AppliedOneAtATime` | a retarget and back while a poll is in flight leaves two polls of one feed, and both hand the listener an event at once; the transport's introduction rests ordering on there being one |
| `IdpSimulator_timers` | `OneTimer` | two starts at once both await between clearing and arming, and the first timer is dropped from the map live: nothing can stop it |

## What is proved

For every value of the constants (any number of persons, ids, users, groups,
requests, runs, deliveries, loops, feeds and events), from the named assumptions of
the modules alone: the sets of ids and actors are disjoint, null is outside them,
and the sizes and bounds are natural numbers.

**PrimaryIdentity** (`IdAssumption`).  `TypeCorrect`; then `ClaimSerialises` (id_mappings
changes only under a claim the change does not give up, so what a handler read
under its claim is still true when it uses it), `UnresolvedWritesAreClaimed` (a
create, delete or recovery one of whose writes may still land keeps the claim) and
`OneOwner` (two requests are never both between preflight and release).  The
inductive invariant `ClaimInv` adds to type correctness that such a handler holds
the claim (`ClaimHeld`), that only a replace recovers (`ReplaceRecovers`), and that
the sender of a late write still has the claim and has no way left to give it back
(`LateHeld`).  Without the last part the invariant is not inductive: a handler
could release the claim under its own lost write.

`NeighboursAreLeftAlone`: the native rows of the app's other directories are neither
mapped nor deleted, because no request gets past its preflight with the id of one, no
answer makes a leg adopt one, and no DELETE still to land names one (`NeighbourInv`).

The second half of the module is about the identities themselves.  The owner of the claim is
the only one to change a mapping, and while its outcome is certain none of its writes is
in flight; so whatever happens beside it is a PUT to a row that exists.  Invariants
build on each other:

* `KeyInv`: a create's leg is keyed on the id native gave, or on one nobody maps, and the
  row it ends on belongs to nobody else or is the one at its own key.  Hence
  `StrangersStayApart`.
* `LandInv`: what a handler's own legs wrote is still there when it answers.  Hence
  `SuccessIsNoLie`.
* `Twins`: the two rows of a mapping are one person's, unless the WorkOS row is
  `astray`.  Hence `LinkedRowsKeepTheirPerson`: a leg that knows whose row it writes is
  at the row its own native row is linked to.
* `NativeLinked`, `WorkosLinked`: while the outcome of a claim is certain, the one row
  without a mapping is the one its owner is about to store.  `LegInv` says what its leg
  knows besides: that no second row carries its attribute, that none is at its own key
  after a conflict, and that the row a recovery leaves is gone.  Hence `NoRowIsLost`.

* `GapInv`, for an IdP that sends the writes of one resource in order: only a resource's
  own DELETE drops a row that is mapped, under a claim it does not give back before the
  ledger says so (`Told`, `Dropping`); and a PUT that both sides took, which strikes its
  resource off the ledger, has a row there that nothing takes away before it is over
  (`Puts`).  Hence `GapsShow`.  It assumes besides that no `externalId` is a native id,
  and the property needs that: the ledger keys a failed create by its `externalId`, and
  with two persons, one of whose `externalId` is the other's native id, TLC finds that a
  create which succeeds at its second attempt strikes off the row the other's failed
  DELETE had left.

Trying to prove these showed that their first forms, which TLC had found true of two
requests, fail with three: a PUT that looked up its row before a delete and another
person's create can still hit it, and a PUT after a POST's conflict goes to the own
native id, whoever is mapped to it.  Hence `astray` and `StrangersNeverShare`: the
properties name these exceptions instead of resting on the size of the instance.
`MappingInjective`, the form without the exception, three requests can break even where
no native id is an `externalId`.

**PrimaryLedger** (`LedgerAssumption`).  `LedgerTypeCorrect` needs two facts more than
`TypeOK`: a handler at work has an operation and a resource, and what a run has yet to
push it listed with some content.  Then `OneReplayAlways`, `LostReplayKeepsClaims`,
`FreshRowsStandAlways` and `ReplayRestoresNothingAlways`.  Their inductive invariant
`ReplayInv` says who holds which claim when:

* `RequestHolds`, `RunHolds`: creates and deletes past their claim, and runs from
  the claim to its release, hold it;
* `LateReplayHeld`: a replayed write that may still land belongs to a run which
  holds both claims and is over, or is still replaying and knows it has something
  unresolved, so that it will leave without releasing;
* `LateDeleteHeld`: the same for a DELETE that may still land on WorkOS;
* `FreshUnstamped`: a row recorded since a run stamped the ledger does not carry
  that run's stamp;
* `ListedStands`: what is listed and not yet pushed WorkOS still holds.

The two lemmas `LiveHasEffect` and `RunHasEffect` reduce each action to what it
does to the others (claims, stamps, late writes, rows removed from WorkOS);
`LiveKeeps`, `RunKeeps` and `LateWriteKeeps` then prove the invariant from those
effects alone.

The second half of the module proves what the ledger promises of the data, assuming `Serialized` and
`Quiesced`: `NativeCurrentAlways`, `CleanReplayEndsInParity`, `ReplayRetiresOnlyRepaired`
and `DeleteGapStandsAlways`, for any number of requests, runs, users and groups.  Their
invariant `QuietInv` adds to `ReplayInv`:

* `OneWriter`, `Apart`: a write at work has its resource to itself, and no run beside it;
* `Owned`: so what its outcomes say of the two sides still holds when it records or
  clears, unless a write nobody waited for landed in between, which `told` remembers;
* `LateOwn`, `LatePostHeld`, `LatePush`: whose those late writes are, and that a lost
  POST leaves a claim behind which nobody gives back (`Stuck`);
* `Settled`: where the IdP was told success the two sides agree, and a row that native
  has and WorkOS has not, with a ledger row for a missed write, is excused by a
  delete or create at work, or a stuck claim keeps every run away from it;
* `Replayed`: what a run has listed and not yet pushed WorkOS still holds as it was
  listed, and what is behind it is equal on both sides if the run is still clean.

A proof of `DeleteGapStands` failed at first, for a reason that needs three requests: a
DELETE of WorkOS without an answer may land after a later PUT has written both
sides and before that PUT clears the ledger row.  The property excepts it.  Another
attempt showed that the model let a push be recorded after the run that made it had
thrown; in the code an exception leaves the loop, and `Pushed` now says so.

**EventsPoller** (`SourceAssumption`, `NumberAssumption`).  `PollerTypeCorrect`;
`CursorLeavesNoGap` and `PollerImplementsFeed`, from one invariant, `Ordered`: each poll's
`last`, `cur` and place in its page stand where everything before is settled or
forgotten (`Trail`), and so does the shared cursor (`CursorPassed`).  The cursor alone
is not inductive, since a poll writes the place it remembered when it began; it
works because settled events stay settled and the API forgets only the oldest
(`FeedGrows`), so a place once passed stays passed.  `GivenUpWhenSpentAlways` rests on
`Spent`: every count, persisted or held by a poll, is at most the failures that
event has really had (`Counted`).

**ModeHandoff** (`ClockAssumption`, `RungAssumption`, `BundledAssumption`,
`NoneAssumption`, `BoundAssumption`).  `HandoffTypeCorrect`; `NothingIsDroppedOnAnOldAnswer`
and `NothingIsAppliedOnAnAnswerLongPast`.

* `Seen` says what each piece of stored knowledge proves about each delivery: if the
  mode, the cached entry, an answer on its way or the row the delivery read says
  "do not apply", and is stamped no earlier than the delivery arrived, the
  delivery has lived through a moment in which that was true.  `FreshCache` and
  `FreshAnswer` (what is stamped now is what the row says now) close the gap a delivery that arrives
  in the same tick would leave.
* `Recent` is the converse for "apply": the directory was on workos-only no longer
  ago than the entry, the answer or the row says.
* Both are about *every* delivery, since one revalidates the entry another uses;
  `AsTold` says what any step of the client does, so the argument is made once.
* `CutoverKeepsTheLastWrite` joins the two to the data.
  Before the cutover no delivery is told to apply (`ToldNothing`, from `Recent` and the
  entries fetches hold), so native has what the proxy wrote last or is about to
  (`ProxyWrites`).  After it, the last event stays pending until it is settled
  (`StillComing`): applied, it is on native; dropped, the delivery saw a moment
  of another mode (`Seen`), and at that moment the proxy had written native or
  was going to (`InertSaw`).  `HandledIsCurrent` is the conclusion.  It assumes that
  passthrough is not among the rungs: a write sent in passthrough has no event,
  and one of an earlier write that is still pending would be applied over it after a
  direct move to workos-only.

**DualWrite** (`KindAssumption`, `FiniteAssumption`, `WorkerAssumption`, `SiteAssumption`,
`SizeAssumption`, `MintAssumption`, `NoneAssumption`; the last two say that an id made from
a resource is not itself one, nor `None`, and that `None` is neither a flag nor a set of
rows).
`NoNeighbourIsMapped`: on a shared app every mapped resource was created through this
directory.  The invariant `Ind` carries it from the mappings (`OwnMapped`) to the
places a mapping may come from: a request or a backfill row in the middle of
the dance (`OwnDanced`, `OwnFilled`) and the mappings not yet flushed (`OwnQueued`).  It
needs `Created` besides: a create names a resource that was not there at first and
that native has by the time it is mirrored.
`GapsAreClosedForCause`: a ledger row goes away only when native has accepted a write of
the resource, or when neither native nor WorkOS, under the id the proxy's tables knew,
has it any more.  `GapInd` says whose row is whose (`RowsFit`), that native's listings and
what the backfill copied of them are of rows native has had (`Listed`), that a resource
has one unanswered request (`OneUnanswered`), and what is known while native has accepted
no write of a resource that has a gap (`UnwrittenStands`): the backfill carries no row of
it unless native has it, nothing mirrors it but workos-only writes and refused deletes, and
a delete that native refuses is the last thing the IdP asks of it, alone with its WorkOS
row until the gap is closed.
An earlier form of the property, "no WorkOS row stands", was false, on a larger
instance than the run's: a workos-only PUT may find WorkOS' row gone and create it under a
new id whose mapping is never recorded; a dual-write DELETE then gets 404 for the
id that is mapped, and closes the gap while the orphan stands.
`MirrorsAlwaysConverge` and `PanelNeverDrifts`: at rest both sides hold what the IdP was
told, and the panel agrees, for any number of resources and requests, pages and flushes of
any size, and whatever bounds `MaxActors` and `MaxSpent` are given.  Since the properties speak
only of rest, their invariant `ConvInv` must say how each resource stands in between:

* `Holding`: a resource no request is at and nothing is known of has one row, mapped and
  `Right` (or, once deleted, nothing `Left` but what WorkOS keeps of a user); while the
  backfill has it, the row may still be unmapped.
* `Follows`: what a mirror nobody ran across may rely on at each step.  The IdP was last
  told what it asks (`TellsOf`), its content is translated as it would be now
  (`BodyRight`), the row it patches is right but for the members it carries
  (`BeforePatch`), and past the write its row is the only one.  `Crossing` is why: it has
  its resource, and the members it names, to itself.  `FillerFollows` and `SinkFollows`
  say the same of the backfill's row at work and of those written but not yet mapped.
* `FitsUser`: what a group's row has of one user.  It is about one user at a time because
  others than the group's own requests change it: a user's delete takes its row from the
  members on WorkOS, on workos-only even before the IdP is told (`Pruning`); a deleted
  user whose mirror failed or will count as crossed stays listed (`Doomed`); and a new
  mapping renames a user's row, which sets the groups that name it aside in `oldW`.
* `NativeAgrees`, `Copies`: native has what the IdP was told, and so has what the backfill
  read of it, unless it was written since (`stale`).  `Stages` and `Distinct` keep
  a resource in one place of the backfill at a time, and the pages from meeting a row
  twice.
* `Asked`, `BornFirst`, `Dangling`: the IdP writes what it has, names only users that were
  created, and a group lists a deleted user only if its mirror can no longer end well.

Each conjunct has a lemma of its own (`HoldingStays`, `FollowingStays`, ...), which rests
on lemmas about causes: what moves a worker, writes a row or a mapping, tells the
IdP, sets `oldW` or takes it back.  `DualWriteTypeCorrect` follows with little besides
(`Named`).

**DsyncListener** (`PersonAssumption`, `BoundAssumption`, `LiveAssumption`,
`SchemeAssumption`, `NoneAssumption`, `IdAssumption`, `RowAssumption`).  `TypeCorrect` holds of
any number of deliveries at a time.  `HandoverClean`, `LastWriterWins`, `RowsConverge` and
`MembershipsConverge` are about one at a time (`Single`), as the run
`DsyncListener_deliveries`: with two `SupersededNeverWrites` fails, as
`DsyncListener_concurrent` shows.  A delivery is still a statement at a time, each may fail, and
WorkOS goes on and the cutover comes in between.

* `WorkosOK` is about the source: which event of a person, group or membership is the
  newest, and what it says of the directory; and that until the cutover native holds what
  WorkOS holds.
* `FlightInv`: until its last write a delivery's event was not late when the ledger was read
  (`Fresh`), and what it has left is the end of what its event leads to on the
  rows as they are now, not as they were when it read them (`Owed`).  That is where `Single` is
  needed.  `UserRows` says from which events a row has its idp_id and name.  These are
  `ListenerInv`; `HandoverClean` and `LastWriterWins` follow from the statement at the head.
* `ScopeOK`: the timelines of an event are those of its own attributes and, through a
  linked row, of earlier idp_ids of its person, never another's (`ScopesKnown`); what is
  recorded brought each of its own up to itself, or was late (`RecordedKnown`).  So of the
  events of a person the newest, which is late on no timeline, is the one its stable timeline
  ends with.
* `PersonsSettle`: from the moment that event has nothing left to write, the row shows what
  WorkOS has.  `RowsConverge` is this at rest.
* `EdgeInv` adds the memberships.  `GroupRows` and `EdgesFrom`: a group's row has the
  idp_id of a group WorkOS told of, and a membership comes from an addition to that group of
  the person or of a namesake, so it is for no other person's event to touch.  An event counts as
  applied (`Seen`) once a timeline ends with it or a delivery has only its bookkeeping left.
  From then on a person who is kept has a row (`RowsStay`), a removed group has none
  (`GroupsSettle`), and a membership is there exactly if its newest event is an addition
  (`EdgesSettle`).  An event that is late when it arrives has a newer one on a timeline of its
  own, so it is not the newest.  `MembershipsConverge` is this at rest.

**IdpSimulator** (`NameAssumption`).  `SimulatorIsTyped`; `CallType` types a call with the
operations it has still to run.  `OrdersRuleTheTimer` and `TheRowTellsTheTimer`, from
`ClockInv`: while no orders cross there is at most one under way and no tick beside it,
how far it has come says what timer and row are (`Carried`), and between two orders both are
what the last one wanted.  `TheTwinsAgree`: two operations on one resource have upset it, one
leaves it half done in one of a few ways (`Midst`), and what none holds agrees (`TwinInv`);
a membership agrees unless an answered change of it is still to be saved (`LinkInv`); and each
id is given out once (`BirthInv`).

**ScimServer** (`RoleAssumption`, `KindAssumption`, `FiniteAssumption`, `NamesAssumption`,
`NoneAssumption`).  `ScimServerIsTyped`, `UserNamesAreUnique` and `RefusalsWriteNothing` hold of
every interleaving and rest on `ServerInd`.  What a request has still to run is a list in
the order of `Turn`, without repetitions but for the members it goes through
(`InOrder`), and planned for its verb (`Planned`): so the statement at the head says which are
behind it, whence what the request knows of its row (`Knows`) and that none of what
may refuse is left once it wrote (`WroteLate`).  `ServersMeetTheContract` is that, for a
request nothing runs beside, the statements amount to the one step `Contract`.  Its invariant
`AloneInv` follows the request through: `Rows` says the tables of rows are those it met until its
row is saved or erased, and `Ends(q) = Meant` that the memberships there will be when what is
left has run are at every moment those the request means, so that at the answer they are the
contract's.  `Passed` keeps what its look-ups found.
`TheLogTellsTheState` adds `LogInv`: until a request is answered the log tells what it met, and what
the emitter captured is what a group's members were then (`Unlogged`); after that, the
events still to be logged turn what is told into what is there (`Logged`).  It needs
that no membership is of a row that is gone (`Stand`), since an event that names such a user is
dropped.

The invariants were checked with TLC too, on the instances of the runs or on larger ones
(but for the conjuncts of `DualWrite`'s that say the queue of mappings and the rows to
replay are sequences over some set, which TLC cannot enumerate).

Only model-checked: the liveness property `EveryEventSettles` of `EventsPoller`, and the
two-deployment module `MCIdentityCases` (the properties it repeats for its deployments are
the theorems `GapsShow` and `NeighboursAreLeftAlone`).
Out of the prover's reach: liveness under fairness, ENABLED, and what a recursive
definition computes for every input.

## Not modelled

Reads through the proxy and the rewriting of their answers, response bodies,
logging, page rendering and HTTP details.  `PROJECT.json` gives the reason for each
component; within the modelled ones:

* **write path**: group member checks, PATCH in `PrimaryIdentity` (it changes no
  identity), an operator deleting a stuck claim.
* **listener**: partial payloads, the hard-delete policy, group renames, events of
  directories that match none.  A recycled user name whose old row was kept as a
  tombstone makes the UNIQUE index refuse the new person in the dsync scheme: the
  event fails until the poller gives it up, and `UserConverges` excludes it as it
  excludes every shared name.
* **mode handoff**: more than one resource; the endpoint's authentication and link
  check.  While the endpoint is down, a demanding read falls back on an entry of
  any age; the properties except such answers.
* **backfill**: the progress row, sampling of errors, and its use on workos-primary.
* **bundled servers**: filters other than the unique attribute, attribute
  normalisation, authentication.
* **simulator**: the activity log, name attributes, parsing of answers.
* **tokens, secrets, upstream URLs**: pure checks and cryptography.
* **datastore drivers, migrations**: a statement retried after a lost
  acknowledgement runs twice; the models rely on the statements being idempotent
  under one token.
* **boot, configuration, panel pages, deployment**: conversion and display.  The
  panel's actions that change state are actions of the models.

## Plan

What would add most next:

1. Saving directories: the check that no other directory fronts the same native app
   and the write of the row (`server/config.ts`) as two steps of two operators.
2. Liveness of the claims: one with nothing unresolved is given back, short of a crash.
3. Two PUTs of one resource on workos-primary, which nothing orders, and a write that
   dies between its legs: a specification of what an IdP that retries ends with.
