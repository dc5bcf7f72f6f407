---------------------------- MODULE EventsPoller -----------------------------
(***************************************************************************)
(* The Events API poller (src/workers/native/events-poller.ts) and the     *)
(* controller that starts, stops and retargets it (events-transport.ts).   *)
(* A loop polls on a timer, one poll at a time: it reads the persisted     *)
(* cursor and retry budget, fetches a page after the cursor, hands every   *)
(* event to the listener in order, and moves the cursor.  Stopping a loop  *)
(* only clears its timer, so a poll of the old loop may still be running   *)
(* while the new one polls; both share one cursor and one retry record.    *)
(* What the listener does with an event is DsyncListener's subject; here   *)
(* an event is processed or its handler fails.                             *)
(***************************************************************************)
EXTENDS Integers, FiniteSets

CONSTANTS
    Source,        \* Events APIs a poller can be pointed at
    Keyless,       \* the bundled mock, which needs no API key
    DefaultTarget, \* what an absent native.events_target means for this boot
    Loop,          \* loops that may exist in one process
    Limit,         \* page size
    MaxAttempts,   \* MAX_EVENT_ATTEMPTS
    MaxEvents,     \* bound: events per source
    MaxEmitted,    \* bound: events of all sources
    MaxKeys,       \* bound: API keys the operator stores
    MaxPanel,      \* bound: panel actions
    MaxCrashes,    \* bound: process deaths
    None

ASSUME SourceAssumption == Keyless \in Source /\ DefaultTarget \in Source
                           /\ None \notin Source
ASSUME NumberAssumption ==
    /\ Limit \in Nat \ {0} /\ MaxAttempts \in Nat \ {0}
    /\ MaxEvents \in Nat /\ MaxEmitted \in Nat /\ MaxKeys \in Nat /\ MaxPanel \in Nat /\ MaxCrashes \in Nat

VARIABLES
    emitted, retained,        \* the feeds, as in OrderedFeed
    processed, abandoned,     \* listener_events: settled events
    cursor,                   \* native.events_cursor
    retry,                    \* native.events_retry
    config,                   \* native.events_transport, _target and _api_key
    due,                      \* the controller has been asked to reconcile
    loop,                     \* the controller's loop, or None
    on,                       \* loops whose timer runs
    src, key,                 \* what a loop was started with
    pc,                       \* where each loop's poll is
    cur, budget,              \* the poll's own copy of cursor and retry
    pos, hi, last,            \* next event, end of page, last one behind
    fails,                    \* history: failed attempts per event
    panel, crashes

feeds == <<emitted, retained>>
log == <<processed, abandoned, fails>>
store == <<cursor, retry>>
control == <<config, due, loop, on, src, key, panel>>
walk == <<cur, budget, pos, hi, last>>
vars == <<feeds, log, store, control, pc, walk, crashes>>

Event == Source \X (1..MaxEvents)
Retry == [id : Event, count : 1..MaxAttempts]
settled == processed \cup abandoned

----------------------------------------------------------------------------
(* The Events API *)

Emit(s) ==
    /\ emitted[s] < MaxEvents
    /\ Cardinality({e \in Event : e[2] <= emitted[e[1]]}) < MaxEmitted
    /\ emitted' = [emitted EXCEPT ![s] = @ + 1]
    /\ UNCHANGED <<retained, log, store, control, pc, walk, crashes>>

\* The API keeps events for a bounded window.
Forget(s) ==
    /\ retained[s] <= emitted[s]
    /\ retained' = [retained EXCEPT ![s] = @ + 1]
    /\ UNCHANGED <<emitted, log, store, control, pc, walk, crashes>>

\* Answers 400 to a cursor it does not know: forgotten, or another source's.
Knows(s, c) == c # None => c[1] = s /\ c[2] >= retained[s]
FirstAfter(s, c) == IF c = None THEN retained[s] ELSE c[2] + 1
PageEnd(s, first) ==
    IF first + Limit - 1 < emitted[s] THEN first + Limit - 1 ELSE emitted[s]

----------------------------------------------------------------------------
(* pollDsyncEventsOnce *)

\* startEventsPoller: a tick is dropped while a poll of the same loop runs.
Tick(l) ==
    /\ l \in on /\ pc[l] = "idle"
    /\ pc' = [pc EXCEPT ![l] = "fetch"]
    /\ cur' = [cur EXCEPT ![l] = cursor]
    /\ budget' = [budget EXCEPT ![l] = retry]
    /\ UNCHANGED <<feeds, log, store, control, pos, hi, last, crashes>>

\* The end of a poll: its own variables are gone.
End(l) ==
    /\ pc' = [pc EXCEPT ![l] = "idle"]
    /\ cur' = [cur EXCEPT ![l] = None]
    /\ budget' = [budget EXCEPT ![l] = None]
    /\ pos' = [pos EXCEPT ![l] = 1]
    /\ hi' = [hi EXCEPT ![l] = 0]
    /\ last' = [last EXCEPT ![l] = 0]

\* A mutant of FetchRejected.
\* A rejected cursor is treated as any failed fetch.
FetchRejectedKept(l) ==
    /\ pc[l] = "fetch" /\ ~Knows(src[l], cur[l])
    /\ End(l)
    /\ UNCHANGED <<feeds, log, store, control, crashes>>

\* A cursor the API rejects is dropped, and the retained history replayed.
FetchRejected(l) ==
    /\ pc[l] = "fetch" /\ ~Knows(src[l], cur[l])
    /\ cursor' = None
    /\ cur' = [cur EXCEPT ![l] = None]
    /\ UNCHANGED <<feeds, log, retry, control, pc, budget, pos, hi, last, crashes>>

FetchPage(l) ==
    LET first == FirstAfter(src[l], cur[l]) IN
    /\ pc[l] = "fetch" /\ Knows(src[l], cur[l])
    /\ pos' = [pos EXCEPT ![l] = first]
    /\ hi' = [hi EXCEPT ![l] = PageEnd(src[l], first)]
    /\ last' = [last EXCEPT ![l] = IF cur[l] = None THEN 0 ELSE cur[l][2]]
    /\ pc' = [pc EXCEPT ![l] = "walk"]
    /\ UNCHANGED <<feeds, log, store, control, cur, budget, crashes>>

\* A timeout or an error answer ends the poll; the next tick starts over.
FetchFailed(l) ==
    /\ pc[l] = "fetch"
    /\ End(l)
    /\ UNCHANGED <<feeds, log, store, control, crashes>>

Current(l) == <<src[l], pos[l]>>
\* A mutant of IsRetry.
\* The count of whichever event failed last.
IsRetryOfAny(l) == budget[l] # None

IsRetry(l) == budget[l] # None /\ budget[l].id = Current(l)
Attempts(l) == IF IsRetry(l) THEN budget[l].count + 1 ELSE 1

\* The listener starts on the event; the poll waits for it.
Hand(l) ==
    /\ pc[l] = "walk" /\ pos[l] <= hi[l]
    /\ pc' = [pc EXCEPT ![l] = "busy"]
    /\ UNCHANGED <<feeds, log, store, control, walk, crashes>>

Step(l) ==
    /\ last' = [last EXCEPT ![l] = pos[l]]
    /\ pos' = [pos EXCEPT ![l] = @ + 1]

\* The event was applied, skipped or ignored, and recorded.
Processed(l) ==
    /\ pc[l] = "busy"
    /\ processed' = processed \cup {Current(l)}
    /\ pc' = [pc EXCEPT ![l] = IF IsRetry(l) THEN "clear" ELSE "walk"]
    /\ IF IsRetry(l) THEN UNCHANGED <<pos, last>> ELSE Step(l)
    /\ UNCHANGED <<feeds, abandoned, fails, store, control, cur, budget, hi, crashes>>

ClearRetry(l) ==
    /\ pc[l] = "clear"
    /\ retry' = None
    /\ budget' = [budget EXCEPT ![l] = None]
    /\ pc' = [pc EXCEPT ![l] = "walk"]
    /\ Step(l)
    /\ UNCHANGED <<feeds, log, cursor, control, cur, hi, crashes>>

Failing(e) == [fails EXCEPT ![e] = IF @ < MaxAttempts THEN @ + 1 ELSE @]

\* Mutants of FailedOnce: no end to the retries; the loop goes on.
FailedOnceUncapped(l) ==
    /\ pc[l] = "busy"
    /\ fails' = Failing(Current(l))
    /\ budget' = [budget EXCEPT ![l] = [id |-> Current(l), count |-> Attempts(l)]]
    /\ pc' = [pc EXCEPT ![l] = "note"]
    /\ UNCHANGED <<feeds, processed, abandoned, store, control, cur, pos, hi, last, crashes>>

\* The loop goes on behind an event that failed.
FailedAndSkipped(l) ==
    /\ pc[l] = "busy" /\ Attempts(l) < MaxAttempts
    /\ fails' = Failing(Current(l))
    /\ budget' = [budget EXCEPT ![l] = [id |-> Current(l), count |-> Attempts(l)]]
    /\ pc' = [pc EXCEPT ![l] = "walk"]
    /\ pos' = [pos EXCEPT ![l] = @ + 1]
    /\ UNCHANGED <<feeds, processed, abandoned, store, control, cur, hi, last, crashes>>

\* A handler error within the budget: the event stays ahead of the cursor.
FailedOnce(l) ==
    /\ pc[l] = "busy" /\ Attempts(l) < MaxAttempts
    /\ fails' = Failing(Current(l))
    /\ budget' = [budget EXCEPT ![l] = [id |-> Current(l), count |-> Attempts(l)]]
    /\ pc' = [pc EXCEPT ![l] = "note"]
    /\ UNCHANGED <<feeds, processed, abandoned, store, control, cur, pos, hi, last, crashes>>

NoteRetry(l) ==
    /\ pc[l] = "note"
    /\ retry' = budget[l]
    /\ pc' = [pc EXCEPT ![l] = "stop"]
    /\ UNCHANGED <<feeds, log, cursor, control, walk, crashes>>

\* The budget is spent: drop the retry record, then record the abandonment.
FailedLast(l) ==
    /\ pc[l] = "busy" /\ Attempts(l) >= MaxAttempts
    /\ fails' = Failing(Current(l))
    /\ retry' = None
    /\ budget' = [budget EXCEPT ![l] = None]
    /\ pc' = [pc EXCEPT ![l] = "abandon"]
    /\ UNCHANGED <<feeds, processed, abandoned, cursor, control, cur, pos, hi, last, crashes>>

Abandon(l) ==
    /\ pc[l] = "abandon"
    /\ abandoned' = abandoned \cup {Current(l)}
    /\ pc' = [pc EXCEPT ![l] = "walk"]
    /\ Step(l)
    /\ UNCHANGED <<feeds, processed, fails, store, control, cur, budget, hi, crashes>>

\* A mutant of CursorAt.
\* The cursor moves to the end of the page whatever stopped the poll.
CursorAtPageEnd(l) == IF hi[l] = 0 THEN cursor ELSE <<src[l], hi[l]>>

\* advanceCursor: nothing to write when the page moved nothing.
CursorAt(l) ==
    IF last[l] = 0 \/ (cur[l] # None /\ cur[l][2] = last[l]) THEN cursor
    ELSE <<src[l], last[l]>>

\* The end of a page, or of the poll after a failure.  More is fetched unless
\* the page was empty or the API has nothing after it.
PageDone(l) ==
    /\ pc[l] = "walk" /\ pos[l] > hi[l]
    /\ cursor' = CursorAt(l)
    /\ UNCHANGED <<feeds, log, retry, control, crashes>>
    /\ \/ End(l)
       \/ /\ last[l] < emitted[src[l]]
          /\ cur' = [cur EXCEPT ![l] = IF last[l] = 0 THEN None ELSE <<src[l], last[l]>>]
          /\ pc' = [pc EXCEPT ![l] = "fetch"]
          /\ UNCHANGED <<budget, pos, hi, last>>

Stop(l) ==
    /\ pc[l] = "stop"
    /\ cursor' = CursorAt(l)
    /\ End(l)
    /\ UNCHANGED <<feeds, log, retry, control, crashes>>

----------------------------------------------------------------------------
(* The controller and the panel's actions *)

\* resolveDesired in demo mode: the loop the stored choices ask for, or None.
Target == IF config.target = None THEN DefaultTarget ELSE config.target
HasKey == config.key > 0
Desired ==
    IF config.transport # "poll" \/ (Target # Keyless /\ ~HasKey) THEN None
    ELSE [src |-> Target, key |-> IF Target = Keyless THEN 0 ELSE config.key]

\* reconcile: stop what runs, unless it is what is asked for, and start anew.
\* A stopped loop's poll, if one is in flight, runs on.
Reconcile ==
    /\ due
    /\ due' = FALSE
    /\ IF Desired = None
       THEN loop' = None /\ on' = {} /\ UNCHANGED <<src, key>>
       ELSE IF loop # None /\ src[loop] = Desired.src /\ key[loop] = Desired.key
            THEN UNCHANGED <<loop, on, src, key>>
            ELSE LET fresh == {l \in Loop : pc[l] = "idle" /\ l # loop}
                     l == CHOOSE l \in fresh : TRUE IN
                    /\ fresh # {}
                    /\ loop' = l
                    /\ on' = {l}
                    /\ src' = [src EXCEPT ![l] = Desired.src]
                    /\ key' = [key EXCEPT ![l] = Desired.key]
    /\ UNCHANGED <<feeds, log, store, config, panel, pc, walk, crashes>>

\* One operator: an action ends with the reconcile it asks for.
Panel(new) ==
    /\ ~due /\ panel < MaxPanel
    /\ panel' = panel + 1
    /\ config' = new
    /\ due' = TRUE
    /\ UNCHANGED <<feeds, log, store, loop, on, src, key, pc, walk, crashes>>

\* setEventsTransport refuses a poller that could not run.
SetTransport(t) ==
    /\ t = "poll" => Target = Keyless \/ HasKey
    /\ Panel([config EXCEPT !.transport = t])

\* setEventsPollTarget needs a key before it persists a keyed target.
SetTarget(s) ==
    /\ s # Keyless => HasKey
    /\ Panel([config EXCEPT !.target = s])

StoreKey(k) == Panel([config EXCEPT !.key = k])

\* clearEventsApiKey looks at the stored target, and takes an absent one for
\* the mock, whatever this boot's default is.
ClearKey ==
    /\ HasKey
    /\ ~(config.transport = "poll" /\ config.target \notin {None, Keyless})
    /\ Panel([config EXCEPT !.key = 0])

\* The process dies with its loops; boot reconciles from the persisted choices.
Crash ==
    /\ crashes < MaxCrashes
    /\ crashes' = crashes + 1
    /\ pc' = [l \in Loop |-> "idle"]
    /\ cur' = [l \in Loop |-> None] /\ budget' = [l \in Loop |-> None]
    /\ pos' = [l \in Loop |-> 1] /\ hi' = [l \in Loop |-> 0] /\ last' = [l \in Loop |-> 0]
    /\ loop' = None /\ on' = {} /\ due' = TRUE
    /\ UNCHANGED <<feeds, log, store, config, src, key, panel>>

----------------------------------------------------------------------------
Init ==
    /\ emitted = [s \in Source |-> 0]
    /\ retained = [s \in Source |-> 1]
    /\ processed = {} /\ abandoned = {}
    /\ fails = [e \in Event |-> 0]
    /\ cursor = None /\ retry = None
    /\ config \in [transport : {"poll"}, target : {None}, key : {0, MaxKeys}]
    /\ due = TRUE
    /\ loop = None /\ on = {}
    /\ src = [l \in Loop |-> DefaultTarget]
    /\ key = [l \in Loop |-> 0]
    /\ pc = [l \in Loop |-> "idle"]
    /\ cur = [l \in Loop |-> None]
    /\ budget = [l \in Loop |-> None]
    /\ pos = [l \in Loop |-> 1]
    /\ hi = [l \in Loop |-> 0]
    /\ last = [l \in Loop |-> 0]
    /\ panel = 0 /\ crashes = 0

\* What the poll does by itself once it has its page, and the answers it needs.
PollStep(l) ==
    \/ Hand(l) \/ ClearRetry(l) \/ NoteRetry(l)
    \/ Abandon(l) \/ PageDone(l) \/ Stop(l)
Answered(l) == FetchPage(l) \/ FetchRejected(l)
Handled(l) == Processed(l) \/ FailedOnce(l) \/ FailedLast(l)

Operator ==
    \/ \E t \in {"poll", "webhook"} : SetTransport(t)
    \/ \E s \in Source : SetTarget(s)
    \/ \E k \in 1..MaxKeys : StoreKey(k)
    \/ ClearKey

Next ==
    \/ \E s \in Source : Emit(s) \/ Forget(s)
    \/ \E l \in Loop : Tick(l) \/ Answered(l) \/ FetchFailed(l) \/ PollStep(l) \/ Handled(l)
    \/ Reconcile \/ Operator \/ Crash

\* The timer ticks, the listener returns, the API answers now and then, and a
\* panel action or a boot runs to its reconcile.  Nothing says that an event
\* succeeds, or that the operator does anything.
Fairness ==
    /\ WF_vars(Reconcile)
    /\ \A l \in Loop : /\ WF_vars(Tick(l)) /\ WF_vars(PollStep(l))
                       /\ WF_vars(Handled(l)) /\ SF_vars(Answered(l))

Spec == Init /\ [][Next]_vars /\ Fairness

----------------------------------------------------------------------------
(* Properties *)

\* The feeds, the persisted cursor, budget and configuration, and each loop's
\* copies of them keep their types; no event fails more often than MaxAttempts.
TypeOK ==
    /\ emitted \in [Source -> 0..MaxEvents]
    /\ retained \in [Source -> 1..MaxEvents + 1]
    /\ processed \subseteq Event /\ abandoned \subseteq Event
    /\ fails \in [Event -> 0..MaxAttempts]
    /\ cursor \in Event \cup {None}
    /\ retry \in Retry \cup {None}
    /\ config \in [transport : {"poll", "webhook"}, target : Source \cup {None},
                    key : 0..MaxKeys]
    /\ due \in BOOLEAN
    /\ loop \in Loop \cup {None} /\ on \subseteq Loop
    /\ src \in [Loop -> Source] /\ key \in [Loop -> 0..MaxKeys]
    /\ pc \in [Loop -> {"idle", "fetch", "walk", "busy", "clear", "note", "stop", "abandon"}]
    /\ cur \in [Loop -> Event \cup {None}]
    /\ budget \in [Loop -> Retry \cup {None}]
    /\ pos \in [Loop -> 1..MaxEvents + 2]
    /\ hi \in [Loop -> 0..MaxEvents]
    /\ last \in [Loop -> 0..MaxEvents]
    /\ panel \in 0..MaxPanel /\ crashes \in 0..MaxCrashes

\* The cursor never stands past an event that was neither processed nor given
\* up on record, unless the API stopped serving it first; so a restart resumes
\* "without gaps", also while a stopped loop's last poll still moves the cursor.
NoGap ==
    cursor # None =>
        \A j \in 1..cursor[2] : <<cursor[1], j>> \in settled \/ j < retained[cursor[1]]

\* An event is given up only after MaxAttempts failures of its own, whatever
\* restarts, retargets and overlapping polls did to the persisted budget.
GivenUpOnlyWhenSpent == \A e \in abandoned : fails[e] = MaxAttempts

\* The feed the controller's loop follows, once it has caught up with the panel.
Followed == IF due \/ Desired = None THEN None ELSE Desired.src
Feed == INSTANCE OrderedFeed WITH watched <- Followed
FeedOrder == Feed!Safety

\* Every event of the followed feed is settled, or forgotten by the API, or the
\* operator points the poller elsewhere: no poison event blocks those behind it.
EveryEventSettles ==
    \A s \in Source, i \in 1..MaxEvents :
        (emitted[s] >= i) ~> \/ <<s, i>> \in settled \/ i < retained[s]
                            \/ Desired = None \/ Desired.src # s

\* The transport's introduction: "applying them in returned order needs no
\* timestamps at all" - no event is in the listener's hands together with
\* another one of the same feed.
AppliedOneAtATime ==
    \A l1, l2 \in Loop : pc[l1] = "busy" /\ pc[l2] = "busy" /\ src[l1] = src[l2] => l1 = l2

\* The comment on clearEventsApiKey: the key is kept when "a running keyless
\* real-WorkOS poller would be stranded by it".
KeyNeverStrands ==
    [][ClearKey /\ ~HasKey' => Desired = None \/ Desired' # None]_vars
=============================================================================
