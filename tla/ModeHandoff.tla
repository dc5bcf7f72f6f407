----------------------------- MODULE ModeHandoff -----------------------------
(***************************************************************************)
(* Who writes the native app: the proxy, in every mode but workos-only, or *)
(* the Directory Sync listener, which asks the status endpoint what to do  *)
(* with each event and caches what it is told; workers/proxy/status.ts,    *)
(* fetchDirectoryStatus of workers/native/status-client.ts, and            *)
(* dsyncInstructionForEvent of workers/native/listener.ts.                 *)
(* One attribute of one resource is written over and over: write n leaves  *)
(* the value n, and its event carries it.  What applying an event involves *)
(* is the subject of DsyncListener; here it is one step.                   *)
(***************************************************************************)
EXTENDS Integers, Sequences, FiniteSets

CONSTANTS
    Handler,     \* deliveries the listener may work on at a time
    Bundled,     \* the listener reads the proxy's own directory row
    TTL,         \* TTL_MS, and the length of the backoff, in ticks
    Timeout,     \* FETCH_TIMEOUT_MS, in ticks
    Rungs,       \* modes the operator moves the directory to
    MaxTime, MaxWrites, MaxMoves, MaxFaults,  \* bounds on the clock and the actors
    None

ASSUME ClockAssumption == TTL \in Nat \ {0} /\ Timeout \in Nat \ {0}
ASSUME RungAssumption ==
    Rungs \subseteq {"passthrough", "dual-write", "workos-primary", "workos-only"}
ASSUME BundledAssumption == Bundled \in BOOLEAN
ASSUME BoundAssumption ==
    MaxTime \in Nat /\ MaxWrites \in Nat /\ MaxMoves \in Nat /\ MaxFaults \in Nat

VARIABLES
    now,             \* Date.now()
    mode, updated,   \* the directory row: its mode, and when it was last set
    legs,            \* upstreams the write under way has still to reach
    latest,          \* the last write the IdP sent
    native, workos,  \* the last value each side was given
    pending,         \* events WorkOS has not yet had acknowledged
    cache,           \* the status client's entry for the directory
    failedUntil,     \* its backoff
    version,         \* the listener's high-water mark for the resource
    pc, run,         \* each delivery: its step and its local variables
    rolled,          \* history: the directory has been taken off workos-only
    byProxy,         \* history: every write so far reached native through the proxy
    unsure,          \* history: events dropped on an answer older than they are
    inert,           \* history: deliveries that saw a moment of another mode
    beside,          \* history: deliveries of two events have overlapped
    lastOnly,        \* history: when the mode was last workos-only
    spent            \* how much of the bounds is used

row == <<mode, updated>>
traffic == <<legs, latest, native, workos, pending>>
client == <<cache, failedUntil>>
listener == <<version, pc, run>>
history == <<rolled, byProxy, unsure, inert, beside, lastOnly>>
vars == <<now, row, traffic, client, listener, history, spent>>

Mode == {"passthrough", "dual-write", "workos-primary", "workos-only"}
ASSUME NoneAssumption == None \notin Mode /\ None \notin Mode \X Nat
Never == 0 - TTL - Timeout
NoRun == [event |-> None, arrived |-> 0, row |-> None, round |-> 0, held |-> None,
          sent |-> 0, reply |-> None, sure |-> FALSE]

----------------------------------------------------------------------------
(* The proxy, the operator and WorkOS *)

appliesDsyncEvents(m) == m = "workos-only"
applyFromModeFallback(m) == m = "workos-only"

\* The order in which each mode reaches the upstreams.
Legs(m) == CASE m = "passthrough" -> <<"native">>
             [] m = "dual-write" -> <<"native", "workos">>
             [] m = "workos-primary" -> <<"workos", "native">>
             [] m = "workos-only" -> <<"workos">>

BeginWrite ==
    /\ legs = <<>> /\ latest < MaxWrites
    /\ latest' = latest + 1
    /\ legs' = Legs(mode)
    /\ byProxy' = (byProxy /\ mode # "workos-only")
    /\ UNCHANGED <<now, row, native, workos, pending, client, listener,
                   rolled, unsure, inert, beside, lastOnly, spent>>

WriteNative ==
    /\ legs # <<>> /\ Head(legs) = "native"
    /\ native' = latest
    /\ legs' = Tail(legs)
    /\ UNCHANGED <<now, row, latest, workos, pending, client, listener, history, spent>>

WriteWorkos ==
    /\ legs # <<>> /\ Head(legs) = "workos"
    /\ workos' = latest
    /\ pending' = pending \cup {latest}
    /\ legs' = Tail(legs)
    /\ UNCHANGED <<now, row, latest, native, client, listener, history, spent>>

\* setDirectoryMode: the panel flips the rung, whatever is under way.  A tick is
\* short: the status is not asked for and changed within one.
SetMode(m) ==
    /\ m # mode /\ spent.moves < MaxMoves
    /\ cache # None => cache.validatedAt < now
    /\ \A h \in Handler : pc[h] \in {"asking", "served"} => run[h].sent < now
    /\ mode' = m /\ updated' = now
    /\ rolled' = (rolled \/ mode = "workos-only")
    /\ inert' = IF appliesDsyncEvents(m) THEN inert
                ELSE {h \in Handler : pc[h] # "idle"}
    /\ lastOnly' = IF "workos-only" \in {m, mode} THEN now ELSE lastOnly
    /\ spent' = [spent EXCEPT !.moves = @ + 1]
    /\ UNCHANGED <<now, traffic, client, listener, byProxy, unsure, beside>>

----------------------------------------------------------------------------
(* The status client *)

ETag == <<mode, updated>>
Entry(m, tag, at) == [mode |-> m, etag |-> tag, validatedAt |-> at]

\* Mutants: the length of the cache alone decides; only a demand looks at age.
isUsableByAge(entry, demand, since) == now < entry.validatedAt + TTL
isUsableForever(entry, demand, since) == demand => entry.validatedAt >= since

isUsable(entry, demand, since) ==
    /\ now < entry.validatedAt + TTL
    /\ demand => entry.validatedAt >= since

\* What the listener makes of an answer: apply, ask once more before it
\* ignores, or ignore.  None is no answer: the directory row decides.
Instruction(r, answer) ==
    IF answer = None THEN applyFromModeFallback(r.row) ELSE appliesDsyncEvents(answer)

\* Mutant: the first answer is final.
ConcludeAtOnce(h, r, answer, confirmed) ==
    /\ pc' = [pc EXCEPT ![h] = IF Instruction(r, answer) THEN "apply" ELSE "ignore"]
    /\ run' = [run EXCEPT ![h] = [r EXCEPT !.sure = confirmed]]

Conclude(h, r, answer, confirmed) ==
    IF Instruction(r, answer)
    THEN /\ pc' = [pc EXCEPT ![h] = "apply"]
         /\ run' = [run EXCEPT ![h] = [r EXCEPT !.sure = confirmed]]
    ELSE IF r.round = 1
    THEN /\ pc' = [pc EXCEPT ![h] = "read"]
         /\ run' = [run EXCEPT ![h] = [r EXCEPT !.round = 2]]
    ELSE /\ pc' = [pc EXCEPT ![h] = "ignore"]
         /\ run' = [run EXCEPT ![h] = [r EXCEPT !.sure = confirmed]]

\* A read that demands confirmation falls back on the entry it holds, of any
\* age; a plain one on nothing.
Fallback(h, entry) ==
    LET answer == IF run[h].round = 2 /\ entry # None THEN entry.mode ELSE None IN
    Conclude(h, run[h], answer, answer = None /\ Bundled)

ClientIdle == UNCHANGED <<now, row, traffic, version, history, spent>>

ReadCache(h) ==
    /\ pc[h] = "read" /\ cache # None
    /\ isUsable(cache, run[h].round = 2, run[h].arrived)
    /\ Conclude(h, run[h], cache.mode, TRUE)
    /\ UNCHANGED client /\ ClientIdle

Usable(h) == cache # None /\ isUsable(cache, run[h].round = 2, run[h].arrived)

BackOff(h) ==
    /\ pc[h] = "read" /\ ~Usable(h) /\ failedUntil > now
    /\ Fallback(h, cache)
    /\ UNCHANGED client /\ ClientIdle

Ask(h) ==
    /\ pc[h] = "read" /\ ~Usable(h) /\ failedUntil <= now
    /\ pc' = [pc EXCEPT ![h] = "asking"]
    /\ run' = [run EXCEPT ![h] = [@ EXCEPT !.held = cache, !.sent = now]]
    /\ UNCHANGED client /\ ClientIdle

\* handleStatus: the row as it is when the request is served, or a 304.
Serve(h) ==
    /\ pc[h] = "asking"
    /\ pc' = [pc EXCEPT ![h] = "served"]
    /\ run' = [run EXCEPT ![h] = [@ EXCEPT !.reply =
                 IF run[h].held # None /\ run[h].held.etag = ETag THEN None ELSE ETag]]
    /\ UNCHANGED client /\ ClientIdle

\* A 304 revalidates the entry the request was made with, which may no longer
\* be the one in the cache.
Hear304(h) ==
    LET held == run[h].held IN
    /\ pc[h] = "served" /\ run[h].reply = None
    /\ cache' = IF cache = held THEN [held EXCEPT !.validatedAt = run[h].sent] ELSE cache
    /\ Conclude(h, run[h], held.mode, TRUE)
    /\ UNCHANGED failedUntil /\ ClientIdle

Hear200(h) ==
    LET reply == run[h].reply IN
    /\ pc[h] = "served" /\ reply # None
    /\ cache' = Entry(reply[1], reply, run[h].sent)
    /\ Conclude(h, run[h], reply[1], TRUE)
    /\ UNCHANGED failedUntil /\ ClientIdle

\* Mutant: the backoff counts from the end of the fetch's time.
FetchFailsLonger(h) ==
    /\ pc[h] \in {"asking", "served"} /\ spent.faults < MaxFaults
    /\ failedUntil' = now + Timeout + TTL
    /\ Fallback(h, run[h].held)
    /\ spent' = [spent EXCEPT !.faults = @ + 1]
    /\ UNCHANGED <<now, row, traffic, cache, version, history>>

\* An error status, or no answer in FETCH_TIMEOUT_MS.
FetchFails(h) ==
    /\ pc[h] \in {"asking", "served"} /\ spent.faults < MaxFaults
    /\ failedUntil' = now + TTL
    /\ Fallback(h, run[h].held)
    /\ spent' = [spent EXCEPT !.faults = @ + 1]
    /\ UNCHANGED <<now, row, traffic, cache, version, history>>

----------------------------------------------------------------------------
(* The listener *)

\* A delivery's locals when it starts: its event, and the rung of its directory row.
FirstRun(e, at) ==
    [event |-> e, arrived |-> now, row |-> at, round |-> 1, held |-> None,
     sent |-> 0, reply |-> None, sure |-> FALSE]

\* dsyncInstructionForEvent stamps the arrival and reads the directory rows; a
\* standalone listener's row never leaves the first rung.
Arrive(h, e) ==
    /\ pc[h] = "idle" /\ e \in pending
    /\ \A g \in Handler : run[g].event # e
    /\ pc' = [pc EXCEPT ![h] = "read"]
    /\ run' = [run EXCEPT ![h] = FirstRun(e, IF Bundled THEN mode ELSE "passthrough")]
    /\ inert' = IF appliesDsyncEvents(mode) THEN inert \ {h} ELSE inert \cup {h}
    /\ beside' = (beside \/ \E g \in Handler : pc[g] # "idle")
    /\ UNCHANGED <<now, row, traffic, client, version, rolled, byProxy, unsure, lastOnly, spent>>

Acknowledge(h) ==
    /\ pending' = pending \ {run[h].event}
    /\ pc' = [pc EXCEPT ![h] = "idle"]
    /\ run' = [run EXCEPT ![h] = NoRun]
    /\ version' = IF run[h].event > version THEN run[h].event ELSE version

Apply(h) ==
    /\ pc[h] = "apply"
    /\ native' = IF run[h].event > version THEN run[h].event ELSE native
    /\ Acknowledge(h)
    /\ UNCHANGED <<now, row, legs, latest, workos, client, history, spent>>

\* The version still advances; the event is acknowledged and never comes back.
Ignore(h) ==
    /\ pc[h] = "ignore"
    /\ unsure' = IF ~run[h].sure THEN unsure \cup {run[h].event} ELSE unsure
    /\ Acknowledge(h)
    /\ UNCHANGED <<now, row, legs, latest, native, workos, client, rolled, byProxy,
                   inert, beside, lastOnly, spent>>

\* The process restarts: its cache is gone, its deliveries come again.
Restart ==
    /\ spent.faults < MaxFaults
    /\ cache' = None /\ failedUntil' = 0
    /\ pc' = [h \in Handler |-> "idle"] /\ run' = [h \in Handler |-> NoRun]
    /\ spent' = [spent EXCEPT !.faults = @ + 1]
    /\ UNCHANGED <<now, row, traffic, version, history>>

\* No fetch outlasts its timeout.
Tick ==
    /\ now < MaxTime
    /\ \A h \in Handler : pc[h] \in {"asking", "served"} => now < run[h].sent + Timeout
    /\ now' = now + 1
    /\ lastOnly' = IF mode = "workos-only" THEN now + 1 ELSE lastOnly
    /\ UNCHANGED <<row, traffic, client, listener, rolled, byProxy, unsure, inert, beside, spent>>

----------------------------------------------------------------------------
\* Both sides agree, at the last rung but one or after the cutover.
Init ==
    /\ now = 0
    /\ mode \in {"workos-primary", "workos-only"} /\ updated = 0
    /\ legs = <<>> /\ latest = 0 /\ native = 0 /\ workos = 0 /\ pending = {}
    /\ cache = None /\ failedUntil = 0
    /\ version = 0 /\ pc = [h \in Handler |-> "idle"] /\ run = [h \in Handler |-> NoRun]
    /\ rolled = FALSE /\ byProxy = TRUE /\ unsure = {} /\ inert = {} /\ beside = FALSE
    /\ lastOnly = IF mode = "workos-only" THEN 0 ELSE Never
    /\ spent = [moves |-> 0, faults |-> 0]

Next ==
    \/ BeginWrite \/ WriteNative \/ WriteWorkos \/ Restart \/ Tick
    \/ \E m \in Rungs : SetMode(m)
    \/ \E h \in Handler :
        \/ \E e \in pending : Arrive(h, e)
        \/ ReadCache(h) \/ BackOff(h) \/ Ask(h) \/ Serve(h) \/ Hear304(h) \/ Hear200(h)
        \/ FetchFails(h) \/ Apply(h) \/ Ignore(h)

Spec == Init /\ [][Next]_vars

----------------------------------------------------------------------------
(* Properties *)

\* Clock, mode, cache, backoff and versions keep their types; the cached answer
\* carries its own mode's entity tag, and a delivery works on a pending event.
TypeOK ==
    /\ now \in 0..MaxTime /\ mode \in Mode /\ updated \in 0..now
    /\ latest \in 0..MaxWrites /\ {native, workos, version} \subseteq 0..latest
    /\ pending \subseteq 1..latest
    /\ cache # None => cache.mode \in Mode /\ cache.etag[1] = cache.mode
                       /\ cache.validatedAt \in 0..now
    /\ failedUntil \in 0..(now + TTL)
    /\ \A h \in Handler : pc[h] # "idle" => run[h].event \in pending /\ run[h].arrived \in 0..now

Quiet == legs = <<>> /\ pending = {}

\* Through a cutover, whatever the cache held, native ends with the last write:
\* nothing is dropped for which the proxy no longer wrote native, and no echo of
\* an earlier write is left on top.  Excepted are events dropped on an old answer
\* while the endpoint was down, and deliveries that overlap.
CutoverLosesNothing == Quiet /\ ~rolled /\ unsure = {} /\ ~beside => native = latest

\* An event is dropped on an answer that was true at some moment since it
\* arrived, or while the endpoint was failing.
DropIsConfirmed ==
    [][\A h \in Handler : pc[h] = "ignore" /\ pc'[h] = "idle" /\ cache' = cache =>
         h \in inert \/ ~run[h].sure]_vars

\* An event is applied on an answer that was true since it arrived, or within a
\* cache's length, or a fetch's, before; but for the entry of any age the client
\* falls back on while the endpoint is failing.
ApplyIsRecent ==
    [][\A h \in Handler : pc'[h] = "apply" /\ pc[h] # "apply" =>
         \/ ~run'[h].sure
         \/ lastOnly >= run[h].arrived
         \/ now < lastOnly + TTL \/ now <= lastOnly + Timeout]_vars

\* "Your listener keeps applying for a cache's length after the proxy has
\* resumed writing your app, so those changes land twice.  That one is benign":
\* where the proxy itself made every write, native has the last one when the
\* events are in.
RollbackIsBenign == Quiet /\ byProxy => native = latest
=============================================================================
