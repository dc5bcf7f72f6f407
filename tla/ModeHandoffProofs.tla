-------------------------- MODULE ModeHandoffProofs --------------------------
(***************************************************************************)
(* Why a listener with a cached instruction neither drops an event nor     *)
(* applies one without reason, for any number of deliveries, any length of *)
(* the cache and of a fetch.  An answer is only as old as the request that *)
(* brought it: whatever is validated at or after a delivery's arrival was  *)
(* true of the directory while the delivery was there (Seen), and an       *)
(* answer that says apply was true no earlier than it is stamped (Recent). *)
(***************************************************************************)
EXTENDS ModeHandoff, TLAPS

Pcs == {"idle", "read", "asking", "served", "apply", "ignore"}
Tags == Mode \X Nat
Entries == [mode : Mode, etag : Tags, validatedAt : Nat]
Runs == [event : Nat \cup {None}, arrived : Nat, row : Mode \cup {None}, round : 0..2,
         held : Entries \cup {None}, sent : Nat, reply : Tags \cup {None}, sure : BOOLEAN]

Typed ==
    /\ now \in Nat /\ mode \in Mode /\ updated \in Nat /\ updated <= now
    /\ latest \in Nat /\ native \in Nat /\ workos \in Nat /\ version \in Nat
    /\ pending \subseteq Nat /\ cache \in Entries \cup {None} /\ failedUntil \in Nat
    /\ pc \in [Handler -> Pcs] /\ run \in [Handler -> Runs]
    /\ inert \subseteq Handler /\ lastOnly \in Int
    /\ spent \in [moves : Nat, faults : Nat]

Active(h) == pc[h] # "idle"
Fetching(h) == pc[h] \in {"asking", "served"}

(* Where the locals of a delivery stand in time. *)
RunFacts(h) ==
    /\ Active(h) => /\ run[h].round \in {1, 2} /\ run[h].arrived <= now
                    /\ run[h].event \in Nat
    /\ Fetching(h) => /\ run[h].arrived <= run[h].sent /\ run[h].sent <= now
                      /\ now <= run[h].sent + Timeout
                      /\ run[h].held # None => run[h].held.etag[1] = run[h].held.mode
    /\ pc[h] = "served" /\ run[h].reply = None => run[h].held # None

Facts ==
    /\ cache # None => cache.etag[1] = cache.mode /\ cache.validatedAt <= now
    /\ \A h \in Handler : RunFacts(h)

Sound == Typed /\ Facts

-----------------------------------------------------------------------------
(* What the pieces of the actions do *)

LEMMA NoRunTyped == NoRun \in Runs
BY DEF NoRun, Runs

LEMMA EntryTyped ==
    ASSUME NEW m \in Mode, NEW tag \in Tags, NEW at \in Nat
    PROVE  /\ Entry(m, tag, at) \in Entries /\ Entry(m, tag, at).mode = m
           /\ Entry(m, tag, at).etag = tag /\ Entry(m, tag, at).validatedAt = at
BY DEF Entry, Entries

OthersStay(h) == \A g \in Handler \ {h} : run'[g] = run[g] /\ pc'[g] = pc[g]

(* A delivery that concludes keeps what it was told, and its new step says    *)
(* what it made of the answer.                                                *)
Concluded(h, answer, confirmed) ==
    /\ pc' \in [Handler -> Pcs] /\ run' \in [Handler -> Runs] /\ OthersStay(h)
    /\ pc'[h] \in {"apply", "read", "ignore"}
    /\ run'[h].event = run[h].event /\ run'[h].arrived = run[h].arrived
    /\ run'[h].row = run[h].row
    /\ run[h].round \in {1, 2} => run'[h].round \in {1, 2}
    /\ pc'[h] = "apply" => Instruction(run[h], answer) /\ run'[h].sure = confirmed
    /\ pc'[h] = "ignore" => /\ ~Instruction(run[h], answer) /\ run'[h].sure = confirmed
                            /\ run[h].round # 1

LEMMA ConcludeDoes ==
    ASSUME Typed, NEW h \in Handler, NEW answer, NEW confirmed \in BOOLEAN,
           Conclude(h, run[h], answer, confirmed)
    PROVE  Concluded(h, answer, confirmed)
<1> DEFINE r == run[h]
<1> DEFINE sured == [r EXCEPT !.sure = confirmed]
<1> DEFINE second == [r EXCEPT !.round = 2]
<1>0. r \in Runs
  BY DEF Typed
<1>1. /\ sured \in Runs /\ sured.sure = confirmed /\ sured.event = r.event /\ sured.row = r.row
      /\ sured.arrived = r.arrived /\ sured.round = r.round
  BY <1>0 DEF Runs
<1>2. /\ second \in Runs /\ second.event = r.event /\ second.row = r.row
      /\ second.arrived = r.arrived /\ second.round = 2
  BY <1>0 DEF Runs
<1>3. CASE Instruction(r, answer)
  <2>1. pc' = [pc EXCEPT ![h] = "apply"] /\ run' = [run EXCEPT ![h] = sured]
    BY <1>3 DEF Conclude
  <2> HIDE DEF sured, second
  <2> QED
    BY <1>1, <1>3, <2>1 DEF Concluded, OthersStay, Typed, Pcs
<1>4. CASE ~Instruction(r, answer) /\ r.round = 1
  <2>1. pc' = [pc EXCEPT ![h] = "read"] /\ run' = [run EXCEPT ![h] = second]
    BY <1>4 DEF Conclude
  <2> HIDE DEF sured, second
  <2> QED
    BY <1>2, <1>4, <2>1 DEF Concluded, OthersStay, Typed, Pcs
<1>5. CASE ~Instruction(r, answer) /\ r.round # 1
  <2>1. pc' = [pc EXCEPT ![h] = "ignore"] /\ run' = [run EXCEPT ![h] = sured]
    BY <1>5 DEF Conclude
  <2> HIDE DEF sured, second
  <2> QED
    BY <1>1, <1>5, <2>1 DEF Concluded, OthersStay, Typed, Pcs
<1> QED
  BY <1>3, <1>4, <1>5

-----------------------------------------------------------------------------
(* Types *)

LEMMA InitSound == Init => Sound
<1> SUFFICES ASSUME Init PROVE Sound
  OBVIOUS
<1>1. lastOnly \in Int
  BY ClockAssumption DEF Init, Never
<1>2. Typed
  BY <1>1, NoRunTyped DEF Init, Typed, Mode, Pcs
<1> QED
  BY <1>2 DEF Init, Sound, Facts, RunFacts, Active, Fetching

LEMMA ConcludedSound ==
    ASSUME Sound, NEW h \in Handler, NEW answer, NEW confirmed, Active(h),
           Concluded(h, answer, confirmed),
           UNCHANGED <<now, row, traffic, version, history>>,
           failedUntil' \in Nat, spent' \in [moves : Nat, faults : Nat],
           cache' \in Entries \cup {None},
           cache' # None => cache'.etag[1] = cache'.mode /\ cache'.validatedAt <= now
    PROVE  Sound'
<1>1. Typed'
  BY DEF Sound, Typed, Concluded, row, traffic, history
<1>2. RunFacts(h)'
  BY DEF Sound, Facts, RunFacts, Concluded, Active, Fetching
<1>3. \A g \in Handler \ {h} : RunFacts(g)'
  BY DEF Sound, Facts, RunFacts, Concluded, OthersStay, Active, Fetching
<1> QED
  BY <1>1, <1>2, <1>3 DEF Sound, Facts

LEMMA FallbackDoes ==
    ASSUME Sound, NEW h \in Handler, NEW entry, Fallback(h, entry)
    PROVE  LET answer == IF run[h].round = 2 /\ entry # None THEN entry.mode ELSE None
           IN  Concluded(h, answer, answer = None /\ Bundled)
<1> DEFINE answer == IF run[h].round = 2 /\ entry # None THEN entry.mode ELSE None
<1>1. Conclude(h, run[h], answer, answer = None /\ Bundled)
  BY DEF Fallback
<1>2. (answer = None /\ Bundled) \in BOOLEAN
  OBVIOUS
<1> HIDE DEF answer
<1>3. Concluded(h, answer, answer = None /\ Bundled)
  BY <1>1, <1>2, ConcludeDoes DEF Sound
<1> QED
  BY <1>3 DEF answer

(* What a fetch brings back, and the entry made of it. *)
Answer(h) == IF run[h].reply = None THEN run[h].held.mode ELSE run[h].reply[1]

Revalidated(h) ==
    /\ cache' \in Entries /\ cache'.mode = Answer(h) /\ cache'.etag[1] = Answer(h)
    /\ cache'.validatedAt = run[h].sent

LEMMA HearDoes ==
    ASSUME Sound, NEW h \in Handler, Hear304(h) \/ Hear200(h)
    PROVE  /\ pc[h] = "served" /\ Concluded(h, Answer(h), TRUE)
           /\ cache' \in Entries \cup {None}
           /\ cache' = cache \/ Revalidated(h)
           /\ UNCHANGED failedUntil /\ ClientIdle
<1>0. run[h] \in Runs
  BY DEF Sound, Typed
<1>1. CASE Hear304(h)
  <2> DEFINE held == run[h].held
  <2>1. pc[h] = "served" /\ run[h].reply = None /\ held # None /\ held \in Entries
    BY <1>0, <1>1 DEF Hear304, Sound, Facts, RunFacts, Runs
  <2>2. held.etag[1] = held.mode
    BY <2>1 DEF Sound, Facts, RunFacts, Fetching
  <2> DEFINE fresh == [held EXCEPT !.validatedAt = run[h].sent]
  <2>3. /\ fresh \in Entries /\ fresh.mode = held.mode /\ fresh.etag = held.etag
        /\ fresh.validatedAt = run[h].sent
    BY <1>0, <2>1 DEF Entries, Runs
  <2>4. cache' = IF cache = held THEN fresh ELSE cache
    BY <1>1 DEF Hear304
  <2>5. Conclude(h, run[h], held.mode, TRUE) /\ UNCHANGED failedUntil /\ ClientIdle
    BY <1>1 DEF Hear304
  <2>6. Answer(h) = held.mode
    BY <2>1 DEF Answer
  <2> HIDE DEF fresh, held
  <2>7. Concluded(h, held.mode, TRUE)
    BY <2>5, ConcludeDoes DEF Sound
  <2> QED
    BY <2>1, <2>2, <2>3, <2>4, <2>5, <2>6, <2>7 DEF Sound, Typed, Revalidated
<1>2. CASE Hear200(h)
  <2> DEFINE reply == run[h].reply
  <2>1. pc[h] = "served" /\ reply # None /\ reply \in Tags /\ reply[1] \in Mode
    BY <1>0, <1>2 DEF Hear200, Runs, Tags
  <2>2. /\ cache' \in Entries /\ cache'.mode = reply[1] /\ cache'.etag = reply
        /\ cache'.validatedAt = run[h].sent
    BY <1>0, <1>2, <2>1, EntryTyped DEF Hear200, Runs
  <2>3. Conclude(h, run[h], reply[1], TRUE) /\ UNCHANGED failedUntil /\ ClientIdle
    BY <1>2 DEF Hear200
  <2>4. Answer(h) = reply[1]
    BY <2>1 DEF Answer
  <2> HIDE DEF reply
  <2>5. Concluded(h, reply[1], TRUE)
    BY <2>3, ConcludeDoes DEF Sound
  <2> QED
    BY <2>1, <2>2, <2>3, <2>4, <2>5 DEF Revalidated
<1> QED
  BY <1>1, <1>2

LEMMA ClientSound ==
    ASSUME Sound, NEW h \in Handler,
           ReadCache(h) \/ BackOff(h) \/ Hear304(h) \/ Hear200(h) \/ FetchFails(h)
    PROVE  Sound'
<1>1. CASE ReadCache(h)
  <2>1. Conclude(h, run[h], cache.mode, TRUE) /\ Active(h) /\ UNCHANGED client /\ ClientIdle
    BY <1>1 DEF ReadCache, Active
  <2>2. Concluded(h, cache.mode, TRUE)
    BY <2>1, ConcludeDoes DEF Sound
  <2> QED
    BY <2>1, <2>2, ConcludedSound DEF ClientIdle, client, Sound, Typed, Facts
<1>2. CASE BackOff(h)
  <2>1. Fallback(h, cache) /\ Active(h) /\ UNCHANGED client /\ ClientIdle
    BY <1>2 DEF BackOff, Active
  <2> QED
    BY <2>1, FallbackDoes, ConcludedSound DEF ClientIdle, client, Sound, Typed, Facts
<1>3. CASE Hear304(h) \/ Hear200(h)
  <2>1. Active(h) /\ Fetching(h)
    BY <1>3, HearDoes DEF Active, Fetching
  <2>2. cache' # None => cache'.etag[1] = cache'.mode /\ cache'.validatedAt <= now
    BY <1>3, <2>1, HearDoes DEF Revalidated, Sound, Facts, RunFacts
  <2> QED
    BY <1>3, <2>1, <2>2, HearDoes, ConcludedSound DEF ClientIdle, Sound, Typed
<1>4. CASE FetchFails(h)
  <2>1. Fallback(h, run[h].held) /\ Active(h) /\ UNCHANGED cache
        /\ UNCHANGED <<now, row, traffic, version, history>>
    BY <1>4 DEF FetchFails, Active
  <2>2. failedUntil' \in Nat /\ spent' \in [moves : Nat, faults : Nat]
    BY <1>4, ClockAssumption DEF FetchFails, Sound, Typed
  <2> QED
    BY <2>1, <2>2, FallbackDoes, ConcludedSound DEF Sound, Typed, Facts
<1> QED
  BY <1>1, <1>2, <1>3, <1>4

LEMMA AskSound ==
    ASSUME Sound, NEW h \in Handler, Ask(h)
    PROVE  Sound'
<1> DEFINE c == [run[h] EXCEPT !.held = cache, !.sent = now]
<1>1. run[h] \in Runs /\ cache \in Entries \cup {None} /\ now \in Nat
  BY DEF Sound, Typed
<1>2. /\ c \in Runs /\ c.event = run[h].event /\ c.arrived = run[h].arrived
      /\ c.round = run[h].round /\ c.held = cache /\ c.sent = now
  BY <1>1 DEF Runs
<1>3. /\ pc[h] = "read" /\ pc' = [pc EXCEPT ![h] = "asking"] /\ run' = [run EXCEPT ![h] = c]
      /\ UNCHANGED <<client, now, row, traffic, version, history, spent>>
  BY DEF Ask, ClientIdle
<1> HIDE DEF c
<1>4. Typed'
  BY <1>2, <1>3 DEF Sound, Typed, Pcs, client, row, traffic, history
<1>5. RunFacts(h)'
  <2>1. pc'[h] = "asking" /\ run'[h] = c /\ now' = now
    BY <1>3 DEF Sound, Typed
  <2>2. c.arrived <= now /\ c.round \in {1, 2} /\ c.event \in Nat
    BY <1>2, <1>3 DEF Sound, Facts, RunFacts, Active
  <2>3. c.sent <= now /\ now <= c.sent + Timeout
    BY <1>1, <1>2, ClockAssumption
  <2>4. c.held # None => c.held.etag[1] = c.held.mode
    BY <1>2 DEF Sound, Facts
  <2> QED
    BY <1>2, <2>1, <2>2, <2>3, <2>4 DEF RunFacts, Active, Fetching
<1>6. \A g \in Handler \ {h} : RunFacts(g)'
  BY <1>3 DEF Sound, Typed, Facts, RunFacts, Active, Fetching
<1> QED
  BY <1>3, <1>4, <1>5, <1>6 DEF Sound, Facts, client

LEMMA TagTyped == Sound => ETag \in Tags /\ ETag # None /\ ETag[1] = mode
BY NoneAssumption DEF Sound, Typed, ETag, Tags, Mode

LEMMA ServeDoes ==
    ASSUME Sound, NEW h \in Handler, Serve(h)
    PROVE  /\ pc[h] = "asking" /\ pc' = [pc EXCEPT ![h] = "served"]
           /\ run' \in [Handler -> Runs] /\ OthersStay(h)
           /\ run'[h].event = run[h].event /\ run'[h].arrived = run[h].arrived
           /\ run'[h].round = run[h].round /\ run'[h].held = run[h].held
           /\ run'[h].sent = run[h].sent /\ run'[h].row = run[h].row
           /\ run'[h].reply = None => run[h].held # None
           /\ Answer(h)' = mode
           /\ UNCHANGED <<client, now, row, traffic, version, history, spent>>
<1> DEFINE reply == IF run[h].held # None /\ run[h].held.etag = ETag THEN None ELSE ETag
<1> DEFINE c == [run[h] EXCEPT !.reply = reply]
<1>1. run[h] \in Runs /\ reply \in Tags \cup {None}
  BY TagTyped DEF Sound, Typed
<1>2. /\ c \in Runs /\ c.event = run[h].event /\ c.arrived = run[h].arrived
      /\ c.round = run[h].round /\ c.held = run[h].held /\ c.sent = run[h].sent
      /\ c.row = run[h].row /\ c.reply = reply
  BY <1>1 DEF Runs
<1>3. /\ pc[h] = "asking" /\ pc' = [pc EXCEPT ![h] = "served"] /\ run' = [run EXCEPT ![h] = c]
      /\ UNCHANGED <<client, now, row, traffic, version, history, spent>>
  BY DEF Serve, ClientIdle
<1>4. reply = None => run[h].held # None /\ run[h].held.etag = ETag
  BY TagTyped
<1>5. run[h].held # None => run[h].held.etag[1] = run[h].held.mode
  BY <1>3 DEF Sound, Facts, RunFacts, Fetching
<1>6. (IF reply = None THEN run[h].held.mode ELSE reply[1]) = mode
  <2>1. CASE reply = None
    BY <2>1, <1>4, <1>5, TagTyped
  <2>2. CASE reply # None
    BY <2>2, TagTyped
  <2> QED
    BY <2>1, <2>2
<1> HIDE DEF c, reply
<1> QED
  BY <1>2, <1>3, <1>4, <1>6 DEF Sound, Typed, OthersStay, Answer

LEMMA ServeSound ==
    ASSUME Sound, NEW h \in Handler, Serve(h)
    PROVE  Sound'
<1>1. Typed'
  BY ServeDoes DEF Sound, Typed, Pcs, client, row, traffic, history
<1>2. RunFacts(h)'
  BY ServeDoes DEF Sound, Typed, Facts, RunFacts, Active, Fetching
<1>3. \A g \in Handler \ {h} : RunFacts(g)'
  BY ServeDoes DEF Sound, Typed, Facts, RunFacts, Active, Fetching, OthersStay
<1> QED
  BY <1>1, <1>2, <1>3, ServeDoes DEF Sound, Facts, client

LEMMA FirstRunTyped ==
    ASSUME NEW e \in Nat, now \in Nat, NEW at \in Mode
    PROVE  /\ FirstRun(e, at) \in Runs /\ FirstRun(e, at).event = e
           /\ FirstRun(e, at).arrived = now /\ FirstRun(e, at).round = 1
           /\ FirstRun(e, at).row = at
BY DEF Runs, FirstRun

LEMMA ArriveDoes ==
    ASSUME Sound, NEW h \in Handler, NEW e \in pending, Arrive(h, e)
    PROVE  /\ pc[h] = "idle" /\ pc' = [pc EXCEPT ![h] = "read"]
           /\ run' \in [Handler -> Runs] /\ OthersStay(h)
           /\ run'[h].event = e /\ run'[h].arrived = now /\ run'[h].round = 1
           /\ run'[h].row = IF Bundled THEN mode ELSE "passthrough"
           /\ inert' = IF appliesDsyncEvents(mode) THEN inert \ {h} ELSE inert \cup {h}
           /\ UNCHANGED <<client, now, row, traffic, version, lastOnly, spent>>
<1> DEFINE at == IF Bundled THEN mode ELSE "passthrough"
<1> DEFINE c == FirstRun(e, at)
<1>1. at \in Mode /\ e \in Nat /\ now \in Nat
  BY DEF Sound, Typed, Mode
<1>2. c \in Runs /\ c.event = e /\ c.arrived = now /\ c.round = 1 /\ c.row = at
  BY <1>1, FirstRunTyped
<1>3. /\ pc[h] = "idle" /\ pc' = [pc EXCEPT ![h] = "read"] /\ run' = [run EXCEPT ![h] = c]
      /\ inert' = IF appliesDsyncEvents(mode) THEN inert \ {h} ELSE inert \cup {h}
      /\ UNCHANGED <<client, now, row, traffic, version, lastOnly, spent>>
  BY DEF Arrive
<1> HIDE DEF c, at
<1>4. c.row = IF Bundled THEN mode ELSE "passthrough"
  BY <1>2 DEF at
<1> QED
  BY <1>2, <1>3, <1>4 DEF Sound, Typed, OthersStay

LEMMA ArriveSound ==
    ASSUME Sound, NEW h \in Handler, NEW e \in pending, Arrive(h, e)
    PROVE  Sound'
<1>0. inert' \subseteq Handler /\ pc' \in [Handler -> Pcs]
  BY ArriveDoes DEF Sound, Typed, Pcs
<1>1. Typed'
  BY <1>0, ArriveDoes DEF Sound, Typed, client, row, traffic
<1>2. RunFacts(h)'
  BY ArriveDoes DEF Sound, Typed, RunFacts, Active, Fetching
<1>3. \A g \in Handler \ {h} : RunFacts(g)'
  BY ArriveDoes DEF Sound, Typed, Facts, RunFacts, Active, Fetching, OthersStay
<1> QED
  BY <1>1, <1>2, <1>3, ArriveDoes DEF Sound, Facts, client

LEMMA AcknowledgeSound ==
    ASSUME Sound, NEW h \in Handler, Apply(h) \/ Ignore(h)
    PROVE  Sound' /\ OthersStay(h) /\ pc'[h] = "idle"
<1>1. /\ Acknowledge(h) /\ Active(h)
      /\ UNCHANGED <<now, row, legs, latest, workos, client, inert, lastOnly, spent>>
      /\ native' = native \/ native' = run[h].event
  BY DEF Apply, Ignore, Active, history
<1>2. run[h].event \in Nat
  BY <1>1 DEF Sound, Facts, RunFacts
<1>3. /\ run' \in [Handler -> Runs] /\ pc' = [pc EXCEPT ![h] = "idle"] /\ pc'[h] = "idle"
      /\ OthersStay(h) /\ pending' \subseteq Nat /\ version' \in Nat
  BY <1>1, <1>2, NoRunTyped DEF Acknowledge, Sound, Typed, OthersStay
<1>4. Typed'
  BY <1>1, <1>2, <1>3 DEF Sound, Typed, Pcs, client, row
<1>5. \A g \in Handler : RunFacts(g)'
  BY <1>1, <1>3 DEF Sound, Facts, RunFacts, Active, Fetching, OthersStay
<1> QED
  BY <1>1, <1>3, <1>4, <1>5 DEF Sound, Facts, client

LEMMA TickSound == Sound /\ Tick => Sound'
<1> SUFFICES ASSUME Sound, Tick PROVE Sound'
  OBVIOUS
<1>1. /\ now' = now + 1 /\ UNCHANGED <<row, traffic, listener, client, inert, spent>>
      /\ lastOnly' = (IF mode = "workos-only" THEN now + 1 ELSE lastOnly)
  BY DEF Tick
<1>2. Typed'
  BY <1>1 DEF Sound, Typed, row, traffic, listener, client
<1>3. ASSUME NEW h \in Handler PROVE RunFacts(h)'
  <2>1. run[h] \in Runs /\ run[h].sent \in Nat /\ run[h].arrived \in Nat /\ now \in Nat
    BY DEF Sound, Typed, Runs
  <2>2. Fetching(h) => now < run[h].sent + Timeout
    BY DEF Tick, Fetching
  <2> QED
    BY <1>1, <2>1, <2>2, ClockAssumption
       DEF Sound, Facts, RunFacts, Active, Fetching, listener
<1>4. cache # None => cache.validatedAt <= now + 1
  BY DEF Sound, Typed, Facts, Entries
<1> QED
  BY <1>1, <1>2, <1>3, <1>4 DEF Sound, Facts, client

LEMMA RestSound ==
    ASSUME Sound, BeginWrite \/ WriteNative \/ WriteWorkos \/ Restart \/ UNCHANGED vars
                  \/ \E m \in Rungs : SetMode(m)
    PROVE  Sound'
<1>1. CASE BeginWrite \/ WriteNative \/ WriteWorkos
  <2>0. /\ latest \in Nat /\ native \in Nat /\ workos \in Nat /\ pending \subseteq Nat
    BY DEF Sound, Typed
  <2>1. /\ UNCHANGED <<now, row, client, listener, inert, lastOnly, spent>>
        /\ latest' \in Nat /\ native' \in Nat /\ workos' \in Nat /\ pending' \subseteq Nat
    <3>1. CASE BeginWrite
      BY <2>0, <3>1 DEF BeginWrite
    <3>2. CASE WriteNative
      BY <2>0, <3>2 DEF WriteNative, history
    <3>3. CASE WriteWorkos
      BY <2>0, <3>3 DEF WriteWorkos, history
    <3> QED
      BY <1>1, <3>1, <3>2, <3>3
  <2> QED
    BY <2>1 DEF Sound, Typed, Facts, RunFacts, Active, Fetching, row, client, listener
<1>2. CASE Restart
  <2>1. /\ UNCHANGED <<now, row, traffic, version, history>>
        /\ cache' = None /\ failedUntil' = 0
        /\ pc' = [h \in Handler |-> "idle"] /\ run' = [h \in Handler |-> NoRun]
        /\ spent' \in [moves : Nat, faults : Nat]
    BY <1>2 DEF Restart, Sound, Typed
  <2>2. Typed'
    BY <2>1, NoRunTyped DEF Sound, Typed, Pcs, row, traffic, history
  <2> QED
    BY <2>1, <2>2 DEF Sound, Facts, RunFacts, Active, Fetching
<1>3. CASE UNCHANGED vars
  BY <1>3 DEF Sound, Typed, Facts, RunFacts, Active, Fetching, vars, row, traffic, client,
     listener, history
<1>4. ASSUME NEW m \in Rungs, SetMode(m) PROVE Sound'
  <2>1. /\ mode' \in Mode /\ updated' = now /\ inert' \subseteq Handler /\ lastOnly' \in Int
        /\ spent' \in [moves : Nat, faults : Nat]
        /\ UNCHANGED <<now, traffic, client, listener>>
    BY <1>4, RungAssumption DEF SetMode, Sound, Typed, Mode
  <2> QED
    BY <2>1 DEF Sound, Typed, Facts, RunFacts, Active, Fetching, traffic, client, listener
<1> QED
  BY <1>1, <1>2, <1>3, <1>4

LEMMA NextSound == Sound /\ [Next]_vars => Sound'
<1> SUFFICES ASSUME Sound, [Next]_vars PROVE Sound'
  OBVIOUS
<1>1. ASSUME NEW h \in Handler, \/ \E e \in pending : Arrive(h, e)
                               \/ ReadCache(h) \/ BackOff(h) \/ Ask(h) \/ Serve(h)
                               \/ Hear304(h) \/ Hear200(h) \/ FetchFails(h) \/ Apply(h) \/ Ignore(h)
      PROVE  Sound'
  BY <1>1, ArriveSound, ClientSound, AskSound, ServeSound, AcknowledgeSound
<1> QED
  BY <1>1, TickSound, RestSound DEF Next

LEMMA AlwaysSound == Spec => []Sound
BY InitSound, NextSound, PTL DEF Spec

-----------------------------------------------------------------------------
(* What every delivery under way has lived through *)

Applying(m) == m = "workos-only"
Cached == cache # None
Served(g) == pc[g] = "served"

(* A moment of another mode since a delivery arrived is one it has seen.      *)
SeenMode == \A h \in Handler : Active(h) /\ ~Applying(mode) => h \in inert
SeenCache == \A h \in Handler :
    Active(h) /\ Cached /\ ~Applying(cache.mode) /\ cache.validatedAt >= run[h].arrived
    => h \in inert
SeenAnswer == \A g, h \in Handler :
    Served(g) /\ Active(h) /\ ~Applying(Answer(g)) /\ run[g].sent >= run[h].arrived
    => h \in inert
SeenRow == \A h \in Handler : Active(h) /\ Bundled /\ ~Applying(run[h].row) => h \in inert
(* What is stamped now is what the row says now.                              *)
FreshCache == Cached /\ cache.validatedAt = now => cache.mode = mode
FreshAnswer == \A g \in Handler : Served(g) /\ run[g].sent = now => Answer(g) = mode
DroppedSeen == \A h \in Handler : pc[h] = "ignore" => h \in inert \/ ~run[h].sure

Seen == SeenMode /\ SeenCache /\ SeenAnswer /\ SeenRow /\ FreshCache /\ FreshAnswer
        /\ DroppedSeen

(* An answer that says apply is no older than the last moment of workos-only. *)
RecentMode == lastOnly <= now /\ (Applying(mode) => lastOnly = now)
RecentCache == Cached /\ Applying(cache.mode) => lastOnly >= cache.validatedAt
RecentAnswer == \A g \in Handler : Served(g) /\ Applying(Answer(g)) => lastOnly >= run[g].sent
RecentRow == \A h \in Handler :
    Active(h) /\ Applying(run[h].row) => lastOnly >= run[h].arrived

Recent == RecentMode /\ RecentCache /\ RecentAnswer /\ RecentRow

(* Every step of the status client, for both invariants: it leaves the rest   *)
(* of the system, brings one delivery to a conclusion, and either leaves the  *)
(* cache or puts in it what the delivery's own fetch was answered.            *)
AsTold(h) ==
    /\ pc'[h] \in {"apply", "read", "ignore"} /\ pc[h] # "apply" /\ pc[h] # "ignore" /\ Active(h)
    /\ OthersStay(h) /\ run'[h].arrived = run[h].arrived /\ run'[h].row = run[h].row
    /\ UNCHANGED <<now, mode, inert, lastOnly>>
    /\ cache' = cache \/ (Served(h) /\ Revalidated(h))
    /\ pc'[h] = "ignore" /\ run'[h].sure =>
          \/ Cached /\ ~Applying(cache.mode) /\ cache.validatedAt >= run[h].arrived
          \/ Served(h) /\ ~Applying(Answer(h))
          \/ Bundled /\ ~Applying(run[h].row)
    /\ pc'[h] = "apply" /\ run'[h].sure =>
          \/ Cached /\ Applying(cache.mode) /\ now < cache.validatedAt + TTL
          \/ Served(h) /\ Applying(Answer(h))
          \/ Applying(run[h].row)

LEMMA AnswerTyped ==
    ASSUME Sound, NEW h \in Handler, Served(h)
    PROVE  Answer(h) \in Mode /\ Answer(h) # None
<1>1. run[h] \in Runs /\ (run[h].reply = None => run[h].held # None)
  BY DEF Sound, Typed, Facts, RunFacts, Served
<1>2. CASE run[h].reply = None
  BY <1>1, <1>2, NoneAssumption DEF Answer, Runs, Entries
<1>3. CASE run[h].reply # None
  BY <1>1, <1>3, NoneAssumption DEF Answer, Runs, Tags
<1> QED
  BY <1>2, <1>3

LEMMA FallbackTold ==
    ASSUME Sound, NEW h \in Handler, NEW entry, Fallback(h, entry)
    PROVE  /\ pc'[h] \in {"apply", "read", "ignore"} /\ OthersStay(h)
           /\ run'[h].arrived = run[h].arrived /\ run'[h].row = run[h].row
           /\ pc'[h] = "ignore" /\ run'[h].sure => Bundled /\ ~Applying(run[h].row)
           /\ pc'[h] = "apply" /\ run'[h].sure => Applying(run[h].row)
<1> DEFINE answer == IF run[h].round = 2 /\ entry # None THEN entry.mode ELSE None
<1>1. Concluded(h, answer, answer = None /\ Bundled)
  BY FallbackDoes
<1> HIDE DEF answer
<1>2. CASE answer = None
  BY <1>1, <1>2 DEF Concluded, Instruction, applyFromModeFallback, Applying
<1>3. CASE answer # None
  BY <1>1, <1>3 DEF Concluded
<1> QED
  BY <1>1, <1>2, <1>3 DEF Concluded

LEMMA ClientTold ==
    ASSUME Sound, NEW h \in Handler,
           ReadCache(h) \/ BackOff(h) \/ Hear304(h) \/ Hear200(h) \/ FetchFails(h)
    PROVE  AsTold(h)
<1>1. CASE ReadCache(h)
  <2>1. /\ pc[h] = "read" /\ cache # None /\ Conclude(h, run[h], cache.mode, TRUE)
        /\ isUsable(cache, run[h].round = 2, run[h].arrived) /\ UNCHANGED client /\ ClientIdle
    BY <1>1 DEF ReadCache
  <2>2. Concluded(h, cache.mode, TRUE)
    BY <2>1, ConcludeDoes DEF Sound
  <2>3. cache.mode # None /\ run[h].round \in {1, 2}
    BY <2>1, NoneAssumption DEF Sound, Typed, Facts, RunFacts, Active, Entries
  <2>4. Instruction(run[h], cache.mode) = Applying(cache.mode)
    BY <2>3 DEF Instruction, Applying, appliesDsyncEvents
  <2> QED
    BY <2>1, <2>2, <2>3, <2>4
       DEF AsTold, Concluded, Active, ClientIdle, client, row, history, isUsable, Cached
<1>2. CASE BackOff(h)
  <2>1. pc[h] = "read" /\ Fallback(h, cache) /\ UNCHANGED client /\ ClientIdle
    BY <1>2 DEF BackOff
  <2> QED
    BY <2>1, FallbackTold DEF AsTold, Active, ClientIdle, client, row, history
<1>3. CASE Hear304(h) \/ Hear200(h)
  <2>1. /\ pc[h] = "served" /\ Concluded(h, Answer(h), TRUE) /\ ClientIdle
        /\ cache' = cache \/ Revalidated(h)
    BY <1>3, HearDoes
  <2>2. Instruction(run[h], Answer(h)) = Applying(Answer(h))
    BY <2>1, AnswerTyped DEF Instruction, Applying, appliesDsyncEvents, Served
  <2> QED
    BY <2>1, <2>2 DEF AsTold, Concluded, Active, Served, ClientIdle, row, history
<1>4. CASE FetchFails(h)
  <2>1. /\ pc[h] \in {"asking", "served"} /\ Fallback(h, run[h].held)
        /\ UNCHANGED <<now, row, cache, history>>
    BY <1>4 DEF FetchFails
  <2> QED
    BY <2>1, FallbackTold DEF AsTold, Active, row, history
<1> QED
  BY <1>1, <1>2, <1>3, <1>4

-----------------------------------------------------------------------------
(* Nothing is dropped on an old answer *)

LEMMA InitSeen == Init => Seen
BY DEF Init, Seen, SeenMode, SeenCache, SeenAnswer, SeenRow, FreshCache, FreshAnswer,
       DroppedSeen, Active, Served, Cached

LEMMA ClientSeen ==
    ASSUME Sound, Sound', Seen, NEW h \in Handler, AsTold(h)
    PROVE  Seen'
<1> USE DEF AsTold
<1>0. \A g \in Handler \ {h} : pc'[g] = pc[g] /\ run'[g] = run[g] /\ Answer(g)' = Answer(g)
  BY DEF OthersStay, Answer
<1>1. SeenMode' /\ SeenRow'
  BY <1>0 DEF Seen, SeenMode, SeenRow, Active
<1>2. \A g \in Handler : Active(g)' => Active(g) /\ run'[g].arrived = run[g].arrived
  BY <1>0 DEF Active
<1>3. SeenCache' /\ FreshCache'
  <2>1. CASE cache' = cache
    BY <1>2, <2>1 DEF Seen, SeenCache, FreshCache, Cached
  <2>2. CASE Served(h) /\ Revalidated(h)
    BY <1>2, <2>2 DEF Seen, SeenCache, SeenAnswer, FreshCache, FreshAnswer, Revalidated, Cached
  <2> QED
    BY <2>1, <2>2
<1>4. SeenAnswer' /\ FreshAnswer'
  BY <1>0, <1>2 DEF Seen, SeenAnswer, FreshAnswer, Served
<1>5. Served(h) => run[h].sent >= run[h].arrived
  BY DEF Sound, Typed, Facts, RunFacts, Fetching, Served, Runs
<1>6. pc'[h] = "ignore" => h \in inert \/ ~run'[h].sure
  BY <1>5 DEF Seen, SeenCache, SeenAnswer, SeenRow
<1>7. DroppedSeen'
  BY <1>0, <1>6 DEF Seen, DroppedSeen
<1> QED
  BY <1>1, <1>3, <1>4, <1>7 DEF Seen

LEMMA ServeSeen ==
    ASSUME Sound, Seen, NEW h \in Handler, Serve(h)
    PROVE  Seen'
<1>0. /\ UNCHANGED <<now, mode, inert, cache>> /\ Active(h) /\ Answer(h)' = mode
      /\ pc'[h] = "served"
      /\ run'[h].arrived = run[h].arrived /\ run'[h].sent = run[h].sent
      /\ run'[h].row = run[h].row
  BY ServeDoes DEF client, row, history, Active, Sound, Typed
<1>1. \A g \in Handler \ {h} : pc'[g] = pc[g] /\ run'[g] = run[g] /\ Answer(g)' = Answer(g)
  BY ServeDoes DEF OthersStay, Answer
<1>2. \A g \in Handler : (Active(g)' <=> Active(g)) /\ run'[g].arrived = run[g].arrived
                         /\ run'[g].row = run[g].row
  BY <1>0, <1>1 DEF Active
<1>3. SeenMode' /\ SeenCache' /\ SeenRow' /\ FreshCache'
  BY <1>0, <1>2 DEF Seen, SeenMode, SeenCache, SeenRow, FreshCache, Cached
<1>4. SeenAnswer' /\ FreshAnswer'
  BY <1>0, <1>1, <1>2 DEF Seen, SeenMode, SeenAnswer, FreshAnswer, Served
<1>5. DroppedSeen'
  BY <1>0, <1>1 DEF Seen, DroppedSeen
<1> QED
  BY <1>3, <1>4, <1>5 DEF Seen

LEMMA AskDoes ==
    ASSUME Sound, NEW h \in Handler, Ask(h)
    PROVE  /\ pc[h] = "read" /\ pc'[h] = "asking" /\ OthersStay(h)
           /\ run'[h].arrived = run[h].arrived /\ run'[h].row = run[h].row
           /\ UNCHANGED <<now, mode, inert, cache, lastOnly>>
<1> DEFINE c == [run[h] EXCEPT !.held = cache, !.sent = now]
<1>1. c.arrived = run[h].arrived /\ c.row = run[h].row
  BY DEF Sound, Typed, Runs
<1>2. /\ pc[h] = "read" /\ pc' = [pc EXCEPT ![h] = "asking"] /\ run' = [run EXCEPT ![h] = c]
      /\ UNCHANGED <<now, mode, inert, cache, lastOnly>>
  BY DEF Ask, ClientIdle, client, row, history
<1> HIDE DEF c
<1> QED
  BY <1>1, <1>2 DEF Sound, Typed, OthersStay

LEMMA AskSeen ==
    ASSUME Sound, Seen, NEW h \in Handler, Ask(h)
    PROVE  Seen'
<1>1. \A g \in Handler \ {h} : pc'[g] = pc[g] /\ run'[g] = run[g] /\ Answer(g)' = Answer(g)
  BY AskDoes DEF OthersStay, Answer
<1>2. \A g \in Handler : (Active(g)' <=> Active(g)) /\ run'[g].arrived = run[g].arrived
                         /\ run'[g].row = run[g].row
  BY <1>1, AskDoes DEF Active
<1>3. SeenMode' /\ SeenCache' /\ SeenRow' /\ FreshCache'
  BY <1>2, AskDoes DEF Seen, SeenMode, SeenCache, SeenRow, FreshCache, Cached
<1>4. SeenAnswer' /\ FreshAnswer' /\ DroppedSeen'
  BY <1>1, <1>2, AskDoes DEF Seen, SeenAnswer, FreshAnswer, DroppedSeen, Served
<1> QED
  BY <1>3, <1>4 DEF Seen

LEMMA ArriveSeen ==
    ASSUME Sound, Seen, NEW h \in Handler, NEW e \in pending, Arrive(h, e)
    PROVE  Seen'
<1>0. /\ UNCHANGED <<now, mode, cache>> /\ pc'[h] = "read" /\ run'[h].arrived = now
      /\ run'[h].row = (IF Bundled THEN mode ELSE "passthrough")
      /\ (~Applying(mode) => h \in inert') /\ inert \ {h} \subseteq inert'
  BY ArriveDoes DEF client, row, Sound, Typed, Applying, appliesDsyncEvents
<1>1. \A g \in Handler \ {h} : pc'[g] = pc[g] /\ run'[g] = run[g] /\ Answer(g)' = Answer(g)
  BY ArriveDoes DEF OthersStay, Answer
<1>2. Sound'
  BY ArriveSound
<1>3. SeenMode' /\ SeenRow'
  BY <1>0, <1>1 DEF Seen, SeenMode, SeenRow, Active
<1>4. SeenCache' /\ FreshCache'
  <2>1. Cached /\ cache.validatedAt >= now => cache.validatedAt = now
    BY DEF Sound, Typed, Facts, Entries, Cached
  <2> QED
    BY <1>0, <1>1, <2>1 DEF Seen, SeenCache, FreshCache, Cached, Active
<1>5. SeenAnswer' /\ FreshAnswer'
  <2>1. \A g \in Handler : Served(g) /\ run[g].sent >= now => run[g].sent = now
    <3>1. now \in Nat /\ \A g \in Handler : run[g].sent \in Nat
      BY DEF Sound, Typed, Runs
    <3>2. \A g \in Handler : Served(g) => run[g].sent <= now
      BY DEF Sound, Facts, RunFacts, Fetching, Served
    <3> QED
      BY <3>1, <3>2
  <2> QED
    BY <1>0, <1>1, <2>1 DEF Seen, SeenAnswer, FreshAnswer, Served, Active
<1>6. DroppedSeen'
  BY <1>0, <1>1 DEF Seen, DroppedSeen
<1> QED
  BY <1>3, <1>4, <1>5, <1>6 DEF Seen

LEMMA SetModeSeen ==
    ASSUME Sound, Seen, NEW m \in Rungs, SetMode(m)
    PROVE  Seen'
<1>1. /\ UNCHANGED <<now, cache, pc, run>> /\ mode' = m
      /\ (Applying(m) => inert' = inert) /\ (~Applying(m) => \A h \in Handler : Active(h) => h \in inert')
      /\ (Cached => cache.validatedAt < now)
      /\ \A g \in Handler : Served(g) => run[g].sent < now
  BY DEF SetMode, client, listener, Applying, appliesDsyncEvents, Active, Cached, Served
<1>2. \A h \in Handler : Active(h) /\ h \in inert => h \in inert'
  BY <1>1
<1>3. SeenMode' /\ SeenCache' /\ SeenAnswer' /\ SeenRow'
  BY <1>1, <1>2 DEF Seen, SeenMode, SeenCache, SeenAnswer, SeenRow, Active, Cached, Served, Answer
<1>4. FreshCache' /\ FreshAnswer'
  BY <1>1 DEF FreshCache, FreshAnswer, Cached, Served, Sound, Typed, Entries, Runs
<1>5. DroppedSeen'
  BY <1>1, <1>2 DEF Seen, DroppedSeen, Active
<1> QED
  BY <1>3, <1>4, <1>5 DEF Seen

LEMMA OtherSeen ==
    ASSUME Sound, Seen,
           \/ BeginWrite \/ WriteNative \/ WriteWorkos \/ Restart \/ Tick \/ UNCHANGED vars
           \/ \E h \in Handler : Apply(h) \/ Ignore(h)
    PROVE  Seen'
<1>1. CASE BeginWrite \/ WriteNative \/ WriteWorkos \/ UNCHANGED vars
  <2>1. UNCHANGED <<now, mode, cache, pc, run, inert>>
    BY <1>1 DEF BeginWrite, WriteNative, WriteWorkos, vars, row, client, listener, history
  <2> QED
    BY <2>1 DEF Seen, SeenMode, SeenCache, SeenAnswer, SeenRow, FreshCache, FreshAnswer,
       DroppedSeen, Active, Served, Cached, Answer
<1>2. CASE Restart
  <2>1. cache' = None /\ \A h \in Handler : pc'[h] = "idle"
    BY <1>2 DEF Restart
  <2> QED
    BY <2>1 DEF Seen, SeenMode, SeenCache, SeenAnswer, SeenRow, FreshCache, FreshAnswer,
       DroppedSeen, Active, Served, Cached
<1>3. CASE Tick
  <2>1. now' = now + 1 /\ UNCHANGED <<mode, cache, pc, run, inert>>
    BY <1>3 DEF Tick, row, client, listener
  <2>2. SeenMode' /\ SeenCache' /\ SeenAnswer' /\ SeenRow' /\ DroppedSeen'
    BY <2>1 DEF Seen, SeenMode, SeenCache, SeenAnswer, SeenRow, DroppedSeen, Active, Served,
       Cached, Answer
  <2>3. /\ Cached => cache.validatedAt # now + 1
        /\ \A g \in Handler : Served(g) => run[g].sent # now + 1
    <3>1. now \in Nat /\ (Cached => cache.validatedAt \in Nat /\ cache.validatedAt <= now)
      BY DEF Sound, Typed, Facts, Cached, Entries
    <3>2. \A g \in Handler : Served(g) => run[g].sent <= now
      BY DEF Sound, Facts, RunFacts, Fetching, Served
    <3>3. \A g \in Handler : run[g].sent \in Nat
      BY DEF Sound, Typed, Runs
    <3> QED
      BY <3>1, <3>2, <3>3
  <2>4. FreshCache' /\ FreshAnswer'
    BY <2>1, <2>3 DEF FreshCache, FreshAnswer, Cached, Served
  <2> QED
    BY <2>2, <2>4 DEF Seen
<1>4. ASSUME NEW h \in Handler, Apply(h) \/ Ignore(h) PROVE Seen'
  <2>1. OthersStay(h) /\ pc'[h] = "idle" /\ UNCHANGED <<now, mode, cache, inert>>
    BY <1>4, AcknowledgeSound DEF Apply, Ignore, row, client, history
  <2>2. \A g \in Handler \ {h} : pc'[g] = pc[g] /\ run'[g] = run[g] /\ Answer(g)' = Answer(g)
    BY <2>1 DEF OthersStay, Answer
  <2> QED
    BY <2>1, <2>2 DEF Seen, SeenMode, SeenCache, SeenAnswer, SeenRow, FreshCache, FreshAnswer,
       DroppedSeen, Active, Served, Cached
<1> QED
  BY <1>1, <1>2, <1>3, <1>4

LEMMA NextSeen == Sound /\ Seen /\ [Next]_vars => Seen'
<1> SUFFICES ASSUME Sound, Seen, [Next]_vars PROVE Seen'
  OBVIOUS
<1>0. Sound'
  BY NextSound
<1>1. ASSUME NEW h \in Handler, \/ \E e \in pending : Arrive(h, e)
                               \/ ReadCache(h) \/ BackOff(h) \/ Ask(h) \/ Serve(h)
                               \/ Hear304(h) \/ Hear200(h) \/ FetchFails(h) \/ Apply(h) \/ Ignore(h)
      PROVE  Seen'
  <2>1. CASE ReadCache(h) \/ BackOff(h) \/ Hear304(h) \/ Hear200(h) \/ FetchFails(h)
    BY <1>0, <2>1, ClientTold, ClientSeen
  <2> QED
    BY <1>1, <2>1, ArriveSeen, AskSeen, ServeSeen, OtherSeen
<1> QED
  BY <1>1, SetModeSeen, OtherSeen DEF Next

(* No event is dropped on an answer that was already past when it came, except *)
(* while the endpoint was failing: the confirming fetch of                     *)
(* dsyncInstructionForEvent is enough, however the directory moves.            *)
THEOREM NothingIsDroppedOnAnOldAnswer == Spec => DropIsConfirmed
<1> DEFINE Confirmed == \A h \in Handler :
                          pc[h] = "ignore" /\ pc'[h] = "idle" /\ cache' = cache =>
                            h \in inert \/ ~run[h].sure
<1>1. Seen => Confirmed
  BY DEF Seen, DroppedSeen
<1>2. Spec => []Seen
  BY InitSound, NextSound, InitSeen, NextSeen, PTL DEF Spec
<1> QED
  BY <1>1, <1>2, PTL DEF DropIsConfirmed

-----------------------------------------------------------------------------
(* Nothing is applied on an answer long past *)

LEMMA InitRecent == Init => Recent
BY ClockAssumption DEF Init, Recent, RecentMode, RecentCache, RecentAnswer, RecentRow, Applying,
       Never, Active, Served, Cached

LEMMA ClientRecent ==
    ASSUME Sound, Recent, NEW h \in Handler, AsTold(h)
    PROVE  Recent'
<1> USE DEF AsTold
<1>0. \A g \in Handler \ {h} : pc'[g] = pc[g] /\ run'[g] = run[g] /\ Answer(g)' = Answer(g)
  BY DEF OthersStay, Answer
<1>1. RecentMode' /\ RecentRow'
  BY <1>0 DEF Recent, RecentMode, RecentRow, Active
<1>2. RecentAnswer'
  BY <1>0 DEF Recent, RecentAnswer, Served
<1>3. RecentCache'
  BY DEF Recent, RecentCache, RecentAnswer, Revalidated, Cached
<1> QED
  BY <1>1, <1>2, <1>3 DEF Recent

LEMMA ServeRecent ==
    ASSUME Sound, Recent, NEW h \in Handler, Serve(h)
    PROVE  Recent'
<1>0. /\ UNCHANGED <<now, mode, lastOnly, cache>> /\ Active(h) /\ Answer(h)' = mode
      /\ run'[h].arrived = run[h].arrived /\ run'[h].sent = run[h].sent
      /\ run'[h].row = run[h].row /\ run[h].sent <= now
  BY ServeDoes DEF client, row, history, Active, Sound, Facts, RunFacts, Fetching
<1>1. \A g \in Handler \ {h} : pc'[g] = pc[g] /\ run'[g] = run[g] /\ Answer(g)' = Answer(g)
  BY ServeDoes DEF OthersStay, Answer
<1>2. RecentMode' /\ RecentCache' /\ RecentRow'
  BY <1>0, <1>1 DEF Recent, RecentMode, RecentCache, RecentRow, Active, Cached
<1>3. RecentAnswer'
  BY <1>0, <1>1 DEF Recent, RecentMode, RecentAnswer, Served
<1> QED
  BY <1>2, <1>3 DEF Recent

LEMMA AskRecent ==
    ASSUME Sound, Recent, NEW h \in Handler, Ask(h)
    PROVE  Recent'
<1>1. \A g \in Handler \ {h} : pc'[g] = pc[g] /\ run'[g] = run[g] /\ Answer(g)' = Answer(g)
  BY AskDoes DEF OthersStay, Answer
<1>2. RecentMode' /\ RecentCache' /\ RecentRow'
  BY <1>1, AskDoes DEF Recent, RecentMode, RecentCache, RecentRow, Active, Cached
<1>3. RecentAnswer'
  BY <1>1, AskDoes DEF Recent, RecentAnswer, Served
<1> QED
  BY <1>2, <1>3 DEF Recent

LEMMA ArriveRecent ==
    ASSUME Sound, Recent, NEW h \in Handler, NEW e \in pending, Arrive(h, e)
    PROVE  Recent'
<1>0. /\ UNCHANGED <<now, mode, cache, lastOnly>> /\ pc'[h] = "read" /\ run'[h].arrived = now
      /\ run'[h].row = (IF Bundled THEN mode ELSE "passthrough")
  BY ArriveDoes DEF client, row, Sound, Typed
<1>1. \A g \in Handler \ {h} : pc'[g] = pc[g] /\ run'[g] = run[g] /\ Answer(g)' = Answer(g)
  BY ArriveDoes DEF OthersStay, Answer
<1>2. RecentMode' /\ RecentCache'
  BY <1>0 DEF Recent, RecentMode, RecentCache, Cached
<1>3. RecentAnswer'
  BY <1>0, <1>1 DEF Recent, RecentAnswer, Served
<1>4. lastOnly \in Int /\ now \in Nat
  BY DEF Sound, Typed
<1>5. RecentRow'
  BY <1>0, <1>1, <1>4 DEF Recent, RecentMode, RecentRow, Active, Applying
<1> QED
  BY <1>2, <1>3, <1>5 DEF Recent

(* The moment last recorded only moves on, and every stamp stays where it is. *)
LEMMA LaterRecent ==
    ASSUME Sound, Recent, UNCHANGED <<cache, pc, run>>, RecentMode',
           lastOnly' \in Int, lastOnly' >= lastOnly
    PROVE  Recent'
<1>0. lastOnly \in Int
  BY DEF Sound, Typed
<1>1. RecentCache'
  BY <1>0 DEF Recent, RecentCache, Cached, Sound, Typed, Entries
<1>2. \A g \in Handler : run[g].sent \in Nat /\ run[g].arrived \in Nat
  BY DEF Sound, Typed, Runs
<1>3. RecentAnswer' /\ RecentRow'
  BY <1>0, <1>2 DEF Recent, RecentAnswer, RecentRow, Served, Active, Answer
<1> QED
  BY <1>1, <1>3 DEF Recent

LEMMA OtherRecent ==
    ASSUME Sound, Recent,
           \/ BeginWrite \/ WriteNative \/ WriteWorkos \/ Restart \/ Tick \/ UNCHANGED vars
           \/ \E m \in Rungs : SetMode(m)
           \/ \E h \in Handler : Apply(h) \/ Ignore(h)
    PROVE  Recent'
<1>0. now \in Nat /\ lastOnly \in Int /\ lastOnly <= now
  BY DEF Sound, Typed, Recent, RecentMode
<1>1. CASE BeginWrite \/ WriteNative \/ WriteWorkos \/ UNCHANGED vars
  <2>1. UNCHANGED <<now, mode, cache, pc, run, lastOnly>>
    BY <1>1 DEF BeginWrite, WriteNative, WriteWorkos, vars, row, client, listener, history
  <2> QED
    BY <1>0, <2>1, LaterRecent DEF Recent, RecentMode
<1>2. CASE Restart
  <2>1. cache' = None /\ (\A h \in Handler : pc'[h] = "idle") /\ UNCHANGED <<now, mode, lastOnly>>
    BY <1>2 DEF Restart, row, history
  <2> QED
    BY <2>1 DEF Recent, RecentMode, RecentCache, RecentAnswer, RecentRow, Active, Served, Cached
<1>3. CASE Tick
  <2>1. /\ now' = now + 1 /\ UNCHANGED <<mode, cache, pc, run>>
        /\ lastOnly' = IF mode = "workos-only" THEN now + 1 ELSE lastOnly
    BY <1>3 DEF Tick, row, client, listener
  <2> QED
    BY <1>0, <2>1, LaterRecent DEF Recent, RecentMode, Applying
<1>4. ASSUME NEW m \in Rungs, SetMode(m) PROVE Recent'
  <2>1. /\ mode' = m /\ UNCHANGED <<now, cache, pc, run>>
        /\ lastOnly' = IF "workos-only" \in {m, mode} THEN now ELSE lastOnly
    BY <1>4 DEF SetMode, client, listener
  <2> QED
    BY <1>0, <2>1, LaterRecent DEF Recent, RecentMode, Applying
<1>5. ASSUME NEW h \in Handler, Apply(h) \/ Ignore(h) PROVE Recent'
  <2>1. OthersStay(h) /\ pc'[h] = "idle" /\ UNCHANGED <<now, mode, cache, lastOnly>>
    BY <1>5, AcknowledgeSound DEF Apply, Ignore, row, client, history
  <2>2. \A g \in Handler \ {h} : pc'[g] = pc[g] /\ run'[g] = run[g] /\ Answer(g)' = Answer(g)
    BY <2>1 DEF OthersStay, Answer
  <2> QED
    BY <2>1, <2>2 DEF Recent, RecentMode, RecentCache, RecentAnswer, RecentRow, Active, Served,
       Cached
<1> QED
  BY <1>1, <1>2, <1>3, <1>4, <1>5

Timely(h) == \/ ~run'[h].sure \/ lastOnly >= run[h].arrived
             \/ now < lastOnly + TTL \/ now <= lastOnly + Timeout

LEMMA ClientTimely ==
    ASSUME Sound, Recent, NEW h \in Handler, AsTold(h), pc'[h] = "apply"
    PROVE  Timely(h)
<1>0. /\ lastOnly \in Int /\ now \in Nat /\ run[h].sent \in Nat /\ TTL \in Nat /\ Timeout \in Nat
      /\ Cached => cache.validatedAt \in Nat
  BY ClockAssumption DEF Sound, Typed, Runs, Entries, Cached
<1>1. CASE Cached /\ Applying(cache.mode) /\ now < cache.validatedAt + TTL
  BY <1>0, <1>1 DEF Timely, Recent, RecentCache
<1>2. CASE Served(h) /\ Applying(Answer(h))
  <2>1. now <= run[h].sent + Timeout
    BY <1>2 DEF Sound, Facts, RunFacts, Fetching, Served
  <2> QED
    BY <1>0, <1>2, <2>1 DEF Timely, Recent, RecentAnswer
<1>3. CASE Applying(run[h].row)
  BY <1>3 DEF Timely, Recent, RecentRow, AsTold
<1> QED
  BY <1>1, <1>2, <1>3 DEF AsTold, Timely

LEMMA NextRecent ==
    Sound /\ Recent /\ [Next]_vars =>
        /\ Recent'
        /\ \A h \in Handler : pc'[h] = "apply" /\ pc[h] # "apply" => Timely(h)
<1> DEFINE Goal == /\ Recent'
                   /\ \A h \in Handler : pc'[h] = "apply" /\ pc[h] # "apply" => Timely(h)
<1> SUFFICES ASSUME Sound, Recent, [Next]_vars PROVE Goal
  OBVIOUS
<1>1. ASSUME NEW h \in Handler,
             ReadCache(h) \/ BackOff(h) \/ Hear304(h) \/ Hear200(h) \/ FetchFails(h)
      PROVE  Goal
  BY <1>1, ClientTold, ClientRecent, ClientTimely DEF AsTold, OthersStay
<1>2. ASSUME NEW h \in Handler,
             Ask(h) \/ Serve(h) \/ Apply(h) \/ Ignore(h) \/ \E e \in pending : Arrive(h, e)
      PROVE  Goal
  <2>1. Recent'
    BY <1>2, AskRecent, ServeRecent, OtherRecent, ArriveRecent
  <2>2. OthersStay(h) /\ pc'[h] # "apply"
    BY <1>2, AskDoes, ServeDoes, AcknowledgeSound, ArriveDoes DEF Sound, Typed
  <2> QED
    BY <2>1, <2>2 DEF OthersStay
<1>3. CASE BeginWrite \/ WriteNative \/ WriteWorkos \/ Restart \/ Tick \/ UNCHANGED vars
           \/ \E m \in Rungs : SetMode(m)
  <2>1. Recent'
    BY <1>3, OtherRecent
  <2>2. \A h \in Handler : pc'[h] = "apply" => pc[h] = "apply"
    BY <1>3 DEF BeginWrite, WriteNative, WriteWorkos, Restart, Tick, SetMode, vars, listener
  <2> QED
    BY <2>1, <2>2
<1> QED
  BY <1>1, <1>2, <1>3 DEF Next

(* An event is applied on an answer that was true since it arrived, or within *)
(* a cache's length or a fetch's time before, except while the endpoint was   *)
(* failing: after a rollback the listener stops within the cache's length.    *)
THEOREM NothingIsAppliedOnAnAnswerLongPast == Spec => ApplyIsRecent
<1> DEFINE AllTimely == \A h \in Handler : pc'[h] = "apply" /\ pc[h] # "apply" =>
                          \/ ~run'[h].sure
                          \/ lastOnly >= run[h].arrived
                          \/ now < lastOnly + TTL \/ now <= lastOnly + Timeout
<1>1. Sound /\ Recent /\ [Next]_vars => Recent' /\ AllTimely
  BY NextRecent DEF Timely
<1> HIDE DEF AllTimely
<1>2. Spec => [][AllTimely]_vars
  BY <1>1, InitSound, NextSound, InitRecent, PTL DEF Spec
<1> QED
  BY <1>2 DEF ApplyIsRecent, AllTimely

-----------------------------------------------------------------------------
(* The bounds of every quantity *)

Bounds ==
    /\ now <= MaxTime /\ failedUntil <= now + TTL
    /\ latest <= MaxWrites /\ native <= latest /\ workos <= latest /\ version <= latest
    /\ pending \subseteq 1..latest /\ (legs # <<>> => latest >= 1)
HoldsEvent == \A h \in Handler : Active(h) => run[h].event \in pending
OneEach == \A g, h \in Handler :
    g # h /\ Active(g) /\ Active(h) => run[g].event # run[h].event

Bounded == Bounds /\ HoldsEvent /\ OneEach

LEMMA InitBounded == Init => Bounded
BY ClockAssumption, BoundAssumption
   DEF Init, Bounded, Bounds, HoldsEvent, OneEach, Active

LEMMA StayBounded ==
    ASSUME Bounded, UNCHANGED <<pending>>, Bounds',
           \A g \in Handler : Active(g)' => Active(g) /\ run'[g].event = run[g].event
    PROVE  Bounded'
BY DEF Bounded, HoldsEvent, OneEach

LEMMA ClientBounded ==
    ASSUME Sound, Bounded, NEW h \in Handler,
           \/ ReadCache(h) \/ BackOff(h) \/ Hear304(h) \/ Hear200(h) \/ FetchFails(h)
           \/ Ask(h) \/ Serve(h)
    PROVE  Bounded'
<1>1. /\ UNCHANGED <<now, traffic, version>> /\ failedUntil' \in {failedUntil, now + TTL}
  BY DEF ReadCache, BackOff, Hear304, Hear200, FetchFails, Ask, Serve, ClientIdle, client
<1>2. Active(h) /\ run'[h].event = run[h].event /\ OthersStay(h)
  <2>1. CASE ReadCache(h)
    <3>1. Conclude(h, run[h], cache.mode, TRUE) /\ Active(h)
      BY <2>1 DEF ReadCache, Active
    <3> QED
      BY <3>1, ConcludeDoes DEF Sound, Concluded
  <2>2. CASE BackOff(h)
    BY <2>2, FallbackDoes DEF BackOff, Concluded, Active
  <2>3. CASE Hear304(h) \/ Hear200(h)
    BY <2>3, HearDoes DEF Concluded, Active
  <2>4. CASE FetchFails(h)
    BY <2>4, FallbackDoes DEF FetchFails, Concluded, Active
  <2>5. CASE Ask(h)
    <3>1. [run[h] EXCEPT !.held = cache, !.sent = now].event = run[h].event
      BY DEF Sound, Typed, Runs
    <3> QED
      BY <2>5, <3>1, AskDoes DEF Ask, Sound, Typed, Active
  <2>6. CASE Serve(h)
    BY <2>6, ServeDoes DEF Active
  <2> QED
    BY <2>1, <2>2, <2>3, <2>4, <2>5, <2>6
<1>3. \A g \in Handler : Active(g)' => Active(g) /\ run'[g].event = run[g].event
  BY <1>2 DEF OthersStay, Active
<1>4. Bounds'
  BY <1>1, ClockAssumption DEF Bounded, Bounds, Sound, Typed, traffic
<1> QED
  BY <1>1, <1>3, <1>4, StayBounded DEF traffic

LEMMA ArriveBounded ==
    ASSUME Sound, Bounded, NEW h \in Handler, NEW e \in pending, Arrive(h, e)
    PROVE  Bounded'
<1>1. /\ OthersStay(h) /\ run'[h].event = e /\ UNCHANGED <<now, traffic, version, client>>
      /\ \A g \in Handler : run[g].event # e
  BY ArriveDoes DEF Arrive
<1>2. Bounds'
  BY <1>1 DEF Bounded, Bounds, traffic, client
<1>3. HoldsEvent' /\ OneEach'
  BY <1>1 DEF Bounded, HoldsEvent, OneEach, OthersStay, Active, traffic
<1> QED
  BY <1>2, <1>3 DEF Bounded

LEMMA AcknowledgeBounded ==
    ASSUME Sound, Bounded, NEW h \in Handler, Apply(h) \/ Ignore(h)
    PROVE  Bounded'
<1>1. /\ Acknowledge(h) /\ Active(h) /\ OthersStay(h) /\ pc'[h] = "idle"
      /\ UNCHANGED <<now, legs, latest, workos, client>>
      /\ native' \in {native, run[h].event}
  BY AcknowledgeSound DEF Apply, Ignore, Active
<1>2. run[h].event \in pending
  BY <1>1 DEF Bounded, HoldsEvent
<1>3. /\ pending' = pending \ {run[h].event} /\ version' \in {version, run[h].event}
  BY <1>1 DEF Acknowledge
<1>4. Bounds'
  <2> DEFINE e == run[h].event
  <2>0. latest \in Nat /\ pending \subseteq 1..latest
    BY DEF Sound, Typed, Bounded, Bounds
  <2>1. e <= latest
    <3>1. e \in 1..latest
      BY <1>2, <2>0
    <3> HIDE DEF e
    <3> QED
      BY <2>0, <3>1
  <2>2. pending' \subseteq pending
    BY <1>3
  <2>3. native' <= latest /\ version' <= latest
    BY <1>1, <1>3, <2>1 DEF Bounded, Bounds
  <2> QED
    BY <1>1, <2>0, <2>2, <2>3 DEF Bounded, Bounds, client
<1>5. HoldsEvent' /\ OneEach'
  BY <1>1, <1>3 DEF Bounded, HoldsEvent, OneEach, OthersStay, Active
<1> QED
  BY <1>4, <1>5 DEF Bounded

LEMMA OtherBounded ==
    ASSUME Sound, Bounded,
           \/ BeginWrite \/ WriteNative \/ WriteWorkos \/ Restart \/ Tick \/ UNCHANGED vars
           \/ \E m \in Rungs : SetMode(m)
    PROVE  Bounded'
<1> USE BoundAssumption, ClockAssumption DEF Bounded
<1>0. /\ now \in Nat /\ latest \in Nat /\ native \in Nat /\ workos \in Nat /\ version \in Nat
      /\ failedUntil \in Nat
  BY DEF Sound, Typed
<1>1. CASE BeginWrite
  <2>1. /\ latest' = latest + 1 /\ latest < MaxWrites
        /\ UNCHANGED <<now, native, workos, pending, client, listener>>
    BY <1>1 DEF BeginWrite
  <2> QED
    BY <1>0, <2>1 DEF Bounds, HoldsEvent, OneEach, Active, client, listener
<1>2. CASE WriteNative
  <2>1. /\ native' = latest /\ legs # <<>>
        /\ UNCHANGED <<now, latest, workos, pending, client, listener>>
    BY <1>2 DEF WriteNative
  <2> QED
    BY <1>0, <2>1 DEF Bounds, HoldsEvent, OneEach, Active, client, listener
<1>3. CASE WriteWorkos
  <2>1. /\ workos' = latest /\ legs # <<>> /\ pending' = pending \cup {latest}
        /\ UNCHANGED <<now, latest, native, client, listener>>
    BY <1>3 DEF WriteWorkos
  <2> QED
    BY <1>0, <2>1 DEF Bounds, HoldsEvent, OneEach, Active, client, listener
<1>4. CASE Restart
  <2>1. /\ failedUntil' = 0 /\ (\A h \in Handler : pc'[h] = "idle")
        /\ UNCHANGED <<now, traffic, version>>
    BY <1>4 DEF Restart
  <2> QED
    BY <1>0, <2>1 DEF Bounds, HoldsEvent, OneEach, Active, traffic
<1>5. CASE Tick
  <2>1. now' = now + 1 /\ now < MaxTime /\ UNCHANGED <<traffic, client, listener>>
    BY <1>5 DEF Tick
  <2> QED
    BY <1>0, <2>1 DEF Bounds, HoldsEvent, OneEach, Active, traffic, client, listener
<1>6. CASE UNCHANGED vars \/ \E m \in Rungs : SetMode(m)
  <2>1. UNCHANGED <<now, traffic, client, listener>>
    BY <1>6 DEF vars, SetMode
  <2> QED
    BY <2>1 DEF Bounds, HoldsEvent, OneEach, Active, traffic, client, listener
<1> QED
  BY <1>1, <1>2, <1>3, <1>4, <1>5, <1>6

LEMMA NextBounded == Sound /\ Bounded /\ [Next]_vars => Bounded'
<1> SUFFICES ASSUME Sound, Bounded, [Next]_vars PROVE Bounded'
  OBVIOUS
<1>1. ASSUME NEW h \in Handler, \/ \E e \in pending : Arrive(h, e)
                               \/ ReadCache(h) \/ BackOff(h) \/ Ask(h) \/ Serve(h)
                               \/ Hear304(h) \/ Hear200(h) \/ FetchFails(h) \/ Apply(h) \/ Ignore(h)
      PROVE  Bounded'
  BY <1>1, ArriveBounded, ClientBounded, AcknowledgeBounded
<1> QED
  BY <1>1, OtherBounded DEF Next

(* Type correctness: among it, that no delivery works on an event that was    *)
(* acknowledged, and that the backoff ends within the cache's length.         *)
THEOREM HandoffTypeCorrect == Spec => []TypeOK
<1>1. Sound /\ Bounded => TypeOK
  <2> SUFFICES ASSUME Sound, Bounded PROVE TypeOK
    OBVIOUS
  <2>1. /\ now \in 0..MaxTime /\ mode \in Mode /\ updated \in 0..now
        /\ latest \in 0..MaxWrites /\ {native, workos, version} \subseteq 0..latest
        /\ pending \subseteq 1..latest /\ failedUntil \in 0..(now + TTL)
    BY BoundAssumption, ClockAssumption DEF Sound, Typed, Bounded, Bounds
  <2>2. cache # None => /\ cache.mode \in Mode /\ cache.etag[1] = cache.mode
                        /\ cache.validatedAt \in 0..now
    BY DEF Sound, Typed, Facts, Entries
  <2>3. ASSUME NEW h \in Handler, pc[h] # "idle"
        PROVE  run[h].event \in pending /\ run[h].arrived \in 0..now
    BY <2>3 DEF Sound, Typed, Facts, RunFacts, Bounded, HoldsEvent, Active, Runs
  <2> QED
    BY <2>1, <2>2, <2>3 DEF TypeOK
<1> QED
  BY <1>1, InitSound, NextSound, InitBounded, NextBounded, PTL DEF Spec

-----------------------------------------------------------------------------
(***************************************************************************)
(* Why a cutover loses nothing, whatever the listener's cache held: until  *)
(* it, the proxy writes native and no delivery is told to apply; after it, *)
(* the last write's event stays pending until it is applied, or is dropped *)
(* by a delivery that saw a moment when the proxy still wrote native.      *)
(***************************************************************************)

\* A write sent in passthrough reaches native only: an event of an earlier write
\* that is still pending would be applied on top of it after the cutover.
MirroredRungs == "passthrough" \notin Rungs

NativeDue == legs \in {<<"native">>, <<"native", "workos">>, <<"workos", "native">>}
WorkosDue == legs \in {<<"workos">>, <<"native", "workos">>, <<"workos", "native">>}
Current == native = latest \/ NativeDue

(* Until lastOnly is set the directory has never been on workos-only, and no  *)
(* delivery can have been told that it was.                                   *)
BeforeCutover == lastOnly < 0
NotYet == ~rolled /\ mode # "workos-only" => BeforeCutover
ToldNothing == BeforeCutover => \A h \in Handler :
    /\ pc[h] # "apply"
    /\ Fetching(h) /\ run[h].held # None => ~Applying(run[h].held.mode)
Alone == ~beside => \A g, h \in Handler : Active(g) /\ Active(h) => g = h
LegsKnown == legs = <<>> \/ NativeDue \/ WorkosDue
Mirrored == mode # "passthrough"

Setting == MirroredRungs /\ NotYet /\ ToldNothing /\ Alone /\ LegsKnown /\ Mirrored

(* Of the last write: *)
Excused == rolled \/ unsure # {} \/ beside
ProxyWrites == mode # "workos-only" => Current
InertSaw == \A h \in Handler :
    Active(h) /\ h \in inert /\ run[h].event = latest => Current
StillComing == version < latest => latest \in pending \/ WorkosDue
HandledIsCurrent == version = latest => Current

LastWrite == ~Excused => ProxyWrites /\ InertSaw /\ StillComing /\ HandledIsCurrent

CutoverInv == Setting /\ LastWrite
-----------------------------------------------------------------------------
(* Before the cutover nobody is told to apply *)

LEMMA Untold ==
    ASSUME Sound, Recent, ToldNothing, BeforeCutover
    PROVE  /\ ~Applying(mode) /\ (Cached => ~Applying(cache.mode))
           /\ \A h \in Handler : /\ Active(h) => ~Applying(run[h].row)
                                 /\ Served(h) => ~Applying(Answer(h))
<1>0. /\ lastOnly \in Int /\ now \in Nat
      /\ Cached => cache.validatedAt \in Nat
      /\ \A h \in Handler : run[h].sent \in Nat /\ run[h].arrived \in Nat
  BY DEF Sound, Typed, Runs, Entries, Cached
<1> QED
  BY <1>0 DEF BeforeCutover, Recent, RecentMode, RecentCache, RecentAnswer, RecentRow

LEMMA ClientUntold ==
    ASSUME Sound, Recent, ToldNothing, BeforeCutover, NEW h \in Handler,
           ReadCache(h) \/ BackOff(h) \/ Hear304(h) \/ Hear200(h) \/ FetchFails(h)
    PROVE  pc'[h] # "apply"
<1>1. CASE ReadCache(h)
  <2>1. Conclude(h, run[h], cache.mode, TRUE) /\ cache # None
    BY <1>1 DEF ReadCache
  <2>2. Concluded(h, cache.mode, TRUE)
    BY <2>1, ConcludeDoes DEF Sound
  <2>3. cache.mode # None
    BY <2>1, NoneAssumption DEF Sound, Typed, Entries
  <2> QED
    BY <2>1, <2>2, <2>3, Untold
       DEF Concluded, Instruction, Applying, appliesDsyncEvents, Cached
<1>2. CASE Hear304(h) \/ Hear200(h)
  <2>1. Served(h) /\ Concluded(h, Answer(h), TRUE)
    BY <1>2, HearDoes DEF Served
  <2> QED
    BY <2>1, AnswerTyped, Untold DEF Concluded, Instruction, Applying, appliesDsyncEvents
<1>3. ASSUME NEW entry, Fallback(h, entry), Active(h),
             entry # None => ~Applying(entry.mode)
      PROVE  pc'[h] # "apply"
  <2> DEFINE answer == IF run[h].round = 2 /\ entry # None THEN entry.mode ELSE None
  <2>1. Concluded(h, answer, answer = None /\ Bundled)
    BY <1>3, FallbackDoes
  <2>2. answer = None \/ ~Applying(answer)
    BY <1>3
  <2>3. ~Applying(run[h].row)
    BY <1>3, Untold
  <2> HIDE DEF answer
  <2> QED
    BY <2>1, <2>2, <2>3
       DEF Concluded, Instruction, Applying, appliesDsyncEvents, applyFromModeFallback
<1>4. CASE BackOff(h)
  BY <1>3, <1>4, Untold DEF BackOff, Active, Cached
<1>5. CASE FetchFails(h)
  BY <1>3, <1>5 DEF FetchFails, Active, Fetching, ToldNothing
<1> QED
  BY <1>1, <1>2, <1>4, <1>5

-----------------------------------------------------------------------------
(* The steps of a delivery that settle nothing *)

(* The status client's steps move one delivery, and leave its event.          *)
Moves(h) ==
    /\ Active(h) /\ OthersStay(h) /\ run'[h].event = run[h].event
    /\ UNCHANGED <<mode, traffic, version, history>>

LEMMA ClientMoves ==
    ASSUME Sound, NEW h \in Handler,
           \/ ReadCache(h) \/ BackOff(h) \/ Hear304(h) \/ Hear200(h) \/ FetchFails(h)
           \/ Ask(h) \/ Serve(h)
    PROVE  Moves(h)
<1>1. UNCHANGED <<mode, traffic, version, history>>
  BY DEF ReadCache, BackOff, Hear304, Hear200, FetchFails, Ask, Serve, ClientIdle, row
<1>2. Active(h) /\ run'[h].event = run[h].event /\ OthersStay(h)
  <2>1. CASE ReadCache(h)
    <3>1. Conclude(h, run[h], cache.mode, TRUE) /\ Active(h)
      BY <2>1 DEF ReadCache, Active
    <3> QED
      BY <3>1, ConcludeDoes DEF Sound, Concluded
  <2>2. CASE BackOff(h)
    BY <2>2, FallbackDoes DEF BackOff, Concluded, Active
  <2>3. CASE Hear304(h) \/ Hear200(h)
    BY <2>3, HearDoes DEF Concluded, Active
  <2>4. CASE FetchFails(h)
    BY <2>4, FallbackDoes DEF FetchFails, Concluded, Active
  <2>5. CASE Ask(h)
    <3>1. [run[h] EXCEPT !.held = cache, !.sent = now].event = run[h].event
      BY DEF Sound, Typed, Runs
    <3> QED
      BY <2>5, <3>1, AskDoes DEF Ask, Sound, Typed, Active
  <2>6. CASE Serve(h)
    BY <2>6, ServeDoes DEF Active
  <2> QED
    BY <2>1, <2>2, <2>3, <2>4, <2>5, <2>6
<1> QED
  BY <1>1, <1>2 DEF Moves

(* What keeps the setting as it is: no new delivery, nobody newly told.       *)
LEMMA SettingStays ==
    ASSUME Setting, UNCHANGED <<mode, rolled, beside, legs>>, lastOnly' < 0 => BeforeCutover,
           mode # "workos-only" => lastOnly' = lastOnly,
           \A g \in Handler : Active(g)' => Active(g),
           BeforeCutover => \A g \in Handler :
               /\ pc'[g] # "apply"
               /\ Fetching(g)' /\ run'[g].held # None => ~Applying(run'[g].held.mode)
    PROVE  Setting'
<1>1. NotYet' /\ Mirrored' /\ MirroredRungs'
  BY DEF Setting, NotYet, BeforeCutover, Mirrored, MirroredRungs
<1>2. ToldNothing'
  BY DEF ToldNothing, BeforeCutover, Fetching
<1>3. Alone' /\ LegsKnown'
  BY DEF Setting, Alone, LegsKnown, NativeDue, WorkosDue
<1> QED
  BY <1>1, <1>2, <1>3 DEF Setting

LEMMA ClientSetting ==
    ASSUME Sound, Recent, Setting, NEW h \in Handler,
           \/ ReadCache(h) \/ BackOff(h) \/ Hear304(h) \/ Hear200(h) \/ FetchFails(h)
           \/ Ask(h) \/ Serve(h)
    PROVE  Setting'
<1>1. Moves(h)
  BY ClientMoves
<1>2. \A g \in Handler : Active(g)' => Active(g)
  BY <1>1 DEF Moves, OthersStay, Active
<1>3. ASSUME BeforeCutover
      PROVE  /\ pc'[h] # "apply"
             /\ Fetching(h)' /\ run'[h].held # None => ~Applying(run'[h].held.mode)
  <2>1. CASE ReadCache(h) \/ BackOff(h) \/ Hear304(h) \/ Hear200(h) \/ FetchFails(h)
    <3>1. pc'[h] \in {"apply", "read", "ignore"}
      BY <2>1, ClientTold DEF AsTold
    <3> QED
      BY <1>3, <2>1, <3>1, ClientUntold DEF Setting, Fetching
  <2>2. CASE Ask(h)
    <3>1. [run[h] EXCEPT !.held = cache, !.sent = now].held = cache
      BY DEF Sound, Typed, Runs
    <3>2. run'[h].held = cache /\ pc'[h] = "asking"
      BY <2>2, <3>1, AskDoes DEF Ask, Sound, Typed
    <3> QED
      BY <1>3, <3>2, Untold DEF Setting, Cached
  <2>3. CASE Serve(h)
    <3>1. pc[h] = "asking" /\ pc'[h] = "served" /\ run'[h].held = run[h].held
      BY <2>3, ServeDoes DEF Sound, Typed
    <3> QED
      BY <1>3, <3>1 DEF Setting, ToldNothing, Fetching
  <2> QED
    BY <2>1, <2>2, <2>3
<1>4. BeforeCutover => \A g \in Handler :
          /\ pc'[g] # "apply"
          /\ Fetching(g)' /\ run'[g].held # None => ~Applying(run'[g].held.mode)
  BY <1>1, <1>3 DEF Moves, OthersStay, Setting, ToldNothing, Fetching
<1> QED
  BY <1>1, <1>2, <1>4, SettingStays DEF Moves, traffic, history, BeforeCutover

(* What keeps the last write where it is.                                     *)
LEMMA LastWriteStays ==
    ASSUME LastWrite, UNCHANGED <<mode, traffic, version>>,
           Excused => Excused', inert' \subseteq inert,
           \A g \in Handler : Active(g)' => Active(g) /\ run'[g].event = run[g].event
    PROVE  LastWrite'
<1>1. (Current' <=> Current) /\ (WorkosDue' <=> WorkosDue)
  BY DEF Current, NativeDue, WorkosDue, traffic
<1>2. ProxyWrites => ProxyWrites'
  BY <1>1 DEF ProxyWrites
<1>3. InertSaw => InertSaw'
  BY <1>1 DEF InertSaw, traffic
<1>4. (StillComing => StillComing') /\ (HandledIsCurrent => HandledIsCurrent')
  BY <1>1 DEF StillComing, HandledIsCurrent, traffic
<1> QED
  BY <1>2, <1>3, <1>4 DEF LastWrite

LEMMA ClientLastWrite ==
    ASSUME Sound, LastWrite, NEW h \in Handler,
           \/ ReadCache(h) \/ BackOff(h) \/ Hear304(h) \/ Hear200(h) \/ FetchFails(h)
           \/ Ask(h) \/ Serve(h)
    PROVE  LastWrite'
<1>1. Moves(h)
  BY ClientMoves
<1>2. \A g \in Handler : Active(g)' => Active(g) /\ run'[g].event = run[g].event
  BY <1>1 DEF Moves, OthersStay, Active
<1>3. (Excused => Excused') /\ inert' \subseteq inert
  BY <1>1 DEF Moves, Excused, history
<1> QED
  BY <1>1, <1>2, <1>3, LastWriteStays DEF Moves

-----------------------------------------------------------------------------
(* The proxy's writes *)

LEMMA LegsShorten ==
    /\ Head(<<"native">>) = "native" /\ Tail(<<"native">>) = <<>>
    /\ Head(<<"workos">>) = "workos" /\ Tail(<<"workos">>) = <<>>
    /\ Head(<<"native", "workos">>) = "native" /\ Tail(<<"native", "workos">>) = <<"workos">>
    /\ Head(<<"workos", "native">>) = "workos" /\ Tail(<<"workos", "native">>) = <<"native">>
OBVIOUS

LEMMA BeginDoes ==
    ASSUME Sound, Setting, BeginWrite
    PROVE  /\ latest' = latest + 1 /\ WorkosDue' /\ (mode # "workos-only" => NativeDue')
           /\ UNCHANGED <<now, mode, native, pending, version, pc, run, lastOnly, inert>>
           /\ UNCHANGED <<rolled, unsure, beside>>
<1>1. /\ latest' = latest + 1 /\ legs' = Legs(mode)
      /\ UNCHANGED <<now, mode, native, pending, version, pc, run, lastOnly, inert>>
      /\ UNCHANGED <<rolled, unsure, beside>>
  BY DEF BeginWrite, row, listener
<1>2. mode \in {"dual-write", "workos-primary", "workos-only"}
  BY DEF Sound, Typed, Mode, Setting, Mirrored
<1> QED
  BY <1>1, <1>2 DEF Legs, NativeDue, WorkosDue

LEMMA WriteDoes ==
    ASSUME Sound, Setting, WriteNative \/ WriteWorkos
    PROVE  /\ UNCHANGED <<now, mode, latest, version, pc, run, history>> /\ LegsKnown'
           /\ \/ native' = latest /\ (WorkosDue => WorkosDue') /\ UNCHANGED pending
              \/ /\ (NativeDue => NativeDue') /\ UNCHANGED native
                 /\ latest \in pending' /\ pending \subseteq pending'
<1>1. CASE WriteNative
  <2>1. /\ native' = latest /\ legs # <<>> /\ Head(legs) = "native" /\ legs' = Tail(legs)
        /\ UNCHANGED <<now, mode, latest, pending, version, pc, run, history>>
    BY <1>1 DEF WriteNative, row, listener
  <2>2. (WorkosDue => WorkosDue') /\ LegsKnown'
    BY <2>1, LegsShorten DEF Setting, LegsKnown, NativeDue, WorkosDue
  <2> QED
    BY <2>1, <2>2
<1>2. CASE WriteWorkos
  <2>1. /\ pending' = pending \cup {latest} /\ legs # <<>> /\ Head(legs) = "workos"
        /\ legs' = Tail(legs)
        /\ UNCHANGED <<now, mode, latest, native, version, pc, run, history>>
    BY <1>2 DEF WriteWorkos, row, listener
  <2>2. (NativeDue => NativeDue') /\ LegsKnown'
    BY <2>1, LegsShorten DEF Setting, LegsKnown, NativeDue, WorkosDue
  <2> QED
    BY <2>1, <2>2
<1> QED
  BY <1>1, <1>2

LEMMA WriteKeeps ==
    ASSUME Sound, Bounded, Setting, LastWrite, BeginWrite \/ WriteNative \/ WriteWorkos
    PROVE  Setting' /\ LastWrite'
<1>1. UNCHANGED <<now, mode, version, pc, run, lastOnly, inert, rolled, unsure, beside>>
  BY BeginDoes, WriteDoes DEF history
<1>2. LegsKnown'
  BY BeginDoes, WriteDoes DEF LegsKnown
<1>3. Setting'
  BY <1>1, <1>2 DEF Setting, MirroredRungs, NotYet, ToldNothing, Alone, Mirrored, BeforeCutover,
     Active, Fetching
<1>4. CASE BeginWrite
  <2>1. /\ latest \in Nat /\ version \in Nat /\ version <= latest
        /\ \A h \in Handler : Active(h) => run[h].event \in 1..latest
    BY DEF Sound, Typed, Bounded, Bounds, HoldsEvent
  <2>2. ProxyWrites' /\ StillComing'
    BY <1>4, BeginDoes DEF ProxyWrites, StillComing, Current
  <2>3. InertSaw' /\ HandledIsCurrent'
    BY <1>4, <2>1, BeginDoes DEF InertSaw, HandledIsCurrent, Active
  <2> QED
    BY <1>3, <2>2, <2>3 DEF LastWrite
<1>5. CASE WriteNative \/ WriteWorkos
  <2>1. Current => Current'
    BY <1>5, WriteDoes DEF Current
  <2>2. (ProxyWrites => ProxyWrites') /\ (InertSaw => InertSaw')
        /\ (HandledIsCurrent => HandledIsCurrent')
    BY <1>1, <1>5, <2>1, WriteDoes DEF ProxyWrites, InertSaw, HandledIsCurrent, Active
  <2>3. StillComing => StillComing'
    BY <1>1, <1>5, WriteDoes DEF StillComing
  <2> QED
    BY <1>1, <1>3, <2>2, <2>3 DEF LastWrite, Excused
<1> QED
  BY <1>4, <1>5

-----------------------------------------------------------------------------
(* The operator, the clock and a restart *)

LEMMA SetModeKeeps ==
    ASSUME Sound, Setting, LastWrite, NEW m \in Rungs, SetMode(m)
    PROVE  Setting' /\ LastWrite'
<1>1. /\ mode' = m /\ UNCHANGED <<traffic, version, pc, run, unsure, beside>>
      /\ rolled' = (rolled \/ mode = "workos-only")
      /\ (m = "workos-only" => inert' = inert)
      /\ lastOnly' = IF "workos-only" \in {m, mode} THEN now ELSE lastOnly
  BY DEF SetMode, listener, appliesDsyncEvents
<1>2. now \in Nat /\ m # "passthrough"
  BY DEF Sound, Typed, Setting, MirroredRungs
<1>3. Setting'
  <2>1. NotYet' /\ Mirrored' /\ MirroredRungs'
    BY <1>1, <1>2 DEF Setting, NotYet, BeforeCutover, Mirrored, MirroredRungs
  <2>2. ToldNothing'
    BY <1>1, <1>2 DEF Setting, ToldNothing, BeforeCutover, Fetching
  <2>3. Alone' /\ LegsKnown'
    BY <1>1 DEF Setting, Alone, LegsKnown, NativeDue, WorkosDue, Active, traffic
  <2> QED
    BY <2>1, <2>2, <2>3 DEF Setting
<1>4. (Current' <=> Current) /\ (WorkosDue' <=> WorkosDue)
  BY <1>1 DEF Current, NativeDue, WorkosDue, traffic
<1>5. ASSUME ~Excused' PROVE ProxyWrites' /\ InertSaw' /\ StillComing' /\ HandledIsCurrent'
  <2>1. ~Excused /\ mode # "workos-only"
    BY <1>1, <1>5 DEF Excused
  <2>2. Current
    BY <2>1 DEF LastWrite, ProxyWrites
  <2> QED
    BY <1>1, <1>4, <2>1, <2>2
       DEF LastWrite, ProxyWrites, InertSaw, StillComing, HandledIsCurrent, traffic
<1> QED
  BY <1>3, <1>5 DEF LastWrite

LEMMA IdleKeeps ==
    ASSUME Sound, Setting, LastWrite, Restart \/ Tick \/ UNCHANGED vars
    PROVE  Setting' /\ LastWrite'
<1>1. /\ UNCHANGED <<mode, rolled, unsure, beside, inert, traffic, version>>
      /\ \A g \in Handler : Active(g)' => Active(g) /\ run'[g] = run[g] /\ pc'[g] = pc[g]
  BY DEF Restart, Tick, vars, row, listener, history, Active
<1>2. /\ lastOnly' < 0 => BeforeCutover
      /\ mode # "workos-only" => lastOnly' = lastOnly
  BY DEF Restart, Tick, vars, history, BeforeCutover, Sound, Typed
<1>3. BeforeCutover => \A g \in Handler :
          /\ pc'[g] # "apply"
          /\ Fetching(g)' /\ run'[g].held # None => ~Applying(run'[g].held.mode)
  BY <1>1 DEF Setting, ToldNothing, Fetching, Active
<1>4. Setting'
  BY <1>1, <1>2, <1>3, SettingStays DEF traffic
<1>5. LastWrite'
  BY <1>1, LastWriteStays DEF Excused
<1> QED
  BY <1>4, <1>5

-----------------------------------------------------------------------------
(* A delivery arrives, and is settled *)

LEMMA ArriveKeeps ==
    ASSUME Sound, Setting, LastWrite, NEW h \in Handler, NEW e \in pending, Arrive(h, e)
    PROVE  Setting' /\ LastWrite'
<1>1. /\ pc[h] = "idle" /\ pc'[h] = "read" /\ OthersStay(h) /\ run'[h].event = e
      /\ (mode = "workos-only" => h \notin inert') /\ inert' \subseteq inert \cup {h}
      /\ UNCHANGED <<mode, lastOnly, traffic, version>>
  BY ArriveDoes DEF Sound, Typed, row, appliesDsyncEvents
<1>2. /\ beside' = (beside \/ \E g \in Handler : Active(g)) /\ UNCHANGED <<rolled, unsure>>
  BY DEF Arrive, Active
<1>3. Setting'
  <2>1. NotYet' /\ Mirrored' /\ MirroredRungs' /\ LegsKnown'
    BY <1>1, <1>2 DEF Setting, NotYet, BeforeCutover, Mirrored, MirroredRungs, LegsKnown,
       NativeDue, WorkosDue, traffic
  <2>2. ToldNothing'
    BY <1>1 DEF Setting, ToldNothing, BeforeCutover, Fetching, OthersStay
  <2>3. Alone'
    BY <1>1, <1>2 DEF Alone, Active, OthersStay
  <2> QED
    BY <2>1, <2>2, <2>3 DEF Setting
<1>4. (Current' <=> Current) /\ (WorkosDue' <=> WorkosDue)
  BY <1>1 DEF Current, NativeDue, WorkosDue, traffic
<1>5. ASSUME ~Excused' PROVE ProxyWrites' /\ InertSaw' /\ StillComing' /\ HandledIsCurrent'
  <2>1. ProxyWrites /\ InertSaw /\ StillComing /\ HandledIsCurrent
    BY <1>2, <1>5 DEF Excused, LastWrite
  <2>2. ProxyWrites' /\ StillComing' /\ HandledIsCurrent'
    BY <1>1, <1>4, <2>1 DEF ProxyWrites, StillComing, HandledIsCurrent, traffic
  <2>3. InertSaw'
    BY <1>1, <1>4, <2>1 DEF ProxyWrites, InertSaw, Active, OthersStay, traffic
  <2> QED
    BY <2>2, <2>3
<1> QED
  BY <1>3, <1>5 DEF LastWrite

(* Both settle their event for good: the version reaches it.                  *)
LEMMA SettleDoes ==
    ASSUME Sound, NEW h \in Handler, Apply(h) \/ Ignore(h)
    PROVE  /\ Active(h) /\ pc'[h] = "idle" /\ OthersStay(h)
           /\ pending' = pending \ {run[h].event}
           /\ version' = (IF run[h].event > version THEN run[h].event ELSE version)
           /\ UNCHANGED <<mode, legs, latest, lastOnly, rolled, inert, beside>>
           /\ unsure \subseteq unsure'
BY AcknowledgeSound DEF Apply, Ignore, Acknowledge, Active, row, history

LEMMA SettleSetting ==
    ASSUME Sound, Setting, NEW h \in Handler, Apply(h) \/ Ignore(h)
    PROVE  Setting'
<1>1. \A g \in Handler : Active(g)' => Active(g) /\ g # h
  BY SettleDoes DEF OthersStay, Active
<1>2. BeforeCutover => \A g \in Handler :
          /\ pc'[g] # "apply"
          /\ Fetching(g)' /\ run'[g].held # None => ~Applying(run'[g].held.mode)
  BY SettleDoes DEF OthersStay, Setting, ToldNothing, Fetching
<1> QED
  BY <1>1, <1>2, SettleDoes, SettingStays DEF BeforeCutover

(* Applied, the last write is on native; dropped, it was there already.       *)
LEMMA SettleLastWrite ==
    ASSUME Sound, Seen, Bounded, Setting, LastWrite, NEW h \in Handler, Apply(h) \/ Ignore(h)
    PROVE  LastWrite'
<1> DEFINE e == run[h].event
<1>1. SUFFICES ASSUME ~Excused'
      PROVE  ProxyWrites' /\ InertSaw' /\ StillComing' /\ HandledIsCurrent'
  BY DEF LastWrite
<1>2. ~Excused /\ ProxyWrites /\ InertSaw /\ StillComing /\ HandledIsCurrent
  BY <1>1, SettleDoes DEF Excused, LastWrite
<1>3. \A g \in Handler : ~Active(g)'
  BY <1>2, SettleDoes DEF Excused, Setting, Alone, OthersStay, Active
<1>4. InertSaw'
  BY <1>3 DEF InertSaw
<1>5. /\ latest \in Nat /\ version \in Nat /\ native \in Nat /\ version <= latest
      /\ e \in Nat /\ e <= latest
  <2>1. latest \in Nat /\ pending \subseteq 1..latest /\ e \in pending
    BY SettleDoes DEF Sound, Typed, Bounded, Bounds, HoldsEvent
  <2>2. e \in 1..latest
    BY <2>1
  <2> HIDE DEF e
  <2> QED
    BY <2>1, <2>2 DEF Sound, Typed, Bounded, Bounds
<1>6. (NativeDue' <=> NativeDue) /\ (WorkosDue' <=> WorkosDue)
  BY SettleDoes DEF NativeDue, WorkosDue
<1>7. StillComing'
  <2>1. version' < latest => version < latest /\ e # latest
    BY <1>5, SettleDoes
  <2> QED
    BY <1>2, <1>6, <2>1, SettleDoes DEF StillComing
<1>8. CASE Apply(h)
  <2>1. mode = "workos-only"
    BY <1>2, <1>8 DEF Excused, Setting, NotYet, ToldNothing, Apply
  <2>2. native' = IF e > version THEN e ELSE native
    BY <1>8 DEF Apply
  <2>3. HandledIsCurrent'
    <3> HIDE DEF e
    <3>1. CASE e > version
      BY <1>5, <2>2, <3>1, SettleDoes DEF HandledIsCurrent, Current, e
    <3>2. CASE ~(e > version)
      BY <1>2, <1>6, <2>2, <3>2, SettleDoes DEF HandledIsCurrent, Current, e
    <3> QED
      BY <3>1, <3>2
  <2> QED
    BY <1>4, <1>7, <2>1, <2>3, SettleDoes DEF ProxyWrites
<1>9. CASE Ignore(h)
  <2>1. native' = native /\ pc[h] = "ignore" /\ run[h].sure
    BY <1>1, <1>9 DEF Ignore, Excused
  <2>2. h \in inert
    BY <2>1 DEF Seen, DroppedSeen
  <2>3. e = latest => Current
    BY <1>2, <2>2, SettleDoes DEF InertSaw
  <2>4. Current' <=> Current
    BY <1>6, <2>1, SettleDoes DEF Current
  <2>5. version' = latest => version = latest \/ e = latest
    BY SettleDoes
  <2>6. HandledIsCurrent'
    BY <1>2, <2>3, <2>4, <2>5, SettleDoes DEF HandledIsCurrent
  <2>7. ProxyWrites'
    BY <1>2, <2>4, SettleDoes DEF ProxyWrites
  <2> QED
    BY <1>4, <1>7, <2>6, <2>7
<1> QED
  BY <1>8, <1>9

-----------------------------------------------------------------------------
(* Through a cutover nothing is lost *)

LEMMA InitCutover == Init /\ MirroredRungs => CutoverInv
<1> SUFFICES ASSUME Init, MirroredRungs PROVE CutoverInv
  OBVIOUS
<1>1. mode = "workos-only" \/ (mode = "workos-primary" /\ lastOnly = Never)
  BY DEF Init
<1>2. Never < 0
  BY ClockAssumption DEF Never
<1>3. \A h \in Handler : pc[h] = "idle"
  BY DEF Init
<1>4. Setting
  BY <1>1, <1>2, <1>3 DEF Init, Setting, NotYet, ToldNothing, BeforeCutover, Alone, LegsKnown,
     Mirrored, Active, Fetching
<1>5. LastWrite
  BY <1>3 DEF Init, LastWrite, ProxyWrites, InertSaw, StillComing, HandledIsCurrent, Current, Active
<1> QED
  BY <1>4, <1>5 DEF CutoverInv

LEMMA NextCutover ==
    Sound /\ Seen /\ Recent /\ Bounded /\ CutoverInv /\ [Next]_vars => CutoverInv'
<1> SUFFICES ASSUME Sound, Seen, Recent, Bounded, Setting, LastWrite, [Next]_vars
             PROVE  Setting' /\ LastWrite'
  BY DEF CutoverInv
<1>1. ASSUME NEW h \in Handler, \/ \E e \in pending : Arrive(h, e)
                               \/ ReadCache(h) \/ BackOff(h) \/ Ask(h) \/ Serve(h)
                               \/ Hear304(h) \/ Hear200(h) \/ FetchFails(h) \/ Apply(h) \/ Ignore(h)
      PROVE  Setting' /\ LastWrite'
  BY <1>1, ArriveKeeps, ClientSetting, ClientLastWrite, SettleSetting, SettleLastWrite
<1> QED
  BY <1>1, WriteKeeps, SetModeKeeps, IdleKeeps DEF Next

(* Where no rung is passthrough: once every event is in, native has the last  *)
(* write, though the directory was moved to workos-only at any moment, with   *)
(* any answer in the listener's cache; but for events dropped on an old       *)
(* answer while the endpoint was down, and deliveries that overlap.           *)
THEOREM CutoverKeepsTheLastWrite == MirroredRungs /\ Spec => []CutoverLosesNothing
<1> DEFINE Everything == Sound /\ Seen /\ Recent /\ Bounded /\ CutoverInv
<1>1. MirroredRungs /\ Init => Everything
  BY InitSound, InitSeen, InitRecent, InitBounded, InitCutover
<1>2. Everything /\ [Next]_vars => Everything'
  BY NextSound, NextSeen, NextRecent, NextBounded, NextCutover
<1>3. Everything => CutoverLosesNothing
  <2> SUFFICES ASSUME Everything, Quiet, ~rolled, unsure = {}, ~beside PROVE native = latest
    BY DEF CutoverLosesNothing
  <2>1. legs = <<>> /\ pending = {}
    BY DEF Quiet
  <2>2. ~NativeDue /\ ~WorkosDue
    BY <2>1 DEF NativeDue, WorkosDue
  <2>3. StillComing /\ HandledIsCurrent
    BY DEF CutoverInv, LastWrite, Excused
  <2>4. version = latest
    BY <2>1, <2>2, <2>3 DEF StillComing, Bounded, Bounds, Sound, Typed
  <2> QED
    BY <2>2, <2>3, <2>4 DEF HandledIsCurrent, Current
<1> HIDE DEF Everything
<1> QED
  BY <1>1, <1>2, <1>3, PTL DEF Spec
=============================================================================
