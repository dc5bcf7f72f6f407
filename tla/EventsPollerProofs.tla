------------------------- MODULE EventsPollerProofs --------------------------
(***************************************************************************)
(* The poller, for any feeds, loops, page size and number of attempts: its *)
(* types, that the cursor leaves no gap, that an event is given up only    *)
(* when its own attempts are spent, and that it implements the safety part *)
(* of OrderedFeed.  Each rests on what a poll under way knows: an event in *)
(* the listener's hands lies within the page, every event before it is     *)
(* settled or forgotten, and a retry record never counts more failures     *)
(* than its event had.                                                     *)
(***************************************************************************)
EXTENDS EventsPoller, TLAPS

AtEvent == {"busy", "clear", "note", "abandon"}
Walking == {"walk", "busy", "clear", "note", "stop", "abandon"}

(* A poll at work on an event is within its page. *)
InPage == \A l \in Loop : pc[l] \in AtEvent => pos[l] <= hi[l]
Sound == TypeOK /\ InPage

(* The places of the feeds up to which everything is settled or forgotten. *)
Passed == {p \in Source \X Int :
             \A j \in 1..p[2] : <<p[1], j>> \in settled \/ j < retained[p[1]]}

-----------------------------------------------------------------------------
(* Types *)

LEMMA InitSound == Init => Sound
BY SourceAssumption, NumberAssumption
   DEF Init, Sound, TypeOK, InPage, AtEvent, Event, Retry

LEMMA EndSound ==
    ASSUME Sound, NEW l \in Loop, End(l)
    PROVE  /\ pc' \in [Loop -> {"idle", "fetch", "walk", "busy", "clear", "note", "stop", "abandon"}]
           /\ cur' \in [Loop -> Event \cup {None}]
           /\ budget' \in [Loop -> Retry \cup {None}]
           /\ pos' \in [Loop -> 1..MaxEvents + 2]
           /\ hi' \in [Loop -> 0..MaxEvents]
           /\ last' \in [Loop -> 0..MaxEvents]
           /\ InPage'
BY NumberAssumption DEF Sound, TypeOK, End, InPage, AtEvent

LEMMA CurrentTyped ==
    ASSUME Sound, NEW l \in Loop, pc[l] \in AtEvent
    PROVE  Current(l) \in Event /\ pos[l] \in 1..MaxEvents
<1>1. pos[l] \in 1..MaxEvents + 2 /\ hi[l] \in 0..MaxEvents /\ pos[l] <= hi[l] /\ src[l] \in Source
  BY DEF Sound, TypeOK, InPage
<1>2. pos[l] \in 1..MaxEvents
  BY <1>1, NumberAssumption
<1> QED
  BY <1>1, <1>2 DEF Current, Event

LEMMA CursorAtTyped ==
    ASSUME Sound, NEW l \in Loop
    PROVE  CursorAt(l) \in Event \cup {None}
<1>1. last[l] \in 0..MaxEvents /\ src[l] \in Source /\ cursor \in Event \cup {None}
  BY DEF Sound, TypeOK
<1>2. last[l] # 0 => <<src[l], last[l]>> \in Event
  BY <1>1, NumberAssumption DEF Event
<1> QED
  BY <1>1, <1>2 DEF CursorAt

LEMMA AttemptsTyped ==
    ASSUME Sound, NEW l \in Loop
    PROVE  /\ Attempts(l) \in Nat \ {0}
           /\ IsRetry(l) => budget[l] \in Retry /\ Attempts(l) = budget[l].count + 1
           /\ ~IsRetry(l) => Attempts(l) = 1
<1>1. budget[l] \in Retry \cup {None}
  BY DEF Sound, TypeOK
<1>2. IsRetry(l) => budget[l] \in Retry /\ budget[l].count \in Nat
  BY <1>1, NumberAssumption DEF IsRetry, Retry
<1> QED
  BY <1>2 DEF Attempts

LEMMA FetchPageSound ==
    ASSUME Sound, NEW l \in Loop, FetchPage(l)
    PROVE  Sound'
<1> DEFINE first == FirstAfter(src[l], cur[l])
<1>1. src[l] \in Source /\ cur[l] \in Event \cup {None}
  BY DEF Sound, TypeOK
<1>2. first \in 1..MaxEvents + 1
  BY <1>1, NumberAssumption DEF FirstAfter, Event, Sound, TypeOK
<1>3. emitted[src[l]] \in 0..MaxEvents
  BY <1>1 DEF Sound, TypeOK
<1>4. PageEnd(src[l], first) \in 0..MaxEvents
  BY <1>2, <1>3, NumberAssumption DEF PageEnd
<1>5. (IF cur[l] = None THEN 0 ELSE cur[l][2]) \in 0..MaxEvents
  BY <1>1, NumberAssumption DEF Event
<1>6. /\ pos' = [pos EXCEPT ![l] = first]
      /\ hi' = [hi EXCEPT ![l] = PageEnd(src[l], first)]
      /\ last' = [last EXCEPT ![l] = IF cur[l] = None THEN 0 ELSE cur[l][2]]
      /\ pc' = [pc EXCEPT ![l] = "walk"]
      /\ UNCHANGED <<feeds, log, store, control, cur, budget, crashes>>
  BY DEF FetchPage
<1> HIDE DEF first
<1>7. pos' \in [Loop -> 1..MaxEvents + 2]
  BY <1>2, <1>6, NumberAssumption DEF Sound, TypeOK
<1>8. hi' \in [Loop -> 0..MaxEvents] /\ last' \in [Loop -> 0..MaxEvents]
  BY <1>4, <1>5, <1>6 DEF Sound, TypeOK
<1>9. InPage'
  BY <1>6 DEF Sound, TypeOK, InPage, AtEvent
<1> QED
  BY <1>6, <1>7, <1>8, <1>9 DEF Sound, TypeOK, feeds, log, store, control, settled

LEMMA StepTyped ==
    ASSUME Sound, NEW l \in Loop, pc[l] \in AtEvent, Step(l)
    PROVE  last' \in [Loop -> 0..MaxEvents] /\ pos' \in [Loop -> 1..MaxEvents + 2]
BY CurrentTyped, NumberAssumption DEF Step, Sound, TypeOK

LEMMA FailingTyped ==
    ASSUME Sound, NEW e \in Event
    PROVE  Failing(e) \in [Event -> 0..MaxAttempts]
BY NumberAssumption DEF Failing, Sound, TypeOK

LEMMA ListenerSound ==
    ASSUME Sound, NEW l \in Loop,
           Processed(l) \/ ClearRetry(l) \/ FailedOnce(l) \/ NoteRetry(l)
           \/ FailedLast(l) \/ Abandon(l) \/ Hand(l)
    PROVE  Sound'
<1>1. CASE Processed(l)
  <2>1. pc[l] \in AtEvent /\ Current(l) \in Event
    BY <1>1, CurrentTyped DEF Processed, AtEvent
  <2>2. last' \in [Loop -> 0..MaxEvents] /\ pos' \in [Loop -> 1..MaxEvents + 2]
    BY <1>1, <2>1, StepTyped DEF Processed, Sound, TypeOK
  <2>3. InPage'
    BY <1>1 DEF Processed, Step, Sound, TypeOK, InPage, AtEvent
  <2> QED
    BY <1>1, <2>1, <2>2, <2>3 DEF Processed, Sound, TypeOK, feeds, store, control
<1>2. CASE ClearRetry(l)
  <2>1. pc[l] \in AtEvent
    BY <1>2 DEF ClearRetry, AtEvent
  <2>2. last' \in [Loop -> 0..MaxEvents] /\ pos' \in [Loop -> 1..MaxEvents + 2]
    BY <1>2, <2>1, StepTyped DEF ClearRetry
  <2>3. InPage'
    BY <1>2 DEF ClearRetry, Step, Sound, TypeOK, InPage, AtEvent
  <2> QED
    BY <1>2, <2>2, <2>3 DEF ClearRetry, Sound, TypeOK, feeds, log, control
<1>3. CASE FailedOnce(l)
  <2>1. pc[l] \in AtEvent /\ Current(l) \in Event
    BY <1>3, CurrentTyped DEF FailedOnce, AtEvent
  <2>2. [id |-> Current(l), count |-> Attempts(l)] \in Retry
    BY <1>3, <2>1, AttemptsTyped, NumberAssumption DEF FailedOnce, Retry
  <2>3. budget' \in [Loop -> Retry \cup {None}] /\ fails' \in [Event -> 0..MaxAttempts]
    BY <1>3, <2>1, <2>2, FailingTyped DEF FailedOnce, Sound, TypeOK
  <2>4. InPage'
    BY <1>3 DEF FailedOnce, Sound, TypeOK, InPage, AtEvent
  <2> QED
    BY <1>3, <2>3, <2>4 DEF FailedOnce, Sound, TypeOK, feeds, store, control
<1>4. CASE NoteRetry(l)
  <2>1. InPage'
    BY <1>4 DEF NoteRetry, walk, Sound, TypeOK, InPage, AtEvent
  <2> QED
    BY <1>4, <2>1 DEF NoteRetry, Sound, TypeOK, feeds, log, control, walk
<1>5. CASE FailedLast(l)
  <2>1. pc[l] \in AtEvent /\ Current(l) \in Event
    BY <1>5, CurrentTyped DEF FailedLast, AtEvent
  <2>2. fails' \in [Event -> 0..MaxAttempts]
    BY <1>5, <2>1, FailingTyped DEF FailedLast
  <2>3. InPage'
    BY <1>5 DEF FailedLast, Sound, TypeOK, InPage, AtEvent
  <2> QED
    BY <1>5, <2>2, <2>3 DEF FailedLast, Sound, TypeOK, feeds, control
<1>6. CASE Abandon(l)
  <2>1. pc[l] \in AtEvent /\ Current(l) \in Event
    BY <1>6, CurrentTyped DEF Abandon, AtEvent
  <2>2. last' \in [Loop -> 0..MaxEvents] /\ pos' \in [Loop -> 1..MaxEvents + 2]
    BY <1>6, <2>1, StepTyped DEF Abandon
  <2>3. InPage'
    BY <1>6 DEF Abandon, Step, Sound, TypeOK, InPage, AtEvent
  <2> QED
    BY <1>6, <2>1, <2>2, <2>3 DEF Abandon, Sound, TypeOK, feeds, store, control
<1>7. CASE Hand(l)
  <2>1. InPage'
    BY <1>7 DEF Hand, walk, Sound, TypeOK, InPage, AtEvent
  <2> QED
    BY <1>7, <2>1 DEF Hand, Sound, TypeOK, feeds, log, store, control, walk
<1> QED
  BY <1>1, <1>2, <1>3, <1>4, <1>5, <1>6, <1>7

LEMMA PollSound ==
    ASSUME Sound, NEW l \in Loop,
           Tick(l) \/ FetchRejected(l) \/ FetchFailed(l) \/ PageDone(l) \/ Stop(l)
    PROVE  Sound'
<1>1. CASE Tick(l)
  <2>1. InPage'
    BY <1>1 DEF Tick, Sound, TypeOK, InPage, AtEvent
  <2> QED
    BY <1>1, <2>1 DEF Tick, Sound, TypeOK, feeds, log, store, control
<1>2. CASE FetchRejected(l)
  <2>1. InPage'
    BY <1>2 DEF FetchRejected, Sound, TypeOK, InPage, AtEvent
  <2> QED
    BY <1>2, <2>1 DEF FetchRejected, Sound, TypeOK, feeds, log, control
<1>3. CASE FetchFailed(l)
  BY <1>3, EndSound DEF FetchFailed, Sound, TypeOK, feeds, log, store, control
<1>4. CASE PageDone(l)
  <2>1. cursor' \in Event \cup {None}
    BY <1>4, CursorAtTyped DEF PageDone
  <2>2. CASE End(l)
    BY <1>4, <2>1, <2>2, EndSound DEF PageDone, Sound, TypeOK, feeds, log, control
  <2>3. CASE /\ cur' = [cur EXCEPT ![l] = IF last[l] = 0 THEN None ELSE <<src[l], last[l]>>]
             /\ pc' = [pc EXCEPT ![l] = "fetch"]
             /\ UNCHANGED <<budget, pos, hi, last>>
    <3>1. (IF last[l] = 0 THEN None ELSE <<src[l], last[l]>>) \in Event \cup {None}
      BY NumberAssumption DEF Sound, TypeOK, Event
    <3>2. cur' \in [Loop -> Event \cup {None}]
      BY <2>3, <3>1 DEF Sound, TypeOK
    <3>3. InPage'
      BY <2>3 DEF Sound, TypeOK, InPage, AtEvent
    <3> QED
      BY <1>4, <2>1, <2>3, <3>2, <3>3 DEF PageDone, Sound, TypeOK, feeds, log, control
  <2> QED
    BY <1>4, <2>2, <2>3 DEF PageDone
<1>5. CASE Stop(l)
  BY <1>5, CursorAtTyped, EndSound DEF Stop, Sound, TypeOK, feeds, log, control
<1> QED
  BY <1>1, <1>2, <1>3, <1>4, <1>5

LEMMA DesiredTyped ==
    ASSUME Sound, Desired # None
    PROVE  Desired.src \in Source /\ Desired.key \in 0..MaxKeys
<1>1. config.target \in Source \cup {None} /\ config.key \in 0..MaxKeys
  BY DEF Sound, TypeOK
<1>2. Target \in Source
  BY <1>1, SourceAssumption DEF Target
<1>3. (IF Target = Keyless THEN 0 ELSE config.key) \in 0..MaxKeys
  BY <1>1, NumberAssumption
<1>4. Desired = [src |-> Target, key |-> IF Target = Keyless THEN 0 ELSE config.key]
  BY DEF Desired
<1> QED
  BY <1>2, <1>3, <1>4

LEMMA ReconcileSound == Sound /\ Reconcile => Sound'
<1> SUFFICES ASSUME Sound, Reconcile PROVE Sound'
  OBVIOUS
<1>1. /\ loop' \in Loop \cup {None} /\ on' \subseteq Loop
      /\ src' \in [Loop -> Source] /\ key' \in [Loop -> 0..MaxKeys]
  <2>1. CASE Desired = None
    BY <2>1 DEF Reconcile, Sound, TypeOK
  <2>2. CASE Desired # None
    <3>1. CASE loop # None /\ src[loop] = Desired.src /\ key[loop] = Desired.key
      BY <2>2, <3>1 DEF Reconcile, Sound, TypeOK
    <3>2. CASE ~(loop # None /\ src[loop] = Desired.src /\ key[loop] = Desired.key)
      <4> DEFINE fresh == {l \in Loop : pc[l] = "idle" /\ l # loop}
      <4> DEFINE l == CHOOSE l \in fresh : TRUE
      <4>1. /\ fresh # {} /\ loop' = l /\ on' = {l}
            /\ src' = [src EXCEPT ![l] = Desired.src]
            /\ key' = [key EXCEPT ![l] = Desired.key]
        BY <2>2, <3>2 DEF Reconcile
      <4>2. l \in Loop
        BY <4>1
      <4> HIDE DEF l, fresh
      <4> QED
        BY <2>2, <4>1, <4>2, DesiredTyped DEF Sound, TypeOK
    <3> QED
      BY <3>1, <3>2
  <2> QED
    BY <2>1, <2>2
<1>2. InPage'
  BY DEF Reconcile, walk, Sound, TypeOK, InPage, AtEvent
<1> QED
  BY <1>1, <1>2 DEF Reconcile, Sound, TypeOK, feeds, log, store, walk

LEMMA OperatorSound == Sound /\ Operator => Sound'
<1> SUFFICES ASSUME Sound, Operator PROVE Sound'
  OBVIOUS
<1> DEFINE Config == [transport : {"poll", "webhook"}, target : Source \cup {None}, key : 0..MaxKeys]
<1>1. PICK new \in Config : Panel(new)
  <2>0. config \in Config
    BY DEF Sound, TypeOK
  <2>1. ASSUME NEW t \in {"poll", "webhook"}, SetTransport(t)
        PROVE  \E new \in Config : Panel(new)
    BY <2>0, <2>1 DEF SetTransport
  <2>2. ASSUME NEW s \in Source, SetTarget(s)
        PROVE  \E new \in Config : Panel(new)
    BY <2>0, <2>2 DEF SetTarget
  <2>3. ASSUME NEW k \in 1..MaxKeys, StoreKey(k)
        PROVE  \E new \in Config : Panel(new)
    BY <2>0, <2>3, NumberAssumption DEF StoreKey
  <2>4. CASE ClearKey
    BY <2>0, <2>4, NumberAssumption DEF ClearKey
  <2> QED
    BY <2>1, <2>2, <2>3, <2>4 DEF Operator
<1>2. config' \in Config /\ panel' \in 0..MaxPanel
  BY <1>1, NumberAssumption DEF Panel, Sound, TypeOK
<1>3. InPage'
  BY <1>1 DEF Panel, walk, Sound, TypeOK, InPage, AtEvent
<1> QED
  BY <1>1, <1>2, <1>3 DEF Panel, Sound, TypeOK, feeds, log, store, walk

LEMMA SourceSound ==
    ASSUME Sound, NEW s \in Source, Emit(s) \/ Forget(s)
    PROVE  Sound'
<1>1. CASE Emit(s)
  BY <1>1, NumberAssumption DEF Emit, Sound, TypeOK, InPage, log, store, control, walk
<1>2. CASE Forget(s)
  BY <1>2, NumberAssumption DEF Forget, Sound, TypeOK, InPage, log, store, control, walk
<1> QED
  BY <1>1, <1>2

LEMMA CrashSound == Sound /\ Crash => Sound'
BY NumberAssumption DEF Crash, Sound, TypeOK, InPage, AtEvent, feeds, log, store

LEMMA StutterSound == Sound /\ UNCHANGED vars => Sound'
BY DEF Sound, TypeOK, InPage, vars, feeds, log, store, control, walk

LEMMA NextSound == Sound /\ [Next]_vars => Sound'
<1> SUFFICES ASSUME Sound, [Next]_vars PROVE Sound'
  OBVIOUS
<1>1. CASE \E s \in Source : Emit(s) \/ Forget(s)
  BY <1>1, SourceSound
<1>2. ASSUME NEW l \in Loop,
             Tick(l) \/ Answered(l) \/ FetchFailed(l) \/ PollStep(l) \/ Handled(l)
      PROVE  Sound'
  BY <1>2, FetchPageSound, ListenerSound, PollSound DEF Answered, PollStep, Handled
<1>3. CASE Reconcile \/ Operator \/ Crash
  BY <1>3, ReconcileSound, OperatorSound, CrashSound
<1> QED
  BY <1>1, <1>2, <1>3, StutterSound DEF Next

LEMMA AlwaysSound == Init /\ [][Next]_vars => []Sound
BY InitSound, NextSound, PTL

(* The type invariant of the poller. *)
THEOREM PollerTypeCorrect == Spec => []TypeOK
<1>1. Sound => TypeOK
  BY DEF Sound
<1> QED
  BY AlwaysSound, <1>1, PTL DEF Spec

-----------------------------------------------------------------------------
(* The order of the feed *)

(* What a poll under way has behind it: all before the event it is at, up to *)
(* the last one of its page, and up to the cursor it fetches after.          *)
TrailOf(l) ==
    /\ cur[l] # None => cur[l] \in Passed
    /\ pc[l] \in Walking => /\ <<src[l], pos[l] - 1>> \in Passed
                            /\ <<src[l], last[l]>> \in Passed
                            /\ hi[l] <= emitted[src[l]]
    /\ pc[l] = "clear" => Current(l) \in settled
Trail == \A l \in Loop : TrailOf(l)
CursorPassed == cursor # None => cursor \in Passed

Ordered == Trail /\ CursorPassed

(* Nothing settled is unsettled, nothing forgotten comes back. *)
Grows ==
    /\ settled \subseteq settled'
    /\ \A s \in Source : retained[s] <= retained'[s] /\ emitted[s] <= emitted'[s]

LEMMA FeedGrows == Sound /\ [Next]_vars => Grows
<1> SUFFICES ASSUME Sound, [Next]_vars PROVE Grows
  OBVIOUS
<1>1. ASSUME NEW s \in Source, Emit(s) \/ Forget(s) PROVE Grows
  BY <1>1 DEF Emit, Forget, Grows, Sound, TypeOK, settled, log
<1>2. ASSUME NEW l \in Loop,
             Tick(l) \/ Answered(l) \/ FetchFailed(l) \/ PollStep(l) \/ Handled(l)
      PROVE  Grows
  <2>1. UNCHANGED feeds
    BY <1>2 DEF Tick, Answered, FetchPage, FetchRejected, FetchFailed, PollStep, Hand, ClearRetry,
       NoteRetry, Abandon, PageDone, Stop, Handled, Processed, FailedOnce, FailedLast
  <2>2. processed \subseteq processed' /\ abandoned \subseteq abandoned'
    BY <1>2 DEF Tick, Answered, FetchPage, FetchRejected, FetchFailed, PollStep, Hand, ClearRetry,
       NoteRetry, Abandon, PageDone, Stop, Handled, Processed, FailedOnce, FailedLast, log
  <2> QED
    BY <2>1, <2>2 DEF Grows, Sound, TypeOK, settled, feeds
<1>3. CASE Reconcile \/ Operator \/ Crash \/ UNCHANGED vars
  <2>1. UNCHANGED <<feeds, log>>
    BY <1>3 DEF Reconcile, Operator, SetTransport, SetTarget, StoreKey, ClearKey, Panel, Crash, vars
  <2> QED
    BY <2>1 DEF Grows, Sound, TypeOK, settled, feeds, log
<1> QED
  BY <1>1, <1>2, <1>3 DEF Next

LEMMA PassedStays ==
    ASSUME Sound, Sound', Grows
    PROVE  Passed \subseteq Passed'
<1> SUFFICES ASSUME NEW p \in Passed, NEW j \in 1..p[2]
             PROVE  <<p[1], j>> \in settled' \/ j < retained'[p[1]]
  BY DEF Passed
<1>1. p[1] \in Source /\ p[2] \in Int /\ (<<p[1], j>> \in settled \/ j < retained[p[1]])
  BY DEF Passed
<1>2. retained[p[1]] \in Int /\ retained'[p[1]] \in Int /\ retained[p[1]] <= retained'[p[1]]
  BY <1>1, NumberAssumption DEF Sound, TypeOK, Grows
<1> QED
  BY <1>1, <1>2 DEF Grows

LEMMA PassedNext ==
    ASSUME NEW s \in Source, NEW i \in Nat \ {0}, <<s, i - 1>> \in Passed',
           <<s, i>> \in settled'
    PROVE  <<s, i>> \in Passed'
<1> SUFFICES ASSUME NEW j \in 1..i PROVE <<s, j>> \in settled' \/ j < retained'[s]
  BY DEF Passed
<1>1. j = i \/ j \in 1..i - 1
  OBVIOUS
<1> QED
  BY <1>1 DEF Passed

LEMMA InitOrdered == Init => Ordered
BY DEF Init, Ordered, Trail, TrailOf, CursorPassed, Walking

(* Polls a step leaves alone keep what is behind them. *)
Same(l) == /\ pc'[l] = pc[l] /\ cur'[l] = cur[l] /\ pos'[l] = pos[l] /\ last'[l] = last[l]
           /\ hi'[l] = hi[l] /\ (pc[l] \in Walking => src'[l] = src[l])

LEMMA SameKeepsTrail ==
    ASSUME Sound, Sound', Grows, NEW l \in Loop, TrailOf(l), Same(l)
    PROVE  TrailOf(l)'
<1>1. Passed \subseteq Passed'
  BY PassedStays
<1>2. /\ src[l] \in Source
      /\ hi[l] \in Int /\ emitted[src[l]] \in Int /\ emitted'[src[l]] \in Int
  BY NumberAssumption DEF Sound, TypeOK
<1>3. cur'[l] # None => cur'[l] \in Passed'
  BY <1>1 DEF TrailOf, Same
<1>4. pc'[l] \in Walking => /\ <<src'[l], pos'[l] - 1>> \in Passed'
                            /\ <<src'[l], last'[l]>> \in Passed'
                            /\ hi'[l] <= emitted'[src'[l]]
  BY <1>1, <1>2 DEF TrailOf, Same, Grows
<1>5. pc'[l] = "clear" => <<src'[l], pos'[l]>> \in settled'
  BY DEF TrailOf, Same, Grows, Current, Walking
<1> QED
  BY <1>3, <1>4, <1>5 DEF TrailOf, Current

OthersSame(l) == \A m \in Loop \ {l} : Same(m)

LEMMA OneMoves ==
    ASSUME Sound, Sound', Grows, Ordered, NEW l \in Loop, OthersSame(l), TrailOf(l)',
           cursor' = cursor \/ cursor' = None \/ cursor' \in Passed
    PROVE  Ordered'
<1>1. \A m \in Loop \ {l} : TrailOf(m)'
  BY SameKeepsTrail DEF Ordered, Trail, OthersSame
<1>2. CursorPassed'
  BY PassedStays DEF Ordered, CursorPassed
<1> QED
  BY <1>1, <1>2 DEF Ordered, Trail

LEMMA StepAhead ==
    ASSUME Sound, Sound', Grows, NEW l \in Loop, TrailOf(l), pc[l] \in AtEvent, Step(l),
           Current(l) \in settled', pc'[l] = "walk", src' = src, hi' = hi, emitted' = emitted,
           cur'[l] # None => cur'[l] \in Passed'
    PROVE  TrailOf(l)'
<1>1. src[l] \in Source /\ pos[l] \in Nat \ {0} /\ pc[l] \in Walking
  BY CurrentTyped DEF Sound, TypeOK, AtEvent, Walking
<1>2. <<src[l], pos[l] - 1>> \in Passed'
  BY <1>1, PassedStays DEF TrailOf
<1>3. <<src[l], pos[l]>> \in Passed'
  BY <1>1, <1>2, PassedNext DEF Current
<1>4. last'[l] = pos[l] /\ pos'[l] = pos[l] + 1 /\ pos'[l] - 1 = pos[l]
  BY <1>1 DEF Step, Sound, TypeOK
<1> QED
  BY <1>1, <1>3, <1>4 DEF TrailOf

LEMMA ListenerOrdered ==
    ASSUME Sound, Sound', Grows, Ordered, NEW l \in Loop,
           Processed(l) \/ ClearRetry(l) \/ FailedOnce(l) \/ NoteRetry(l)
           \/ FailedLast(l) \/ Abandon(l) \/ Hand(l)
    PROVE  Ordered'
<1>0. TrailOf(l) /\ Passed \subseteq Passed'
  BY PassedStays DEF Ordered, Trail
<1>1. cursor' = cursor /\ cur' = cur /\ src' = src /\ hi' = hi /\ emitted' = emitted
  BY DEF Processed, ClearRetry, FailedOnce, NoteRetry, FailedLast, Abandon, Hand, store, control,
     walk, feeds
<1>2. OthersSame(l)
  BY <1>1 DEF Processed, ClearRetry, FailedOnce, NoteRetry, FailedLast, Abandon, Hand, Step,
     OthersSame, Same, Sound, TypeOK, walk
<1>3. cur'[l] # None => cur'[l] \in Passed'
  BY <1>0, <1>1 DEF TrailOf
<1>4. TrailOf(l)'
  <2>1. CASE Processed(l) /\ ~IsRetry(l)
    <3>1. Current(l) \in settled' /\ pc[l] \in AtEvent /\ pc'[l] = "walk" /\ Step(l)
      BY <2>1 DEF Processed, settled, AtEvent, Sound, TypeOK
    <3> QED
      BY <1>0, <1>1, <1>3, <3>1, StepAhead
  <2>2. CASE Processed(l) /\ IsRetry(l)
    <3>1. /\ Current(l) \in settled' /\ pc[l] \in Walking /\ pc'[l] = "clear"
          /\ pos' = pos /\ last' = last
      BY <2>2 DEF Processed, settled, Walking, Sound, TypeOK
    <3> QED
      BY <1>0, <1>1, <1>3, <3>1 DEF TrailOf, Current
  <2>3. CASE ClearRetry(l)
    <3>1. Current(l) \in settled' /\ pc[l] \in AtEvent /\ pc'[l] = "walk" /\ Step(l)
      BY <2>3, <1>0 DEF ClearRetry, TrailOf, Grows, AtEvent, Sound, TypeOK
    <3> QED
      BY <1>0, <1>1, <1>3, <3>1, StepAhead
  <2>4. CASE FailedOnce(l) \/ NoteRetry(l) \/ FailedLast(l) \/ Hand(l)
    <3>1. pc[l] \in Walking /\ pc'[l] # "clear" /\ pos' = pos /\ last' = last
      BY <2>4 DEF FailedOnce, NoteRetry, FailedLast, Hand, Walking, walk, Sound, TypeOK
    <3> QED
      BY <1>0, <1>1, <1>3, <3>1 DEF TrailOf
  <2>5. CASE Abandon(l)
    <3>1. Current(l) \in settled' /\ pc[l] \in AtEvent /\ pc'[l] = "walk" /\ Step(l)
      BY <2>5 DEF Abandon, settled, AtEvent, Sound, TypeOK
    <3> QED
      BY <1>0, <1>1, <1>3, <3>1, StepAhead
  <2> QED
    BY <2>1, <2>2, <2>3, <2>4, <2>5
<1> QED
  BY <1>1, <1>2, <1>4, OneMoves

LEMMA FetchPageOrdered ==
    ASSUME Sound, Sound', Grows, Ordered, NEW l \in Loop, FetchPage(l)
    PROVE  Ordered'
<1> DEFINE first == FirstAfter(src[l], cur[l])
<1> DEFINE behind == IF cur[l] = None THEN 0 ELSE cur[l][2]
<1>1. /\ src[l] \in Source /\ cur[l] \in Event \cup {None}
      /\ retained[src[l]] \in Nat \ {0} /\ emitted[src[l]] \in Nat
  BY NumberAssumption DEF Sound, TypeOK
<1>2. first \in Nat \ {0} /\ <<src[l], first - 1>> \in Passed /\ <<src[l], behind>> \in Passed
  <2>1. CASE cur[l] = None
    BY <1>1, <2>1 DEF FirstAfter, Passed
  <2>2. CASE cur[l] # None
    <3>1. cur[l][2] \in Nat \ {0} /\ cur[l] = <<cur[l][1], cur[l][2]>>
      BY <1>1, <2>2, NumberAssumption DEF Event
    <3>2. cur[l] \in Passed /\ cur[l][1] = src[l]
      BY <2>2 DEF FetchPage, Knows, Ordered, Trail, TrailOf
    <3>3. first = cur[l][2] + 1 /\ first - 1 = cur[l][2] /\ behind = cur[l][2]
      BY <2>2, <3>1 DEF FirstAfter
    <3> QED
      BY <3>1, <3>2, <3>3
  <2> QED
    BY <2>1, <2>2
<1>3. PageEnd(src[l], first) <= emitted[src[l]]
  BY <1>1, <1>2, NumberAssumption DEF PageEnd
<1>4. /\ pos'[l] = first /\ hi'[l] = PageEnd(src[l], first) /\ last'[l] = behind
      /\ pc'[l] = "walk" /\ cur' = cur /\ src' = src /\ cursor' = cursor /\ emitted' = emitted
  BY DEF FetchPage, Sound, TypeOK, feeds, store, control
<1>5. OthersSame(l)
  BY DEF FetchPage, OthersSame, Same, Sound, TypeOK, control
<1> HIDE DEF first, behind
<1>6. TrailOf(l)'
  BY <1>2, <1>3, <1>4, PassedStays DEF Ordered, Trail, TrailOf
<1> QED
  BY <1>4, <1>5, <1>6, OneMoves

LEMMA CursorAtPassed ==
    ASSUME Sound, Ordered, NEW l \in Loop, pc[l] \in Walking
    PROVE  CursorAt(l) = cursor \/ CursorAt(l) \in Passed
BY DEF CursorAt, Ordered, Trail, TrailOf

LEMMA EndMoves ==
    ASSUME Sound, NEW l \in Loop, End(l), src' = src
    PROVE  TrailOf(l)' /\ OthersSame(l)
BY DEF End, TrailOf, OthersSame, Same, Walking, Sound, TypeOK

LEMMA PollOrdered ==
    ASSUME Sound, Sound', Grows, Ordered, NEW l \in Loop,
           Tick(l) \/ FetchRejected(l) \/ FetchFailed(l) \/ PageDone(l) \/ Stop(l)
    PROVE  Ordered'
<1>0. Passed \subseteq Passed' /\ TrailOf(l) /\ (cursor # None => cursor \in Passed)
  BY PassedStays DEF Ordered, Trail, CursorPassed
<1>1. CASE Tick(l)
  <2>1. TrailOf(l)'
    BY <1>0, <1>1 DEF Tick, TrailOf, Walking, Sound, TypeOK
  <2>2. OthersSame(l) /\ cursor' = cursor
    BY <1>1 DEF Tick, OthersSame, Same, Sound, TypeOK, control, store
  <2> QED
    BY <2>1, <2>2, OneMoves
<1>2. CASE FetchRejected(l)
  <2>1. TrailOf(l)'
    BY <1>2 DEF FetchRejected, TrailOf, Walking, Sound, TypeOK
  <2>2. OthersSame(l) /\ cursor' = None
    BY <1>2 DEF FetchRejected, OthersSame, Same, Sound, TypeOK, control
  <2> QED
    BY <2>1, <2>2, OneMoves
<1>3. CASE FetchFailed(l)
  <2>1. End(l) /\ src' = src /\ cursor' = cursor
    BY <1>3 DEF FetchFailed, control, store
  <2> QED
    BY <2>1, EndMoves, OneMoves
<1>4. CASE PageDone(l)
  <2>1. cursor' = cursor \/ cursor' \in Passed
    BY <1>4, CursorAtPassed DEF PageDone, Walking
  <2>2. CASE End(l)
    BY <1>4, <2>1, <2>2, EndMoves, OneMoves DEF PageDone, control
  <2>3. CASE /\ cur' = [cur EXCEPT ![l] = IF last[l] = 0 THEN None ELSE <<src[l], last[l]>>]
             /\ pc' = [pc EXCEPT ![l] = "fetch"]
             /\ UNCHANGED <<budget, pos, hi, last>>
    <3>1. pc[l] \in Walking /\ src' = src
      BY <1>4 DEF PageDone, Walking, control
    <3>2. TrailOf(l)'
      BY <1>0, <2>3, <3>1 DEF TrailOf, Walking, Sound, TypeOK
    <3>3. OthersSame(l)
      BY <2>3, <3>1 DEF OthersSame, Same, Sound, TypeOK
    <3> QED
      BY <2>1, <3>2, <3>3, OneMoves
  <2> QED
    BY <1>4, <2>2, <2>3 DEF PageDone
<1>5. CASE Stop(l)
  <2>1. cursor' = cursor \/ cursor' \in Passed
    BY <1>5, CursorAtPassed DEF Stop, Walking
  <2> QED
    BY <1>5, <2>1, EndMoves, OneMoves DEF Stop, control
<1> QED
  BY <1>1, <1>2, <1>3, <1>4, <1>5

LEMMA AllSame ==
    ASSUME Sound, Sound', Grows, Ordered, \A l \in Loop : Same(l), cursor' = cursor
    PROVE  Ordered'
BY SameKeepsTrail, PassedStays DEF Ordered, Trail, CursorPassed

LEMMA NextOrdered == Sound /\ Sound' /\ Ordered /\ [Next]_vars => Ordered'
<1> SUFFICES ASSUME Sound, Sound', Ordered, [Next]_vars PROVE Ordered'
  OBVIOUS
<1>0. Grows
  BY FeedGrows
<1>1. ASSUME NEW s \in Source, Emit(s) \/ Forget(s) PROVE Ordered'
  <2>1. (\A l \in Loop : Same(l)) /\ cursor' = cursor
    BY <1>1 DEF Emit, Forget, Same, walk, store, control
  <2> QED
    BY <1>0, <2>1, AllSame
<1>2. ASSUME NEW l \in Loop,
             Tick(l) \/ Answered(l) \/ FetchFailed(l) \/ PollStep(l) \/ Handled(l)
      PROVE  Ordered'
  BY <1>0, <1>2, FetchPageOrdered, ListenerOrdered, PollOrdered DEF Answered, PollStep, Handled
<1>3. CASE Reconcile
  <2>1. cursor' = cursor /\ UNCHANGED <<pc, walk>>
    BY <1>3 DEF Reconcile, store
  <2>2. \A l \in Loop : pc[l] \in Walking => src'[l] = src[l]
    BY <1>3 DEF Reconcile, Walking, Sound, TypeOK
  <2>3. \A l \in Loop : Same(l)
    BY <2>1, <2>2 DEF Same, walk
  <2> QED
    BY <1>0, <2>1, <2>3, AllSame
<1>4. CASE Operator \/ UNCHANGED vars
  <2>1. (\A l \in Loop : Same(l)) /\ cursor' = cursor
    BY <1>4 DEF Operator, SetTransport, SetTarget, StoreKey, ClearKey, Panel, vars, Same, walk,
       store, control
  <2> QED
    BY <1>0, <2>1, AllSame
<1>5. CASE Crash
  <2>1. Trail' /\ cursor' = cursor
    BY <1>5 DEF Crash, Trail, TrailOf, Walking, store
  <2> QED
    BY <1>0, <2>1, PassedStays DEF Ordered, CursorPassed
<1> QED
  BY <1>1, <1>2, <1>3, <1>4, <1>5 DEF Next

LEMMA AlwaysOrdered == Init /\ [][Next]_vars => [](Sound /\ Ordered)
<1>1. Init => Sound /\ Ordered
  BY InitSound, InitOrdered
<1>2. (Sound /\ Ordered) /\ [Next]_vars => (Sound /\ Ordered)'
  BY NextSound, NextOrdered
<1> QED
  BY <1>1, <1>2, PTL

(* The cursor never stands past an event that is neither settled nor forgotten. *)
THEOREM CursorLeavesNoGap == Spec => []NoGap
<1>1. Sound /\ Ordered => NoGap
  <2> SUFFICES ASSUME Sound, Ordered, cursor # None, NEW j \in 1..cursor[2]
               PROVE  <<cursor[1], j>> \in settled \/ j < retained[cursor[1]]
    BY DEF NoGap
  <2> QED
    BY DEF Ordered, CursorPassed, Passed
<1> QED
  BY AlwaysOrdered, <1>1, PTL DEF Spec

-----------------------------------------------------------------------------
(* The poller implements OrderedFeed *)

LEMMA FollowedTyped == Sound => Followed \in Source \cup {None}
BY DesiredTyped DEF Followed

LEMMA InitRefines == Init => Feed!Init
BY InitSound, FollowedTyped DEF Init, Feed!Init, settled

LEMMA SettleRefines ==
    ASSUME Sound, Ordered, NEW l \in Loop, pc[l] \in {"busy", "abandon"},
           settled' = settled \cup {Current(l)}, UNCHANGED <<feeds, config, due>>
    PROVE  [Feed!Next]_(Feed!fvars)
<1>0. pc[l] \in AtEvent /\ pc[l] \in Walking
  BY DEF AtEvent, Walking
<1>1. /\ src[l] \in Source /\ pos[l] \in 1..MaxEvents /\ pos[l] <= hi[l]
      /\ hi[l] <= emitted[src[l]] /\ emitted[src[l]] \in Nat /\ hi[l] \in Int
      /\ <<src[l], pos[l] - 1>> \in Passed
  <2>1. pos[l] \in 1..MaxEvents
    BY <1>0, CurrentTyped
  <2>2. <<src[l], pos[l] - 1>> \in Passed /\ hi[l] <= emitted[src[l]]
    BY <1>0 DEF Ordered, Trail, TrailOf
  <2>3. /\ src[l] \in Source /\ pos[l] <= hi[l] /\ emitted[src[l]] \in Nat /\ hi[l] \in Int
    BY <1>0, NumberAssumption DEF Sound, TypeOK, InPage
  <2> QED
    BY <2>1, <2>2, <2>3
<1>2. pos[l] \in 1..emitted[src[l]]
  BY <1>1
<1>3. Feed!Behind(src[l], pos[l] - 1)
  BY <1>1 DEF Passed, Feed!Behind
<1>4. UNCHANGED <<emitted, retained, Followed>>
  BY DEF feeds, Followed, Desired, Target, HasKey
<1>5. CASE Current(l) \in settled
  BY <1>4, <1>5 DEF Feed!fvars
<1>6. CASE Current(l) \notin settled
  <2>1. Feed!Settle(src[l], pos[l])
    BY <1>2, <1>3, <1>4, <1>6 DEF Feed!Settle, Current
  <2> QED
    BY <1>1, <2>1 DEF Feed!Next
<1> QED
  BY <1>5, <1>6

LEMMA NextRefines ==
    Sound /\ Sound' /\ Ordered /\ [Next]_vars => [Feed!Next]_(Feed!fvars)
<1> SUFFICES ASSUME Sound, Sound', Ordered, [Next]_vars PROVE [Feed!Next]_(Feed!fvars)
  OBVIOUS
<1>1. ASSUME NEW s \in Source, Emit(s) PROVE Feed!Emit(s)
  BY <1>1 DEF Emit, Feed!Emit, Followed, Desired, Target, HasKey, control, log, settled
<1>2. ASSUME NEW s \in Source, Forget(s) PROVE Feed!Forget(s)
  BY <1>2 DEF Forget, Feed!Forget, Followed, Desired, Target, HasKey, control, log, settled
<1>3. ASSUME NEW l \in Loop,
             Tick(l) \/ Answered(l) \/ FetchFailed(l) \/ PollStep(l) \/ Handled(l)
      PROVE  [Feed!Next]_(Feed!fvars)
  <2>1. UNCHANGED <<feeds, config, due>>
    BY <1>3 DEF Tick, Answered, FetchPage, FetchRejected, FetchFailed, PollStep, Hand, ClearRetry,
       NoteRetry, Abandon, PageDone, Stop, Handled, Processed, FailedOnce, FailedLast, control
  <2>2. CASE Processed(l) \/ Abandon(l)
    BY <2>1, <2>2, SettleRefines DEF Processed, Abandon, settled
  <2>3. CASE ~(Processed(l) \/ Abandon(l))
    <3>1. UNCHANGED <<processed, abandoned>>
      BY <1>3, <2>3 DEF Tick, Answered, FetchPage, FetchRejected, FetchFailed, PollStep, Hand,
         ClearRetry, NoteRetry, PageDone, Stop, Handled, FailedOnce, FailedLast, log
    <3> QED
      BY <2>1, <3>1 DEF Feed!fvars, Followed, Desired, Target, HasKey, feeds, settled
  <2> QED
    BY <2>2, <2>3
<1>4. CASE Reconcile \/ Operator \/ Crash \/ UNCHANGED vars
  <2>1. UNCHANGED <<emitted, retained, settled>>
    BY <1>4 DEF Reconcile, Operator, SetTransport, SetTarget, StoreKey, ClearKey, Panel, Crash, vars,
       feeds, log, settled
  <2>2. Followed' \in Source \cup {None}
    <3>1. ASSUME Desired' # None PROVE Desired'.src \in Source
      <4>1. config'.target \in Source \cup {None}
        BY DEF Sound, TypeOK
      <4>2. Target' \in Source
        BY <4>1, SourceAssumption DEF Target
      <4> QED
        BY <3>1, <4>2 DEF Desired
    <3> QED
      BY <3>1 DEF Followed
  <2>3. Feed!Watch(Followed')
    BY <2>1 DEF Feed!Watch
  <2> QED
    BY <2>1, <2>2 DEF Feed!Next, Feed!Watch
<1> QED
  BY <1>1, <1>2, <1>3, <1>4 DEF Next, Feed!Next

(* The poller implements the safety part of OrderedFeed: the events of the    *)
(* feed are settled in order and none the API still serves is passed over.    *)
THEOREM PollerImplementsFeed == Spec => FeedOrder
<1>1. Init /\ [][Next]_vars => Feed!Init /\ [][Feed!Next]_(Feed!fvars)
  BY AlwaysSound, AlwaysOrdered, InitRefines, NextRefines, PTL
<1> QED
  BY <1>1, PTL DEF Spec, FeedOrder, Feed!Safety

-----------------------------------------------------------------------------
(* The retry budget *)

(* A retry record counts no more failures than its event had, and the event   *)
(* about to be given up had them all.                                         *)
Counted(r) == r # None => r.count <= fails[r.id]
Spent ==
    /\ Counted(retry)
    /\ \A l \in Loop : Counted(budget[l])
    /\ \A l \in Loop : pc[l] = "abandon" => fails[Current(l)] = MaxAttempts
    /\ GivenUpOnlyWhenSpent

LEMMA InitSpent == Init => Spent
BY DEF Init, Spent, Counted, GivenUpOnlyWhenSpent

(* Failures only add up. *)
LEMMA FailsGrow ==
    ASSUME Sound, NEW e \in Event
    PROVE  /\ \A f \in Event : Failing(e)[f] >= fails[f]
           /\ Failing(e)[e] = IF fails[e] < MaxAttempts THEN fails[e] + 1 ELSE fails[e]
           /\ \A f \in Event : fails[f] = MaxAttempts => Failing(e)[f] = MaxAttempts
BY NumberAssumption DEF Failing, Sound, TypeOK

LEMMA FailedOnceSpent ==
    ASSUME Sound, Sound', Spent, NEW l \in Loop, FailedOnce(l)
    PROVE  Spent'
<1> DEFINE e == Current(l)
<1> DEFINE r == [id |-> e, count |-> Attempts(l)]
<1>1. /\ e \in Event /\ fails[e] \in 0..MaxAttempts /\ budget' = [budget EXCEPT ![l] = r]
      /\ fails' = Failing(e) /\ Attempts(l) < MaxAttempts /\ Attempts(l) \in Nat
  BY CurrentTyped, AttemptsTyped DEF FailedOnce, AtEvent, Sound, TypeOK
<1>2. Attempts(l) <= fails'[e]
  <2>1. CASE IsRetry(l)
    <3>1. budget[l].count <= fails[e] /\ budget[l].count \in Nat /\ Attempts(l) = budget[l].count + 1
      BY <2>1, AttemptsTyped, NumberAssumption DEF IsRetry, Spent, Counted, Retry
    <3> QED
      BY <1>1, <3>1, FailsGrow, NumberAssumption
  <2>2. CASE ~IsRetry(l)
    BY <1>1, <2>2, AttemptsTyped, FailsGrow, NumberAssumption
  <2> QED
    BY <2>1, <2>2
<1>3. r.count <= fails'[r.id]
  BY <1>2
<1>4. /\ \A f \in Event : fails'[f] >= fails[f]
      /\ \A f \in Event : fails[f] = MaxAttempts => fails'[f] = MaxAttempts
  BY <1>1, FailsGrow
<1>5. \A q \in Retry : q.count <= fails[q.id] => q.count <= fails'[q.id]
  BY <1>4, NumberAssumption DEF Retry, Sound, TypeOK
<1> HIDE DEF e, r
<1>6. Counted(retry)' /\ \A m \in Loop : Counted(budget[m])'
  <2>1. retry' = retry
    BY DEF FailedOnce, store
  <2>2. \A m \in Loop : budget'[m] = r \/ budget'[m] = budget[m]
    BY <1>1 DEF Sound, TypeOK
  <2>3. /\ retry \in Retry \cup {None} /\ \A m \in Loop : budget[m] \in Retry \cup {None}
    BY DEF Sound, TypeOK
  <2> QED
    BY <1>3, <1>5, <2>1, <2>2, <2>3 DEF Spent, Counted
<1>7. \A m \in Loop : pc'[m] = "abandon" => fails'[Current(m)'] = MaxAttempts
  <2> SUFFICES ASSUME NEW m \in Loop, pc'[m] = "abandon" PROVE fails'[Current(m)'] = MaxAttempts
    OBVIOUS
  <2>1. pc[m] = "abandon" /\ Current(m)' = Current(m)
    BY DEF FailedOnce, control, Current, Sound, TypeOK
  <2> QED
    BY <1>4, <2>1, CurrentTyped DEF Spent, AtEvent
<1>8. GivenUpOnlyWhenSpent'
  BY <1>4 DEF FailedOnce, Spent, GivenUpOnlyWhenSpent, Sound, TypeOK
<1> QED
  BY <1>6, <1>7, <1>8 DEF Spent

LEMMA FailedLastSpent ==
    ASSUME Sound, Sound', Spent, NEW l \in Loop, FailedLast(l)
    PROVE  Spent'
<1> DEFINE e == Current(l)
<1>1. /\ e \in Event /\ fails[e] \in 0..MaxAttempts /\ fails' = Failing(e)
      /\ Attempts(l) >= MaxAttempts
  BY CurrentTyped DEF FailedLast, AtEvent, Sound, TypeOK
<1>2. fails'[e] = MaxAttempts
  <2>1. CASE IsRetry(l)
    <3>1. budget[l].count <= fails[e] /\ budget[l].count \in Nat /\ Attempts(l) = budget[l].count + 1
      BY <2>1, AttemptsTyped, NumberAssumption DEF IsRetry, Spent, Counted, Retry
    <3> QED
      BY <1>1, <3>1, FailsGrow, NumberAssumption
  <2>2. CASE ~IsRetry(l)
    BY <1>1, <2>2, AttemptsTyped, FailsGrow, NumberAssumption
  <2> QED
    BY <2>1, <2>2
<1>3. /\ \A f \in Event : fails'[f] >= fails[f]
      /\ \A f \in Event : fails[f] = MaxAttempts => fails'[f] = MaxAttempts
  BY <1>1, FailsGrow
<1>4. \A q \in Retry : q.count <= fails[q.id] => q.count <= fails'[q.id]
  BY <1>3, NumberAssumption DEF Retry, Sound, TypeOK
<1>5. Counted(retry)' /\ \A m \in Loop : Counted(budget[m])'
  <2>1. retry' = None /\ \A m \in Loop : budget'[m] = None \/ budget'[m] = budget[m]
    BY DEF FailedLast, Sound, TypeOK
  <2>2. \A m \in Loop : budget[m] \in Retry \cup {None}
    BY DEF Sound, TypeOK
  <2> QED
    BY <1>4, <2>1, <2>2 DEF Spent, Counted
<1>6. \A m \in Loop : pc'[m] = "abandon" => fails'[Current(m)'] = MaxAttempts
  <2> SUFFICES ASSUME NEW m \in Loop, pc'[m] = "abandon" PROVE fails'[Current(m)'] = MaxAttempts
    OBVIOUS
  <2>1. Current(m)' = Current(m) /\ (m = l \/ pc[m] = "abandon")
    BY DEF FailedLast, control, Current, Sound, TypeOK
  <2> QED
    BY <1>2, <1>3, <2>1, CurrentTyped DEF Spent, AtEvent
<1>7. GivenUpOnlyWhenSpent'
  BY <1>3 DEF FailedLast, Spent, GivenUpOnlyWhenSpent, Sound, TypeOK
<1> QED
  BY <1>5, <1>6, <1>7 DEF Spent

LEMMA CalmSpent ==
    ASSUME Spent, fails' = fails,
           \A e \in abandoned' : e \in abandoned \/ fails[e] = MaxAttempts,
           retry' # None => Counted(retry'),
           \A l \in Loop : budget'[l] # None => Counted(budget'[l]),
           \A l \in Loop : pc'[l] = "abandon" => pc[l] = "abandon" /\ Current(l)' = Current(l)
    PROVE  Spent'
BY DEF Spent, Counted, GivenUpOnlyWhenSpent

LEMMA NextSpent == Sound /\ Sound' /\ Spent /\ [Next]_vars => Spent'
<1> SUFFICES ASSUME Sound, Sound', Spent, [Next]_vars PROVE Spent'
  OBVIOUS
<1>1. ASSUME NEW s \in Source, Emit(s) \/ Forget(s) PROVE Spent'
  BY <1>1 DEF Emit, Forget, Spent, Counted, GivenUpOnlyWhenSpent, Current, log, store, walk, control
<1>2. ASSUME NEW l \in Loop, Tick(l) \/ FetchRejected(l) \/ FetchPage(l) \/ FetchFailed(l)
                             \/ Hand(l) \/ Processed(l) \/ ClearRetry(l) \/ NoteRetry(l)
                             \/ Abandon(l) \/ PageDone(l) \/ Stop(l)
      PROVE  Spent'
  <2>1. fails' = fails
    BY <1>2 DEF Tick, FetchRejected, FetchPage, FetchFailed, Hand, Processed, ClearRetry, NoteRetry,
       Abandon, PageDone, Stop, log
  <2>2. \A e \in abandoned' : e \in abandoned \/ fails[e] = MaxAttempts
    BY <1>2 DEF Tick, FetchRejected, FetchPage, FetchFailed, Hand, Processed, ClearRetry, NoteRetry,
       Abandon, PageDone, Stop, log, Spent
  <2>3. retry' = retry \/ retry' = None \/ retry' = budget[l]
    BY <1>2 DEF Tick, FetchRejected, FetchPage, FetchFailed, Hand, Processed, ClearRetry, NoteRetry,
       Abandon, PageDone, Stop, store
  <2>4. \A m \in Loop : budget'[m] = budget[m] \/ budget'[m] = None \/ budget'[m] = retry
    BY <1>2 DEF Tick, FetchRejected, FetchPage, FetchFailed, Hand, Processed, ClearRetry, NoteRetry,
       Abandon, PageDone, Stop, walk, End, Sound, TypeOK
  <2>5. \A m \in Loop : pc'[m] = "abandon" => pc[m] = "abandon" /\ Current(m)' = Current(m)
    BY <1>2 DEF Tick, FetchRejected, FetchPage, FetchFailed, Hand, Processed, ClearRetry, NoteRetry,
       Abandon, PageDone, Stop, walk, control, End, Step, Current, Sound, TypeOK
  <2> QED
    BY <2>1, <2>2, <2>3, <2>4, <2>5, CalmSpent DEF Spent
<1>3. CASE Reconcile \/ Operator \/ UNCHANGED vars
  <2>1. UNCHANGED <<log, store, budget, pc, pos>>
    BY <1>3 DEF Reconcile, Operator, SetTransport, SetTarget, StoreKey, ClearKey, Panel, vars, walk
  <2>2. \A m \in Loop : pc[m] = "abandon" => src'[m] = src[m]
    BY <1>3 DEF Reconcile, Operator, SetTransport, SetTarget, StoreKey, ClearKey, Panel, vars, control,
       Sound, TypeOK
  <2> QED
    BY <2>1, <2>2 DEF Spent, Counted, GivenUpOnlyWhenSpent, Current, log, store
<1>4. CASE Crash
  BY <1>4 DEF Crash, Spent, Counted, GivenUpOnlyWhenSpent, log, store
<1> QED
  BY <1>1, <1>2, <1>3, <1>4, FailedOnceSpent, FailedLastSpent DEF Next, Answered, PollStep, Handled

(* An event is given up only after MaxAttempts failures of its own. *)
THEOREM GivenUpWhenSpentAlways == Spec => []GivenUpOnlyWhenSpent
<1>1. Init => Sound /\ Spent
  BY InitSound, InitSpent
<1>2. (Sound /\ Spent) /\ [Next]_vars => (Sound /\ Spent)'
  BY NextSound, NextSpent
<1>3. Sound /\ Spent => GivenUpOnlyWhenSpent
  BY DEF Spent
<1> QED
  BY <1>1, <1>2, <1>3, PTL DEF Spec
=============================================================================
