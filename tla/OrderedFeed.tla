----------------------------- MODULE OrderedFeed -----------------------------
(***************************************************************************)
(* What the Events API transport promises its listener: the events of a    *)
(* feed are settled (processed, or given up on record) in the order of the *)
(* feed, none is passed over while the API still serves it, and every one  *)
(* of the feed being watched is settled in the end or forgotten by the API.*)
(***************************************************************************)
EXTENDS Integers

CONSTANTS Source, MaxEvents, None

VARIABLES
    emitted,   \* events each source has appended to its feed
    retained,  \* first event of the feed the source still serves
    settled,   \* events processed or given up, as <<source, position>>
    watched    \* the feed the listener is told to follow, or None

fvars == <<emitted, retained, settled, watched>>

\* Everything up to position i has been settled or is no longer served.
Behind(s, i) == \A j \in 1..i : <<s, j>> \in settled \/ j < retained[s]

Init ==
    /\ emitted = [s \in Source |-> 0]
    /\ retained = [s \in Source |-> 1]
    /\ settled = {}
    /\ watched \in Source \cup {None}

Emit(s) ==
    /\ emitted[s] < MaxEvents
    /\ emitted' = [emitted EXCEPT ![s] = @ + 1]
    /\ UNCHANGED <<retained, settled, watched>>

Forget(s) ==
    /\ retained[s] <= emitted[s]
    /\ retained' = [retained EXCEPT ![s] = @ + 1]
    /\ UNCHANGED <<emitted, settled, watched>>

Watch(s) ==
    /\ watched' = s
    /\ UNCHANGED <<emitted, retained, settled>>

Settle(s, i) ==
    /\ i \in 1..emitted[s]
    /\ <<s, i>> \notin settled
    /\ Behind(s, i - 1)
    /\ settled' = settled \cup {<<s, i>>}
    /\ UNCHANGED <<emitted, retained, watched>>

SettleWatched ==
    \E s \in Source, i \in 1..MaxEvents :
        watched = s /\ i >= retained[s] /\ Settle(s, i)

Next ==
    \/ \E s \in Source : Emit(s) \/ Forget(s) \/ Watch(s)
    \/ Watch(None)
    \/ \E s \in Source, i \in 1..MaxEvents : Settle(s, i)

Safety == Init /\ [][Next]_fvars
Spec == Safety /\ WF_fvars(SettleWatched)
=============================================================================
