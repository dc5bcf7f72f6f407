--------------------------- MODULE MCIdentityCases ---------------------------
(***************************************************************************)
(* Two deployments of PrimaryIdentity in one run, one of them chosen at the   *)
(* start: an IdP that sends the writes of a resource one at a time, and a     *)
(* native app another directory also fronts.                                  *)
(***************************************************************************)
EXTENDS TLC

CONSTANTS NativeId, ExternalId, MintedId, Person, Request,
          One,          \* the person with rows in the first
          Neighbour,    \* the other directory's row in the second
          None

VARIABLES claim, mapping, ledger, native, workos, late, call, pc, nleg, wleg,
          acked, legacy, astray, deployment

vars == <<claim, mapping, ledger, native, workos, late, call, pc, nleg, wleg,
          acked, legacy, astray, deployment>>

Orderly == INSTANCE PrimaryIdentity
    WITH Resident <- {One}, Foreign <- {}, Serialized <- TRUE
Shared == INSTANCE PrimaryIdentity
    WITH Resident <- Person, Foreign <- {Neighbour}, Serialized <- FALSE

Is(d) == deployment = d

Init == \/ Is("orderly") /\ Orderly!Init
        \/ Is("shared") /\ Shared!Init

Next ==
    /\ \/ Is("orderly") /\ Orderly!Next
       \/ Is("shared") /\ Shared!Next
    /\ UNCHANGED deployment

Spec == Init /\ [][Next]_vars

(* With the writes of one resource in order, native never keeps a resource   *)
(* WorkOS dropped without a ledger row or a claim saying so.                 *)
GapIsVisible == Is("orderly") => Orderly!GapIsVisible

(* No create adopts and no delete removes the other directory's row.         *)
NeighbourUntouched == Is("shared") => Shared!NeighbourUntouched

Symmetry == Permutations(Request)
=============================================================================
