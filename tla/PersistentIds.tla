--------------------------- MODULE PersistentIds ---------------------------
(***************************************************************************)
(* What a DRS server promises of its ids, whatever its clients do and      *)
(* whenever they fail: an id is generated once, for one path; it is        *)
(* attached to that path at most once; and when it is taken off it is gone *)
(* for good.                                                               *)
(***************************************************************************)
CONSTANTS Ids, Paths, None

VARIABLES
    home,       \* home[id]: the path id was generated for, or None
    where,      \* where[id]: the paths that carry id
    pending     \* the generated ids that may still be attached

vars == <<home, where, pending>>

Init ==
    /\ pending = {}
    /\ home \in [Ids -> Paths \cup {None}]
    /\ where = [id \in Ids |-> IF home[id] = None THEN {} ELSE {home[id]}]

Generate(id) ==
    /\ home[id] = None
    /\ \E p \in Paths : home' = [home EXCEPT ![id] = p]
    /\ pending' = pending \cup {id}
    /\ UNCHANGED where

Attach(id) ==
    /\ id \in pending
    /\ where' = [where EXCEPT ![id] = {home[id]}]
    /\ pending' = pending \ {id}
    /\ UNCHANGED home

Abandon(id) ==
    /\ id \in pending
    /\ pending' = pending \ {id}
    /\ UNCHANGED <<home, where>>

Remove(id) ==
    /\ where[id] # {}
    /\ where' = [where EXCEPT ![id] = {}]
    /\ UNCHANGED <<home, pending>>

Next == \E id \in Ids : Generate(id) \/ Attach(id) \/ Abandon(id) \/ Remove(id)

Spec == Init /\ [][Next]_vars
=============================================================================
