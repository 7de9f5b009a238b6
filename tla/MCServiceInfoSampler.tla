----------------------- MODULE MCServiceInfoSampler -----------------------
(***************************************************************************)
(* A small instance of ServiceInfoSampler: nothing is registered at first, *)
(* then o1, of which a stale replica has another size, with an AVU of      *)
(* somebody else's on o2; at last both are registered, o2 under two units. *)
(***************************************************************************)
EXTENDS ServiceInfoSampler

CONSTANTS o1, o2    \* data objects

Row(o, size, valid) == [object |-> o, size |-> size, valid |-> valid]

MCVersions ==
    << <<>>,
       <<Row(o1, 2, TRUE), Row(o2, 4, FALSE), Row(o1, 1, TRUE)>>,
       <<Row(o2, 4, TRUE), Row(o1, 2, TRUE), Row(o2, 4, TRUE)>> >>
=============================================================================
