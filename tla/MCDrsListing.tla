---------------------------- MODULE MCDrsListing ----------------------------
(***************************************************************************)
(* DrsListing with five paths, four of them collections, and queries that  *)
(* return three entries at a time: the collections may take two queries,   *)
(* and a fast page may need fewer, as many or more entries than one query. *)
(***************************************************************************)
EXTENDS DrsListing

MCCollections == {1, 2, 4, 5}
MCOrders      == {<<1, 2, 3, 4, 5>>, <<4, 1, 5, 3, 2>>}
=============================================================================
