------------------------ MODULE MCCompoundManifest ------------------------
(***************************************************************************)
(* A small instance of CompoundManifest: the root r holds the data object  *)
(* a and the collection s; s holds g, its .drsignore, and the collection   *)
(* u, which holds the data object d.                                       *)
(***************************************************************************)
EXTENDS CompoundManifest, TLC

CONSTANTS
    v1, c1,                 \* a viewer and a client
    r, s, u, a, d, g,       \* paths
    i1, i2, i3, i4,         \* ids
    t1                      \* another value

Op(op, path) ==
    [op |-> op, path |-> path, attr |-> DrsAvuMimeTypeAttrib, value |-> Blank,
     mime |-> Blank, aliases |-> <<>>, id |-> i1]

MCJobs == c1 :> {Op("create", d), Op("strip", d), Op("strip", a)}

MCBelow ==
    r :> {s, u, a, d, g} @@ s :> {u, d, g} @@ u :> {d}
    @@ [p \in {a, d, g} |-> {}]
MCTreeOrder == <<r, a, s, g, u, d>>
MCPathOrder == <<a, g, d>>
MCIgnored   == [p \in Collections |-> {}]

Nowhere  == [k \in Coordinators |-> {}]
AtR      == [v \in Viewers |-> {r}]
NoValues == [p \in Paths |-> Blank]

Foreign == [name |-> DrsIdAvuAttrib, value |-> t1, unit |-> ForeignUnit]
Id(id)  == DrsAvu(DrsIdAvuAttrib, id)

\* a and the .drsignore are registered, and perhaps s and d; u has somebody
\* else's id.
Members(onS, onD) ==
    r :> {Foreign} @@ s :> onS @@ u :> {Foreign}
    @@ a :> {Id(i1)} @@ d :> onD @@ g :> {Id(i3)}

MCCatalogs == {Members({}, {}), Members({Id(i4)}, {Id(i2)})}
=============================================================================
