------------------------- MODULE MCCompoundCreate -------------------------
(***************************************************************************)
(* Small instances of CompoundCreate: a collection r that holds the data   *)
(* object a and a collection s, which holds the data objects b and x; x is *)
(* excluded by g, the .drsignore of r.                                     *)
(***************************************************************************)
EXTENDS CompoundCreate, TLC

CONSTANTS
    k1, c1,                 \* a coordinator and a client
    r, s, a, b, x, g,       \* paths
    i1, i2, i3, i4,         \* ids
    t1, t2                  \* other values

Op(op, path) ==
    [op |-> op, path |-> path, attr |-> DrsAvuMimeTypeAttrib, value |-> t1,
     mime |-> t2, aliases |-> <<>>, id |-> i1]

\* The clients' own operations; a coordinator only calls those of its walk.
CreateOnA == [k \in Clients |-> {[Op("create", a) EXCEPT !.value = Blank]}]
CreateOnB == [k \in Clients |-> {[Op("create", b) EXCEPT !.value = Blank]}]

MCBelow ==
    [p \in Paths |-> CASE p = r -> {s, a, b, x, g} \cap Paths
                       [] p = s -> {b, x} \cap Paths
                       [] OTHER -> {}]
MCPathOrder ==
    LET Exists(p) == p \in DataObjects IN SelectSeq(<<g, a, b, x>>, Exists)
MCIgnored == [p \in Collections |-> IF p = r THEN {x} \cap Paths ELSE {}]
MCIgnoreFiles == {g} \cap Paths

Nowhere  == [k \in Coordinators |-> {}]
AtR      == [k \in Coordinators |-> {r}]

NoValues  == [p \in Paths |-> Blank]
SomeMime  == [p \in Paths |-> IF p = a THEN t1 ELSE Blank]
Checksums == [p \in Paths |-> IF p \in Collections THEN Blank ELSE t2]

\* Nothing is registered; or a has been registered without a version, x on its
\* own, the root has been left with an id by an attempt that failed, and s
\* carries an id in a foreign unit.
Nothing == [p \in Paths |-> {}]
Foreign == [name |-> DrsIdAvuAttrib, value |-> i1, unit |-> ForeignUnit]
Partly  == [p \in Paths |->
               IF p = a THEN {DrsAvu(DrsIdAvuAttrib, i1), DrsAvu(DrsAvuMimeTypeAttrib, t2)}
               ELSE IF p = r THEN {DrsAvu(DrsIdAvuAttrib, i2)}
               ELSE IF p = x THEN {DrsAvu(DrsIdAvuAttrib, i3)}
               ELSE IF p = s THEN {Foreign}
               ELSE {}]

OnlyNothing     == {Nothing}
NothingOrPartly == {Nothing, Partly}
=============================================================================
