------------------------- MODULE MCDrsRegistration -------------------------
(***************************************************************************)
(* Small instances of DrsRegistration: the operations its clients are      *)
(* asked for, one definition per question a run asks, and the catalogs     *)
(* they start from.                                                        *)
(***************************************************************************)
EXTENDS DrsRegistration, TLC

CONSTANTS
    c1, c2,             \* clients
    p, q,               \* paths
    i1, i2, i3, i4,     \* ids
    t1, t2              \* other values

\* An operation op on path, whose other arguments are the first ones at hand.
Op(op, path) ==
    [op |-> op, path |-> path, attr |-> DrsAvuMimeTypeAttrib, value |-> t1,
     mime |-> Blank, aliases |-> <<>>, id |-> i1]

Create(path)     ==
    [Op("create", path) EXCEPT !.value = Blank, !.aliases = <<t1, Blank>>]
CreateBare(path) == [Op("create", path) EXCEPT !.value = Blank, !.mime = t2]
CreateAlias(path) ==
    [Op("create", path) EXCEPT !.value = Blank, !.aliases = <<Blank, t2>>]
SetMime(path)    == [Op("updateField", path) EXCEPT !.value = t2]
SetId(path)      == [Op("updateField", path) EXCEPT !.attr = DrsIdAvuAttrib]
SetAliases(path) == [Op("updateAliases", path) EXCEPT !.aliases = <<t2, Blank>>]
Get(id) == [Op("getById", p) EXCEPT !.id = id]

\* p has a mime type the name gives away and a checksum, q has neither.
MCMimeOf     == p :> t1 @@ q :> Blank
MCChecksumOf == p :> t1 @@ q :> Blank
NoValues     == p :> Blank @@ q :> Blank

\* AVUs of a user, one of them a DRS attribute in another unit that names the
\* first id: what a copy of a registered object's AVUs may look like.
UserAvu    == [name |-> UserAttrib, value |-> t1, unit |-> NoUnit]
ForeignId  == [name |-> DrsIdAvuAttrib, value |-> i1, unit |-> ForeignUnit]
ForeignMime == [name |-> DrsAvuMimeTypeAttrib, value |-> t1, unit |-> ForeignUnit]
LegacyMime == [name |-> DrsAvuMimeTypeAttrib, value |-> t1, unit |-> NoUnit]
Marker     == DrsAvu(DrsAvuCompoundManifestAttrib, t1)

\* Nothing is registered.
Bare == p :> {UserAvu, ForeignMime} @@ q :> {}
\* p is registered and q is a compound.
Registered == p :> {ForeignMime, DrsAvu(DrsIdAvuAttrib, i1), LegacyMime}
           @@ q :> {ForeignId, DrsAvu(DrsIdAvuAttrib, i2), Marker}

OnlyBare         == {Bare}
OnlyRegistered   == {Registered}
BareOrRegistered == {Bare, Registered}

\* Two clients register and update the same path, one of them reads.
SharedJobs ==
    c1 :> {CreateBare(p), SetMime(p), Get(i1)}
    @@ c2 :> {CreateAlias(p), SetAliases(p)}

\* The same with removals.
RemovalJobs ==
    c1 :> {CreateBare(p), SetMime(p), SetId(p), Get(i1)}
    @@ c2 :> {CreateAlias(p), Op("strip", p), Op("removeSingle", q),
              Op("drsrm", q)}

\* One client registers p; the other changes and removes what there is.
AloneJobs ==
    c1 :> {Create(p)}
    @@ c2 :> {SetMime(p), SetAliases(p), Op("drsrm", p)}

FreshSymmetry == Permutations({i3, i4} \cap Ids)
=============================================================================
