---------------------------- MODULE DrsMetadata ----------------------------
(***************************************************************************)
(* The vocabulary shared by every operation of drs-support: the AVUs       *)
(* (attribute, value, unit triples) that iRODS attaches to a path, the     *)
(* ones among them that are DRS metadata, and what the code reads out of   *)
(* the list of AVUs of a path.                                             *)
(*                                                                         *)
(* iRODS stores the AVUs of a path as a set and ListMetadata returns them  *)
(* in no specified order; so the metadata of a path is a set here, and a   *)
(* loop that keeps the first or the last match of a list is a choice among *)
(* all the matches.                                                        *)
(***************************************************************************)
EXTENDS Lists, FiniteSets

CONSTANTS
    Ids,        \* the DRS ids newGUID can return
    Texts,      \* the other AVU values: versions, mime types, aliases...
    Blank       \* the value that strings.TrimSpace turns into ""

ASSUME BlankIsNoValue == Blank \notin Ids /\ Blank \notin Texts
ASSUME IdsAreNotTexts == Ids \cap Texts = {}

\* The attribute names the code knows, and one it does not.
DrsIdAvuAttrib               == "iRODS:DRS:ID"
DrsAvuVersionAttrib          == "iRODS:DRS:VERSION"
DrsAvuMimeTypeAttrib         == "iRODS:DRS:MIME_TYPE"
DrsAvuCompoundManifestAttrib == "iRODS:DRS:COMPOUND_MANIFEST"
DrsAvuAliasAttrib            == "iRODS:DRS:ALIAS"
DrsAvuDescriptionAttrib      == "iRODS:DRS:DESCRIPTION"
UserAttrib                   == "user"

DrsAttribs == {DrsIdAvuAttrib, DrsAvuVersionAttrib, DrsAvuMimeTypeAttrib,
               DrsAvuCompoundManifestAttrib, DrsAvuAliasAttrib,
               DrsAvuDescriptionAttrib}

\* The unit the code writes, the empty unit it accepts as well, and any other.
DrsAvuUnit  == "iRODS:DRS"
NoUnit      == ""
ForeignUnit == "foreign"

AVU == [name : DrsAttribs \cup {UserAttrib},
        value : Ids \cup Texts,
        unit : {DrsAvuUnit, NoUnit, ForeignUnit}]

\* An AVU as the code writes it.
DrsAvu(attrib, value) ==
    [name |-> attrib, value |-> value, unit |-> DrsAvuUnit]

isDrsMetadata(meta) ==
    /\ meta.name \in DrsAttribs
    /\ meta.unit \in {NoUnit, DrsAvuUnit}

DrsMetas(metas)     == {meta \in metas : isDrsMetadata(meta)}
ForeignMetas(metas) == {meta \in metas : ~isDrsMetadata(meta)}

\* The AVUs an operation on one attribute reads, and deletes before it
\* writes the new value.
MetasOf(metas, attrib) == {meta \in DrsMetas(metas) : meta.name = attrib}
ValuesOf(metas, attrib) == {meta.value : meta \in MetasOf(metas, attrib)}

\* The ids that ApplyDrsMetadata or drsIDFromMetadata may find: the last, or
\* the first, ID AVU of a list in no specified order is any of them.
IdsIn(metas) == ValuesOf(metas, DrsIdAvuAttrib)

IsManifest(metas) == MetasOf(metas, DrsAvuCompoundManifestAttrib) # {}

\* The aliases that are not blank, duplicates included.
normalizedAliases(aliases) == Without(aliases, {Blank})

\* Faulty: the empty value is written too.
OptionalAlways(attrib, value) == <<DrsAvu(attrib, value)>>

Optional(attrib, value) ==
    IF value = Blank THEN <<>> ELSE <<DrsAvu(attrib, value)>>

AliasAvus(aliases) ==
    [i \in 1..Len(aliases) |-> DrsAvu(DrsAvuAliasAttrib, aliases[i])]

\* The AVUs that describe an object, in the order they are written: first the
\* id, then the rest.
describingMetadata(object) ==
    Optional(DrsAvuVersionAttrib, object.version)
        \o Optional(DrsAvuMimeTypeAttrib, object.mime)
        \o Optional(DrsAvuDescriptionAttrib, object.description)
        \o AliasAvus(normalizedAliases(object.aliases))

\* Faulty: the id comes last.
IdLastMetadata(object) ==
    describingMetadata(object) \o <<DrsAvu(DrsIdAvuAttrib, object.id)>>

metadataForObject(object) ==
    <<DrsAvu(DrsIdAvuAttrib, object.id)>> \o describingMetadata(object)

\* What an operation writes: DRS metadata with typed values; and the part of it
\* that only describes a registered object.
DrsAvus    == {meta \in AVU : /\ isDrsMetadata(meta)
                              /\ meta.name = DrsIdAvuAttrib => meta.value \in Ids}
Describing == {meta \in DrsAvus : meta.name # DrsIdAvuAttrib}
=============================================================================
