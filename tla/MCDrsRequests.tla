--------------------------- MODULE MCDrsRequests ---------------------------
(***************************************************************************)
(* Small instances of DrsRequests: a handler h, and a client k that        *)
(* removes the object p and registers it again.  The object q is a         *)
(* compound, and carries the id of p in a foreign unit.                    *)
(***************************************************************************)
EXTENDS DrsRequests, TLC

CONSTANTS
    h, k,               \* a handler and a client
    p, q,               \* paths
    i1, i2, i3,         \* ids
    t1                  \* another value

Op(op, path) ==
    [op |-> op, path |-> path, attr |-> DrsAvuAliasAttrib, value |-> Blank,
     mime |-> Blank, aliases |-> <<>>, id |-> i1]

\* The jobs of the client; h serves requests only.
MCJobs == h :> {Op("getById", p)} @@ k :> {Op("strip", p), Op("create", p)}
Strip  == h :> {Op("getById", p)} @@ k :> {Op("strip", p)}

MCMimeOf == p :> Blank @@ q :> Blank
Foreign  == [name |-> DrsIdAvuAttrib, value |-> i1, unit |-> ForeignUnit]
Registered ==
    {p :> {DrsAvu(DrsIdAvuAttrib, i1)}
     @@ q :> {DrsAvu(DrsIdAvuAttrib, i2), Foreign,
              DrsAvu(DrsAvuCompoundManifestAttrib, t1)}}

Asking(kind, ids) ==
    [kind |-> kind, ids |-> ids, access |-> NoName, cred |-> "basic",
     job |-> Op(IF kind = "drsrm" THEN "strip" ELSE "updateAliases", p)]

Accessing(id, access) == [Asking("access", <<id>>) EXCEPT !.access = access]

EveryAsk ==
    {Asking(kind, <<i1>>) : kind \in {"object", "drsinfo", "options", "drsupdate",
                                     "drsrm"}}
    \cup {Asking(kind, <<i2>>) : kind \in {"object", "compound"}}
    \cup {Accessing(i1, <<"nothing">>), Accessing(i1, <<IRODSGoREST, "https">>),
          Accessing(i1, CompoundAccessID), Accessing(i2, CompoundAccessID)}
    \cup {Asking("bulk", <<i1, None, i1>>), Asking("bulk", <<None>>),
          Asking("object", <<i3>>), Asking("postObject", <<i1>>), Asking("index", <<i1>>),
          [Asking("object", <<i1>>) EXCEPT !.cred = "none"]}
MCAsks  == h :> EveryAsk
GetOnly == h :> {Asking("object", <<i1>>)}

\* One resource comes twice and has a host of its own, another is named like an
\* access id of the older form.
MCStorage ==
    p :> [replicas |-> <<NoName, <<"ssd", "fast">>, <<"affinity", "a">>>>,
          resource |-> <<"ssd", "fast">>, buckets |-> <<{}, {"data", "raw"}>>]
    @@ q :> [replicas |-> <<>>, resource |-> NoName, buckets |-> <<>>]
MCBucketOrder == <<"data", "raw">>

Host(name) == [host |-> name, path |-> <<>>]
Base       == [host |-> "here", path |-> <<"rest">>]

Preferring ==
    [https |-> TRUE, provider |-> "", base |-> Base, ticket |-> TRUE,
     affinities |-> <<[host |-> NoURL, resources |-> {<<"ssd", "fast">>}],
                      [host |-> Host("far"), resources |-> {NoName, Wildcard}],
                      [host |-> [host |-> "near", path |-> <<"fast">>],
                       resources |-> {<<"ssd", "fast">>, <<"ssd", "slow">>}],
                      [host |-> Host("other"), resources |-> {<<"ssd", "fast">>}]>>,
     irods |-> TRUE, file |-> TRUE, s3 |-> TRUE, user |-> <<"rods">>,
     public |-> TRUE, oidc |-> TRUE]
Plain ==
    [Preferring EXCEPT !.provider = IRODSHTTPSAPI, !.affinities = <<>>,
                       !.ticket = FALSE, !.irods = FALSE, !.s3 = FALSE]
Misfit == [Preferring EXCEPT !.provider = "another", !.public = FALSE]
Closed == [Plain EXCEPT !.https = FALSE, !.oidc = FALSE]

MCConfigs == {Preferring, Plain, Misfit, Closed}
OnlyPlain == {Plain}
=============================================================================
