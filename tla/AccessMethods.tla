--------------------------- MODULE AccessMethods ---------------------------
(***************************************************************************)
(* The access methods a server offers for an object, the access ids it     *)
(* gives them, and how an access id is read back and turned into the host  *)
(* that serves the object.  Pure functions of the configuration cfg and of *)
(* what iRODS knows of the object.                                         *)
(*                                                                         *)
(* A resource name or an access id is the sequence of its parts between    *)
(* dashes (resource names have dashes of their own), except that the name  *)
(* of a provider is one part; the empty sequence is the blank name.  A URL *)
(* is its host and its path, either of which may be blank.                 *)
(***************************************************************************)
EXTENDS Lists, SequencesExt

CONSTANT BucketOrder    \* the names of the S3 buckets, sorted

IRODSGoREST   == "irods-go-rest"
IRODSHTTPSAPI == "irods-https-api"

NoName   == <<>>
Wildcard == <<"*">>
NoURL    == [host |-> "", path |-> <<>>]
URLs     == [host : STRING, path : Seq(STRING)]

\* A method as BuildAccessMethods returns it: an access id to ask for, or a URL
\* to use directly.
Method(type, id, region, url) ==
    [type |-> type, id |-> id, region |-> region, url |-> url]

EffectiveHTTPSAccessProvider(provider) ==
    IF provider = "" THEN IRODSGoREST ELSE provider

IsSupportedHTTPSAccessProvider(provider) ==
    provider \in {IRODSGoREST, IRODSHTTPSAPI}

----------------------------------------------------------------------------
(* The resources of an object and the hosts that serve them best.          *)

\* The distinct resources of the replicas, then that of the object itself; a name
\* that comes again is as good as blank.
objectReplicaResourceNames(object) ==
    LET names    == Append(object.replicas, object.resource)
        Again(i) == \E k \in 1..(i - 1) : names[k] = names[i]
    IN  Without([i \in DOMAIN names |-> IF Again(i) THEN NoName ELSE names[i]], {NoName})

primaryReplicaResourceName(object) ==
    LET Named(name) == name # NoName
        replicas == SelectSeq(object.replicas, Named)
    IN  IF replicas = <<>> THEN object.resource ELSE Head(replicas)

\* The entries with a host, blank resource names dropped.
normalizedResourceAffinityForLookup(entries) ==
    LET kept == Without(entries, {entry \in Range(entries) : entry.host = NoURL})
    IN  [i \in DOMAIN kept |->
            [host |-> kept[i].host, resources |-> kept[i].resources \ {NoName}]]

isDefaultResourceAffinity(resources) ==
    resources = {} \/ Wildcard \in resources

\* The host of the first entry that names the resource, or else of the first
\* default entry.
hostForResourceAffinity(affinities, resource) ==
    LET Names(entry)   == resource \in entry.resources \ {Wildcard}
        Default(entry) == isDefaultResourceAffinity(entry.resources)
        named   == SelectInSeq(affinities, Names)
        default == SelectInSeq(affinities, Default)
    IN  IF named # 0 THEN [host |-> affinities[named].host, matched |-> TRUE]
        ELSE IF default # 0
             THEN [host |-> affinities[default].host, matched |-> FALSE]
             ELSE [host |-> NoURL, matched |-> FALSE]

ResolveAffinityHostForResource(cfg, resource) ==
    hostForResourceAffinity(
        normalizedResourceAffinityForLookup(cfg.affinities), resource).host

\* A preferred URL with a path replaces the configured one; a bare host
\* replaces its host; without a host it is passed over.  A configured path
\* without a host is resolved against the preferred URL.
ResolveHTTPSAccessBaseURL(configured, preferred) ==
    IF preferred.host = "" THEN configured
    ELSE IF configured.host # ""
         THEN IF preferred.path = <<>>
              THEN [configured EXCEPT !.host = preferred.host]
              ELSE preferred
         ELSE IF configured.path = <<>>
              THEN preferred
              ELSE [configured EXCEPT !.host = preferred.host]

----------------------------------------------------------------------------
(* Access ids of the https methods.                                        *)

buildHTTPSDefaultAccessID(provider) ==
    <<EffectiveHTTPSAccessProvider(provider), "https">>

buildHTTPSAffinityAccessID(provider, resource) ==
    buildHTTPSDefaultAccessID(provider) \o resource

\* An older form of the ids, which is refused.
RetiredAccessID(id) ==
    Len(id) > 3 /\ SubSeq(id, 1, 3) = <<IRODSGoREST, "https", "affinity">>

NotParsed == [provider |-> "", resource |-> NoName]

\* Faulty: the resource ends at the next dash.
ParseToDash(id) ==
    IF ~RetiredAccessID(id) /\ Len(id) > 1
       /\ IsSupportedHTTPSAccessProvider(id[1]) /\ id[2] = "https"
    THEN [provider |-> id[1], resource |-> SubSeq(id, 3, IF Len(id) > 2 THEN 3 ELSE 2)]
    ELSE NotParsed

\* The provider and the resource, if there is one, of an https access id.
ParseHTTPSAccessID(id) ==
    IF ~RetiredAccessID(id) /\ Len(id) > 1
       /\ IsSupportedHTTPSAccessProvider(id[1]) /\ id[2] = "https"
    THEN [provider |-> id[1], resource |-> SubSeq(id, 3, Len(id))]
    ELSE NotParsed

----------------------------------------------------------------------------
(* The methods.                                                            *)

\* One method for each resource, the ones with a host of their own first; or a
\* single one when no host is preferred for any resource.
buildProviderHTTPSAccessMethods(cfg, object, provider) ==
    LET resources  == objectReplicaResourceNames(object)
        affinities == normalizedResourceAffinityForLookup(cfg.affinities)
        methods    == [i \in DOMAIN resources |->
                          Method("https", buildHTTPSAffinityAccessID(provider, resources[i]),
                                 resources[i], NoURL)]
        dedicated  == {method \in Range(methods) :
                          hostForResourceAffinity(affinities, method.region).matched}
    IN  IF resources = <<>> THEN <<>>
        ELSE IF affinities = <<>>
             THEN <<Method("https", buildHTTPSDefaultAccessID(provider),
                           primaryReplicaResourceName(object), NoURL)>>
             ELSE Without(methods, Range(methods) \ dedicated)
                      \o Without(methods, dedicated)

buildHTTPSAccessMethods(cfg, object) ==
    LET provider == EffectiveHTTPSAccessProvider(cfg.provider)
    IN  IF cfg.https /\ cfg.base # NoURL /\ IsSupportedHTTPSAccessProvider(provider)
        THEN buildProviderHTTPSAccessMethods(cfg, object, provider)
        ELSE <<>>

IrodsAccessID == <<"irods">>

buildIRODSAccessMethods(cfg, object) ==
    IF cfg.irods
    THEN <<Method("irods", IrodsAccessID, primaryReplicaResourceName(object), NoURL)>>
    ELSE <<>>

LocalURL == [host |-> "local", path |-> <<"path">>]

buildFileAccessMethods(cfg) ==
    IF cfg.file THEN <<Method("local", NoName, NoName, LocalURL)>> ELSE <<>>

\* The first bucket, by name, of the nearest collection above the object that
\* has one; buckets[i] is what the i-th collection above it has.
resolveS3BucketForDataObjectPath(buckets) ==
    LET HasBucket(names) == names # {}
        nearest == SelectInSeq(buckets, HasBucket)
        Among(bucket) == bucket \in buckets[nearest]
    IN  IF nearest = 0 THEN "" ELSE BucketOrder[SelectInSeq(BucketOrder, Among)]

\* The access id of every S3 method is the name of the user who asks.
buildS3AccessMethods(cfg, object, buckets) ==
    LET bucket    == resolveS3BucketForDataObjectPath(buckets)
        resources == objectReplicaResourceNames(object)
    IN  IF cfg.s3 /\ bucket # ""
        THEN [i \in DOMAIN resources |->
                 Method("s3", cfg.user, resources[i],
                        [host |-> "s3", path |-> <<bucket>>])]
        ELSE <<>>

\* All the methods, with what could be read of the buckets above the object.
BuildAccessMethodsWithFilesystem(cfg, object, buckets) ==
    buildHTTPSAccessMethods(cfg, object) \o buildIRODSAccessMethods(cfg, object)
        \o buildFileAccessMethods(cfg) \o buildS3AccessMethods(cfg, object, buckets)
=============================================================================
