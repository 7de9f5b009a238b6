------------------------ MODULE AccessMethods_proofs ------------------------
(***************************************************************************)
(* Lemmas about AccessMethods, for every configuration and every object:   *)
(* the resources that methods are offered for, what an access id is read   *)
(* back as, and the host that serves a resource.                           *)
(***************************************************************************)
EXTENDS AccessMethods, Lists_proofs

\* Names of resources, as sequences of their parts.
Names == Seq(STRING)

----------------------------------------------------------------------------
(* The host of a resource.                                                 *)

\* What SelectInSeq comes to.
LEMMA LeastOf ==
    ASSUME NEW I, I \subseteq Nat, NEW i \in I, \A k \in I : i <= k
    PROVE  I # {} /\ Min(I) = i
<1>1. \A j \in I : (\A k \in I : j <= k) => j = i
  OBVIOUS
<1> QED BY <1>1 DEF Min

\* The entries whose host is not blank.
Hosting(entries) == {i \in DOMAIN entries : entries[i].host # NoURL}

\* Those of them that name a resource, and those that are for any.
Naming(entries, resource) ==
    {i \in Hosting(entries) : resource \in entries[i].resources \ {Wildcard}}
Defaults(entries) ==
    {i \in Hosting(entries) : \/ Wildcard \in entries[i].resources
                              \/ entries[i].resources \subseteq {NoName}}

\* host is that of the first of the entries I.
FirstHost(host, entries, I) ==
    \E i \in I : (\A k \in I : i <= k) /\ host = entries[i].host

\* The entries that are left for a lookup, their resources aside.
HostLess(entries) == {entry \in Range(entries) : entry.host = NoURL}
WithHost(entries) == Without(entries, HostLess(entries))

LEMMA LeftForLookup ==
    ASSUME NEW T, NEW entries \in Seq(T)
    PROVE  /\ normalizedResourceAffinityForLookup(entries) =
                 [i \in 1..Len(WithHost(entries)) |->
                     [host      |-> WithHost(entries)[i].host,
                      resources |-> WithHost(entries)[i].resources \ {NoName}]]
           /\ WithHost(entries) \in Seq(T)
           /\ \A i \in 1..Len(WithHost(entries)) :
                 \E k \in Hosting(entries) : WithHost(entries)[i] = entries[k]
<1>1. /\ WithHost(entries) \in Seq(T \ HostLess(entries))
      /\ Listed(WithHost(entries)) = Listed(entries) \ HostLess(entries)
  BY KeptEntries DEF WithHost
<1>2. DOMAIN WithHost(entries) = 1..Len(WithHost(entries)) /\ WithHost(entries) \in Seq(T)
  BY <1>1
<1>3. ASSUME NEW i \in 1..Len(WithHost(entries))
      PROVE  \E k \in Hosting(entries) : WithHost(entries)[i] = entries[k]
  <2>1. WithHost(entries)[i] \in Listed(entries) \ HostLess(entries)
    BY <1>1, <1>2 DEF Listed
  <2> QED BY <2>1 DEF Listed, Hosting, HostLess, Range
<1> QED BY <1>2, <1>3 DEF normalizedResourceAffinityForLookup, WithHost, HostLess

\* The places of Q among them.
PlacesOf(entries, Q) == {k \in 1..Len(WithHost(entries)) : WithHost(entries)[k] \in Q}

\* The first entry of Q among those left is the first one with a host.
LEMMA FirstLeft ==
    ASSUME NEW T, NEW entries \in Seq(T), NEW Q,
           NEW I, I = {i \in Hosting(entries) : entries[i] \in Q}, I # {}
    PROVE  /\ PlacesOf(entries, Q) # {}
           /\ Min(PlacesOf(entries, Q)) \in PlacesOf(entries, Q)
           /\ FirstHost(WithHost(entries)[Min(PlacesOf(entries, Q))].host, entries, I)
<1> DEFINE D    == HostLess(entries)
           kept == WithHost(entries)
           A    == PlacesOf(entries, Q)
<1>1. DOMAIN entries = 1..Len(entries) /\ Len(entries) \in Nat
  OBVIOUS
<1>2. I \subseteq DOMAIN entries /\ I \subseteq Nat
  BY <1>1 DEF Hosting
<1>3. PICK m \in I : \A k \in I : ~(k < m)
  BY <1>2, LeastNat
<1>4. \A k \in I : m <= k
  BY <1>2, <1>3
<1>5. \A k \in DOMAIN entries : k \in I <=> entries[k] \in Q \ D
  BY DEF Hosting, HostLess, Range
<1>6. m \in DOMAIN entries /\ entries[m] \in Q \ D
      /\ \A k \in 1..(m - 1) : entries[k] \notin Q \ D
  BY <1>1, <1>2, <1>3, <1>5
<1>7. \E i \in DOMAIN kept :
         kept[i] = entries[m] /\ \A k \in 1..(i - 1) : kept[k] \notin Q
  BY <1>6, KeptFirst DEF WithHost
<1>8. PICK i \in DOMAIN kept :
         kept[i] = entries[m] /\ \A k \in 1..(i - 1) : kept[k] \notin Q
  BY <1>7
<1>9. DOMAIN kept = 1..Len(kept) /\ Len(kept) \in Nat
  BY LeftForLookup
<1>10. i \in A /\ A \subseteq Nat /\ \A k \in A : i <= k
  BY <1>6, <1>8, <1>9 DEF PlacesOf
<1>11. A # {} /\ Min(A) = i
  BY <1>10, LeastOf
<1>12. FirstHost(kept[i].host, entries, I)
  BY <1>4, <1>8 DEF FirstHost
<1> QED BY <1>10, <1>11, <1>12

\* Blank names do not matter to what a default entry is.
LEMMA DefaultAffinity ==
    ASSUME NEW names
    PROVE  isDefaultResourceAffinity(names \ {NoName}) <=>
              Wildcard \in names \/ names \subseteq {NoName}
<1>1. Wildcard # NoName
  BY DEF Wildcard, NoName
<1> QED BY <1>1 DEF isDefaultResourceAffinity

\* The host of a lookup, by the places of the entries.
LEMMA FoundHost ==
    ASSUME NEW left, NEW resource,
           NEW named, named = {k \in 1..Len(left) : resource \in left[k].resources \ {Wildcard}},
           NEW dflt, dflt = {k \in 1..Len(left) : isDefaultResourceAffinity(left[k].resources)}
    PROVE  hostForResourceAffinity(left, resource).host =
              IF named # {} /\ Min(named) # 0 THEN left[Min(named)].host
              ELSE IF dflt # {} /\ Min(dflt) # 0 THEN left[Min(dflt)].host ELSE NoURL
<1> DEFINE n == IF named # {} THEN Min(named) ELSE 0
           d == IF dflt # {} THEN Min(dflt) ELSE 0
<1>1. hostForResourceAffinity(left, resource) =
         IF n # 0 THEN [host |-> left[n].host, matched |-> TRUE]
         ELSE IF d # 0 THEN [host |-> left[d].host, matched |-> FALSE]
         ELSE [host |-> NoURL, matched |-> FALSE]
  BY Zenon DEF hostForResourceAffinity, SelectInSeq
<1>2. hostForResourceAffinity(left, resource).host =
         IF n # 0 THEN left[n].host ELSE IF d # 0 THEN left[d].host ELSE NoURL
  <2> HIDE DEF n, d
  <2> QED BY <1>1
<1> QED BY <1>2

\* A resource is served by the host of the first entry that names it, or else of
\* the first default entry.
LEMMA AffinityHost ==
    ASSUME NEW T, NEW entries \in Seq(T), NEW resource, resource # NoName,
           NEW host, host = hostForResourceAffinity(
                               normalizedResourceAffinityForLookup(entries), resource).host
    PROVE  IF Naming(entries, resource) # {}
           THEN FirstHost(host, entries, Naming(entries, resource))
           ELSE IF Defaults(entries) # {}
                THEN FirstHost(host, entries, Defaults(entries))
                ELSE host = NoURL
<1> DEFINE kept  == WithHost(entries)
           left  == normalizedResourceAffinityForLookup(entries)
           QN    == {entry \in T : resource \in entry.resources \ {Wildcard}}
           QD    == {entry \in T : \/ Wildcard \in entry.resources
                                   \/ entry.resources \subseteq {NoName}}
           named == {k \in 1..Len(left) : resource \in left[k].resources \ {Wildcard}}
           dflt  == {k \in 1..Len(left) : isDefaultResourceAffinity(left[k].resources)}
<1>1. /\ Len(left) = Len(kept) /\ kept \in Seq(T) /\ Len(kept) \in Nat
      /\ \A i \in 1..Len(kept) :
            /\ left[i].host = kept[i].host
            /\ left[i].resources = kept[i].resources \ {NoName}
            /\ \E k \in Hosting(entries) : kept[i] = entries[k]
  BY LeftForLookup
<1>2. named = PlacesOf(entries, QN)
  BY <1>1 DEF PlacesOf
<1>3. dflt = PlacesOf(entries, QD)
  <2>1. \A i \in 1..Len(kept) : isDefaultResourceAffinity(left[i].resources) <=> kept[i] \in QD
    <3> SUFFICES ASSUME NEW i \in 1..Len(kept)
                 PROVE  isDefaultResourceAffinity(left[i].resources) <=> kept[i] \in QD
      OBVIOUS
    <3>1. kept[i] \in T /\ left[i].resources = kept[i].resources \ {NoName}
      BY <1>1
    <3> HIDE DEF left, kept
    <3>2. isDefaultResourceAffinity(left[i].resources) <=>
             Wildcard \in kept[i].resources \/ kept[i].resources \subseteq {NoName}
      BY <3>1, DefaultAffinity
    <3> QED BY <3>1, <3>2
  <2> QED BY <1>1, <2>1 DEF PlacesOf
<1>4. /\ Naming(entries, resource) = {i \in Hosting(entries) : entries[i] \in QN}
      /\ Defaults(entries) = {i \in Hosting(entries) : entries[i] \in QD}
  BY DEF Naming, Defaults, Hosting
<1> HIDE DEF QN, QD
<1>5. /\ PlacesOf(entries, QN) # {} => Naming(entries, resource) # {}
      /\ PlacesOf(entries, QD) # {} => Defaults(entries) # {}
  BY <1>1, <1>4 DEF PlacesOf
<1>6. Naming(entries, resource) # {} =>
         /\ named # {} /\ Min(named) \in 1..Len(kept)
         /\ FirstHost(left[Min(named)].host, entries, Naming(entries, resource))
  <2> SUFFICES ASSUME Naming(entries, resource) # {}
               PROVE  /\ named # {} /\ Min(named) \in 1..Len(kept)
                      /\ FirstHost(left[Min(named)].host, entries, Naming(entries, resource))
    OBVIOUS
  <2> HIDE DEF named, left
  <2>1. /\ named # {} /\ Min(named) \in named
        /\ FirstHost(kept[Min(named)].host, entries, Naming(entries, resource))
    BY <1>2, <1>4, FirstLeft
  <2>2. Min(named) \in 1..Len(kept)
    BY <1>2, <2>1 DEF PlacesOf
  <2> QED BY <1>1, <2>1, <2>2
<1>7. Defaults(entries) # {} =>
         /\ dflt # {} /\ Min(dflt) \in 1..Len(kept)
         /\ FirstHost(left[Min(dflt)].host, entries, Defaults(entries))
  <2> SUFFICES ASSUME Defaults(entries) # {}
               PROVE  /\ dflt # {} /\ Min(dflt) \in 1..Len(kept)
                      /\ FirstHost(left[Min(dflt)].host, entries, Defaults(entries))
    OBVIOUS
  <2> HIDE DEF dflt, left
  <2>1. /\ dflt # {} /\ Min(dflt) \in dflt
        /\ FirstHost(kept[Min(dflt)].host, entries, Defaults(entries))
    BY <1>3, <1>4, FirstLeft
  <2>2. Min(dflt) \in 1..Len(kept)
    BY <1>3, <2>1 DEF PlacesOf
  <2> QED BY <1>1, <2>1, <2>2
<1>8. host = IF named # {} /\ Min(named) # 0 THEN left[Min(named)].host
             ELSE IF dflt # {} /\ Min(dflt) # 0 THEN left[Min(dflt)].host ELSE NoURL
  BY FoundHost
<1> HIDE DEF named, dflt, left
<1> QED BY <1>2, <1>3, <1>5, <1>6, <1>7, <1>8

----------------------------------------------------------------------------
(* The URL of a host.                                                      *)

\* A URL is resolved to one with the preferred host, if there is one.
LEMMA BaseURL ==
    ASSUME NEW configured \in URLs, configured # NoURL,
           NEW preferred, NEW url, url = ResolveHTTPSAccessBaseURL(configured, preferred)
    PROVE  /\ url # NoURL
           /\ url.host = IF preferred.host = "" THEN configured.host ELSE preferred.host
<1>1. NoURL.host = ""
  BY DEF NoURL
<1>2. CASE preferred.host = ""
  BY <1>2 DEF ResolveHTTPSAccessBaseURL
<1>3. CASE preferred.host # ""
  <2>1. url.host = preferred.host
    BY <1>3 DEF ResolveHTTPSAccessBaseURL, URLs
  <2> QED BY <1>1, <1>3, <2>1
<1> QED BY <1>2, <1>3

----------------------------------------------------------------------------
(* Access ids.                                                             *)

Providers == {IRODSGoREST, IRODSHTTPSAPI}

\* An id that is not of the older form is read back as what it was made of, and
\* is no other method's.
LEMMA ReadBack ==
    ASSUME NEW provider \in Providers, NEW resource \in Names,
           NEW id, id = buildHTTPSAffinityAccessID(provider, resource),
           ~RetiredAccessID(id)
    PROVE  /\ ParseHTTPSAccessID(id) = [provider |-> provider, resource |-> resource]
           /\ ParseHTTPSAccessID(id) # NotParsed
           /\ Len(id) > 1
<1>1. provider # ""
  BY DEF Providers, IRODSGoREST, IRODSHTTPSAPI
<1> DEFINE start == <<provider, "https">>
           Parts == STRING \cup {provider, "https"}
<1>2. /\ id = start \o resource /\ start \in Seq(Parts) /\ Len(start) = 2
      /\ start[1] = provider /\ start[2] = "https"
  <2>1. id = start \o resource
    BY <1>1 DEF buildHTTPSAffinityAccessID, buildHTTPSDefaultAccessID,
       EffectiveHTTPSAccessProvider
  <2> QED BY <2>1
<1>8. resource \in Seq(Parts)
  BY DEF Names
<1> HIDE DEF start, Parts
<1>3. /\ id \in Seq(Parts) /\ Len(id) = 2 + Len(resource) /\ Len(resource) \in Nat
      /\ id[1] = provider /\ id[2] = "https"
      /\ \A i \in 1..Len(resource) : id[2 + i] = resource[i]
  <2>1. /\ start \o resource \in Seq(Parts)
        /\ Len(start \o resource) = Len(start) + Len(resource)
        /\ \A i \in 1..(Len(start) + Len(resource)) :
              (start \o resource)[i] = IF i <= Len(start) THEN start[i]
                                       ELSE resource[i - Len(start)]
    BY <1>2, <1>8, ConcatProperties
  <2>2. Len(resource) \in Nat
    BY <1>8
  <2>3. \A i \in 1..(2 + Len(resource)) :
           id[i] = IF i <= 2 THEN start[i] ELSE resource[i - 2]
    BY <1>2, <2>1
  <2>4. ASSUME NEW i \in 1..Len(resource)
        PROVE  id[2 + i] = resource[i]
    <3>1. 2 + i \in 1..(2 + Len(resource)) /\ ~(2 + i <= 2) /\ (2 + i) - 2 = i
      BY <2>2
    <3> QED BY <2>3, <3>1
  <2>5. 1 \in 1..(2 + Len(resource)) /\ 2 \in 1..(2 + Len(resource))
    BY <2>2
  <2>6. id[1] = start[1] /\ id[2] = start[2]
    <3>1. \A i \in 1..(2 + Len(resource)) : i <= 2 => id[i] = start[i]
      BY <2>3
    <3> QED BY <2>5, <3>1
  <2>7. id[1] = provider /\ id[2] = "https"
    BY <1>2, <2>6, Zenon
  <2> QED BY <1>2, <2>1, <2>2, <2>4, <2>7
<1>4. SubSeq(id, 3, Len(id)) = resource
  <2>1. \A i \in 3..Len(id) : id[i] \in Parts
    BY <1>3
  <2>2. /\ SubSeq(id, 3, Len(id)) \in Seq(Parts)
        /\ Len(SubSeq(id, 3, Len(id))) = IF 3 <= Len(id) THEN Len(id) - 3 + 1 ELSE 0
        /\ \A i \in 1..(Len(id) - 3 + 1) : SubSeq(id, 3, Len(id))[i] = id[3 + i - 1]
    BY <1>3, <2>1, SubSeqProperties
  <2>3. Len(SubSeq(id, 3, Len(id))) = Len(resource)
    BY <1>3, <2>2
  <2>4. \A i \in 1..Len(resource) : SubSeq(id, 3, Len(id))[i] = resource[i]
    BY <1>3, <2>2
  <2> QED BY <1>8, <2>2, <2>3, <2>4, SeqEqual
<1>5. IsSupportedHTTPSAccessProvider(id[1])
  BY <1>3 DEF IsSupportedHTTPSAccessProvider, Providers
<1>6. ParseHTTPSAccessID(id) = [provider |-> provider, resource |-> resource]
  <2>1. ~RetiredAccessID(id) /\ Len(id) > 1 /\ IsSupportedHTTPSAccessProvider(id[1])
        /\ id[2] = "https"
    BY <1>3, <1>5
  <2>2. ParseHTTPSAccessID(id) = [provider |-> id[1], resource |-> SubSeq(id, 3, Len(id))]
    BY <2>1, Zenon DEF ParseHTTPSAccessID
  <2> QED BY <1>3, <1>4, <2>2
<1>7. ParseHTTPSAccessID(id) # NotParsed
  <2>1. ParseHTTPSAccessID(id).provider = provider
    BY <1>6
  <2>2. NotParsed.provider = ""
    BY DEF NotParsed
  <2> QED BY <1>1, <2>1, <2>2
<1> QED BY <1>3, <1>6, <1>7

----------------------------------------------------------------------------
(* The methods of an object.                                               *)

\* Methods are offered for resources with a name.
LEMMA ReplicaNames ==
    ASSUME NEW object, object.replicas \in Seq(Names), object.resource \in Names
    PROVE  objectReplicaResourceNames(object) \in Seq(Names \ {NoName})
<1> DEFINE names  == Append(object.replicas, object.resource)
           Again(i) == \E k \in 1..(i - 1) : names[k] = names[i]
           once   == [i \in DOMAIN names |-> IF Again(i) THEN NoName ELSE names[i]]
<1>1. names \in Seq(Names) /\ DOMAIN names = 1..Len(names) /\ Len(names) \in Nat
  OBVIOUS
<1>2. NoName \in Names
  BY DEF NoName, Names
<1> HIDE DEF names
<1>3. once \in Seq(Names)
  <2>1. \A i \in DOMAIN names : names[i] \in Names
    BY <1>1
  <2> QED BY <1>1, <1>2, <2>1
<1>4. objectReplicaResourceNames(object) = Without(once, {NoName})
  BY Zenon DEF objectReplicaResourceNames, names
<1> HIDE DEF once
<1>5. Without(once, {NoName}) \in Seq(Names \ {NoName})
  BY <1>3, KeptEntries
<1> QED BY <1>4, <1>5

\* An https method is for a resource, with its id, or for the primary one, if no
\* host is preferred for any.
ForResource(method, cfg, object, provider) ==
    \E resource \in Names :
        /\ method = Method("https", buildHTTPSAffinityAccessID(provider, resource),
                           method.region, NoURL)
        /\ \/ resource # NoName /\ method.region = resource
           \/ /\ resource = NoName /\ method.region = primaryReplicaResourceName(object)
              /\ normalizedResourceAffinityForLookup(cfg.affinities) = <<>>

\* It is made by a server that is configured for it.
HTTPSMethod(method, cfg, object) ==
    LET provider == EffectiveHTTPSAccessProvider(cfg.provider)
    IN  /\ cfg.https /\ cfg.base # NoURL /\ provider \in Providers
        /\ ForResource(method, cfg, object, provider)

\* Lists as sequences of what they list.
LEMMA OfListed ==
    ASSUME NEW n \in Nat, NEW f, f = [i \in 1..n |-> f[i]]
    PROVE  f \in Seq(Listed(f))
<1>1. DOMAIN f = 1..n
  OBVIOUS
<1>2. f \in [1..n -> Listed(f)]
  BY <1>1 DEF Listed
<1> QED BY <1>2

LEMMA ListedShort ==
    /\ Listed(<<>>) = {}
    /\ \A x : Listed(<<x>>) = {x} /\ <<x>> \in Seq({x})
<1>1. Listed(<<>>) = {}
  BY DEF Listed
<1>2. ASSUME NEW x PROVE Listed(<<x>>) = {x} /\ <<x>> \in Seq({x})
  BY DEF Listed
<1> QED BY <1>1, <1>2

LEMMA ProviderMethods ==
    ASSUME NEW cfg, NEW object,
           object.replicas \in Seq(Names), object.resource \in Names,
           NEW provider \in Providers,
           NEW methods, methods = buildProviderHTTPSAccessMethods(cfg, object, provider)
    PROVE  /\ methods \in Seq(Listed(methods))
           /\ \A method \in Listed(methods) : ForResource(method, cfg, object, provider)
<1> DEFINE resources  == objectReplicaResourceNames(object)
           affinities == normalizedResourceAffinityForLookup(cfg.affinities)
           each       == [i \in DOMAIN resources |->
                             Method("https", buildHTTPSAffinityAccessID(provider, resources[i]),
                                    resources[i], NoURL)]
           dedicated  == {method \in Range(each) :
                             hostForResourceAffinity(affinities, method.region).matched}
           several    == Without(each, Range(each) \ dedicated)
                             \o Without(each, dedicated)
           single     == Method("https", buildHTTPSDefaultAccessID(provider),
                                primaryReplicaResourceName(object), NoURL)
<1>1. methods = IF resources = <<>> THEN <<>>
                ELSE IF affinities = <<>> THEN <<single>> ELSE several
  BY Zenon DEF buildProviderHTTPSAccessMethods
<1>2. resources \in Seq(Names \ {NoName})
  BY ReplicaNames
<1>3. CASE resources = <<>>
  BY <1>1, <1>3 DEF Listed
<1>4. CASE resources # <<>> /\ affinities = <<>>
  <2>1. methods = <<single>>
    BY <1>1, <1>4
  <2>2. Listed(methods) = {single}
    <3> HIDE DEF single
    <3> QED BY <2>1 DEF Listed
  <2>3. ForResource(single, cfg, object, provider)
    <3>1. buildHTTPSAffinityAccessID(provider, NoName) = buildHTTPSDefaultAccessID(provider)
      BY DEF buildHTTPSAffinityAccessID, buildHTTPSDefaultAccessID, NoName
    <3>2. NoName \in Names
      BY DEF NoName, Names
    <3>3. single.region = primaryReplicaResourceName(object)
      BY DEF Method
    <3> QED BY <1>4, <3>1, <3>2, <3>3 DEF ForResource
  <2> HIDE DEF single
  <2> QED BY <2>1, <2>2, <2>3
<1>5. CASE resources # <<>> /\ affinities # <<>>
  <2>1. methods = several
    BY <1>1, <1>5
  <2> HIDE DEF resources
  <2>2. DOMAIN resources = 1..Len(resources) /\ Len(resources) \in Nat
        /\ \A i \in DOMAIN resources : resources[i] \in Names /\ resources[i] # NoName
    BY <1>2
  <2>3. ASSUME NEW i \in DOMAIN resources
        PROVE  ForResource(each[i], cfg, object, provider)
    <3>1. each[i] = Method("https", buildHTTPSAffinityAccessID(provider, resources[i]),
                           resources[i], NoURL)
      OBVIOUS
    <3>2. each[i].region = resources[i]
      BY <3>1 DEF Method
    <3> QED BY <2>2, <3>1, <3>2 DEF ForResource
  <2>4. each = [i \in 1..Len(resources) |-> each[i]] /\ DOMAIN each = DOMAIN resources
    BY <2>2
  <2> HIDE DEF each
  <2>5. each \in Seq(Listed(each))
    BY <2>2, <2>4, OfListed
  <2>6. ASSUME NEW dropped
        PROVE  /\ Without(each, dropped) \in Seq(Listed(each))
               /\ Listed(Without(each, dropped)) \subseteq Listed(each)
    <3>1. /\ Without(each, dropped) \in Seq(Listed(each) \ dropped)
          /\ Listed(Without(each, dropped)) = Listed(each) \ dropped
      BY <2>5, KeptEntries
    <3> QED BY <3>1
  <2> HIDE DEF dedicated
  <2>7. several \in Seq(Listed(each)) /\ Listed(several) \subseteq Listed(each)
    <3> DEFINE s == Without(each, Range(each) \ dedicated)
               t == Without(each, dedicated)
    <3>1. /\ s \in Seq(Listed(each)) /\ Listed(s) \subseteq Listed(each)
          /\ t \in Seq(Listed(each)) /\ Listed(t) \subseteq Listed(each)
      BY <2>6
    <3> HIDE DEF s, t
    <3>2. Listed(s \o t) = Listed(s) \cup Listed(t) /\ s \o t \in Seq(Listed(each))
      BY <3>1, ListedConcat
    <3>3. several = s \o t
      BY DEF s, t
    <3> QED BY <3>1, <3>2, <3>3
  <2> HIDE DEF several
  <2>8. several = [i \in 1..Len(several) |-> several[i]] /\ Len(several) \in Nat
    BY <2>7
  <2>9. several \in Seq(Listed(several))
    BY <2>8, OfListed
  <2>10. \A method \in Listed(several) : ForResource(method, cfg, object, provider)
    BY <2>3, <2>4, <2>7 DEF Listed
  <2> QED BY <2>1, <2>9, <2>10
<1> QED BY <1>3, <1>4, <1>5

LEMMA HTTPSMethods ==
    ASSUME NEW cfg, NEW object,
           object.replicas \in Seq(Names), object.resource \in Names,
           NEW methods, methods = buildHTTPSAccessMethods(cfg, object)
    PROVE  /\ methods \in Seq(Listed(methods))
           /\ \A method \in Listed(methods) : HTTPSMethod(method, cfg, object)
<1> DEFINE provider == EffectiveHTTPSAccessProvider(cfg.provider)
           built    == cfg.https /\ cfg.base # NoURL
                          /\ IsSupportedHTTPSAccessProvider(provider)
<1>1. methods = IF built THEN buildProviderHTTPSAccessMethods(cfg, object, provider)
                ELSE <<>>
  BY Zenon DEF buildHTTPSAccessMethods
<1> HIDE DEF provider
<1>2. CASE built
  <2>1. provider \in Providers
    BY <1>2 DEF IsSupportedHTTPSAccessProvider, Providers
  <2>2. /\ methods \in Seq(Listed(methods))
        /\ \A method \in Listed(methods) : ForResource(method, cfg, object, provider)
    BY <1>1, <1>2, <2>1, ProviderMethods
  <2> QED BY <1>2, <2>1, <2>2 DEF HTTPSMethod, provider
<1>3. CASE ~built
  BY <1>1, <1>3 DEF Listed
<1> QED BY <1>2, <1>3

IrodsMethod(method, cfg) ==
    cfg.irods /\ method.type = "irods" /\ method.id = IrodsAccessID

\* A method without a URL is an https one or the irods one; the others have one.
LEMMA MethodsBuilt ==
    ASSUME NEW cfg, NEW object, NEW buckets,
           object.replicas \in Seq(Names), object.resource \in Names,
           NEW methods, methods = BuildAccessMethodsWithFilesystem(cfg, object, buckets),
           NEW i \in DOMAIN methods, methods[i].url = NoURL
    PROVE  HTTPSMethod(methods[i], cfg, object) \/ IrodsMethod(methods[i], cfg)
<1> DEFINE A == buildHTTPSAccessMethods(cfg, object)
           B == buildIRODSAccessMethods(cfg, object)
           C == buildFileAccessMethods(cfg)
           D == buildS3AccessMethods(cfg, object, buckets)
           T == Listed(A) \cup Listed(B) \cup Listed(C) \cup Listed(D)
<1>1. A \in Seq(Listed(A)) /\ \A method \in Listed(A) : HTTPSMethod(method, cfg, object)
  BY HTTPSMethods
<1>2. B \in Seq(Listed(B)) /\ \A method \in Listed(B) : IrodsMethod(method, cfg)
  <2> DEFINE m == Method("irods", IrodsAccessID, primaryReplicaResourceName(object), NoURL)
  <2>1. B = IF cfg.irods THEN <<m>> ELSE <<>>
    BY Zenon DEF buildIRODSAccessMethods
  <2>2. cfg.irods => IrodsMethod(m, cfg)
    BY DEF IrodsMethod, Method
  <2> HIDE DEF m, B
  <2>3. B = <<m>> => B \in Seq(Listed(B)) /\ Listed(B) = {m}
    BY ListedShort
  <2>4. B = <<>> => B \in Seq(Listed(B)) /\ Listed(B) = {}
    BY ListedShort
  <2> QED BY <2>1, <2>2, <2>3, <2>4
<1>3. C \in Seq(Listed(C)) /\ \A method \in Listed(C) : method.url # NoURL
  <2> DEFINE m == Method("local", NoName, NoName, LocalURL)
  <2>1. C = IF cfg.file THEN <<m>> ELSE <<>>
    BY Zenon DEF buildFileAccessMethods
  <2>2. m.url # NoURL
    <3>1. m.url.host = "local" /\ NoURL.host = ""
      BY DEF Method, LocalURL, NoURL
    <3> QED BY <3>1
  <2> HIDE DEF m, C
  <2>3. C = <<m>> => C \in Seq(Listed(C)) /\ Listed(C) = {m}
    BY ListedShort
  <2>4. C = <<>> => C \in Seq(Listed(C)) /\ Listed(C) = {}
    BY ListedShort
  <2> QED BY <2>1, <2>2, <2>3, <2>4
<1>4. D \in Seq(Listed(D)) /\ \A method \in Listed(D) : method.url # NoURL
  <2> DEFINE bucket    == resolveS3BucketForDataObjectPath(buckets)
             resources == objectReplicaResourceNames(object)
             m(k)      == Method("s3", cfg.user, resources[k],
                                 [host |-> "s3", path |-> <<bucket>>])
  <2>1. D = IF cfg.s3 /\ bucket # "" THEN [k \in DOMAIN resources |-> m(k)] ELSE <<>>
    BY Zenon DEF buildS3AccessMethods
  <2>2. \A k : m(k).url # NoURL
    <3> TAKE k
    <3>1. m(k).url.host = "s3" /\ NoURL.host = ""
      BY DEF Method, NoURL
    <3> HIDE DEF m
    <3> QED BY <3>1
  <2>3. DOMAIN resources = 1..Len(resources) /\ Len(resources) \in Nat
    BY ReplicaNames
  <2> HIDE DEF m, D, resources, bucket
  <2>4. CASE cfg.s3 /\ bucket # ""
    <3>1. D = [k \in 1..Len(resources) |-> m(k)]
      BY <2>1, <2>3, <2>4
    <3>2. DOMAIN D = 1..Len(resources) /\ D = [k \in 1..Len(resources) |-> D[k]]
      BY <3>1
    <3>3. D \in Seq(Listed(D))
      BY <2>3, <3>2, OfListed
    <3>4. \A method \in Listed(D) : method.url # NoURL
      BY <2>2, <3>1, <3>2 DEF Listed
    <3> QED BY <3>3, <3>4
  <2>5. CASE ~(cfg.s3 /\ bucket # "")
    <3>1. D = <<>>
      BY <2>1, <2>5
    <3> QED BY <3>1, ListedShort
  <2> QED BY <2>4, <2>5
<1>5. methods = A \o B \o C \o D
  BY Zenon DEF BuildAccessMethodsWithFilesystem
<1> HIDE DEF A, B, C, D
<1>6. A \in Seq(T) /\ B \in Seq(T) /\ C \in Seq(T) /\ D \in Seq(T)
  BY <1>1, <1>2, <1>3, <1>4
<1> HIDE DEF T
<1>7. Listed(methods) = Listed(A) \cup Listed(B) \cup Listed(C) \cup Listed(D)
  <2>1. PICK AB : AB = A \o B
    OBVIOUS
  <2>2. PICK ABC : ABC = AB \o C
    OBVIOUS
  <2>3. AB \in Seq(T) /\ Listed(AB) = Listed(A) \cup Listed(B)
    BY <1>6, <2>1, ListedConcat
  <2>4. ABC \in Seq(T) /\ Listed(ABC) = Listed(AB) \cup Listed(C)
    BY <1>6, <2>2, <2>3, ListedConcat
  <2>5. methods = ABC \o D
    BY <1>5, <2>1, <2>2
  <2>6. Listed(methods) = Listed(ABC) \cup Listed(D)
    BY <1>6, <2>4, <2>5, ListedConcat
  <2> QED BY <2>3, <2>4, <2>6
<1>8. methods[i] \in Listed(methods)
  BY DEF Listed
<1> QED BY <1>1, <1>2, <1>3, <1>4, <1>7, <1>8
=============================================================================
