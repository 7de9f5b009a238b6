-------------------------- MODULE DrsListing_proofs --------------------------
(***************************************************************************)
(* Theorems about DrsListing, for any number of paths, any order of the    *)
(* queries, any page size and any number of entries that a query returns.  *)
(***************************************************************************)
EXTENDS DrsListing, Lists_proofs

----------------------------------------------------------------------------
(* The inductive invariant.                                                *)

EntryKinds == {"collection", "dataObject"}

\* The kinds that the listing queries, and those it has queried to the end.
Asked == Listed(drsListingEntryKinds(request.scope))
Done  == Asked \ Listed(kinds)

\* What was found is of the collection, and a query is left with more only when
\* the page and one entry more are there.
FoundFits ==
    /\ kinds \in Seq(EntryKinds) /\ Listed(kinds) \subseteq Asked /\ cursor \in Nat
    /\ \A p \in found : Kept(p) /\ KindOf(p) \in Asked
    /\ queryMore => ~request.exact /\ maxEntries <= Cardinality(found)

\* Of the kind that is queried, everything before the cursor is found; and of
\* the kinds before it everything, unless a query was left with more.
SeenFits ==
    /\ \A i \in 1..cursor :
          LET p == Matches(Head(kinds))[i] IN Kept(p) => p \in found
    /\ ~queryMore =>
          \A p \in Paths : Kept(p) /\ KindOf(p) \in Done => p \in found

\* The fast listing, under the conditions of FastPages.
FastAndPlain ==
    /\ ~request.exact
    /\ order = [i \in 1..PathCount |-> i]
    /\ \A p \in Paths : carries[p] # {} =>
           /\ p \notin Outside /\ "id" \in carries[p]
           /\ p \in Collections => "marker" \in carries[p]
    /\ maxEntries <= QueryLimit

\* One query tells all the page needs of a kind.
OneQuery ==
    FastAndPlain =>
        /\ cursor = 0
        /\ \A kind \in Done : \A i \in DOMAIN Matches(kind) :
              i <= maxEntries => Matches(kind)[i] \in found

\* A page is what was found when the last query returned.
ShownPaths == {p \in found : drsListingScopeIncludesObject(p)}

PageFits ==
    stage \in {"page", "listed"} =>
        /\ kinds = <<>>
        /\ page = [objects |-> Slice(SortedByPath(ShownPaths)),
                   hasMore |-> \/ queryMore
                               \/ offset + request.limit < Len(SortedByPath(ShownPaths))]

LInv == TypeOK /\ FoundFits /\ SeenFits /\ OneQuery /\ PageFits

----------------------------------------------------------------------------
(* Lists in ascending order.                                               *)

Increasing(s) == \A i, j \in DOMAIN s : i < j => s[i] < s[j]

\* A list that grows still does when a larger entry is added,
LEMMA GrowsOn ==
    ASSUME NEW s \in Seq(Nat), Increasing(s), NEW x \in Nat, \A y \in Listed(s) : y < x
    PROVE  Increasing(Append(s, x))
<1>1. /\ DOMAIN s = 1..Len(s) /\ Len(s) \in Nat
      /\ DOMAIN Append(s, x) = 1..(Len(s) + 1) /\ Append(s, x)[Len(s) + 1] = x
      /\ \A i \in DOMAIN s : Append(s, x)[i] = s[i]
  OBVIOUS
<1> SUFFICES ASSUME NEW i \in DOMAIN Append(s, x), NEW j \in DOMAIN Append(s, x), i < j
             PROVE  Append(s, x)[i] < Append(s, x)[j]
  BY DEF Increasing
<1>2. i \in DOMAIN s /\ (j \in DOMAIN s \/ j = Len(s) + 1)
  BY <1>1
<1>3. CASE j \in DOMAIN s
  BY <1>1, <1>2, <1>3 DEF Increasing
<1>4. CASE j = Len(s) + 1
  BY <1>1, <1>2, <1>4 DEF Listed
<1> QED BY <1>2, <1>3, <1>4

\* and when the loop passes over some of its entries.
LEMMA KeptGrows ==
    ASSUME NEW list \in Seq(Nat), Increasing(list), NEW dropped
    PROVE  Increasing(Without(list, dropped))
<1> DEFINE N == Len(list)
<1>1. N \in Nat /\ DOMAIN list = 1..N
  OBVIOUS
<1>2. PICK f : /\ f[0] = <<>>
               /\ \A n \in Nat : n + 1 <= N =>
                     f[n + 1] = IF list[n + 1] \in dropped THEN f[n]
                                ELSE Append(f[n], list[n + 1])
               /\ Without(list, dropped) = f[N]
  BY KeptTurns, SMTT(30)
<1> DEFINE Holds(n) == /\ f[n] \in Seq(Nat) /\ Increasing(f[n])
                       /\ Listed(f[n]) \subseteq {list[i] : i \in 1..n}
           S == {n \in Nat : n <= N => Holds(n)}
<1>3. 0 \in S
  <2>1. Increasing(<<>>) /\ Listed(<<>>) = {} /\ <<>> \in Seq(Nat)
    BY DEF Increasing, Listed
  <2>2. Holds(0)
    BY <1>2, <2>1
  <2> QED BY <2>2
<1>4. ASSUME NEW n \in Nat, n \in S PROVE n + 1 \in S
  <2> SUFFICES ASSUME n + 1 <= N PROVE Holds(n + 1)
    OBVIOUS
  <2> DEFINE x == list[n + 1]
  <2>1. n + 1 \in DOMAIN list /\ x \in Nat
    BY <1>1
  <2>2. Holds(n)
    BY <1>1, <1>4
  <2>3. {list[i] : i \in 1..(n + 1)} = {list[i] : i \in 1..n} \cup {x}
    OBVIOUS
  <2>4. \A y \in Listed(f[n]) : y < x
    <3> SUFFICES ASSUME NEW i \in 1..n PROVE list[i] < x
      BY <2>2
    <3>1. i \in DOMAIN list /\ i < n + 1
      BY <1>1
    <3> QED BY <2>1, <3>1 DEF Increasing
  <2>5. CASE x \in dropped
    BY <1>2, <2>2, <2>3, <2>5
  <2>6. CASE x \notin dropped
    <3>1. f[n + 1] = Append(f[n], x)
      BY <1>2, <2>6
    <3>2. Increasing(Append(f[n], x))
      BY <2>1, <2>2, <2>4, GrowsOn
    <3>3. Listed(Append(f[n], x)) = Listed(f[n]) \cup {x}
      BY <2>1, <2>2, ListedAppend
    <3> HIDE DEF x
    <3>4. Append(f[n], x) \in Seq(Nat)
      BY <2>1, <2>2
    <3> QED BY <2>2, <2>3, <3>1, <3>2, <3>3, <3>4
  <2> QED BY <2>5, <2>6
<1> HIDE DEF S
<1>5. N \in S
  BY <1>1, <1>3, <1>4, NatSetInduction
<1> QED BY <1>1, <1>2, <1>5 DEF S

\* A list has at most as many values as entries,
LEMMA CountListed ==
    ASSUME NEW T, NEW s \in Seq(T)
    PROVE  IsFiniteSet(Listed(s)) /\ Cardinality(Listed(s)) <= Len(s)
<1>1. DOMAIN s = 1..Len(s) /\ Len(s) \in Nat
  OBVIOUS
<1>2. IsFiniteSet(1..Len(s)) /\ Cardinality(1..Len(s)) = Len(s)
  BY <1>1, FS_Interval
<1>3. [i \in 1..Len(s) |-> s[i]] \in Surjection(1..Len(s), Listed(s))
  BY <1>1 DEF Surjection, Listed
<1> QED BY <1>2, <1>3, FS_Surjection

\* and one that grows exactly as many, so that its first m entries are m values.
LEMMA CountFirst ==
    ASSUME NEW s \in Seq(Nat), Increasing(s), NEW m \in Nat, m <= Len(s),
           NEW F, IsFiniteSet(F), \A i \in 1..m : s[i] \in F
    PROVE  m <= Cardinality(F)
<1>1. DOMAIN s = 1..Len(s) /\ Len(s) \in Nat /\ \A i \in DOMAIN s : s[i] \in Nat
  OBVIOUS
<1>2. Cardinality(1..m) = m
  BY FS_Interval
<1> DEFINE f == [i \in 1..m |-> s[i]]
<1>3. \A i, j \in 1..m : f[i] = f[j] => i = j
  <2> SUFFICES ASSUME NEW i \in 1..m, NEW j \in 1..m, s[i] = s[j], i # j PROVE FALSE
    OBVIOUS
  <2>1. i \in DOMAIN s /\ j \in DOMAIN s /\ (i < j \/ j < i)
    BY <1>1
  <2> QED BY <1>1, <2>1, SMTT(30) DEF Increasing
<1>4. f \in Injection(1..m, F)
  BY <1>3 DEF Injection, IsInjective
<1> QED BY <1>2, <1>4, FS_Injection

\* Two lists that grow begin alike as far as the one holds what the other has,
\* no earlier.
LEMMA SameStart ==
    ASSUME NEW s \in Seq(Nat), Increasing(s), NEW t \in Seq(Nat), Increasing(t),
           NoEarlier(s, t), NEW m \in Nat,
           \A i \in DOMAIN t : i <= m => t[i] \in Listed(s)
    PROVE  \A i \in DOMAIN t : i <= m => i \in DOMAIN s /\ s[i] = t[i]
<1> DEFINE T == {i \in DOMAIN t : i <= m /\ ~(i \in DOMAIN s /\ s[i] = t[i])}
<1> SUFFICES ASSUME T # {} PROVE FALSE
  OBVIOUS
<1>1. /\ DOMAIN s = 1..Len(s) /\ DOMAIN t = 1..Len(t)
      /\ Len(s) \in Nat /\ Len(t) \in Nat
      /\ \A i \in DOMAIN t : t[i] \in Nat
  OBVIOUS
<1>2. PICK i \in T : \A j \in T : ~(j < i)
  <2>1. T \subseteq Nat
    BY <1>1
  <2> QED BY <2>1, LeastNat
<1>3. PICK j \in DOMAIN s : s[j] = t[i]
  BY <1>2 DEF Listed
<1>4. PICK k \in DOMAIN t : j <= k /\ t[k] = s[j]
  BY DEF NoEarlier
<1>5. k = i
  <2> SUFFICES ASSUME k # i PROVE FALSE
    OBVIOUS
  <2>1. i \in DOMAIN t /\ (k < i \/ i < k)
    BY <1>1, <1>2, <1>4
  <2>2. t[k] < t[i] \/ t[i] < t[k]
    BY <1>4, <2>1 DEF Increasing
  <2> QED BY <1>1, <1>3, <1>4, <2>1, <2>2
<1>6. j < i
  BY <1>1, <1>2, <1>3, <1>4, <1>5
<1>7. j \in DOMAIN t /\ j <= m /\ s[j] = t[j]
  BY <1>1, <1>2, <1>3, <1>6
<1>8. t[j] < t[i] /\ t[j] = t[i]
  BY <1>2, <1>3, <1>6, <1>7 DEF Increasing
<1> QED BY <1>1, <1>7, <1>8

----------------------------------------------------------------------------
(* What the queries match, what pages are cut from.                        *)

\* The smaller of two numbers.
LEMMA MinOfTwo ==
    ASSUME NEW a \in Nat, NEW b \in Nat
    PROVE  Min({a, b}) = IF a <= b THEN a ELSE b
<1> DEFINE c == IF a <= b THEN a ELSE b
<1>1. c \in {a, b} /\ \A y \in {a, b} : c <= y
  OBVIOUS
<1>2. ASSUME NEW x \in {a, b}, \A y \in {a, b} : x <= y PROVE x = c
  BY <1>2
<1> QED BY <1>1, <1>2 DEF Min

\* The places of a part of a list, one that may end before the part does,
LEMMA PartHolds ==
    ASSUME NEW T, NEW s \in Seq(T), NEW from \in Nat, NEW to \in Nat
    PROVE  LET last == IF to <= Len(s) THEN to ELSE Len(s)
           IN  /\ Part(s, from, to) \in Seq(T)
               /\ Len(Part(s, from, to)) = IF from <= last THEN last - from ELSE 0
               /\ \A i \in 1..(last - from) : Part(s, from, to)[i] = s[from + i]
<1> DEFINE last == IF to <= Len(s) THEN to ELSE Len(s)
<1>1. /\ DOMAIN s = 1..Len(s) /\ Len(s) \in Nat
      /\ last \in Nat /\ last <= Len(s) /\ last = Min({to, Len(s)})
  BY MinOfTwo
<1> HIDE DEF last
<1>2. Part(s, from, to) = SubSeq(s, from + 1, last)
  BY <1>1 DEF Part
<1>3. \A i \in (from + 1)..last : s[i] \in T
  BY <1>1
<1>4. from + 1 \in Int /\ last \in Int
  BY <1>1
<1> DEFINE part == SubSeq(s, from + 1, last)
<1>5. /\ part \in Seq(T)
      /\ Len(part) = IF from + 1 <= last THEN last - (from + 1) + 1 ELSE 0
      /\ \A i \in 1..(last - (from + 1) + 1) : part[i] = s[(from + 1) + i - 1]
  BY <1>3, <1>4, SubSeqProperties
<1> HIDE DEF part
<1>6. Len(part) = IF from <= last THEN last - from ELSE 0
  BY <1>1, <1>5
<1>7. ASSUME NEW i \in 1..(last - from) PROVE part[i] = s[from + i]
  <2>1. (from + 1) + i - 1 = from + i /\ i \in 1..(last - (from + 1) + 1)
    BY <1>1
  <2> QED BY <1>5, <2>1
<1>8. Part(s, from, to) = part
  BY <1>2 DEF part
<1> QED BY <1>5, <1>6, <1>7, <1>8 DEF last

\* and one that does not.
LEMMA PartWithin ==
    ASSUME NEW T, NEW s \in Seq(T), NEW from \in Nat, NEW to \in Nat, to <= Len(s)
    PROVE  /\ Part(s, from, to) \in Seq(T)
           /\ Len(Part(s, from, to)) = IF from <= to THEN to - from ELSE 0
           /\ \A i \in 1..(to - from) : Part(s, from, to)[i] = s[from + i]
BY PartHolds

\* Lists that begin alike have the same parts there.
LEMMA SamePart ==
    ASSUME NEW T, NEW s \in Seq(T), NEW t \in Seq(T), NEW from \in Nat, NEW to \in Nat,
           to <= Len(s), to <= Len(t), \A n \in 1..to : s[n] = t[n]
    PROVE  Part(s, from, to) = Part(t, from, to)
<1> DEFINE Holds(part, list) ==
              /\ part \in Seq(T) /\ Len(part) = IF from <= to THEN to - from ELSE 0
              /\ \A i \in 1..(to - from) : part[i] = list[from + i]
<1>1. ASSUME NEW list \in Seq(T), to <= Len(list)
      PROVE  Holds(Part(list, from, to), list)
  <2>1. Part(list, from, to) \in Seq(T)
    BY <1>1, PartWithin
  <2>2. Len(Part(list, from, to)) = IF from <= to THEN to - from ELSE 0
    BY <1>1, PartWithin
  <2>3. \A i \in 1..(to - from) : Part(list, from, to)[i] = list[from + i]
    BY <1>1, PartWithin
  <2> QED BY <2>1, <2>2, <2>3
<1>2. PICK a : a = Part(s, from, to) /\ Holds(a, s)
  BY <1>1
<1>3. PICK b : b = Part(t, from, to) /\ Holds(b, t)
  BY <1>1
<1>4. ASSUME NEW i \in 1..Len(a) PROVE a[i] = b[i]
  <2>1. i \in 1..(to - from) /\ from + i \in 1..to
    BY <1>2
  <2> QED BY <1>2, <1>3, <2>1
<1>5. a = b
  BY <1>2, <1>3, <1>4, SeqEqual
<1> QED BY <1>2, <1>3, <1>5

\* A part holds the values of its places.
LEMMA PartListed ==
    ASSUME NEW T, NEW s \in Seq(T), NEW from \in Nat, NEW to \in Nat
    PROVE  /\ Range(Part(s, from, to)) \subseteq Listed(s)
           /\ \A i \in DOMAIN s : from < i /\ i <= to => s[i] \in Range(Part(s, from, to))
<1> DEFINE last == IF to <= Len(s) THEN to ELSE Len(s)
           part == Part(s, from, to)
<1>1. /\ DOMAIN s = 1..Len(s) /\ Len(s) \in Nat
      /\ last \in Nat /\ last <= Len(s) /\ last <= to /\ last = Min({to, Len(s)})
      /\ last = to \/ last = Len(s)
  BY MinOfTwo
<1>2. /\ part \in Seq(T) /\ Len(part) = IF from <= last THEN last - from ELSE 0
      /\ \A i \in 1..(last - from) : part[i] = s[from + i]
  BY PartHolds
<1> HIDE DEF last, part
<1>3. \A i : i \in DOMAIN part <=> i \in Nat /\ 1 <= i /\ from + i <= last
  <2>1. DOMAIN part = 1..Len(part)
    BY <1>2
  <2> QED BY <1>1, <1>2, <2>1
<1>4. ASSUME NEW i \in DOMAIN part PROVE part[i] \in Listed(s)
  <2>1. i \in Nat /\ 1 <= i /\ from + i <= last
    BY <1>3
  <2>2. from + i \in DOMAIN s /\ i \in 1..(last - from)
    BY <1>1, <2>1
  <2> QED BY <1>2, <2>2 DEF Listed
<1>5. ASSUME NEW i \in DOMAIN s, from < i, i <= to PROVE s[i] \in Range(part)
  <2>1. i \in Nat /\ i <= last
    BY <1>1, <1>5
  <2>2. i - from \in Nat /\ 1 <= i - from /\ from + (i - from) = i
    BY <1>5, <2>1
  <2>3. i - from \in DOMAIN part /\ i - from \in 1..(last - from)
    <3>1. i - from \in DOMAIN part
      <4>1. from + (i - from) <= last
        BY <2>1, <2>2
      <4> QED BY <1>3, <2>2, <4>1
    <3>2. i - from <= last - from
      BY <1>1, <2>1
    <3> QED BY <1>1, <2>2, <3>1, <3>2
  <2>4. part[i - from] = s[i]
    BY <1>2, <2>2, <2>3
  <2> QED BY <2>3, <2>4 DEF Range
<1> QED BY <1>4, <1>5 DEF Range, part

\* The entries that a query matches.
LEMMA Matched ==
    ASSUME TypeOK, NEW kind
    PROVE  /\ Matches(kind) \in Seq(Paths)
           /\ Len(Matches(kind)) \in Nat /\ DOMAIN Matches(kind) = 1..Len(Matches(kind))
           /\ Listed(Matches(kind)) = {p \in Paths : KindOf(p) = kind /\ carries[p] # {}}
<1>1. order \in [1..PathCount -> Paths] /\ \A p \in Paths : \E i \in 1..PathCount : order[i] = p
  BY ListingNumbers DEF TypeOK, Bijection, Surjection, Paths
<1>2. order \in Seq(Paths) /\ Listed(order) = Paths
  <2>1. order \in Seq(Paths)
    BY <1>1, ListingNumbers
  <2> QED BY <1>1, <2>1 DEF Listed
<1> DEFINE dropped == {p \in Paths : KindOf(p) # kind \/ carries[p] = {}}
<1>3. /\ Matches(kind) \in Seq(Paths \ dropped)
      /\ Listed(Matches(kind)) = Listed(order) \ dropped
  <2> HIDE DEF dropped
  <2>1. /\ Without(order, dropped) \in Seq(Paths \ dropped)
        /\ Listed(Without(order, dropped)) = Listed(order) \ dropped
    BY <1>2, KeptEntries
  <2> QED BY <2>1 DEF Matches, dropped
<1>4. Seq(Paths \ dropped) \subseteq Seq(Paths)
  OBVIOUS
<1>5. Matches(kind) \in Seq(Paths)
  BY <1>3, <1>4
<1>6. Paths \ dropped = {p \in Paths : KindOf(p) = kind /\ carries[p] # {}}
  OBVIOUS
<1> QED BY <1>2, <1>3, <1>5, <1>6

\* A set of paths in their order.
LEMMA Ranked ==
    ASSUME NEW paths
    PROVE  /\ SortedByPath(paths) \in Seq(Paths) /\ SortedByPath(paths) \in Seq(Nat)
           /\ Len(SortedByPath(paths)) \in Nat /\ Len(SortedByPath(paths)) <= PathCount
           /\ DOMAIN SortedByPath(paths) = 1..Len(SortedByPath(paths))
           /\ Listed(SortedByPath(paths)) = Paths \cap paths
           /\ Increasing(SortedByPath(paths))
<1> DEFINE all == [p \in Paths |-> p]
<1>1. PathCount \in Nat /\ Paths = 1..PathCount /\ Paths \subseteq Nat
  BY ListingNumbers DEF Paths
<1>2. all \in Seq(Paths) /\ Len(all) = PathCount /\ all \in Seq(Nat)
  BY <1>1
<1>3. Listed(all) = Paths
  BY DEF Listed
<1>4. Increasing(all)
  BY DEF Increasing
<1> HIDE DEF all
<1>5. SortedByPath(paths) = Without(all, Paths \ paths)
  BY DEF SortedByPath, all
<1>6. /\ Without(all, Paths \ paths) \in Seq(Paths \ (Paths \ paths))
      /\ Listed(Without(all, Paths \ paths)) = Paths \ (Paths \ paths)
  BY <1>2, <1>3, KeptEntries, ZenonT(60)
<1>7. Increasing(Without(all, Paths \ paths))
  BY <1>2, <1>4, KeptGrows
<1>8. Len(Without(all, Paths \ paths)) <= PathCount
  BY <1>2, KeptLater
<1>9. /\ Seq(Paths \ (Paths \ paths)) \subseteq Seq(Paths)
      /\ Seq(Paths) \subseteq Seq(Nat)
  BY <1>1
<1>10. SortedByPath(paths) \in Seq(Paths) /\ SortedByPath(paths) \in Seq(Nat)
  BY <1>5, <1>6, <1>9
<1>11. Len(SortedByPath(paths)) \in Nat
       /\ DOMAIN SortedByPath(paths) = 1..Len(SortedByPath(paths))
  BY <1>10
<1> QED BY <1>5, <1>6, <1>7, <1>8, <1>10, <1>11

\* With more paths, none of them comes earlier.
LEMMA RankedLater ==
    ASSUME NEW paths, NEW more, paths \subseteq more
    PROVE  NoEarlier(SortedByPath(paths), SortedByPath(more))
<1>1. [p \in Paths |-> p] \in Seq(Paths)
  BY ListingNumbers DEF Paths
<1>2. Paths \ more \subseteq Paths \ paths
  OBVIOUS
<1> QED BY <1>1, <1>2, KeptLater DEF SortedByPath

\* A listing queries the kinds that its scope takes in.
LEMMA Asking ==
    ASSUME TypeOK
    PROVE  /\ drsListingEntryKinds(request.scope) \in Seq(EntryKinds)
           /\ Asked \subseteq EntryKinds
           /\ \A p \in Paths : KindOf(p) \in Asked <=>
                 IF p \in Collections THEN request.scope # "objects"
                 ELSE request.scope # "compound"
<1>1. request.scope \in Scopes
  BY DEF TypeOK
<1>2. CASE request.scope = "objects"
  BY <1>2 DEF drsListingEntryKinds, EntryKinds, Asked, Listed, KindOf
<1>3. CASE request.scope = "compound"
  BY <1>3 DEF drsListingEntryKinds, EntryKinds, Asked, Listed, KindOf
<1>4. CASE request.scope = "all"
  <2>1. drsListingEntryKinds(request.scope) = <<"collection", "dataObject">>
    BY <1>4 DEF drsListingEntryKinds
  <2>2. Asked = {"collection", "dataObject"}
    BY <2>1 DEF Asked, Listed
  <2>3. drsListingEntryKinds(request.scope) \in Seq(EntryKinds)
    BY <2>1 DEF EntryKinds
  <2> QED BY <1>4, <2>2, <2>3 DEF EntryKinds, KindOf
<1> QED BY <1>1, <1>2, <1>3, <1>4 DEF Scopes

----------------------------------------------------------------------------
(* The inductive invariant holds.                                          *)

\* At the start of a page nothing is found yet, and no kind is done.
LEMMA StartFits ==
    ASSUME TypeOK, kinds = drsListingEntryKinds(request.scope), cursor = 0,
           found = {}, queryMore = FALSE
    PROVE  FoundFits /\ SeenFits /\ OneQuery
<1>1. kinds \in Seq(EntryKinds) /\ Listed(kinds) = Asked
  BY Asking DEF Asked
<1>2. Done = {}
  BY <1>1 DEF Done
<1> QED BY <1>1, <1>2 DEF FoundFits, SeenFits, OneQuery

LEMMA InitFits == ASSUME Init PROVE LInv
<1>1. TypeOK
  <2>1. kinds = drsListingEntryKinds(request.scope) /\ request.scope \in Scopes
    BY DEF Init
  <2>2. Range(kinds) \subseteq {"collection", "dataObject"}
    BY <2>1 DEF drsListingEntryKinds, Scopes, Range
  <2>3. page.objects \in Seq(Paths) /\ page.hasMore \in BOOLEAN
    BY DEF Init, NoPage
  <2>4. cursor = 0 /\ offset = 0 /\ found = {} /\ queryMore = FALSE
    BY DEF Init
  <2>5. /\ carries \in [Paths -> SUBSET {"id", "marker"}] /\ order \in Orders
        /\ request \in [scope : Scopes, exact : BOOLEAN, limit : Limits]
        /\ stage \in {"query", "page", "listed", "failed"}
    BY DEF Init
  <2>6. offset \in Nat /\ ~(offset > 0) /\ ~(cursor > 0) /\ found \subseteq Paths
    BY <2>4
  <2> QED BY <2>2, <2>3, <2>4, <2>5, <2>6 DEF TypeOK
<1>2. FoundFits /\ SeenFits /\ OneQuery
  BY <1>1, StartFits DEF Init
<1> QED BY <1>1, <1>2 DEF LInv, PageFits, Init

\* A step that only turns or shows the page leaves the queries alone.
LEMMA SameQueries ==
    ASSUME FoundFits, SeenFits, OneQuery,
           UNCHANGED <<carries, order, request, offset, kinds, cursor, found, queryMore>>
    PROVE  (FoundFits /\ SeenFits /\ OneQuery)'
<1>1. Asked' = Asked /\ Done' = Done
  BY DEF Asked, Done
<1>2. \A kind : Matches(kind)' = Matches(kind)
  BY DEF Matches
<1>3. Matches(Head(kinds))' = Matches(Head(kinds))
  BY DEF Matches
<1>4. FoundFits'
  BY <1>1 DEF FoundFits, Kept, maxEntries
<1>5. SeenFits'
  BY <1>1, <1>3 DEF SeenFits, Kept
<1>6. OneQuery'
  BY <1>1, <1>2 DEF OneQuery, FastAndPlain, maxEntries
<1> QED BY <1>4, <1>5, <1>6

\* The numbers that a query goes by.
LEMMA QueryNumbers ==
    ASSUME TypeOK
    PROVE  /\ offset \in Nat /\ request.limit \in Nat /\ request.limit > 0
           /\ maxEntries \in Nat /\ maxEntries = offset + request.limit + 1
           /\ drsListingQueryLimit \in Nat /\ drsListingQueryLimit > 0
           /\ IsFiniteSet(Paths) /\ Cardinality(Paths) = PathCount
<1>1. /\ offset \in Nat /\ request.limit \in Nat /\ request.limit > 0
      /\ QueryLimit \in Nat /\ QueryLimit > 0
  <2>1. offset \in Nat /\ request.limit \in Limits
    BY DEF TypeOK
  <2>2. Limits \subseteq Nat \ {0} /\ QueryLimit \in Nat \ {0}
    BY ListingNumbers
  <2>3. request.limit \in Nat \ {0}
    BY <2>1, <2>2
  <2> QED BY <2>1, <2>2, <2>3
<1>2. maxEntries \in Nat /\ maxEntries = offset + request.limit + 1
  BY <1>1 DEF maxEntries
<1>3. drsListingQueryLimit \in Nat /\ drsListingQueryLimit > 0
  BY <1>1, <1>2 DEF drsListingQueryLimit
<1>4. IsFiniteSet(Paths) /\ Cardinality(Paths) = PathCount
  BY ListingNumbers, FS_Interval DEF Paths
<1> QED BY <1>1, <1>2, <1>3, <1>4

\* Counting what was found: it is finite, and more of it counts no less.
LEMMA CountFound ==
    ASSUME TypeOK, NEW more \in SUBSET Paths, NEW some, some \subseteq more
    PROVE  /\ IsFiniteSet(more) /\ Cardinality(more) \in Nat
           /\ Cardinality(some) \in Nat /\ Cardinality(some) <= Cardinality(more)
           /\ Cardinality(more) <= PathCount
<1>1. IsFiniteSet(Paths) /\ Cardinality(Paths) = PathCount
  BY QueryNumbers
<1>2. IsFiniteSet(more) /\ Cardinality(more) <= PathCount
  BY <1>1, FS_Subset
<1>3. IsFiniteSet(some) /\ Cardinality(some) <= Cardinality(more)
  BY <1>2, FS_Subset
<1> QED BY <1>2, <1>3, FS_CardinalityType

\* A query returns entries of its kind, all of them up to where it stops.
LEMMA Returned ==
    ASSUME TypeOK, FoundFits, NEW kind
    PROVE  LET rows == Range(Part(Matches(kind), cursor, SeenUntil))
           IN  /\ SeenUntil \in Nat /\ cursor < SeenUntil
               /\ \A p \in rows : p \in Paths /\ KindOf(p) = kind
               /\ \A i \in DOMAIN Matches(kind) :
                     cursor < i /\ i <= SeenUntil => Matches(kind)[i] \in rows
<1>1. SeenUntil \in Nat /\ cursor < SeenUntil /\ cursor \in Nat
  BY QueryNumbers DEF FoundFits, SeenUntil
<1>2. /\ Matches(kind) \in Seq(Paths)
      /\ Listed(Matches(kind)) = {p \in Paths : KindOf(p) = kind /\ carries[p] # {}}
  BY Matched
<1> QED BY <1>1, <1>2, PartListed

\* When the query returns paths in their order, so does it those of a kind.
LEMMA MatchedInOrder ==
    ASSUME TypeOK, order = [i \in 1..PathCount |-> i], NEW kind
    PROVE  Matches(kind) \in Seq(Nat) /\ Increasing(Matches(kind))
<1> DEFINE all == [i \in 1..PathCount |-> i]
           dropped == {p \in Paths : KindOf(p) # kind \/ carries[p] = {}}
<1>1. all \in Seq(Nat) /\ Increasing(all)
  BY ListingNumbers DEF Increasing
<1> HIDE DEF all, dropped
<1>2. Increasing(Without(all, dropped)) /\ Without(all, dropped) \in Seq(Nat \ dropped)
  BY <1>1, KeptGrows, KeptEntries
<1>3. Matches(kind) = Without(all, dropped)
  BY DEF Matches, all, dropped
<1>4. Seq(Nat \ dropped) \subseteq Seq(Nat)
  OBVIOUS
<1> QED BY <1>2, <1>3, <1>4

LEMMA QueryFits == ASSUME LInv, Query PROVE LInv'
<1> DEFINE kind    == Head(kinds)
           matches == Matches(kind)
           rows    == Range(Part(matches, cursor, SeenUntil))
           all     == found \cup {p \in rows : Kept(p)}
           more    == SeenUntil < Len(matches)
           enough  == /\ Bounded
                      /\ \/ Cardinality(all) > maxEntries
                         \/ more /\ Cardinality(all) >= maxEntries
           again   == more /\ ~enough
<1>1. /\ stage = "query" /\ kinds # <<>>
      /\ UNCHANGED <<carries, order, request, offset, stage, page>>
  BY DEF Query
<1>2. /\ found' = all /\ queryMore' = (queryMore \/ enough)
      /\ cursor' = (IF again THEN SeenUntil ELSE 0)
      /\ kinds' = (IF again THEN kinds ELSE Tail(kinds))
  BY DEF Query, FirstCursor
<1>3. TypeOK /\ FoundFits /\ SeenFits /\ OneQuery
  BY DEF LInv
<1>4. /\ kind \in EntryKinds /\ kind \in Listed(kinds) /\ kind \in Asked
      /\ Tail(kinds) \in Seq(EntryKinds)
      /\ Listed(kinds) = {kind} \cup Listed(Tail(kinds))
      /\ Listed(kinds) \subseteq Asked
  <2>1. kinds \in Seq(EntryKinds) /\ Listed(kinds) \subseteq Asked
    BY <1>3 DEF FoundFits
  <2>2. Listed(kinds) = {kind} \cup Listed(Tail(kinds))
    BY <1>1, <2>1, ListedTail
  <2> QED BY <1>1, <2>1, <2>2
<1>5. /\ matches \in Seq(Paths) /\ Len(matches) \in Nat
      /\ DOMAIN matches = 1..Len(matches)
      /\ Listed(matches) = {p \in Paths : KindOf(p) = kind /\ carries[p] # {}}
  BY <1>3, Matched
<1>6. /\ SeenUntil \in Nat /\ cursor \in Nat /\ cursor < SeenUntil
      /\ \A p \in rows : p \in Paths /\ KindOf(p) = kind
      /\ \A i \in DOMAIN matches : cursor < i /\ i <= SeenUntil => matches[i] \in rows
  BY <1>3, Returned DEF FoundFits
<1>7. \A i \in 1..cursor : Kept(matches[i]) => matches[i] \in found
  BY <1>3 DEF SeenFits
<1>8. offset \in Nat /\ maxEntries \in Nat
  BY <1>3, QueryNumbers
<1> HIDE DEF kind, matches, rows
<1>9. /\ found \subseteq all /\ all \subseteq Paths
      /\ \A p \in all : Kept(p) /\ KindOf(p) \in Asked
      /\ Cardinality(found) \in Nat /\ Cardinality(all) \in Nat
      /\ Cardinality(found) <= Cardinality(all) /\ IsFiniteSet(all)
  <2>1. found \subseteq all /\ all \subseteq Paths
    BY <1>3, <1>6 DEF TypeOK
  <2>2. \A p \in all : Kept(p) /\ KindOf(p) \in Asked
    BY <1>3, <1>4, <1>6 DEF FoundFits
  <2> HIDE DEF all
  <2> QED BY <1>3, <2>1, <2>2, CountFound
<1>10. \A i \in DOMAIN matches : i <= SeenUntil /\ Kept(matches[i]) => matches[i] \in all
  <2> SUFFICES ASSUME NEW i \in DOMAIN matches, i <= SeenUntil, Kept(matches[i])
               PROVE  matches[i] \in all
    OBVIOUS
  <2>1. i \in 1..cursor \/ cursor < i
    BY <1>5, <1>6
  <2> QED BY <1>6, <1>7, <2>1
<1>11. ~more => \A p \in Paths : Kept(p) /\ KindOf(p) = kind => p \in all
  <2> SUFFICES ASSUME ~more, NEW p \in Paths, Kept(p), KindOf(p) = kind PROVE p \in all
    OBVIOUS
  <2>1. p \in Listed(matches)
    BY <1>5 DEF Kept
  <2>2. PICK i \in DOMAIN matches : matches[i] = p
    BY <2>1 DEF Listed
  <2>3. i <= SeenUntil
    BY <1>5, <1>6
  <2> QED BY <1>10, <2>2, <2>3
<1>12. /\ Asked' = Asked /\ maxEntries' = maxEntries
       /\ (\A p : Kept(p)' = Kept(p)) /\ FastAndPlain' = FastAndPlain
       /\ \A k : Matches(k)' = Matches(k)
  BY <1>1 DEF Asked, maxEntries, Kept, FastAndPlain, Matches
<1>13. Done' = Asked \ Listed(kinds')
  BY <1>12 DEF Done
<1>14. Listed(kinds') \subseteq Asked /\ kinds' \in Seq(EntryKinds)
  BY <1>2, <1>3, <1>4 DEF FoundFits
<1>15. Done' \subseteq Done \cup {kind} /\ (again => Done' = Done)
  BY <1>2, <1>4, <1>13 DEF Done
<1>16. enough => ~request.exact /\ maxEntries <= Cardinality(all)
  BY <1>8, <1>9 DEF Bounded
<1>17. Matches(Head(kinds))' = matches \/ ~again
  BY <1>1, <1>2 DEF Matches, matches, kind
<1> HIDE DEF all, more
<1>18. FoundFits'
  <2>1. queryMore' => ~request.exact /\ maxEntries <= Cardinality(all)
    <3> HIDE DEF enough
    <3>1. queryMore => ~request.exact /\ maxEntries <= Cardinality(found)
      BY <1>3 DEF FoundFits
    <3>2. maxEntries <= Cardinality(found) => maxEntries <= Cardinality(all)
      BY <1>8, <1>9
    <3>3. queryMore' => queryMore \/ enough
      BY <1>2
    <3> QED BY <1>16, <3>1, <3>2, <3>3
  <2>2. cursor' \in Nat
    BY <1>2, <1>6
  <2> QED BY <1>1, <1>2, <1>9, <1>12, <1>14, <2>1, <2>2 DEF FoundFits
<1>19. SeenFits'
  <2>1. ASSUME NEW i \in 1..cursor', Kept(Matches(Head(kinds))'[i])
        PROVE  Matches(Head(kinds))'[i] \in all
    <3>1. again /\ cursor' = SeenUntil
      BY <1>2, <2>1
    <3>2. i \in DOMAIN matches /\ i <= SeenUntil
      BY <1>5, <1>6, <2>1, <3>1 DEF more
    <3> QED BY <1>10, <1>17, <2>1, <3>1, <3>2
  <2>2. ASSUME ~queryMore', NEW p \in Paths, Kept(p), KindOf(p) \in Done'
        PROVE  p \in all
    <3>1. ~queryMore /\ ~enough
      BY <1>2, <2>2
    <3>2. CASE KindOf(p) \in Done
      BY <1>3, <1>9, <2>2, <3>1, <3>2 DEF SeenFits
    <3>3. CASE KindOf(p) \notin Done
      <4>1. KindOf(p) = kind /\ ~again
        BY <1>15, <2>2, <3>3
      <4> QED BY <1>11, <2>2, <3>1, <4>1
    <3> QED BY <3>2, <3>3
  <2> QED BY <1>2, <1>12, <2>1, <2>2 DEF SeenFits
<1>20. OneQuery'
  <2> SUFFICES ASSUME FastAndPlain
               PROVE  /\ cursor' = 0
                      /\ \A k \in Done' : \A i \in DOMAIN Matches(k) :
                            i <= maxEntries => Matches(k)[i] \in all
    BY <1>2, <1>12 DEF OneQuery
  <2>1. cursor = 0 /\ SeenUntil = maxEntries
    BY <1>3, <1>8 DEF OneQuery, FastAndPlain, SeenUntil, drsListingQueryLimit, Bounded
  <2>2. \A i \in DOMAIN matches : Kept(matches[i])
    BY <1>5 DEF FastAndPlain, Kept, Listed
  <2>3. \A i \in DOMAIN matches : i <= maxEntries => matches[i] \in all
    BY <1>10, <2>1, <2>2
  <2>4. ~again
    <3> SUFFICES ASSUME more PROVE enough
      OBVIOUS
    <3>1. maxEntries <= Len(matches)
      BY <1>5, <1>8, <2>1 DEF more
    <3>2. matches \in Seq(Nat) /\ Increasing(matches)
      BY <1>3, MatchedInOrder DEF FastAndPlain, matches
    <3>3. \A i \in 1..maxEntries : matches[i] \in all
      BY <1>5, <1>8, <2>3, <3>1
    <3>4. maxEntries <= Cardinality(all)
      BY <1>8, <1>9, <3>1, <3>2, <3>3, CountFirst
    <3> QED BY <1>8, <1>9, <3>4 DEF FastAndPlain, Bounded
  <2>5. \A k \in Done' : k = kind \/ k \in Done
    BY <1>15
  <2>6. \A k \in Done : \A i \in DOMAIN Matches(k) : i <= maxEntries => Matches(k)[i] \in found
    BY <1>3 DEF OneQuery
  <2> HIDE DEF again
  <2> QED BY <1>2, <1>9, <2>3, <2>4, <2>5, <2>6 DEF matches
<1>21. TypeOK'
  <2>1. cursor' > 0 => kinds' # <<>> /\ cursor' < Len(Matches(Head(kinds))')
    <3> SUFFICES ASSUME again PROVE kinds' # <<>> /\ cursor' < Len(Matches(Head(kinds))')
      BY <1>2
    <3> QED BY <1>1, <1>2, <1>17 DEF more
  <2>2. Range(kinds') \subseteq {"collection", "dataObject"}
    BY <1>14 DEF EntryKinds, Range
  <2>3. found' \subseteq Paths /\ queryMore' \in BOOLEAN
    BY <1>2, <1>3, <1>9 DEF TypeOK
  <2> QED BY <1>1, <1>3, <2>1, <2>2, <2>3 DEF TypeOK
<1>22. PageFits'
  BY <1>1 DEF PageFits
<1> QED BY <1>18, <1>19, <1>20, <1>21, <1>22 DEF LInv

LEMMA QueryFailsFits == ASSUME LInv, QueryFails PROVE LInv'
<1>1. /\ stage' = "failed"
      /\ UNCHANGED <<carries, order, request, offset, kinds, cursor, found, queryMore, page>>
  BY DEF QueryFails
<1>2. (FoundFits /\ SeenFits /\ OneQuery)'
  BY <1>1, SameQueries DEF LInv
<1>3. TypeOK'
  BY <1>1 DEF LInv, TypeOK, Matches
<1> QED BY <1>1, <1>2, <1>3 DEF LInv, PageFits

LEMMA PageStepFits == ASSUME LInv, Page PROVE LInv'
<1> DEFINE objects == SortedByPath(ShownPaths)
           shown   == [objects |-> Slice(objects),
                       hasMore |-> queryMore \/ offset + request.limit < Len(objects)]
<1>1. /\ stage' = "page" /\ kinds = <<>> /\ page' = shown
      /\ UNCHANGED <<carries, order, request, offset, kinds, cursor, found, queryMore>>
  BY DEF Page, ShownPaths
<1>2. TypeOK
  BY DEF LInv
<1>3. (FoundFits /\ SeenFits /\ OneQuery)'
  BY <1>1, SameQueries DEF LInv
<1>4. shown' = shown
  BY <1>1 DEF Slice, ShownPaths, drsListingScopeIncludesObject
<1>5. page'.objects \in Seq(Paths) /\ page'.hasMore \in BOOLEAN
  <2>1. offset \in Nat /\ offset + request.limit \in Nat /\ objects \in Seq(Paths)
    BY <1>2, QueryNumbers, Ranked
  <2>2. Slice(objects) \in Seq(Paths)
    BY <2>1, PartHolds DEF Slice
  <2> QED BY <1>1, <2>2
<1> HIDE DEF shown
<1>6. TypeOK'
  BY <1>1, <1>2, <1>5 DEF TypeOK, Matches
<1>7. PageFits'
  BY <1>1, <1>4 DEF PageFits, shown
<1> QED BY <1>3, <1>6, <1>7 DEF LInv

LEMMA NextPageFits == ASSUME LInv, NextPage PROVE LInv'
<1>1. /\ stage = "page" /\ page.hasMore
      /\ offset' = offset + request.limit /\ stage' = "query"
      /\ kinds' = drsListingEntryKinds(request.scope)
      /\ cursor' = 0 /\ found' = {} /\ queryMore' = FALSE
      /\ UNCHANGED <<carries, order, request, page>>
  BY DEF NextPage
<1>2. TypeOK /\ FoundFits /\ PageFits
  BY DEF LInv
<1>3. offset \in Nat /\ request.limit \in Nat /\ maxEntries = offset + request.limit + 1
  BY <1>2, QueryNumbers
<1>4. PathCount \in Nat
  BY ListingNumbers
<1>5. offset + request.limit < PathCount
  <2>1. queryMore \/ offset + request.limit < Len(SortedByPath(ShownPaths))
    BY <1>1, <1>2 DEF PageFits
  <2>2. CASE queryMore
    <3>1. maxEntries <= Cardinality(found)
      BY <1>2, <2>2 DEF FoundFits
    <3>2. Cardinality(found) \in Nat /\ Cardinality(found) <= PathCount
      BY <1>2, CountFound DEF TypeOK
    <3> QED BY <1>3, <1>4, <3>1, <3>2
  <2>3. CASE offset + request.limit < Len(SortedByPath(ShownPaths))
    <3>1. /\ Len(SortedByPath(ShownPaths)) \in Nat
          /\ Len(SortedByPath(ShownPaths)) <= PathCount
      BY Ranked
    <3> QED BY <1>3, <1>4, <2>3, <3>1
  <2> QED BY <2>1, <2>2, <2>3
<1>6. TypeOK'
  <2>1. Range(kinds') \subseteq {"collection", "dataObject"}
    BY <1>1, <1>2, Asking DEF EntryKinds, Range
  <2>2. offset' \in Nat /\ offset' < PathCount
    BY <1>1, <1>3, <1>5
  <2>3. found' \subseteq Paths /\ queryMore' \in BOOLEAN
    BY <1>1
  <2>4. ~(cursor' > 0)
    <3>1. cursor' = 0
      BY <1>1
    <3> QED BY <3>1
  <2> QED BY <1>1, <1>2, <2>1, <2>2, <2>3, <2>4 DEF TypeOK
<1>7. (FoundFits /\ SeenFits /\ OneQuery)'
  <2>1. kinds' \in Seq(EntryKinds) /\ Listed(kinds') = Asked /\ Asked' = Asked
    BY <1>1, <1>2, Asking DEF Asked
  <2>2. Done' = {}
    BY <2>1 DEF Done
  <2> QED BY <1>1, <2>1, <2>2 DEF FoundFits, SeenFits, OneQuery
<1> QED BY <1>1, <1>6, <1>7 DEF LInv, PageFits

LEMMA LastPageFits == ASSUME LInv, LastPage PROVE LInv'
<1>1. /\ stage = "page" /\ stage' = "listed"
      /\ UNCHANGED <<carries, order, request, offset, kinds, cursor, found, queryMore, page>>
  BY DEF LastPage
<1>2. (FoundFits /\ SeenFits /\ OneQuery)'
  BY <1>1, SameQueries DEF LInv
<1>3. TypeOK'
  BY <1>1 DEF LInv, TypeOK, Matches
<1>4. PageFits'
  BY <1>1 DEF LInv, PageFits, Slice, ShownPaths, drsListingScopeIncludesObject
<1> QED BY <1>2, <1>3, <1>4 DEF LInv

LEMMA StutterFits == ASSUME LInv, UNCHANGED vars PROVE LInv'
<1>1. UNCHANGED <<carries, order, request, offset, stage, kinds, cursor, found, queryMore, page>>
  BY DEF vars, listing
<1>2. (FoundFits /\ SeenFits /\ OneQuery)'
  BY <1>1, SameQueries DEF LInv
<1>3. TypeOK'
  BY <1>1 DEF LInv, TypeOK, Matches
<1>4. PageFits'
  BY <1>1 DEF LInv, PageFits, Slice, ShownPaths, drsListingScopeIncludesObject
<1> QED BY <1>2, <1>3, <1>4 DEF LInv

\* Whatever is listed, and however the queries return it: pages show what was
\* found, and what was found reaches as far as the queries did.
THEOREM ListingInvariance == Spec => []LInv
<1>1. Init => LInv
  BY InitFits
<1>2. LInv /\ [Next]_vars => LInv'
  BY QueryFits, QueryFailsFits, PageStepFits, NextPageFits, LastPageFits, StutterFits
     DEF Next
<1> QED BY <1>1, <1>2, PTL DEF Spec

----------------------------------------------------------------------------
(* The pages.                                                              *)

\* The variables keep their types, and no listing turns to a page that begins
\* behind the last path.
THEOREM ListingTypes == Spec => []TypeOK
<1>1. LInv => TypeOK
  BY DEF LInv
<1> QED BY <1>1, ListingInvariance, PTL

\* The paths that the listing means.
ListedPaths ==
    {p \in Paths : Kept(p) /\ drsListingScopeIncludesObject(p)}

\* A page shows paths of the listing, and all of them if no query was left with
\* more to return.
LEMMA WhatIsShown ==
    ASSUME LInv, stage = "page"
    PROVE  /\ page = [objects |-> Slice(SortedByPath(ShownPaths)),
                      hasMore |-> \/ queryMore
                                  \/ offset + request.limit < Len(SortedByPath(ShownPaths))]
           /\ Listing = SortedByPath(ListedPaths)
           /\ ShownPaths \subseteq ListedPaths
           /\ ~queryMore => ShownPaths = ListedPaths
           /\ Done = Asked
           /\ \A p \in ListedPaths : KindOf(p) \in Asked
<1>1. TypeOK /\ FoundFits /\ SeenFits /\ PageFits
  BY DEF LInv
<1>2. kinds = <<>> /\ page = [objects |-> Slice(SortedByPath(ShownPaths)),
                      hasMore |-> \/ queryMore
                                  \/ offset + request.limit < Len(SortedByPath(ShownPaths))]
  BY <1>1 DEF PageFits
<1>3. Listing = SortedByPath(ListedPaths)
  <2>1. ListedPaths = {p \in Paths : /\ p \notin Outside /\ "id" \in carries[p]
                                     /\ drsListingScopeIncludesObject(p)}
    BY DEF ListedPaths, Kept
  <2> QED BY <2>1 DEF Listing
<1>4. ShownPaths \subseteq ListedPaths
  BY <1>1 DEF ShownPaths, ListedPaths, TypeOK, FoundFits
<1>5. Listed(kinds) = {}
  BY <1>2 DEF Listed
<1>6. Done = Asked
  BY <1>5 DEF Done
<1>7. \A p \in ListedPaths : KindOf(p) \in Asked
  BY <1>1, Asking DEF ListedPaths, drsListingScopeIncludesObject
<1>8. ASSUME ~queryMore PROVE ListedPaths \subseteq ShownPaths
  BY <1>1, <1>6, <1>7, <1>8 DEF SeenFits, ShownPaths, ListedPaths
<1> QED BY <1>2, <1>3, <1>4, <1>6, <1>7, <1>8

\* What a page shows is an object of the listing, in the order of paths, once,
\* and at no smaller place than the offset.
THEOREM PagesAreSound == Spec => []PagesSound
<1>1. LInv => PagesSound
  <2> SUFFICES ASSUME LInv, stage = "page", NEW i \in 1..Len(page.objects)
               PROVE  /\ \E j \in offset + i..Len(Listing) : Listing[j] = page.objects[i]
                      /\ i > 1 => page.objects[i - 1] < page.objects[i]
    BY DEF PagesSound
  <2> DEFINE objects == SortedByPath(ShownPaths)
             to      == offset + request.limit
             last    == IF to <= Len(objects) THEN to ELSE Len(objects)
  <2>1. TypeOK /\ offset \in Nat /\ to \in Nat
    BY QueryNumbers DEF LInv
  <2>2. /\ objects \in Seq(Nat) /\ Len(objects) \in Nat
        /\ DOMAIN objects = 1..Len(objects) /\ Increasing(objects)
    BY Ranked
  <2>3. /\ Len(Listing) \in Nat /\ DOMAIN Listing = 1..Len(Listing)
        /\ NoEarlier(objects, Listing)
    BY WhatIsShown, Ranked, RankedLater
  <2>4. page.objects = Part(objects, offset, to)
    BY WhatIsShown DEF Slice
  <2> HIDE DEF objects, to
  <2>5. /\ Len(page.objects) = IF offset <= last THEN last - offset ELSE 0
        /\ \A n \in 1..(last - offset) : page.objects[n] = objects[offset + n]
    <3>1. LET part == Part(objects, offset, to)
          IN  /\ Len(part) = IF offset <= last THEN last - offset ELSE 0
              /\ \A n \in 1..(last - offset) : part[n] = objects[offset + n]
      BY <2>1, <2>2, PartHolds, ZenonT(60)
    <3> HIDE DEF last
    <3> QED BY <2>4, <3>1
  <2>6. last \in Nat /\ last <= Len(objects)
    BY <2>1, <2>2
  <2> HIDE DEF last
  <2>7. i \in 1..(last - offset)
    BY <2>1, <2>5, <2>6
  <2>8. offset + i \in DOMAIN objects /\ page.objects[i] = objects[offset + i]
    BY <2>1, <2>2, <2>5, <2>6, <2>7
  <2>9. PICK j \in DOMAIN Listing : offset + i <= j /\ Listing[j] = objects[offset + i]
    BY <2>3, <2>8 DEF NoEarlier
  <2>10. j \in offset + i..Len(Listing)
    BY <2>1, <2>3, <2>9
  <2>11. ASSUME i > 1 PROVE page.objects[i - 1] < page.objects[i]
    <3>1. i - 1 \in 1..(last - offset)
      BY <2>1, <2>6, <2>7, <2>11
    <3>2. page.objects[i - 1] = objects[offset + (i - 1)]
      BY <2>5, <3>1
    <3>3. offset + (i - 1) \in DOMAIN objects /\ offset + (i - 1) < offset + i
      BY <2>1, <2>2, <2>6, <3>1
    <3>4. objects[offset + (i - 1)] < objects[offset + i]
      BY <2>2, <2>8, <3>3 DEF Increasing
    <3> QED BY <2>8, <3>2, <3>4
  <2> QED BY <2>8, <2>9, <2>10, <2>11
<1> QED BY <1>1, ListingInvariance, PTL

\* When everything is found, the page is the window of the listing.
LEMMA WholePage ==
    ASSUME LInv, stage = "page", ~queryMore
    PROVE  page = PageOfListing
<1>1. ShownPaths = ListedPaths /\ Listing = SortedByPath(ShownPaths)
  BY WhatIsShown
<1>2. page = [objects |-> Slice(Listing), hasMore |-> offset + request.limit < Len(Listing)]
  <2>1. page = [objects |-> Slice(SortedByPath(ShownPaths)),
                hasMore |-> \/ queryMore
                            \/ offset + request.limit < Len(SortedByPath(ShownPaths))]
    BY WhatIsShown
  <2>2. (queryMore \/ offset + request.limit < Len(Listing)) =
           (offset + request.limit < Len(Listing))
    OBVIOUS
  <2> QED BY <1>1, <2>1, <2>2
<1> QED BY <1>2 DEF PageOfListing, Slice

\* A page of the exact listing is the window that offset and limit describe.
THEOREM ExactPagesAreWindows == Spec => []ExactPages
<1>1. LInv => ExactPages
  BY WholePage DEF LInv, FoundFits, ExactPages
<1> QED BY <1>1, ListingInvariance, PTL

\* Under the conditions of FastPages, the first maxEntries objects of the
\* listing are found: no later in the listing than in the query for their kind.
LEMMA FirstAreFound ==
    ASSUME LInv, FastAndPlain, stage = "page",
           NEW n \in DOMAIN Listing, n <= maxEntries
    PROVE  Listing[n] \in ShownPaths
<1>1. TypeOK /\ FoundFits /\ OneQuery
  BY DEF LInv
<1>2. /\ Listing = SortedByPath(ListedPaths) /\ Done = Asked
      /\ \A p \in ListedPaths : KindOf(p) \in Asked
  BY WhatIsShown
<1>3. /\ Listing \in Seq(Nat) /\ DOMAIN Listing = 1..Len(Listing)
      /\ Len(Listing) \in Nat /\ Listed(Listing) = ListedPaths /\ Increasing(Listing)
  <2>1. Paths \cap ListedPaths = ListedPaths
    BY DEF ListedPaths
  <2> QED BY <1>2, <2>1, Ranked
<1> DEFINE p       == Listing[n]
           kind    == KindOf(p)
           matches == Matches(kind)
<1>4. p \in ListedPaths /\ p \in Paths /\ Kept(p) /\ kind \in Done
  BY <1>2, <1>3 DEF Listed, ListedPaths
<1>5. /\ DOMAIN matches = 1..Len(matches) /\ Len(matches) \in Nat
      /\ Listed(matches) = {q \in Paths : KindOf(q) = kind /\ carries[q] # {}}
  BY <1>1, Matched
<1>6. PICK j \in DOMAIN matches : matches[j] = p
  <2>1. p \in Listed(matches)
    BY <1>4, <1>5 DEF Kept
  <2> QED BY <2>1 DEF Listed
<1>7. matches = SortedByPath({q \in Paths : KindOf(q) = kind /\ carries[q] # {}})
  <2>1. order = [q \in Paths |-> q]
    BY DEF FastAndPlain, Paths
  <2>2. {q \in Paths : KindOf(q) # kind \/ carries[q] = {}} =
        Paths \ {q \in Paths : KindOf(q) = kind /\ carries[q] # {}}
    OBVIOUS
  <2> QED BY <2>1, <2>2 DEF Matches, SortedByPath
<1>8. {q \in Paths : KindOf(q) = kind /\ carries[q] # {}} \subseteq ListedPaths
  <2> SUFFICES ASSUME NEW q \in Paths, KindOf(q) = kind, carries[q] # {}
               PROVE  q \in ListedPaths
    OBVIOUS
  <2>1. Kept(q) /\ (q \in Collections => "marker" \in carries[q])
    BY DEF FastAndPlain, Kept
  <2>2. KindOf(q) \in Asked
    BY <1>2, <1>4
  <2>3. drsListingScopeIncludesObject(q)
    BY <1>1, <2>1, <2>2, Asking DEF drsListingScopeIncludesObject
  <2> QED BY <2>1, <2>3 DEF ListedPaths
<1>9. PICK k \in DOMAIN Listing : j <= k /\ Listing[k] = matches[j]
  <2>1. NoEarlier(matches, Listing)
    BY <1>2, <1>7, <1>8, RankedLater
  <2> QED BY <1>6, <2>1 DEF NoEarlier
<1>10. k = n
  <2> SUFFICES ASSUME k # n PROVE FALSE
    OBVIOUS
  <2>1. k < n \/ n < k
    BY <1>3, <1>9
  <2>2. Listing[k] < Listing[n] \/ Listing[n] < Listing[k]
    BY <1>3, <1>9, <2>1 DEF Increasing
  <2>3. Listing[k] = Listing[n] /\ Listing[n] \in Nat
    BY <1>3, <1>6, <1>9
  <2> QED BY <2>2, <2>3
<1>11. j <= maxEntries
  BY <1>1, <1>3, <1>5, <1>6, <1>9, <1>10, QueryNumbers
<1>12. p \in found
  BY <1>1, <1>4, <1>6, <1>11 DEF OneQuery
<1> QED BY <1>4, <1>12 DEF ShownPaths, ListedPaths

\* A page of the fast listing is the window of the listing as well, when the
\* queries return paths in order, all of them objects, and the page and one
\* entry more fit into one query.
THEOREM FastPagesAreWindows == Spec => []FastPages
<1>1. ASSUME LInv, stage = "page", FastAndPlain PROVE page = PageOfListing
  <2> DEFINE objects == SortedByPath(ShownPaths)
             to      == offset + request.limit
  <2>1. CASE ~queryMore
    BY <1>1, <2>1, WholePage
  <2>2. CASE queryMore
    <3>1. /\ TypeOK /\ offset \in Nat /\ to \in Nat /\ maxEntries = to + 1
          /\ to <= maxEntries
      BY <1>1, QueryNumbers DEF LInv
    <3>2. /\ objects \in Seq(Paths) /\ objects \in Seq(Nat)
          /\ Len(objects) \in Nat /\ DOMAIN objects = 1..Len(objects)
          /\ Listed(objects) = Paths \cap ShownPaths /\ Increasing(objects)
      BY Ranked
    <3>3. Listing = SortedByPath(ListedPaths) /\ ShownPaths \subseteq ListedPaths
      BY <1>1, WhatIsShown
    <3>4. /\ Listing \in Seq(Paths) /\ Listing \in Seq(Nat)
          /\ Len(Listing) \in Nat /\ DOMAIN Listing = 1..Len(Listing)
          /\ Listed(Listing) = Paths \cap ListedPaths /\ Increasing(Listing)
      BY <3>3, Ranked
    <3>5. NoEarlier(objects, Listing)
      BY <3>3, RankedLater
    <3>6. page = [objects |-> Part(objects, offset, to), hasMore |-> TRUE]
      BY <1>1, <2>2, WhatIsShown DEF Slice
    <3> HIDE DEF objects, to
    <3>7. \A n \in DOMAIN Listing : n <= to => Listing[n] \in Listed(objects)
      <4> SUFFICES ASSUME NEW n \in DOMAIN Listing, n <= to
                   PROVE  Listing[n] \in Listed(objects)
        OBVIOUS
      <4>1. n <= maxEntries
        BY <3>1, <3>4
      <4>2. Listing[n] \in ShownPaths
        BY <1>1, <4>1, FirstAreFound
      <4>3. Listing[n] \in Paths
        BY <3>4
      <4> QED BY <3>2, <4>2, <4>3
    <3>8. \A n \in DOMAIN Listing : n <= to => n \in DOMAIN objects /\ objects[n] = Listing[n]
      BY <3>1, <3>2, <3>4, <3>5, <3>7, SameStart
    <3>9. to < Len(Listing)
      <4>1. maxEntries <= Cardinality(found)
        BY <1>1, <2>2 DEF LInv, FoundFits
      <4>2. found \subseteq ListedPaths
        <5> SUFFICES ASSUME NEW p \in found PROVE p \in ListedPaths
          OBVIOUS
        <5>1. p \in Paths /\ Kept(p) /\ KindOf(p) \in Asked
          BY <1>1 DEF LInv, TypeOK, FoundFits
        <5>2. p \in Collections => "marker" \in carries[p]
          BY <1>1, <5>1 DEF FastAndPlain, Kept
        <5>3. drsListingScopeIncludesObject(p)
          BY <3>1, <5>1, <5>2, Asking DEF drsListingScopeIncludesObject
        <5> QED BY <5>1, <5>3 DEF ListedPaths
      <4>3. ListedPaths \subseteq Paths /\ Paths \cap ListedPaths = ListedPaths
        BY DEF ListedPaths
      <4>4. /\ Cardinality(found) \in Nat /\ Cardinality(ListedPaths) \in Nat
            /\ Cardinality(found) <= Cardinality(ListedPaths)
        BY <3>1, <4>2, <4>3, CountFound
      <4>5. Cardinality(ListedPaths) <= Len(Listing)
        BY <3>4, <4>3, CountListed
      <4> QED BY <3>1, <3>4, <4>1, <4>4, <4>5
    <3>10. to <= Len(objects)
      <4>1. CASE to = 0
        BY <3>2, <4>1
      <4>2. CASE to # 0
        <5>1. to \in DOMAIN Listing
          BY <3>1, <3>4, <3>9, <4>2
        <5> QED BY <3>1, <3>2, <3>8, <5>1
      <4> QED BY <4>1, <4>2
    <3>11. Part(objects, offset, to) = Part(Listing, offset, to)
      <4>1. \A n \in 1..to : objects[n] = Listing[n]
        BY <3>1, <3>4, <3>8, <3>9
      <4>2. to <= Len(Listing)
        BY <3>1, <3>4, <3>9
      <4> QED BY <3>1, <3>2, <3>4, <3>10, <4>1, <4>2, SamePart
    <3>12. (to < Len(Listing)) = TRUE
      BY <3>9
    <3> QED BY <3>6, <3>11, <3>12 DEF PageOfListing, to
  <2> QED BY <2>1, <2>2
<1>2. LInv => FastPages
  BY <1>1 DEF FastPages, FastAndPlain
<1> QED BY <1>2, ListingInvariance, PTL
=============================================================================
