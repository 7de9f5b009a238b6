---------------------- MODULE ServiceInfoSampler_proofs ----------------------
(***************************************************************************)
(* Theorems about ServiceInfoSampler, for every set of requests and        *)
(* objects, all times, page sizes and versions of the catalog.             *)
(***************************************************************************)
EXTENDS ServiceInfoSampler, Lists_proofs

----------------------------------------------------------------------------
(* Counting the rows of a page.                                            *)

\* A row of a query, and what a sample has counted.
Row     == [object : Objects, size : Nat, valid : BOOLEAN]
Summary == [count : Nat, size : Nat, seen : SUBSET Objects]

\* What the fold over rows makes of the rows whose places are in s, when f
\* holds what it makes of fewer.
CountedLast(sum, rows, f, s) ==
    IF s = {} THEN sum
    ELSE Counted(f[s \ {Max(s)}], rows[Max(s)])

\* The last of the places up to m + 1.
LEMMA MaxLast ==
    ASSUME NEW m \in Nat, NEW s \in SUBSET (1..(m + 1)), m + 1 \in s
    PROVE  Max(s) = m + 1
<1>1. \A y \in s : m + 1 >= y
  OBVIOUS
<1>2. \A x \in s : (\A y \in s : x >= y) => x = m + 1
  OBVIOUS
<1> QED BY <1>1, <1>2 DEF Max

\* The fold is well defined, place by place.
LEMMA FoldExists ==
    ASSUME NEW sum, NEW rows
    PROVE  \A m \in Nat :
              \E f : f = [s \in SUBSET (1..m) |-> CountedLast(sum, rows, f, s)]
<1> DEFINE S == {m \in Nat :
                  \E f : f = [s \in SUBSET (1..m) |-> CountedLast(sum, rows, f, s)]}
<1>1. 0 \in S
  <2> DEFINE f == [s \in SUBSET (1..0) |-> sum]
  <2>1. f = [s \in SUBSET (1..0) |-> CountedLast(sum, rows, f, s)]
    BY DEF CountedLast
  <2> QED BY <2>1
<1>2. ASSUME NEW m \in Nat, m \in S PROVE m + 1 \in S
  <2>1. PICK f : f = [s \in SUBSET (1..m) |-> CountedLast(sum, rows, f, s)]
    BY <1>2
  <2> DEFINE g == [s \in SUBSET (1..(m + 1)) |->
                      IF m + 1 \in s THEN Counted(f[s \ {m + 1}], rows[m + 1])
                                     ELSE f[s]]
  <2>2. ASSUME NEW s \in SUBSET (1..(m + 1))
        PROVE  g[s] = CountedLast(sum, rows, g, s)
    <3>1. CASE m + 1 \in s
      <4>1. Max(s) = m + 1
        BY <3>1, MaxLast
      <4>2. s \ {m + 1} \in SUBSET (1..m) /\ s # {}
        BY <3>1
      <4>3. g[s \ {m + 1}] = f[s \ {m + 1}]
        BY <4>2
      <4> HIDE DEF Counted
      <4> QED BY <3>1, <4>1, <4>2, <4>3 DEF CountedLast
    <3>2. CASE m + 1 \notin s
      <4>1. s \in SUBSET (1..m)
        BY <3>2
      <4>2. g[s] = CountedLast(sum, rows, f, s)
        BY <2>1, <3>2, <4>1
      <4>3. s \ {Max(s)} \in SUBSET (1..m) /\ s \ {Max(s)} \in SUBSET (1..(m + 1))
        BY <4>1
      <4>4. g[s \ {Max(s)}] = f[s \ {Max(s)}]
        BY <4>3
      <4> HIDE DEF Counted, g
      <4> QED BY <4>2, <4>4 DEF CountedLast
    <3> QED BY <3>1, <3>2
  <2>3. g = [s \in SUBSET (1..(m + 1)) |-> CountedLast(sum, rows, g, s)]
    BY <2>2
  <2> HIDE DEF g
  <2> QED BY <2>3
<1> HIDE DEF S
<1>3. \A m \in Nat : m \in S
  BY <1>1, <1>2, NatSetInduction
<1> QED BY <1>3 DEF S

\* What a sample has counted after n of the rows: the fold takes one row after
\* the other.
Turns(c, sum, rows) ==
    /\ c[0] = sum
    /\ \A n \in Nat : n < Len(rows) => c[n + 1] = Counted(c[n], rows[n + 1])
    /\ c[Len(rows)] = appendDrsDataObjectSummaryRows(sum, rows)

LEMMA RowByRow ==
    ASSUME NEW sum, NEW rows \in Seq(Row)
    PROVE  \E c : Turns(c, sum, rows)
<1> DEFINE m == Len(rows)
           Iterates(f) == f = [s \in SUBSET (1..m) |-> CountedLast(sum, rows, f, s)]
           f == CHOOSE f : Iterates(f)
           c == [n \in 0..m |-> f[1..n]]
<1>1. m \in Nat /\ DOMAIN rows = 1..m
  OBVIOUS
<1>2. Iterates(f)
  BY <1>1, FoldExists
<1>3. appendDrsDataObjectSummaryRows(sum, rows) = f[1..m]
  BY <1>1 DEF appendDrsDataObjectSummaryRows, FoldLeft, MapThenFoldSet, CountedLast
<1> HIDE DEF f
<1>4. c[0] = sum
  <2>1. 1..0 = {} /\ 1..0 \in SUBSET (1..m)
    OBVIOUS
  <2>2. f[{}] = sum
    BY <1>2, <2>1 DEF CountedLast
  <2> QED BY <1>1, <2>1, <2>2
<1>5. ASSUME NEW n \in Nat, n < m PROVE c[n + 1] = Counted(c[n], rows[n + 1])
  <2>1. 1..(n + 1) \in SUBSET (1..m) /\ n + 1 \in 1..(n + 1)
    <3> HIDE DEF m
    <3> QED BY <1>1, <1>5
  <2>2. Max(1..(n + 1)) = n + 1
    BY <2>1, MaxLast
  <2>3. 1..(n + 1) \ {n + 1} = 1..n
    OBVIOUS
  <2>4. f[1..(n + 1)] = Counted(f[1..n], rows[n + 1])
    <3> HIDE DEF m
    <3> QED BY <1>2, <2>1, <2>2, <2>3 DEF CountedLast
  <2>5. n \in 0..m /\ n + 1 \in 0..m
    BY <1>5
  <2> QED BY <2>4, <2>5
<1>6. c[m] = appendDrsDataObjectSummaryRows(sum, rows)
  BY <1>1, <1>3
<1> HIDE DEF c
<1> QED BY <1>4, <1>5, <1>6 DEF Turns

\* Counting rows keeps the type of a summary.
LEMMA CountedOneType ==
    ASSUME NEW sum \in Summary, NEW row \in Row
    PROVE  Counted(sum, row) \in Summary
BY DEF Counted, Summary, Row

LEMMA CountedType ==
    ASSUME NEW sum \in Summary, NEW rows \in Seq(Row)
    PROVE  appendDrsDataObjectSummaryRows(sum, rows) \in Summary
<1>1. PICK c : Turns(c, sum, rows)
  BY RowByRow
<1> DEFINE S == {n \in Nat : n <= Len(rows) => c[n] \in Summary}
<1>2. 0 \in S
  BY <1>1 DEF Turns
<1>3. ASSUME NEW n \in Nat, n \in S PROVE n + 1 \in S
  <2> SUFFICES ASSUME n + 1 <= Len(rows) PROVE c[n + 1] \in Summary
    OBVIOUS
  <2>1. c[n] \in Summary /\ rows[n + 1] \in Row
    BY <1>3
  <2>2. c[n + 1] = Counted(c[n], rows[n + 1])
    BY <1>1 DEF Turns
  <2> QED BY <2>1, <2>2, CountedOneType
<1> HIDE DEF S
<1>4. \A n \in Nat : n \in S
  BY <1>2, <1>3, NatSetInduction
<1> QED BY <1>1, <1>4 DEF S, Turns

----------------------------------------------------------------------------
(* Sums of sizes, over the objects in whatever order.                      *)

\* What is summed up over the objects of s, when f holds the sums over fewer.
SumLast(h, f, s) ==
    IF s = {} THEN 0
    ELSE LET x == CHOOSE x \in s : TRUE IN h[x] + f[s \ {x}]

\* f holds the sums of h over the subsets of d.
SumsOf(f, h, d) == f = [s \in SUBSET d |-> SumLast(h, f, s)]

Smaller(d, n) == {s \in SUBSET d : Cardinality(s) <= n}

\* There are such sums, for sets of one object more and more.
LEMMA SumsExist ==
    ASSUME NEW h, NEW d, IsFiniteSet(d)
    PROVE  \E f : SumsOf(f, h, d)
<1> DEFINE S == {n \in Nat : \E f : f = [s \in Smaller(d, n) |-> SumLast(h, f, s)]}
<1>1. \A s \in SUBSET d : IsFiniteSet(s) /\ Cardinality(s) \in 0..Cardinality(d)
  BY FS_Subset, FS_CardinalityType
<1>2. ASSUME NEW s \in SUBSET d, s # {}
      PROVE  LET x == CHOOSE x \in s : TRUE
             IN  Cardinality(s) > 0 /\ Cardinality(s \ {x}) = Cardinality(s) - 1
  <2> DEFINE x == CHOOSE x \in s : TRUE
  <2>1. x \in s
    BY <1>2
  <2> HIDE DEF x
  <2>2. Cardinality(s \ {x}) = Cardinality(s) - 1
    BY <1>1, <2>1, FS_RemoveElement
  <2>3. Cardinality(s \ {x}) >= 0
    <3>1. s \ {x} \in SUBSET d
      OBVIOUS
    <3>2. Cardinality(s \ {x}) \in 0..Cardinality(d)
      BY <1>1, <3>1
    <3> QED BY <3>2
  <2>4. Cardinality(s) \in 0..Cardinality(d)
    BY <1>1
  <2> QED BY <2>2, <2>3, <2>4 DEF x
<1>3. 0 \in S
  <2> DEFINE f == [s \in Smaller(d, 0) |-> 0]
  <2>1. \A s \in Smaller(d, 0) : s = {}
    BY <1>1, FS_EmptySet DEF Smaller
  <2>2. f = [s \in Smaller(d, 0) |-> SumLast(h, f, s)]
    BY <2>1 DEF SumLast
  <2> QED BY <2>2
<1>4. ASSUME NEW n \in Nat, n \in S PROVE n + 1 \in S
  <2>1. PICK f : f = [s \in Smaller(d, n) |-> SumLast(h, f, s)]
    BY <1>4
  <2> DEFINE g == [s \in Smaller(d, n + 1) |-> SumLast(h, f, s)]
  <2>2. ASSUME NEW s \in Smaller(d, n) PROVE s \in Smaller(d, n + 1) /\ g[s] = f[s]
    BY <1>1, <2>1 DEF Smaller
  <2>3. ASSUME NEW s \in Smaller(d, n + 1) PROVE g[s] = SumLast(h, g, s)
    <3>1. CASE s = {}
      BY <3>1 DEF SumLast
    <3>2. CASE s # {}
      <4> DEFINE x == CHOOSE x \in s : TRUE
      <4>1. s \ {x} \in Smaller(d, n)
        BY <1>1, <1>2, <3>2 DEF Smaller
      <4>2. g[s \ {x}] = f[s \ {x}]
        BY <2>2, <4>1
      <4>3. g[s] = h[x] + f[s \ {x}]
        BY <3>2 DEF SumLast
      <4> HIDE DEF g
      <4> QED BY <3>2, <4>2, <4>3 DEF SumLast
    <3> QED BY <3>1, <3>2
  <2>4. g = [s \in Smaller(d, n + 1) |-> SumLast(h, g, s)]
    BY <2>3
  <2> HIDE DEF g
  <2> QED BY <2>4
<1> HIDE DEF S
<1>5. Cardinality(d) \in S
  BY <1>3, <1>4, NatSetInduction, FS_CardinalityType
<1>6. Smaller(d, Cardinality(d)) = SUBSET d
  BY <1>1 DEF Smaller
<1> QED BY <1>5, <1>6 DEF S, SumsOf

\* Any object may be taken last.
LEMMA AnyLast ==
    ASSUME NEW d, IsFiniteSet(d), NEW h, \A x \in d : h[x] \in Nat,
           NEW f, SumsOf(f, h, d), NEW s \in SUBSET d
    PROVE  f[s] \in Nat /\ \A x \in s : f[s] = h[x] + f[s \ {x}]
<1> DEFINE Good(t) ==
             /\ f[t] \in Nat
             /\ \A x \in t : f[t \ {x}] \in Nat /\ f[t] = h[x] + f[t \ {x}]
           S == {n \in Nat : \A t \in SUBSET d : Cardinality(t) = n => Good(t)}
<1>1. \A t \in SUBSET d : IsFiniteSet(t) /\ Cardinality(t) \in Nat
  BY FS_Subset, FS_CardinalityType
<1>2. 0 \in S
  <2> SUFFICES ASSUME NEW t \in SUBSET d, Cardinality(t) = 0 PROVE Good(t)
    OBVIOUS
  <2>1. t = {}
    BY <1>1, FS_EmptySet
  <2> QED BY <2>1 DEF SumsOf, SumLast
<1>3. ASSUME NEW n \in Nat, n \in S PROVE n + 1 \in S
  <2> SUFFICES ASSUME NEW t \in SUBSET d, Cardinality(t) = n + 1 PROVE Good(t)
    OBVIOUS
  <2> DEFINE c == CHOOSE x \in t : TRUE
  <2>1. t # {} /\ c \in t
    <3>1. t # {}
      BY <1>1, FS_EmptySet
    <3> QED BY <3>1
  <2>2. f[t] = h[c] + f[t \ {c}]
    BY <2>1 DEF SumsOf, SumLast
  <2> HIDE DEF c
  <2>3. ASSUME NEW x \in t
        PROVE  t \ {x} \in SUBSET d /\ Good(t \ {x})
    <3>1. Cardinality(t \ {x}) = n
      BY <1>1, FS_RemoveElement
    <3> QED BY <1>3, <3>1
  <2>4. f[t] \in Nat
    <3>1. h[c] \in Nat /\ f[t \ {c}] \in Nat
      BY <2>1, <2>3
    <3> QED BY <2>2, <3>1
  <2>5. ASSUME NEW x \in t PROVE f[t] = h[x] + f[t \ {x}]
    <3>1. CASE x = c
      BY <2>2, <3>1
    <3>2. CASE x # c
      <4>1. f[t \ {c}] = h[x] + f[(t \ {c}) \ {x}]
        BY <2>1, <2>3, <3>2
      <4>2. f[t \ {x}] = h[c] + f[(t \ {x}) \ {c}]
        BY <2>1, <2>3, <3>2
      <4>3. (t \ {c}) \ {x} = (t \ {x}) \ {c}
        OBVIOUS
      <4>4. h[x] \in Nat /\ h[c] \in Nat /\ f[t \ {x}] \in Nat
        BY <2>1, <2>3
      <4>5. f[(t \ {x}) \ {c}] \in Nat
        BY <2>1, <2>3, <3>2
      <4>6. f[t \ {c}] = h[x] + f[(t \ {x}) \ {c}]
        BY <4>1, <4>3
      <4> QED BY <2>2, <4>2, <4>4, <4>5, <4>6
    <3> QED BY <3>1, <3>2
  <2> QED BY <2>3, <2>4, <2>5
<1> HIDE DEF S
<1>4. \A n \in Nat : n \in S
  BY <1>2, <1>3, NatSetInduction
<1> QED BY <1>1, <1>4 DEF S

\* What the fold over a function comes to.
LEMMA FoldIsSum ==
    ASSUME NEW d, IsFiniteSet(d), NEW h, DOMAIN h = d
    PROVE  \E f : SumsOf(f, h, d) /\ SumFunction(h) = f[d]
<1> DEFINE f == CHOOSE f : SumsOf(f, h, d)
<1>1. SumsOf(f, h, d)
  BY SumsExist
<1>2. SumFunction(h) = f[d]
  BY DEF SumFunction, SumFunctionOnSet, FoldFunctionOnSet, MapThenFoldSet, SumsOf, SumLast
<1> HIDE DEF f
<1> QED BY <1>1, <1>2

\* The sums over the same sizes are the same.
LEMMA SameSums ==
    ASSUME NEW d, NEW e, IsFiniteSet(e), d \subseteq e, NEW h, NEW k,
           \A x \in d : h[x] = k[x],
           NEW f, SumsOf(f, h, d), NEW g, SumsOf(g, k, e)
    PROVE  \A s \in SUBSET d : f[s] = g[s]
<1> DEFINE S == {n \in Nat : \A s \in SUBSET d : Cardinality(s) = n => f[s] = g[s]}
<1>1. \A s \in SUBSET d : IsFiniteSet(s) /\ Cardinality(s) \in Nat /\ s \in SUBSET e
  <2>1. \A s \in SUBSET d : s \in SUBSET e
    OBVIOUS
  <2> QED BY <2>1, FS_Subset, FS_CardinalityType
<1>2. 0 \in S
  <2> SUFFICES ASSUME NEW s \in SUBSET d, Cardinality(s) = 0 PROVE f[s] = g[s]
    OBVIOUS
  <2>1. s = {} /\ s \in SUBSET e
    BY <1>1, FS_EmptySet
  <2> QED BY <2>1 DEF SumsOf, SumLast
<1>3. ASSUME NEW n \in Nat, n \in S PROVE n + 1 \in S
  <2> SUFFICES ASSUME NEW s \in SUBSET d, Cardinality(s) = n + 1 PROVE f[s] = g[s]
    OBVIOUS
  <2> DEFINE c == CHOOSE x \in s : TRUE
  <2>1. s # {}
    BY <1>1, FS_EmptySet
  <2>2. c \in s
    BY <2>1
  <2>3. f[s] = h[c] + f[s \ {c}] /\ g[s] = k[c] + g[s \ {c}]
    BY <1>1, <2>1 DEF SumsOf, SumLast
  <2> HIDE DEF c
  <2>4. Cardinality(s \ {c}) = n
    <3>1. Cardinality(s \ {c}) = Cardinality(s) - 1
      BY <1>1, <2>2, FS_RemoveElement
    <3> QED BY <3>1
  <2>5. f[s \ {c}] = g[s \ {c}]
    BY <1>3, <2>4
  <2>6. h[c] = k[c]
    BY <2>2
  <2> QED BY <2>3, <2>5, <2>6
<1> HIDE DEF S
<1>4. \A n \in Nat : n \in S
  BY <1>2, <1>3, NatSetInduction
<1> QED BY <1>1, <1>4 DEF S

\* One more object adds its size.
LEMMA SumAdds ==
    ASSUME NEW d, IsFiniteSet(d), NEW o, o \notin d, NEW h \in [d -> Nat],
           NEW k \in [d \cup {o} -> Nat], \A x \in d : k[x] = h[x]
    PROVE  SumFunction(k) = SumFunction(h) + k[o]
<1> DEFINE e == d \cup {o}
<1>1. /\ IsFiniteSet(e) /\ e \ {o} = d /\ d \subseteq e /\ o \in e /\ DOMAIN k = e
      /\ \A x \in e : k[x] \in Nat
  BY FS_AddElement
<1> HIDE DEF e
<1>2. PICK f : SumsOf(f, h, d) /\ SumFunction(h) = f[d]
  BY FoldIsSum
<1>3. PICK g : SumsOf(g, k, e) /\ SumFunction(k) = g[e]
  BY <1>1, FoldIsSum
<1>4. g[e] = k[o] + g[d]
  <2>1. e \in SUBSET e /\ SumsOf(g, k, e) /\ IsFiniteSet(e) /\ \A x \in e : k[x] \in Nat
    BY <1>1, <1>3
  <2>2. \A x \in e : g[e] = k[x] + g[e \ {x}]
    BY ONLY <2>1, AnyLast
  <2> QED BY <1>1, <2>2
<1>5. f[d] = g[d]
  <2>1. \A s \in SUBSET d : f[s] = g[s]
    BY <1>1, <1>2, <1>3, SameSums
  <2> QED BY <2>1
<1>6. f[d] \in Nat /\ k[o] \in Nat
  <2>1. \A x \in d : h[x] \in Nat
    OBVIOUS
  <2>2. \A s \in SUBSET d : f[s] \in Nat
    BY <1>2, <2>1, AnyLast
  <2> QED BY <1>1, <2>2
<1> QED BY <1>1, <1>2, <1>3, <1>4, <1>5, <1>6

\* There are the sizes h of the objects d, and the size z of o besides.
MoreSizes(d, h, o, z) ==
    \E more \in [d \cup {o} -> Nat] :
        /\ more[o] = z /\ \A x \in d : more[x] = h[x]
        /\ SumFunction(more) = SumFunction(h) + z

LEMMA SumOfMore ==
    ASSUME NEW d, IsFiniteSet(d), NEW h \in [d -> Nat], NEW o, o \notin d, NEW z \in Nat
    PROVE  MoreSizes(d, h, o, z)
<1> DEFINE more == [x \in d \cup {o} |-> IF x = o THEN z ELSE h[x]]
<1>1. /\ more \in [d \cup {o} -> Nat] /\ more[o] = z
      /\ \A x \in d : more[x] = h[x]
  OBVIOUS
<1> HIDE DEF more
<1>2. SumFunction(more) = SumFunction(h) + more[o]
  BY <1>1, SumAdds
<1> QED BY <1>1, <1>2 DEF MoreSizes

\* No objects have no size.
LEMMA SumOfNone ==
    ASSUME NEW h, DOMAIN h = {}
    PROVE  SumFunction(h) = 0
<1>1. PICK f : SumsOf(f, h, {}) /\ SumFunction(h) = f[{}]
  BY FoldIsSum, FS_EmptySet
<1> QED BY <1>1 DEF SumsOf, SumLast

----------------------------------------------------------------------------
(* The inductive invariants.                                               *)

Sampling == {"attempt", "sample"}

\* A version is only read while a sample is taken, and rows are only left of
\* one that is being read.  Once Start has returned there is a snapshot.
PhaseInv ==
    /\ result # None => phase \in Sampling
    /\ rest # <<>> => result \notin {None, Asked}
    /\ Serving => snapshot # None

\* The time that the attempts so far have waited for one another.
Waited(n) == n * RetryWait

\* Every attempt but the first was made when a timer fired, and each timer was
\* set a wait or more after the one before it.
TimerInv ==
    /\ phase = "new" => attempts = 0 /\ due <= clock
    /\ phase \in {"attempt", "decide"} => attempts > 0 /\ due <= clock
    /\ phase = "wait" => attempts > 0 /\ Waited(attempts) <= due
    /\ attempts > 0 => Waited(attempts - 1) <= due

\* The versions that are answered, published, read, and in the catalog follow
\* one another in this order.
VersionsInv ==
    /\ snapshot <= changes /\ result <= changes
    /\ result >= 0 => snapshot <= result
    /\ \A r \in Requests : answer[r] <= snapshot

SamplerInv ==
    /\ TypeOK /\ PhaseInv /\ TimerInv /\ VersionsInv /\ NeverUnavailable

\* The valid rows among the first n.
ValidUpTo(rows, n) == {rows[i] : i \in {j \in 1..n : rows[j].valid}}

\* sum has counted the first n rows: each object that a valid one is of, once,
\* with the size of one of them.
CountedUpTo(sum, rows, n) ==
    /\ sum.seen = {row.object : row \in ValidUpTo(rows, n)}
    /\ IsFiniteSet(sum.seen) /\ sum.count = Cardinality(sum.seen)
    /\ \E size \in [sum.seen -> Nat] :
          /\ \A o \in sum.seen :
                \E row \in ValidUpTo(rows, n) : row.object = o /\ row.size = size[o]
          /\ sum.size = SumFunction(size)

\* left is what comes after the first n rows.
RestAfter(left, rows, n) ==
    /\ Len(left) = Len(rows) - n
    /\ \A i \in 1..Len(left) : left[i] = rows[n + i]

\* sum has counted the rows but those left.
CountedPart(sum, left, rows) ==
    \E n \in 0..Len(rows) : RestAfter(left, rows, n) /\ CountedUpTo(sum, rows, n)

\* The sample under way has counted the rows of its version but the rest of
\* them, and the published one has counted them all.
SummaryInv ==
    /\ result \notin {None, Asked} =>
          CountedPart(summary, rest, Versions[result + 1])
    /\ snapshot # None =>
          CountedUpTo(totals, Versions[snapshot + 1], Len(Versions[snapshot + 1]))

\* Nothing has been counted before the first row.
LEMMA CountNone ==
    ASSUME NEW rows
    PROVE  CountedUpTo(NoSummary, rows, 0) /\ NoSummary \in Summary
<1>1. ValidUpTo(rows, 0) = {}
  BY DEF ValidUpTo
<1>2. {row.object : row \in {}} = {}
  OBVIOUS
<1>3. IsFiniteSet({}) /\ Cardinality({}) = 0
  BY FS_EmptySet
<1>4. \E size \in [{} -> Nat] : SumFunction(size) = 0
  <2> DEFINE none == [o \in {} |-> 0]
  <2>1. none \in [{} -> Nat] /\ DOMAIN none = {}
    OBVIOUS
  <2> HIDE DEF none
  <2> QED BY <2>1, SumOfNone
<1> QED BY <1>1, <1>2, <1>3, <1>4 DEF CountedUpTo, NoSummary, Summary

\* Counting one more row.
LEMMA CountOne ==
    ASSUME NEW rows \in Seq(Row), NEW n \in Nat, n < Len(rows),
           NEW sum \in Summary, CountedUpTo(sum, rows, n)
    PROVE  CountedUpTo(Counted(sum, rows[n + 1]), rows, n + 1)
<1> DEFINE row == rows[n + 1]
           old == ValidUpTo(rows, n)
           new == ValidUpTo(rows, n + 1)
<1>1. row \in Row
  OBVIOUS
<1>2. new = IF row.valid THEN old \cup {row} ELSE old
  <2>1. {j \in 1..(n + 1) : rows[j].valid} =
            {j \in 1..n : rows[j].valid} \cup (IF row.valid THEN {n + 1} ELSE {})
    OBVIOUS
  <2> QED BY <2>1 DEF ValidUpTo
<1>3. /\ sum.seen = {r.object : r \in old}
      /\ IsFiniteSet(sum.seen) /\ sum.count = Cardinality(sum.seen)
  BY DEF CountedUpTo
<1>4. PICK size \in [sum.seen -> Nat] :
          /\ \A o \in sum.seen : \E r \in old : r.object = o /\ r.size = size[o]
          /\ sum.size = SumFunction(size)
  BY DEF CountedUpTo
<1> HIDE DEF row, old, new
<1>5. CASE ~row.valid
  <2>1. new = old /\ Counted(sum, row) = sum
    BY <1>2, <1>5 DEF Counted
  <2> QED BY <2>1 DEF CountedUpTo, old, new, row
<1>6. CASE row.valid /\ row.object \in sum.seen
  <2>1. new = old \cup {row} /\ Counted(sum, row) = sum
    BY <1>2, <1>6 DEF Counted
  <2>2. sum.seen = {r.object : r \in new}
    BY <1>3, <1>6, <2>1
  <2>3. \A o \in sum.seen : \E r \in new : r.object = o /\ r.size = size[o]
    BY <1>4, <2>1
  <2>4. CountedUpTo(sum, rows, n + 1)
    BY <1>3, <1>4, <2>2, <2>3 DEF CountedUpTo, new
  <2> QED BY <2>1, <2>4 DEF row
<1>7. CASE row.valid /\ row.object \notin sum.seen
  <2>1. row.object \notin sum.seen /\ row.size \in Nat
    BY <1>1, <1>7 DEF Row
  <2>2. PICK more \in [sum.seen \cup {row.object} -> Nat] :
            /\ more[row.object] = row.size /\ \A x \in sum.seen : more[x] = size[x]
            /\ SumFunction(more) = SumFunction(size) + row.size
    <3>1. MoreSizes(sum.seen, size, row.object, row.size)
      BY <1>3, <2>1, SumOfMore
    <3> QED BY <3>1 DEF MoreSizes
  <2> DEFINE seen == sum.seen \cup {row.object}
             next == Counted(sum, row)
  <2>3. /\ new = old \cup {row}
        /\ next = [count |-> sum.count + 1, size |-> sum.size + row.size, seen |-> seen]
    BY <1>2, <1>7 DEF Counted
  <2>4. seen = {r.object : r \in new}
    BY <1>3, <2>3
  <2>5. IsFiniteSet(seen) /\ Cardinality(seen) = sum.count + 1
    BY <1>3, <2>1, FS_AddElement
  <2>6. \A x \in seen : \E r \in new : r.object = x /\ r.size = more[x]
    BY <1>4, <2>2, <2>3
  <2>7. next.seen = seen /\ next.count = sum.count + 1 /\ next.size = SumFunction(more)
    BY <1>4, <2>2, <2>3
  <2>8. more \in [seen -> Nat]
    BY <2>2
  <2> HIDE DEF next, seen
  <2>9. CountedUpTo(next, rows, n + 1)
    BY <2>4, <2>5, <2>6, <2>7, <2>8 DEF CountedUpTo, new
  <2> QED BY <2>9 DEF next, row
<1> QED BY <1>5, <1>6, <1>7

\* page holds rows that come after the first n.
PageAfter(page, rows, n) ==
    n + Len(page) <= Len(rows) /\ \A i \in 1..Len(page) : page[i] = rows[n + i]

\* Counting the rows of a page.
LEMMA CountPage ==
    ASSUME NEW rows \in Seq(Row), NEW n \in Nat, NEW page \in Seq(Row),
           PageAfter(page, rows, n), NEW sum \in Summary, CountedUpTo(sum, rows, n)
    PROVE  CountedUpTo(appendDrsDataObjectSummaryRows(sum, page), rows, n + Len(page))
<1>1. PICK c : Turns(c, sum, page)
  BY RowByRow
<1> DEFINE S == {k \in Nat : k <= Len(page) =>
                                c[k] \in Summary /\ CountedUpTo(c[k], rows, n + k)}
<1>2. 0 \in S
  BY <1>1 DEF Turns
<1>3. ASSUME NEW k \in Nat, k \in S PROVE k + 1 \in S
  <2> SUFFICES ASSUME k + 1 <= Len(page)
               PROVE  c[k + 1] \in Summary /\ CountedUpTo(c[k + 1], rows, n + (k + 1))
    OBVIOUS
  <2>1. c[k] \in Summary /\ CountedUpTo(c[k], rows, n + k)
    BY <1>3
  <2>2. /\ page[k + 1] = rows[(n + k) + 1] /\ page[k + 1] \in Row
        /\ n + k \in Nat /\ n + k < Len(rows) /\ (n + k) + 1 = n + (k + 1)
    BY <1>3 DEF PageAfter
  <2>3. c[k + 1] = Counted(c[k], page[k + 1])
    BY <1>1 DEF Turns
  <2>4. c[k + 1] \in Summary
    BY <2>1, <2>2, <2>3, CountedOneType
  <2>5. CountedUpTo(c[k + 1], rows, (n + k) + 1)
    BY <2>1, <2>2, <2>3, CountOne
  <2> QED BY <2>2, <2>4, <2>5
<1> HIDE DEF S
<1>4. \A k \in Nat : k \in S
  BY <1>2, <1>3, NatSetInduction
<1>5. Len(page) \in S /\ Len(page) \in Nat
  BY <1>4
<1> QED BY <1>1, <1>5 DEF S, Turns

\* One more wait.
LEMMA WaitOnce ==
    ASSUME NEW n \in Nat
    PROVE  Waited(n) \in Nat /\ Waited(n + 1) = Waited(n) + RetryWait
BY RetryNumbers DEF Waited

\* The version that the catalog is of, or that was read, is there.
LEMMA VersionRows ==
    ASSUME NEW v \in 0..MaxChanges
    PROVE  Versions[v + 1] \in Seq(Row)
BY VersionsAreRows DEF MaxChanges, Row

LEMMA FirstVersion == MaxChanges \in Nat
BY VersionsAreRows DEF MaxChanges

\* A page ends within the rows.
LEMMA PageEnd ==
    ASSUME NEW rows \in Seq(Row)
    PROVE  Min({PageSize, Len(rows)}) \in 0..Len(rows)
<1>1. PageSize \in Nat /\ Len(rows) \in Nat
  BY VersionsAreRows
<1>2. Min({PageSize, Len(rows)}) = IF PageSize <= Len(rows) THEN PageSize ELSE Len(rows)
  BY <1>1 DEF Min
<1> QED BY <1>1, <1>2

\* A page leaves rows, and what has been counted is a summary.
LEMMA FetchType ==
    ASSUME NEW sum \in Summary, NEW rows \in Seq(Row), Fetch(sum, rows)
    PROVE  summary' \in Summary /\ rest' \in Seq(Row)
<1> DEFINE end == Min({PageSize, Len(rows)})
<1>1. end \in 0..Len(rows)
  BY PageEnd
<1> HIDE DEF end
<1>2. SubSeq(rows, 1, end) \in Seq(Row) /\ SubSeq(rows, end + 1, Len(rows)) \in Seq(Row)
  BY <1>1, SubSeqProperties
<1> QED BY <1>2, CountedType DEF Fetch, end

\* A page goes on where the last one ended, and is counted.
LEMMA FetchCounts ==
    ASSUME NEW rows \in Seq(Row), NEW sum \in Summary, NEW left \in Seq(Row),
           CountedPart(sum, left, rows), Fetch(sum, left)
    PROVE  CountedPart(summary', rest', rows)
<1> DEFINE end  == Min({PageSize, Len(left)})
           page == SubSeq(left, 1, end)
<1>1. PICK n \in 0..Len(rows) : RestAfter(left, rows, n) /\ CountedUpTo(sum, rows, n)
  BY DEF CountedPart
<1>2. end \in 0..Len(left)
  BY PageEnd
<1>3. /\ summary' = appendDrsDataObjectSummaryRows(sum, page)
      /\ rest' = SubSeq(left, end + 1, Len(left))
  BY DEF Fetch
<1> HIDE DEF end
<1>4. /\ page \in Seq(Row) /\ Len(page) = end
      /\ \A i \in 1..end : page[i] = left[i]
  BY <1>2, SubSeqProperties
<1>5. /\ Len(rest') = Len(left) - end
      /\ \A i \in 1..(Len(left) - end) : rest'[i] = left[end + i]
  <2>1. \A i \in (end + 1)..Len(left) : left[i] \in Row
    BY <1>2
  <2>2. /\ Len(rest') = IF end + 1 <= Len(left) THEN Len(left) - (end + 1) + 1 ELSE 0
        /\ \A i \in 1..(Len(left) - (end + 1) + 1) : rest'[i] = left[(end + 1) + i - 1]
    BY <1>2, <1>3, <2>1, SubSeqProperties
  <2> QED BY <1>2, <2>2
<1> HIDE DEF page
<1>6. Len(left) = Len(rows) - n /\ \A i \in 1..Len(left) : left[i] = rows[n + i]
  BY <1>1 DEF RestAfter
<1>7. CountedUpTo(summary', rows, n + end)
  <2>1. PageAfter(page, rows, n)
    <3>1. \A i \in 1..end : i \in 1..Len(left) /\ page[i] = rows[n + i]
      BY <1>2, <1>4, <1>6
    <3>2. n + end <= Len(rows)
      BY <1>2, <1>6
    <3> QED BY <1>4, <3>1, <3>2 DEF PageAfter
  <2>2. CountedUpTo(appendDrsDataObjectSummaryRows(sum, page), rows, n + Len(page))
    <3>1. n \in Nat /\ CountedUpTo(sum, rows, n) /\ page \in Seq(Row)
      BY <1>1, <1>4
    <3> QED BY ONLY <2>1, <3>1, CountPage, rows \in Seq(Row), sum \in Summary
  <2> QED BY <1>3, <1>4, <2>2
<1>8. RestAfter(rest', rows, n + end)
  <2>1. \A i \in 1..(Len(left) - end) : rest'[i] = rows[(n + end) + i]
    BY <1>2, <1>5, <1>6
  <2> QED BY <1>2, <1>5, <1>6, <2>1 DEF RestAfter
<1>9. n + end \in 0..Len(rows)
  BY <1>2, <1>6
<1> QED BY <1>7, <1>8, <1>9 DEF CountedPart

\* The sampler starts with its invariant.
LEMMA InitSampler == Init => SamplerInv
<1> SUFFICES ASSUME Init PROVE SamplerInv
  OBVIOUS
<1>1. TypeOK
  <2>1. NoSummary \in [count : Nat, size : Nat, seen : SUBSET Objects]
    BY DEF NoSummary
  <2>2. {summary, totals} \subseteq [count : Nat, size : Nat, seen : SUBSET Objects]
    BY <2>1 DEF Init
  <2>3. request \in [Requests -> {"idle", "checked", "unavailable"}]
    BY DEF Init
  <2>4. answer \in [Requests -> None..MaxChanges] /\ snapshot \in None..MaxChanges
        /\ result \in Asked..MaxChanges /\ changes \in 0..MaxChanges
    BY FirstVersion DEF Init, None, Asked
  <2>5. /\ clock \in 0..Horizon /\ due \in 0..RetryMax /\ outages \in 0..MaxOutages
        /\ attempts \in Nat
    BY RetryNumbers DEF Init, Horizon
  <2>6. /\ phase \in Startup \cup Loop \cup Ended
        /\ cancelled \in BOOLEAN /\ ticked \in BOOLEAN /\ up \in BOOLEAN
    BY DEF Init, Startup
  <2>7. rest \in Seq([object : Objects, size : Nat, valid : BOOLEAN])
    BY DEF Init
  <2> QED BY <2>2, <2>3, <2>4, <2>5, <2>6, <2>7 DEF TypeOK
<1>2. PhaseInv /\ TimerInv /\ VersionsInv /\ NeverUnavailable
  BY DEF Init, PhaseInv, TimerInv, VersionsInv, NeverUnavailable, Serving, Loop, None, Asked
<1> QED BY <1>1, <1>2 DEF SamplerInv

\* Every step of the sampler, of a request and of the world keeps the types.
LEMMA NextType ==
    ASSUME SamplerInv, Next
    PROVE  TypeOK'
<1> USE DEF TypeOK, SamplerInv
<1>1. CASE Ask
  BY <1>1, FirstVersion DEF Ask, world, current, None, Asked
<1>2. CASE Query
  <2>1. summary' \in Summary /\ rest' \in Seq(Row) /\ result' \in Asked..MaxChanges
    <3>1. CASE result = Asked /\ result' = changes /\ Fetch(NoSummary, Versions[changes + 1])
      <4>1. NoSummary \in Summary
        BY DEF NoSummary, Summary
      <4> QED BY <3>1, <4>1, VersionRows, FetchType, FirstVersion DEF Asked
    <3>2. CASE rest # <<>> /\ Fetch(summary, rest) /\ UNCHANGED result
      <4>1. summary \in Summary /\ rest \in Seq(Row)
        BY DEF Summary, Row
      <4> QED BY <3>2, <4>1, FetchType
    <3> QED BY <1>2, <3>1, <3>2 DEF Query
  <2> QED BY <1>2, <2>1 DEF Query, world, current, Summary, Row
<1>3. CASE Fails
  <2>1. NoSummary \in [count : Nat, size : Nat, seen : SUBSET Objects]
    BY DEF NoSummary
  <2> QED BY <1>3, <2>1, FirstVersion
          DEF Fails, world, current, None, Asked, Startup, Loop
<1>4. CASE Publish
  <2>1. NoSummary \in [count : Nat, size : Nat, seen : SUBSET Objects]
    BY DEF NoSummary
  <2> QED BY <1>4, <2>1, FirstVersion DEF Publish, world, None, Asked, Loop
<1>5. CASE Start
  BY <1>5 DEF Start, world, sample, current, Startup, Ended
<1>6. CASE Decide
  BY <1>6, RetryNumbers DEF Decide, MayRetry, world, sample, current, Startup, Ended, Horizon
<1>7. CASE Wake
  BY <1>7 DEF Wake, world, sample, current, Startup, Ended
<1>8. CASE TakeTick \/ Stop
  BY <1>8 DEF TakeTick, Stop, world, sample, current, Loop, Ended
<1>9. CASE Tick
  BY <1>9 DEF Tick, sampler, world, sample, current
<1>10. ASSUME NEW r \in Requests, Check(r) PROVE TypeOK'
  BY <1>10 DEF Check, sampler, world, sample, current
<1>11. ASSUME NEW r \in Requests, Answer(r) PROVE TypeOK'
  BY <1>11 DEF Answer, sampler, world, sample, current
<1>12. CASE Time \/ Cancel \/ CatalogChanges \/ GoDown \/ ComeUp
  <2>1. CASE Time
    BY <2>1, RetryNumbers DEF Time, sampler, sample, current, Horizon
  <2>2. CASE Cancel
    BY <2>2 DEF Cancel, sampler, sample, current
  <2>3. CASE CatalogChanges
    BY <2>3, FirstVersion DEF CatalogChanges, sampler, sample, current
  <2>4. CASE GoDown
    <3>1. outages' \in 0..MaxOutages
      BY <2>4, RetryNumbers DEF GoDown
    <3> QED BY <2>4, <3>1 DEF GoDown, sampler, sample, current
  <2>5. CASE ComeUp
    BY <2>5 DEF ComeUp, sampler, sample, current
  <2> QED BY <1>12, <2>1, <2>2, <2>3, <2>4, <2>5
<1> QED BY <1>1, <1>2, <1>3, <1>4, <1>5, <1>6, <1>7, <1>8, <1>9, <1>10, <1>11, <1>12
        DEF Next, SamplerStep

\* Rows are only read while a sample is taken, and Start does not return without
\* a snapshot.
LEMMA NextPhase ==
    ASSUME SamplerInv, Next
    PROVE  PhaseInv' /\ NeverUnavailable'
<1> USE DEF PhaseInv, Sampling, Serving, Startup, Loop, Ended, NeverUnavailable
<1>0. PhaseInv /\ NeverUnavailable /\ phase \in Startup \cup Loop \cup Ended
  BY DEF SamplerInv, TypeOK
<1>1. CASE Ask \/ Query
  <2>1. changes \notin {None, Asked}
    BY FirstVersion DEF SamplerInv, TypeOK, None, Asked
  <2> QED BY <1>0, <1>1, <2>1 DEF Ask, Query, current, None, Asked
<1>2. CASE Fails \/ Publish
  BY <1>0, <1>2 DEF Fails, Publish, current
<1>3. CASE Start \/ Decide \/ Wake \/ TakeTick \/ Stop
  BY <1>0, <1>3 DEF Start, Decide, Wake, TakeTick, Stop, sample, current
<1>4. CASE Tick
  BY <1>0, <1>4 DEF Tick, sampler, sample, current
<1>5. ASSUME NEW r \in Requests, Check(r) PROVE PhaseInv' /\ NeverUnavailable'
  <2>1. \A q \in Requests : request'[q] \in {request[q], "checked"}
    BY <1>0, <1>5 DEF Check, SamplerInv, TypeOK
  <2> QED BY <1>0, <1>5, <2>1 DEF Check, sampler, sample, current
<1>6. ASSUME NEW r \in Requests, Answer(r) PROVE PhaseInv' /\ NeverUnavailable'
  <2>1. \A q \in Requests : request'[q] \in {request[q], "idle"}
    BY <1>6 DEF Answer, SamplerInv, TypeOK
  <2> QED BY <1>0, <1>6, <2>1 DEF Answer, sampler, sample, current
<1>7. CASE Time \/ Cancel \/ CatalogChanges \/ GoDown \/ ComeUp
  BY <1>0, <1>7 DEF Time, Cancel, CatalogChanges, GoDown, ComeUp, sampler, sample, current
<1> QED BY <1>1, <1>2, <1>3, <1>4, <1>5, <1>6, <1>7 DEF Next, SamplerStep

\* Each attempt is a wait after the last one.
LEMMA NextTimer ==
    ASSUME SamplerInv, Next
    PROVE  TimerInv'
<1> USE DEF TimerInv, Startup, Loop, Ended
<1>0. /\ TimerInv /\ phase \in Startup \cup Loop \cup Ended
      /\ attempts \in Nat /\ clock \in Nat /\ due \in Nat /\ RetryWait \in Nat
  BY RetryNumbers DEF SamplerInv, TypeOK, Horizon
<1>1. CASE Fails
  BY <1>0, <1>1 DEF Fails, world
<1>2. CASE Publish
  BY <1>0, <1>2 DEF Publish, world
<1>3. CASE Start
  <2>1. Waited(1 - 1) = 0
    BY <1>0 DEF Waited
  <2> QED BY <1>0, <1>3, <2>1 DEF Start, world
<1>4. CASE Decide
  <2>1. attempts > 0 => Waited(attempts) = Waited(attempts - 1) + RetryWait
                        /\ Waited(attempts - 1) \in Nat
    <3> SUFFICES ASSUME attempts > 0
                 PROVE  /\ Waited(attempts) = Waited(attempts - 1) + RetryWait
                        /\ Waited(attempts - 1) \in Nat
      OBVIOUS
    <3>1. attempts - 1 \in Nat /\ (attempts - 1) + 1 = attempts
      BY <1>0
    <3> QED BY <3>1, WaitOnce
  <2> QED BY <1>0, <1>4, <2>1 DEF Decide, world
<1>5. CASE Wake
  <2>1. (attempts + 1) - 1 = attempts
    BY <1>0
  <2> QED BY <1>0, <1>5, <2>1 DEF Wake, world
<1>6. CASE Time
  BY <1>0, <1>6 DEF Time, sampler
<1>7. CASE Ask \/ Query \/ TakeTick \/ Stop \/ Tick
  BY <1>0, <1>7 DEF Ask, Query, TakeTick, Stop, Tick, sampler, world
<1>8. CASE Cancel \/ CatalogChanges \/ GoDown \/ ComeUp
  BY <1>0, <1>8 DEF Cancel, CatalogChanges, GoDown, ComeUp, sampler
<1>9. CASE \E r \in Requests : Check(r) \/ Answer(r)
  BY <1>0, <1>9 DEF Check, Answer, sampler, world
<1> QED BY <1>1, <1>2, <1>3, <1>4, <1>5, <1>6, <1>7, <1>8, <1>9 DEF Next, SamplerStep

\* A sample reads the version the catalog is of, and only what it read is
\* published.  Together with VersionsInv no answer is older than the last.
LEMMA NextVersions ==
    ASSUME SamplerInv, [Next]_vars
    PROVE  VersionsInv' /\ \A r \in Requests : answer'[r] >= answer[r]
<1> USE DEF VersionsInv
<1>0. /\ VersionsInv /\ answer \in [Requests -> None..MaxChanges]
      /\ changes \in Nat /\ snapshot \in Int /\ result \in Int /\ snapshot >= None
      /\ \A r \in Requests : answer[r] \in Int
  BY FirstVersion DEF SamplerInv, TypeOK, None, Asked
<1>1. CASE Ask \/ Query
  <2>1. UNCHANGED <<snapshot, changes, answer>>
    BY <1>1 DEF Ask, Query, current, world
  <2>2. result' \in {Asked, changes, result}
    BY <1>1 DEF Ask, Query
  <2> QED BY <1>0, <2>1, <2>2 DEF Asked
<1>2. CASE Fails
  BY <1>0, <1>2 DEF Fails, current, world, None
<1>3. CASE Publish
  <2>1. result >= 0
    BY <1>3, FirstVersion DEF Publish, SamplerInv, TypeOK, None, Asked
  <2> QED BY <1>0, <1>3, <2>1 DEF Publish, world, None
<1>4. CASE Start \/ Decide \/ Wake \/ TakeTick \/ Stop
  BY <1>0, <1>4 DEF Start, Decide, Wake, TakeTick, Stop, sample, current, world
<1>5. CASE Tick \/ UNCHANGED vars
  BY <1>0, <1>5 DEF Tick, vars, sampler, sample, current, world
<1>6. ASSUME NEW q \in Requests, Check(q) \/ Answer(q)
      PROVE  VersionsInv' /\ \A r \in Requests : answer'[r] >= answer[r]
  <2>1. UNCHANGED <<snapshot, changes, result>>
    BY <1>6 DEF Check, Answer, sampler, sample, current, world
  <2>2. \A r \in Requests : answer'[r] \in {answer[r], snapshot}
    BY <1>0, <1>6 DEF Check, Answer
  <2> QED BY <1>0, <2>1, <2>2
<1>7. CASE Time \/ Cancel \/ CatalogChanges \/ GoDown \/ ComeUp
  BY <1>0, <1>7 DEF Time, Cancel, CatalogChanges, GoDown, ComeUp, sampler, sample, current
<1> QED BY <1>1, <1>2, <1>3, <1>4, <1>5, <1>6, <1>7 DEF Next, SamplerStep

\* Only whole counts are published, of one version each.
LEMMA NextSummary ==
    ASSUME SamplerInv, SummaryInv, Next
    PROVE  SummaryInv'
<1> USE DEF SummaryInv
<1>0. /\ summary \in Summary /\ rest \in Seq(Row) /\ changes \in 0..MaxChanges
      /\ result \notin {None, Asked} => result \in 0..MaxChanges
      /\ rest # <<>> => result \notin {None, Asked}
  BY FirstVersion DEF SamplerInv, TypeOK, PhaseInv, Summary, Row, None, Asked
<1>1. CASE Ask
  BY <1>1 DEF Ask, current
<1>2. CASE Query
  <2>1. CASE result = Asked /\ result' = changes /\ Fetch(NoSummary, Versions[changes + 1])
    <3> DEFINE rows == Versions[changes + 1]
    <3>1. rows \in Seq(Row)
      BY <1>0, VersionRows
    <3>2. CountedPart(NoSummary, rows, rows) /\ NoSummary \in Summary
      BY <3>1, CountNone DEF CountedPart, RestAfter
    <3>3. CountedPart(summary', rest', rows)
      BY <2>1, <3>1, <3>2, FetchCounts
    <3> QED BY <1>2, <2>1, <3>3 DEF Query, current, world
  <2>2. CASE rest # <<>> /\ Fetch(summary, rest) /\ UNCHANGED result
    <3> DEFINE rows == Versions[result + 1]
    <3>1. rows \in Seq(Row) /\ CountedPart(summary, rest, rows)
      BY <1>0, <2>2, VersionRows
    <3>2. CountedPart(summary', rest', rows)
      BY <1>0, <2>2, <3>1, FetchCounts
    <3> QED BY <1>2, <2>2, <3>2 DEF Query, current
  <2> QED BY <1>2, <2>1, <2>2 DEF Query
<1>3. CASE Fails
  BY <1>3 DEF Fails, current
<1>4. CASE Publish
  <2> DEFINE rows == Versions[result + 1]
  <2>1. rows \in Seq(Row) /\ CountedPart(summary, rest, rows) /\ Len(rest) = 0
    BY <1>0, <1>4, VersionRows DEF Publish
  <2>2. CountedUpTo(summary, rows, Len(rows))
    <3>1. PICK n \in 0..Len(rows) : RestAfter(rest, rows, n) /\ CountedUpTo(summary, rows, n)
      BY <2>1 DEF CountedPart
    <3>2. n = Len(rows)
      BY <2>1, <3>1 DEF RestAfter
    <3> QED BY <3>1, <3>2
  <2> QED BY <1>4, <2>2 DEF Publish
<1>5. CASE UNCHANGED <<sample, current>>
  BY <1>5 DEF sample, current
<1>6. CASE Start \/ Decide \/ Wake \/ TakeTick \/ Stop
  BY <1>5, <1>6 DEF Start, Decide, Wake, TakeTick, Stop
<1>7. CASE Tick \/ \E r \in Requests : Check(r) \/ Answer(r)
  BY <1>5, <1>7 DEF Tick, Check, Answer, sampler
<1>8. CASE Time \/ Cancel \/ CatalogChanges \/ GoDown \/ ComeUp
  BY <1>5, <1>8 DEF Time, Cancel, CatalogChanges, GoDown, ComeUp, sampler
<1> QED BY <1>1, <1>2, <1>3, <1>4, <1>6, <1>7, <1>8 DEF Next, SamplerStep

----------------------------------------------------------------------------
(* The theorems.                                                           *)

LEMMA SamplerInvariant == Spec => []SamplerInv
<1>1. Init => SamplerInv
  BY InitSampler
<1>2. SamplerInv /\ [Next]_vars => SamplerInv'
  <2> SUFFICES ASSUME SamplerInv, [Next]_vars PROVE SamplerInv'
    OBVIOUS
  <2>1. CASE Next
    BY <2>1, NextType, NextPhase, NextTimer, NextVersions DEF SamplerInv
  <2>2. CASE UNCHANGED vars
    BY <2>2 DEF SamplerInv, TypeOK, PhaseInv, TimerInv, VersionsInv, NeverUnavailable,
                Serving, vars, sampler, sample, current, world
  <2> QED BY <2>1, <2>2
<1> QED BY <1>1, <1>2, PTL DEF Spec

\* The variables have their types, and the retry timer is never set for a time
\* after the deadline (sampleWithStartupRetry).
THEOREM SamplerTypes == Spec => []TypeOK
BY SamplerInvariant, PTL DEF SamplerInv

\* No request is told that the sampler is not initialized: the server listens
\* only after Start, which returns without an error only once a sample has been
\* published.
THEOREM SamplerReady == Spec => []NeverUnavailable
BY SamplerInvariant, PTL DEF SamplerInv

\* However long each attempt takes, the times bound the number of attempts:
\* between any two there is a wait, and the last starts by the deadline.
THEOREM StartGivesUp == Spec => []AttemptsBounded
<1> DEFINE q == RetryMax \div RetryWait
<1>1. q \in Nat /\ RetryMax < (q + 1) * RetryWait
  BY RetryNumbers
<1>2. ASSUME SamplerInv PROVE attempts <= q + 1
  <2> HIDE DEF q
  <2> SUFFICES ASSUME attempts > 0, attempts - 1 >= q + 1 PROVE FALSE
    BY <1>1, <1>2 DEF SamplerInv, TypeOK
  <2>1. attempts \in Nat /\ (attempts - 1) * RetryWait <= RetryMax
    BY <1>2, RetryNumbers DEF SamplerInv, TypeOK, TimerInv, Waited
  <2>2. (attempts - 1) * RetryWait >= (q + 1) * RetryWait
    BY <1>1, <2>1, RetryNumbers
  <2> QED BY <1>1, <2>1, <2>2, RetryNumbers
<1>3. SamplerInv => AttemptsBounded
  BY <1>2 DEF AttemptsBounded
<1> QED BY <1>3, SamplerInvariant, PTL

\* No request answers with an older version of the catalog than it did before:
\* samples are taken one after the other, and a failed one publishes nothing.
THEOREM AnswersNeverOlder == Spec => AnswersAdvance
<1>1. SamplerInv /\ [Next]_vars => [\A r \in Requests : answer'[r] >= answer[r]]_vars
  BY NextVersions
<1> QED BY <1>1, SamplerInvariant, PTL DEF Spec, AnswersAdvance

\* The published summary is exact: of one version of the catalog, each data
\* object with a valid id once, with the size of one of its replicas, however the
\* rows fell on the pages (appendDrsDataObjectSummaryRows).
THEOREM SummariesExact == Spec => []SummaryExact
<1>1. Init => SummaryInv
  BY DEF Init, SummaryInv
<1>2. SamplerInv /\ SummaryInv /\ [Next]_vars => SummaryInv'
  <2>1. CASE UNCHANGED vars
    BY <2>1 DEF SummaryInv, vars, sampler, sample, current
  <2> QED BY <2>1, NextSummary
<1>3. SamplerInv /\ SummaryInv => SummaryExact
  <2> SUFFICES ASSUME SamplerInv, SummaryInv, snapshot # None PROVE SummaryExact
    BY DEF SummaryExact
  <2> DEFINE all    == Versions[snapshot + 1]
             rows   == {row \in Range(all) : row.valid}
             having == {row.object : row \in rows}
  <2>1. all \in Seq(Row) /\ CountedUpTo(totals, all, Len(all))
    <3>1. snapshot \in 0..MaxChanges
      BY FirstVersion DEF SamplerInv, TypeOK, None
    <3> QED BY <3>1, VersionRows DEF SummaryInv
  <2>2. rows = ValidUpTo(all, Len(all))
    BY <2>1 DEF Range, ValidUpTo
  <2> HIDE DEF rows
  <2>3. totals.seen = having /\ totals.count = Cardinality(having)
    BY <2>1, <2>2 DEF CountedUpTo
  <2>4. PICK size \in [totals.seen -> Nat] :
            /\ \A o \in totals.seen : \E row \in rows : row.object = o /\ row.size = size[o]
            /\ totals.size = SumFunction(size)
    BY <2>1, <2>2 DEF CountedUpTo
  <2>5. size \in [having -> {row.size : row \in rows}]
    BY <2>3, <2>4
  <2>6. \A o \in having : size[o] \in {row.size : row \in {x \in rows : x.object = o}}
    BY <2>3, <2>4
  <2> QED BY <2>3, <2>4, <2>5, <2>6 DEF SummaryExact, rows
<1> QED BY <1>1, <1>2, <1>3, SamplerInvariant, PTL DEF Spec
=============================================================================
