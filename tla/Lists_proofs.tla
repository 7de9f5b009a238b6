---------------------------- MODULE Lists_proofs ----------------------------
(***************************************************************************)
(* What is left of a list of any length, and the induction over the        *)
(* natural numbers that proofs about lists go by.                          *)
(***************************************************************************)
EXTENDS Lists, SequenceTheorems, FiniteSetTheorems, WellFoundedInduction,
        TLAPS

----------------------------------------------------------------------------
(* Induction over the natural numbers, for sets of them.                   *)

\* A set of natural numbers has a least element.
LEMMA LeastNat ==
    ASSUME NEW T, T \subseteq Nat, T # {}
    PROVE  \E n \in T : \A m \in T : ~(m < n)
<1> DEFINE R == OpToRel(<, Nat)
<1>1. IsWellFoundedOn(R, Nat)
  BY NatLessThanWellFounded
<1>2. R = {ss \in Nat \X Nat : ss[1] < ss[2]}
  BY DEF OpToRel
<1> HIDE DEF R
<1>3. PICK n \in T : \A m \in T : ~(<<m, n>> \in R)
  BY <1>1, WFMin
<1> QED BY <1>2, <1>3

\* A set that holds 0, and the successor of each natural number it holds, holds
\* them all.
LEMMA NatSetInduction ==
    ASSUME NEW S, 0 \in S, \A n \in Nat : n \in S => n + 1 \in S
    PROVE  \A n \in Nat : n \in S
<1> SUFFICES ASSUME Nat \ S # {} PROVE FALSE
  OBVIOUS
<1>1. PICK n \in Nat \ S : \A m \in Nat \ S : ~(m < n)
  BY LeastNat
<1>2. n - 1 \in Nat /\ n - 1 \notin Nat \ S
  BY <1>1
<1> QED BY <1>1, <1>2

----------------------------------------------------------------------------
(* Lists without some of their entries.                                    *)

\* The values of a list of values.
Listed(s) == {s[i] : i \in DOMAIN s}

\* The places of a value in a list.
Places(x, s) == {i \in DOMAIN s : s[i] = x}

\* What an addition to a list adds to its values, and to the places of one.
LEMMA ListedAppend ==
    ASSUME NEW T, NEW s \in Seq(T), NEW x \in T
    PROVE  /\ Listed(Append(s, x)) = Listed(s) \cup {x}
           /\ \A y : Places(y, Append(s, x)) =
                       Places(y, s) \cup (IF y = x THEN {Len(s) + 1} ELSE {})
<1>1. /\ DOMAIN Append(s, x) = 1..(Len(s) + 1) /\ DOMAIN s = 1..Len(s)
      /\ Append(s, x)[Len(s) + 1] = x
      /\ \A i \in DOMAIN s : Append(s, x)[i] = s[i]
  OBVIOUS
<1>2. Listed(Append(s, x)) \subseteq Listed(s) \cup {x}
  BY <1>1 DEF Listed
<1>3. x \in Listed(Append(s, x))
  BY <1>1 DEF Listed
<1>4. Listed(s) \subseteq Listed(Append(s, x))
  BY <1>1 DEF Listed
<1>5. ASSUME NEW y
      PROVE  Places(y, Append(s, x)) =
                Places(y, s) \cup (IF y = x THEN {Len(s) + 1} ELSE {})
  BY <1>1 DEF Places
<1> QED BY <1>2, <1>3, <1>4, <1>5

\* What two lists hold, one after the other,
LEMMA ListedConcat ==
    ASSUME NEW T, NEW s \in Seq(T), NEW t \in Seq(T)
    PROVE  Listed(s \o t) = Listed(s) \cup Listed(t)
<1>1. /\ DOMAIN (s \o t) = 1..(Len(s) + Len(t))
      /\ DOMAIN s = 1..Len(s) /\ DOMAIN t = 1..Len(t)
      /\ Len(s) \in Nat /\ Len(t) \in Nat
      /\ \A i \in 1..Len(s) : (s \o t)[i] = s[i]
      /\ \A i \in 1..Len(t) : (s \o t)[Len(s) + i] = t[i]
  BY ConcatProperties
<1>2. \A i \in 1..(Len(s) + Len(t)) :
         i \in 1..Len(s) \/ (i - Len(s) \in 1..Len(t) /\ i = Len(s) + (i - Len(s)))
  BY <1>1
<1>3. Listed(s \o t) \subseteq Listed(s) \cup Listed(t)
  BY <1>1, <1>2 DEF Listed
<1>4. Listed(s) \subseteq Listed(s \o t)
  BY <1>1 DEF Listed
<1>5. Listed(t) \subseteq Listed(s \o t)
  <2> SUFFICES ASSUME NEW i \in 1..Len(t) PROVE t[i] \in Listed(s \o t)
    BY <1>1 DEF Listed
  <2>1. Len(s) + i \in DOMAIN (s \o t) /\ (s \o t)[Len(s) + i] = t[i]
    BY <1>1
  <2> QED BY <2>1 DEF Listed
<1> QED BY <1>3, <1>4, <1>5

\* and what is left of a list after its head.
LEMMA ListedTail ==
    ASSUME NEW T, NEW s \in Seq(T), s # <<>>
    PROVE  Listed(s) = {Head(s)} \cup Listed(Tail(s))
<1>1. s = <<Head(s)>> \o Tail(s) /\ Head(s) \in T /\ Tail(s) \in Seq(T)
  OBVIOUS
<1>2. Listed(<<Head(s)>>) = {Head(s)}
  BY DEF Listed
<1>3. <<Head(s)>> \in Seq(T)
  BY <1>1
<1>4. Listed(<<Head(s)>> \o Tail(s)) = Listed(<<Head(s)>>) \cup Listed(Tail(s))
  BY <1>1, <1>3, ListedConcat, ZenonT(60)
<1> QED BY <1>1, <1>2, <1>4

\* Counting places: there are finitely many among the first n, and place n + 1
\* counts once.
LEMMA CountMore ==
    ASSUME NEW n \in Nat, NEW S \in SUBSET (1..n)
    PROVE  /\ Cardinality(S) \in Nat
           /\ Cardinality(S \cup {n + 1}) = Cardinality(S) + 1
<1>1. IsFiniteSet(1..n)
  BY FS_Interval
<1>2. IsFiniteSet(S)
  BY <1>1, FS_Subset
<1>3. n + 1 \notin S
  OBVIOUS
<1>4. Cardinality(S) \in Nat
  BY <1>2, FS_CardinalityType
<1>5. Cardinality(S \cup {n + 1}) = Cardinality(S) + 1
  BY <1>2, <1>3, FS_AddElement
<1> QED BY <1>4, <1>5

\* The number of places of a value, entry by entry.
LEMMA PlacesAppend ==
    ASSUME NEW T, NEW s \in Seq(T), NEW x \in T, NEW y
    PROVE  Cardinality(Places(y, Append(s, x))) =
              Cardinality(Places(y, s)) + (IF y = x THEN 1 ELSE 0)
<1>1. Places(y, s) \in SUBSET (1..Len(s)) /\ Len(s) \in Nat
  BY DEF Places
<1>2. /\ Cardinality(Places(y, s)) \in Nat
      /\ Cardinality(Places(y, s) \cup {Len(s) + 1}) = Cardinality(Places(y, s)) + 1
  BY <1>1, CountMore
<1>3. Places(y, Append(s, x)) =
         Places(y, s) \cup (IF y = x THEN {Len(s) + 1} ELSE {})
  BY ListedAppend
<1>4. CASE y = x
  BY <1>2, <1>3, <1>4
<1>5. CASE y # x
  <2>1. Places(y, Append(s, x)) = Places(y, s)
    BY <1>3, <1>5
  <2> QED BY <1>2, <1>5, <2>1
<1> QED BY <1>4, <1>5

\* One turn of the loop: what f[n] is, when f holds the entries kept before.
Turn(list, dropped, f, n) ==
    IF n = 0 THEN <<>>
    ELSE IF list[n] \in dropped THEN f[n - 1]
    ELSE Append(f[n - 1], list[n])

\* The loop is well defined, turn by turn.
LEMMA KeptExists ==
    ASSUME NEW list, NEW dropped
    PROVE  \A m \in Nat : \E f : f = [n \in 0..m |-> Turn(list, dropped, f, n)]
<1> DEFINE S == {m \in Nat : \E f : f = [n \in 0..m |-> Turn(list, dropped, f, n)]}
<1>1. 0 \in S
  <2> DEFINE f == [n \in 0..0 |-> <<>>]
  <2>1. f = [n \in 0..0 |-> Turn(list, dropped, f, n)]
    BY DEF Turn
  <2> QED BY <2>1
<1>2. ASSUME NEW m \in Nat, m \in S PROVE m + 1 \in S
  <2>1. PICK f : f = [n \in 0..m |-> Turn(list, dropped, f, n)]
    BY <1>2
  <2> DEFINE g == [n \in 0..(m + 1) |->
                      IF n \in 0..m THEN f[n] ELSE Turn(list, dropped, f, n)]
  <2>2. \A n \in 0..(m + 1) : g[n] = Turn(list, dropped, g, n)
    <3> SUFFICES ASSUME NEW n \in 0..(m + 1) PROVE g[n] = Turn(list, dropped, g, n)
      OBVIOUS
    <3>1. n # 0 => n - 1 \in 0..m /\ g[n - 1] = f[n - 1]
      OBVIOUS
    <3>2. g[n] = Turn(list, dropped, f, n)
      BY <2>1
    <3> QED BY <3>1, <3>2 DEF Turn
  <2>3. g = [n \in 0..(m + 1) |-> Turn(list, dropped, g, n)]
    BY <2>2
  <2> HIDE DEF g
  <2> QED BY <2>3
<1> HIDE DEF S
<1>3. \A m \in Nat : m \in S
  BY <1>1, <1>2, NatSetInduction
<1> QED BY <1>3 DEF S

\* A value is in two lists equally often.
AsOften(x, s, t) == Cardinality(Places(x, s)) = Cardinality(Places(x, t))

\* What the loop leaves is a list of the other values, in which each of them
\* occurs as often as it was given.
LEMMA KeptEntries ==
    ASSUME NEW T, NEW dropped, NEW list \in Seq(T)
    PROVE  /\ Without(list, dropped) \in Seq(T \ dropped)
           /\ Listed(Without(list, dropped)) = Listed(list) \ dropped
           /\ \A x : x \notin dropped => AsOften(x, Without(list, dropped), list)
<1> DEFINE N == Len(list)
           f == CHOOSE g : g = [n \in 0..N |-> Turn(list, dropped, g, n)]
           Upto(n) == {list[i] : i \in 1..n}
           PlacesUpto(x, n) == {i \in 1..n : list[i] = x}
           Count(x, n) == Cardinality(PlacesUpto(x, n))
           S == {n \in Nat : n <= N =>
                    /\ f[n] \in Seq(T \ dropped)
                    /\ Listed(f[n]) = Upto(n) \ dropped
                    /\ \A x : x \notin dropped =>
                          Cardinality(Places(x, f[n])) = Count(x, n)}
<1>1. N \in Nat /\ DOMAIN list = 1..N
  OBVIOUS
<1>2. f = [n \in 0..N |-> Turn(list, dropped, f, n)]
  <2>1. \E g : g = [n \in 0..N |-> Turn(list, dropped, g, n)]
    BY <1>1, KeptExists
  <2> QED BY <2>1
<1>3. Without(list, dropped) = f[N]
  BY DEF Without, Turn
<1> HIDE DEF f
<1>4. 0 \in S
  <2>1. f[0] = <<>>
    BY <1>1, <1>2 DEF Turn
  <2>2. <<>> \in Seq(T \ dropped) /\ Listed(<<>>) = {} /\ Upto(0) = {}
    BY DEF Listed
  <2>3. f[0] \in Seq(T \ dropped) /\ Listed(f[0]) = Upto(0) \ dropped
    BY <2>1, <2>2
  <2>4. \A x : Places(x, f[0]) = PlacesUpto(x, 0)
    BY <2>1 DEF Places
  <2> QED BY <2>3, <2>4
<1>5. ASSUME NEW n \in Nat, n \in S PROVE n + 1 \in S
  <2> SUFFICES ASSUME n + 1 <= N
               PROVE  /\ f[n + 1] \in Seq(T \ dropped)
                      /\ Listed(f[n + 1]) = Upto(n + 1) \ dropped
                      /\ \A x : x \notin dropped =>
                            Cardinality(Places(x, f[n + 1])) = Count(x, n + 1)
    OBVIOUS
  <2>1. /\ f[n] \in Seq(T \ dropped) /\ Listed(f[n]) = Upto(n) \ dropped
        /\ \A x : x \notin dropped => Cardinality(Places(x, f[n])) = Count(x, n)
    BY <1>1, <1>5
  <2>2. n + 1 \in 1..N /\ n + 1 # 0 /\ (n + 1) - 1 = n
    BY <1>1
  <2>3. f[n + 1] = IF list[n + 1] \in dropped THEN f[n]
                   ELSE Append(f[n], list[n + 1])
    <3>1. n + 1 \in 0..N
      BY <2>2
    <3>2. f[n + 1] = Turn(list, dropped, f, n + 1)
      BY <1>2, <3>1
    <3> QED BY <2>2, <3>2 DEF Turn
  <2>4. 1..(n + 1) = (1..n) \cup {n + 1} /\ n + 1 \notin 1..n
    OBVIOUS
  <2>5. Upto(n + 1) = Upto(n) \cup {list[n + 1]}
    BY <2>4
  <2>6. ASSUME NEW x
        PROVE  Count(x, n + 1) = Count(x, n) + (IF x = list[n + 1] THEN 1 ELSE 0)
    <3>1. PlacesUpto(x, n + 1) = PlacesUpto(x, n) \cup
             (IF x = list[n + 1] THEN {n + 1} ELSE {})
      BY <2>4
    <3>2. PlacesUpto(x, n) \in SUBSET (1..n)
      OBVIOUS
    <3> HIDE DEF PlacesUpto
    <3>3. /\ Count(x, n) \in Nat
          /\ Cardinality(PlacesUpto(x, n) \cup {n + 1}) = Count(x, n) + 1
      BY <3>2, CountMore
    <3>4. CASE x = list[n + 1]
      BY <3>1, <3>3, <3>4
    <3>5. CASE x # list[n + 1]
      <4>1. PlacesUpto(x, n + 1) = PlacesUpto(x, n)
        BY <3>1, <3>5
      <4> QED BY <3>3, <3>5, <4>1
    <3> QED BY <3>4, <3>5
  <2>7. list[n + 1] \in T
    BY <2>2
  <2> HIDE DEF Upto, Count
  <2>8. CASE list[n + 1] \in dropped
    <3>1. f[n + 1] = f[n] /\ Upto(n + 1) \ dropped = Upto(n) \ dropped
      BY <2>3, <2>5, <2>8
    <3>2. \A x : x \notin dropped => Count(x, n + 1) = Count(x, n) + 0
      BY <2>6, <2>8
    <3>3. \A x : Count(x, n) \in Nat
      <4>1. \A x : PlacesUpto(x, n) \in SUBSET (1..n)
        OBVIOUS
      <4> QED BY <4>1, CountMore DEF Count
    <3> QED BY <2>1, <3>1, <3>2, <3>3
  <2>9. CASE list[n + 1] \notin dropped
    <3>1. f[n + 1] = Append(f[n], list[n + 1]) /\ list[n + 1] \in T \ dropped
      BY <2>3, <2>7, <2>9
    <3>2. Listed(f[n + 1]) = Listed(f[n]) \cup {list[n + 1]}
      BY <2>1, <3>1, ListedAppend
    <3>3. f[n + 1] \in Seq(T \ dropped)
      BY <2>1, <3>1
    <3>4. ASSUME NEW x, x \notin dropped
          PROVE  Cardinality(Places(x, f[n + 1])) = Count(x, n + 1)
      <4>1. Cardinality(Places(x, Append(f[n], list[n + 1]))) =
               Cardinality(Places(x, f[n])) + (IF x = list[n + 1] THEN 1 ELSE 0)
        BY <2>1, <3>1, PlacesAppend
      <4> QED BY <2>1, <2>6, <3>1, <3>4, <4>1
    <3>5. Listed(f[n + 1]) = Upto(n + 1) \ dropped
      BY <2>1, <2>5, <2>9, <3>2
    <3> QED BY <3>3, <3>4, <3>5
  <2> QED BY <2>8, <2>9
<1> HIDE DEF S
<1>6. N \in S
  BY <1>1, <1>4, <1>5, NatSetInduction
<1>7. /\ f[N] \in Seq(T \ dropped) /\ Listed(f[N]) = Upto(N) \ dropped
      /\ \A x : x \notin dropped => Cardinality(Places(x, f[N])) = Count(x, N)
  BY <1>1, <1>6 DEF S
<1>8. Upto(N) = Listed(list) /\ \A x : PlacesUpto(x, N) = Places(x, list)
  BY <1>1 DEF Listed, Places
<1>9. \A x : x \notin dropped => AsOften(x, Without(list, dropped), list)
  BY <1>3, <1>7, <1>8 DEF AsOften
<1> QED BY <1>3, <1>7, <1>8, <1>9

\* The loop, turn by turn.
LEMMA KeptTurns ==
    ASSUME NEW T, NEW dropped, NEW list \in Seq(T)
    PROVE  \E f : /\ f[0] = <<>>
                  /\ \A n \in Nat : n + 1 <= Len(list) =>
                        f[n + 1] = IF list[n + 1] \in dropped THEN f[n]
                                   ELSE Append(f[n], list[n + 1])
                  /\ Without(list, dropped) = f[Len(list)]
<1> DEFINE N == Len(list)
           f == CHOOSE g : g = [n \in 0..N |-> Turn(list, dropped, g, n)]
<1>1. N \in Nat
  OBVIOUS
<1>2. f = [n \in 0..N |-> Turn(list, dropped, f, n)]
  <2>1. \E g : g = [n \in 0..N |-> Turn(list, dropped, g, n)]
    BY <1>1, KeptExists
  <2> QED BY <2>1
<1>3. Without(list, dropped) = f[N]
  BY DEF Without, Turn
<1> HIDE DEF f
<1>4. f[0] = <<>>
  BY <1>1, <1>2 DEF Turn
<1>5. ASSUME NEW n \in Nat, n + 1 <= N
      PROVE  f[n + 1] = IF list[n + 1] \in dropped THEN f[n]
                        ELSE Append(f[n], list[n + 1])
  <2>1. n + 1 \in 0..N /\ n + 1 # 0 /\ (n + 1) - 1 = n
    BY <1>1, <1>5
  <2>2. f[n + 1] = Turn(list, dropped, f, n + 1)
    BY <1>2, <2>1
  <2> QED BY <2>1, <2>2 DEF Turn
<1> QED BY <1>3, <1>4, <1>5

\* The entries of one list are in another, none of them earlier than before.
NoEarlier(s, t) ==
    \A i \in DOMAIN s : \E k \in DOMAIN t : i <= k /\ t[k] = s[i]

\* An entry that both lists get at their ends does not change that.
LEMMA NoEarlierAppend ==
    ASSUME NEW T, NEW s \in Seq(T), NEW t \in Seq(T), NEW x \in T,
           Len(s) <= Len(t), NoEarlier(s, t)
    PROVE  NoEarlier(s, Append(t, x)) /\ NoEarlier(Append(s, x), Append(t, x))
<1>1. /\ DOMAIN s = 1..Len(s) /\ Len(s) \in Nat
      /\ DOMAIN t = 1..Len(t) /\ Len(t) \in Nat
      /\ DOMAIN Append(s, x) = 1..(Len(s) + 1) /\ DOMAIN Append(t, x) = 1..(Len(t) + 1)
      /\ Append(s, x)[Len(s) + 1] = x /\ Append(t, x)[Len(t) + 1] = x
      /\ \A i \in DOMAIN s : Append(s, x)[i] = s[i]
      /\ \A i \in DOMAIN t : Append(t, x)[i] = t[i]
  OBVIOUS
<1>2. ASSUME NEW i \in DOMAIN s
      PROVE  \E k \in DOMAIN Append(t, x) : i <= k /\ Append(t, x)[k] = s[i]
  <2>1. PICK k \in DOMAIN t : i <= k /\ t[k] = s[i]
    BY DEF NoEarlier
  <2>2. k \in DOMAIN Append(t, x) /\ Append(t, x)[k] = s[i]
    BY <1>1, <2>1
  <2> QED BY <2>1, <2>2
<1>3. ASSUME NEW i \in DOMAIN Append(s, x)
      PROVE  \E k \in DOMAIN Append(t, x) : i <= k /\ Append(t, x)[k] = Append(s, x)[i]
  <2>1. CASE i \in DOMAIN s
    BY <1>1, <1>2, <2>1
  <2>2. CASE i \notin DOMAIN s
    <3>1. i = Len(s) + 1
      BY <1>1, <2>2
    <3>2. Len(t) + 1 \in DOMAIN Append(t, x) /\ i <= Len(t) + 1
      BY <1>1, <3>1
    <3> QED BY <1>1, <3>1, <3>2
  <2> QED BY <2>1, <2>2
<1> QED BY <1>2, <1>3 DEF NoEarlier

\* The loop leaves no more than it was given; and when it drops less, what it
\* left before comes no earlier.
LEMMA KeptLater ==
    ASSUME NEW T, NEW list \in Seq(T), NEW dropped, NEW fewer, fewer \subseteq dropped
    PROVE  /\ Len(Without(list, dropped)) <= Len(list)
           /\ NoEarlier(Without(list, dropped), Without(list, fewer))
<1> DEFINE N == Len(list)
<1>1. N \in Nat
  OBVIOUS
<1>2. PICK f : /\ f[0] = <<>>
               /\ \A n \in Nat : n + 1 <= N =>
                     f[n + 1] = IF list[n + 1] \in dropped THEN f[n]
                                ELSE Append(f[n], list[n + 1])
               /\ Without(list, dropped) = f[N]
  BY KeptTurns
<1>3. PICK g : /\ g[0] = <<>>
               /\ \A n \in Nat : n + 1 <= N =>
                     g[n + 1] = IF list[n + 1] \in fewer THEN g[n]
                                ELSE Append(g[n], list[n + 1])
               /\ Without(list, fewer) = g[N]
  BY KeptTurns
<1> DEFINE Holds(n) == /\ f[n] \in Seq(T) /\ g[n] \in Seq(T)
                       /\ Len(f[n]) <= n /\ Len(f[n]) <= Len(g[n])
                       /\ NoEarlier(f[n], g[n])
           S == {n \in Nat : n <= N => Holds(n)}
<1>4. 0 \in S
  <2>1. f[0] = <<>> /\ g[0] = <<>>
    BY <1>2, <1>3
  <2>2. /\ <<>> \in Seq(T) /\ Len(<<>>) = 0
        /\ NoEarlier(<<>>, <<>>)
    BY DEF NoEarlier
  <2>3. NoEarlier(f[0], g[0])
    BY <2>1, <2>2, Zenon
  <2>4. Len(f[0]) <= 0 /\ Len(f[0]) <= Len(g[0]) /\ f[0] \in Seq(T) /\ g[0] \in Seq(T)
    BY <2>1, <2>2
  <2> QED BY <2>3, <2>4
<1>5. ASSUME NEW n \in Nat, n \in S PROVE n + 1 \in S
  <2> SUFFICES ASSUME n + 1 <= N PROVE Holds(n + 1)
    OBVIOUS
  <2> DEFINE x == list[n + 1]
  <2>1. x \in T
    BY <1>1
  <2>2. Holds(n)
    BY <1>1, <1>5
  <2>3. /\ f[n + 1] = IF x \in dropped THEN f[n] ELSE Append(f[n], x)
        /\ g[n + 1] = IF x \in fewer THEN g[n] ELSE Append(g[n], x)
    BY <1>2, <1>3
  <2>4. /\ Len(f[n]) \in Nat /\ Len(g[n]) \in Nat
        /\ Append(f[n], x) \in Seq(T) /\ Len(Append(f[n], x)) = Len(f[n]) + 1
        /\ Append(g[n], x) \in Seq(T) /\ Len(Append(g[n], x)) = Len(g[n]) + 1
    BY <2>1, <2>2
  <2>5. NoEarlier(f[n], Append(g[n], x)) /\ NoEarlier(Append(f[n], x), Append(g[n], x))
    BY <2>1, <2>2, NoEarlierAppend
  <2> HIDE DEF x
  <2>6. CASE x \in fewer
    BY <2>2, <2>3, <2>4, <2>6
  <2>7. CASE x \notin fewer /\ x \in dropped
    BY <2>2, <2>3, <2>4, <2>5, <2>7
  <2>8. CASE x \notin dropped
    BY <2>2, <2>3, <2>4, <2>5, <2>8
  <2> QED BY <2>6, <2>7, <2>8
<1> HIDE DEF S
<1>6. N \in S
  BY <1>1, <1>4, <1>5, NatSetInduction
<1> QED BY <1>1, <1>2, <1>3, <1>6 DEF S

\* The first entry of Q that is not dropped is the first of Q in what is left.
LEMMA KeptFirst ==
    ASSUME NEW T, NEW list \in Seq(T), NEW dropped, NEW Q, NEW m \in DOMAIN list,
           list[m] \in Q \ dropped, \A k \in 1..(m - 1) : list[k] \notin Q \ dropped
    PROVE  \E i \in DOMAIN Without(list, dropped) :
              /\ Without(list, dropped)[i] = list[m]
              /\ \A k \in 1..(i - 1) : Without(list, dropped)[k] \notin Q
<1> DEFINE N == Len(list)
<1>1. N \in Nat /\ m \in 1..N
  OBVIOUS
<1>2. PICK f : /\ f[0] = <<>>
               /\ \A n \in Nat : n + 1 <= N =>
                     f[n + 1] = IF list[n + 1] \in dropped THEN f[n]
                                ELSE Append(f[n], list[n + 1])
               /\ Without(list, dropped) = f[N]
  BY KeptTurns
<1> DEFINE None(s) == \A k \in DOMAIN s : s[k] \notin Q
           First(s) == \E i \in DOMAIN s :
                          s[i] = list[m] /\ \A k \in 1..(i - 1) : s[k] \notin Q
           Holds(n) == /\ f[n] \in Seq(T)
                       /\ n < m => None(f[n])
                       /\ n >= m => First(f[n])
           S == {n \in Nat : n <= N => Holds(n)}
<1>3. 0 \in S
  <2>1. <<>> \in Seq(T) /\ None(<<>>) /\ ~(0 >= m)
    BY <1>1
  <2> QED BY <1>2, <2>1
<1>4. ASSUME NEW s \in Seq(T), NEW x \in T
      PROVE  /\ Append(s, x) \in Seq(T)
             /\ None(s) /\ x \notin Q => None(Append(s, x))
             /\ None(s) /\ x = list[m] => First(Append(s, x))
             /\ First(s) => First(Append(s, x))
  <2>1. /\ DOMAIN Append(s, x) = 1..(Len(s) + 1) /\ DOMAIN s = 1..Len(s)
        /\ Append(s, x)[Len(s) + 1] = x /\ Len(s) \in Nat
        /\ \A i \in 1..Len(s) : Append(s, x)[i] = s[i]
    OBVIOUS
  <2>2. None(s) /\ x \notin Q => None(Append(s, x))
    BY <2>1
  <2>3. ASSUME None(s), x = list[m] PROVE First(Append(s, x))
    <3>1. Len(s) + 1 \in DOMAIN Append(s, x) /\ Append(s, x)[Len(s) + 1] = list[m]
      BY <2>1, <2>3
    <3>2. \A k \in 1..((Len(s) + 1) - 1) : Append(s, x)[k] \notin Q
      BY <2>1, <2>3
    <3> QED BY <3>1, <3>2
  <2>4. ASSUME First(s) PROVE First(Append(s, x))
    <3>1. PICK i \in DOMAIN s : s[i] = list[m] /\ \A k \in 1..(i - 1) : s[k] \notin Q
      BY <2>4
    <3>2. i \in DOMAIN Append(s, x) /\ Append(s, x)[i] = list[m]
      BY <2>1, <3>1
    <3>3. \A k \in 1..(i - 1) : Append(s, x)[k] \notin Q
      BY <2>1, <3>1
    <3> QED BY <3>2, <3>3
  <2> QED BY <2>2, <2>3, <2>4
<1>5. ASSUME NEW n \in Nat, n \in S PROVE n + 1 \in S
  <2> SUFFICES ASSUME n + 1 <= N PROVE Holds(n + 1)
    OBVIOUS
  <2> DEFINE x == list[n + 1]
  <2>1. x \in T /\ n + 1 \in 1..N
    BY <1>1
  <2>2. Holds(n)
    BY <1>1, <1>5
  <2>3. f[n + 1] = IF x \in dropped THEN f[n] ELSE Append(f[n], x)
    BY <1>2
  <2>4. n + 1 < m => x \notin Q \ dropped
    BY <1>1
  <2>5. n + 1 = m => x = list[m] /\ x \notin dropped
    OBVIOUS
  <2> HIDE DEF x, None, First
  <2>6. CASE x \in dropped
    BY <1>1, <2>2, <2>3, <2>5, <2>6
  <2>7. CASE x \notin dropped
    <3>1. f[n + 1] = Append(f[n], x)
      BY <2>3, <2>7
    <3>2. n + 1 < m => None(f[n + 1])
      BY <1>1, <1>4, <2>1, <2>2, <2>4, <2>7, <3>1
    <3>3. n + 1 >= m => First(f[n + 1])
      <4>1. CASE n + 1 = m
        BY <1>1, <1>4, <2>1, <2>2, <2>5, <3>1, <4>1
      <4>2. CASE n >= m
        BY <1>4, <2>1, <2>2, <3>1, <4>2
      <4> QED BY <1>1, <4>1, <4>2
    <3> QED BY <1>4, <2>1, <2>2, <3>1, <3>2, <3>3
  <2> QED BY <2>6, <2>7
<1> HIDE DEF S
<1>6. N \in S
  BY <1>1, <1>3, <1>5, NatSetInduction
<1> QED BY <1>1, <1>2, <1>6 DEF S
=============================================================================
