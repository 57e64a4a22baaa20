--------------------------- MODULE OrderingProofs ---------------------------
(***************************************************************************)
(* Lemmas about lists computed from sets.  Nothing here is proved by        *)
(* induction over a list: the place of an element is one more than the      *)
(* number of elements before it, and finite cardinalities do the rest       *)
(* (LEMMA Places).                                                          *)
(***************************************************************************)
EXTENDS Ordering, SequencesExt, FiniteSetTheorems, FunctionTheorems, SequenceTheorems,
        WellFoundedInduction, TLAPS

----------------------------------------------------------------------------
(* Order and position. *)

(* R orders the elements of S strictly and totally. *)
Orders(R, S) ==
    /\ \A x \in S : <<x, x>> \notin R
    /\ \A x, y, z \in S : <<x, y>> \in R /\ <<y, z>> \in R => <<x, z>> \in R
    /\ \A x, y \in S : x = y \/ <<x, y>> \in R \/ <<y, x>> \in R

(* What comes before x. *)
Preceding(R, S, x) == {y \in S : <<y, x>> \in R}

(* The elements of a finite ordered set take the places 0 to n - 1.         *)
LEMMA Places ==
    ASSUME NEW S, IsFiniteSet(S), NEW R, Orders(R, S)
    PROVE  /\ Cardinality(S) \in Nat
           /\ \A x \in S : Cardinality(Preceding(R, S, x)) \in 0..Cardinality(S) - 1
           /\ \A x, y \in S : <<x, y>> \in R <=>
                 Cardinality(Preceding(R, S, x)) < Cardinality(Preceding(R, S, y))
           /\ \A k \in 0..Cardinality(S) - 1 :
                 \E x \in S : Cardinality(Preceding(R, S, x)) = k
<1> DEFINE n == Cardinality(S)
           place(x) == Cardinality(Preceding(R, S, x))
           f == [x \in S |-> place(x)]
<1>1. n \in Nat
  BY FS_CardinalityType
<1>2. \A x \in S : IsFiniteSet(Preceding(R, S, x)) /\ place(x) \in 0..n - 1
  <2>1. TAKE x \in S
  <2>2. Preceding(R, S, x) \in SUBSET S /\ Preceding(R, S, x) # S
    BY DEF Preceding, Orders
  <2>3. /\ IsFiniteSet(Preceding(R, S, x)) /\ place(x) <= n /\ place(x) # n
    BY <2>2, FS_Subset
  <2>4. place(x) \in Nat
    BY <2>3, FS_CardinalityType
  <2> QED
    BY <1>1, <2>3, <2>4
<1>3. \A x, y \in S : <<x, y>> \in R => place(x) < place(y)
  <2>1. TAKE x, y \in S
  <2>2. HAVE <<x, y>> \in R
  <2>3. Preceding(R, S, x) \in SUBSET Preceding(R, S, y) /\ Preceding(R, S, x) # Preceding(R, S, y)
    BY <2>2 DEF Preceding, Orders
  <2>4. place(x) <= place(y) /\ place(x) # place(y)
    BY <1>2, <2>3, FS_Subset
  <2> QED
    BY <1>2, <2>4
<1>4. \A x, y \in S : place(x) < place(y) => <<x, y>> \in R
  <2>1. TAKE x, y \in S
  <2>2. x = y \/ <<x, y>> \in R \/ <<y, x>> \in R
    BY DEF Orders
  <2> QED
    BY <1>2, <1>3, <2>2
<1>5. f \in Injection(S, 0..n - 1)
  <2>1. \A x, y \in S : f[x] = f[y] => x = y
    <3>1. TAKE x, y \in S
    <3>2. x = y \/ place(x) < place(y) \/ place(y) < place(x)
      BY <1>3 DEF Orders
    <3> QED
      BY <1>2, <3>2
  <2> QED
    BY <1>2, <2>1 DEF Injection, IsInjective
<1>6. f \in Surjection(S, 0..n - 1)
  <2>1. IsFiniteSet(0..n - 1) /\ Cardinality(0..n - 1) = n
    BY <1>1, FS_Interval
  <2> QED
    BY <1>5, <2>1, FS_Injection
<1>7. \A k \in 0..n - 1 : \E x \in S : place(x) = k
  BY <1>6 DEF Surjection
<1> QED
  BY <1>1, <1>2, <1>3, <1>4, <1>7

(* s lists the elements of S in the order R. *)
Lists(s, S, R) ==
    /\ Cardinality(S) \in Nat
    /\ s \in [1..Cardinality(S) -> S]
    /\ \A i, j \in 1..Cardinality(S) : i < j <=> <<s[i], s[j]>> \in R
    /\ \A x \in S : \E i \in 1..Cardinality(S) : s[i] = x

(* It does when the element at place i is preceded by i - 1 others.         *)
LEMMA ListsInOrder ==
    ASSUME NEW S, IsFiniteSet(S), NEW R, Orders(R, S),
           NEW s \in [1..Cardinality(S) -> S],
           \A i \in 1..Cardinality(S) : Cardinality(Preceding(R, S, s[i])) = i - 1
    PROVE  Lists(s, S, R)
<1> DEFINE n == Cardinality(S)
<1>1. n \in Nat
  BY Places
<1>2. \A i, j \in 1..n : i < j <=> <<s[i], s[j]>> \in R
  <2>1. TAKE i, j \in 1..n
  <2>2. s[i] \in S /\ s[j] \in S
    OBVIOUS
  <2>3. <<s[i], s[j]>> \in R <=>
            Cardinality(Preceding(R, S, s[i])) < Cardinality(Preceding(R, S, s[j]))
    BY <2>2, Places
  <2>4. /\ Cardinality(Preceding(R, S, s[i])) = i - 1
        /\ Cardinality(Preceding(R, S, s[j])) = j - 1
    OBVIOUS
  <2> QED
    BY <2>3, <2>4
<1>3. \A x \in S : \E i \in 1..n : s[i] = x
  <2>1. TAKE x \in S
  <2>2. Cardinality(Preceding(R, S, x)) \in 0..n - 1
    BY Places
  <2> DEFINE i == Cardinality(Preceding(R, S, x)) + 1
  <2>3. i \in 1..n /\ s[i] \in S /\ Cardinality(Preceding(R, S, s[i])) = i - 1
    BY <1>1, <2>2
  <2>4. <<x, s[i]>> \notin R /\ <<s[i], x>> \notin R
    BY <2>2, <2>3, Places
  <2>5. s[i] = x
    BY <2>3, <2>4 DEF Orders
  <2> QED
    BY <2>3, <2>5
<1> QED
  BY <1>1, <1>2, <1>3 DEF Lists

(* A list of a set is a sequence. *)
LEMMA ListIsSeq ==
    ASSUME NEW n \in Nat, NEW S, NEW s \in [1..n -> S]
    PROVE  s \in Seq(S) /\ Len(s) = n /\ DOMAIN s = 1..n
<1>1. s \in Seq(S)
  BY SeqDef
<1>2. DOMAIN s = 1..Len(s) /\ Len(s) \in Nat
  BY <1>1, LenProperties
<1> QED
  BY <1>1, <1>2

(* The natural numbers of a set that is not empty have a least one. *)
LEMMA LeastOf ==
    ASSUME NEW S \in SUBSET Nat, S # {}
    PROVE  \E x \in S : \A y \in S : x <= y
<1> DEFINE F == {0..x : x \in S}
           All == UNION F
<1>1. F \subseteq FiniteSubsetsOf(All)
  <2>1. \A x \in S : x \in Int /\ IsFiniteSet(0..x)
    BY FS_Interval, 0 \in Int
  <2> QED
    BY <2>1 DEF FiniteSubsetsOf
<1>2. F # {}
  OBVIOUS
<1>3. \E T \in F : \A U \in F : ~ (<<U, T>> \in StrictSubsetOrdering(All))
  <2> HIDE DEF F, All
  <2> QED
    BY <1>1, <1>2, FS_StrictSubsetOrderingWellFounded, WFMin
<1>4. PICK x \in S : \A U \in F : ~ (<<U, 0..x>> \in StrictSubsetOrdering(All))
  BY <1>3
<1>5. ASSUME NEW y \in S, y < x PROVE FALSE
  <2>1. 0..y \in F /\ 0..x \in F
    OBVIOUS
  <2>2. 0..y \subseteq 0..x /\ x \notin 0..y /\ x \in 0..x
    BY <1>5
  <2>3. <<0..y, 0..x>> \in StrictSubsetOrdering(All)
    <3> HIDE DEF F
    <3>1. 0..y \in SUBSET All /\ 0..x \in SUBSET All
      BY <2>1
    <3> QED
      BY <1>1, <2>1, <2>2, <3>1 DEF StrictSubsetOrdering, FiniteSubsetsOf
  <2> QED
    BY <1>4, <2>1, <2>3
<1> QED
  BY <1>5

(* Min is the least number. *)
LEMMA MinIs ==
    ASSUME NEW S \in SUBSET Nat, S # {}
    PROVE  Min(S) \in S /\ \A y \in S : Min(S) <= y
BY LeastOf DEF Min

(* What can be ordered can be listed. *)
LEMMA Listable ==
    ASSUME NEW S, IsFiniteSet(S), NEW R, Orders(R, S)
    PROVE  \E s : Lists(s, S, R)
<1> DEFINE n == Cardinality(S)
           s == [i \in 1..n |-> CHOOSE x \in S : Cardinality(Preceding(R, S, x)) = i - 1]
<1>1. \A i \in 1..n : s[i] \in S /\ Cardinality(Preceding(R, S, s[i])) = i - 1
  <2>1. TAKE i \in 1..n
  <2>2. i - 1 \in 0..n - 1
    BY Places
  <2>3. \E x \in S : Cardinality(Preceding(R, S, x)) = i - 1
    BY <2>2, Places
  <2> QED
    BY <2>3
<1>2. s \in [1..n -> S]
  BY <1>1
<1> HIDE DEF s
<1>3. Lists(s, S, R)
  BY <1>1, <1>2, ListsInOrder
<1> QED
  BY <1>3

(* A set of places, in order; places that start the board keep theirs.      *)
LEMMA PlacesInOrder ==
    ASSUME NEW n \in Nat, NEW P \in SUBSET (1..n)
    PROVE  LET p == InOrder(P, <)
               m == Cardinality(P)
           IN  /\ m \in Nat /\ DOMAIN p = 1..m /\ p \in [1..m -> P]
               /\ \A k, l \in 1..m : k < l <=> p[k] < p[l]
               /\ \A i \in P : \E k \in 1..m : p[k] = i
               /\ \A i \in P : 1..i \subseteq P => i \in 1..m /\ p[i] = i
<1> DEFINE p == InOrder(P, <)
           m == Cardinality(P)
<1>1. IsFiniteSet(P)
  <2>1. IsFiniteSet(1..n)
    BY FS_Interval, 1 \in Int, n \in Int
  <2> QED
    BY <2>1, FS_Subset
<1>2. PICK R : \A x, y \in P : <<x, y>> \in R <=> x < y
  <2>1. \A x, y \in P : <<x, y>> \in {e \in P \X P : e[1] < e[2]} <=> x < y
    OBVIOUS
  <2> QED
    BY <2>1
<1>3. Orders(R, P)
  BY <1>2 DEF Orders
<1>4. \A x \in P : Preceding(R, P, x) = {y \in P : y < x}
  BY <1>2 DEF Preceding
<1>5. m \in Nat /\ \A k \in 0..m - 1 : \E x \in P : Cardinality(Preceding(R, P, x)) = k
  <2>1. m \in Nat
    BY <1>1, FS_CardinalityType
  <2>2. ASSUME NEW k \in 0..m - 1 PROVE \E x \in P : Cardinality(Preceding(R, P, x)) = k
    <3> HIDE DEF m
    <3>1. k \in 0..Cardinality(P) - 1
      BY DEF m
    <3>2. \E x : x \in P /\ Cardinality(Preceding(R, P, x)) = k
      BY <1>1, <1>3, <3>1, Places
    <3> QED
      BY <3>2
  <2> QED
    BY <2>1, <2>2
<1>6. p = [i \in 1..m |-> CHOOSE x \in P : Cardinality({y \in P : y < x}) = i - 1]
  BY DEF InOrder
<1>7. \A i \in 1..m : p[i] \in P /\ Cardinality(Preceding(R, P, p[i])) = i - 1
  <2>1. TAKE i \in 1..m
  <2>2. i - 1 \in 0..m - 1
    BY <1>5
  <2>3. \E x \in P : Cardinality({y \in P : y < x}) = i - 1
    BY <1>4, <1>5, <2>2
  <2>4. p[i] = CHOOSE x \in P : Cardinality({y \in P : y < x}) = i - 1
    BY <1>6
  <2> HIDE DEF p
  <2>5. p[i] \in P /\ Cardinality({y \in P : y < p[i]}) = i - 1
    BY <2>3, <2>4
  <2> QED
    BY <1>4, <2>5
<1>8. DOMAIN p = 1..m /\ p \in [1..m -> P]
  <2> HIDE DEF m
  <2> QED
    BY <1>6, <1>7
<1>9. Lists(p, P, R)
  <2> HIDE DEF p
  <2> QED
    BY <1>1, <1>3, <1>7, <1>8, ListsInOrder
<1>10. \A k, l \in 1..m : k < l <=> p[k] < p[l]
  <2> HIDE DEF p, m
  <2> QED
    BY <1>2, <1>8, <1>9 DEF Lists
<1>11. ASSUME NEW i \in P, 1..i \subseteq P PROVE i \in 1..m /\ p[i] = i
  <2>1. i \in 1..n /\ i \in Nat /\ i - 1 \in Nat
    OBVIOUS
  <2>2. {y \in P : y < i} = 1..(i - 1)
    <3>1. \A y \in P : y < i => y \in 1..(i - 1)
      BY <2>1
    <3>2. \A y \in 1..(i - 1) : y \in 1..i /\ y < i
      BY <2>1
    <3> QED
      BY <1>11, <3>1, <3>2
  <2>3. Cardinality(1..(i - 1)) = i - 1
    BY <2>1, FS_Interval
  <2>4. Cardinality(Preceding(R, P, i)) = i - 1
    BY <1>4, <2>2, <2>3
  <2>5. i - 1 \in 0..m - 1
    BY <1>1, <1>3, <2>4, Places
  <2>6. i \in 1..m
    BY <1>5, <2>1, <2>5
  <2>7. p[i] \in P /\ Cardinality(Preceding(R, P, p[i])) = i - 1
    BY <1>7, <2>6
  <2>8. <<i, p[i]>> \notin R /\ <<p[i], i>> \notin R
    <3> HIDE DEF p
    <3> QED
      BY <1>1, <1>3, <2>1, <2>4, <2>7, Places
  <2>9. p[i] = i
    <3> HIDE DEF p
    <3> QED
      BY <1>3, <2>7, <2>8 DEF Orders
  <2> QED
    BY <2>6, <2>9
<1> QED
  BY <1>5, <1>8, <1>9, <1>10, <1>11 DEF Lists

(* t is what list has at the places P, in its order. *)
AtPlaces(t, list, P, p) ==
    /\ Cardinality(P) \in Nat /\ Len(t) = Cardinality(P) /\ DOMAIN t = 1..Cardinality(P)
    /\ p \in [1..Cardinality(P) -> P]
    /\ \A k \in 1..Cardinality(P) : t[k] = list[p[k]]
    /\ \A k, l \in 1..Cardinality(P) : k < l <=> p[k] < p[l]
    /\ \A i \in P : \E k \in 1..Cardinality(P) : p[k] = i
    /\ \A i \in P : 1..i \subseteq P => i \in 1..Cardinality(P) /\ p[i] = i

(* RowsAt is such a list. *)
LEMMA RowsAtAre ==
    ASSUME NEW S, NEW list \in Seq(S), NEW P \in SUBSET (1..Len(list))
    PROVE  /\ RowsAt(list, P) \in Seq(S)
           /\ \E p : AtPlaces(RowsAt(list, P), list, P, p)
<1> DEFINE p == InOrder(P, <)
           m == Cardinality(P)
           t == RowsAt(list, P)
<1>1. Len(list) \in Nat /\ DOMAIN list = 1..Len(list)
      /\ \A i \in 1..Len(list) : list[i] \in S
  BY LenProperties
<1>3. /\ m \in Nat /\ DOMAIN p = 1..m /\ p \in [1..m -> P]
      /\ \A k, l \in 1..m : k < l <=> p[k] < p[l]
      /\ \A i \in P : \E k \in 1..m : p[k] = i
      /\ \A i \in P : 1..i \subseteq P => i \in 1..m /\ p[i] = i
  BY <1>1, PlacesInOrder
<1>4. t = [k \in DOMAIN p |-> list[p[k]]]
  BY DEF RowsAt
<1> HIDE DEF p, m, t
<1>5. t \in [1..m -> S] /\ \A k \in 1..m : t[k] = list[p[k]]
  BY <1>1, <1>3, <1>4
<1>6. t \in Seq(S) /\ Len(t) = m /\ DOMAIN t = 1..m
  BY <1>3, <1>5, ListIsSeq
<1>7. AtPlaces(t, list, P, p)
  BY <1>3, <1>5, <1>6 DEF AtPlaces, m
<1> QED
  BY <1>6, <1>7 DEF t

(* An element put at a place of a list. *)
LEMMA PutAt ==
    ASSUME NEW S, NEW s \in Seq(S), NEW e \in S, NEW k \in 1..Len(s)
    PROVE  LET t == InsertAt(s, k, e)
           IN  /\ t \in Seq(S) /\ Len(t) = Len(s) + 1
               /\ \A i \in 1..(Len(s) + 1) :
                     t[i] = IF i < k THEN s[i] ELSE IF i = k THEN e ELSE s[i - 1]
<1> DEFINE n == Len(s)
           a == SubSeq(s, 1, k - 1)
           b == SubSeq(s, k, n)
           c == a \o <<e>>
<1>1. n \in Nat /\ \A i \in 1..n : s[i] \in S
  BY LenProperties
<1>2. /\ a \in Seq(S) /\ Len(a) = k - 1
      /\ \A i \in 1..(k - 1) : a[i] = s[i]
  <2>1. /\ k - 1 \in Int /\ 1 \in Int /\ \A i \in 1..(k - 1) : s[i] \in S
        /\ (IF 1 <= k - 1 THEN (k - 1) - 1 + 1 ELSE 0) = k - 1
        /\ (k - 1) - 1 + 1 = k - 1
        /\ \A i \in 1..(k - 1) : 1 + i - 1 = i
    BY <1>1
  <2>2. /\ a \in Seq(S) /\ Len(a) = IF 1 <= k - 1 THEN (k - 1) - 1 + 1 ELSE 0
        /\ \A i \in 1..((k - 1) - 1 + 1) : a[i] = s[1 + i - 1]
    <3> HIDE DEF n
    <3> QED
      BY <2>1, SubSeqProperties
  <2> HIDE DEF a, n
  <2> QED
    BY <2>1, <2>2
<1>3. /\ b \in Seq(S) /\ Len(b) = n - k + 1
      /\ \A i \in 1..(n - k + 1) : b[i] = s[k + i - 1]
  <2>1. /\ k \in Int /\ n \in Int /\ (\A i \in k..n : s[i] \in S) /\ k <= n
    BY <1>1
  <2> HIDE DEF n
  <2> QED
    BY <2>1, SubSeqProperties
<1>4. <<e>> \in Seq(S) /\ Len(<<e>>) = 1 /\ <<e>>[1] = e
  OBVIOUS
<1> HIDE DEF a, b
<1>5. /\ c \in Seq(S) /\ Len(c) = k
      /\ \A i \in 1..k : c[i] = IF i < k THEN s[i] ELSE e
  <2>1. /\ c \in Seq(S) /\ Len(c) = (k - 1) + 1
        /\ \A i \in 1..((k - 1) + 1) : c[i] = IF i <= k - 1 THEN a[i] ELSE <<e>>[i - (k - 1)]
    BY <1>2, <1>4, ConcatProperties
  <2> HIDE DEF c, n
  <2>2. ASSUME NEW i \in 1..k PROVE c[i] = IF i < k THEN s[i] ELSE e
    <3>1. c[i] = IF i <= k - 1 THEN a[i] ELSE <<e>>[i - (k - 1)]
      BY <1>1, <2>1
    <3>2. CASE i < k
      BY <1>1, <1>2, <3>1, <3>2
    <3>3. CASE i = k
      <4>1. i - (k - 1) = 1 /\ ~(i <= k - 1) /\ ~(i < k)
        BY <1>1, <3>3
      <4> QED
        BY <1>4, <3>1, <4>1
    <3> QED
      BY <1>1, <3>2, <3>3
  <2> QED
    BY <1>1, <2>1, <2>2
<1> HIDE DEF c
<1> DEFINE t == c \o b
<1>6. /\ t \in Seq(S) /\ Len(t) = k + (n - k + 1)
      /\ \A i \in 1..(k + (n - k + 1)) : t[i] = IF i <= k THEN c[i] ELSE b[i - k]
  <2>1. /\ t \in Seq(S) /\ Len(t) = Len(c) + Len(b)
        /\ \A i \in 1..(Len(c) + Len(b)) : t[i] = IF i <= Len(c) THEN c[i] ELSE b[i - Len(c)]
    BY <1>3, <1>5, ConcatProperties
  <2>2. Len(c) = k /\ Len(b) = n - k + 1
    BY <1>3, <1>5
  <2> HIDE DEF t, n
  <2> QED
    BY <2>1, <2>2
<1>7. k + (n - k + 1) = n + 1
  BY <1>1
<1>8. InsertAt(s, k, e) = t
  BY DEF InsertAt, a, b, c
<1> HIDE DEF t, n
<1>9. ASSUME NEW i \in 1..(n + 1)
      PROVE  t[i] = IF i < k THEN s[i] ELSE IF i = k THEN e ELSE s[i - 1]
  <2>1. t[i] = IF i <= k THEN c[i] ELSE b[i - k]
    BY <1>6, <1>7
  <2>2. CASE i <= k
    BY <1>1, <1>5, <2>1, <2>2 DEF n
  <2>3. CASE ~(i <= k)
    <3>1. i - k \in 1..(n - k + 1) /\ k + (i - k) - 1 = i - 1 /\ ~(i < k) /\ i # k
      BY <1>1, <2>3 DEF n
    <3> QED
      BY <1>3, <2>1, <2>3, <3>1
  <2> QED
    BY <2>2, <2>3
<1> QED
  BY <1>6, <1>7, <1>8, <1>9 DEF n
=============================================================================
