----------------------------- MODULE DataLemmas -----------------------------
(* Facts about numbers, finite sets and functions that the proofs of several *)
(* components cite.  The library states induction with an operator as its   *)
(* parameter; here the least number that would break a statement stands in  *)
(* for it.                                                                  *)
EXTENDS Selections, TLAPS, WellFoundedInduction, FiniteSetTheorems

(* A non-empty set of natural numbers has a least element. *)
LEMMA LeastNatural ==
  ASSUME NEW S \in SUBSET Nat, S # {}
  PROVE  \E m \in S : \A n \in S : m <= n
<1>1. PICK m \in S : \A n \in S : ~ (<<n, m>> \in OpToRel(<, Nat))
  BY NatLessThanWellFounded, WFMin
<1>2. ASSUME NEW n \in S PROVE m <= n
  <2>1. m \in Nat /\ n \in Nat
    OBVIOUS
  <2>2. ~ (n < m)
    BY <1>1, <2>1 DEF OpToRel
  <2> QED BY <2>1, <2>2
<1> QED BY <1>2

(* A non-empty bounded set of natural numbers has a greatest element. *)
LEMMA GreatestNatural ==
  ASSUME NEW S \in SUBSET Nat, S # {}, NEW b \in Nat, \A n \in S : n <= b
  PROVE  \E m \in S : \A n \in S : n <= m
<1> DEFINE U == {u \in Nat : \A n \in S : n <= u}
<1>1. U \in SUBSET Nat /\ U # {}
  OBVIOUS
<1>2. PICK u \in U : \A v \in U : u <= v
  <2> HIDE DEF U
  <2> QED BY <1>1, LeastNatural
<1>3. u \in S
  <2> SUFFICES ASSUME u \notin S PROVE FALSE
    OBVIOUS
  <2>1. PICK s \in S : TRUE
    OBVIOUS
  <2>2. \A n \in S : n <= u /\ n # u
    BY <1>2
  <2>3. u - 1 \in U
    BY <2>1, <2>2
  <2> QED BY <1>2, <2>3
<1> QED BY <1>2, <1>3

(* A sequence is a function on 1 .. n. *)
LEMMA FunctionIsSequence ==
  ASSUME NEW S, NEW n \in Nat, NEW t \in [1 .. n -> S]
  PROVE  t \in Seq(S) /\ Len(t) = n
OBVIOUS

(* A recursive function over 0 .. l exists: its value at n is a step from   *)
(* its value at n - 1.                                                      *)
LEMMA RecursionExists ==
  ASSUME NEW S, NEW first \in S, NEW l \in Nat, NEW F \in [1 .. l -> [S -> S]]
  PROVE  \E g \in [0 .. l -> S] :
           g[0] = first /\ \A n \in 1 .. l : g[n] = F[n][g[n - 1]]
<1> DEFINE Good(m, g) == /\ g \in [0 .. m -> S]
                         /\ g[0] = first
                         /\ \A n \in 1 .. m : g[n] = F[n][g[n - 1]]
           T == {m \in 0 .. l : ~ \E g : Good(m, g)}
<1>1. T = {}
  <2> SUFFICES ASSUME T # {} PROVE FALSE
    OBVIOUS
  <2>1. PICK m \in T : \A k \in T : m <= k
    <3>1. T \in SUBSET Nat
      OBVIOUS
    <3> HIDE DEF T
    <3> QED BY <3>1, LeastNatural
  <2>2. m \in Nat /\ m <= l
    OBVIOUS
  <2>3. CASE m = 0
    <3>1. Good(0, [n \in 0 .. 0 |-> first])
      OBVIOUS
    <3> QED BY <2>3, <3>1
  <2>4. CASE m > 0
    <3>1. m - 1 \in 0 .. l /\ m - 1 \notin T
      <4> HIDE DEF T
      <4>1. m - 1 \in T => m <= m - 1
        BY <2>1
      <4> QED BY <2>2, <2>4, <4>1
    <3>2. PICK g : Good(m - 1, g)
      BY <3>1
    <3> DEFINE h == [n \in 0 .. m |-> IF n = m THEN F[m][g[m - 1]] ELSE g[n]]
    <3>3. g[m - 1] \in S /\ F[m] \in [S -> S]
      BY <2>2, <2>4, <3>2
    <3>4. \A n \in 0 .. m - 1 : g[n] \in S
      BY <2>2, <2>4, <3>2
    <3>5. h \in [0 .. m -> S]
      BY <2>2, <3>3, <3>4
    <3>6. h[0] = first
      BY <2>2, <2>4, <3>2
    <3>7. ASSUME NEW n \in 1 .. m PROVE h[n] = F[n][h[n - 1]]
      BY <2>2, <2>4, <3>2
    <3>8. Good(m, h)
      <4> HIDE DEF h
      <4> QED BY <3>5, <3>6, <3>7
    <3> QED BY <3>8
  <2> QED BY <2>2, <2>3, <2>4
<1>2. l \in 0 .. l
  OBVIOUS
<1> QED BY <1>1, <1>2

(* As many numbers as there are. *)
LEMMA CountTo ==
  ASSUME NEW n \in Nat
  PROVE  IsFiniteSet(1 .. n) /\ Cardinality(1 .. n) = n
<1>1. 1 \in Int /\ n \in Int
  OBVIOUS
<1>2. Cardinality(1 .. n) = IF 1 > n THEN 0 ELSE n - 1 + 1
  BY <1>1, FS_Interval
<1> QED BY <1>1, <1>2, FS_Interval

-----------------------------------------------------------------------------
(* What Selections returns. *)

Below(P, i) == {j \in P : j < i}

(* The number of smaller positions orders the positions of a finite set.    *)
LEMMA BelowCounts ==
  ASSUME NEW P \in SUBSET Nat, IsFiniteSet(P)
  PROVE  /\ \A i \in P : Cardinality(Below(P, i)) \in 0 .. Cardinality(P) - 1
         /\ \A i, j \in P : i < j => Cardinality(Below(P, i)) < Cardinality(Below(P, j))
<1>1. \A i : IsFiniteSet(Below(P, i))
  BY FS_Subset DEF Below
<1>2. Cardinality(P) \in Nat /\ \A i : Cardinality(Below(P, i)) \in Nat
  BY <1>1, FS_CardinalityType
<1>3. ASSUME NEW i \in P
      PROVE  Cardinality(Below(P, i)) < Cardinality(P)
  <2>1. Below(P, i) \in SUBSET P /\ Below(P, i) # P
    BY DEF Below
  <2> QED
    BY <2>1, <1>2, FS_Subset
<1>4. ASSUME NEW i \in P, NEW j \in P, i < j
      PROVE  Cardinality(Below(P, i)) < Cardinality(Below(P, j))
  <2>1. /\ Below(P, i) \subseteq Below(P, j)
        /\ i \in Below(P, j) /\ i \notin Below(P, i)
    <3>1. (\A k \in P : k < i => k < j) /\ ~ (i < i)
      BY <1>4
    <3> QED
      BY <1>4, <3>1 DEF Below
  <2> QED
    BY <2>1, <1>1, <1>2, FS_Subset
<1> QED
  BY <1>2, <1>3, <1>4

(* Every position has its number, and every number its position. *)
LEMMA NthOfIs ==
  ASSUME NEW P \in SUBSET Nat, IsFiniteSet(P), NEW n \in 1 .. Cardinality(P)
  PROVE  NthOf(P, n) \in P /\ Cardinality(Below(P, NthOf(P, n))) = n - 1
<1> DEFINE f == [i \in P |-> Cardinality(Below(P, i))]
           T == 0 .. Cardinality(P) - 1
<1>1. Cardinality(P) \in Nat
  BY FS_CardinalityType
<1>2. IsFiniteSet(T) /\ Cardinality(T) = Cardinality(P)
  <2> DEFINE b == Cardinality(P) - 1
  <2>1. 0 \in Int /\ b \in Int
    BY <1>1
  <2>2. /\ IsFiniteSet(0 .. b)
        /\ Cardinality(0 .. b) = IF 0 > b THEN 0 ELSE b - 0 + 1
    <3> HIDE DEF b
    <3> QED
      BY <2>1, FS_Interval
  <2> QED
    BY <1>1, <2>2
<1>3. f \in Injection(P, T)
  <2>1. f \in [P -> T]
    BY BelowCounts
  <2>2. \A i, j \in P : f[i] = f[j] => i = j
    BY BelowCounts
  <2> QED
    BY <2>1, <2>2 DEF Injection, IsInjective
<1>4. f \in Surjection(P, T)
  BY <1>2, <1>3, FS_Injection
<1>5. \E i \in P : f[i] = n - 1
  <2>1. n - 1 \in T
    BY <1>1
  <2>2. \A t \in T : \E i \in P : f[i] = t
    BY <1>4, Zenon DEF Surjection
  <2> QED
    BY <2>1, <2>2
<1>6. PICK i \in P : Cardinality({j \in P : j < i}) = n - 1
  BY <1>5 DEF Below
<1> QED
  BY <1>6, Zenon DEF NthOf, Below

(* The positions of a set are taken in their order.                         *)
LEMMA NthOfOrder ==
  ASSUME NEW P \in SUBSET Nat, IsFiniteSet(P),
         NEW m \in 1 .. Cardinality(P), NEW n \in 1 .. Cardinality(P), m < n
  PROVE  NthOf(P, m) < NthOf(P, n)
<1>1. /\ NthOf(P, m) \in P /\ Cardinality(Below(P, NthOf(P, m))) = m - 1
      /\ NthOf(P, n) \in P /\ Cardinality(Below(P, NthOf(P, n))) = n - 1
  BY NthOfIs
<1>2. NthOf(P, m) \in Nat /\ NthOf(P, n) \in Nat /\ m \in Nat /\ n \in Nat
  <2>1. Cardinality(P) \in Nat
    BY FS_CardinalityType
  <2>2. m \in Nat /\ n \in Nat
    BY <2>1
  <2>3. NthOf(P, m) \in P /\ NthOf(P, n) \in P
    BY <1>1
  <2> QED
    BY <2>2, <2>3
<1>3. NthOf(P, n) = NthOf(P, m) => m = n
  BY <1>1, <1>2
<1>4. NthOf(P, n) < NthOf(P, m) =>
        Cardinality(Below(P, NthOf(P, n))) < Cardinality(Below(P, NthOf(P, m)))
  BY <1>1, BelowCounts
<1> QED
  BY <1>1, <1>2, <1>3, <1>4

(* No position of a set is left out.                                        *)
LEMMA NthOfEvery ==
  ASSUME NEW P \in SUBSET Nat, IsFiniteSet(P), NEW i \in P
  PROVE  \E n \in 1 .. Cardinality(P) : NthOf(P, n) = i
<1> DEFINE n == Cardinality(Below(P, i)) + 1
<1>1. n \in 1 .. Cardinality(P)
  BY BelowCounts, FS_CardinalityType
<1>2. NthOf(P, n) \in P /\ Cardinality(Below(P, NthOf(P, n))) = n - 1
  BY <1>1, NthOfIs
<1>3. Cardinality(Below(P, NthOf(P, n))) = Cardinality(Below(P, i))
  BY <1>1, <1>2, BelowCounts
<1>4. NthOf(P, n) = i
  <2>1. NthOf(P, n) \in Nat /\ i \in Nat
    BY <1>2
  <2>2. NthOf(P, n) < i => Cardinality(Below(P, NthOf(P, n))) < Cardinality(Below(P, i))
    BY <1>2, BelowCounts
  <2>3. i < NthOf(P, n) => Cardinality(Below(P, i)) < Cardinality(Below(P, NthOf(P, n)))
    BY <1>2, BelowCounts
  <2>4. Cardinality(Below(P, i)) \in Int
    BY BelowCounts
  <2> QED
    BY <1>3, <2>1, <2>2, <2>3, <2>4
<1> QED
  BY <1>1, <1>4

(* ElementsAt keeps what is at the positions, and nothing else. *)
LEMMA ElementsAtIs ==
  ASSUME NEW S, NEW s \in Seq(S), NEW P \in SUBSET DOMAIN s
  PROVE  /\ IsFiniteSet(P) /\ P \in SUBSET Nat
         /\ ElementsAt(s, P) \in Seq(S)
         /\ Len(ElementsAt(s, P)) = Cardinality(P)
         /\ Cardinality(P) \in 0 .. Len(s)
         /\ \A n \in 1 .. Cardinality(P) :
              NthOf(P, n) \in P /\ ElementsAt(s, P)[n] = s[NthOf(P, n)]
<1>1. DOMAIN s = 1 .. Len(s) /\ Len(s) \in Nat
  OBVIOUS
<1>2. IsFiniteSet(P) /\ P \in SUBSET Nat /\ Cardinality(P) <= Len(s)
  <2>1. IsFiniteSet(1 .. Len(s)) /\ Cardinality(1 .. Len(s)) = Len(s)
    BY <1>1, CountTo
  <2> QED
    BY <1>1, <2>1, FS_Subset
<1>3. Cardinality(P) \in Nat
  BY <1>2, FS_CardinalityType
<1>4. \A n \in 1 .. Cardinality(P) : NthOf(P, n) \in P
  BY <1>2, NthOfIs
<1>5. ElementsAt(s, P) \in [1 .. Cardinality(P) -> S]
  BY <1>4 DEF ElementsAt
<1>6. ElementsAt(s, P) \in Seq(S) /\ Len(ElementsAt(s, P)) = Cardinality(P)
  BY <1>3, <1>5, FunctionIsSequence
<1> QED
  BY <1>2, <1>3, <1>4, <1>6 DEF ElementsAt

(* Keeping everything changes nothing. *)
LEMMA ElementsAtAll ==
  ASSUME NEW S, NEW s \in Seq(S)
  PROVE  ElementsAt(s, DOMAIN s) = s
<1> DEFINE P == 1 .. Len(s)
<1>1. DOMAIN s = P /\ Len(s) \in Nat /\ P \in SUBSET Nat
  OBVIOUS
<1>2. IsFiniteSet(P) /\ Cardinality(P) = Len(s)
  BY <1>1, CountTo
<1>3. ASSUME NEW n \in P PROVE NthOf(P, n) = n
  <2>1. NthOf(P, n) \in P /\ Cardinality(Below(P, NthOf(P, n))) = n - 1
    <3>1. n \in 1 .. Cardinality(P)
      BY <1>2
    <3> HIDE DEF P
    <3> QED BY <1>1, <1>2, <3>1, NthOfIs
  <2> DEFINE i == NthOf(P, n)
  <2>2. Below(P, i) = 1 .. i - 1 /\ i - 1 \in Nat
    BY <2>1 DEF Below
  <2>3. Cardinality(1 .. i - 1) = i - 1
    <3> HIDE DEF i
    <3> QED BY <2>2, CountTo
  <2> HIDE DEF i
  <2>4. i - 1 = n - 1 /\ i \in Nat /\ n \in Nat
    BY <2>1, <2>2, <2>3 DEF i
  <2> QED BY <2>4 DEF i
<1>4. ElementsAt(s, P) = [n \in P |-> s[n]]
  <2> HIDE DEF P
  <2> QED BY <1>1, <1>2, <1>3 DEF ElementsAt, P
<1>5. s = [n \in P |-> s[n]]
  BY <1>1
<1> QED BY <1>1, <1>4, <1>5

-----------------------------------------------------------------------------
(* What Arranged and a stable sort return. *)

(* The relation puts the members of D in a row. *)
Lines(before, D) ==
  /\ \A i \in D : <<i, i>> \notin before
  /\ \A i, j \in D : i # j => <<i, j>> \in before \/ <<j, i>> \in before
  /\ \A i, j, k \in D :
       <<i, j>> \in before /\ <<j, k>> \in before => <<i, k>> \in before

(* t is s in another order: its n-th element is the f[n]-th of s. *)
Rearranges(f, s, t, before) ==
  /\ f \in [1 .. Len(s) -> 1 .. Len(s)]
  /\ Len(t) = Len(s)
  /\ \A n \in 1 .. Len(s) : t[n] = s[f[n]]
  /\ \A m, n \in 1 .. Len(s) : f[m] = f[n] => m = n
  /\ \A j \in 1 .. Len(s) : \E n \in 1 .. Len(s) : f[n] = j
  /\ \A m, n \in 1 .. Len(s) : m < n => <<f[m], f[n]>> \in before

(* How many are before a member tells its place. *)
LEMMA PlacesAre ==
  ASSUME NEW D, IsFiniteSet(D), NEW before, Lines(before, D)
  PROVE  /\ \A j \in D : Cardinality({i \in D : <<i, j>> \in before}) \in 0 .. Cardinality(D) - 1
         /\ \A i, j \in D : <<i, j>> \in before =>
              Cardinality({k \in D : <<k, i>> \in before})
                < Cardinality({k \in D : <<k, j>> \in before})
<1> DEFINE Ahead(j) == {i \in D : <<i, j>> \in before}
<1>1. ASSUME NEW j \in D PROVE IsFiniteSet(Ahead(j)) /\ Cardinality(Ahead(j)) \in Nat
  <2>1. Ahead(j) \subseteq D
    OBVIOUS
  <2> QED BY <2>1, FS_Subset, FS_CardinalityType
<1>2. Cardinality(D) \in Nat
  BY FS_CardinalityType
<1>3. ASSUME NEW j \in D PROVE Cardinality(Ahead(j)) < Cardinality(D)
  <2>1. Ahead(j) \in SUBSET D /\ Ahead(j) # D
    BY DEF Lines
  <2> HIDE DEF Ahead
  <2> QED BY <1>1, <1>2, <2>1, FS_Subset
<1>4. ASSUME NEW i \in D, NEW j \in D, <<i, j>> \in before
      PROVE  Cardinality(Ahead(i)) < Cardinality(Ahead(j))
  <2>1. Ahead(i) \in SUBSET Ahead(j) /\ Ahead(i) # Ahead(j)
    BY <1>4 DEF Lines
  <2> HIDE DEF Ahead
  <2> QED BY <1>1, <2>1, FS_Subset
<1>5. \A j \in D : Cardinality(Ahead(j)) \in 0 .. Cardinality(D) - 1
  <2> HIDE DEF Ahead
  <2> QED BY <1>1, <1>2, <1>3
<1>6. \A i, j \in D : <<i, j>> \in before => Cardinality(Ahead(i)) < Cardinality(Ahead(j))
  BY <1>4
<1> QED BY <1>5, <1>6

(* Arranged puts every element in its place. *)
LEMMA ArrangedIs ==
  ASSUME NEW S, NEW s \in Seq(S), NEW before, Lines(before, DOMAIN s)
  PROVE  \E f : Rearranges(f, s, Arranged(s, before), before)
<1> DEFINE D == DOMAIN s
           place == [j \in D |-> 1 + Cardinality({i \in D : <<i, j>> \in before})]
           f == [n \in D |-> CHOOSE j \in D :
                               1 + Cardinality({i \in D : <<i, j>> \in before}) = n]
<1>1. D = 1 .. Len(s) /\ Len(s) \in Nat
  OBVIOUS
<1>2. IsFiniteSet(D) /\ Cardinality(D) = Len(s)
  BY <1>1, CountTo
<1>3. \A j \in D : place[j] \in D
  <2>1. \A j \in D : Cardinality({i \in D : <<i, j>> \in before}) \in 0 .. Cardinality(D) - 1
    BY <1>2, PlacesAre
  <2> QED BY <1>1, <1>2, <2>1
<1>4. \A i, j \in D : <<i, j>> \in before => place[i] < place[j]
  <2> SUFFICES ASSUME NEW i \in D, NEW j \in D, <<i, j>> \in before
               PROVE  place[i] < place[j]
    OBVIOUS
  <2> DEFINE a == Cardinality({k \in D : <<k, i>> \in before})
             b == Cardinality({k \in D : <<k, j>> \in before})
  <2>1. place[i] = 1 + a /\ place[j] = 1 + b
    OBVIOUS
  <2>2. \A k \in D : Cardinality({m \in D : <<m, k>> \in before}) \in 0 .. Cardinality(D) - 1
    BY <1>2, PlacesAre
  <2>3. a \in 0 .. Cardinality(D) - 1 /\ b \in 0 .. Cardinality(D) - 1
    BY <2>2
  <2>4. \A x, y \in D : <<x, y>> \in before =>
          Cardinality({k \in D : <<k, x>> \in before})
            < Cardinality({k \in D : <<k, y>> \in before})
    BY <1>2, PlacesAre
  <2>5. a < b
    BY <2>4, Zenon
  <2> HIDE DEF a, b, place
  <2> QED BY <1>1, <1>2, <2>1, <2>3, <2>5
<1>5. \A i, j \in D : place[i] = place[j] => i = j
  <2> HIDE DEF place
  <2>1. \A i, j \in D : i # j => place[i] < place[j] \/ place[j] < place[i]
    BY <1>4 DEF Lines
  <2> QED BY <1>1, <1>3, <2>1
<1>6. \A n \in D : \E j \in D : place[j] = n
  <2>1. place \in Injection(D, D)
    <3>1. place \in [D -> D]
      BY <1>3
    <3> HIDE DEF place
    <3> QED BY <1>5, <3>1 DEF Injection, IsInjective
  <2> HIDE DEF place, D
  <2>2. place \in Surjection(D, D)
    BY <1>2, <2>1, FS_Injection
  <2> QED BY <2>2 DEF Surjection
<1>7. ASSUME NEW n \in D PROVE f[n] \in D /\ place[f[n]] = n
  <2>1. \E j \in D : 1 + Cardinality({i \in D : <<i, j>> \in before}) = n
    BY <1>6
  <2>2. /\ f[n] \in D
        /\ 1 + Cardinality({i \in D : <<i, f[n]>> \in before}) = n
    BY <2>1, Zenon
  <2> QED BY <2>2
<1>8. Arranged(s, before) = [n \in D |-> s[f[n]]]
  BY DEF Arranged
<1> HIDE DEF f, place
<1>9. \A m, n \in D : m < n => <<f[m], f[n]>> \in before
  <2> SUFFICES ASSUME NEW m \in D, NEW n \in D, m < n PROVE <<f[m], f[n]>> \in before
    OBVIOUS
  <2>1. f[m] # f[n] /\ ~ (place[f[n]] < place[f[m]])
    BY <1>1, <1>7
  <2>2. f[m] \in D /\ f[n] \in D
    BY <1>7
  <2> QED BY <1>4, <2>1, <2>2 DEF Lines
<1>10. \A m, n \in D : f[m] = f[n] => m = n
  BY <1>7
<1>11. \A j \in D : \E n \in D : f[n] = j
  <2> SUFFICES ASSUME NEW j \in D PROVE f[place[j]] = j
    BY <1>3
  <2> QED BY <1>3, <1>5, <1>7
<1>12. f \in [D -> D]
  BY <1>7 DEF f
<1>13. /\ Len(Arranged(s, before)) = Len(s)
       /\ \A n \in D : Arranged(s, before)[n] = s[f[n]]
  <2>1. Arranged(s, before) \in [1 .. Len(s) -> S]
    BY <1>1, <1>7, <1>8
  <2> QED BY <1>1, <1>8, <2>1, FunctionIsSequence
<1>14. Rearranges(f, s, Arranged(s, before), before)
  <2> HIDE DEF D
  <2>1. D = 1 .. Len(s)
    BY <1>1
  <2> QED BY <2>1, <1>9, <1>10, <1>11, <1>12, <1>13 DEF Rearranges
<1> QED BY <1>14

(* A comparison that sorts: never both ways, and what separates two members *)
(* separates any third from one of them.                                    *)
Separates(first, D) ==
  /\ \A i, j \in D : <<i, j>> \in first => <<j, i>> \notin first
  /\ \A i, j, k \in D : <<i, k>> \in first => <<i, j>> \in first \/ <<j, k>> \in first

(* With ties broken by position such a comparison puts all in a row. *)
LEMMA TiesByPosition ==
  ASSUME NEW D \in SUBSET Int, NEW first, Separates(first, D), NEW before,
         \A i, j \in D : <<i, j>> \in before <=>
           \/ <<i, j>> \in first
           \/ <<j, i>> \notin first /\ i < j
  PROVE  Lines(before, D)
<1>1. \A i \in D : <<i, i>> \notin before
  BY DEF Separates
<1>2. \A i, j \in D : i # j => <<i, j>> \in before \/ <<j, i>> \in before
  OBVIOUS
<1>3. ASSUME NEW i \in D, NEW j \in D, NEW k \in D, <<i, j>> \in before, <<j, k>> \in before
      PROVE  <<i, k>> \in before
  <2>1. i \in Int /\ j \in Int /\ k \in Int
    OBVIOUS
  <2>2. <<i, j>> \in first \/ (<<j, i>> \notin first /\ i < j)
    BY <1>3
  <2>3. <<j, k>> \in first \/ (<<k, j>> \notin first /\ j < k)
    BY <1>3
  <2>4. <<i, j>> \in first => <<i, k>> \in first \/ <<k, j>> \in first
    BY Zenon DEF Separates
  <2>5. <<j, k>> \in first => <<j, i>> \in first \/ <<i, k>> \in first
    BY Zenon DEF Separates
  <2>6. <<k, i>> \in first => <<k, j>> \in first \/ <<j, i>> \in first
    BY Zenon DEF Separates
  <2>7. /\ <<i, j>> \in first => <<j, i>> \notin first
        /\ <<j, k>> \in first => <<k, j>> \notin first
    BY Zenon DEF Separates
  <2>8. i < j /\ j < k => i < k
    BY <2>1
  <2>9. <<i, k>> \in first \/ (<<k, i>> \notin first /\ i < k)
    BY <2>2, <2>3, <2>4, <2>5, <2>6, <2>7, <2>8, Zenon
  <2> QED BY <2>9
<1> QED BY <1>1, <1>2, <1>3 DEF Lines

(* Positions of s in the order of the relation R of its elements, ties by   *)
(* position: what StableSort arranges by.                                   *)
TieBroken(s, R) ==
  {p \in (DOMAIN s) \X (DOMAIN s) :
     \/ <<s[p[1]], s[p[2]]>> \in R
     \/ <<s[p[2]], s[p[1]]>> \notin R /\ p[1] < p[2]}

(* t is s in another order, nothing goes behind what it is before, and ties *)
(* stay as they were.                                                       *)
SortedBy(f, s, t, R) ==
  /\ f \in [1 .. Len(s) -> 1 .. Len(s)]
  /\ Len(t) = Len(s)
  /\ \A n \in 1 .. Len(s) : t[n] = s[f[n]]
  /\ \A m, n \in 1 .. Len(s) : f[m] = f[n] => m = n
  /\ \A j \in 1 .. Len(s) : \E n \in 1 .. Len(s) : f[n] = j
  /\ \A m, n \in 1 .. Len(s) : m < n => <<t[n], t[m]>> \notin R
  /\ \A m, n \in 1 .. Len(s) : m < n => <<t[m], t[n]>> \in R \/ f[m] < f[n]

(* A stable sort by a comparison that sorts. *)
LEMMA StablySorted ==
  ASSUME NEW S, NEW s \in Seq(S), NEW R, Separates(R, S)
  PROVE  /\ \E f : SortedBy(f, s, Arranged(s, TieBroken(s, R)), R)
         /\ Arranged(s, TieBroken(s, R)) \in Seq(S)
<1> DEFINE D == DOMAIN s
           first == {p \in D \X D : <<s[p[1]], s[p[2]]>> \in R}
           before == TieBroken(s, R)
           t == Arranged(s, before)
<1>1. D = 1 .. Len(s) /\ Len(s) \in Nat /\ D \in SUBSET Int /\ \A i \in D : s[i] \in S
  OBVIOUS
<1>2. \A i, j \in D : <<i, j>> \in first <=> <<s[i], s[j]>> \in R
  OBVIOUS
<1>3. Separates(first, D)
  <2> HIDE DEF first, D
  <2>1. \A i, j \in D : <<s[i], s[j]>> \in R => <<s[j], s[i]>> \notin R
    BY <1>1 DEF Separates
  <2>2. \A i, j, k \in D :
          <<s[i], s[k]>> \in R => <<s[i], s[j]>> \in R \/ <<s[j], s[k]>> \in R
    <3>1. \A a, b, c \in S : <<a, c>> \in R => <<a, b>> \in R \/ <<b, c>> \in R
      BY Zenon DEF Separates
    <3> QED BY <1>1, <3>1
  <2>3. \A i, j, k \in D :
          <<i, k>> \in first => <<i, j>> \in first \/ <<j, k>> \in first
    BY <1>2, <2>2
  <2> QED BY <1>2, <2>1, <2>3 DEF Separates
<1>4. \A i, j \in D : <<i, j>> \in before <=>
        \/ <<i, j>> \in first
        \/ <<j, i>> \notin first /\ i < j
  <2>1. \A i, j \in D : <<i, j>> \in before <=>
          \/ <<s[i], s[j]>> \in R
          \/ <<s[j], s[i]>> \notin R /\ i < j
    BY DEF TieBroken
  <2> HIDE DEF first, D, before
  <2> QED BY <1>2, <2>1
<1>5. Lines(before, D)
  <2> HIDE DEF first, D, before
  <2> QED BY <1>1, <1>3, <1>4, TiesByPosition
<1>6. PICK f : Rearranges(f, s, t, before)
  <2> HIDE DEF before
  <2> QED BY <1>5, ArrangedIs
<1> HIDE DEF t
<1>7. ASSUME NEW m \in 1 .. Len(s), NEW n \in 1 .. Len(s), m < n
      PROVE  /\ <<t[n], t[m]>> \notin R
             /\ <<t[m], t[n]>> \in R \/ f[m] < f[n]
  <2>1. <<f[m], f[n]>> \in before /\ f[m] \in D /\ f[n] \in D
    <3> HIDE DEF D, before, first
    <3>1. /\ f \in [1 .. Len(s) -> 1 .. Len(s)]
          /\ \A i, j \in 1 .. Len(s) : i < j => <<f[i], f[j]>> \in before
      BY <1>6, Zenon DEF Rearranges
    <3>2. f[m] \in D /\ f[n] \in D
      BY <1>1, <3>1
    <3> QED BY <1>7, <3>1, <3>2
  <2>2. t[m] = s[f[m]] /\ t[n] = s[f[n]]
    BY <1>6 DEF Rearranges
  <2>3. /\ <<f[n], f[m]>> \in first <=> <<t[n], t[m]>> \in R
        /\ <<f[m], f[n]>> \in first <=> <<t[m], t[n]>> \in R
    BY <1>2, <2>1, <2>2
  <2>4. \/ <<f[m], f[n]>> \in first
        \/ <<f[n], f[m]>> \notin first /\ f[m] < f[n]
    BY <1>4, <2>1
  <2> HIDE DEF first
  <2> QED BY <1>3, <2>1, <2>3, <2>4 DEF Separates
<1>8. SortedBy(f, s, t, R)
  <2>1. /\ \A m, n \in 1 .. Len(s) : m < n => <<t[n], t[m]>> \notin R
        /\ \A m, n \in 1 .. Len(s) : m < n => <<t[m], t[n]>> \in R \/ f[m] < f[n]
    BY <1>7
  <2> QED BY <1>6, <2>1 DEF SortedBy, Rearranges
<1>9. t \in Seq(S)
  <2>1. t = [n \in D |-> s[CHOOSE j \in D : 1 + Cardinality({i \in D : <<i, j>> \in before}) = n]]
    BY DEF t, Arranged
  <2>2. \A n \in D : t[n] \in S
    BY <1>1, <1>6 DEF Rearranges
  <2>3. t \in [1 .. Len(s) -> S]
    <3> DEFINE e(n) == s[CHOOSE j \in D : 1 + Cardinality({i \in D : <<i, j>> \in before}) = n]
    <3>1. t = [n \in D |-> e(n)]
      BY <2>1
    <3> HIDE DEF e, D
    <3> QED BY <1>1, <2>2, <3>1
  <2> QED BY <1>1, <2>3, FunctionIsSequence
<1> QED BY <1>8, <1>9 DEF t

-----------------------------------------------------------------------------
(* A finite set that a relation orders has a first element. *)
LEMMA FirstOfFinite ==
  ASSUME NEW S, IsFiniteSet(S), S # {},
         NEW R,
         \A x \in S : <<x, x>> \notin R,
         \A x, y \in S : x # y => <<x, y>> \in R \/ <<y, x>> \in R,
         \A x, y, z \in S : <<x, y>> \in R /\ <<y, z>> \in R => <<x, z>> \in R
  PROVE  \E m \in S : \A x \in S \ {m} : <<m, x>> \in R
<1> DEFINE Ahead(m) == {x \in S : <<x, m>> \in R}
           C == {Cardinality(Ahead(m)) : m \in S}
<1>1. \A m \in S : IsFiniteSet(Ahead(m)) /\ Cardinality(Ahead(m)) \in Nat
  <2> SUFFICES ASSUME NEW m \in S
               PROVE  IsFiniteSet(Ahead(m)) /\ Cardinality(Ahead(m)) \in Nat
    OBVIOUS
  <2>1. Ahead(m) \subseteq S
    OBVIOUS
  <2> QED
    BY <2>1, FS_Subset, FS_CardinalityType
<1>2. PICK c \in C : \A d \in C : c <= d
  <2>1. (\A m \in S : Cardinality(Ahead(m)) \in Nat) => C \in SUBSET Nat /\ C # {}
    <3> HIDE DEF Ahead
    <3> QED
      OBVIOUS
  <2> HIDE DEF C
  <2> QED
    BY <1>1, <2>1, LeastNatural
<1>3. PICK m \in S : c = Cardinality(Ahead(m))
  OBVIOUS
<1>4. ASSUME NEW x \in S \ {m}, <<m, x>> \notin R
      PROVE  FALSE
  <2>1. <<x, m>> \in R
    BY <1>4
  <2>2. Ahead(x) \subseteq Ahead(m) /\ x \in Ahead(m) /\ x \notin Ahead(x)
    BY <2>1, <1>4
  <2>3. /\ Cardinality(Ahead(x)) <= Cardinality(Ahead(m))
        /\ Cardinality(Ahead(x)) # Cardinality(Ahead(m))
    <3> HIDE DEF Ahead
    <3> QED
      BY <1>1, <2>2, FS_Subset
  <2>4. Cardinality(Ahead(x)) \in C
    BY <1>4
  <2>5. Cardinality(Ahead(x)) \in Nat /\ Cardinality(Ahead(m)) \in Nat
    BY <1>1, <1>4
  <2> HIDE DEF Ahead, C
  <2>6. c <= Cardinality(Ahead(x))
    BY <1>2, <2>4
  <2> QED
    BY <1>3, <2>3, <2>5, <2>6
<1> QED
  BY <1>4
-----------------------------------------------------------------------------
(* A number for every member of D, drawn as a diagram of cells: how many    *)
(* cells there are is the sum of the numbers.                               *)
Column(c, n) == {<<c, k>> : k \in 1 .. n}
CellsUnder(D, m, f) == {p \in D \X (1 .. m) : p[2] <= f[p[1]]}

(* A column of n cells has n cells.                                         *)
LEMMA ColumnCount ==
  ASSUME NEW c, NEW n \in Nat
  PROVE  IsFiniteSet(Column(c, n)) /\ Cardinality(Column(c, n)) = n
<1> DEFINE f == [k \in 1 .. n |-> <<c, k>>]
<1>1. IsFiniteSet(1 .. n) /\ Cardinality(1 .. n) = n
  BY CountTo
<1>2. f \in Bijection(1 .. n, Column(c, n))
  BY DEF Bijection, Injection, Surjection, IsInjective, Column
<1> QED BY <1>1, <1>2, FS_Bijection DEF ExistsBijection

(* One number changes, and the sum with it. *)
LEMMA CellsChange ==
  ASSUME NEW D, NEW m \in Nat, NEW f \in [D -> 0 .. m], IsFiniteSet(CellsUnder(D, m, f)),
         NEW c \in D, NEW g \in [D -> 0 .. m], \A d \in D \ {c} : g[d] = f[d]
  PROVE  /\ IsFiniteSet(CellsUnder(D, m, g))
         /\ Cardinality(CellsUnder(D, m, f)) \in Nat
         /\ f[c] <= Cardinality(CellsUnder(D, m, f))
         /\ Cardinality(CellsUnder(D, m, g)) = Cardinality(CellsUnder(D, m, f)) + g[c] - f[c]
<1> DEFINE Rest == {p \in CellsUnder(D, m, f) : p[1] # c}
<1>1. f[c] \in Nat /\ f[c] <= m /\ g[c] \in Nat
  OBVIOUS
<1>2. IsFiniteSet(Rest) /\ Cardinality(Rest) \in Nat
  BY FS_Subset, FS_CardinalityType
<1>3. ASSUME NEW h \in [D -> 0 .. m], \A d \in D \ {c} : h[d] = f[d]
      PROVE  /\ IsFiniteSet(CellsUnder(D, m, h))
             /\ Cardinality(CellsUnder(D, m, h)) = Cardinality(Rest) + h[c]
  <2>1. h[c] \in Nat /\ h[c] <= m
    BY <1>1
  <2>2. CellsUnder(D, m, h) = Rest \cup Column(c, h[c])
    <3>1. ASSUME NEW p \in CellsUnder(D, m, h) PROVE p \in Rest \cup Column(c, h[c])
      <4>1. PICK d \in D, k \in 1 .. m : p = <<d, k>> /\ k <= h[d]
        BY DEF CellsUnder
      <4>2. CASE d = c
        <5>1. k \in 1 .. h[c]
          BY <2>1, <4>1, <4>2
        <5> QED BY <4>1, <4>2, <5>1 DEF Column
      <4>3. CASE d # c
        <5>1. k <= f[d]
          BY <1>3, <4>1, <4>3
        <5>2. p \in CellsUnder(D, m, f) /\ p[1] # c
          BY <4>1, <4>3, <5>1 DEF CellsUnder
        <5> QED BY <5>2
      <4> QED BY <4>2, <4>3
    <3>2. ASSUME NEW p \in Rest PROVE p \in CellsUnder(D, m, h)
      BY <1>3 DEF CellsUnder
    <3>3. ASSUME NEW p \in Column(c, h[c]) PROVE p \in CellsUnder(D, m, h)
      <4>1. PICK k \in 1 .. h[c] : p = <<c, k>>
        BY DEF Column
      <4>2. k \in 1 .. m /\ k <= h[c]
        BY <1>1, <2>1
      <4> QED BY <4>1, <4>2 DEF CellsUnder
    <3> QED BY <3>1, <3>2, <3>3
  <2>3. Rest \cap Column(c, h[c]) = {}
    BY DEF Column
  <2>4. IsFiniteSet(Column(c, h[c])) /\ Cardinality(Column(c, h[c])) = h[c]
    BY <2>1, ColumnCount
  <2>5. /\ IsFiniteSet(Rest \cup Column(c, h[c]))
        /\ Cardinality(Rest \cup Column(c, h[c])) =
             Cardinality(Rest) + Cardinality(Column(c, h[c]))
                - Cardinality(Rest \cap Column(c, h[c]))
    <3> HIDE DEF Rest
    <3> QED BY <1>2, <2>4, FS_Union
  <2>6. Cardinality({}) = 0
    BY FS_EmptySet
  <2>7. Cardinality(Rest \cap Column(c, h[c])) = 0
    BY <2>3, <2>6
  <2> HIDE DEF Rest
  <2>8. Cardinality(Rest \cup Column(c, h[c])) = Cardinality(Rest) + h[c]
    BY <1>2, <2>1, <2>4, <2>5, <2>7
  <2> QED BY <2>2, <2>5, <2>8
<1>4. Cardinality(CellsUnder(D, m, f)) = Cardinality(Rest) + f[c]
  <2> HIDE DEF Rest
  <2> QED BY <1>3
<1>5. IsFiniteSet(CellsUnder(D, m, g)) /\ Cardinality(CellsUnder(D, m, g)) = Cardinality(Rest) + g[c]
  <2> HIDE DEF Rest
  <2> QED BY <1>3
<1> HIDE DEF Rest
<1> QED BY <1>1, <1>2, <1>4, <1>5
=============================================================================
