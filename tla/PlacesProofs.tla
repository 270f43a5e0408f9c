---------------------------- MODULE PlacesProofs ----------------------------
(***************************************************************************)
(* Proofs about the directory of places and its duplicates.  First the      *)
(* algorithm of place-dedupe.ts: find keeps the roots of the clusters,      *)
(* union merges two, the loops sort the rows of a name by all links between *)
(* them, and the groups are the components of two rows and more             *)
(* (CasesGroup).  Next the pages of the directory and of the feed: of one   *)
(* answer each row once and in its place, and from one query to the next    *)
(* only ties and what lies behind a row that came or went move              *)
(* (PagesOfAnySize, CasesPages).  Then the directory:                       *)
(* a save never adds a twin of a row its transaction has seen               *)
(* (PlacesNoTwins), the types, with the canonical row every group has       *)
(* (PlacesTyped), and that a sweep whose reading is still true leaves       *)
(* nothing to the next one (PlacesSweep).                                   *)
(***************************************************************************)
EXTENDS Places, Cases, DataLemmas, SequenceTheorems

(* A parent function without cycles: r is the root of each position, and d  *)
(* falls on the way there.                                                  *)
Forest(D, p, r, d) ==
  /\ p \in [D -> D] /\ r \in [D -> D] /\ d \in [D -> Nat]
  /\ \A j \in D : /\ p[j] = j => r[j] = j
                  /\ p[j] # j => r[j] = r[p[j]] /\ d[p[j]] < d[j]
                  /\ p[r[j]] = r[j]

(* What holds at the roots and is handed down holds everywhere. *)
LEMMA ForestInduction ==
  ASSUME NEW D, NEW p, NEW r, NEW d, Forest(D, p, r, d), NEW G \in SUBSET D,
         \A j \in D : p[j] = j => j \in G,
         \A j \in D : p[j] # j /\ p[j] \in G => j \in G
  PROVE  G = D
<1> SUFFICES ASSUME D \ G # {} PROVE FALSE
  OBVIOUS
<1> DEFINE N == {d[j] : j \in D \ G}
<1>1. N \in SUBSET Nat /\ N # {}
  BY DEF Forest
<1>2. PICK m \in N : \A k \in N : m <= k
  <2> HIDE DEF N
  <2> QED BY <1>1, LeastNatural
<1>3. PICK j \in D \ G : m = d[j]
  OBVIOUS
<1>4. p[j] # j /\ p[j] \in D \ G
  BY <1>3 DEF Forest
<1>5. d[p[j]] < d[j] /\ d[p[j]] \in N /\ d[j] \in Nat /\ d[p[j]] \in Nat
  BY <1>3, <1>4 DEF Forest
<1> QED BY <1>2, <1>3, <1>5

(* find returns the root of the tree of its argument.                       *)
LEMMA RootIs ==
  ASSUME NEW D, NEW p, NEW r, NEW d, Forest(D, p, r, d), NEW i \in D
  PROVE  RootOf(p, i) = r[i]
<1> DEFINE g == CHOOSE f : f = [j \in DOMAIN p |-> IF p[j] = j THEN j ELSE f[p[j]]]
<1>1. DOMAIN p = D
  BY DEF Forest
<1>2. r = [j \in DOMAIN p |-> IF p[j] = j THEN j ELSE r[p[j]]]
  BY <1>1 DEF Forest
<1>3. g = [j \in DOMAIN p |-> IF p[j] = j THEN j ELSE g[p[j]]]
  BY <1>2, Zenon
<1>4. RootOf(p, i) = g[i]
  BY DEF RootOf
<1> HIDE DEF g
<1> DEFINE G == {j \in D : g[j] = r[j]}
<1>5. \A j \in D : p[j] = j => j \in G
  BY <1>1, <1>3 DEF Forest
<1>6. \A j \in D : p[j] # j /\ p[j] \in G => j \in G
  BY <1>1, <1>3 DEF Forest
<1>7. G = D
  <2> HIDE DEF G
  <2>1. G \in SUBSET D
    BY DEF G
  <2> QED BY <1>5, <1>6, <2>1, ForestInduction
<1> QED BY <1>4, <1>7

(* On the way from a position lie positions of its tree, and no root. *)
LEMMA PathIs ==
  ASSUME NEW D, NEW p, NEW r, NEW d, Forest(D, p, r, d), NEW i \in D
  PROVE  \A k \in PathOf(p, i) : k \in D /\ r[k] = r[i] /\ p[k] # k
<1> DEFINE Closed(T) == \A m \in T : p[m] \in T
           way == [j \in D |-> {k \in D : /\ p[k] # k
                                          /\ \A T \in SUBSET D : j \in T /\ Closed(T) => k \in T}]
           g == CHOOSE f : f = [j \in DOMAIN p |-> IF p[j] = j THEN {} ELSE {j} \cup f[p[j]]]
<1>1. DOMAIN p = D /\ \A j \in D : p[j] \in D
  BY DEF Forest
<1>2. ASSUME NEW j \in D PROVE way[j] = IF p[j] = j THEN {} ELSE {j} \cup way[p[j]]
  <2>1. CASE p[j] = j
    <3>1. ASSUME NEW k \in way[j] PROVE FALSE
      <4>1. {j} \in SUBSET D /\ j \in {j} /\ Closed({j})
        BY <2>1
      <4>2. k \in {j} /\ p[k] # k
        BY <4>1
      <4> QED BY <2>1, <4>2
    <3> HIDE DEF way
    <3> QED BY <2>1, <3>1
  <2>2. CASE p[j] # j
    <3>1. ASSUME NEW k \in way[j], k # j PROVE k \in way[p[j]]
      <4> SUFFICES ASSUME NEW T \in SUBSET D, p[j] \in T, Closed(T) PROVE k \in T
        BY <1>1
      <4>1. T \cup {j} \in SUBSET D /\ Closed(T \cup {j})
        OBVIOUS
      <4>2. k \in T \cup {j}
        BY <4>1
      <4> QED BY <3>1, <4>2
    <3>2. j \in way[j]
      BY <2>2
    <3>3. ASSUME NEW k \in way[p[j]] PROVE k \in way[j]
      <4>1. k \in D /\ p[k] # k
        BY <1>1
      <4> SUFFICES ASSUME NEW T \in SUBSET D, j \in T, Closed(T) PROVE k \in T
        BY <4>1
      <4>2. p[j] \in T
        OBVIOUS
      <4> QED BY <1>1, <4>2
    <3> HIDE DEF way
    <3> QED BY <2>2, <3>1, <3>2, <3>3
  <2> HIDE DEF way
  <2> QED BY <2>1, <2>2
<1>3. way = [j \in DOMAIN p |-> IF p[j] = j THEN {} ELSE {j} \cup way[p[j]]]
  <2>1. way = [j \in D |-> way[j]]
    OBVIOUS
  <2> HIDE DEF way
  <2> QED BY <1>1, <1>2, <2>1
<1>4. g = [j \in DOMAIN p |-> IF p[j] = j THEN {} ELSE {j} \cup g[p[j]]]
  <2> HIDE DEF way
  <2> QED BY <1>3, Zenon
<1>5. PathOf(p, i) = g[i]
  BY DEF PathOf
<1> HIDE DEF g
<1> DEFINE G == {j \in D : \A k \in g[j] : k \in D /\ r[k] = r[j] /\ p[k] # k}
<1>6. \A j \in D : p[j] = j => j \in G
  BY <1>1, <1>4
<1>7. ASSUME NEW j \in D, p[j] # j, p[j] \in G PROVE j \in G
  <2>1. g[j] = {j} \cup g[p[j]]
    BY <1>1, <1>4, <1>7
  <2>2. r[j] = r[p[j]]
    BY <1>7 DEF Forest
  <2> QED BY <1>7, <2>1, <2>2
<1>8. G = D
  <2>1. G \in SUBSET D
    OBVIOUS
  <2> HIDE DEF G
  <2> QED BY <1>6, <1>7, <2>1, ForestInduction
<1> QED BY <1>5, <1>8

(* Compressing a path changes no root. *)
LEMMA CompressedIs ==
  ASSUME NEW D, NEW p, NEW r, NEW d, Forest(D, p, r, d), NEW i \in D
  PROVE  Forest(D, Compressed(p, i), r, d)
<1> DEFINE q == Compressed(p, i)
<1>1. DOMAIN p = D /\ RootOf(p, i) = r[i] /\ r[i] \in D
  BY RootIs DEF Forest
<1>2. \A k \in PathOf(p, i) : k \in D /\ r[k] = r[i] /\ p[k] # k
  BY PathIs
<1>3. q = [j \in D |-> IF j \in PathOf(p, i) THEN r[i] ELSE p[j]]
  BY <1>1 DEF Compressed
<1> HIDE DEF q
<1>4. q \in [D -> D]
  BY <1>1, <1>3 DEF Forest
<1> DEFINE Fall == {j \in D : d[r[j]] <= d[j]}
<1>5. Fall = D
  <2>1. \A j \in D : p[j] = j => j \in Fall
    BY DEF Forest
  <2>2. \A j \in D : p[j] # j /\ p[j] \in Fall => j \in Fall
    BY DEF Forest
  <2>3. Fall \in SUBSET D
    OBVIOUS
  <2> HIDE DEF Fall
  <2> QED BY <2>1, <2>2, <2>3, ForestInduction
<1>6. \A j \in D : r[r[j]] = r[j]
  BY DEF Forest
<1>7. ASSUME NEW j \in D
      PROVE  /\ q[j] = j => r[j] = j
             /\ q[j] # j => r[j] = r[q[j]] /\ d[q[j]] < d[j]
             /\ q[r[j]] = r[j]
  <2>1. q[r[j]] = r[j]
    BY <1>2, <1>3 DEF Forest
  <2>2. CASE j \in PathOf(p, i)
    <3>1. q[j] = r[i] /\ r[j] = r[i] /\ p[j] # j
      BY <1>2, <1>3, <2>2
    <3>2. r[j] # j
      BY <3>1 DEF Forest
    <3>3. d[q[j]] < d[j]
      <4>1. r[j] = r[p[j]] /\ d[p[j]] < d[j] /\ p[j] \in D
        BY <3>1 DEF Forest
      <4>2. d[r[p[j]]] <= d[p[j]]
        BY <1>5, <4>1
      <4>3. d[r[j]] \in Nat /\ d[p[j]] \in Nat /\ d[j] \in Nat
        BY <4>1 DEF Forest
      <4> QED BY <3>1, <4>1, <4>2, <4>3
    <3> QED BY <1>6, <2>1, <3>1, <3>2, <3>3
  <2>3. CASE j \notin PathOf(p, i)
    BY <1>3, <2>1, <2>3 DEF Forest
  <2> QED BY <2>2, <2>3
<1> QED BY <1>4, <1>7 DEF Forest, q

(* A union hangs one tree under the root of another. *)
Under(D, r, i, j) == [k \in D |-> IF r[k] = r[i] THEN r[j] ELSE r[k]]

(* A union of two positions of a forest leaves a forest, with one tree      *)
(* under the root of the other.                                             *)
LEMMA UnionIs ==
  ASSUME NEW D, NEW p, NEW r, NEW d, Forest(D, p, r, d), NEW i \in D, NEW j \in D
  PROVE  \E e : Forest(D, Union(p, i, j), Under(D, r, i, j), e)
<1> DEFINE q == Compressed(Compressed(p, i), j)
           u == Union(p, i, j)
           e == [k \in D |-> IF r[k] = r[i] /\ r[i] # r[j] THEN d[k] + d[r[j]] + 1 ELSE d[k]]
           t == Under(D, r, i, j)
<1>1. Forest(D, Compressed(p, i), r, d)
  BY CompressedIs
<1>2. Forest(D, q, r, d)
  BY <1>1, CompressedIs
<1>3. RootOf(p, i) = r[i] /\ RootOf(p, j) = r[j]
  BY RootIs
<1>4. u = [q EXCEPT ![r[i]] = r[j]]
  BY <1>3 DEF Union
<1> HIDE DEF q, u
<1>5. /\ r \in [D -> D] /\ q \in [D -> D] /\ d \in [D -> Nat]
      /\ \A k \in D : r[r[k]] = r[k] /\ q[r[k]] = r[k]
  BY <1>2 DEF Forest
<1>6. u \in [D -> D] /\ t \in [D -> D] /\ e \in [D -> Nat]
  <2>1. t \in [D -> D]
    BY <1>5 DEF Under
  <2>2. e \in [D -> Nat]
    BY <1>5
  <2> QED BY <1>4, <1>5, <2>1, <2>2
<1>7. ASSUME NEW k \in D
      PROVE  /\ u[k] = k => t[k] = k
             /\ u[k] # k => t[k] = t[u[k]] /\ e[u[k]] < e[k]
             /\ u[t[k]] = t[k]
  <2>1. /\ t[k] = IF r[k] = r[i] THEN r[j] ELSE r[k]
        /\ u[k] = IF k = r[i] THEN r[j] ELSE q[k]
    BY <1>4, <1>5 DEF Under
  <2>2. /\ q[k] = k => r[k] = k
        /\ q[k] # k => r[k] = r[q[k]] /\ d[q[k]] < d[k]
        /\ q[k] \in D /\ r[k] \in D /\ r[i] \in D /\ r[j] \in D
    BY <1>2, <1>5 DEF Forest
  <2>3. u[t[k]] = t[k]
    BY <1>4, <1>5, <2>1, <2>2
  <2>4. t[u[k]] = IF r[u[k]] = r[i] THEN r[j] ELSE r[u[k]]
    BY <1>5, <2>1, <2>2 DEF Under
  <2>5. CASE k = r[i]
    <3>1. r[k] = r[i] /\ u[k] = r[j] /\ t[k] = r[j] /\ r[u[k]] = r[j]
      BY <1>5, <2>1, <2>5
    <3>2. t[u[k]] = t[k]
      BY <2>4, <3>1
    <3>3. u[k] # k => e[u[k]] < e[k]
      <4> SUFFICES ASSUME u[k] # k PROVE e[u[k]] < e[k]
        OBVIOUS
      <4>1. r[i] # r[j]
        BY <2>5, <3>1
      <4>2. e[k] = d[k] + d[r[j]] + 1 /\ e[u[k]] = d[r[j]]
        BY <2>2, <3>1, <4>1
      <4>3. d[k] \in Nat /\ d[r[j]] \in Nat
        BY <1>5, <2>2
      <4> QED BY <4>2, <4>3
    <3> QED BY <2>3, <3>1, <3>2, <3>3
  <2>6. CASE k # r[i]
    <3>1. u[k] = q[k]
      BY <2>1, <2>6
    <3>2. u[k] = k => t[k] = k
      BY <2>1, <2>2, <2>6, <3>1
    <3>3. u[k] # k => t[k] = t[u[k]]
      BY <2>1, <2>2, <2>4, <3>1
    <3>4. u[k] # k => e[u[k]] < e[k]
      <4> SUFFICES ASSUME u[k] # k PROVE e[u[k]] < e[k]
        OBVIOUS
      <4>1. r[k] = r[q[k]] /\ d[q[k]] < d[k]
        BY <2>2, <3>1
      <4>2. d[k] \in Nat /\ d[q[k]] \in Nat /\ d[r[j]] \in Nat
        BY <1>5, <2>2
      <4>3. \/ e[k] = d[k] /\ e[q[k]] = d[q[k]]
            \/ e[k] = d[k] + d[r[j]] + 1 /\ e[q[k]] = d[q[k]] + d[r[j]] + 1
        BY <2>2, <4>1
      <4> HIDE DEF e
      <4> QED BY <3>1, <4>1, <4>2, <4>3
    <3> QED BY <2>3, <3>2, <3>3, <3>4
  <2> QED BY <2>5, <2>6
<1> HIDE DEF e, t
<1>8. Forest(D, u, t, e)
  BY <1>6, <1>7 DEF Forest
<1> QED BY <1>8 DEF u, t

-----------------------------------------------------------------------------
(* Classes of positions and the links between them. *)

Connected(C, L) ==
  \A part \in (SUBSET C) \ {{}, C} : \E i \in part, j \in C \ part : <<i, j>> \in L

Component(D, C, L) == Connected(C, L) /\ \A i \in C, j \in D \ C : <<i, j>> \notin L

ClassOf(D, r, a) == {k \in D : r[k] = r[a]}

(* r sorts D by the links L: every class is connected, and no link leaves   *)
(* its class.                                                               *)
Sorted(D, r, L) ==
  /\ \A a \in D : Connected(ClassOf(D, r, a), L)
  /\ \A a, b \in D : <<a, b>> \in L => r[a] = r[b]

(* More links connect more. *)
LEMMA ConnectedMore ==
  ASSUME NEW C, NEW L, NEW M, L \subseteq M, Connected(C, L)
  PROVE  Connected(C, M)
BY DEF Connected

(* A single position is connected.                                          *)
LEMMA ConnectedOne ==
  ASSUME NEW L, NEW a PROVE Connected({a}, L)
BY DEF Connected

(* A link between two connected sets connects their union. *)
LEMMA ConnectedUnion ==
  ASSUME NEW A, NEW B, NEW L, Connected(A, L), Connected(B, L),
         NEW i \in A, NEW j \in B, <<i, j>> \in L, <<j, i>> \in L
  PROVE  Connected(A \cup B, L)
<1> SUFFICES ASSUME NEW part \in SUBSET (A \cup B), part # {}, part # A \cup B
             PROVE  \E x \in part, y \in (A \cup B) \ part : <<x, y>> \in L
  BY DEF Connected
<1>1. CASE part \cap A # {} /\ part \cap A # A
  <2>1. part \cap A \in (SUBSET A) \ {{}, A}
    BY <1>1
  <2>2. PICK x \in part \cap A, y \in A \ (part \cap A) : <<x, y>> \in L
    BY <2>1 DEF Connected
  <2> QED BY <2>2
<1>2. CASE part \cap B # {} /\ part \cap B # B
  <2>1. part \cap B \in (SUBSET B) \ {{}, B}
    BY <1>2
  <2>2. PICK x \in part \cap B, y \in B \ (part \cap B) : <<x, y>> \in L
    BY <2>1 DEF Connected
  <2> QED BY <2>2
<1>3. CASE part \cap A = A /\ part \cap B = {}
  <2>1. i \in part /\ j \in (A \cup B) \ part
    BY <1>3
  <2> QED BY <2>1
<1>4. CASE part \cap A = {} /\ part \cap B = B
  <2>1. j \in part /\ i \in (A \cup B) \ part
    BY <1>4
  <2> QED BY <2>1
<1>5. ~ (part \cap A = A /\ part \cap B = B)
  OBVIOUS
<1>6. ~ (part \cap A = {} /\ part \cap B = {})
  OBVIOUS
<1> QED BY <1>1, <1>2, <1>3, <1>4, <1>5, <1>6

(* Merging the classes of the ends of a link sorts by one link more. *)
LEMMA SortedUnion ==
  ASSUME NEW D, NEW r, NEW L, Sorted(D, r, L), NEW i \in D, NEW j \in D
  PROVE  Sorted(D, Under(D, r, i, j), L \cup {<<i, j>>, <<j, i>>})
<1> DEFINE M == L \cup {<<i, j>>, <<j, i>>}
           t == Under(D, r, i, j)
           A == ClassOf(D, r, i)
           B == ClassOf(D, r, j)
<1>1. \A k \in D : t[k] = IF r[k] = r[i] THEN r[j] ELSE r[k]
  BY DEF Under
<1> HIDE DEF t
<1>2. Connected(A \cup B, M)
  <2>1. Connected(A, M) /\ Connected(B, M)
    BY ConnectedMore DEF Sorted
  <2>2. i \in A /\ j \in B
    BY DEF ClassOf
  <2>3. <<i, j>> \in M /\ <<j, i>> \in M
    OBVIOUS
  <2> HIDE DEF A, B, M
  <2> QED BY <2>1, <2>2, <2>3, ConnectedUnion
<1>3. ASSUME NEW a \in D PROVE Connected(ClassOf(D, t, a), M)
  <2>1. CASE t[a] = r[j]
    <3>1. ClassOf(D, t, a) = A \cup B
      BY <1>1, <2>1 DEF ClassOf
    <3> QED BY <1>2, <3>1
  <2>2. CASE t[a] # r[j]
    <3>1. ClassOf(D, t, a) = ClassOf(D, r, a)
      BY <1>1, <2>2 DEF ClassOf
    <3>2. Connected(ClassOf(D, r, a), L)
      BY DEF Sorted
    <3> QED BY <3>1, <3>2, ConnectedMore
  <2> QED BY <2>1, <2>2
<1>4. ASSUME NEW a \in D, NEW b \in D, <<a, b>> \in M PROVE t[a] = t[b]
  <2>1. CASE <<a, b>> \in L
    BY <1>1, <2>1 DEF Sorted
  <2>2. CASE <<a, b>> \notin L
    <3>1. (a = i /\ b = j) \/ (a = j /\ b = i)
      BY <1>4, <2>2
    <3> QED BY <1>1, <3>1
  <2> QED BY <2>1, <2>2
<1> HIDE DEF M
<1>5. Sorted(D, t, M)
  BY <1>3, <1>4 DEF Sorted
<1> QED BY <1>5 DEF M, t

(* Sorted by all links, the classes are the components. *)
LEMMA ClassesAreComponents ==
  ASSUME NEW D, NEW r, NEW L, Sorted(D, r, L), NEW C \in SUBSET D, C # {}
  PROVE  Component(D, C, L) <=> \E a \in D : C = ClassOf(D, r, a)
<1>1. ASSUME NEW a \in D, C = ClassOf(D, r, a) PROVE Component(D, C, L)
  BY <1>1 DEF Component, Sorted, ClassOf
<1>2. ASSUME Component(D, C, L) PROVE \E a \in D : C = ClassOf(D, r, a)
  <2>1. PICK a \in C : TRUE
    OBVIOUS
  <2> DEFINE K == ClassOf(D, r, a)
  <2>2. a \in K /\ K \in SUBSET D
    BY <2>1 DEF ClassOf
  <2>3. C \subseteq K
    <3> SUFFICES ASSUME C \cap K # C PROVE FALSE
      OBVIOUS
    <3>1. C \cap K \in (SUBSET C) \ {{}, C}
      BY <2>1, <2>2
    <3>2. PICK x \in C \cap K, y \in C \ (C \cap K) : <<x, y>> \in L
      BY <1>2, <3>1 DEF Component, Connected
    <3>3. x \in D /\ y \in D /\ r[x] = r[a] /\ r[y] # r[a]
      BY <3>2 DEF ClassOf
    <3> QED BY <3>2, <3>3 DEF Sorted
  <2>4. C = K
    <3> SUFFICES ASSUME C # K PROVE FALSE
      OBVIOUS
    <3>1. C \in (SUBSET K) \ {{}, K}
      BY <2>3
    <3>2. Connected(K, L)
      BY <2>1 DEF Sorted
    <3>3. PICK x \in C, y \in K \ C : <<x, y>> \in L
      BY <3>1, <3>2 DEF Connected
    <3>4. y \in D \ C
      BY <2>2, <3>3
    <3> QED BY <1>2, <3>3, <3>4 DEF Component
  <2> QED BY <2>1, <2>4
<1> QED BY <1>1, <1>2

-----------------------------------------------------------------------------
(* The loops over the pairs of a bucket. *)

PairAt(n, k) == <<((k - 1) \div n) + 1, ((k - 1) % n) + 1>>

(* The numbering of pairs reaches every pair of positions.                  *)
LEMMA EveryPair ==
  ASSUME NEW n \in Nat, NEW i \in 1 .. n, NEW j \in 1 .. n
  PROVE  \E k \in 1 .. n * n : PairAt(n, k) = <<i, j>>
<1> DEFINE k == (i - 1) * n + j
<1>1. n > 0 /\ i - 1 \in Nat /\ i - 1 <= n - 1 /\ j - 1 \in 0 .. n - 1
  OBVIOUS
<1>2. (i - 1) * n \in Nat /\ (i - 1) * n <= (n - 1) * n /\ (n - 1) * n + n = n * n
  BY <1>1
<1>3. k \in 1 .. n * n
  BY <1>1, <1>2
<1>4. (k - 1) \div n = i - 1 /\ (k - 1) % n = j - 1
  <2>1. k - 1 = (i - 1) * n + (j - 1)
    BY <1>1, <1>2
  <2> QED BY <1>1, <1>2, <2>1
<1>5. PairAt(n, k) = <<i, j>>
  <2>1. i - 1 + 1 = i /\ j - 1 + 1 = j
    OBVIOUS
  <2> HIDE DEF k
  <2> QED BY <1>4, <2>1 DEF PairAt
<1> HIDE DEF k
<1> QED BY <1>3, <1>5

(* The numbering of pairs numbers pairs of positions.                       *)
LEMMA PairIsPair ==
  ASSUME NEW n \in Nat, NEW k \in 1 .. n * n
  PROVE  PairAt(n, k)[1] \in 1 .. n /\ PairAt(n, k)[2] \in 1 .. n
<1>1. n > 0
  OBVIOUS
<1>2. (k - 1) \in 0 .. n * n - 1
  OBVIOUS
<1>3. (k - 1) \div n \in 0 .. n - 1
  BY <1>1, <1>2
<1>4. (k - 1) % n \in 0 .. n - 1
  BY <1>1, <1>2
<1> QED BY <1>1, <1>3, <1>4 DEF PairAt

(* The forests over D. *)
Forests(D) == {p \in [D -> D] : \E r, d : Forest(D, p, r, d)}

(* One step of the loops, and the forest after k of them. *)
Look(bucket, radius, k, p) ==
  LET i == PairAt(Len(bucket), k)[1]
      j == PairAt(Len(bucket), k)[2]
  IN  IF i < j /\ Within(radius, bucket[i], bucket[j]) THEN Union(p, i, j) ELSE p

(* One step of the loops takes a forest to a forest.                        *)
LEMMA LookIs ==
  ASSUME NEW bucket, NEW radius, Len(bucket) \in Nat,
         NEW k \in 1 .. Len(bucket) * Len(bucket), NEW p \in Forests(1 .. Len(bucket))
  PROVE  Look(bucket, radius, k, p) \in Forests(1 .. Len(bucket))
<1> DEFINE D == 1 .. Len(bucket)
           i == PairAt(Len(bucket), k)[1]
           j == PairAt(Len(bucket), k)[2]
<1>1. i \in D /\ j \in D
  BY PairIsPair
<1>2. PICK r, d : Forest(D, p, r, d)
  BY DEF Forests
<1> HIDE DEF i, j, D
<1>3. PICK e : Forest(D, Union(p, i, j), Under(D, r, i, j), e)
  BY <1>1, <1>2, UnionIs
<1>4. Union(p, i, j) \in [D -> D]
  BY <1>3 DEF Forest
<1>5. Union(p, i, j) \in Forests(D)
  BY <1>3, <1>4, Zenon DEF Forests
<1> QED BY <1>5 DEF Look, i, j, D

(* g holds the forest after each step of the loops. *)
Looks(bucket, radius, S, start, l, g) ==
  /\ g \in [0 .. l -> S]
  /\ g[0] = start
  /\ \A k \in 1 .. l : g[k] = Look(bucket, radius, k, g[k - 1])

(* The forests after each step of the loops are a function of the step.     *)
LEMMA LooksExist ==
  ASSUME NEW bucket, NEW radius, NEW S, NEW start \in S, NEW l \in Nat,
         \A k \in 1 .. l : \A p \in S : Look(bucket, radius, k, p) \in S
  PROVE  \E g : Looks(bucket, radius, S, start, l, g)
<1> DEFINE F == [k \in 1 .. l |-> [p \in S |-> Look(bucket, radius, k, p)]]
<1>1. F \in [1 .. l -> [S -> S]]
  OBVIOUS
<1>2. PICK g \in [0 .. l -> S] : g[0] = start /\ \A k \in 1 .. l : g[k] = F[k][g[k - 1]]
  <2> HIDE DEF F
  <2> QED BY <1>1, RecursionExists
<1>3. ASSUME NEW k \in 1 .. l PROVE g[k] = Look(bucket, radius, k, g[k - 1])
  <2>1. k - 1 \in 0 .. l
    OBVIOUS
  <2>2. g[k - 1] \in S
    BY <2>1
  <2> QED BY <1>2, <2>2
<1> QED BY <1>2, <1>3 DEF Looks

(* From single positions on, over every pair: the last forest is Joined. *)
Alone(n) == [i \in 1 .. n |-> i]
LooksAt(bucket, radius, g) ==
  LET n == Len(bucket)
  IN  Looks(bucket, radius, Forests(1 .. n), Alone(n), n * n, g)

(* So are those of a bucket, from single positions on.                      *)
LEMMA LooksAre ==
  ASSUME NEW bucket, NEW radius, Len(bucket) \in Nat
  PROVE  \E g : LooksAt(bucket, radius, g)
<1> DEFINE n == Len(bucket)
<1>1. n \in Nat /\ n * n \in Nat
  OBVIOUS
<1>2. Alone(n) \in Forests(1 .. n)
  <2>1. Forest(1 .. n, Alone(n), Alone(n), [i \in 1 .. n |-> 0])
    BY DEF Forest, Alone
  <2>2. Alone(n) \in [1 .. n -> 1 .. n]
    BY DEF Alone
  <2> HIDE DEF n
  <2> QED BY <2>1, <2>2 DEF Forests
<1>3. \A k \in 1 .. n * n : \A p \in Forests(1 .. n) :
        Look(bucket, radius, k, p) \in Forests(1 .. n)
  BY LookIs
<1> HIDE DEF n
<1> QED BY <1>1, <1>2, <1>3, LooksExist DEF LooksAt, n

(* What the fold of Joined returns is the forest behind the last pair.      *)
LEMMA JoinedIs ==
  ASSUME NEW bucket, NEW radius, Len(bucket) \in Nat,
         NEW g, LooksAt(bucket, radius, g)
  PROVE  Joined(bucket, radius) = g[Len(bucket) * Len(bucket)]
<1> DEFINE n == Len(bucket)
           l == n * n
           loops(f) == [k \in 0 .. l |->
             IF k = 0 THEN [i \in 1 .. n |-> i]
             ELSE LET before == f[k - 1]
                      i == PairAt(n, k)[1]
                      j == PairAt(n, k)[2]
                  IN  IF i < j /\ Within(radius, bucket[i], bucket[j])
                      THEN Union(before, i, j)
                      ELSE before]
           joined == CHOOSE f : f = loops(f)
<1>1. n \in Nat /\ l \in Nat
  OBVIOUS
<1>2. Joined(bucket, radius) = joined[l]
  BY Zenon DEF Joined, PairAt
<1>3. ASSUME NEW f, NEW k \in 0 .. l
      PROVE  loops(f)[k] = IF k = 0 THEN [i \in 1 .. n |-> i]
                           ELSE Look(bucket, radius, k, f[k - 1])
  BY DEF Look
<1>4. \A f : loops(f) = [k \in 0 .. l |-> loops(f)[k]]
  OBVIOUS
<1>5. /\ g = [k \in 0 .. l |-> g[k]] /\ g[0] = [i \in 1 .. n |-> i]
      /\ \A k \in 1 .. l : g[k] = Look(bucket, radius, k, g[k - 1])
  BY DEF LooksAt, Looks, Alone
<1> HIDE DEF loops, l
<1>6. g = loops(g)
  <2>1. ASSUME NEW k \in 0 .. l PROVE g[k] = loops(g)[k]
    BY <1>1, <1>3, <1>5
  <2> QED BY <1>4, <1>5, <2>1
<1>7. joined = loops(joined)
  BY <1>6, Zenon
<1> HIDE DEF joined
<1> DEFINE W == {k \in 0 .. l : joined[k] # g[k]}
<1>8. W = {}
  <2> SUFFICES ASSUME W # {} PROVE FALSE
    OBVIOUS
  <2>1. W \in SUBSET Nat
    BY <1>1
  <2>2. PICK k \in W : \A m \in W : k <= m
    <3> HIDE DEF W
    <3> QED BY <2>1, LeastNatural
  <2>3. joined[k] = IF k = 0 THEN [i \in 1 .. n |-> i]
                    ELSE Look(bucket, radius, k, joined[k - 1])
    BY <1>3, <1>7
  <2>4. k # 0
    BY <1>5, <2>3
  <2>5. k \in 1 .. l /\ k - 1 \in 0 .. l /\ k \in Nat
    BY <1>1, <2>4
  <2>6. k - 1 \notin W
    <3> HIDE DEF W
    <3> QED BY <2>2, <2>5
  <2>7. joined[k - 1] = g[k - 1]
    BY <2>5, <2>6
  <2> QED BY <1>5, <2>3, <2>4, <2>5, <2>7
<1>9. l \in 0 .. l
  BY <1>1
<1> QED BY <1>2, <1>8, <1>9 DEF l

(* The links the first k steps have looked at, and all links of a bucket. *)
LinksSeen(bucket, radius, k) ==
  {l \in (1 .. Len(bucket)) \X (1 .. Len(bucket)) :
     \E m \in 1 .. k :
       LET i == PairAt(Len(bucket), m)[1]
           j == PairAt(Len(bucket), m)[2]
       IN  /\ i < j /\ Within(radius, bucket[i], bucket[j])
           /\ l = <<i, j>> \/ l = <<j, i>>}

BucketLinks(bucket, radius) ==
  {l \in (1 .. Len(bucket)) \X (1 .. Len(bucket)) :
     l[1] # l[2] /\ Within(radius, bucket[l[1]], bucket[l[2]])}

(* Two rows are near each other or not, in either order.                    *)
LEMMA NearBothWays ==
  ASSUME NEW radius, NEW a, NEW b
  PROVE  Within(radius, a, b) <=> Within(radius, b, a)
<1>1. {a.osmId, b.osmId} = {b.osmId, a.osmId}
  OBVIOUS
<1> QED BY <1>1 DEF Within

(* Behind the last pair every link of the bucket has been seen.             *)
LEMMA SeenAll ==
  ASSUME NEW bucket, NEW radius, Len(bucket) \in Nat
  PROVE  LinksSeen(bucket, radius, Len(bucket) * Len(bucket)) = BucketLinks(bucket, radius)
<1> DEFINE n == Len(bucket)
           A == LinksSeen(bucket, radius, n * n)
           B == BucketLinks(bucket, radius)
<1>1. ASSUME NEW a \in 1 .. n, NEW b \in 1 .. n, <<a, b>> \in A PROVE <<a, b>> \in B
  <2>1. PICK m \in 1 .. n * n :
          LET i == PairAt(n, m)[1]
              j == PairAt(n, m)[2]
          IN  /\ i < j /\ Within(radius, bucket[i], bucket[j])
              /\ <<a, b>> = <<i, j>> \/ <<a, b>> = <<j, i>>
    BY <1>1 DEF LinksSeen
  <2> DEFINE i == PairAt(n, m)[1]
             j == PairAt(n, m)[2]
  <2>2. i \in 1 .. n /\ j \in 1 .. n
    BY PairIsPair
  <2> HIDE DEF i, j
  <2>3. i < j /\ Within(radius, bucket[i], bucket[j]) /\ ((a = i /\ b = j) \/ (a = j /\ b = i))
    BY <2>1 DEF i, j
  <2>4. a # b
    BY <2>2, <2>3
  <2>5. Within(radius, bucket[a], bucket[b])
    BY <2>3, NearBothWays
  <2> QED BY <2>4, <2>5 DEF BucketLinks
<1>2. ASSUME NEW a \in 1 .. n, NEW b \in 1 .. n, a < b, Within(radius, bucket[a], bucket[b])
      PROVE  <<a, b>> \in A /\ <<b, a>> \in A
  <2>1. PICK m \in 1 .. n * n : PairAt(n, m) = <<a, b>>
    BY EveryPair
  <2>2. PairAt(n, m)[1] = a /\ PairAt(n, m)[2] = b
    BY <2>1
  <2> QED BY <1>2, <2>2 DEF LinksSeen
<1>3. ASSUME NEW a \in 1 .. n, NEW b \in 1 .. n, <<a, b>> \in B PROVE <<a, b>> \in A
  <2>1. a # b /\ Within(radius, bucket[a], bucket[b]) /\ Within(radius, bucket[b], bucket[a])
    BY <1>3, NearBothWays DEF BucketLinks
  <2>2. a < b \/ b < a
    BY <2>1
  <2> HIDE DEF A
  <2> QED BY <1>2, <2>1, <2>2
<1>4. A \subseteq (1 .. n) \X (1 .. n) /\ B \subseteq (1 .. n) \X (1 .. n)
  BY DEF LinksSeen, BucketLinks
<1> HIDE DEF A, B
<1>5. A = B
  BY <1>1, <1>3, <1>4
<1> QED BY <1>5 DEF A, B

(* After k steps the forest sorts the positions by the links seen. *)
SortedAt(bucket, radius, k, p) ==
  \E r, d : /\ Forest(1 .. Len(bucket), p, r, d)
            /\ Sorted(1 .. Len(bucket), r, LinksSeen(bucket, radius, k))

(* Single positions are sorted by no link at all.                           *)
LEMMA StartsSorted ==
  ASSUME NEW bucket, NEW radius, Len(bucket) \in Nat
  PROVE  SortedAt(bucket, radius, 0, Alone(Len(bucket)))
<1> DEFINE n == Len(bucket)
           D == 1 .. n
<1>1. Forest(D, Alone(n), Alone(n), [i \in D |-> 0])
  BY DEF Forest, Alone
<1>2. LinksSeen(bucket, radius, 0) = {}
  BY DEF LinksSeen
<1>3. Sorted(D, Alone(n), {})
  <2>1. ASSUME NEW a \in D PROVE ClassOf(D, Alone(n), a) = {a}
    BY DEF ClassOf, Alone
  <2>2. \A a \in D : Connected(ClassOf(D, Alone(n), a), {})
    BY <2>1, ConnectedOne
  <2> QED BY <2>2 DEF Sorted
<1> HIDE DEF D, n
<1> QED BY <1>1, <1>2, <1>3, Zenon DEF SortedAt, D, n

(* A step of the loops that sees a link sorts by it too.                    *)
LEMMA StaysSorted ==
  ASSUME NEW bucket, NEW radius, Len(bucket) \in Nat,
         NEW k \in 1 .. Len(bucket) * Len(bucket),
         NEW p, SortedAt(bucket, radius, k - 1, p)
  PROVE  SortedAt(bucket, radius, k, Look(bucket, radius, k, p))
<1> DEFINE n == Len(bucket)
           D == 1 .. n
           i == PairAt(n, k)[1]
           j == PairAt(n, k)[2]
           L == LinksSeen(bucket, radius, k - 1)
           M == LinksSeen(bucket, radius, k)
<1>1. i \in D /\ j \in D
  BY PairIsPair
<1>2. PICK r, d : Forest(D, p, r, d) /\ Sorted(D, r, L)
  BY DEF SortedAt
<1>3. \A m : m \in 1 .. k <=> m \in 1 .. k - 1 \/ m = k
  OBVIOUS
<1>4. CASE i < j /\ Within(radius, bucket[i], bucket[j])
  <2>1. M = L \cup {<<i, j>>, <<j, i>>}
    <3>1. \A l \in D \X D : l \in M <=> l \in L \/ l = <<i, j>> \/ l = <<j, i>>
      BY <1>3, <1>4 DEF LinksSeen
    <3>2. M \subseteq D \X D /\ L \subseteq D \X D
      BY DEF LinksSeen
    <3> HIDE DEF M, L, D, i, j
    <3> QED BY <1>1, <3>1, <3>2
  <2>2. Look(bucket, radius, k, p) = Union(p, i, j)
    BY <1>4 DEF Look
  <2> HIDE DEF M, L, D, i, j
  <2>3. PICK e : Forest(D, Union(p, i, j), Under(D, r, i, j), e)
    BY <1>1, <1>2, UnionIs
  <2>4. Sorted(D, Under(D, r, i, j), M)
    BY <1>1, <1>2, <2>1, SortedUnion
  <2> QED BY <2>2, <2>3, <2>4, Zenon DEF SortedAt, D, M, n
<1>5. CASE ~ (i < j /\ Within(radius, bucket[i], bucket[j]))
  <2>1. M = L
    BY <1>3, <1>5 DEF LinksSeen
  <2>2. Look(bucket, radius, k, p) = p
    BY <1>5 DEF Look
  <2> HIDE DEF M, L, D, i, j
  <2> QED BY <1>2, <2>1, <2>2, Zenon DEF SortedAt, D, M, L, n
<1> QED BY <1>4, <1>5

(* The loops end with a forest whose trees are the components of the        *)
(* bucket.                                                                  *)
LEMMA EndsSorted ==
  ASSUME NEW bucket, NEW radius, Len(bucket) \in Nat
  PROVE  \E r, d : /\ Forest(1 .. Len(bucket), Joined(bucket, radius), r, d)
                   /\ Sorted(1 .. Len(bucket), r, BucketLinks(bucket, radius))
<1> DEFINE n == Len(bucket)
           l == n * n
<1>1. n \in Nat /\ l \in Nat
  OBVIOUS
<1>2. PICK g : LooksAt(bucket, radius, g)
  BY LooksAre
<1>3. /\ g[0] = Alone(n)
      /\ \A k \in 1 .. l : g[k] = Look(bucket, radius, k, g[k - 1])
  BY <1>2 DEF LooksAt, Looks
<1> DEFINE W == {k \in 0 .. l : ~ SortedAt(bucket, radius, k, g[k])}
<1>4. \A k \in 1 .. l : SortedAt(bucket, radius, k - 1, g[k - 1]) =>
                        SortedAt(bucket, radius, k, Look(bucket, radius, k, g[k - 1]))
  BY StaysSorted
<1> HIDE DEF l
<1>5. W = {}
  <2> SUFFICES ASSUME W # {} PROVE FALSE
    OBVIOUS
  <2>1. W \in SUBSET Nat
    BY <1>1
  <2>2. PICK k \in W : \A m \in W : k <= m
    <3> HIDE DEF W
    <3> QED BY <2>1, LeastNatural
  <2>3. k # 0
    BY <1>3, StartsSorted
  <2>4. k \in 1 .. l /\ k - 1 \in 0 .. l /\ k \in Nat
    BY <1>1, <2>3
  <2>5. k - 1 \notin W
    <3> HIDE DEF W
    <3> QED BY <2>2, <2>4
  <2>6. SortedAt(bucket, radius, k - 1, g[k - 1])
    BY <2>4, <2>5
  <2> QED BY <1>3, <1>4, <2>4, <2>6
<1>6. SortedAt(bucket, radius, l, g[l])
  BY <1>1, <1>5
<1>7. Joined(bucket, radius) = g[l] /\ LinksSeen(bucket, radius, l) = BucketLinks(bucket, radius)
  BY <1>2, JoinedIs, SeenAll DEF l
<1> QED BY <1>6, <1>7 DEF SortedAt

(* The clusters of a bucket are the rows at its components. *)
ClusterAt(bucket, radius, cluster, C) ==
  /\ C # {} /\ Component(DOMAIN bucket, C, BucketLinks(bucket, radius))
  /\ cluster = {bucket[j] : j \in C}

(* The clusters of a bucket are its components.                             *)
LEMMA ClustersAre ==
  ASSUME NEW bucket, NEW radius, Len(bucket) \in Nat, DOMAIN bucket = 1 .. Len(bucket),
         NEW cluster, cluster # {}
  PROVE  cluster \in ClustersOf(bucket, radius) <=>
           \E C \in SUBSET DOMAIN bucket : ClusterAt(bucket, radius, cluster, C)
<1> DEFINE D == DOMAIN bucket
           parent == Joined(bucket, radius)
           L == BucketLinks(bucket, radius)
<1>1. PICK r, d : Forest(D, parent, r, d) /\ Sorted(D, r, L)
  BY EndsSorted
<1> HIDE DEF parent, L, D
<1>2. \A k \in D : RootOf(parent, k) = r[k]
  BY <1>1, RootIs
<1>3. \A k \in D : r[k] \in D /\ r[r[k]] = r[k]
  BY <1>1 DEF Forest
<1>4. ClustersOf(bucket, radius) = {{bucket[j] : j \in {k \in D : r[k] = i}} : i \in D}
  BY <1>2 DEF ClustersOf, parent, D
<1>5. ASSUME NEW C \in SUBSET D, C # {}
      PROVE  Component(D, C, L) <=> \E a \in D : C = ClassOf(D, r, a)
  BY <1>1, <1>5, ClassesAreComponents
<1>6. ASSUME NEW i \in D, cluster = {bucket[j] : j \in {k \in D : r[k] = i}}
      PROVE  \E C \in SUBSET D : C # {} /\ Component(D, C, L) /\ cluster = {bucket[j] : j \in C}
  <2> DEFINE C == {k \in D : r[k] = i}
  <2>1. PICK a \in D : r[a] = i
    BY <1>6
  <2>2. C = ClassOf(D, r, a) /\ C # {} /\ C \in SUBSET D
    BY <2>1 DEF ClassOf
  <2>3. cluster = {bucket[j] : j \in C}
    BY <1>6
  <2> HIDE DEF C
  <2> QED BY <1>5, <2>2, <2>3
<1>7. ASSUME NEW C \in SUBSET D, C # {}, Component(D, C, L), cluster = {bucket[j] : j \in C}
      PROVE  \E i \in D : cluster = {bucket[j] : j \in {k \in D : r[k] = i}}
  <2>1. PICK a \in D : C = ClassOf(D, r, a)
    BY <1>5, <1>7
  <2>2. C = {k \in D : r[k] = r[a]}
    BY <2>1 DEF ClassOf
  <2> QED BY <1>3, <1>7, <2>2
<1>8. cluster \in ClustersOf(bucket, radius) <=>
        \E i \in D : cluster = {bucket[j] : j \in {k \in D : r[k] = i}}
  BY <1>4
<1>9. cluster \in ClustersOf(bucket, radius) <=>
        \E C \in SUBSET D : C # {} /\ Component(D, C, L) /\ cluster = {bucket[j] : j \in C}
  BY <1>6, <1>7, <1>8
<1> QED BY <1>9 DEF ClusterAt, D, L

-----------------------------------------------------------------------------
(* From the buckets to the rows of the directory. *)

(* f takes D into E without loss: what is linked stays so, and nothing else *)
(* of E is linked to what D becomes.                                        *)
Carries(D, L, E, M, f) ==
  /\ f \in [D -> E]
  /\ \A i, j \in D : f[i] = f[j] => i = j
  /\ \A i, j \in D : <<i, j>> \in L <=> <<f[i], f[j]>> \in M
  /\ \A i \in D, y \in E : <<f[i], y>> \in M => \E j \in D : y = f[j]

(* Components move along an injection, when nothing outside its range is    *)
(* linked to it.                                                            *)
LEMMA ComponentMoves ==
  ASSUME NEW D, NEW E, NEW f, NEW L, NEW M, Carries(D, L, E, M, f),
         NEW C \in SUBSET D
  PROVE  Component(D, C, L) <=> Component(E, {f[i] : i \in C}, M)
<1> USE DEF Carries
<1> DEFINE Image(A) == {f[i] : i \in A}
<1>1. ASSUME Component(D, C, L) PROVE Component(E, Image(C), M)
  <2>1. ASSUME NEW part \in (SUBSET Image(C)) \ {{}, Image(C)}
        PROVE  \E x \in part, y \in Image(C) \ part : <<x, y>> \in M
    <3> DEFINE pre == {i \in C : f[i] \in part}
    <3>1. pre \in (SUBSET C) \ {{}, C}
      BY <2>1
    <3>2. PICK i \in pre, j \in C \ pre : <<i, j>> \in L
      <4> HIDE DEF pre
      <4> QED BY <1>1, <3>1 DEF Component, Connected
    <3> QED BY <3>2
  <2>2. ASSUME NEW i \in C, NEW y \in E \ Image(C) PROVE <<f[i], y>> \notin M
    <3> SUFFICES ASSUME <<f[i], y>> \in M PROVE FALSE
      OBVIOUS
    <3>1. PICK j \in D : y = f[j]
      OBVIOUS
    <3>2. j \in D \ C /\ <<i, j>> \in L
      BY <3>1
    <3> QED BY <1>1, <3>2 DEF Component
  <2> QED BY <2>1, <2>2 DEF Component, Connected
<1>2. ASSUME Component(E, Image(C), M) PROVE Component(D, C, L)
  <2>1. ASSUME NEW part \in (SUBSET C) \ {{}, C}
        PROVE  \E i \in part, j \in C \ part : <<i, j>> \in L
    <3>1. Image(part) \in (SUBSET Image(C)) \ {{}, Image(C)}
      <4>1. PICK c \in C : c \notin part
        BY <2>1
      <4>2. f[c] \in Image(C) /\ f[c] \notin Image(part)
        BY <4>1
      <4>3. Image(part) # {}
        BY <2>1
      <4> QED BY <4>2, <4>3
    <3>2. PICK x \in Image(part), y \in Image(C) \ Image(part) : <<x, y>> \in M
      <4> HIDE DEF Image
      <4> QED BY <1>2, <3>1 DEF Component, Connected
    <3>3. PICK i \in part : x = f[i]
      OBVIOUS
    <3>4. PICK j \in C \ part : y = f[j]
      OBVIOUS
    <3> QED BY <3>2, <3>3, <3>4
  <2>2. ASSUME NEW i \in C, NEW j \in D \ C PROVE <<i, j>> \notin L
    <3>1. f[i] \in Image(C) /\ f[j] \in E \ Image(C)
      OBVIOUS
    <3> HIDE DEF Image
    <3> QED BY <1>2, <3>1 DEF Component
  <2> QED BY <2>1, <2>2 DEF Component, Connected
<1> QED BY <1>1, <1>2

(* Two rows of a query are linked when they are located, have one name and  *)
(* lie near each other.                                                     *)
RowLinks(rows, radius) ==
  {l \in (DOMAIN rows) \X (DOMAIN rows) :
     /\ l[1] # l[2] /\ Within(radius, rows[l[1]], rows[l[2]])
     /\ rows[l[1]].located /\ rows[l[2]].located
     /\ rows[l[1]].name = rows[l[2]].name}

InBucket(rows, name) == {i \in DOMAIN rows : rows[i].located /\ rows[i].name = name}

RowComponent(rows, radius, C) == Component(DOMAIN rows, C, RowLinks(rows, radius))

(* The positions of a bucket stand for positions of the query. *)
StandsFor(rows, radius, bucket, P, f) ==
  /\ Len(bucket) \in Nat /\ DOMAIN bucket = 1 .. Len(bucket)
  /\ \A n \in DOMAIN bucket : f[n] \in P /\ bucket[n] = rows[f[n]]
  /\ \A i \in P : \E n \in DOMAIN bucket : f[n] = i
  /\ \A C \in SUBSET DOMAIN bucket :
       Component(DOMAIN bucket, C, BucketLinks(bucket, radius)) <=>
         RowComponent(rows, radius, {f[n] : n \in C})

(* The components of a bucket are components of the rows it was taken       *)
(* from.                                                                    *)
LEMMA BucketMoves ==
  ASSUME NEW S, NEW rows \in Seq(S), NEW radius, NEW name
  PROVE  \E f : StandsFor(rows, radius, Bucket(rows, name), InBucket(rows, name), f)
<1> DEFINE bucket == Bucket(rows, name)
           P == InBucket(rows, name)
           f == [n \in DOMAIN bucket |-> NthOf(P, n)]
           D == DOMAIN bucket
           L == BucketLinks(bucket, radius)
           M == RowLinks(rows, radius)
<1>1. /\ IsFiniteSet(P) /\ P \in SUBSET Nat /\ P \in SUBSET DOMAIN rows
      /\ bucket = ElementsAt(rows, P)
      /\ bucket \in Seq(S) /\ Len(bucket) = Cardinality(P)
      /\ \A n \in 1 .. Cardinality(P) : NthOf(P, n) \in P /\ bucket[n] = rows[NthOf(P, n)]
  <2>1. P \in SUBSET DOMAIN rows /\ bucket = ElementsAt(rows, P)
    BY DEF InBucket, Bucket
  <2> HIDE DEF P, bucket
  <2> QED BY <2>1, ElementsAtIs
<1> HIDE DEF bucket, P
<1>2. Len(bucket) \in Nat /\ D = 1 .. Len(bucket)
  BY <1>1
<1>3. \A n \in D : f[n] \in P /\ bucket[n] = rows[f[n]]
  BY <1>1, <1>2
<1>4. \A i \in P : \E n \in D : f[n] = i
  <2> SUFFICES ASSUME NEW i \in P PROVE \E n \in D : f[n] = i
    OBVIOUS
  <2>1. PICK n \in 1 .. Cardinality(P) : NthOf(P, n) = i
    BY <1>1, NthOfEvery
  <2> QED BY <1>1, <1>2, <2>1
<1>5. \A i, j \in D : f[i] = f[j] => i = j
  <2> SUFFICES ASSUME NEW i \in D, NEW j \in D, NthOf(P, i) = NthOf(P, j) PROVE i = j
    OBVIOUS
  <2>1. i \in 1 .. Cardinality(P) /\ j \in 1 .. Cardinality(P)
    BY <1>1, <1>2
  <2>2. Cardinality(Below(P, NthOf(P, i))) = i - 1 /\ Cardinality(Below(P, NthOf(P, j))) = j - 1
    BY <1>1, <2>1, NthOfIs
  <2>3. i - 1 = j - 1 /\ i \in Int /\ j \in Int
    BY <1>2, <2>2
  <2> QED BY <2>3
<1>6. \A i \in P : rows[i].located /\ rows[i].name = name /\ i \in DOMAIN rows
  BY DEF P, InBucket
<1> HIDE DEF f, D, L, M
<1>7. ASSUME NEW i \in D, NEW j \in D PROVE <<i, j>> \in L <=> <<f[i], f[j]>> \in M
  <2>1. <<i, j>> \in L <=> i # j /\ Within(radius, bucket[i], bucket[j])
    BY <1>2 DEF BucketLinks, L
  <2>2. <<f[i], f[j]>> \in M <=> f[i] # f[j] /\ Within(radius, rows[f[i]], rows[f[j]])
    BY <1>3, <1>6 DEF RowLinks, M
  <2> QED BY <1>3, <1>5, <2>1, <2>2
<1>8. ASSUME NEW i \in D, NEW y \in DOMAIN rows, <<f[i], y>> \in M
      PROVE  \E j \in D : y = f[j]
  <2>1. y \in P
    BY <1>3, <1>6, <1>8 DEF M, RowLinks, P, InBucket
  <2> QED BY <1>4, <2>1
<1>9. f \in [D -> DOMAIN rows]
  BY <1>3, <1>6 DEF f, D
<1>10. ASSUME NEW C \in SUBSET D
       PROVE  Component(D, C, L) <=> Component(DOMAIN rows, {f[n] : n \in C}, M)
  <2>1. Carries(D, L, DOMAIN rows, M, f)
    BY <1>5, <1>7, <1>8, <1>9 DEF Carries
  <2> QED BY <2>1, ComponentMoves
<1>11. StandsFor(rows, radius, bucket, P, f)
  BY <1>2, <1>3, <1>4, <1>10 DEF StandsFor, RowComponent, D, L, M
<1> QED BY <1>11 DEF bucket, P

(* A finite set has two elements and more when it has two different ones. *)
LEMMA TwoElements ==
  ASSUME NEW T, IsFiniteSet(T)
  PROVE  Cardinality(T) >= 2 <=> \E a, b \in T : a # b
<1>1. Cardinality(T) \in Nat
  BY FS_CardinalityType
<1>2. ASSUME NEW a \in T, NEW b \in T, a # b PROVE Cardinality(T) >= 2
  <2> DEFINE U == {a}
             V == U \cup {b}
  <2>1. IsFiniteSet(U) /\ Cardinality(U) = 1 /\ b \notin U
    BY <1>2, FS_Singleton
  <2>2. V \subseteq T
    OBVIOUS
  <2> HIDE DEF U
  <2>3. Cardinality(V) = IF b \in U THEN Cardinality(U) ELSE Cardinality(U) + 1
    <3>1. IsFiniteSet(U)
      BY <2>1
    <3> QED BY <3>1, FS_AddElement
  <2> HIDE DEF V
  <2>4. Cardinality(V) <= Cardinality(T)
    BY <2>2, FS_Subset
  <2> QED BY <1>1, <2>1, <2>3, <2>4
<1>3. ASSUME ~ \E a, b \in T : a # b PROVE Cardinality(T) < 2
  <2>1. CASE T = {}
    BY <2>1, FS_EmptySet
  <2>2. CASE T # {}
    <3>1. PICK a \in T : TRUE
      BY <2>2
    <3>2. T = {a}
      BY <1>3, <3>1
    <3> QED BY <3>2, FS_Singleton
  <2> QED BY <2>1, <2>2
<1> QED BY <1>1, <1>2, <1>3

(* What a component of two rows and more has in common. *)
LEMMA ComponentInBucket ==
  ASSUME NEW rows, NEW radius, NEW C \in SUBSET DOMAIN rows, RowComponent(rows, radius, C),
         NEW a \in C, NEW b \in C, a # b
  PROVE  C \subseteq InBucket(rows, rows[a].name)
<1> DEFINE P == InBucket(rows, rows[a].name)
<1>1. Connected(C, RowLinks(rows, radius))
  BY DEF RowComponent, Component
<1>2. a \in P
  <2>1. {a} \in (SUBSET C) \ {{}, C}
    OBVIOUS
  <2>2. \E x \in {a}, y \in C \ {a} : <<x, y>> \in RowLinks(rows, radius)
    BY <1>1, <2>1 DEF Connected
  <2> QED BY <2>2 DEF RowLinks, InBucket
<1>3. ASSUME C \cap P # C PROVE FALSE
  <2>1. C \cap P \in (SUBSET C) \ {{}, C}
    BY <1>2, <1>3
  <2>2. PICK x \in C \cap P, y \in C \ (C \cap P) : <<x, y>> \in RowLinks(rows, radius)
    BY <1>1, <2>1 DEF Connected
  <2> QED BY <2>2 DEF RowLinks, InBucket
<1> HIDE DEF P
<1>4. C \subseteq P
  BY <1>3
<1> QED BY <1>4 DEF P

(* groupPlaceDuplicates finds the components of two rows and more. *)
LEMMA GroupsAre ==
  ASSUME NEW S, NEW rows \in Seq(S), NEW radius,
         \A i, j \in DOMAIN rows : rows[i] = rows[j] => i = j,
         NEW g
  PROVE  g \in groupPlaceDuplicates(rows, radius) <=>
           \E C \in SUBSET DOMAIN rows :
             /\ RowComponent(rows, radius, C) /\ \E a, b \in C : a # b
             /\ g = {rows[i] : i \in C}
<1>1. ASSUME NEW C \in SUBSET DOMAIN rows
      PROVE  /\ IsFiniteSet({rows[i] : i \in C})
             /\ Cardinality({rows[i] : i \in C}) >= 2 <=> \E a, b \in C : a # b
  <2> DEFINE T == {rows[i] : i \in C}
  <2>1. IsFiniteSet(C)
    <3>1. DOMAIN rows = 1 .. Len(rows) /\ Len(rows) \in Nat
      OBVIOUS
    <3>2. IsFiniteSet(1 .. Len(rows))
      BY <3>1, CountTo
    <3> QED BY <3>1, <3>2, FS_Subset
  <2>2. [i \in C |-> rows[i]] \in Surjection(C, T)
    BY DEF Surjection
  <2>3. IsFiniteSet(T)
    <3> HIDE DEF T
    <3> QED BY <2>1, <2>2, FS_Surjection
  <2>4. (\E a, b \in T : a # b) <=> \E a, b \in C : a # b
    <3>1. ASSUME NEW a \in T, NEW b \in T, a # b PROVE \E i, j \in C : i # j
      <4>1. PICK i \in C : a = rows[i]
        OBVIOUS
      <4>2. PICK j \in C : b = rows[j]
        OBVIOUS
      <4> QED BY <3>1, <4>1, <4>2
    <3>2. ASSUME NEW i \in C, NEW j \in C, i # j PROVE \E a, b \in T : a # b
      <4>1. rows[i] \in T /\ rows[j] \in T /\ rows[i] # rows[j]
        BY <3>2
      <4> QED BY <4>1
    <3> QED BY <3>1, <3>2
  <2> HIDE DEF T
  <2>5. Cardinality(T) >= 2 <=> \E a, b \in T : a # b
    BY <2>3, TwoElements
  <2> QED BY <2>3, <2>4, <2>5 DEF T
<1>2. ASSUME NEW name
      PROVE  /\ g # {} => (g \in ClustersOf(Bucket(rows, name), radius) <=>
                  \E C \in SUBSET DOMAIN rows :
                    /\ C # {} /\ C \subseteq InBucket(rows, name)
                    /\ RowComponent(rows, radius, C)
                    /\ g = {rows[i] : i \in C})
  <2> DEFINE bucket == Bucket(rows, name)
             P == InBucket(rows, name)
             D == DOMAIN bucket
  <2>1. PICK f : StandsFor(rows, radius, bucket, P, f)
    BY BucketMoves
  <2>2. P \subseteq DOMAIN rows
    BY DEF InBucket
  <2> HIDE DEF P, bucket
  <2>3. /\ Len(bucket) \in Nat /\ D = 1 .. Len(bucket)
        /\ \A n \in D : f[n] \in P /\ bucket[n] = rows[f[n]]
        /\ \A i \in P : \E n \in D : f[n] = i
        /\ \A C \in SUBSET D :
             Component(D, C, BucketLinks(bucket, radius)) <=>
               RowComponent(rows, radius, {f[n] : n \in C})
    BY <2>1 DEF StandsFor
  <2> HIDE DEF D
  <2>4. ASSUME NEW B \in SUBSET D, ClusterAt(bucket, radius, g, B)
        PROVE  \E C \in SUBSET DOMAIN rows :
                 C # {} /\ C \subseteq P /\ RowComponent(rows, radius, C) /\ g = {rows[i] : i \in C}
    <3> DEFINE C == {f[n] : n \in B}
    <3>1. C # {} /\ C \subseteq P /\ C \in SUBSET DOMAIN rows
      <4>1. B # {}
        BY <2>4 DEF ClusterAt
      <4>2. C \subseteq P
        BY <2>3
      <4> QED BY <2>2, <4>1, <4>2
    <3>2. RowComponent(rows, radius, C)
      BY <2>3, <2>4 DEF ClusterAt, D
    <3>3. {rows[i] : i \in C} = {rows[f[n]] : n \in B}
      OBVIOUS
    <3>4. g = {bucket[n] : n \in B} /\ \A n \in B : bucket[n] = rows[f[n]]
      BY <2>3, <2>4 DEF ClusterAt
    <3> HIDE DEF C
    <3>5. g = {rows[i] : i \in C}
      BY <3>3, <3>4
    <3> QED BY <3>1, <3>2, <3>5
  <2>5. ASSUME NEW C \in SUBSET DOMAIN rows, C # {}, C \subseteq P, RowComponent(rows, radius, C),
               g = {rows[i] : i \in C}
        PROVE  \E B \in SUBSET D : ClusterAt(bucket, radius, g, B)
    <3> DEFINE B == {n \in D : f[n] \in C}
    <3>1. C = {f[n] : n \in B}
      BY <2>3, <2>5
    <3>2. B # {} /\ B \in SUBSET D
      BY <2>5, <3>1
    <3>3. Component(D, B, BucketLinks(bucket, radius))
      <4> HIDE DEF B
      <4> QED BY <2>3, <2>5, <3>1, <3>2
    <3>4. \A n \in B : bucket[n] = rows[f[n]]
      BY <2>3
    <3> HIDE DEF B
    <3>5. {rows[i] : i \in C} = {rows[f[n]] : n \in B}
      BY <3>1
    <3>6. g = {bucket[j] : j \in B}
      BY <2>5, <3>4, <3>5
    <3> QED BY <3>2, <3>3, <3>6 DEF ClusterAt, D
  <2>6. g # {} => (g \in ClustersOf(bucket, radius) <=>
                     \E B \in SUBSET D : ClusterAt(bucket, radius, g, B))
    BY <2>3, ClustersAre DEF D
  <2> QED BY <2>4, <2>5, <2>6 DEF bucket, P
<1>3. ASSUME g \in groupPlaceDuplicates(rows, radius)
      PROVE  \E C \in SUBSET DOMAIN rows :
               /\ RowComponent(rows, radius, C) /\ \E a, b \in C : a # b
               /\ g = {rows[i] : i \in C}
  <2>1. PICK name : g \in ClustersOf(Bucket(rows, name), radius) /\ Cardinality(g) >= 2
    BY <1>3 DEF groupPlaceDuplicates
  <2>2. g # {}
    <3> SUFFICES ASSUME g = {} PROVE FALSE
      OBVIOUS
    <3>1. Cardinality(g) = 0
      BY FS_EmptySet
    <3> QED BY <2>1, <3>1
  <2>3. PICK C \in SUBSET DOMAIN rows : RowComponent(rows, radius, C) /\ g = {rows[i] : i \in C}
    BY <1>2, <2>1, <2>2
  <2> QED BY <1>1, <2>1, <2>3
<1>4. ASSUME NEW C \in SUBSET DOMAIN rows, RowComponent(rows, radius, C),
             NEW a \in C, NEW b \in C, a # b, g = {rows[i] : i \in C}
      PROVE  g \in groupPlaceDuplicates(rows, radius)
  <2>1. C \subseteq InBucket(rows, rows[a].name)
    BY <1>4, ComponentInBucket
  <2>2. g # {} /\ Cardinality(g) >= 2
    <3>1. rows[a] \in g
      BY <1>4
    <3> QED BY <1>1, <1>4, <3>1
  <2>3. g \in ClustersOf(Bucket(rows, rows[a].name), radius)
    BY <1>2, <1>4, <2>1, <2>2
  <2> QED BY <2>2, <2>3 DEF groupPlaceDuplicates
<1> QED BY <1>3, <1>4

-----------------------------------------------------------------------------
(* The cases: rows are numbered as they come, and only located rows are     *)
(* near another.                                                            *)
RowOfCase == [osmId : Nat, name : RowName, located : BOOLEAN,
              status : {"active"}, facts : {0}]

RowsInv ==
  /\ "kind" \in DOMAIN input
  /\ input.kind = "rows" =>
       /\ input \in [kind : {"rows"}, rows : Seq(RowOfCase), near : SUBSET SUBSET Nat]
       /\ \A i \in DOMAIN input.rows : input.rows[i].osmId = i
       /\ \A i, j \in Nat : {i, j} \in input.near =>
            /\ i # j /\ i \in DOMAIN input.rows /\ j \in DOMAIN input.rows
            /\ input.rows[i].located /\ input.rows[j].located

(* The empty list of rows is one dedupePlaces may get.                      *)
LEMMA RowsInitially == CasesInit => RowsInv
<1> SUFFICES ASSUME CasesInit PROVE RowsInv
  OBVIOUS
<1>1. "kind" \in DOMAIN input
  BY DEF CasesInit
<1>2. ASSUME input.kind = "rows" PROVE input = [kind |-> "rows", rows |-> <<>>, near |-> {}]
  BY <1>2 DEF CasesInit
<1>3. ASSUME input.kind = "rows"
      PROVE  /\ input \in [kind : {"rows"}, rows : Seq(RowOfCase), near : SUBSET SUBSET Nat]
             /\ DOMAIN input.rows = {} /\ input.near = {}
  <2>1. <<>> \in Seq(RowOfCase) /\ DOMAIN <<>> = {}
    OBVIOUS
  <2>2. {} \in SUBSET SUBSET Nat
    OBVIOUS
  <2>3. input = [kind |-> "rows", rows |-> <<>>, near |-> {}]
    BY <1>2, <1>3
  <2>4. [kind |-> "rows", rows |-> <<>>, near |-> {}]
          \in [kind : {"rows"}, rows : Seq(RowOfCase), near : SUBSET SUBSET Nat]
    BY <2>1, <2>2
  <2>5. input.rows = <<>> /\ input.near = {}
    BY <2>3
  <2>6. DOMAIN input.rows = {}
    BY <2>1, <2>5
  <2> QED BY <2>3, <2>4, <2>5, <2>6
<1> QED BY <1>1, <1>3 DEF RowsInv

(* A list that grows by a row stays one dedupePlaces may get.               *)
LEMMA RowsStep == RowsInv /\ [CasesNext]_input => RowsInv'
<1> SUFFICES ASSUME RowsInv, [CasesNext]_input PROVE RowsInv'
  OBVIOUS
<1>1. CASE UNCHANGED input
  BY <1>1 DEF RowsInv
<1>2. CASE AddPlace \/ AddFind \/ AddLine
  <2>1. PICK rows : input' = [input EXCEPT !.rows = rows] /\ input.kind # "rows"
    BY <1>2 DEF AddPlace, AddFind, AddLine
  <2> QED BY <2>1 DEF RowsInv
<1>3. CASE AddRow
  <2> DEFINE id == Len(input.rows) + 1
  <2>1. PICK name \in RowName, located \in BOOLEAN, near \in SUBSET (DOMAIN input.rows) :
          LET row == [osmId |-> id, name |-> name, located |-> located,
                      status |-> "active", facts |-> 0]
          IN  /\ near # {} => located
              /\ \A i \in near : input.rows[i].located
              /\ input' = [input EXCEPT !.rows = Append(@, row),
                                        !.near = @ \cup {{i, id} : i \in near}]
    BY <1>3 DEF AddRow
  <2> DEFINE row == [osmId |-> id, name |-> name, located |-> located,
                     status |-> "active", facts |-> 0]
             more == {{i, id} : i \in near}
  <2>2. /\ input.kind = "rows"
        /\ input \in [kind : {"rows"}, rows : Seq(RowOfCase), near : SUBSET SUBSET Nat]
        /\ \A i \in DOMAIN input.rows : input.rows[i].osmId = i
        /\ \A i, j \in Nat : {i, j} \in input.near =>
             /\ i # j /\ i \in DOMAIN input.rows /\ j \in DOMAIN input.rows
             /\ input.rows[i].located /\ input.rows[j].located
    BY <1>3 DEF AddRow, RowsInv
  <2>3. id \in Nat /\ DOMAIN input.rows = 1 .. id - 1
    BY <2>2
  <2>4. row \in RowOfCase /\ row.osmId = id /\ row.located = located
    BY <2>3 DEF RowOfCase
  <2>5. more \in SUBSET SUBSET Nat
    BY <2>3
  <2>6. /\ input'.kind = "rows" /\ input'.rows = Append(input.rows, row)
        /\ input'.near = input.near \cup more
        /\ input' \in [kind : {"rows"}, rows : Seq(RowOfCase), near : SUBSET SUBSET Nat]
    <3>1. input' = [input EXCEPT !.rows = Append(input.rows, row), !.near = input.near \cup more]
      BY <2>1
    <3>2. Append(input.rows, row) \in Seq(RowOfCase)
      BY <2>2, <2>4
    <3> HIDE DEF row, more
    <3> QED BY <2>2, <2>5, <3>1, <3>2
  <2>7. /\ DOMAIN input'.rows = 1 .. id
        /\ \A i \in 1 .. id - 1 : input'.rows[i] = input.rows[i]
        /\ input'.rows[id] = row
    <3> HIDE DEF row
    <3> QED BY <2>2, <2>3, <2>6
  <2>8. \A i \in DOMAIN input'.rows : input'.rows[i].osmId = i
    <3> HIDE DEF row
    <3> QED BY <2>2, <2>3, <2>4, <2>7
  <2>9. ASSUME NEW i \in Nat, NEW j \in Nat, {i, j} \in input'.near
        PROVE  /\ i # j /\ i \in DOMAIN input'.rows /\ j \in DOMAIN input'.rows
               /\ input'.rows[i].located /\ input'.rows[j].located
    <3>1. CASE {i, j} \in input.near
      <4> HIDE DEF row
      <4>1. i # j /\ i \in 1 .. id - 1 /\ j \in 1 .. id - 1
            /\ input.rows[i].located /\ input.rows[j].located
        BY <2>2, <2>3, <3>1
      <4>2. i \in 1 .. id /\ j \in 1 .. id
        BY <2>3, <4>1
      <4> QED BY <2>7, <4>1, <4>2
    <3>2. CASE {i, j} \in more
      <4>1. PICK k \in near : {i, j} = {k, id}
        BY <3>2
      <4>2. k \in 1 .. id - 1 /\ input.rows[k].located /\ located
        BY <2>1, <2>3
      <4>3. k # id /\ k \in 1 .. id /\ id \in 1 .. id
        BY <2>3, <4>2
      <4>4. (i = k /\ j = id) \/ (i = id /\ j = k)
        BY <4>1
      <4>5. input'.rows[k].located /\ input'.rows[id].located
        BY <2>4, <2>7, <4>2
      <4>6. i # j /\ i \in 1 .. id /\ j \in 1 .. id
        BY <4>3, <4>4
      <4> HIDE DEF row, id
      <4> QED BY <2>7, <4>4, <4>5, <4>6
    <3> QED BY <2>6, <2>9, <3>1, <3>2
  <2> HIDE DEF row, more, id
  <2>10. "kind" \in DOMAIN input'
    BY <2>6
  <2> QED BY <2>6, <2>8, <2>9, <2>10 DEF RowsInv
<1> QED BY <1>1, <1>2, <1>3 DEF CasesNext

(* Every list of rows of Cases is one dedupePlaces may get: ids are their   *)
(* own, nearness is of located rows.                                        *)
LEMMA RowsInvariant == CasesSpec => []RowsInv
<1>1. RowsInv /\ [CasesNext]_input => RowsInv'
  BY RowsStep
<1> QED BY RowsInitially, <1>1, PTL DEF CasesSpec

(* For every such list the groups are the connected components with more    *)
(* than one row.                                                            *)
LEMMA RowsGrouped == RowsInv => GroupsAreComponents
<1> SUFFICES ASSUME RowsInv, input.kind = "rows"
             PROVE  GroupsAreComponents
  BY DEF GroupsAreComponents
<1> DEFINE rows == input.rows
           near == input.near
           E == DOMAIN rows
<1>1. /\ rows \in Seq(RowOfCase)
      /\ \A i \in E : rows[i].osmId = i /\ i \in Nat /\ rows[i].name \in RowName
      /\ \A i, j \in Nat : {i, j} \in near =>
           i # j /\ i \in E /\ j \in E /\ rows[i].located /\ rows[j].located
  <2>1. /\ rows \in Seq(RowOfCase)
        /\ \A i \in E : rows[i].osmId = i
        /\ \A i, j \in Nat : {i, j} \in near =>
             i # j /\ i \in E /\ j \in E /\ rows[i].located /\ rows[j].located
    BY DEF RowsInv
  <2>2. \A i \in E : rows[i] \in RowOfCase /\ i \in Nat
    <3> HIDE DEF rows
    <3> QED BY <2>1
  <2>3. \A i \in E : rows[i].name \in RowName
    BY <2>2 DEF RowOfCase
  <2> HIDE DEF rows, near, E
  <2> QED BY <2>1, <2>2, <2>3
<1> DEFINE Image(C) == {rows[i] : i \in C}
           Ids(g) == {row.osmId : row \in g}
<1>2. \A i, j \in E : rows[i] = rows[j] => i = j
  BY <1>1
<1>3. \A i, j \in E : Linked(i, j) <=> <<i, j>> \in RowLinks(rows, near)
  BY <1>1 DEF Linked, RowLinks, Within
<1>4. ASSUME NEW C \in SUBSET E
      PROVE  /\ IsComponent(C) <=> RowComponent(rows, near, C)
             /\ Ids(Image(C)) = C
             /\ Cardinality(C) >= 2 <=> \E a, b \in C : a # b
  <2>1. IsComponent(C) <=> RowComponent(rows, near, C)
    BY <1>3 DEF IsComponent, RowComponent, Component, Connected
  <2>2. Ids(Image(C)) = C
    BY <1>1
  <2>3. IsFiniteSet(C)
    <3>1. E = 1 .. Len(rows) /\ Len(rows) \in Nat
      BY <1>1
    <3>2. IsFiniteSet(1 .. Len(rows))
      BY <3>1, CountTo
    <3> QED BY <3>1, <3>2, FS_Subset
  <2> QED BY <2>1, <2>2, <2>3, TwoElements
<1>5. \A g : g \in groupPlaceDuplicates(rows, near) <=>
        \E C \in SUBSET E : RowComponent(rows, near, C) /\ (\E a, b \in C : a # b) /\ g = Image(C)
  <2> HIDE DEF rows, near
  <2> QED BY <1>1, <1>2, GroupsAre
<1> HIDE DEF rows, near, E, Image, Ids
<1>6. {Ids(g) : g \in groupPlaceDuplicates(rows, near)}
        = {C \in SUBSET E : Cardinality(C) >= 2 /\ IsComponent(C)}
  <2>1. ASSUME NEW g \in groupPlaceDuplicates(rows, near)
        PROVE  Ids(g) \in {C \in SUBSET E : Cardinality(C) >= 2 /\ IsComponent(C)}
    <3>1. PICK C \in SUBSET E :
            RowComponent(rows, near, C) /\ (\E a, b \in C : a # b) /\ g = Image(C)
      BY <1>5
    <3> QED BY <1>4, <3>1
  <2>2. ASSUME NEW C \in SUBSET E, Cardinality(C) >= 2, IsComponent(C)
        PROVE  \E g \in groupPlaceDuplicates(rows, near) : C = Ids(g)
    <3>1. Image(C) \in groupPlaceDuplicates(rows, near)
      BY <1>4, <1>5, <2>2
    <3> QED BY <1>4, <3>1
  <2> QED BY <2>1, <2>2
<1> QED BY <1>6 DEF GroupsAreComponents, rows, near, E, Ids

(* groupPlaceDuplicates returns the components of two rows and more of the   *)
(* graph of near rows of one name, for any number of rows in any order and   *)
(* any symmetric notion of near: neither the order in which the pairs are    *)
(* joined nor what path compression hangs where can be seen in the groups.   *)
THEOREM CasesGroup == CasesSpec => []GroupsAreComponents
BY RowsInvariant, RowsGrouped, PTL

-----------------------------------------------------------------------------
(* Pages. *)

(* Max and Min of two numbers. *)
LEMMA OfTwo ==
  ASSUME NEW a \in Int, NEW b \in Int
  PROVE  /\ Max({a, b}) = IF a >= b THEN a ELSE b
         /\ Min({a, b}) = IF a <= b THEN a ELSE b
<1>1. \E x \in {a, b} : \A y \in {a, b} : x >= y
  OBVIOUS
<1>2. Max({a, b}) \in {a, b} /\ \A y \in {a, b} : Max({a, b}) >= y
  BY <1>1, Zenon DEF Max
<1>3. \E x \in {a, b} : \A y \in {a, b} : x <= y
  OBVIOUS
<1>4. Min({a, b}) \in {a, b} /\ \A y \in {a, b} : Min({a, b}) <= y
  BY <1>3, Zenon DEF Min
<1> QED BY <1>2, <1>4

(* More pages, more rows. *)
LEMMA TimesGrows ==
  ASSUME NEW a \in Int, NEW b \in Int, NEW size \in Nat, a <= b
  PROVE  a * size <= b * size
OBVIOUS

(* How many pages of a size the rows fill: one at least.                    *)
PagesFor(matched, size) == Max({1, (matched + size - 1) \div size})

(* As many pages of a size as it takes for the rows, and one at least. *)
LEMMA CountPages ==
  ASSUME NEW matched \in Nat, NEW size \in Nat \ {0},
         NEW count, count = PagesFor(matched, size)
  PROVE  /\ count \in Nat \ {0}
         /\ matched <= count * size
         /\ (count - 1) * size <= matched
<1> DEFINE q == (matched + size - 1) \div size
<1>1. /\ q \in Int /\ q * size <= matched + size - 1
      /\ matched + size - 1 < (q + 1) * size
  OBVIOUS
<1>2. count = IF 1 >= q THEN 1 ELSE q
  <2> HIDE DEF q
  <2>1. count = Max({1, q})
    BY DEF q, PagesFor
  <2> QED BY <1>1, <2>1, OfTwo
<1> HIDE DEF q
<1>3. (q + 1) * size = q * size + size /\ (q - 1) * size = q * size - size
  BY <1>1
<1>4. matched <= q * size /\ (q - 1) * size <= matched
  BY <1>1, <1>3
<1>5. CASE q >= 1
  <2>1. count = q
    BY <1>1, <1>2, <1>5
  <2> QED BY <1>1, <1>4, <1>5, <2>1
<1>6. CASE q < 1
  <2>1. q * size <= 0 * size
    BY <1>1, <1>6, TimesGrows
  <2>2. count = 1 /\ matched <= 0
    BY <1>1, <1>2, <1>4, <1>6, <2>1
  <2> QED BY <2>2
<1> QED BY <1>1, <1>5, <1>6

(* The window of a page.                                                    *)
IsWindow(w, matched, page, size) ==
  /\ w.pageCount = PagesFor(matched, size)
  /\ w.page = IF page < 1 THEN 1 ELSE IF page > w.pageCount THEN w.pageCount ELSE page
  /\ w.start = (w.page - 1) * size
  /\ w.end = IF w.page * size <= matched THEN w.page * size ELSE matched

(* The window of a page: a request before the first or behind the last page *)
(* is for that.                                                             *)
LEMMA WindowIs ==
  ASSUME NEW matched \in Nat, NEW page \in Int, NEW size \in Nat \ {0},
         NEW w, w = resolvePage(matched, page, size)
  PROVE  IsWindow(w, matched, page, size)
<1> DEFINE count == PagesFor(matched, size)
           clamped == Min({Max({page, 1}), count})
<1>1. Max({1, size}) = size
  BY OfTwo
<1>2. count \in Nat \ {0}
  BY CountPages
<1>3. w = [page |-> clamped, pageCount |-> count,
           start |-> (clamped - 1) * size, end |-> Min({clamped * size, matched})]
  BY <1>1 DEF resolvePage, PagesFor
<1> HIDE DEF count
<1>4. clamped = IF page < 1 THEN 1 ELSE IF page > count THEN count ELSE page
  <2>1. Max({page, 1}) = IF page >= 1 THEN page ELSE 1
    BY OfTwo
  <2> DEFINE m == Max({page, 1})
  <2> HIDE DEF m
  <2>2. m \in Int /\ m = IF page >= 1 THEN page ELSE 1
    BY <2>1 DEF m
  <2>3. Min({m, count}) = IF m <= count THEN m ELSE count
    <3>1. m \in Int /\ count \in Int
      BY <1>2, <2>2
    <3> HIDE DEF clamped
    <3> QED BY <3>1, OfTwo
  <2>4. clamped = IF m <= count THEN m ELSE count
    BY <2>3 DEF m
  <2> HIDE DEF clamped
  <2> QED BY <1>2, <2>2, <2>4
<1>5. clamped \in 1 .. count
  BY <1>2, <1>4
<1> HIDE DEF clamped
<1>6. Min({clamped * size, matched}) = IF clamped * size <= matched THEN clamped * size ELSE matched
  <2> DEFINE last == clamped * size
  <2>1. last \in Int
    BY <1>2, <1>5
  <2> HIDE DEF last
  <2>2. Min({last, matched}) = IF last <= matched THEN last ELSE matched
    BY <2>1, OfTwo
  <2> QED BY <2>2 DEF last
<1> QED BY <1>3, <1>4, <1>6 DEF count, IsWindow

(* The parts are stretches of w that follow each other, up to the ends e.   *)
Stretches(parts, w, n, e) ==
  /\ e \in [0 .. n -> 0 .. Len(w)] /\ e[0] = 0
  /\ \A k \in 1 .. n : e[k - 1] <= e[k] /\ parts[k] = SubSeq(w, e[k - 1] + 1, e[k])

(* Stretches of a list that follow each other, put together. *)
LEMMA ConcatenatedIs ==
  ASSUME NEW S, NEW w \in Seq(S), NEW n \in Nat, NEW parts \in [1 .. n -> Seq(S)],
         NEW e, Stretches(parts, w, n, e)
  PROVE  Concatenated(parts, n) = SubSeq(w, 1, e[n])
<1> DEFINE F(f) == [k \in 0 .. n |-> IF k = 0 THEN <<>> ELSE f[k - 1] \o parts[k]]
           g == [k \in 0 .. n |-> SubSeq(w, 1, e[k])]
           upTo == CHOOSE f : f = F(f)
<1> USE DEF Stretches
<1>2. ASSUME NEW k \in 1 .. n PROVE g[k] = g[k - 1] \o parts[k]
  <2>1. k - 1 \in 0 .. n /\ k \in 0 .. n
    OBVIOUS
  <2>2. e[k - 1] \in 0 .. Len(w) /\ e[k] \in 0 .. Len(w) /\ e[k - 1] <= e[k]
    BY <2>1
  <2>3. g[k] = SubSeq(w, 1, e[k]) /\ g[k - 1] = SubSeq(w, 1, e[k - 1])
    BY <2>1
  <2>4. parts[k] = SubSeq(w, e[k - 1] + 1, e[k])
    OBVIOUS
  <2> DEFINE a == e[k - 1]
             b == e[k]
  <2> HIDE DEF g, a, b
  <2>5. SubSeq(w, 1, a) \o SubSeq(w, a + 1, b) = SubSeq(w, 1, b)
    <3>1. 1 \in 1 .. Len(w) + 1 /\ a \in 1 - 1 .. Len(w) /\ b \in a .. Len(w)
      BY <2>2 DEF a, b
    <3> QED BY <3>1, ConcatAdjacentSubSeq
  <2> QED BY <2>3, <2>4, <2>5 DEF a, b
<1>3. g[0] = <<>>
  <2>1. g[0] = SubSeq(w, 1, 0)
    OBVIOUS
  <2> QED BY <2>1
<1>4. g = F(g)
  <2> HIDE DEF g
  <2>1. ASSUME NEW k \in 0 .. n
        PROVE  g[k] = IF k = 0 THEN <<>> ELSE g[k - 1] \o parts[k]
    <3>1. k # 0 => k \in 1 .. n
      OBVIOUS
    <3> QED BY <1>2, <1>3, <3>1
  <2> QED BY <2>1 DEF g
<1>5. upTo = F(upTo)
  <2>1. \E f : f = F(f)
    BY <1>4
  <2> HIDE DEF F
  <2> QED BY <2>1, Zenon
<1>6. Concatenated(parts, n) = upTo[n]
  BY DEF Concatenated
<1> HIDE DEF upTo, g
<1> DEFINE T == {k \in 0 .. n : upTo[k] # g[k]}
<1>7. T = {}
  <2> SUFFICES ASSUME T # {} PROVE FALSE
    OBVIOUS
  <2>1. PICK k \in T : \A j \in T : k <= j
    <3>1. T \in SUBSET Nat
      OBVIOUS
    <3> HIDE DEF T
    <3> QED BY <3>1, LeastNatural
  <2>2. k \in 0 .. n /\ upTo[k] # g[k]
    OBVIOUS
  <2>3. upTo[k] = IF k = 0 THEN <<>> ELSE upTo[k - 1] \o parts[k]
    BY <1>5, <2>2
  <2>4. k # 0
    BY <1>3, <2>2, <2>3
  <2>5. k - 1 \in 0 .. n /\ k - 1 \notin T
    <3>1. k - 1 \in T => k <= k - 1
      BY <2>1
    <3> QED BY <2>2, <2>4, <3>1
  <2>6. upTo[k - 1] = g[k - 1]
    BY <2>5
  <2>7. g[k] = g[k - 1] \o parts[k]
    <3>1. k \in 1 .. n
      BY <2>2, <2>4
    <3> QED BY <1>2, <3>1
  <2> QED BY <2>2, <2>3, <2>4, <2>6, <2>7
<1>8. upTo[n] = g[n]
  <2>1. n \in 0 .. n
    OBVIOUS
  <2> QED BY <1>7, <2>1
<1> QED BY <1>6, <1>8 DEF g

(* The parts are the pages of w. *)
PagesOf(parts, w, size, count) ==
  /\ count = PagesFor(Len(w), size)
  /\ \A k \in 1 .. count :
       parts[k] = SubSeq(w, (k - 1) * size + 1,
                         IF k * size <= Len(w) THEN k * size ELSE Len(w))

(* The pages of a list, put together, are the list. *)
LEMMA PagesTogether ==
  ASSUME NEW S, NEW w \in Seq(S), NEW size \in Nat \ {0}, NEW count,
         NEW parts \in [1 .. count -> Seq(S)], PagesOf(parts, w, size, count)
  PROVE  Concatenated(parts, count) = w
<1> DEFINE e == [k \in 0 .. count |-> IF k * size <= Len(w) THEN k * size ELSE Len(w)]
<1>1. /\ Len(w) \in Nat /\ count \in Nat \ {0}
      /\ Len(w) <= count * size /\ (count - 1) * size <= Len(w)
  BY CountPages DEF PagesOf
<1>2. \A k \in 0 .. count : k * size \in Nat
  BY <1>1
<1>3. e \in [0 .. count -> 0 .. Len(w)]
  BY <1>1, <1>2
<1>4. e[0] = 0
  <2>1. 0 * size = 0
    OBVIOUS
  <2> QED BY <1>1, <2>1
<1>5. ASSUME NEW k \in 1 .. count
      PROVE  e[k - 1] <= e[k] /\ parts[k] = SubSeq(w, e[k - 1] + 1, e[k])
  <2>1. k - 1 \in 0 .. count /\ k \in 0 .. count /\ k \in Int /\ count - 1 \in Int /\ k - 1 <= count - 1
    BY <1>1
  <2>2. (k - 1) * size <= (count - 1) * size /\ (k - 1) * size <= k * size
    BY <2>1, TimesGrows
  <2>3. (k - 1) * size <= Len(w)
    <3> DEFINE a == (k - 1) * size
               b == (count - 1) * size
    <3>1. a \in Int /\ b \in Int /\ Len(w) \in Int
      BY <1>1, <2>1
    <3>2. a <= b /\ b <= Len(w)
      BY <1>1, <2>2
    <3> HIDE DEF a, b
    <3>3. a <= Len(w)
      BY <3>1, <3>2
    <3> QED BY <3>3 DEF a
  <2>4. e[k - 1] = (k - 1) * size
    BY <2>1, <2>3
  <2>5. e[k] = IF k * size <= Len(w) THEN k * size ELSE Len(w)
    BY <2>1
  <2> HIDE DEF e
  <2>6. e[k - 1] <= e[k]
    BY <2>2, <2>3, <2>4, <2>5
  <2>7. parts[k] = SubSeq(w, (k - 1) * size + 1,
                          IF k * size <= Len(w) THEN k * size ELSE Len(w))
    BY DEF PagesOf
  <2> QED BY <2>4, <2>5, <2>6, <2>7
<1>6. e[count] = Len(w)
  BY <1>1, <1>2
<1> HIDE DEF e
<1>7. Concatenated(parts, count) = SubSeq(w, 1, e[count])
  <2>1. count \in Nat /\ Stretches(parts, w, count, e)
    BY <1>1, <1>3, <1>4, <1>5 DEF Stretches
  <2> QED BY <2>1, ConcatenatedIs
<1> QED BY <1>6, <1>7, SubSeqFull

-----------------------------------------------------------------------------
(* What the directory lists, and the orders it is listed in. *)
RankedCase == [id : Nat, place : PlaceCase, tier : {1, 3}, isChain : BOOLEAN]

(* What the directory is sorted by: "undefined" is the default ranking.    *)
SortKey == {"undefined", "tier", "name", "kind", "town"}

RankFirst(sort, dir) ==
  {p \in RankedCase \X RankedCase : ComesFirst(p[1], p[2], sort, dir)}

(* The fields that rows are ranked by are numbers. *)
RankedTyped(a) ==
  /\ a.tier \in Int /\ a.isChain \in BOOLEAN
  /\ a.place.name \in Int /\ a.place.kind \in Int /\ a.place.town \in Int

(* So it is of every row of the directory.                                  *)
LEMMA RankedAre == \A a \in RankedCase : RankedTyped(a)
<1> SUFFICES ASSUME NEW a \in RankedCase PROVE RankedTyped(a)
  OBVIOUS
<1>1. a.place \in PlaceCase /\ a.tier \in {1, 3} /\ a.isChain \in BOOLEAN
  BY DEF RankedCase
<1>2. \A p \in PlaceCase : p.name \in Int /\ p.kind \in Int /\ p.town \in Int
  BY DEF PlaceCase, Null
<1> QED BY <1>1, <1>2 DEF RankedTyped

(* Both rankings tell rows apart consistently.                              *)
LEMMA RanksSeparate ==
  ASSUME NEW sort \in SortKey, NEW dir
  PROVE  Separates(RankFirst(sort, dir), RankedCase)
<1>1. \A a \in RankedCase : RankedTyped(a)
  BY RankedAre
<1>2. \A a, b \in RankedCase : <<a, b>> \in RankFirst(sort, dir) <=>
        IF sort = "undefined" THEN rankCompare(a, b) ELSE ColumnCompare(a, b, sort, dir)
  BY DEF RankFirst, ComesFirst
<1>3. CASE sort = "undefined"
  <2>1. \A a, b \in RankedCase : <<a, b>> \in RankFirst(sort, dir) <=> rankCompare(a, b)
    BY <1>2, <1>3
  <2>2. ASSUME NEW a \in RankedCase, NEW b \in RankedCase, rankCompare(a, b)
        PROVE  ~ rankCompare(b, a)
    <3>1. RankedTyped(a) /\ RankedTyped(b)
      BY <1>1
    <3> QED BY <2>2, <3>1 DEF rankCompare, RankedTyped
  <2>3. ASSUME NEW a \in RankedCase, NEW b \in RankedCase, NEW c \in RankedCase,
               rankCompare(a, c)
        PROVE  rankCompare(a, b) \/ rankCompare(b, c)
    <3>1. RankedTyped(a) /\ RankedTyped(b) /\ RankedTyped(c)
      BY <1>1
    <3> QED BY <2>3, <3>1 DEF rankCompare, RankedTyped
  <2> QED BY <2>1, <2>2, <2>3 DEF Separates
<1>4. CASE sort # "undefined"
  <2>1. \A a, b \in RankedCase : <<a, b>> \in RankFirst(sort, dir) <=> ColumnCompare(a, b, sort, dir)
    BY <1>2, <1>4
  <2>2. \A a \in RankedCase : ValueOf(a, sort) \in Int /\ a.place.name \in Int
    BY <1>1, <1>4 DEF ValueOf, RankedTyped, SortKey
  <2>3. ASSUME NEW a \in RankedCase, NEW b \in RankedCase, ColumnCompare(a, b, sort, dir)
        PROVE  ~ ColumnCompare(b, a, sort, dir)
    <3>1. \A x \in {a, b} : ValueOf(x, sort) \in Int /\ x.place.name \in Int
      BY <2>2
    <3> QED BY <2>3, <3>1 DEF ColumnCompare
  <2>4. ASSUME NEW a \in RankedCase, NEW b \in RankedCase, NEW c \in RankedCase,
               ColumnCompare(a, c, sort, dir)
        PROVE  ColumnCompare(a, b, sort, dir) \/ ColumnCompare(b, c, sort, dir)
    <3>1. \A x \in {a, b, c} : ValueOf(x, sort) \in Int /\ x.place.name \in Int
      BY <2>2
    <3> QED BY <2>4, <3>1 DEF ColumnCompare
  <2> QED BY <2>1, <2>3, <2>4 DEF Separates
<1> QED BY <1>3, <1>4

(* What does not go before a row is in place behind it. *)
LEMMA BehindIsInPlace ==
  ASSUME NEW sort \in SortKey, NEW dir, NEW a \in RankedCase, NEW b \in RankedCase,
         <<b, a>> \notin RankFirst(sort, dir)
  PROVE  InPlace(a, b, sort, dir)
<1>1. RankedTyped(a) /\ RankedTyped(b)
  BY RankedAre
<1>2. CASE sort = "undefined"
  <2>1. ~ rankCompare(b, a)
    BY <1>2 DEF RankFirst, ComesFirst
  <2> QED BY <1>1, <1>2, <2>1 DEF rankCompare, InPlace, RankedTyped
<1>3. CASE sort # "undefined"
  <2>1. ~ ColumnCompare(b, a, sort, dir)
    BY <1>3 DEF RankFirst, ComesFirst
  <2>2. ValueOf(a, sort) \in Int /\ ValueOf(b, sort) \in Int
    BY <1>1, <1>3 DEF ValueOf, RankedTyped, SortKey
  <2> QED BY <1>3, <2>1, <2>2 DEF ColumnCompare, InPlace
<1> QED BY <1>2, <1>3

-----------------------------------------------------------------------------
(* A set as a sequence: everything in it once, in an order the relation R   *)
(* does not contradict.                                                     *)
Enumerates(order, D, R) ==
  /\ IsFiniteSet(D) /\ Cardinality(D) \in Nat
  /\ order \in [1 .. Cardinality(D) -> D]
  /\ \A m, n \in 1 .. Cardinality(D) : order[m] = order[n] => m = n
  /\ \A x \in D : \E n \in 1 .. Cardinality(D) : order[n] = x
  /\ \A m, n \in 1 .. Cardinality(D) : m < n => <<order[n], order[m]>> \notin R

(* Such are the sequences of a finite set.                                  *)
LEMMA SequencesEnumerate ==
  ASSUME NEW D, IsFiniteSet(D), NEW R, NEW order \in SetToSeqs(D),
         \A m, k \in DOMAIN order : m < k => <<order[k], order[m]>> \notin R
  PROVE  Enumerates(order, D, R)
<1> DEFINE n == Cardinality(D)
<1>1. n \in Nat
  BY FS_CardinalityType
<1>2. order \in [1 .. n -> D] /\ \A m, k \in 1 .. n : order[m] = order[k] => m = k
  BY DEF SetToSeqs
<1>3. \A x \in D : \E k \in 1 .. n : order[k] = x
  <2>1. order \in Injection(1 .. n, D)
    BY <1>2 DEF Injection, IsInjective
  <2>2. Cardinality(1 .. n) = n
    BY <1>1, CountTo
  <2> HIDE DEF n
  <2>3. order \in Surjection(1 .. n, D)
    BY <1>1, <2>1, <2>2, FS_Injection DEF n
  <2> QED BY <2>3 DEF Surjection
<1>4. DOMAIN order = 1 .. n
  BY <1>2
<1> HIDE DEF n
<1>5. \A m, k \in 1 .. n : m < k => <<order[k], order[m]>> \notin R
  BY <1>4
<1> QED BY <1>1, <1>2, <1>3, <1>5 DEF Enumerates, n

(* What R puts before x, and that it tells x apart from all others.         *)
Before(x, D, R) == {j \in D \ {x} : <<j, x>> \in R}
Apart(x, D, R) == \A j \in D \ {x} : <<j, x>> \in R \/ <<x, j>> \in R

(* What R tells apart from all others has its place in every such order.    *)
LEMMA PlaceOf ==
  ASSUME NEW D, NEW R, NEW order, Enumerates(order, D, R),
         NEW q \in 1 .. Cardinality(D), NEW x, x = order[q], Apart(x, D, R)
  PROVE  Cardinality(Before(x, D, R)) = q - 1
<1> USE DEF Apart
<1> DEFINE B == {j \in D \ {x} : <<j, x>> \in R}
           f == [p \in 1 .. q - 1 |-> order[p]]
<1>1. Cardinality(D) \in Nat /\ q \in Nat /\ q - 1 \in Nat
  BY DEF Enumerates
<1>2. \A p \in 1 .. q - 1 : p \in 1 .. Cardinality(D) /\ p < q
  BY <1>1
<1>3. ASSUME NEW p \in 1 .. q - 1 PROVE order[p] \in B
  <2>1. order[p] \in D /\ order[p] # x
    BY <1>2 DEF Enumerates
  <2>2. <<x, order[p]>> \notin R
    BY <1>2 DEF Enumerates
  <2> QED BY <2>1, <2>2
<1>4. ASSUME NEW j \in B PROVE \E p \in 1 .. q - 1 : order[p] = j
  <2>1. PICK p \in 1 .. Cardinality(D) : order[p] = j
    BY DEF Enumerates
  <2>2. p # q
    BY <2>1
  <2>3. ~ (q < p)
    BY <2>1 DEF Enumerates
  <2>4. p \in 1 .. q - 1
    BY <1>1, <2>2, <2>3
  <2> QED BY <2>1, <2>4
<1>5. \A p, r \in 1 .. q - 1 : order[p] = order[r] => p = r
  BY <1>2 DEF Enumerates
<1> HIDE DEF B
<1>6. f \in Injection(1 .. q - 1, B) /\ f \in Surjection(1 .. q - 1, B)
  <2>1. f \in [1 .. q - 1 -> B]
    BY <1>3
  <2>2. \A p \in 1 .. q - 1 : f[p] = order[p]
    OBVIOUS
  <2> HIDE DEF f
  <2>3. f \in Injection(1 .. q - 1, B)
    BY <1>5, <2>1, <2>2 DEF Injection, IsInjective
  <2>4. f \in Surjection(1 .. q - 1, B)
    BY <1>4, <2>1, <2>2 DEF Surjection
  <2> QED BY <2>3, <2>4
<1>7. IsFiniteSet(1 .. q - 1) /\ Cardinality(1 .. q - 1) = q - 1
  <2> DEFINE n == q - 1
  <2>1. n \in Nat
    BY <1>1
  <2> HIDE DEF n
  <2>2. IsFiniteSet(1 .. n) /\ Cardinality(1 .. n) = n
    BY <2>1, CountTo
  <2> QED BY <2>2 DEF n
<1> HIDE DEF f
<1>8. Cardinality(B) = Cardinality(1 .. q - 1)
  BY <1>6, <1>7, FS_Surjection
<1> QED BY <1>7, <1>8 DEF B, Before

(* A set with at most one more has at most one more.                        *)
LEMMA OneMore ==
  ASSUME NEW A, NEW B, IsFiniteSet(A), A \subseteq B, NEW z, B \subseteq A \cup {z}
  PROVE  Cardinality(B) - Cardinality(A) \in {0, 1}
<1>1. Cardinality(A) \in Nat
  BY FS_CardinalityType
<1>2. CASE z \in A
  <2>1. A = B
    BY <1>2
  <2> QED BY <1>1, <2>1
<1>3. CASE z \notin A
  <2>1. Cardinality(A \cup {z}) = Cardinality(A) + 1
    BY <1>3, FS_AddElement
  <2>2. CASE B = A
    BY <1>1, <2>2
  <2>3. CASE B = A \cup {z}
    <3>1. Cardinality(B) = Cardinality(A) + 1
      BY <2>1, <2>3
    <3> QED BY <1>1, <3>1
  <2> QED BY <2>2, <2>3
<1> QED BY <1>2, <1>3

(* What R tells apart from all others goes one place further at most for    *)
(* the one that came.                                                       *)
LEMMA PlacesMove ==
  ASSUME NEW A, NEW B, A \subseteq B, NEW z, B \subseteq A \cup {z}, NEW R,
         NEW first, Enumerates(first, A, R), NEW second, Enumerates(second, B, R),
         NEW p \in 1 .. Cardinality(A), NEW q \in 1 .. Cardinality(B), NEW x,
         x = first[p], x = second[q], Apart(x, B, R)
  PROVE  q - p \in {0, 1}
<1>1. Cardinality(Before(x, A, R)) = p - 1
  <2>1. Apart(x, A, R)
    BY DEF Apart
  <2>2. Enumerates(first, A, R) /\ p \in 1 .. Cardinality(A) /\ x = first[p]
    OBVIOUS
  <2> QED BY ONLY <2>1, <2>2, PlaceOf
<1>2. Cardinality(Before(x, B, R)) = q - 1
  BY PlaceOf
<1>3. /\ Before(x, A, R) \subseteq Before(x, B, R)
      /\ Before(x, B, R) \subseteq Before(x, A, R) \cup {z}
  BY DEF Before
<1>4. IsFiniteSet(Before(x, A, R))
  <2>1. IsFiniteSet(A) /\ Before(x, A, R) \subseteq A
    BY DEF Enumerates, Before
  <2> QED BY <2>1, FS_Subset
<1>5. Cardinality(Before(x, B, R)) - Cardinality(Before(x, A, R)) \in {0, 1}
  BY <1>3, <1>4, OneMore
<1>6. p \in Int /\ q \in Int
  BY DEF Enumerates
<1> QED BY <1>1, <1>2, <1>5, <1>6

(* The rows of a page of a size.                                            *)
OnPage(q, page, size) == (page - 1) * size < q /\ q <= page * size

(* The next place is on the same page or on the next.                       *)
LEMMA PagesMove ==
  ASSUME NEW size \in Nat \ {0}, NEW p \in Int, NEW q \in Int, q - p \in {0, 1},
         NEW m \in Int, NEW k \in Int, OnPage(p, m, size), OnPage(q, k, size)
  PROVE  k - m \in {0, 1}
<1>1. ~ (k < m)
  <2> SUFFICES ASSUME k < m PROVE FALSE
    OBVIOUS
  <2>1. k <= m - 1 /\ m - 1 \in Int
    OBVIOUS
  <2>2. k * size <= (m - 1) * size
    BY <2>1, TimesGrows
  <2> DEFINE a == k * size
             b == (m - 1) * size
  <2>3. a \in Int /\ b \in Int
    OBVIOUS
  <2>4. a <= b /\ b < p /\ q <= a
    BY <2>2 DEF OnPage
  <2> HIDE DEF a, b
  <2> QED BY <2>3, <2>4
<1>2. ~ (k > m + 1)
  <2> SUFFICES ASSUME k > m + 1 PROVE FALSE
    OBVIOUS
  <2>1. m + 1 <= k - 1 /\ m + 1 \in Int /\ k - 1 \in Int
    OBVIOUS
  <2>2. (m + 1) * size <= (k - 1) * size
    BY <2>1, TimesGrows
  <2>3. (m + 1) * size = m * size + size
    OBVIOUS
  <2> DEFINE a == m * size
             b == (k - 1) * size
  <2>4. a \in Int /\ b \in Int
    OBVIOUS
  <2>5. a + size <= b /\ b < q /\ p <= a
    BY <2>2, <2>3 DEF OnPage
  <2> HIDE DEF a, b
  <2> QED BY <2>4, <2>5
<1> QED BY <1>1, <1>2

(* A table is a stretch of the rows from the first.                         *)
IsTable(T) ==
  /\ Len(T) \in 0 .. Len(input.rows) /\ DOMAIN T = 1 .. Len(T)
  /\ \A i \in 1 .. Len(T) : T[i] = input.rows[i]

(* All of them, or all but the last.                                        *)
LEMMA TablesAre ==
  ASSUME NEW S, input.rows \in Seq(S), NEW T \in Tables
  PROVE  /\ T \in Seq(S) /\ IsTable(T)
         /\ T = input.rows \/ Len(T) = Len(input.rows) - 1
<1> DEFINE r == input.rows
           n == Len(r)
<1>1. n \in Nat /\ DOMAIN r = 1 .. n
  OBVIOUS
<1>2. CASE T = r
  BY <1>1, <1>2 DEF IsTable
<1>3. CASE T = Front(r) /\ n = 0
  <2>1. T = <<>> /\ r = <<>>
    BY <1>3 DEF Front
  <2> QED BY <1>2, <2>1
<1>4. CASE T = Front(r) /\ n # 0
  <2>1. T = SubSeq(r, 1, n - 1)
    BY <1>4 DEF Front
  <2> HIDE DEF n
  <2>2. n - 1 \in 0 .. Len(r)
    BY <1>1, <1>4 DEF n
  <2>3. T \in Seq(S) /\ Len(T) = n - 1 /\ \A i \in 1 .. n - 1 : T[i] = r[i]
    <3> HIDE DEF r
    <3> QED BY <2>1, <2>2 DEF r
  <2> QED BY <1>1, <2>2, <2>3 DEF IsTable, n
<1> QED BY <1>2, <1>3, <1>4 DEF Tables

(* Where an answer on the table T shows a row of V.                         *)
Located(a, T, V, R, size) ==
  \E order, q :
    /\ Enumerates(order, V \cap (1 .. Len(T)), R)
    /\ q \in 1 .. Cardinality(V \cap (1 .. Len(T)))
    /\ a.id = order[q] /\ a.page \in Int /\ OnPage(q, a.page, size)

(* With one row more a row that has no tie is found on its page or the next.*)
LEMMA ShownLater ==
  ASSUME NEW S, input.rows \in Seq(S), NEW R, NEW V, NEW size \in Nat \ {0},
         NEW T, IsTable(T), NEW U, IsTable(U), NEW z,
         V \cap (1 .. Len(T)) \subseteq V \cap (1 .. Len(U)),
         V \cap (1 .. Len(U)) \subseteq (V \cap (1 .. Len(T))) \cup {z},
         NEW a, Located(a, T, V, R, size), NEW b, Located(b, U, V, R, size),
         a.id = b.id, Apart(a.id, V, R)
  PROVE  b.page - a.page \in {0, 1} /\ a.page \in Int /\ b.page \in Int
<1> DEFINE A == V \cap (1 .. Len(T))
           B == V \cap (1 .. Len(U))
<1>1. PICK first, p : /\ Enumerates(first, A, R) /\ p \in 1 .. Cardinality(A)
                      /\ a.id = first[p] /\ a.page \in Int /\ OnPage(p, a.page, size)
  BY DEF Located
<1>2. PICK second, q : /\ Enumerates(second, B, R) /\ q \in 1 .. Cardinality(B)
                       /\ b.id = second[q] /\ b.page \in Int /\ OnPage(q, b.page, size)
  BY DEF Located
<1>3. Apart(a.id, B, R)
  BY DEF Apart
<1> HIDE DEF A, B
<1>4. q - p \in {0, 1}
  <2>1. A \subseteq B /\ B \subseteq A \cup {z}
    BY DEF A, B
  <2> DEFINE x == a.id
  <2>2. x = first[p] /\ x = second[q] /\ Apart(x, B, R)
    BY <1>1, <1>2, <1>3
  <2>3. Enumerates(first, A, R) /\ Enumerates(second, B, R)
    BY <1>1, <1>2
  <2>4. p \in 1 .. Cardinality(A) /\ q \in 1 .. Cardinality(B)
    BY <1>1, <1>2
  <2> HIDE DEF x
  <2> QED BY <2>1, <2>2, <2>3, <2>4, PlacesMove
<1>5. p \in Int /\ q \in Int
  BY <1>1, <1>2 DEF Enumerates
<1> QED BY <1>1, <1>2, <1>4, <1>5, PagesMove

(* Between two answers rows move with the table, and with their ties.       *)
LEMMA RowsMove ==
  ASSUME NEW S, input.rows \in Seq(S), NEW R, NEW V, NEW size \in Nat \ {0},
         NEW tied, NEW seen,
         \A T \in Tables : \A a \in seen[T] : Located(a, T, V, R, size),
         \A i \in V \ tied : \A j \in V \ {i} : <<j, i>> \in R \/ <<i, j>> \in R
  PROVE  PagesMoveWithTheTable(seen, tied)
<1> SUFFICES ASSUME NEW T \in Tables, NEW U \in Tables, NEW a \in seen[T], NEW b \in seen[U],
                    a.id = b.id, a.id \notin tied
             PROVE  b.page - a.page \in {0, Len(U) - Len(T)}
  BY DEF PagesMoveWithTheTable
<1> DEFINE n == Len(input.rows)
<1>1. /\ IsTable(T) /\ (T = input.rows \/ Len(T) = n - 1)
      /\ IsTable(U) /\ (U = input.rows \/ Len(U) = n - 1)
  BY TablesAre
<1>2. Located(a, T, V, R, size) /\ Located(b, U, V, R, size)
  OBVIOUS
<1>3. a.id \in V
  <2>1. PICK order, q : /\ Enumerates(order, V \cap (1 .. Len(T)), R)
                        /\ q \in 1 .. Cardinality(V \cap (1 .. Len(T)))
                        /\ a.id = order[q]
    BY <1>2 DEF Located
  <2>2. order[q] \in V \cap (1 .. Len(T))
    BY <2>1 DEF Enumerates
  <2> QED BY <2>1, <2>2
<1>4. Apart(a.id, V, R)
  BY <1>3 DEF Apart
<1>5. n \in Nat /\ Len(T) \in {n, n - 1} /\ Len(U) \in {n, n - 1}
  BY <1>1
<1> HIDE DEF n
<1>6. CASE Len(T) = Len(U)
  <2>1. b.page - a.page \in {0, 1} /\ a.page \in Int /\ b.page \in Int
    BY <1>1, <1>2, <1>4, <1>6, ShownLater
  <2>2. a.page - b.page \in {0, 1}
    BY <1>1, <1>2, <1>4, <1>6, ShownLater
  <2> QED BY <2>1, <2>2
<1>7. CASE Len(T) = n - 1 /\ Len(U) = n
  <2>1. /\ V \cap (1 .. Len(T)) \subseteq V \cap (1 .. Len(U))
        /\ V \cap (1 .. Len(U)) \subseteq (V \cap (1 .. Len(T))) \cup {n}
    BY <1>5, <1>7
  <2>2. b.page - a.page \in {0, 1}
    BY <1>1, <1>2, <1>4, <2>1, ShownLater
  <2>3. Len(U) - Len(T) = 1
    BY <1>5, <1>7
  <2> QED BY <2>2, <2>3
<1>8. CASE Len(T) = n /\ Len(U) = n - 1
  <2>1. /\ V \cap (1 .. Len(U)) \subseteq V \cap (1 .. Len(T))
        /\ V \cap (1 .. Len(T)) \subseteq (V \cap (1 .. Len(U))) \cup {n}
    BY <1>5, <1>8
  <2>2. a.page - b.page \in {0, 1} /\ a.page \in Int /\ b.page \in Int
    BY <1>1, <1>2, <1>4, <2>1, ShownLater
  <2>3. Len(U) - Len(T) = -1
    BY <1>5, <1>8
  <2> QED BY <2>2, <2>3
<1> QED BY <1>5, <1>6, <1>7, <1>8

-----------------------------------------------------------------------------
(* What the query of the directory compares: town, then name.               *)
TownFirst ==
  {p \in (DOMAIN input.rows) \X (DOMAIN input.rows) :
     TownThenName(input.rows[p[1]], input.rows[p[2]])}

(* listed is the beginning of order, a way to put the rows of T in a row.   *)
Lists(listed, order, T, limit) ==
  /\ Enumerates(order, 1 .. Len(T), TownFirst)
  /\ Cardinality(1 .. Len(T)) = Len(T)
  /\ listed \in Seq(1 .. Len(T)) /\ Len(listed) = Min({limit, Len(T)})
  /\ Len(listed) \in 0 .. Len(T) /\ DOMAIN listed = 1 .. Len(listed)
  /\ \A n \in 1 .. Len(listed) : listed[n] = order[n]

(* A sequence over a set is one over a larger set.                          *)
LEMMA WiderSequence ==
  ASSUME NEW A, NEW B, A \subseteq B, NEW s \in Seq(A)
  PROVE  s \in Seq(B)
<1>1. Len(s) \in Nat /\ s \in [1 .. Len(s) -> A]
  OBVIOUS
<1>2. s \in [1 .. Len(s) -> B]
  BY <1>1
<1> QED BY <1>1, <1>2, FunctionIsSequence

(* Whatever listPlaces returns is such a beginning.                         *)
LEMMA ListedIs ==
  ASSUME NEW T, IsTable(T), Len(input.rows) \in Nat, DOMAIN input.rows = 1 .. Len(input.rows),
         NEW limit \in Nat, NEW listed \in listPlaces(T, limit)
  PROVE  \E order : Lists(listed, order, T, limit)
<1> DEFINE D == 1 .. Len(T)
           l == Min({limit, Len(T)})
<1>1. D = DOMAIN T /\ Len(T) \in Nat /\ D \subseteq DOMAIN input.rows
      /\ \A i \in D : T[i] = input.rows[i]
  BY DEF IsTable
<1>2. IsFiniteSet(D) /\ Cardinality(D) = Len(T)
  BY <1>1, CountTo
<1>3. PICK order \in SetToSeqs(DOMAIN T) :
        /\ listed = SubSeq(order, 1, Min({limit, Len(order)}))
        /\ \A m, n \in DOMAIN order : m < n => ~ TownThenName(T[order[n]], T[order[m]])
  BY DEF listPlaces, QueryOrders
<1>4. order \in [1 .. Len(T) -> D]
  BY <1>1, <1>2, <1>3 DEF SetToSeqs
<1>5. ASSUME NEW m \in DOMAIN order, NEW k \in DOMAIN order, m < k
      PROVE  <<order[k], order[m]>> \notin TownFirst
  <2>1. order[m] \in D /\ order[k] \in D
    BY <1>4
  <2>2. T[order[m]] = input.rows[order[m]] /\ T[order[k]] = input.rows[order[k]]
    BY <1>1, <2>1
  <2> HIDE DEF D
  <2>3. ~ TownThenName(T[order[k]], T[order[m]])
    BY <1>3, <1>5
  <2> QED BY <2>2, <2>3 DEF TownFirst
<1> HIDE DEF D
<1>6. Enumerates(order, D, TownFirst)
  <2>1. order \in SetToSeqs(D)
    BY <1>1, <1>3
  <2> QED BY <1>2, <1>5, <2>1, SequencesEnumerate
<1>7. order \in Seq(D) /\ Len(order) = Len(T)
  BY <1>1, <1>4, FunctionIsSequence
<1>8. listed = SubSeq(order, 1, l)
  BY <1>3, <1>7
<1>9. l \in 0 .. Len(T)
  <2>1. l = IF limit <= Len(T) THEN limit ELSE Len(T)
    <3>1. limit \in Int /\ Len(T) \in Int
      BY <1>1
    <3> QED BY <3>1, OfTwo
  <2> HIDE DEF l
  <2> QED BY <1>1, <2>1
<1> HIDE DEF l
<1>10. /\ listed \in Seq(D) /\ Len(listed) = l /\ DOMAIN listed = 1 .. l
       /\ \A n \in 1 .. l : listed[n] = order[n]
  BY <1>7, <1>8, <1>9
<1> QED BY <1>2, <1>6, <1>9, <1>10 DEF Lists, D, l

(* A row with its tier. *)
LEMMA AnnotatedIs ==
  ASSUME NEW id \in Nat, NEW place \in PlaceCase
  PROVE  /\ Annotated(id, place, Config) \in RankedCase
         /\ Annotated(id, place, Config).place = place
         /\ Annotated(id, place, Config).id = id
<1>1. place.kind \in {Null, 1} /\ place.brand \in BOOLEAN
  BY DEF PlaceCase
<1>2. Config.tierOf[place.kind] \in {1, 3}
  BY <1>1 DEF Config
<1> QED BY <1>1, <1>2 DEF Annotated, RankedCase

RowOf(i) == Annotated(i, input.rows[i], Config)

(* The directory before it is cut into pages.                               *)
AnnotatedOf(listed) ==
  [n \in DOMAIN listed |-> Annotated(listed[n], input.rows[listed[n]], Config)]
RankedOf(listed, order) == sortRankedPlaces(AnnotatedOf(listed), order[1], order[2])

(* The listed rows with their tiers.                                        *)
LEMMA AnnotatedAre ==
  ASSUME input.rows \in Seq(PlaceCase), NEW listed \in Seq(DOMAIN input.rows)
  PROVE  /\ AnnotatedOf(listed) \in Seq(RankedCase)
         /\ Len(AnnotatedOf(listed)) = Len(listed) /\ Len(listed) \in Nat
         /\ DOMAIN AnnotatedOf(listed) = 1 .. Len(listed)
         /\ \A n \in 1 .. Len(listed) :
              /\ AnnotatedOf(listed)[n] = RowOf(listed[n])
              /\ AnnotatedOf(listed)[n] \in RankedCase
              /\ AnnotatedOf(listed)[n].id = listed[n]
              /\ AnnotatedOf(listed)[n].place = input.rows[listed[n]]
<1> DEFINE s == AnnotatedOf(listed)
<1>1. /\ DOMAIN listed = 1 .. Len(listed) /\ Len(listed) \in Nat
      /\ \A n \in 1 .. Len(listed) :
           listed[n] \in Nat /\ input.rows[listed[n]] \in PlaceCase
  <2>1. DOMAIN input.rows \subseteq Nat /\ \A i \in DOMAIN input.rows : input.rows[i] \in PlaceCase
    OBVIOUS
  <2>2. DOMAIN listed = 1 .. Len(listed) /\ Len(listed) \in Nat
        /\ \A n \in 1 .. Len(listed) : listed[n] \in DOMAIN input.rows
    OBVIOUS
  <2> QED BY <2>1, <2>2
<1>2. s = [n \in 1 .. Len(listed) |-> RowOf(listed[n])]
  BY <1>1 DEF AnnotatedOf, RowOf
<1>3. ASSUME NEW n \in 1 .. Len(listed)
      PROVE  /\ RowOf(listed[n]) \in RankedCase /\ RowOf(listed[n]).id = listed[n]
             /\ RowOf(listed[n]).place = input.rows[listed[n]]
  <2>1. listed[n] \in Nat /\ input.rows[listed[n]] \in PlaceCase
    BY <1>1
  <2> QED BY <2>1, AnnotatedIs DEF RowOf
<1>4. s \in [1 .. Len(listed) -> RankedCase] /\ \A n \in 1 .. Len(listed) : s[n] = RowOf(listed[n])
  BY <1>2, <1>3
<1> HIDE DEF s
<1>5. s \in Seq(RankedCase) /\ Len(s) = Len(listed)
  BY <1>1, <1>4, FunctionIsSequence
<1>6. DOMAIN s = 1 .. Len(listed)
  BY <1>4
<1>7. \A n \in 1 .. Len(listed) :
        s[n] \in RankedCase /\ s[n].id = listed[n] /\ s[n].place = input.rows[listed[n]]
  BY <1>3, <1>4
<1> QED BY <1>1, <1>4, <1>5, <1>6, <1>7 DEF s

(* w shows the listed rows by rank: from tells where each was listed.       *)
Shows(from, w, listed, order) ==
  /\ w \in Seq(RankedCase) /\ Len(w) = Len(listed)
  /\ DOMAIN w = 1 .. Len(listed) /\ Len(listed) \in Nat
  /\ from \in [1 .. Len(listed) -> 1 .. Len(listed)]
  /\ \A m, n \in 1 .. Len(listed) : from[m] = from[n] => m = n
  /\ \A j \in 1 .. Len(listed) : \E n \in 1 .. Len(listed) : from[n] = j
  /\ \A n \in 1 .. Len(listed) :
       /\ w[n] \in RankedCase /\ w[n] = RowOf(w[n].id)
       /\ w[n].id = listed[from[n]] /\ w[n].place = input.rows[w[n].id]
  /\ \A m, n \in 1 .. Len(listed) :
       m < n => /\ <<w[n], w[m]>> \notin RankFirst(order[1], order[2])
                /\ <<w[m], w[n]>> \in RankFirst(order[1], order[2]) \/ from[m] < from[n]

(* Ranking the listed rows shows them. *)
LEMMA RankedIs ==
  ASSUME input.rows \in Seq(PlaceCase), NEW listed \in Seq(DOMAIN input.rows),
         NEW order, order[1] \in SortKey
  PROVE  \E from : Shows(from, RankedOf(listed, order), listed, order)
<1> DEFINE s == AnnotatedOf(listed)
           R == RankFirst(order[1], order[2])
           w == RankedOf(listed, order)
<1>1. /\ s \in Seq(RankedCase) /\ Len(s) = Len(listed) /\ Len(listed) \in Nat
      /\ DOMAIN s = 1 .. Len(listed)
      /\ \A n \in 1 .. Len(listed) :
           /\ s[n] = RowOf(listed[n]) /\ s[n] \in RankedCase
           /\ s[n].id = listed[n] /\ s[n].place = input.rows[listed[n]]
  BY AnnotatedAre
<1> HIDE DEF s
<1>2. w = Arranged(s, TieBroken(s, R))
  <2>1. {p \in (DOMAIN s) \X (DOMAIN s) :
           \/ ComesFirst(s[p[1]], s[p[2]], order[1], order[2])
           \/ ~ ComesFirst(s[p[2]], s[p[1]], order[1], order[2]) /\ p[1] < p[2]}
         = TieBroken(s, R)
    <3>1. \A i, j \in DOMAIN s :
            ComesFirst(s[i], s[j], order[1], order[2]) <=> <<s[i], s[j]>> \in R
      BY <1>1 DEF RankFirst
    <3> HIDE DEF R
    <3> QED BY <3>1 DEF TieBroken
  <2> QED BY <2>1 DEF RankedOf, sortRankedPlaces, StableSort, s
<1>3. Separates(R, RankedCase)
  BY RanksSeparate
<1> HIDE DEF R, w
<1>4. (\E g : SortedBy(g, s, w, R)) /\ w \in Seq(RankedCase)
  BY <1>1, <1>2, <1>3, StablySorted
<1>5. PICK g : SortedBy(g, s, w, R)
  BY <1>4
<1> DEFINE n == Len(listed)
<1>6. Len(w) = n /\ n \in Nat
  BY <1>1, <1>5 DEF SortedBy
<1>7. DOMAIN w = 1 .. n
  BY <1>4, <1>6
<1> HIDE DEF n
<1>8. /\ g \in [1 .. n -> 1 .. n]
      /\ \A i \in 1 .. n : w[i] = s[g[i]]
      /\ \A i, k \in 1 .. n : g[i] = g[k] => i = k
      /\ \A j \in 1 .. n : \E i \in 1 .. n : g[i] = j
  BY <1>1, <1>5 DEF SortedBy, n
<1>9. \A i, k \in 1 .. n :
         i < k => /\ <<w[k], w[i]>> \notin R
                  /\ (<<w[i], w[k]>> \in R \/ g[i] < g[k])
  BY <1>1, <1>5 DEF SortedBy, n
<1>10. ASSUME NEW i \in 1 .. n
       PROVE  /\ w[i] \in RankedCase /\ w[i] = RowOf(w[i].id)
              /\ w[i].id = listed[g[i]] /\ w[i].place = input.rows[w[i].id]
  <2>1. g[i] \in 1 .. Len(listed) /\ w[i] = s[g[i]]
    BY <1>8 DEF n
  <2> QED BY <1>1, <2>1
<1>11. Shows(g, w, listed, order)
  BY <1>4, <1>6, <1>7, <1>8, <1>9, <1>10 DEF Shows, n, R
<1> QED BY <1>11 DEF w

(* What a page shows of w, by its window.                                   *)
PageOf(w, window, total) ==
  [rows |-> SubSeq(w, window.start + 1, window.end),
   total |-> total, matched |-> Len(w),
   page |-> window.page, pageCount |-> window.pageCount]

(* Its fields.                                                              *)
LEMMA PageFields ==
  ASSUME NEW w, NEW window, NEW total
  PROVE  /\ PageOf(w, window, total).rows = SubSeq(w, window.start + 1, window.end)
         /\ PageOf(w, window, total).pageCount = window.pageCount
         /\ PageOf(w, window, total).page = window.page
BY DEF PageOf

(* No row is filtered away, and a page is a stretch of the ranked list.     *)
LEMMA DirectoryPageIs ==
  ASSUME input.rows \in Seq(PlaceCase), NEW listed \in Seq(DOMAIN input.rows),
         NEW limit, NEW order, NEW page, NEW pageSize,
         NEW w, w = RankedOf(listed, order),
         NEW window, window = IF pageSize > 0 THEN resolvePage(Len(w), page, pageSize)
                              ELSE [page |-> 1, pageCount |-> 1, start |-> 0, end |-> Len(w)]
  PROVE  DirectoryPage(listed, limit, order, page, pageSize)
           = PageOf(w, window, Len(AnnotatedOf(listed)))
<1> DEFINE s == AnnotatedOf(listed)
           filters == [includeTier4 |-> FALSE, includeChains |-> TRUE, maxTier |-> 4,
                       limit |-> limit, sort |-> order[1], dir |-> order[2],
                       page |-> page, pageSize |-> pageSize]
<1>1. /\ s \in Seq(RankedCase) /\ DOMAIN s = 1 .. Len(listed)
      /\ \A n \in DOMAIN s : s[n] \in RankedCase
  BY AnnotatedAre
<1>2. {n \in DOMAIN s : VisiblePlace(s[n], Config, filters)} = DOMAIN s
  <2>1. ASSUME NEW row \in RankedCase PROVE VisiblePlace(row, Config, filters)
    BY DEF VisiblePlace, RankedCase
  <2> HIDE DEF filters, s
  <2> QED BY <1>1, <2>1
<1>3. ElementsAt(s, {n \in DOMAIN s : VisiblePlace(s[n], Config, filters)}) = s
  <2> HIDE DEF s
  <2> QED BY <1>1, <1>2, ElementsAtAll
<1>4. filters.sort = order[1] /\ filters.dir = order[2]
      /\ filters.page = page /\ filters.pageSize = pageSize
  OBVIOUS
<1> DEFINE annotated == [n \in DOMAIN listed |->
                           Annotated(listed[n], input.rows[listed[n]], Config)]
           ordered == sortRankedPlaces(
                        ElementsAt(annotated, {i \in DOMAIN annotated :
                                     VisiblePlace(annotated[i], Config, filters)}),
                        filters.sort, filters.dir)
<1>5. s = annotated
  BY DEF AnnotatedOf
<1>6. w = sortRankedPlaces(s, filters.sort, filters.dir)
  BY DEF RankedOf
<1>7. DirectoryPage(listed, limit, order, page, pageSize)
        = listPlacesRanked(listed, input.rows, Config, filters)
  BY DEF DirectoryPage
<1> HIDE DEF s, filters
<1>8. listPlacesRanked(listed, input.rows, Config, filters)
        = PageOf(ordered,
                 IF filters.pageSize > 0
                 THEN resolvePage(Len(ordered), filters.page, filters.pageSize)
                 ELSE [page |-> 1, pageCount |-> 1, start |-> 0, end |-> Len(ordered)],
                 Len(annotated))
  BY DEF listPlacesRanked, PageOf
<1> HIDE DEF annotated
<1>9. ordered = w
  BY <1>3, <1>5, <1>6
<1> HIDE DEF ordered
<1>10. annotated = AnnotatedOf(listed)
  BY <1>5 DEF s
<1> QED BY <1>4, <1>7, <1>8, <1>9, <1>10

(* The ids on w, each once, and the query puts no other row before them.    *)
LEMMA IdsShown ==
  ASSUME NEW T, NEW limit, NEW listed, NEW order, Lists(listed, order, T, limit),
         NEW w, NEW from, NEW sorted, Shows(from, w, listed, sorted),
         NEW ids, ids = {row.id : row \in Range(w)}
  PROVE  /\ Cardinality(ids) = Len(w)
         /\ \A i \in ids, j \in (1 .. Len(T)) \ ids : <<j, i>> \notin TownFirst
<1> DEFINE l == Len(listed)
           g == [n \in 1 .. l |-> w[n].id]
<1>0. l \in 0 .. Len(T) /\ Len(T) \in Nat
  BY DEF Lists, Enumerates
<1>1. /\ l \in Nat /\ Len(w) = l /\ DOMAIN w = 1 .. l /\ l <= Len(T) /\ Len(T) \in Nat
      /\ from \in [1 .. l -> 1 .. l]
      /\ \A m, n \in 1 .. l : from[m] = from[n] => m = n
      /\ \A j \in 1 .. l : \E n \in 1 .. l : from[n] = j
      /\ \A n \in 1 .. l : w[n].id = listed[from[n]]
  <2>1. l \in Nat /\ l <= Len(T) /\ Len(T) \in Nat
    BY <1>0
  <2>2. Len(w) = l /\ DOMAIN w = 1 .. l /\ from \in [1 .. l -> 1 .. l]
    BY DEF Shows
  <2>3. \A m, n \in 1 .. l : from[m] = from[n] => m = n
    BY Zenon DEF Shows
  <2>4. \A j \in 1 .. l : \E n \in 1 .. l : from[n] = j
    BY Zenon DEF Shows
  <2>5. \A n \in 1 .. l : w[n].id = listed[from[n]]
    BY Zenon DEF Shows
  <2> QED BY <2>1, <2>2, <2>3, <2>4, <2>5
<1>2. /\ Cardinality(1 .. Len(T)) = Len(T)
      /\ \A n \in 1 .. l : listed[n] = order[n]
      /\ \A m, n \in 1 .. Len(T) : order[m] = order[n] => m = n
      /\ \A i \in 1 .. Len(T) : \E n \in 1 .. Len(T) : order[n] = i
      /\ \A m, n \in 1 .. Len(T) : m < n => <<order[n], order[m]>> \notin TownFirst
  <2>1. Enumerates(order, 1 .. Len(T), TownFirst)
    BY Zenon DEF Lists
  <2>2. Cardinality(1 .. Len(T)) = Len(T)
    BY <1>0, CountTo
  <2>3. \A n \in 1 .. l : listed[n] = order[n]
    BY Zenon DEF Lists
  <2>4. \A m, n \in 1 .. Len(T) : order[m] = order[n] => m = n
    BY <2>1, <2>2 DEF Enumerates
  <2>5. \A i \in 1 .. Len(T) : \E n \in 1 .. Len(T) : order[n] = i
    BY <2>1, <2>2 DEF Enumerates
  <2>6. \A m, n \in 1 .. Len(T) : m < n => <<order[n], order[m]>> \notin TownFirst
    BY <2>1, <2>2 DEF Enumerates
  <2> QED BY <2>2, <2>3, <2>4, <2>5, <2>6
<1> HIDE DEF l
<1>3. ids = {w[n].id : n \in 1 .. l}
  <2>1. DOMAIN w = 1 .. l
    BY <1>1
  <2>2. Range(w) = {w[n] : n \in 1 .. l}
    BY Zenon, <2>1 DEF Range
  <2> QED BY <2>2
<1>4. \A n \in 1 .. l : n \in 1 .. Len(T)
  BY <1>1
<1>5. \A n \in 1 .. l : w[n].id = order[from[n]] /\ from[n] \in 1 .. l /\ from[n] \in 1 .. Len(T)
  BY <1>1, <1>2, <1>4
<1>6. Cardinality(ids) = l
  <2>1. \A n \in 1 .. l : g[n] = w[n].id
    OBVIOUS
  <2>2. g \in [1 .. l -> ids]
    BY <1>3
  <2> HIDE DEF g
  <2>3. g \in Injection(1 .. l, ids)
    <3>1. ASSUME NEW m \in 1 .. l, NEW n \in 1 .. l, g[m] = g[n] PROVE m = n
      <4>1. order[from[m]] = order[from[n]]
        BY <1>5, <2>1, <3>1
      <4>2. from[m] = from[n]
        BY <1>2, <1>5, <4>1
      <4> QED BY <1>1, <4>2
    <3> QED BY <2>2, <3>1 DEF Injection, IsInjective
  <2>4. g \in Surjection(1 .. l, ids)
    <3>1. \A i \in ids : \E n \in 1 .. l : g[n] = i
      BY <1>3, <2>1
    <3> QED BY <2>2, <3>1 DEF Surjection
  <2>5. IsFiniteSet(1 .. l) /\ Cardinality(1 .. l) = l
    BY <1>1, CountTo
  <2> QED BY <2>3, <2>4, <2>5, FS_Surjection
<1>7. ASSUME NEW i \in ids, NEW j \in (1 .. Len(T)) \ ids PROVE <<j, i>> \notin TownFirst
  <2>0. PICK o \in 1 .. l : i = w[o].id
    BY <1>3
  <2>1. PICK m \in 1 .. l : i = order[m]
    BY <1>5, <2>0
  <2>2. PICK n \in 1 .. Len(T) : j = order[n]
    BY <1>2
  <2>3. n \notin 1 .. l
    <3> SUFFICES ASSUME n \in 1 .. l PROVE FALSE
      OBVIOUS
    <3>1. PICK k \in 1 .. l : from[k] = n
      BY <1>1
    <3>2. w[k].id = j
      BY <1>5, <2>2, <3>1
    <3> QED BY <1>3, <3>2
  <2>4. m < n /\ m \in 1 .. Len(T)
    <3>1. m \in Int /\ n \in Int /\ 1 <= m /\ m <= l /\ l <= Len(T) /\ 1 <= n /\ l \in Int /\ Len(T) \in Int
      BY <1>0, <2>1, <2>2
    <3> QED BY <2>3, <3>1
  <2> QED BY <1>2, <2>1, <2>2, <2>4
<1> QED BY <1>1, <1>6, <1>7

(* The page for a request.                                                  *)
PageAt(w, k, size, total) == PageOf(w, resolvePage(Len(w), k, size), total)

(* A list cut into pages, with a request before the first and one behind    *)
(* the last.                                                                *)
CutInto(page, w, count, size, total) ==
  /\ count = PageAt(w, 1, size, total).pageCount
  /\ \A k \in 0 .. count + 1 : page[k] = PageAt(w, k, size, total)

(* What is cut into pages is whole when they are put together.              *)
LEMMA CutTogether ==
  ASSUME NEW S, NEW w \in Seq(S), NEW size \in Nat \ {0}, NEW total, NEW page, NEW count,
         CutInto(page, w, count, size, total)
  PROVE  /\ Concatenated([k \in 1 .. count |-> page[k].rows], count) = w
         /\ page[0] = page[1] /\ page[count + 1] = page[count]
<1> DEFINE window(k) == resolvePage(Len(w), k, size)
           asked(k) == window(k).page
           parts == [k \in 1 .. count |-> page[k].rows]
<1>1. Len(w) \in Nat
  OBVIOUS
<1>2. /\ count = window(1).pageCount
      /\ \A k \in 0 .. count + 1 :
           page[k] = PageOf(w, window(k), total)
  BY PageFields DEF CutInto, PageAt
<1>3. ASSUME NEW k \in Int PROVE IsWindow(window(k), Len(w), k, size)
  <2>1. window(k) = resolvePage(Len(w), k, size)
    OBVIOUS
  <2> DEFINE v == window(k)
  <2> HIDE DEF window, v
  <2>2. v = resolvePage(Len(w), k, size)
    BY <2>1 DEF v
  <2>3. IsWindow(v, Len(w), k, size)
    BY <1>1, <2>2, WindowIs
  <2> QED BY <2>3 DEF v
<1> HIDE DEF window, parts
<1>4. count = PagesFor(Len(w), size) /\ count \in Nat \ {0}
  <2>1. count = PagesFor(Len(w), size)
    BY <1>2, <1>3 DEF IsWindow
  <2> QED BY <1>1, <2>1, CountPages
<1>5. \A k \in Int : window(k).pageCount = count
  BY <1>3, <1>4 DEF IsWindow
<1>6. ASSUME NEW k \in Int
      PROVE  /\ asked(k) = IF k < 1 THEN 1 ELSE IF k > count THEN count ELSE k
             /\ window(k).start = (asked(k) - 1) * size
             /\ window(k).end = IF asked(k) * size <= Len(w) THEN asked(k) * size ELSE Len(w)
  BY <1>3, <1>5 DEF IsWindow
<1> HIDE DEF asked
<1>7. ASSUME NEW j \in 0 .. count + 1, NEW k \in 0 .. count + 1, asked(j) = asked(k)
      PROVE  page[j] = page[k]
  <2>1. j \in Int /\ k \in Int
    BY <1>4
  <2>2. window(j).start = window(k).start /\ window(j).end = window(k).end
    BY <1>6, <1>7, <2>1
  <2>3. page[j] = PageOf(w, window(j), total) /\ page[k] = PageOf(w, window(k), total)
    BY <1>2
  <2>4. window(j).pageCount = window(k).pageCount /\ window(j).page = window(k).page
    BY <1>5, <1>7, <2>1 DEF asked
  <2> QED BY <2>2, <2>3, <2>4 DEF PageOf
<1>8. page[0] = page[1]
  <2>1. 0 \in 0 .. count + 1 /\ 1 \in 0 .. count + 1 /\ asked(0) = asked(1)
    BY <1>4, <1>6
  <2> QED BY <1>7, <2>1
<1>9. page[count + 1] = page[count]
  <2>1. count \in 0 .. count + 1 /\ count + 1 \in 0 .. count + 1 /\ asked(count) = asked(count + 1)
    BY <1>4, <1>6
  <2> QED BY <1>7, <2>1
<1>10. ASSUME NEW k \in 1 .. count
       PROVE  parts[k] = SubSeq(w, (k - 1) * size + 1, IF k * size <= Len(w) THEN k * size ELSE Len(w))
  <2>1. k \in Int /\ k \in 0 .. count + 1 /\ asked(k) = k
    BY <1>4, <1>6
  <2>2. window(k).start = (k - 1) * size /\ window(k).end = IF k * size <= Len(w) THEN k * size ELSE Len(w)
    BY <1>6, <2>1
  <2>3. page[k].rows = SubSeq(w, window(k).start + 1, window(k).end)
    <3>1. page[k] = PageOf(w, window(k), total)
      BY <1>2, <2>1
    <3> QED BY <3>1, PageFields
  <2> QED BY <2>2, <2>3 DEF parts
<1>11. parts \in [1 .. count -> Seq(S)]
  <2>1. ASSUME NEW k \in 1 .. count PROVE parts[k] \in Seq(S)
    <3> DEFINE a == (k - 1) * size + 1
               b == IF k * size <= Len(w) THEN k * size ELSE Len(w)
    <3>1. parts[k] = SubSeq(w, a, b)
      BY <1>10
    <3>2. k \in Nat /\ k - 1 \in Nat /\ k * size \in Nat /\ (k - 1) * size \in Nat
      BY <1>4
    <3>3. a \in Nat \ {0} /\ b \in 0 .. Len(w)
      BY <1>1, <3>2
    <3> HIDE DEF a, b
    <3> QED BY <3>1, <3>3
  <2> QED BY <2>1 DEF parts
<1>12. Concatenated(parts, count) = w
  <2>1. PagesOf(parts, w, size, count)
    BY <1>4, <1>10 DEF PagesOf
  <2> QED BY <1>11, <2>1, PagesTogether
<1> QED BY <1>8, <1>9, <1>12 DEF parts

(* Whatever the query of the directory answers, its pages of any size, by   *)
(* any column in either direction, put together are the ranked list: every  *)
(* place once and in its place, the first ones of the limit.                *)
LEMMA AnswerShown ==
  ASSUME input.rows \in Seq(PlaceCase), NEW order \in SortKey \X {"asc", "desc"},
         NEW limit \in Nat, NEW size \in Nat \ {0},
         NEW listed \in listPlaces(input.rows, limit)
  PROVE  PagesShowTheAnswer(listed, limit, order, size)
<1> DEFINE w == RankedOf(listed, order)
           total == Len(AnnotatedOf(listed))
           whole == DirectoryPage(listed, limit, order, 1, 0).rows
           ids == {row.id : row \in Range(whole)}
           count == DirectoryPage(listed, limit, order, 1, size).pageCount
           page == [k \in 0 .. count + 1 |-> DirectoryPage(listed, limit, order, k, size)]
<1>1. /\ order[1] \in SortKey /\ IsTable(input.rows)
      /\ Len(input.rows) \in Nat /\ DOMAIN input.rows = 1 .. Len(input.rows)
  BY DEF IsTable
<1>2. PICK way : Lists(listed, way, input.rows, limit)
  BY <1>1, ListedIs
<1>3. listed \in Seq(DOMAIN input.rows) /\ Len(listed) = Min({limit, Len(input.rows)})
  BY <1>1, <1>2 DEF Lists
<1> HIDE DEF w, total, whole, count, page
<1>4. PICK from : Shows(from, w, listed, order)
  BY <1>1, <1>3, RankedIs DEF w
<1>5. /\ w \in Seq(RankedCase) /\ Len(w) = Len(listed) /\ Len(w) \in Nat
      /\ DOMAIN w = 1 .. Len(w)
      /\ \A n \in 1 .. Len(w) :
           /\ w[n] \in RankedCase /\ w[n].id = listed[from[n]]
           /\ w[n].place = input.rows[w[n].id] /\ from[n] \in 1 .. Len(listed)
  BY <1>4 DEF Shows
<1>6. \A m, n \in 1 .. Len(w) : m < n => <<w[n], w[m]>> \notin RankFirst(order[1], order[2])
  BY <1>4, <1>5 DEF Shows
<1>7. whole = w
  <2> DEFINE window == [page |-> 1, pageCount |-> 1, start |-> 0, end |-> Len(w)]
  <2>1. window = IF 0 > 0 THEN resolvePage(Len(w), 1, 0)
                 ELSE [page |-> 1, pageCount |-> 1, start |-> 0, end |-> Len(w)]
    OBVIOUS
  <2>2. window.start + 1 = 1 /\ window.end = Len(w)
    OBVIOUS
  <2> HIDE DEF window
  <2>3. DirectoryPage(listed, limit, order, 1, 0) = PageOf(w, window, total)
    BY <1>3, <2>1, DirectoryPageIs DEF w, total
  <2>4. whole = SubSeq(w, window.start + 1, window.end)
    BY <2>3, PageFields DEF whole
  <2>5. whole = SubSeq(w, 1, Len(w))
    BY <2>2, <2>4
  <2> QED BY <1>5, <2>5, SubSeqFull
<1>8. ASSUME NEW k PROVE DirectoryPage(listed, limit, order, k, size) = PageAt(w, k, size, total)
  <2> DEFINE window == resolvePage(Len(w), k, size)
  <2>1. window = IF size > 0 THEN resolvePage(Len(w), k, size)
                 ELSE [page |-> 1, pageCount |-> 1, start |-> 0, end |-> Len(w)]
    OBVIOUS
  <2>2. PageAt(w, k, size, total) = PageOf(w, window, total)
    BY DEF PageAt
  <2> HIDE DEF window
  <2>3. DirectoryPage(listed, limit, order, k, size) = PageOf(w, window, total)
    BY <1>3, <2>1, DirectoryPageIs DEF w, total
  <2> QED BY <2>2, <2>3
<1>9. CutInto(page, w, count, size, total)
  BY <1>8 DEF CutInto, page, count
<1>10. /\ Concatenated([k \in 1 .. count |-> page[k].rows], count) = w
       /\ page[0] = page[1] /\ page[count + 1] = page[count]
  BY <1>5, <1>9, CutTogether
<1>11. /\ Cardinality(ids) = Len(w)
       /\ \A i \in ids, j \in (1 .. Len(input.rows)) \ ids : <<j, i>> \notin TownFirst
  BY <1>2, <1>4, <1>7, IdsShown
<1>12. ASSUME NEW row \in Range(whole)
       PROVE  row.id \in DOMAIN input.rows /\ row.place = input.rows[row.id]
  <2>1. PICK n \in 1 .. Len(w) : row = w[n]
    BY <1>5, <1>7 DEF Range
  <2>2. from[n] \in 1 .. Len(listed)
    BY <1>5, Zenon
  <2>3. listed[from[n]] \in DOMAIN input.rows
    BY <1>3, <2>2
  <2> QED BY <1>5, <2>1, <2>3
<1>13. \A i \in ids, j \in DOMAIN input.rows \ ids :
         ~ TownThenName(input.rows[j], input.rows[i])
  <2>1. ids \subseteq DOMAIN input.rows
    BY <1>12
  <2> HIDE DEF ids
  <2> QED BY <1>1, <1>11, <2>1 DEF TownFirst
<1>14. ASSUME NEW n \in 1 .. Len(w) - 1 PROVE InPlace(w[n], w[n + 1], order[1], order[2])
  <2>1. n \in 1 .. Len(w) /\ n + 1 \in 1 .. Len(w) /\ n < n + 1
    BY <1>5
  <2>2. <<w[n + 1], w[n]>> \notin RankFirst(order[1], order[2])
    BY <1>6, <2>1
  <2>3. w[n] \in RankedCase /\ w[n + 1] \in RankedCase
    BY <1>5, <2>1
  <2> QED BY <1>1, <2>2, <2>3, BehindIsInPlace
<1> HIDE DEF ids
<1> QED
  BY <1>3, <1>5, <1>7, <1>10, <1>11, <1>12, <1>13, <1>14
  DEF PagesShowTheAnswer, whole, count, page, ids

(* What the ranking compares, and town and name where it does not tell.     *)
FinalFirst(order) ==
  {p \in (DOMAIN input.rows) \X (DOMAIN input.rows) :
     \/ ComesFirst(RowOf(p[1]), RowOf(p[2]), order[1], order[2])
     \/ /\ ~ ComesFirst(RowOf(p[2]), RowOf(p[1]), order[1], order[2])
        /\ TownThenName(input.rows[p[1]], input.rows[p[2]])}

(* A stable sort of what the query has sorted keeps both orders.            *)
LEMMA RankedEnumerates ==
  ASSUME input.rows \in Seq(PlaceCase), NEW T, IsTable(T),
         NEW order \in SortKey \X {"asc", "desc"},
         NEW listed \in listPlaces(T, Len(T))
  PROVE  \E ids : /\ Enumerates(ids, 1 .. Len(T), FinalFirst(order))
                  /\ Len(RankedOf(listed, order)) = Cardinality(1 .. Len(T))
                  /\ DOMAIN RankedOf(listed, order) = 1 .. Cardinality(1 .. Len(T))
                  /\ \A n \in 1 .. Cardinality(1 .. Len(T)) :
                       ids[n] = RankedOf(listed, order)[n].id
<1> DEFINE w == RankedOf(listed, order)
           R == RankFirst(order[1], order[2])
           l == Len(T)
           ids == [n \in 1 .. l |-> w[n].id]
<1>1. /\ order[1] \in SortKey /\ l \in Nat /\ 1 .. l \subseteq DOMAIN input.rows
      /\ Len(input.rows) \in Nat /\ DOMAIN input.rows = 1 .. Len(input.rows)
  BY DEF IsTable
<1>2. PICK way : Lists(listed, way, T, l)
  BY <1>1, ListedIs
<1>3. /\ Cardinality(1 .. l) = l /\ IsFiniteSet(1 .. l)
      /\ listed \in Seq(1 .. l) /\ \A n \in 1 .. Len(listed) : listed[n] = way[n]
      /\ way \in [1 .. l -> 1 .. l]
      /\ \A m, n \in 1 .. l : way[m] = way[n] => m = n
      /\ \A i \in 1 .. l : \E n \in 1 .. l : way[n] = i
      /\ \A m, n \in 1 .. l : m < n => <<way[n], way[m]>> \notin TownFirst
  BY <1>2 DEF Lists, Enumerates
<1>4. Len(listed) = l
  <2>1. Min({l, l}) = l
    <3>1. l \in Int
      BY <1>1
    <3> HIDE DEF l
    <3> QED BY <3>1, OfTwo
  <2> QED BY <1>2, <2>1 DEF Lists
<1>5. listed \in Seq(DOMAIN input.rows)
  BY <1>1, <1>3, WiderSequence
<1> HIDE DEF w, l
<1>6. PICK from : Shows(from, w, listed, order)
  BY <1>1, <1>5, RankedIs DEF w
<1>7. /\ Len(w) = l /\ DOMAIN w = 1 .. l
      /\ from \in [1 .. l -> 1 .. l]
      /\ \A m, n \in 1 .. l : from[m] = from[n] => m = n
      /\ \A j \in 1 .. l : \E n \in 1 .. l : from[n] = j
  BY <1>4, <1>6 DEF Shows
<1>8. \A n \in 1 .. l :
        w[n] \in RankedCase /\ w[n] = RowOf(w[n].id) /\ w[n].id = listed[from[n]]
  BY <1>4, <1>6 DEF Shows
<1>9. \A m, n \in 1 .. l :
         m < n => /\ <<w[n], w[m]>> \notin R
                  /\ (<<w[m], w[n]>> \in R \/ from[m] < from[n])
  BY <1>4, <1>6 DEF Shows
<1>10. \A n \in 1 .. l : ids[n] = w[n].id
  OBVIOUS
<1> HIDE DEF ids
<1>11. ASSUME NEW n \in 1 .. l
       PROVE  ids[n] = way[from[n]] /\ ids[n] \in 1 .. l /\ from[n] \in 1 .. l
  <2>1. from[n] \in 1 .. l
    BY <1>7
  <2>2. ids[n] = listed[from[n]]
    BY <1>8, <1>10
  <2>3. listed[from[n]] = way[from[n]] /\ way[from[n]] \in 1 .. l
    BY <1>3, <1>4, <2>1
  <2> QED BY <2>1, <2>2, <2>3
<1>12. ids \in [1 .. l -> 1 .. l]
  BY <1>11 DEF ids
<1>13. ASSUME NEW m \in 1 .. l, NEW n \in 1 .. l, ids[m] = ids[n] PROVE m = n
  <2>1. way[from[m]] = way[from[n]] /\ from[m] \in 1 .. l /\ from[n] \in 1 .. l
    BY <1>11, <1>13
  <2>2. \A c, d \in 1 .. l : way[c] = way[d] => c = d
    BY <1>3
  <2>3. from[m] = from[n]
    <3> HIDE <1>3
    <3> QED BY <2>1, <2>2, Zenon
  <2> QED BY <1>7, <2>3
<1>14. ASSUME NEW i \in 1 .. l PROVE \E n \in 1 .. l : ids[n] = i
  <2>1. PICK k \in 1 .. l : way[k] = i
    BY <1>3
  <2>2. PICK n \in 1 .. l : from[n] = k
    BY <1>7
  <2> QED BY <1>11, <2>1, <2>2
<1>15. ASSUME NEW m \in 1 .. l, NEW n \in 1 .. l, m < n
       PROVE  <<ids[n], ids[m]>> \notin FinalFirst(order)
  <2>1. /\ w[m] = RowOf(ids[m]) /\ w[n] = RowOf(ids[n])
        /\ w[m] \in RankedCase /\ w[n] \in RankedCase
        /\ ids[m] \in DOMAIN input.rows /\ ids[n] \in DOMAIN input.rows
    BY <1>1, <1>8, <1>10, <1>11
  <2>2. ~ ComesFirst(RowOf(ids[n]), RowOf(ids[m]), order[1], order[2])
    BY <1>9, <1>15, <2>1 DEF R, RankFirst
  <2>3. \/ ComesFirst(RowOf(ids[m]), RowOf(ids[n]), order[1], order[2])
        \/ from[m] < from[n]
    BY <1>9, <1>15, <2>1 DEF R, RankFirst
  <2>4. ASSUME from[m] < from[n] PROVE <<ids[n], ids[m]>> \notin TownFirst
    <3>1. from[m] \in 1 .. l /\ from[n] \in 1 .. l
      BY <1>11
    <3>2. <<way[from[n]], way[from[m]]>> \notin TownFirst
      BY <1>3, <2>4, <3>1
    <3> QED BY <1>11, <3>2
  <2>5. from[m] < from[n] => ~ TownThenName(input.rows[ids[n]], input.rows[ids[m]])
    BY <2>1, <2>4 DEF TownFirst
  <2> QED BY <2>2, <2>3, <2>5 DEF FinalFirst
<1>16. Enumerates(ids, 1 .. l, FinalFirst(order))
  BY <1>1, <1>3, <1>12, <1>13, <1>14, <1>15 DEF Enumerates
<1> QED BY <1>3, <1>7, <1>10, <1>16 DEF w, l

(* What is in a stretch of a sequence is at one of its places.              *)
LEMMA InStretch ==
  ASSUME NEW S, NEW s \in Seq(S), NEW m \in Nat, NEW n \in Nat, n <= Len(s),
         NEW x \in Range(SubSeq(s, m + 1, n))
  PROVE  \E q \in DOMAIN s : s[q] = x /\ m < q /\ q <= n
<1> DEFINE t == SubSeq(s, m + 1, n)
<1>1. PICK i \in DOMAIN t : x = t[i]
  BY DEF Range
<1>2. m + 1 <= n
  <2> SUFFICES ASSUME ~ (m + 1 <= n) PROVE FALSE
    OBVIOUS
  <2>1. t = <<>>
    OBVIOUS
  <2> QED BY <1>1, <2>1
<1>3. Len(t) = n - m /\ DOMAIN t = 1 .. n - m /\ \A j \in 1 .. n - m : t[j] = s[m + j]
  <2>1. m + 1 \in 1 .. Len(s) + 1 /\ n \in (m + 1) - 1 .. Len(s)
    BY <1>2
  <2>2. /\ t \in Seq(S) /\ Len(t) = n - (m + 1) + 1
        /\ \A j \in 1 .. n - (m + 1) + 1 : t[j] = s[(m + 1) + j - 1]
    BY <2>1, SubSeqProperties
  <2> HIDE DEF t
  <2> QED BY <2>2
<1> HIDE DEF t
<1>4. m + i \in DOMAIN s /\ s[m + i] = x /\ m < m + i /\ m + i <= n
  BY <1>1, <1>3
<1> QED BY <1>4

(* A row on a page is at one of the places of the page.                     *)
LEMMA OnItsPage ==
  ASSUME NEW S, NEW w \in Seq(S), NEW k \in Int, NEW size \in Nat \ {0},
         NEW total, NEW answer, answer = PageAt(w, k, size, total),
         NEW row \in Range(answer.rows)
  PROVE  /\ answer.page \in Int
         /\ \E q \in DOMAIN w : w[q] = row /\ OnPage(q, answer.page, size)
<1> DEFINE v == resolvePage(Len(w), k, size)
<1>1. Len(w) \in Nat /\ DOMAIN w = 1 .. Len(w)
  OBVIOUS
<1>2. /\ answer.page = v.page /\ answer.rows = SubSeq(w, v.start + 1, v.end)
  BY PageFields DEF PageAt
<1> HIDE DEF v
<1>3. IsWindow(v, Len(w), k, size)
  BY <1>1, WindowIs DEF v
<1>4. v.pageCount \in Nat \ {0}
  <2>1. v.pageCount = PagesFor(Len(w), size)
    BY <1>3 DEF IsWindow
  <2> QED BY <1>1, <2>1, CountPages
<1>5. v.page \in Nat \ {0}
  BY <1>3, <1>4 DEF IsWindow
<1> DEFINE a == v.start
           b == v.end
<1>6. a = (v.page - 1) * size /\ b <= v.page * size /\ b <= Len(w) /\ b \in Nat /\ a \in Nat
  <2>1. v.page * size \in Nat /\ (v.page - 1) * size \in Nat
    BY <1>5
  <2>2. v.start = (v.page - 1) * size
    BY <1>3 DEF IsWindow
  <2>3. v.end = IF v.page * size <= Len(w) THEN v.page * size ELSE Len(w)
    BY <1>3 DEF IsWindow
  <2> QED BY <1>1, <2>1, <2>2, <2>3
<1> HIDE DEF a, b
<1>7. PICK q \in a + 1 .. b : w[q] = row
  <2>1. row \in Range(SubSeq(w, a + 1, b))
    BY <1>2 DEF a, b
  <2>2. PICK q \in DOMAIN w : w[q] = row /\ a < q /\ q <= b
    BY <1>6, <2>1, InStretch
  <2> QED BY <1>1, <1>6, <2>2
<1>8. q \in DOMAIN w
  BY <1>1, <1>6, <1>7
<1>9. OnPage(q, answer.page, size)
  <2> DEFINE c == (v.page - 1) * size
             d == v.page * size
  <2>1. c < q /\ q <= d
    <3>1. d \in Int /\ a = c /\ b <= d
      BY <1>5, <1>6
    <3> HIDE DEF c, d
    <3> QED BY <1>6, <1>7, <3>1
  <2> QED BY <1>2, <2>1 DEF OnPage
<1> QED BY <1>2, <1>5, <1>7, <1>8, <1>9

(* The places a row of the directory may be shown at.                       *)
LEMMA DirectoryLocated ==
  ASSUME input.rows \in Seq(PlaceCase), NEW T \in Tables,
         NEW order \in SortKey \X {"asc", "desc"}, NEW size \in Nat \ {0},
         NEW a \in DirectorySeen(T, order, size)
  PROVE  Located(a, T, DOMAIN input.rows, FinalFirst(order), size)
<1>1. /\ IsTable(T) /\ Len(T) \in Nat /\ 1 .. Len(T) \subseteq DOMAIN input.rows
      /\ DOMAIN input.rows \cap (1 .. Len(T)) = 1 .. Len(T)
      /\ Len(input.rows) \in Nat /\ DOMAIN input.rows = 1 .. Len(input.rows)
  <2>1. IsTable(T)
    BY TablesAre
  <2> QED BY <2>1 DEF IsTable
<1>2. PICK listed \in listPlaces(T, Len(T)), k \in 1 .. Len(T) + 1 :
        \E row \in Range(DirectoryPage(listed, Len(T), order, k, size).rows) :
          a = [id |-> row.id, page |-> DirectoryPage(listed, Len(T), order, k, size).page]
  BY DEF DirectorySeen
<1> DEFINE w == RankedOf(listed, order)
           answer == DirectoryPage(listed, Len(T), order, k, size)
           total == Len(AnnotatedOf(listed))
<1>3. listed \in Seq(DOMAIN input.rows)
  <2>1. PICK way : Lists(listed, way, T, Len(T))
    BY <1>1, ListedIs
  <2>2. listed \in Seq(1 .. Len(T))
    BY <2>1 DEF Lists
  <2> QED BY <1>1, <2>2, WiderSequence
<1>4. answer = PageAt(w, k, size, total)
  <2> DEFINE window == resolvePage(Len(w), k, size)
  <2>1. window = IF size > 0 THEN resolvePage(Len(w), k, size)
                 ELSE [page |-> 1, pageCount |-> 1, start |-> 0, end |-> Len(w)]
    OBVIOUS
  <2> HIDE DEF window, w, total
  <2>2. answer = PageOf(w, window, total)
    BY <1>3, <2>1, DirectoryPageIs DEF w, total
  <2> QED BY <2>2 DEF PageAt, window
<1>5. w \in Seq(RankedCase)
  <2>1. order[1] \in SortKey
    OBVIOUS
  <2> QED BY <1>3, <2>1, RankedIs DEF Shows
<1>6. PICK ids : /\ Enumerates(ids, 1 .. Len(T), FinalFirst(order))
                 /\ DOMAIN w = 1 .. Cardinality(1 .. Len(T))
                 /\ \A n \in 1 .. Cardinality(1 .. Len(T)) : ids[n] = w[n].id
  BY <1>1, RankedEnumerates
<1> HIDE DEF w, answer, total
<1>7. PICK row \in Range(answer.rows) : a = [id |-> row.id, page |-> answer.page]
  BY <1>2 DEF answer
<1>8. k \in Int
  BY <1>1
<1>9. answer.page \in Int /\ \E q \in DOMAIN w : w[q] = row /\ OnPage(q, answer.page, size)
  BY <1>4, <1>5, <1>8, OnItsPage
<1>10. PICK q \in DOMAIN w : w[q] = row /\ OnPage(q, answer.page, size)
  BY <1>9
<1>11. a.id = ids[q] /\ a.page = answer.page /\ q \in 1 .. Cardinality(1 .. Len(T))
  BY <1>6, <1>7, <1>10
<1> QED BY <1>1, <1>6, <1>9, <1>10, <1>11 DEF Located

(* The pages of the directory, of any size, by any column in either         *)
(* direction: whatever one query answers under any limit is shown once and  *)
(* in its place, and between queries that cut nothing a row without a tie   *)
(* moves only with the table.                                               *)
THEOREM PagesOfAnySize ==
  ASSUME input.rows \in Seq(PlaceCase), NEW order \in SortKey \X {"asc", "desc"},
         NEW limit \in Nat, NEW size \in Nat \ {0}
  PROVE  /\ \A listed \in listPlaces(input.rows, limit) :
              PagesShowTheAnswer(listed, limit, order, size)
         /\ PagesMoveWithTheTable(
              [table \in Tables |-> DirectorySeen(table, order, size)],
              TiedPlaces(order))
<1>1. \A listed \in listPlaces(input.rows, limit) :
        PagesShowTheAnswer(listed, limit, order, size)
  BY AnswerShown
<1> DEFINE seen == [table \in Tables |-> DirectorySeen(table, order, size)]
           V == DOMAIN input.rows
           R == FinalFirst(order)
<1>2. \A T \in Tables : \A a \in seen[T] : Located(a, T, V, R, size)
  BY DirectoryLocated
<1>3. ASSUME NEW i \in V \ TiedPlaces(order), NEW j \in V \ {i}
      PROVE  <<j, i>> \in R \/ <<i, j>> \in R
  <2>1. \/ ComesFirst(RowOf(i), RowOf(j), order[1], order[2])
        \/ ComesFirst(RowOf(j), RowOf(i), order[1], order[2])
        \/ TownThenName(input.rows[i], input.rows[j])
        \/ TownThenName(input.rows[j], input.rows[i])
    BY <1>3 DEF TiedPlaces, RowOf
  <2> QED BY <2>1 DEF FinalFirst
<1> HIDE DEF seen, V, R
<1>4. PagesMoveWithTheTable(seen, TiedPlaces(order))
  BY <1>2, <1>3, RowsMove
<1> QED BY <1>1, <1>4 DEF seen

(* The directory's pages of two rows, under its limits. *)
LEMMA DirectoryShown ==
  input.rows \in Seq(PlaceCase) => DirectoryPagesShowTheList
<1> SUFFICES ASSUME input.rows \in Seq(PlaceCase), NEW order \in Sorts
             PROVE
    /\ \A limit \in {2, 500} : \A listed \in listPlaces(input.rows, limit) :
         PagesShowTheAnswer(listed, limit, order, 2)
    /\ PagesMoveWithTheTable(
         [table \in Tables |-> DirectorySeen(table, order, 2)], TiedPlaces(order))
  BY DEF DirectoryPagesShowTheList
<1>1. \A limit \in {2, 500} : limit \in Nat
  OBVIOUS
<1>2. order \in SortKey \X {"asc", "desc"} /\ 2 \in Nat \ {0}
  BY DEF Sorts, SortKey
<1> QED BY <1>1, <1>2, PagesOfAnySize

-----------------------------------------------------------------------------
ShownFinds == {i \in DOMAIN input.rows : input.rows[i].status = "new"}

FeedFirst(sort) ==
  {p \in (DOMAIN input.rows) \X (DOMAIN input.rows) :
     feedOrderSql(input.rows[p[1]], input.rows[p[2]], sort)}

(* The feed has the finds that are new, in an order its query allows.       *)
LEMMA FeedEnumerates ==
  ASSUME input.rows \in Seq(FindCase), NEW T, IsTable(T), NEW sort,
         NEW found \in FeedQuery(T, sort)
  PROVE  Enumerates(found, ShownFinds \cap (1 .. Len(T)), FeedFirst(sort))
<1> DEFINE D == ShownFinds \cap (1 .. Len(T))
<1>1. /\ DOMAIN input.rows = 1 .. Len(input.rows) /\ Len(input.rows) \in Nat
      /\ \A i \in DOMAIN input.rows : input.rows[i] \in FindCase
      /\ DOMAIN T = 1 .. Len(T) /\ Len(T) \in 0 .. Len(input.rows)
      /\ \A i \in 1 .. Len(T) : T[i] = input.rows[i] /\ i \in DOMAIN input.rows
  BY DEF IsTable
<1>2. {i \in DOMAIN T : FeedWhere(T[i], "default", 1, {"event"})} = D
  <2>1. ASSUME NEW find \in FindCase
        PROVE  FeedWhere(find, "default", 1, {"event"}) <=> find.status = "new"
    <3>1. /\ find.status \in {"new", "provisional"} /\ find.expires = Null
          /\ find.type = "event"
      BY DEF FindCase
    <3> QED BY <3>1 DEF FeedWhere, Unexpired
  <2>2. \A i \in DOMAIN T :
          FeedWhere(T[i], "default", 1, {"event"}) <=> input.rows[i].status = "new"
    BY <1>1, <2>1
  <2>3. \A i \in DOMAIN T : i \in ShownFinds <=> input.rows[i].status = "new"
    BY <1>1 DEF ShownFinds
  <2> QED BY <1>1, <2>2, <2>3
<1>3. IsFiniteSet(D)
  <2>1. IsFiniteSet(1 .. Len(T)) /\ D \subseteq 1 .. Len(T)
    <3>1. Len(T) \in Nat
      BY <1>1
    <3> QED BY <3>1, CountTo
  <2> HIDE DEF D
  <2> QED BY <2>1, FS_Subset
<1>4. /\ found \in SetToSeqs(D)
      /\ \A m, k \in DOMAIN found :
           m < k => ~ feedOrderSql(T[found[k]], T[found[m]], sort)
  BY <1>2 DEF FeedQuery, FeedOrders, QueryOrders
<1>5. found \in [1 .. Cardinality(D) -> D]
  BY <1>4 DEF SetToSeqs
<1>6. ASSUME NEW m \in DOMAIN found, NEW k \in DOMAIN found, m < k
      PROVE  <<found[k], found[m]>> \notin FeedFirst(sort)
  <2>1. found[m] \in 1 .. Len(T) /\ found[k] \in 1 .. Len(T)
    BY <1>5
  <2>2. T[found[m]] = input.rows[found[m]] /\ T[found[k]] = input.rows[found[k]]
    BY <1>1, <2>1
  <2>3. ~ feedOrderSql(T[found[k]], T[found[m]], sort)
    BY <1>4, <1>6
  <2> QED BY <2>2, <2>3 DEF FeedFirst
<1> HIDE DEF D
<1> QED BY <1>3, <1>4, <1>6, SequencesEnumerate DEF D

(* A page of one row is the row at its place. *)
LEMMA FeedPageIs ==
  ASSUME NEW S, NEW order \in Seq(S), NEW k \in 1 .. Len(order)
  PROVE  /\ getFeedPage(order, Len(order), k, 1).rows = SubSeq(order, k, k)
         /\ getFeedPage(order, Len(order), k, 1).rows = <<order[k]>>
<1> DEFINE v == resolvePage(Len(order), k, 1)
           last == Min({v.start + 1, Len(order)})
<1>1. Len(order) \in Nat /\ k \in Int /\ 1 \in Nat \ {0}
  OBVIOUS
<1> HIDE DEF v
<1>2. IsWindow(v, Len(order), k, 1)
  BY <1>1, WindowIs DEF v
<1>3. v.pageCount = Len(order)
  <2> DEFINE q == (Len(order) + 1 - 1) \div 1
  <2>1. q = Len(order)
    BY <1>1
  <2>2. v.pageCount = Max({1, q})
    BY <1>2 DEF IsWindow, PagesFor
  <2> HIDE DEF q
  <2>3. Max({1, q}) = IF 1 >= q THEN 1 ELSE q
    <3>1. q \in Int
      BY <1>1, <2>1
    <3> QED BY <3>1, OfTwo
  <2> QED BY <2>1, <2>2, <2>3
<1>4. v.page = k
  BY <1>1, <1>2, <1>3 DEF IsWindow
<1>5. v.start = k - 1
  BY <1>1, <1>2, <1>4 DEF IsWindow
<1>6. last = k
  <2>1. last = Min({k, Len(order)})
    BY <1>1, <1>5
  <2>2. Min({k, Len(order)}) = IF k <= Len(order) THEN k ELSE Len(order)
    <3>1. k \in Int /\ Len(order) \in Int
      BY <1>1
    <3> HIDE DEF last
    <3> QED BY <3>1, OfTwo
  <2> QED BY <2>1, <2>2
<1>7. getFeedPage(order, Len(order), k, 1).rows = SubSeq(order, v.start + 1, last)
  BY DEF getFeedPage, v
<1> HIDE DEF last
<1>8. getFeedPage(order, Len(order), k, 1).rows = SubSeq(order, k, k)
  BY <1>1, <1>5, <1>6, <1>7
<1>9. SubSeq(order, k, k) = <<order[k]>>
  <2> DEFINE t == SubSeq(order, k, k)
  <2>1. t \in Seq(S) /\ Len(t) = 1 /\ t[1] = order[k]
    BY <1>1
  <2> HIDE DEF t
  <2>2. t = <<order[k]>>
    BY <2>1
  <2> QED BY <2>2 DEF t
<1> QED BY <1>8, <1>9

(* The places a find may be shown at, whatever the count said.              *)
LEMMA FeedLocated ==
  ASSUME input.rows \in Seq(FindCase), NEW T \in Tables, NEW sort,
         NEW size \in Nat \ {0}, NEW a \in FeedSeen(T, sort, size)
  PROVE  Located(a, T, ShownFinds, FeedFirst(sort), size)
<1> DEFINE D == ShownFinds \cap (1 .. Len(T))
<1>1. IsTable(T) /\ Len(T) \in Nat
  BY TablesAre DEF IsTable
<1>2. PICK found \in FeedQuery(T, sort), total \in FeedTotals(sort), k \in 1 .. Len(T) + 1 :
        \E i \in Range(getFeedPage(found, total, k, size).rows) :
          a = [id |-> i, page |-> getFeedPage(found, total, k, size).page]
  BY DEF FeedSeen
<1>3. PICK i \in Range(getFeedPage(found, total, k, size).rows) :
        a = [id |-> i, page |-> getFeedPage(found, total, k, size).page]
  BY <1>2
<1>4. Enumerates(found, D, FeedFirst(sort))
  BY <1>1, FeedEnumerates
<1>5. total \in Nat
  <2>0. PICK U \in Tables : \E other \in FeedQuery(U, sort) : total = Len(other)
    BY DEF FeedTotals
  <2>1. PICK other \in FeedQuery(U, sort) : total = Len(other)
    BY <2>0
  <2>2. IsTable(U)
    BY TablesAre
  <2> DEFINE E == ShownFinds \cap (1 .. Len(U))
  <2>3. Enumerates(other, E, FeedFirst(sort))
    BY <2>2, FeedEnumerates
  <2> HIDE DEF E
  <2>4. other \in [1 .. Cardinality(E) -> E] /\ Cardinality(E) \in Nat
    BY <2>3 DEF Enumerates
  <2> QED BY <2>1, <2>4, FunctionIsSequence
<1> HIDE DEF D
<1>6. found \in Seq(D) /\ Len(found) = Cardinality(D) /\ Cardinality(D) \in Nat
  <2>1. found \in [1 .. Cardinality(D) -> D] /\ Cardinality(D) \in Nat
    BY <1>4 DEF Enumerates
  <2> QED BY <2>1, FunctionIsSequence
<1> DEFINE v == resolvePage(total, k, size)
           last == Min({v.start + size, Len(found)})
<1>7. /\ a.id = i /\ a.page = v.page
      /\ i \in Range(SubSeq(found, v.start + 1, last))
  BY <1>3 DEF getFeedPage
<1> HIDE DEF v
<1>8. IsWindow(v, total, k, size)
  <2>1. k \in Int
    BY <1>1
  <2> QED BY <1>5, <2>1, WindowIs DEF v
<1>9. v.pageCount \in Nat \ {0}
  <2>1. v.pageCount = PagesFor(total, size)
    BY <1>8 DEF IsWindow
  <2> QED BY <1>5, <2>1, CountPages
<1>10. v.page \in Nat \ {0} /\ v.start = (v.page - 1) * size
  <2>1. v.page \in Nat \ {0}
    BY <1>1, <1>8, <1>9 DEF IsWindow
  <2> QED BY <1>8, <2>1 DEF IsWindow
<1> DEFINE s == v.start
           n == Len(found)
<1>11. s \in Nat /\ n \in Nat /\ v.page * size = s + size
  <2>1. (v.page - 1) * size \in Nat /\ v.page * size = (v.page - 1) * size + size
    BY <1>10
  <2> QED BY <1>6, <1>10, <2>1
<1>12. last = IF s + size <= n THEN s + size ELSE n
  <2>1. s + size \in Int /\ n \in Int
    BY <1>11
  <2> HIDE DEF s, n
  <2>2. Min({s + size, n}) = IF s + size <= n THEN s + size ELSE n
    BY <2>1, OfTwo
  <2> QED BY <2>2 DEF s, n
<1> HIDE DEF s, n, last
<1>13. last \in 0 .. n /\ last <= s + size
  BY <1>11, <1>12
<1>14. PICK q \in s + 1 .. last : found[q] = i
  <2>1. i \in Range(SubSeq(found, s + 1, last))
    BY <1>7 DEF s
  <2>2. last \in Nat /\ last <= Len(found)
    BY <1>6, <1>13 DEF n
  <2>3. PICK q \in DOMAIN found : found[q] = i /\ s < q /\ q <= last
    BY <1>6, <1>11, <2>1, <2>2, InStretch
  <2> QED BY <1>6, <1>11, <2>2, <2>3
<1>15. q \in 1 .. Cardinality(D)
  BY <1>6, <1>11, <1>13, <1>14 DEF n
<1>16. OnPage(q, a.page, size)
  <2>1. s = (a.page - 1) * size /\ a.page * size = s + size
    BY <1>7, <1>10, <1>11 DEF s
  <2>2. s < q /\ q <= s + size
    BY <1>11, <1>13, <1>14
  <2> QED BY <2>1, <2>2 DEF OnPage
<1> QED BY <1>4, <1>7, <1>10, <1>14, <1>15, <1>16 DEF Located, D

(* The pages of the feed put together are the feed.                         *)
LEMMA FeedTogether ==
  ASSUME input.rows \in Seq(FindCase), NEW sort, NEW found \in FeedQuery(input.rows, sort)
  PROVE  /\ Concatenated([k \in 1 .. Len(found) |->
                            getFeedPage(found, Len(found), k, 1).rows], Len(found)) = found
         /\ Cardinality(Range(found)) = Len(found)
         /\ Range(found) = ShownFinds
<1> DEFINE page(k) == getFeedPage(found, Len(found), k, 1)
           D == ShownFinds
           n == Cardinality(D)
           parts == [k \in 1 .. Len(found) |-> page(k).rows]
<1>1. Enumerates(found, D, FeedFirst(sort))
  <2>1. IsTable(input.rows) /\ DOMAIN input.rows = 1 .. Len(input.rows)
    BY DEF IsTable
  <2>2. ShownFinds \cap (1 .. Len(input.rows)) = ShownFinds
    BY <2>1 DEF ShownFinds
  <2>3. Enumerates(found, ShownFinds \cap (1 .. Len(input.rows)), FeedFirst(sort))
    BY <2>1, FeedEnumerates
  <2> QED BY <2>2, <2>3
<1> HIDE DEF D
<1>2. n \in Nat /\ found \in [1 .. n -> D]
  BY <1>1 DEF Enumerates
<1> HIDE DEF n, page, parts
<1>3. found \in Seq(D) /\ Len(found) = n
  BY <1>2, FunctionIsSequence
<1>4. ASSUME NEW k \in 1 .. n
      PROVE  /\ page(k).rows = <<found[k]>> /\ page(k).rows = SubSeq(found, k, k)
             /\ found[k] \in D
  BY <1>2, <1>3, FeedPageIs DEF page
<1>5. Concatenated(parts, n) = found
  <2> DEFINE e == [k \in 0 .. n |-> k]
  <2>1. parts \in [1 .. n -> Seq(D)]
    <3>1. ASSUME NEW k \in 1 .. n PROVE page(k).rows \in Seq(D)
      <4>1. page(k).rows = <<found[k]>> /\ found[k] \in D
        BY <1>4
      <4>2. <<found[k]>> \in Seq(D)
        BY <4>1
      <4> QED BY <4>1, <4>2
    <3> QED BY <1>3, <3>1 DEF parts
  <2>2. Stretches(parts, found, n, e)
    <3>1. e \in [0 .. n -> 0 .. Len(found)] /\ e[0] = 0 /\ e[n] = n
      BY <1>2, <1>3
    <3>2. ASSUME NEW k \in 1 .. n
          PROVE  e[k - 1] <= e[k] /\ parts[k] = SubSeq(found, e[k - 1] + 1, e[k])
      <4>1. k - 1 \in 0 .. n /\ k \in 0 .. n /\ k \in Int
        BY <1>2
      <4>2. e[k - 1] = k - 1 /\ e[k] = k
        BY <4>1
      <4>3. parts[k] = SubSeq(found, k, k)
        BY <1>3, <1>4 DEF parts
      <4> HIDE DEF e
      <4>4. e[k - 1] + 1 = k /\ e[k - 1] <= e[k]
        BY <4>1, <4>2
      <4> QED BY <4>2, <4>3, <4>4
    <3> HIDE DEF e
    <3> QED BY <3>1, <3>2 DEF Stretches
  <2>3. e[n] = n
    BY <1>2
  <2> HIDE DEF e
  <2>4. Concatenated(parts, n) = SubSeq(found, 1, n)
    <3>1. n \in Nat /\ found \in Seq(D)
      BY <1>2, <1>3
    <3>2. Concatenated(parts, n) = SubSeq(found, 1, e[n])
      BY <2>1, <2>2, <3>1, ConcatenatedIs
    <3> QED BY <2>3, <3>2
  <2> QED BY <1>3, <2>4, SubSeqFull
<1>6. Range(found) = D
  <2>1. \A x \in D : \E k \in 1 .. n : found[k] = x
    BY <1>1 DEF Enumerates, n
  <2> QED BY <1>2, <2>1 DEF Range
<1> QED BY <1>3, <1>5, <1>6 DEF page, parts, n, D

(* The pages of the feed show the finds, and only ties and the finds behind *)
(* one that came or went move.                                              *)
LEMMA FeedShown ==
  input.rows \in Seq(FindCase) => FeedPagesShowTheList
<1> SUFFICES ASSUME input.rows \in Seq(FindCase), NEW sort \in {"newest", "oldest", "soonest"}
             PROVE
    /\ \A found \in FeedQuery(input.rows, sort) :
         /\ Concatenated([k \in 1 .. Len(found) |->
                            getFeedPage(found, Len(found), k, 1).rows], Len(found)) = found
         /\ Cardinality(Range(found)) = Len(found)
         /\ Range(found) = ShownFinds
    /\ PagesMoveWithTheTable(
         [table \in Tables |-> FeedSeen(table, sort, 1)], TiedFinds(sort))
  BY DEF FeedPagesShowTheList, ShownFinds
<1> DEFINE seen == [table \in Tables |-> FeedSeen(table, sort, 1)]
           R == FeedFirst(sort)
<1>1. \A T \in Tables : \A a \in seen[T] : Located(a, T, ShownFinds, R, 1)
  <2>1. 1 \in Nat \ {0}
    OBVIOUS
  <2> QED BY <2>1, FeedLocated
<1>2. ASSUME NEW i \in ShownFinds \ TiedFinds(sort), NEW j \in ShownFinds \ {i}
      PROVE  <<j, i>> \in R \/ <<i, j>> \in R
  BY <1>2 DEF TiedFinds, FeedFirst, ShownFinds
<1> HIDE DEF seen, R
<1>3. PagesMoveWithTheTable(seen, TiedFinds(sort))
  <2>1. 1 \in Nat \ {0}
    OBVIOUS
  <2> QED BY <1>1, <1>2, <2>1, RowsMove
<1> QED BY <1>3, FeedTogether DEF seen

-----------------------------------------------------------------------------
(* Places and finds are the ones of the directory and of the feed.          *)
ListedInv ==
  /\ "kind" \in DOMAIN input
  /\ input.kind = "places" => input \in [kind : {"places"}, rows : Seq(PlaceCase)]
  /\ input.kind = "finds" => input \in [kind : {"finds"}, rows : Seq(FindCase)]

(* The lists are empty at first.                                            *)
LEMMA ListedInitially == CasesInit => ListedInv
<1> SUFFICES ASSUME CasesInit PROVE ListedInv
  OBVIOUS
<1>1. "kind" \in DOMAIN input
  BY DEF CasesInit
<1>2. ASSUME NEW S, NEW k \in {"places", "finds"}, input.kind = k
      PROVE  input \in [kind : {k}, rows : Seq(S)]
  <2>1. input = [kind |-> k, rows |-> <<>>]
    BY <1>2 DEF CasesInit
  <2>2. <<>> \in Seq(S)
    OBVIOUS
  <2> QED BY <2>1, <2>2
<1> QED BY <1>1, <1>2 DEF ListedInv

(* They grow by places and finds. *)
LEMMA ListedStep == ListedInv /\ [CasesNext]_input => ListedInv'
<1> SUFFICES ASSUME ListedInv, [CasesNext]_input PROVE ListedInv'
  OBVIOUS
<1>1. CASE UNCHANGED input
  BY <1>1 DEF ListedInv
<1>2. CASE AddRow
  <2>1. input.kind = "rows" /\ "kind" \in DOMAIN input
    BY <1>2 DEF AddRow, ListedInv
  <2>2. PICK name \in RowName, located \in BOOLEAN, near \in SUBSET (DOMAIN input.rows) :
          LET id == Len(input.rows) + 1
          IN  /\ near # {} => located
              /\ \A i \in near : input.rows[i].located
              /\ input' = [input EXCEPT
                   !.rows = Append(@, [osmId |-> id, name |-> name,
                                       located |-> located, status |-> "active",
                                       facts |-> 0]),
                   !.near = @ \cup {{i, id} : i \in near}]
    BY <1>2, Zenon DEF AddRow
  <2>3. input'.kind = "rows" /\ "kind" \in DOMAIN input'
    BY <2>1, <2>2
  <2> QED BY <2>3 DEF ListedInv
<1>3. CASE AddLine
  <2>1. PICK rows : input' = [input EXCEPT !.rows = rows] /\ input.kind = "lines"
    BY <1>3 DEF AddLine
  <2>2. input'.kind = "lines" /\ "kind" \in DOMAIN input'
    BY <2>1 DEF ListedInv
  <2> QED BY <2>2 DEF ListedInv
<1>4. ASSUME NEW S, NEW x \in S, NEW k, input \in [kind : {k}, rows : Seq(S)],
             input' = [input EXCEPT !.rows = Append(@, x)]
      PROVE  input' \in [kind : {k}, rows : Seq(S)] /\ input'.kind = k /\ "kind" \in DOMAIN input'
  <2>1. Append(input.rows, x) \in Seq(S)
    BY <1>4
  <2> QED BY <1>4, <2>1
<1>5. CASE AddPlace
  <2>1. PICK place \in PlaceCase : input' = [input EXCEPT !.rows = Append(@, place)]
    BY <1>5 DEF AddPlace
  <2>2. input \in [kind : {"places"}, rows : Seq(PlaceCase)]
    BY <1>5 DEF AddPlace, ListedInv
  <2>3. /\ input' \in [kind : {"places"}, rows : Seq(PlaceCase)]
        /\ input'.kind = "places" /\ "kind" \in DOMAIN input'
    BY <1>4, <2>1, <2>2
  <2> QED BY <2>3 DEF ListedInv
<1>6. CASE AddFind
  <2>1. PICK find \in FindCase : input' = [input EXCEPT !.rows = Append(@, find)]
    BY <1>6 DEF AddFind
  <2>2. input \in [kind : {"finds"}, rows : Seq(FindCase)]
    BY <1>6 DEF AddFind, ListedInv
  <2>3. /\ input' \in [kind : {"finds"}, rows : Seq(FindCase)]
        /\ input'.kind = "finds" /\ "kind" \in DOMAIN input'
    BY <1>4, <2>1, <2>2
  <2> QED BY <2>3 DEF ListedInv
<1> QED BY <1>1, <1>2, <1>3, <1>5, <1>6 DEF CasesNext

(* Every list of Cases is one of places or of finds.                        *)
LEMMA ListedInvariant == CasesSpec => []ListedInv
<1>1. ListedInv /\ [CasesNext]_input => ListedInv'
  BY ListedStep
<1> QED BY ListedInitially, <1>1, PTL DEF CasesSpec

(* What the directory and the feed show, on their pages. *)
LEMMA PagesShown == ListedInv => PagesShowTheList
<1> SUFFICES ASSUME ListedInv PROVE PagesShowTheList
  OBVIOUS
<1>1. ASSUME input.kind = "places" PROVE input.rows \in Seq(PlaceCase)
  BY <1>1 DEF ListedInv
<1>2. ASSUME input.kind = "finds" PROVE input.rows \in Seq(FindCase)
  BY <1>2 DEF ListedInv
<1> QED BY <1>1, <1>2, DirectoryShown, FeedShown DEF PagesShowTheList

(* For lists of any length: the pages of one answer of listPlacesRanked or  *)
(* getFeedPage show every row once and in its place, and of two queries,    *)
(* between which a row may come or go, the pages differ only by ties and by *)
(* the rows behind that one.                                                *)
THEOREM CasesPages == CasesSpec => []PagesShowTheList
BY ListedInvariant, PagesShown, PTL

-----------------------------------------------------------------------------
(* The directory. *)

(* The parts of PlacesTypeOK that the table and the calls need, with the    *)
(* domain of call.                                                          *)
TableInv ==
  /\ osm \subseteq Osm
  /\ custom \in Seq(Business) /\ Len(custom) <= MaxCustom
  /\ view \subseteq Osm \cup DOMAIN custom
  /\ noted \in 0 .. MaxNotes
  /\ stage \in [Session -> Stage]
  /\ call \in [Session -> Call \cup {None}]
  /\ added \in [Session -> SUBSET (DOMAIN custom)]

(* What a transaction knows about the rows it has seen: after the first     *)
(* query only rows of the table can be twins, after the second none is.     *)
KnownInv ==
  \A r \in Session : call[r] # None =>
    /\ call[r].known \subseteq Osm \cup DOMAIN custom
    /\ call[r].at = "viewed" =>
         \A id \in call[r].known :
           Alike(Same, call[r].place, id) => id \in DOMAIN custom
    /\ call[r].at = "checked" =>
         \A id \in call[r].known : ~ Alike(Same, call[r].place, id)

DirectoryInv == TableInv /\ KnownInv

(* The ids of custom rows are those of their positions and no element's     *)
(* of the map.                                                              *)
LEMMA CustomIds ==
  ASSUME TableInv
  PROVE  /\ DOMAIN custom = 1 .. Len(custom) /\ Len(custom) \in Nat
         /\ DOMAIN custom \subseteq CustomId
         /\ \A id \in DOMAIN custom : id \notin Osm
  BY PlacesParameters DEF TableInv, CustomId

(* The empty directory satisfies the invariant.                             *)
LEMMA DirectoryInitially == PlacesInit => DirectoryInv
  BY PlacesParameters
  DEF PlacesInit, DirectoryInv, TableInv, KnownInv, Stage

(* A call that ends takes its knowledge with it. *)
LEMMA CallEnds ==
  ASSUME KnownInv, call \in [Session -> Call \cup {None}],
         UNCHANGED custom, NEW r \in Session, EndCall(r)
  PROVE  KnownInv' /\ call' \in [Session -> Call \cup {None}]
<1>1. \A id : Describes(id)' = Describes(id)
  BY DEF Describes
<1>2. \A q \in Session : call'[q] # None => call'[q] = call[q]
  BY DEF EndCall
<1> QED
  BY <1>1, <1>2 DEF EndCall, KnownInv, Alike

(* Every step keeps the tables and what the calls at work know of them.     *)
LEMMA DirectoryStep ==
  ASSUME DirectoryInv, [PlacesNext]_placeVars
  PROVE  DirectoryInv'
<1> USE PlacesParameters
<1> USE DEF DirectoryInv
<1>a. /\ DOMAIN custom = 1 .. Len(custom) /\ Len(custom) \in Nat
      /\ DOMAIN custom \subseteq CustomId
      /\ \A id \in DOMAIN custom : id \notin Osm
  BY CustomIds
<1>0. CASE UNCHANGED placeVars
  BY <1>0 DEF placeVars, TableInv, KnownInv, Alike, Describes
<1>1. ASSUME NEW r \in Session, StartSession(r)
      PROVE  DirectoryInv'
  BY <1>1 DEF StartSession, TableInv, KnownInv, Alike, Describes, Stage
<1>2. ASSUME NEW r \in Session, NEW place \in Business, SavePlace(r, place)
      PROVE  DirectoryInv'
  <2>1. TableInv'
    BY <1>2, <1>a DEF SavePlace, TableInv, Call, CallStage, PlaceId
  <2>2. KnownInv'
    BY <1>2, <1>a DEF SavePlace, TableInv, KnownInv, Alike, Describes
  <2> QED
    BY <2>1, <2>2
<1>3. ASSUME NEW r \in Session, CheckTable(r)
      PROVE  DirectoryInv'
  <2>0. /\ call[r] \in Call /\ call[r] # None /\ call[r].at = "viewed"
        /\ UNCHANGED <<osm, custom, view, notes, noted, stage, added, sweep>>
    BY <1>3 DEF CheckTable, TableInv
  <2>1. CASE /\ \E id \in DOMAIN custom : Alike(Same, call[r].place, id)
             /\ EndCall(r)
    BY <2>0, <2>1 DEF EndCall, TableInv, KnownInv, Alike, Describes
  <2>2. CASE /\ ~ \E id \in DOMAIN custom : Alike(Same, call[r].place, id)
             /\ call' = [call EXCEPT ![r].at = "checked"]
    <3>1. /\ call'[r] \in Call
          /\ call'[r].known = call[r].known
          /\ call'[r].place = call[r].place
          /\ call'[r].at = "checked"
          /\ \A q \in Session \ {r} : call'[q] = call[q]
      BY <2>0, <2>2 DEF TableInv, Call, CallStage
    <3>2. TableInv'
      BY <2>0, <2>2, <3>1 DEF TableInv
    <3>3. \A id : Describes(id)' = Describes(id)
      BY <2>0 DEF Describes
    <3>4. \A id \in call[r].known : ~ Alike(Same, call[r].place, id)
      BY <2>0, <2>2 DEF KnownInv
    <3> QED
      BY <2>0, <3>1, <3>2, <3>3, <3>4 DEF KnownInv, Alike
  <2> QED
    BY <1>3, <2>1, <2>2 DEF CheckTable
<1>4. ASSUME NEW r \in Session, InsertPlace(r)
      PROVE  DirectoryInv'
  <2>1. /\ custom' = Append(custom, call[r].place) /\ call[r].place \in Business
        /\ DOMAIN custom' = DOMAIN custom \cup {Len(custom) + 1}
        /\ \A id \in DOMAIN custom : custom'[id] = custom[id]
    BY <1>4 DEF InsertPlace, TableInv, Call
  <2>2. TableInv'
    <3>1. custom' \in Seq(Business) /\ Len(custom') <= MaxCustom
      BY <1>4, <2>1, <1>a DEF InsertPlace, TableInv
    <3>2. added' \in [Session -> SUBSET (DOMAIN custom')]
      <4>1. Len(custom') = Len(custom) + 1
        BY <2>1, <1>a DEF TableInv
      <4>2. \A q \in Session : added[q] \in SUBSET DOMAIN custom'
        BY <2>1 DEF TableInv
      <4>3. \/ added' = [added EXCEPT ![r] = @ \cup {Len(custom) + 1}]
            \/ added' = added
        BY <1>4, <4>1 DEF InsertPlace
      <4> QED
        BY <2>1, <4>2, <4>3 DEF TableInv
    <3> QED
      BY <1>4, <2>1, <3>1, <3>2 DEF InsertPlace, EndCall, TableInv
  <2>3. KnownInv'
    <3> SUFFICES ASSUME NEW q \in Session, call'[q] # None
                 PROVE  /\ call'[q] = call[q] /\ call[q] # None
                        /\ \A id \in call[q].known :
                             Alike(Same, call[q].place, id)' <=> Alike(Same, call[q].place, id)
      BY <2>1 DEF KnownInv
    <3>1. call'[q] = call[q] /\ call[q] # None
      BY <1>4 DEF InsertPlace, EndCall, TableInv
    <3>2. \A id \in Osm \cup DOMAIN custom : Describes(id)' = Describes(id)
      BY <2>1 DEF Describes
    <3> QED
      BY <3>1, <3>2 DEF KnownInv, Alike
  <2> QED
    BY <2>2, <2>3
<1>5. ASSUME NEW r \in Session, CallFails(r)
      PROVE  DirectoryInv'
  BY <1>5, CallEnds DEF CallFails, EndCall, TableInv
<1>6. ASSUME NEW r \in Session, NEW id \in PlaceId, NEW status \in Overrides \cup {None},
             NEW original \in Original \cup {None}, Annotate(r, id, status, original)
      PROVE  DirectoryInv'
  <2>1. /\ noted' = noted + 1 /\ noted < MaxNotes
        /\ UNCHANGED <<osm, custom, view, stage, call, added>>
    BY <1>6 DEF Annotate
  <2> QED
    BY <2>1 DEF TableInv, KnownInv, Alike, Describes
<1>7. ASSUME NEW r \in Session, NEW threw \in BOOLEAN, EndSession(r, threw)
      PROVE  DirectoryInv'
  BY <1>7 DEF EndSession, TableInv, KnownInv, Alike, Describes, Stage
<1>8. ASSUME RefreshView, osm' \subseteq Osm, stage' \in [Session -> Stage]
      PROVE  DirectoryInv'
  <2>1. TableInv'
    <3>1. view' \subseteq Osm \cup DOMAIN custom' /\ UNCHANGED <<custom, noted, added>>
      BY <1>8 DEF RefreshView
    <3>2. call' \in [Session -> Call \cup {None}]
      <4> SUFFICES ASSUME NEW q \in Session
                   PROVE  call'[q] \in Call \cup {None}
        BY <1>8 DEF RefreshView
      <4>1. CASE call[q] = None
        BY <1>8, <4>1 DEF RefreshView
      <4>2. CASE call[q] # None
        <5>1. call[q] \in Call
          BY <4>2 DEF TableInv
        <5>2. call'[q] = [call[q] EXCEPT !.known = call[q].known \cap view']
          BY <1>8, <4>2 DEF RefreshView
        <5> QED BY <5>1, <5>2 DEF Call
      <4> QED BY <4>1, <4>2
    <3> QED BY <1>8, <3>1, <3>2 DEF TableInv
  <2>2. KnownInv'
    <3> SUFFICES ASSUME NEW q \in Session, call'[q] # None
                 PROVE  /\ call[q] # None
                        /\ call'[q].known \subseteq call[q].known
                        /\ call'[q].place = call[q].place
                        /\ call'[q].at = call[q].at
      <4>1. \A id : Describes(id)' = Describes(id)
        BY <1>8 DEF RefreshView, Describes
      <4> QED
        BY <1>8, <4>1 DEF RefreshView, KnownInv, Alike
    <3>1. call[q] # None /\ call[q] \in Call
      BY <1>8 DEF RefreshView, TableInv
    <3>2. call'[q] = [call[q] EXCEPT !.known = call[q].known \cap view']
      BY <1>8, <3>1 DEF RefreshView
    <3> QED
      BY <3>1, <3>2 DEF Call
  <2> QED
    BY <2>1, <2>2
<1>9. ASSUME NEW r \in Session, refreshOsmPlaces(r)
      PROVE  DirectoryInv'
  BY <1>8, <1>9 DEF refreshOsmPlaces, TableInv, Stage
<1>10. ASSUME NEW r \in Session, RefreshFails(r)
       PROVE  DirectoryInv'
  BY <1>10 DEF RefreshFails, TableInv, KnownInv, Alike, Describes, Stage
<1>11. ASSUME NEW r \in Session, SessionDies(r)
       PROVE  DirectoryInv'
  BY <1>11 DEF SessionDies, EndCall, TableInv, KnownInv, Alike, Describes, Stage
<1>12. CASE RefreshByHand
  BY <1>8, <1>12 DEF RefreshByHand, TableInv
<1>13. CASE SweepRead \/ SweepMark \/ SweepFails
  BY <1>13 DEF SweepRead, SweepMark, SweepFails, TableInv, KnownInv, Alike, Describes
<1> QED
  BY <1>0, <1>1, <1>2, <1>3, <1>4, <1>5, <1>6, <1>7, <1>9, <1>10, <1>11, <1>12, <1>13
  DEF PlacesNext, SessionStep

(* In every state what a call has read of custom_places is still there,     *)
(* and everything alike that it missed was added by runs that overlap.      *)
LEMMA DirectoryInvariant == PlacesSpec => []DirectoryInv
<1>1. DirectoryInv /\ [PlacesNext]_placeVars => DirectoryInv'
  BY DirectoryStep
<1> QED
  BY DirectoryInitially, <1>1, PTL DEF PlacesSpec

(* Only an INSERT changes the table of custom places, and only a sweep what *)
(* a sweep has read.                                                        *)
LEMMA WhoWrites ==
  ASSUME PlacesNext
  PROVE  /\ custom' # custom => \E q \in Session : InsertPlace(q)
         /\ sweep' # sweep => SweepRead \/ SweepMark \/ SweepFails
<1>1. ASSUME NEW r \in Session, SessionStep(r), ~ InsertPlace(r)
      PROVE  UNCHANGED <<custom, sweep>>
  <2>1. CASE StartSession(r) \/ \E place \in Business : SavePlace(r, place)
    BY <2>1 DEF StartSession, SavePlace
  <2>2. CASE CheckTable(r) \/ CallFails(r)
    BY <2>2 DEF CheckTable, CallFails
  <2>3. CASE \E id \in PlaceId, status \in Overrides \cup {None},
                original \in Original \cup {None} : Annotate(r, id, status, original)
    BY <2>3 DEF Annotate
  <2>4. CASE \E threw \in BOOLEAN : EndSession(r, threw)
    BY <2>4 DEF EndSession
  <2>5. CASE refreshOsmPlaces(r) \/ RefreshFails(r)
    BY <2>5 DEF refreshOsmPlaces, RefreshView, RefreshFails
  <2>6. CASE SessionDies(r)
    BY <2>6 DEF SessionDies
  <2> QED BY <1>1, <2>1, <2>2, <2>3, <2>4, <2>5, <2>6 DEF SessionStep
<1>2. ASSUME NEW r \in Session, InsertPlace(r) PROVE UNCHANGED sweep
  BY <1>2 DEF InsertPlace
<1>3. ASSUME RefreshByHand PROVE UNCHANGED <<custom, sweep>>
  BY <1>3 DEF RefreshByHand, RefreshView
<1>4. ASSUME SweepRead \/ SweepMark \/ SweepFails PROVE UNCHANGED custom
  BY <1>4 DEF SweepRead, SweepMark, SweepFails
<1> QED BY <1>1, <1>2, <1>3, <1>4 DEF PlacesNext

(* insertCustomPlace never adds a twin of a row its transaction has seen,   *)
(* with any number of runs, places, ids and any symmetric or asymmetric     *)
(* notion of being alike.                                                   *)
THEOREM PlacesNoTwins == PlacesSpec => TwinsOverlap
<1>1. DirectoryInv /\ [PlacesNext]_placeVars =>
        [\A r \in Session :
           call[r] # None /\ call'[r] = None /\ custom' # custom =>
             ~ \E id \in call[r].known : Alike(Same, call[r].place, id)]_placeVars
  <2> SUFFICES ASSUME DirectoryInv, PlacesNext, custom' # custom,
                      NEW r \in Session, call[r] # None, call'[r] = None
               PROVE  ~ \E id \in call[r].known : Alike(Same, call[r].place, id)
    BY DEF placeVars
  <2>1. PICK q \in Session : InsertPlace(q)
    BY WhoWrites
  <2>2. q = r
    BY <2>1 DEF InsertPlace, EndCall, DirectoryInv, TableInv
  <2> QED
    BY <2>1, <2>2 DEF InsertPlace, DirectoryInv, KnownInv
<1> QED
  BY DirectoryInvariant, <1>1, PTL DEF PlacesSpec, TwinsOverlap
-----------------------------------------------------------------------------
(* The sweep. *)

RowOfPlace == [osmId : PlaceId, name : {"as in Near"}, located : {TRUE},
               status : PlaceStatus, facts : Nat]

(* A group of a sweep is a finite, non-empty set of rows, one for an id. *)
GroupOfRows(g) ==
  /\ IsFiniteSet(g) /\ g # {} /\ g \subseteq RowOfPlace
  /\ \A a, b \in g : a.osmId = b.osmId => a = b

(* chooseCanonical finds one row of a group that precedes all others. *)
LEMMA CanonicalExists ==
  ASSUME NEW g, GroupOfRows(g)
  PROVE  /\ chooseCanonical(g, IdOrder) \in g
         /\ \A other \in g \ {chooseCanonical(g, IdOrder)} :
              Precedes(chooseCanonical(g, IdOrder), other, IdOrder)
<1> USE PlacesParameters
<1> DEFINE R == {p \in g \X g : Precedes(p[1], p[2], IdOrder)}
           Rank(row) == STATUS_RANK[row.status]
<1>0. \A a, b \in g : <<a, b>> \in R <=> Precedes(a, b, IdOrder)
  OBVIOUS
<1>1. ASSUME NEW a \in g
      PROVE  /\ a.osmId \in Nat /\ a.osmId \in PlaceId
             /\ a.facts \in Nat /\ a.status \in PlaceStatus
             /\ Rank(a) \in Nat
  <2>1. a \in RowOfPlace
    BY DEF GroupOfRows
  <2>2. a.osmId \in PlaceId /\ a.facts \in Nat /\ a.status \in PlaceStatus
    BY <2>1 DEF RowOfPlace
  <2>3. a.osmId \in Nat
    BY <2>2 DEF PlaceId, CustomId
  <2>4. Rank(a) \in Nat
    BY <2>2 DEF PlaceStatus, STATUS_RANK
  <2> QED
    BY <2>2, <2>3, <2>4
<1>2. \A a, b \in g : Rank(a) = Rank(b) <=> a.status = b.status
  BY <1>1 DEF PlaceStatus, STATUS_RANK
<1>3. \A a, b \in g : <<a, b>> \in R <=>
        \/ Rank(a) < Rank(b)
        \/ Rank(a) = Rank(b) /\ a.facts > b.facts
        \/ Rank(a) = Rank(b) /\ a.facts = b.facts /\ a.osmId < b.osmId
  <2> HIDE DEF R
  <2> SUFFICES ASSUME NEW a \in g, NEW b \in g
               PROVE  Precedes(a, b, IdOrder) <=>
                        \/ Rank(a) < Rank(b)
                        \/ Rank(a) = Rank(b) /\ a.facts > b.facts
                        \/ Rank(a) = Rank(b) /\ a.facts = b.facts /\ a.osmId < b.osmId
    BY <1>0
  <2>1. <<a.osmId, b.osmId>> \in IdOrder <=> a.osmId < b.osmId
    BY <1>1 DEF IdOrder
  <2> QED
    BY <1>2, <2>1 DEF Precedes
<1>4. \A a, b \in g : a.osmId = b.osmId => a = b
  BY DEF GroupOfRows
<1>5. \A a \in g : <<a, a>> \notin R
  BY <1>1, <1>3
<1>6. \A a, b \in g : a # b => <<a, b>> \in R \/ <<b, a>> \in R
  BY <1>1, <1>3, <1>4
<1>7. \A a, b, c \in g : <<a, b>> \in R /\ <<b, c>> \in R => <<a, c>> \in R
  BY <1>1, <1>3
<1>8. PICK m \in g : \A other \in g \ {m} : <<m, other>> \in R
  <2>1. IsFiniteSet(g) /\ g # {}
    BY DEF GroupOfRows
  <2> HIDE DEF R
  <2> QED
    BY <2>1, <1>5, <1>6, <1>7, FirstOfFinite
<1>9. \A other \in g \ {m} : Precedes(m, other, IdOrder)
  BY <1>0, <1>8
<1> QED
  BY <1>9, Zenon DEF chooseCanonical

NotesInv ==
  /\ notes \in [PlaceId -> Note]
  /\ \A g \in sweep : GroupOfRows(g)

(* The rows a sweep reads, and what it groups of them. *)
LEMMA ShownIsFinite ==
  ASSUME DirectoryInv
  PROVE  Shown \in SUBSET Nat /\ Shown \subseteq PlaceId /\ IsFiniteSet(Shown)
<1> USE PlacesParameters
<1>1. view \subseteq Osm \cup DOMAIN custom /\ DOMAIN custom = 1 .. Len(custom)
      /\ Len(custom) \in Nat /\ DOMAIN custom \subseteq CustomId
  BY CustomIds DEF DirectoryInv, TableInv
<1>2. IsFiniteSet(Osm \cup (1 .. Len(custom)))
  <2>1. IsFiniteSet(1 .. Len(custom))
    BY <1>1, FS_Interval
  <2> QED
    BY <2>1, FS_Union
<1>3. Shown \subseteq view
  BY DEF Shown
<1>4. IsFiniteSet(Shown)
  BY <1>1, <1>2, <1>3, FS_Subset
<1> QED
  BY <1>1, <1>3, <1>4 DEF PlaceId, CustomId

(* The row of an id, as dedupePlaces reads it, carries that id.             *)
LEMMA RowsOfIds ==
  ASSUME DirectoryInv, NotesInv
  PROVE  \A id \in Shown : DedupeRow(id) \in RowOfPlace /\ DedupeRow(id).osmId = id
<1> USE PlacesParameters
<1>1. Shown \subseteq PlaceId
  BY ShownIsFinite
<1>2. \A id \in Shown : Describes(id) \in Content
  BY DEF Shown, Describes, Content, DirectoryInv, TableInv
<1> QED
  BY <1>1, <1>2 DEF NotesInv, Note, DedupeRow, RowOfPlace

(* A group dedupePlaces finds is one of rows it has read.                   *)
LEMMA GroupsOfRows ==
  ASSUME DirectoryInv, NotesInv, NEW g \in Groups
  PROVE  GroupOfRows(g)
<1> DEFINE R == {DedupeRow(id) : id \in Shown}
<1>1. Shown \in SUBSET Nat /\ Shown \subseteq PlaceId /\ IsFiniteSet(Shown)
  BY ShownIsFinite
<1>2. \A id \in Shown : DedupeRow(id) \in RowOfPlace /\ DedupeRow(id).osmId = id
  BY RowsOfIds
<1>3. IsFiniteSet(R) /\ R \subseteq RowOfPlace /\ \A a, b \in R : a.osmId = b.osmId => a = b
  <2>1. [id \in Shown |-> DedupeRow(id)] \in Surjection(Shown, R)
    BY DEF Surjection
  <2>2. IsFiniteSet(R)
    <3> HIDE DEF R
    <3> QED
      BY <1>1, <2>1, FS_Surjection
  <2> QED
    BY <1>2, <2>2
<1>4. UnmarkedRows \in Seq(R)
  <2>1. Cardinality(Shown) \in Nat
    BY <1>1, FS_CardinalityType
  <2>2. \A n \in 1 .. Cardinality(Shown) : NthOf(Shown, n) \in Shown
    BY <1>1, NthOfIs
  <2>3. UnmarkedRows \in [1 .. Cardinality(Shown) -> R]
    BY <2>2 DEF UnmarkedRows
  <2> HIDE DEF R
  <2> QED
    BY <2>1, <2>3, FunctionIsSequence
<1> HIDE DEF R
<1>5. PICK name : g \in ClustersOf(Bucket(UnmarkedRows, name), NearIds)
  BY DEF Groups, groupPlaceDuplicates
<1>6. Bucket(UnmarkedRows, name) \in Seq(R)
  <2> DEFINE P == {i \in DOMAIN UnmarkedRows : UnmarkedRows[i].located /\ UnmarkedRows[i].name = name}
  <2>1. ElementsAt(UnmarkedRows, P) \in Seq(R)
    BY <1>4, ElementsAtIs
  <2> QED
    BY <2>1 DEF Bucket
<1>7. g \subseteq R
  BY <1>5, <1>6 DEF ClustersOf
<1>8. g # {}
  <2>1. Cardinality(g) >= 2
    BY DEF Groups, groupPlaceDuplicates
  <2>2. Cardinality({}) = 0
    BY FS_EmptySet
  <2>3. ASSUME g = {} PROVE FALSE
    <3>1. Cardinality(g) = 0
      BY <2>2, <2>3
    <3> QED
      BY <2>1, <3>1
  <2> QED
    BY <2>3
<1> QED
  BY <1>3, <1>7, <1>8, FS_Subset DEF GroupOfRows

(* At the start there is no annotation.                                     *)
LEMMA NotesInitially == PlacesInit => NotesInv
BY DEF PlacesInit, NotesInv, Note, NoNote, PlaceStatus

(* Every step keeps the types of the annotations.                           *)
LEMMA NotesStep ==
  ASSUME DirectoryInv, NotesInv, [PlacesNext]_placeVars
  PROVE  NotesInv'
<1> USE PlacesParameters
<1>1. CASE UNCHANGED <<notes, sweep>>
  BY <1>1 DEF NotesInv
<1>2. ASSUME NEW r \in Session, NEW id \in PlaceId, NEW status \in Overrides \cup {None},
             NEW original \in Original \cup {None}, Annotate(r, id, status, original)
      PROVE  NotesInv'
  <2> DEFINE s == CASE status = None    -> notes[id].status
                    [] status = "clear" -> "active"
                    [] OTHER            -> status
             d == IF original = None THEN notes[id].duplicateOf ELSE original
  <2>1. notes[id] \in Note
    BY DEF NotesInv
  <2>2. s \in PlaceStatus
    BY <2>1 DEF Note, PlaceStatus
  <2>3. d \in PlaceId \cup Original \cup {None}
    BY <2>1 DEF Note
  <2>4. notes' = [notes EXCEPT ![id].status = s, ![id].duplicateOf = d] /\ sweep' = sweep
    BY <1>2 DEF Annotate
  <2> HIDE DEF s, d
  <2> QED
    BY <2>1, <2>2, <2>3, <2>4 DEF NotesInv, Note
<1>3. CASE SweepRead
  BY <1>3, GroupsOfRows DEF SweepRead, NotesInv
<1>4. CASE SweepMark
  <2>1. \A id \in PlaceId : MarkedBy(sweep)[id] \in Note
    <3> SUFFICES ASSUME NEW id \in PlaceId
                 PROVE  MarkedBy(sweep)[id] \in Note
      OBVIOUS
    <3> DEFINE of == {g \in sweep : id \in {row.osmId : row \in g}}
               group == CHOOSE g \in of : TRUE
               canonical == chooseCanonical(group, IdOrder)
    <3>1. notes[id] \in Note
      BY DEF NotesInv
    <3>2. ASSUME of # {}
          PROVE  canonical.osmId \in PlaceId
      <4>1. group \in of
        BY <3>2
      <4>2. GroupOfRows(group)
        BY <4>1 DEF NotesInv
      <4>3. canonical \in group
        <5> HIDE DEF group
        <5> QED
          BY <4>2, CanonicalExists
      <4> QED
        BY <4>2, <4>3 DEF GroupOfRows, RowOfPlace
    <3>3. MarkedBy(sweep)[id] \in {notes[id], [notes[id] EXCEPT !.duplicateOf = canonical.osmId]}
          /\ (of = {} => MarkedBy(sweep)[id] = notes[id])
      BY DEF MarkedBy
    <3> HIDE DEF of, group, canonical
    <3> QED
      BY <3>1, <3>2, <3>3 DEF Note
  <2>2. MarkedBy(sweep) \in [PlaceId -> Note]
    BY <2>1 DEF MarkedBy
  <2> QED
    BY <1>4, <2>2 DEF SweepMark, NotesInv
<1>5. CASE SweepFails
  BY <1>5 DEF SweepFails, NotesInv
<1> QED
  BY <1>1, <1>2, <1>3, <1>4, <1>5
  DEF PlacesNext, placeVars, SessionStep, StartSession, SavePlace, CheckTable,
      InsertPlace, CallFails, EndSession, refreshOsmPlaces, RefreshView,
      RefreshFails, SessionDies, RefreshByHand

(* The directory keeps its types: in particular a sweep always finds a      *)
(* canonical row, and one of its own ids is what it writes.                 *)
THEOREM PlacesTyped == PlacesSpec => []PlacesTypeOK
<1>1. PlacesInit => NotesInv
  BY NotesInitially
<1>2. DirectoryInv /\ NotesInv /\ [PlacesNext]_placeVars => NotesInv'
  BY NotesStep
<1>3. DirectoryInv /\ NotesInv => PlacesTypeOK
  <2> SUFFICES ASSUME DirectoryInv, NotesInv PROVE PlacesTypeOK
    OBVIOUS
  <2>1. \A g \in sweep : {row.osmId : row \in g} \subseteq PlaceId
    <3>1. \A row \in RowOfPlace : row.osmId \in PlaceId
      BY DEF RowOfPlace
    <3> QED
      BY <3>1 DEF NotesInv, GroupOfRows
  <2>2. \A r \in Session : call[r] # None => call[r] \in Call
    BY DEF DirectoryInv, TableInv
  <2> QED
    BY <2>1, <2>2 DEF DirectoryInv, TableInv, NotesInv, PlacesTypeOK
<1> QED
  BY DirectoryInvariant, <1>1, <1>2, <1>3, PTL DEF PlacesSpec
-----------------------------------------------------------------------------
(* A sweep. *)

(* Every position lies in a component, and in one only. *)
LEMMA ComponentOf ==
  ASSUME NEW E, NEW L, \A x, y \in E : <<x, y>> \in L => <<y, x>> \in L, NEW a \in E
  PROVE  \E C \in SUBSET E : a \in C /\ Component(E, C, L)
<1> DEFINE Closed(T) == \A x \in T, y \in E : <<x, y>> \in L => y \in T
           C == {x \in E : \A T \in SUBSET E : a \in T /\ Closed(T) => x \in T}
<1>1. a \in C /\ C \in SUBSET E
  OBVIOUS
<1>2. Closed(C)
  OBVIOUS
<1>3. ASSUME NEW T \in SUBSET E, a \in T, Closed(T) PROVE C \subseteq T
  BY <1>3
<1> HIDE DEF C
<1>4. ASSUME NEW part \in (SUBSET C) \ {{}, C}
      PROVE  \E x \in part, y \in C \ part : <<x, y>> \in L
  <2> SUFFICES ASSUME \A x \in part, y \in C \ part : <<x, y>> \notin L PROVE FALSE
    OBVIOUS
  <2>1. CASE a \in part
    <3>1. Closed(part)
      BY <1>1, <1>2
    <3> QED BY <1>1, <1>3, <2>1, <3>1
  <2>2. CASE a \notin part
    <3>1. Closed(C \ part)
      BY <1>1, <1>2
    <3>2. C \subseteq C \ part
      BY <1>1, <1>3, <2>2, <3>1
    <3> QED BY <3>2
  <2> QED BY <2>1, <2>2
<1>5. Component(E, C, L)
  BY <1>1, <1>2, <1>4 DEF Component, Connected
<1> QED BY <1>1, <1>5

(* Two components that share a position are the same.                       *)
LEMMA ComponentsMeet ==
  ASSUME NEW E, NEW L, NEW C \in SUBSET E, NEW K \in SUBSET E,
         Component(E, C, L), Component(E, K, L), NEW a \in C, a \in K
  PROVE  C = K
<1>1. ASSUME NEW A \in SUBSET E, NEW B \in SUBSET E, a \in A, a \in B,
             Component(E, A, L), Component(E, B, L), A \cap B # A
      PROVE  FALSE
  <2>1. A \cap B \in (SUBSET A) \ {{}, A}
    BY <1>1
  <2>2. PICK x \in A \cap B, y \in A \ (A \cap B) : <<x, y>> \in L
    BY <1>1, <2>1 DEF Component, Connected
  <2> QED BY <1>1, <2>2 DEF Component
<1> QED BY <1>1

(* What the groups of a sweep have to do with the rows that are shown. *)
IdsOf(g) == {row.osmId : row \in g}

LinkedIds(i, j) == i \in Shown /\ j \in Shown /\ i # j /\ {i, j} \in NearIds

GroupsFit ==
  /\ \A g \in Groups : \E i, j \in IdsOf(g) : LinkedIds(i, j)
  /\ \A i, j \in Shown : LinkedIds(i, j) => \E g \in Groups : i \in IdsOf(g) /\ j \in IdsOf(g)
  /\ \A g, h \in Groups : \A i \in IdsOf(g) : i \in IdsOf(h) => g = h
  /\ \A g \in Groups : IdsOf(g) \subseteq Shown

RowsOfShown ==
  /\ UnmarkedRows \in Seq(RowOfPlace)
  /\ \A n \in DOMAIN UnmarkedRows :
       /\ UnmarkedRows[n].osmId \in Shown
       /\ UnmarkedRows[n].located /\ UnmarkedRows[n].name = "as in Near"
  /\ \A m, n \in DOMAIN UnmarkedRows :
       UnmarkedRows[m].osmId = UnmarkedRows[n].osmId => m = n
  /\ \A id \in Shown : \E n \in DOMAIN UnmarkedRows : UnmarkedRows[n].osmId = id

(* What a sweep reads are the rows that are shown, each once.               *)
LEMMA SweepReadsShown == DirectoryInv /\ NotesInv => RowsOfShown
<1> SUFFICES ASSUME DirectoryInv, NotesInv PROVE RowsOfShown
  OBVIOUS
<1>1. Shown \in SUBSET Nat /\ Shown \subseteq PlaceId /\ IsFiniteSet(Shown)
  BY ShownIsFinite
<1>2. \A id \in Shown : DedupeRow(id) \in RowOfPlace /\ DedupeRow(id).osmId = id
  BY RowsOfIds
<1> DEFINE c == Cardinality(Shown)
<1>3. c \in Nat /\ \A n \in 1 .. c : NthOf(Shown, n) \in Shown
  BY <1>1, FS_CardinalityType, NthOfIs
<1>4. UnmarkedRows = [n \in 1 .. c |-> DedupeRow(NthOf(Shown, n))]
  BY DEF UnmarkedRows
<1>5. \A id \in Shown : \E n \in 1 .. c : NthOf(Shown, n) = id
  BY <1>1, NthOfEvery
<1>6. ASSUME NEW m \in 1 .. c, NEW n \in 1 .. c, NthOf(Shown, m) = NthOf(Shown, n) PROVE m = n
  <2>1. /\ Cardinality(Below(Shown, NthOf(Shown, m))) = m - 1
        /\ Cardinality(Below(Shown, NthOf(Shown, n))) = n - 1
    BY <1>1, NthOfIs
  <2>2. m - 1 = n - 1 /\ m \in Int /\ n \in Int
    BY <1>3, <1>6, <2>1
  <2> QED BY <2>2
<1>7. \A id : DedupeRow(id).located /\ DedupeRow(id).name = "as in Near"
  BY DEF DedupeRow
<1> HIDE DEF c
<1>8. UnmarkedRows \in [1 .. c -> RowOfPlace] /\ DOMAIN UnmarkedRows = 1 .. c
      /\ \A n \in 1 .. c : UnmarkedRows[n] = DedupeRow(NthOf(Shown, n))
  BY <1>2, <1>3, <1>4
<1>9. UnmarkedRows \in Seq(RowOfPlace)
  BY <1>3, <1>8, FunctionIsSequence
<1>10. \A n \in 1 .. c : UnmarkedRows[n].osmId = NthOf(Shown, n)
  BY <1>2, <1>3, <1>8
<1>11. \A m, n \in 1 .. c : UnmarkedRows[m].osmId = UnmarkedRows[n].osmId => m = n
  BY <1>6, <1>10
<1>12. \A id \in Shown : \E n \in 1 .. c : UnmarkedRows[n].osmId = id
  BY <1>5, <1>10
<1>13. \A n \in 1 .. c : /\ UnmarkedRows[n].osmId \in Shown
                         /\ UnmarkedRows[n].located /\ UnmarkedRows[n].name = "as in Near"
  BY <1>3, <1>7, <1>8, <1>10
<1>14. DOMAIN UnmarkedRows = 1 .. c
  BY <1>8
<1> QED BY <1>9, <1>11, <1>12, <1>13, <1>14, Zenon DEF RowsOfShown

(* The groups of a sweep are the components of the rows that are shown.     *)
LEMMA GroupsOfShown == DirectoryInv /\ NotesInv => GroupsFit
<1> SUFFICES ASSUME DirectoryInv, NotesInv PROVE GroupsFit
  OBVIOUS
<1> DEFINE rows == UnmarkedRows
           E == DOMAIN rows
           L == RowLinks(rows, NearIds)
           id(n) == rows[n].osmId
           Image(C) == {rows[i] : i \in C}
<1>1. /\ rows \in Seq(RowOfPlace)
      /\ \A n \in E : id(n) \in Shown /\ rows[n].located /\ rows[n].name = "as in Near"
      /\ \A m, n \in E : id(m) = id(n) => m = n
      /\ \A i \in Shown : \E n \in E : id(n) = i
  BY SweepReadsShown DEF RowsOfShown
<1>2. \A g : g \in Groups <=>
        \E C \in SUBSET E : Component(E, C, L) /\ (\E a, b \in C : a # b) /\ g = Image(C)
  <2>1. \A i, j \in E : rows[i] = rows[j] => i = j
    BY <1>1
  <2> HIDE DEF rows
  <2> QED BY <1>1, <2>1, GroupsAre DEF Groups, RowComponent, rows
<1>3. \A m, n \in E : <<m, n>> \in L <=> LinkedIds(id(m), id(n))
  <2> HIDE DEF rows
  <2> QED BY <1>1 DEF RowLinks, Within, LinkedIds
<1>4. \A C \in SUBSET E : IdsOf(Image(C)) = {id(n) : n \in C}
  BY DEF IdsOf
<1>5. \A m, n \in E : <<m, n>> \in L => <<n, m>> \in L
  <2>1. \A i, j : {i, j} = {j, i}
    OBVIOUS
  <2> HIDE DEF rows, L
  <2> QED BY <1>3, <2>1 DEF LinkedIds
<1> HIDE DEF rows, E, L, id, Image
<1>6. ASSUME NEW g \in Groups PROVE \E i, j \in IdsOf(g) : LinkedIds(i, j)
  <2>1. PICK C \in SUBSET E : Component(E, C, L) /\ (\E a, b \in C : a # b) /\ g = Image(C)
    BY <1>2
  <2>2. PICK a \in C, b \in C : a # b
    BY <2>1
  <2>3. {a} \in (SUBSET C) \ {{}, C}
    BY <2>2
  <2>4. PICK x \in {a}, y \in C \ {a} : <<x, y>> \in L
    BY <2>1, <2>3 DEF Component, Connected
  <2>5. LinkedIds(id(x), id(y))
    BY <1>3, <2>4
  <2> QED BY <1>4, <2>1, <2>4, <2>5
<1>7. ASSUME NEW i \in Shown, NEW j \in Shown, LinkedIds(i, j)
      PROVE  \E g \in Groups : i \in IdsOf(g) /\ j \in IdsOf(g)
  <2>1. PICK m \in E, n \in E : id(m) = i /\ id(n) = j
    BY <1>1
  <2>2. m # n /\ <<m, n>> \in L
    BY <1>3, <1>7, <2>1 DEF LinkedIds
  <2>3. PICK C \in SUBSET E : m \in C /\ Component(E, C, L)
    BY <1>5, ComponentOf
  <2>4. n \in C
    BY <2>2, <2>3 DEF Component
  <2>5. Image(C) \in Groups
    BY <1>2, <2>2, <2>3, <2>4
  <2> QED BY <1>4, <2>1, <2>3, <2>4, <2>5
<1>8. ASSUME NEW g \in Groups, NEW h \in Groups, NEW i \in IdsOf(g), i \in IdsOf(h)
      PROVE  g = h
  <2>1. PICK C \in SUBSET E : Component(E, C, L) /\ g = Image(C)
    BY <1>2
  <2>2. PICK K \in SUBSET E : Component(E, K, L) /\ h = Image(K)
    BY <1>2
  <2>3. PICK m \in C : id(m) = i
    BY <1>4, <2>1
  <2>4. PICK n \in K : id(n) = i
    BY <1>4, <1>8, <2>2
  <2>5. m = n
    BY <1>1, <2>3, <2>4
  <2>6. C = K
    BY <2>1, <2>2, <2>5, ComponentsMeet
  <2> QED BY <2>1, <2>2, <2>6
<1>9. ASSUME NEW g \in Groups PROVE IdsOf(g) \subseteq Shown
  <2>1. PICK C \in SUBSET E : g = Image(C)
    BY <1>2
  <2>2. IdsOf(g) = {id(n) : n \in C}
    BY <1>4, <2>1
  <2>3. \A n \in C : id(n) \in Shown
    BY <1>1
  <2> QED BY <2>2, <2>3
<1> QED BY <1>6, <1>7, <1>8, <1>9 DEF GroupsFit

(* What marking the groups writes: a row that is not the canonical one of   *)
(* its group points at it, and nothing else changes.                        *)
LEMMA Marks ==
  ASSUME DirectoryInv, NotesInv, NEW id \in PlaceId
  PROVE  /\ MarkedBy(Groups)[id] = notes[id] \/ \E g \in Groups : id \in IdsOf(g)
         /\ \A g \in Groups : id \in IdsOf(g) =>
              LET c == chooseCanonical(g, IdOrder)
              IN  /\ c \in g /\ c.osmId \in PlaceId /\ c.osmId \in IdsOf(g)
                  /\ c.osmId = id => MarkedBy(Groups)[id] = notes[id]
                  /\ c.osmId # id => MarkedBy(Groups)[id].duplicateOf = c.osmId
<1>1. GroupsFit
  BY GroupsOfShown
<1> DEFINE of == {g \in Groups : id \in {row.osmId : row \in g}}
<1>2. MarkedBy(Groups)[id] =
        IF of = {} THEN notes[id]
        ELSE LET canonical == chooseCanonical(CHOOSE g \in of : TRUE, IdOrder)
             IN  IF canonical.osmId = id THEN notes[id]
                 ELSE [notes[id] EXCEPT !.duplicateOf = canonical.osmId]
  BY DEF MarkedBy
<1>3. \A g : g \in of <=> g \in Groups /\ id \in IdsOf(g)
  BY DEF IdsOf
<1> HIDE DEF of
<1>4. of = {} => MarkedBy(Groups)[id] = notes[id]
  BY <1>2
<1>5. ASSUME NEW g \in Groups, id \in IdsOf(g)
      PROVE  LET c == chooseCanonical(g, IdOrder)
             IN  /\ c \in g /\ c.osmId \in PlaceId /\ c.osmId \in IdsOf(g)
                 /\ c.osmId = id => MarkedBy(Groups)[id] = notes[id]
                 /\ c.osmId # id => MarkedBy(Groups)[id].duplicateOf = c.osmId
  <2> DEFINE c == chooseCanonical(g, IdOrder)
  <2>1. of = {g}
    BY <1>1, <1>3, <1>5 DEF GroupsFit
  <2>2. (CHOOSE h \in of : TRUE) = g
    BY <2>1
  <2>3. GroupOfRows(g)
    BY GroupsOfRows
  <2>4. c \in g
    BY <2>3, CanonicalExists
  <2> HIDE DEF c
  <2>5. c.osmId \in PlaceId /\ c.osmId \in IdsOf(g)
    BY <2>3, <2>4 DEF GroupOfRows, RowOfPlace, IdsOf
  <2>6. MarkedBy(Groups)[id] = IF c.osmId = id THEN notes[id]
                               ELSE [notes[id] EXCEPT !.duplicateOf = c.osmId]
    BY <1>2, <2>1, <2>2 DEF c
  <2>7. notes[id] \in Note
    BY DEF NotesInv
  <2>8. c.osmId # id => MarkedBy(Groups)[id].duplicateOf = c.osmId
    BY <2>6, <2>7 DEF Note
  <2> QED BY <2>4, <2>5, <2>6, <2>8 DEF c
<1> QED BY <1>3, <1>4, <1>5

(* A sweep whose reading still holds hides all of every group but its       *)
(* canonical row, which stays: the next sweep finds no group, and what is   *)
(* hidden points at a row that is shown.  The groups are the components of  *)
(* all rows, and a component of what is shown afterwards would lie in one.  *)
THEOREM PlacesSweep == PlacesSpec => SweepIsClean
<1>1. ASSUME DirectoryInv, NotesInv, GroupsFit, GroupsFit', [PlacesNext]_placeVars,
             sweep # {}, notes' # notes, sweep' = {}, sweep = Groups
      PROVE  /\ Groups' = {}
             /\ \A id \in PlaceId : notes'[id].duplicateOf # notes[id].duplicateOf =>
                  notes'[id].duplicateOf \in Shown'
  <2>1. SweepMark
    <3>1. PlacesNext /\ sweep' # sweep
      BY <1>1 DEF placeVars
    <3>2. ~ SweepRead /\ ~ SweepFails
      BY <1>1 DEF SweepRead, SweepFails
    <3> QED BY <3>1, <3>2, WhoWrites
  <2>2. /\ notes' = MarkedBy(Groups) /\ custom' = custom /\ view' = view
        /\ view \subseteq PlaceId
    <3>1. view \subseteq PlaceId
      BY <1>1, CustomIds DEF DirectoryInv, TableInv, PlaceId
    <3> QED BY <1>1, <2>1, <3>1 DEF SweepMark
  <2>3. NearIds' = NearIds
    BY <2>2 DEF NearIds, Alike, Describes
  <2>4. ASSUME NEW id \in PlaceId, NEW g \in Groups, id \in IdsOf(g), notes'[id].duplicateOf = None
        PROVE  id = chooseCanonical(g, IdOrder).osmId
    <3>1. None \notin PlaceId
      BY PlacesParameters DEF PlaceId, CustomId
    <3> QED BY <1>1, <2>2, <2>4, <3>1, Marks
  <2>5. ASSUME NEW id \in Shown' PROVE id \in Shown
    <3>1. id \in PlaceId /\ id \in view /\ notes'[id].duplicateOf = None
      BY <2>2 DEF Shown
    <3>2. CASE notes'[id] = notes[id]
      BY <3>1, <3>2 DEF Shown
    <3>3. CASE \E g \in Groups : id \in IdsOf(g)
      BY <1>1, <3>3 DEF GroupsFit
    <3> QED BY <1>1, <2>2, <3>1, <3>2, <3>3, Marks
  <2>6. ASSUME NEW g \in Groups' PROVE FALSE
    <3>1. PICK i, j : LinkedIds(i, j)'
      BY <1>1 DEF GroupsFit
    <3>2. i \in Shown' /\ j \in Shown' /\ i # j /\ {i, j} \in NearIds
      BY <2>3, <3>1 DEF LinkedIds
    <3>3. i \in Shown /\ j \in Shown /\ LinkedIds(i, j)
      BY <2>5, <3>2 DEF LinkedIds
    <3>4. PICK h \in Groups : i \in IdsOf(h) /\ j \in IdsOf(h)
      BY <1>1, <3>3 DEF GroupsFit
    <3>5. /\ i \in PlaceId /\ notes'[i].duplicateOf = None
          /\ j \in PlaceId /\ notes'[j].duplicateOf = None
      BY <2>2, <3>2 DEF Shown
    <3> QED BY <2>4, <3>2, <3>4, <3>5
  <2>7. ASSUME NEW id \in PlaceId, notes'[id].duplicateOf # notes[id].duplicateOf
        PROVE  notes'[id].duplicateOf \in Shown'
    <3>1. PICK g \in Groups : id \in IdsOf(g)
      BY <1>1, <2>2, <2>7, Marks
    <3> DEFINE c == chooseCanonical(g, IdOrder).osmId
    <3>2. c \in PlaceId /\ c \in IdsOf(g) /\ notes'[id].duplicateOf = c
      BY <1>1, <2>2, <2>7, <3>1, Marks
    <3>3. notes'[c] = notes[c]
      BY <1>1, <2>2, <3>2, Marks
    <3> HIDE DEF c
    <3>4. c \in Shown
      BY <1>1, <3>2 DEF GroupsFit
    <3>5. c \in Shown'
      BY <2>2, <3>3, <3>4 DEF Shown
    <3> QED BY <3>2, <3>5
  <2> QED BY <2>6, <2>7
<1>2. PlacesInit => NotesInv
  BY NotesInitially
<1>3. DirectoryInv /\ NotesInv /\ [PlacesNext]_placeVars => NotesInv'
  BY NotesStep
<1>4. DirectoryInv /\ NotesInv => GroupsFit
  BY GroupsOfShown
<1>5. DirectoryInv /\ NotesInv /\ GroupsFit /\ GroupsFit' /\ [PlacesNext]_placeVars =>
        [sweep # {} /\ notes' # notes /\ sweep' = {} /\ sweep = Groups =>
           /\ Groups' = {}
           /\ \A id \in PlaceId : notes'[id].duplicateOf # notes[id].duplicateOf =>
                notes'[id].duplicateOf \in Shown']_placeVars
  BY <1>1
<1> QED
  BY DirectoryInvariant, <1>2, <1>3, <1>4, <1>5, PTL DEF PlacesSpec, SweepIsClean
=============================================================================
