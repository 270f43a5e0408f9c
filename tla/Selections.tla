----------------------------- MODULE Selections -----------------------------
(* Rows that a query or Array.prototype.filter picks, in their order or in  *)
(* another.                                                                 *)
EXTENDS Integers, Sequences, FiniteSets

(* The n-th smallest of a set of numbers. *)
NthOf(P, n) == CHOOSE i \in P : Cardinality({j \in P : j < i}) = n - 1

(* The elements of a sequence at the given positions. *)
ElementsAt(s, P) == [n \in 1 .. Cardinality(P) |-> s[NthOf(P, n)]]

(* The elements of a sequence in another total order of their positions. *)
Arranged(s, before) ==
  LET place(j) == 1 + Cardinality({i \in DOMAIN s : <<i, j>> \in before})
  IN  [n \in DOMAIN s |-> s[CHOOSE j \in DOMAIN s : place(j) = n]]
=============================================================================
