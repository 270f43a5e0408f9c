--------------------------- MODULE StableSorting ---------------------------
(* Sorting as Array.prototype.sort does it, and values that may be absent.  *)
EXTENDS Selections

Null == 0

(* For a comparator that orders: every row goes behind those that come      *)
(* first, and equal rows keep their order.                                  *)
StableSort(s, First(_, _)) ==
  Arranged(s, {p \in (DOMAIN s) \X (DOMAIN s) :
                 \/ First(s[p[1]], s[p[2]])
                 \/ ~ First(s[p[2]], s[p[1]]) /\ p[1] < p[2]})
=============================================================================
