-------------------------- MODULE DuplicateGroups --------------------------
(* place-dedupe.ts: which rows of the directory describe the same business, *)
(* and which of them stands for it.  Rows come in the order of a query; two *)
(* ids are within the radius or not, in any symmetric way, since distances  *)
(* are measured on the globe.                                               *)
EXTENDS Selections

PlaceStatus == {"active", "unknown", "closed"}

(* A DedupeRow is [osmId, name, located, status, facts]: its name as        *)
(* normalizeTitle leaves it, whether it has coordinates, and how many of    *)
(* its optional fields are filled (richness).                               *)
(* The rows of one name, in order: those without coordinates stay out. *)
Bucket(rows, name) ==
  ElementsAt(rows, {i \in DOMAIN rows : rows[i].located /\ rows[i].name = name})

(* metersBetween of two rows is DUP_RADIUS_M or less. *)
Within(radius, a, b) == {a.osmId, b.osmId} \in radius

-----------------------------------------------------------------------------
(* Union-find over the positions of a bucket. *)
RootOf(parent, i) ==
  LET root[j \in DOMAIN parent] == IF parent[j] = j THEN j ELSE root[parent[j]]
  IN  root[i]

PathOf(parent, i) ==
  LET path[j \in DOMAIN parent] ==
        IF parent[j] = j THEN {} ELSE {j} \cup path[parent[j]]
  IN  path[i]

(* find: everything on the way to the root is hung under it. *)
Compressed(parent, i) ==
  [j \in DOMAIN parent |->
     IF j \in PathOf(parent, i) THEN RootOf(parent, i) ELSE parent[j]]

(* Mutant of Union: the row is hung over, not the root of its cluster. *)
UnionOfRow(parent, i, j) ==
  [Compressed(parent, j) EXCEPT ![i] = RootOf(parent, j)]

(* parent[find(i)] = find(j) *)
Union(parent, i, j) ==
  [Compressed(Compressed(parent, i), j)
     EXCEPT ![RootOf(parent, i)] = RootOf(parent, j)]

(* The two loops over i < j, flattened: the k-th step looks at one pair. *)
Joined(bucket, radius) ==
  LET n == Len(bucket)
      pair(k) == <<((k - 1) \div n) + 1, ((k - 1) % n) + 1>>
      joined[k \in 0 .. n * n] ==
        IF k = 0 THEN [i \in 1 .. n |-> i]
        ELSE LET before == joined[k - 1]
                 i == pair(k)[1]
                 j == pair(k)[2]
             IN  IF i < j /\ Within(radius, bucket[i], bucket[j])
                 THEN Union(before, i, j)
                 ELSE before
  IN  joined[n * n]

ClustersOf(bucket, radius) ==
  LET parent == Joined(bucket, radius)
  IN  {{bucket[j] : j \in {k \in DOMAIN bucket : RootOf(parent, k) = i}} :
         i \in DOMAIN bucket}

groupPlaceDuplicates(rows, radius) ==
  {cluster \in UNION {ClustersOf(Bucket(rows, name), radius) :
                        name \in {rows[i].name : i \in DOMAIN rows}} :
     Cardinality(cluster) >= 2}

-----------------------------------------------------------------------------
STATUS_RANK == [active |-> 0, unknown |-> 1, closed |-> 2]

(* The order chooseCanonical sorts by; Before is localeCompare of two ids. *)
Precedes(a, b, Before) ==
  \/ STATUS_RANK[a.status] < STATUS_RANK[b.status]
  \/ /\ a.status = b.status
     /\ a.facts > b.facts
  \/ /\ a.status = b.status
     /\ a.facts = b.facts
     /\ <<a.osmId, b.osmId>> \in Before

chooseCanonical(group, Before) ==
  CHOOSE r \in group : \A other \in group \ {r} : Precedes(r, other, Before)
=============================================================================
