------------------------------ MODULE Listing ------------------------------
(* The two paged lists: the directory, ranked in memory (listPlacesRanked)  *)
(* and the feed, ordered and cut by the database (getFeedPage).  A name, a  *)
(* kind, a town or a date is a number in its sort order; Null is 0.         *)
EXTENDS StableSorting, SequencesExt

resolvePage(matched, page, pageSize) ==
  LET size == Max({1, pageSize})
      pageCount == Max({1, (matched + size - 1) \div size})
      clamped == Min({Max({page, 1}), pageCount})
  IN  [page |-> clamped, pageCount |-> pageCount,
       start |-> (clamped - 1) * size, end |-> Min({clamped * size, matched})]

(* The ids in an order a query may return them in: rows that tie under its  *)
(* ORDER BY come in any order, and in another one for the next query.       *)
QueryOrders(ids, Before(_, _)) ==
  {order \in SetToSeqs(ids) :
     \A m, n \in DOMAIN order : m < n => ~ Before(order[n], order[m])}

-----------------------------------------------------------------------------
(* The directory.  A place is [name, kind, town, brand]; cfg is what        *)
(* readCategoryConfig returns: a tier for every kind, and what to hide.     *)
NullsLast(a, b) == (a # Null /\ b = Null) \/ (a # Null /\ b # Null /\ a < b)

TownThenName(a, b) ==
  NullsLast(a.town, b.town) \/ (a.town = b.town /\ a.name < b.name)

(* listPlaces: ORDER BY town, name LIMIT; which rows its WHERE lets through *)
(* is the caller's.                                                         *)
listPlaces(places, limit) ==
  LET before(i, j) == TownThenName(places[i], places[j])
  IN  {SubSeq(order, 1, Min({limit, Len(order)})) :
         order \in QueryOrders(DOMAIN places, before)}

Annotated(id, place, cfg) ==
  [id |-> id, place |-> place,
   tier |-> cfg.tierOf[place.kind], isChain |-> place.brand]

rankCompare(a, z) ==
  \/ ~ a.isChain /\ z.isChain
  \/ /\ a.isChain = z.isChain
     /\ a.tier < z.tier \/ (a.tier = z.tier /\ a.place.name < z.place.name)

ValueOf(row, sort) == IF sort = "tier" THEN row.tier ELSE row.place[sort]

(* Mutant of ColumnCompare: the direction turns the nulls too. *)
ColumnCompareNullsTurn(a, z, sort, dir) ==
  LET av == ValueOf(a, sort)
      bv == ValueOf(z, sort)
  IN  IF dir = "asc" THEN NullsLast(av, bv) ELSE NullsLast(bv, av)

ColumnCompare(a, z, sort, dir) ==
  LET av == ValueOf(a, sort)
      bv == ValueOf(z, sort)
  IN  \/ av # Null /\ bv = Null
      \/ /\ av # Null /\ bv # Null
         /\ \/ IF dir = "asc" THEN av < bv ELSE av > bv
            \/ av = bv /\ a.place.name < z.place.name

(* sort = "undefined" is the default ranking. *)
ComesFirst(a, z, sort, dir) ==
  IF sort = "undefined" THEN rankCompare(a, z) ELSE ColumnCompare(a, z, sort, dir)

sortRankedPlaces(list, sort, dir) ==
  LET first(a, z) == ComesFirst(a, z, sort, dir)
  IN  StableSort(list, first)

(* What the filters leave of the annotated rows. *)
VisiblePlace(row, cfg, filters) ==
  /\ row.tier = 4 => filters.includeTier4 \/ ~ cfg.hideTier4
  /\ row.isChain => filters.includeChains \/ ~ cfg.hideChains
  /\ row.tier <= filters.maxTier

(* listed is what listPlaces returned; pageSize = 0 is the whole list on    *)
(* one page.                                                                *)
listPlacesRanked(listed, places, cfg, filters) ==
  LET annotated == [n \in DOMAIN listed |->
                      Annotated(listed[n], places[listed[n]], cfg)]
      ordered == sortRankedPlaces(
                   ElementsAt(annotated, {i \in DOMAIN annotated :
                                VisiblePlace(annotated[i], cfg, filters)}),
                   filters.sort, filters.dir)
      window == IF filters.pageSize > 0
                THEN resolvePage(Len(ordered), filters.page, filters.pageSize)
                ELSE [page |-> 1, pageCount |-> 1,
                      start |-> 0, end |-> Len(ordered)]
  IN  [rows |-> SubSeq(ordered, window.start + 1, window.end),
       total |-> Len(annotated), matched |-> Len(ordered),
       page |-> window.page, pageCount |-> window.pageCount]

-----------------------------------------------------------------------------
(* The feed.  A find is [status, expires, discovered, starts, type]; today  *)
(* is the date of the query.                                                *)
Unexpired(find, today) == find.expires = Null \/ find.expires >= today

FeedWhere(find, view, today, types) ==
  /\ view = "default" => /\ find.status \notin {"hidden", "provisional"}
                         /\ Unexpired(find, today)
  /\ view = "starred" => find.status = "starred" /\ Unexpired(find, today)
  /\ view = "hidden" => find.status = "hidden"
  /\ find.type \in types

feedOrderSql(a, b, sort) ==
  CASE sort = "oldest"  -> a.discovered < b.discovered
    [] sort = "soonest" -> NullsLast(a.starts, b.starts)
    [] sort = "newest"  -> a.discovered > b.discovered

FeedOrders(finds, view, today, types, sort) ==
  LET before(i, j) == feedOrderSql(finds[i], finds[j], sort)
  IN  QueryOrders({i \in DOMAIN finds : FeedWhere(finds[i], view, today, types)},
                  before)

(* getFeedPage with order for its second query; its first one, the count,   *)
(* came a moment earlier and said total.                                    *)
getFeedPage(order, total, page, pageSize) ==
  LET window == resolvePage(total, page, pageSize)
      last == Min({window.start + pageSize, Len(order)})
  IN  [rows |-> SubSeq(order, window.start + 1, last), total |-> total,
       page |-> window.page, pageCount |-> window.pageCount]
=============================================================================
