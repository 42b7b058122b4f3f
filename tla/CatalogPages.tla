--------------------------- MODULE CatalogPages ----------------------------
(***************************************************************************)
(* list_products of fastapi_app/api/v1/catalog.py: a client walks through  *)
(* the pages with the cursor of the page before, while staff activate and  *)
(* archive products.  Filters by category, brand and price are part of     *)
(* what is listed.                                                         *)
(***************************************************************************)
EXTENDS Naturals, FiniteSets, Sequences, SequencesExt

CONSTANTS
  Products,
  Created,   \* Product.created_at; no two products have the same
  Sorts,     \* values of the parameter sort
  Rank,      \* for a sort other than newest: price or sales, best first
  PageSize

ASSUME PagesAssumption ==
  /\ IsFiniteSet(Products)
  /\ Created \in [Products -> Nat \ {0}]
  /\ \A p, q \in Products : p # q => Created[p] # Created[q]
  /\ "newest" \in Sorts
  /\ Rank \in [Sorts \ {"newest"} -> [Products -> Nat]]
  /\ PageSize \in Nat \ {0}

VARIABLES
  listed,  \* the active products that match the filters
  walk,    \* the client's walk: its sort, cursor, and what it has seen
  steady   \* the products that were listed all along since the walk began

pageVars == <<listed, walk, steady>>

NoCursor == 0
NoSort == "none"
NoWalk == [sort |-> NoSort, cursor |-> NoCursor, seen |-> <<>>, over |-> FALSE]

\* ORDER BY of each sort.
Before(sort, p, q) ==
  IF sort = "newest" \/ Rank[sort][p] = Rank[sort][q]
  THEN Created[p] > Created[q]
  ELSE Rank[sort][p] > Rank[sort][q]

\* WHERE of the query: with every sort the cursor is a created_at.
Older(cursor) ==
  IF cursor = NoCursor THEN listed ELSE {p \in listed : Created[p] < cursor}

\* The rows of a query in its order: the i-th has i - 1 rows before it.
InOrder(sort, rows) ==
  [i \in 1..Cardinality(rows) |->
     CHOOSE p \in rows : Cardinality({q \in rows : Before(sort, q, p)}) = i - 1]

PageOnly(sort, cursor) ==
  LET rows == InOrder(sort, Older(cursor))
  IN  SubSeq(rows, 1, IF Len(rows) < PageSize THEN Len(rows) ELSE PageSize)

\* The rows of the query: one more than the page, to learn whether there is
\* another.
RowsAfter(sort, cursor) ==
  LET rows == InOrder(sort, Older(cursor))
  IN  SubSeq(rows, 1, IF Len(rows) < PageSize + 1 THEN Len(rows) ELSE PageSize + 1)

PagesInit ==
  /\ listed \in SUBSET Products
  /\ walk = NoWalk
  /\ steady = {}

---------------------------------------------------------------------------
(* Operations                                                              *)

\* Staff activate, archive or delete a product, or edit what filters test.
Relist(p) ==
  /\ listed' = IF p \in listed THEN listed \ {p} ELSE listed \cup {p}
  /\ steady' = steady \ {p}
  /\ UNCHANGED walk

StartWalk(sort) ==
  /\ walk = NoWalk
  /\ walk' = [NoWalk EXCEPT !.sort = sort]
  /\ steady' = listed
  /\ UNCHANGED listed

\* One request of list_products.
NextPage ==
  /\ walk # NoWalk /\ ~walk.over
  /\ LET rows == RowsAfter(walk.sort, walk.cursor)
         hasMore == Len(rows) > PageSize
         page == IF hasMore THEN SubSeq(rows, 1, PageSize) ELSE rows
     IN  walk' = [walk EXCEPT !.seen = @ \o page,
                              !.over = ~hasMore,
                              !.cursor = IF hasMore THEN Created[Last(page)] ELSE @]
  /\ UNCHANGED <<listed, steady>>

\* The client loses interest, or its request fails.
EndWalk ==
  /\ walk # NoWalk
  /\ walk' = NoWalk
  /\ steady' = {}
  /\ UNCHANGED listed

PagesNext ==
  \/ \E p \in Products : Relist(p)
  \/ \E sort \in Sorts : StartWalk(sort)
  \/ NextPage
  \/ EndWalk

PagesSpec == PagesInit /\ [][PagesNext]_pageVars

---------------------------------------------------------------------------
(* Property                                                                *)

PagesTypeOK ==
  /\ listed \subseteq Products
  /\ walk \in [sort : Sorts \cup {NoSort}, cursor : Nat, seen : Seq(Products), over : BOOLEAN]
  /\ steady \subseteq listed

\* A client that walks the newest products to the end has seen every product
\* that was listed all the time, whatever else came and went meanwhile
\* (LIMIT page_size + 1 and next_cursor of list_products).
WalkMissesNothing ==
  walk.over /\ walk.sort = "newest" => \A p \in steady : Contains(walk.seen, p)
=============================================================================
