--------------------------- MODULE ReadModelPages ---------------------------
(***************************************************************************)
(* The read models (src/src/read-models/runtime.ts): a client walks a      *)
(* collection page by page, each page a call of its own that lists the     *)
(* store anew, while RecordFamilies writes records and syncs move the head *)
(* tree.  A page is sorted in the order of the locale; what is past the    *)
(* cursor is decided by comparing code units.                              *)
(*                                                                         *)
(* An item is its sort key <<created_at, record_ref>>.  A record's time is *)
(* its own; the entries of a tree share the tree's, and a path is its      *)
(* place in the order of the locale.                                       *)
(***************************************************************************)
EXTENDS RecordFamilies

CONSTANTS
    Collections,    \* kinds of records walked, and "tree" for the head tree's entries
    Limit,          \* items per page
    CodeUnits       \* paths, in locale order, to their places by code unit

ASSUME LimitAssumption == Limit \in Nat \ {0}
ASSUME CodeUnitsAssumption == CodeUnits \in Seq(Nat \ {0}) /\ IsInjective(CodeUnits)
ASSUME NoCursorAssumption == None \notin Nat \X Nat

VARIABLES
    tree,       \* the head tree: created_at and paths
    walk        \* the client's walk: what it asks, has seen and is owed

pageVars == <<vars, tree, walk>>

-----------------------------------------------------------------------------
Paths == DOMAIN CodeUnits

\* The item builders keep time and reference of a record; an entry has the
\* time of its tree.
RecordItem(n) == <<files[n].record.created, 0>>
TreeItem(p) == <<tree.created, p>>

\* collectionItems.
Items(c) == IF c = "tree" THEN {TreeItem(p) : p \in tree.paths} ELSE {RecordItem(n) : n \in OfKind(c)}

\* sortItems.
SortedBefore(x, y) == x[1] < y[1] \/ (x[1] = y[1] /\ x[2] < y[2])

\* pageItems: sortKey(item) > cursor.
CodeUnit(ref) == IF ref = 0 THEN 0 ELSE CodeUnits[ref]
\* Mutant: only the time is compared.
PastCursorTime(x, cursor) == (cursor = None) \/ x[1] > cursor[1]

PastCursor(x, cursor) ==
    \/ cursor = None
    \/ x[1] > cursor[1]
    \/ x[1] = cursor[1] /\ CodeUnit(x[2]) > CodeUnit(cursor[2])

AfterCursor(c, cursor) == {x \in Items(c) : PastCursor(x, cursor)}

\* The first items of a sorted list, and the last of these.
FirstItems(after) == {x \in after : Cardinality({y \in after : SortedBefore(y, x)}) < Limit}
LastItem(page)    == CHOOSE x \in page : \A y \in page : y = x \/ SortedBefore(y, x)

NoWalk == [on |-> None, cursor |-> None, ended |-> FALSE, seen |-> {}, owed |-> {}, repeated |-> FALSE]

PageInit ==
    /\ Init
    /\ tree = [created |-> 0, paths |-> Paths]
    /\ walk = NoWalk

\* A sync moves the head to a later tree.
MoveHead ==
    /\ calls < MaxCalls
    /\ calls' = calls + 1
    /\ \E paths \in SUBSET Paths : tree' = [created |-> calls + 1, paths |-> paths]
    /\ UNCHANGED <<files, proposals, answers, pc, doing, walk>>

BeginWalk(c) ==
    /\ walk.on = None
    /\ c = "tree" \/ Readable(c)
    /\ walk' = [NoWalk EXCEPT !.on = c, !.owed = Items(c)]
    /\ UNCHANGED <<vars, tree>>

\* list: the entries of a head that has moved are owed instead.
ReadPage ==
    LET c     == walk.on
        after == AfterCursor(c, walk.cursor)
        page  == FirstItems(after)
    IN  /\ c # None /\ ~walk.ended
        /\ c = "tree" \/ Readable(c)
        /\ walk' = [walk EXCEPT
                       !.cursor = IF page # after THEN LastItem(page) ELSE @,
                       !.ended = page = after,
                       !.seen = @ \cup page,
                       !.owed = IF c = "tree" THEN Items(c) ELSE @,
                       !.repeated = @ \/ walk.seen \cap page # {}]
        /\ UNCHANGED <<vars, tree>>

EndWalk ==
    /\ walk.ended
    /\ walk' = NoWalk
    /\ UNCHANGED <<vars, tree>>

PageNext ==
    \/ RecordNext /\ UNCHANGED <<tree, walk>>
    \/ MoveHead
    \/ \E c \in Collections : BeginWalk(c)
    \/ ReadPage
    \/ EndWalk

PageSpec == PageInit /\ [][PageNext]_pageVars

-----------------------------------------------------------------------------
\* File names that localeCompare and the code units put in the same order.
OrdersAgree == \A p, q \in Paths : p < q => CodeUnits[p] < CodeUnits[q]

\* A walk that has come to its end has shown every record that was there when
\* it began, or every entry of the head tree it ended on, and nothing twice,
\* whatever was written and committed between its pages: for the entries of a
\* tree as long as its names sort one way.
WalkIsComplete ==
    (walk.on = "tree" => OrdersAgree) =>
        /\ walk.ended => walk.owed \subseteq walk.seen
        /\ ~walk.repeated

\* Release note of 1.1.0: "Stable ordering, filtering, pagination".  The same
\* of any names.
PaginationIsStable ==
    /\ walk.ended => walk.owed \subseteq walk.seen
    /\ ~walk.repeated

=============================================================================
