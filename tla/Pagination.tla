----------------------------- MODULE Pagination -----------------------------
(***************************************************************************)
(* Entries::list, the keyset pagination behind GET                         *)
(* /projects/{id}/entries (crates/marmotte-core/src/db/entries.rs), and an *)
(* admin client that follows next_cursor from page to page while every     *)
(* other method of the metadata store runs between two pages.              *)
(*                                                                         *)
(* The order is (sort column, id).  A page is the first `limit' matching   *)
(* rows after the cursor, and the cursor is the sort value and the id of   *)
(* the last row as they were when that page was read.  Three of the        *)
(* columns are immutable for an id or move with the row: path and id never *)
(* change, last_accessed and size_bytes do.                                *)
(***************************************************************************)
EXTENDS MetadataDb, Sequences

CONSTANTS
    PathRank,       \* [Key -> Nat], the place of each key's path in BINARY order
    Asked,          \* the ListFilters clients use; limits are clamped to 1..1000
    MaxChanges      \* bound: steps of others during one traversal

SortField == {"path", "last_accessed", "size", "created_at"}

(* A ListFilter: kind and path_prefix as the set of keys they select, and   *)
(* the filter on pinned, if any.                                            *)
Filter == [project_id : ProjectId, keys : SUBSET Key, pinned : BOOLEAN \cup {NULL},
           sort : SortField, desc : BOOLEAN, limit : 1..1000]

(* What a cursor says of a row: its sort value and its id. *)
Cursor == [sv : Nat, id : EntryId]

ASSUME PaginationAssumption ==
    /\ PathRank \in [Key -> Nat]
    /\ Asked \subseteq Filter
    /\ MaxChanges \in Nat
    /\ NULL \notin Cursor

VARIABLE pager      \* one client and what it has been given so far

pagerVars == <<dbVars, pager>>

(* The columns of SortField::column and sort_value_of, of a row:            *)
(* created_at sorts by id.                                                  *)
SortValue(sort, i, row) ==
    CASE sort = "path"          -> PathRank[row.key]
      [] sort = "last_accessed" -> row.last_accessed
      [] sort = "size"          -> Size[row.blob_hash]
      [] sort = "created_at"    -> i

(* ORDER BY col, id, both ASC or both DESC, which is also the comparison    *)
(* with the cursor: (col cmp ? OR (col = ? AND id cmp ?)).                  *)
Before(desc, a, b) ==
    \/ IF desc THEN a.sv > b.sv ELSE a.sv < b.sv
    \/ a.sv = b.sv /\ (IF desc THEN a.id > b.id ELSE a.id < b.id)

(* The WHERE clause without the cursor, of a row or its absence. *)
Matches(f, row) ==
    /\ row # NULL
    /\ row.project_id = f.project_id
    /\ row.key \in f.keys
    /\ f.pinned # NULL => row.pinned = f.pinned

(* The cursor that points at entry i. *)
Position(f, i) == [sv |-> SortValue(f.sort, i, entries[i]), id |-> i]

(* Mutant of AfterCursor: the comparison includes the cursor. *)
AfterCursorInclusive(f, cursor) ==
    {i \in EntryId : /\ Matches(f, entries[i])
                     /\ cursor # NULL => ~Before(f.desc, Position(f, i), cursor)}

(* Mutant of AfterCursor: the comparison on the sort column alone. *)
AfterCursorColumnOnly(f, cursor) ==
    {i \in EntryId : /\ Matches(f, entries[i])
                     /\ cursor # NULL => Before(f.desc, [cursor EXCEPT !.id = 0], [Position(f, i) EXCEPT !.id = 0])}

(* The rows of the query before LIMIT. *)
AfterCursor(f, cursor) ==
    {i \in EntryId : /\ Matches(f, entries[i])
                     /\ cursor # NULL => Before(f.desc, cursor, Position(f, i))}

(* What ORDER BY ... LIMIT n makes of the rows at these positions: they come *)
(* in order, and one is left out only if n others come before it.           *)
Fetch(f, found, n) ==
    {rows \in UNION {[1..m -> found] : m \in 0..n} :
        /\ \A j, k \in DOMAIN rows : j < k => Before(f.desc, rows[j], rows[k])
        /\ \A x \in found :
              \/ \E j \in DOMAIN rows : rows[j] = x
              \/ DOMAIN rows = 1..n /\ \A j \in DOMAIN rows : Before(f.desc, rows[j], x)}

-----------------------------------------------------------------------------
NoPager ==
    [pc |-> "idle", filter |-> NULL, cursor |-> NULL, given |-> << >>,
     changes |-> 0, present |-> {}, raised |-> {}, lowered |-> {}]

(* Mutant of Page: the cursor is taken from the first row of the page. *)
PageCursorFirstRow(g, rows) ==
    LET limit == g.filter.limit
        more  == Len(rows) > limit
    IN  [g EXCEPT !.pc     = IF more THEN "reading" ELSE "done",
                  !.given  = @ \o (IF more THEN SubSeq(rows, 1, limit) ELSE rows),
                  !.cursor = IF more THEN rows[1] ELSE NULL]

(* The page that Entries::list makes of the rows it fetched, one more than   *)
(* the limit if there are so many: the extra row says that there is another *)
(* page and is dropped.  The client ends with the page that has no          *)
(* next_cursor.                                                             *)
Page(g, rows) ==
    LET limit == g.filter.limit
        more  == Len(rows) > limit
    IN  [g EXCEPT !.pc     = IF more THEN "reading" ELSE "done",
                  !.given  = @ \o (IF more THEN SubSeq(rows, 1, limit) ELSE rows),
                  !.cursor = IF more THEN rows[limit] ELSE NULL]

(* Entries::list on behalf of the client g: the query, then the page. *)
List(g) ==
    LET f == g.filter
    IN  \E rows \in Fetch(f, {Position(f, i) : i \in AfterCursor(f, g.cursor)}, f.limit + 1) :
            pager' = Page(g, rows)

(* The first page: no cursor yet. *)
ListFirst(f) ==
    /\ pager.pc = "idle"
    /\ f.project_id \in LiveProjects
    /\ List([NoPager EXCEPT !.filter = f,
                            !.present = {i \in EntryId : Matches(f, entries[i])}])
    /\ UNCHANGED dbVars

(* A further page.  The route looks the project up first, in a query of its *)
(* own; one that is deleted between the two yields an empty last page.      *)
ListNext ==
    /\ pager.pc = "reading"
    /\ List(pager)
    /\ UNCHANGED dbVars

(* The project is gone, or there never was one: 404. *)
ListNotFound(f) ==
    /\ \/ pager.pc = "idle"
       \/ pager.pc = "reading" /\ pager.filter = f
    /\ f.project_id \notin LiveProjects
    /\ pager' = [pager EXCEPT !.pc = "not_found"]
    /\ UNCHANGED dbVars

(* The client drops what it was given.  Nothing else reads it, so the rest  *)
(* of the system waits for this step (DbStep).                              *)
ListEnd ==
    /\ pager.pc \in {"done", "not_found"}
    /\ pager' = NoPager
    /\ UNCHANGED dbVars

(* What the properties compare with: the entries that have matched since    *)
(* the first page, and those whose sort value has gone up or down since.    *)
Track ==
    LET f      == pager.filter
        old(i) == SortValue(f.sort, i, entries[i])
        new(i) == SortValue(f.sort, i, entries'[i])
        live   == {i \in LiveEntries : entries'[i] # NULL}
    IN  pager' = [pager EXCEPT !.changes = @ + 1,
                               !.present = {i \in @ : Matches(f, entries'[i])},
                               !.raised  = @ \cup {i \in live : new(i) > old(i)},
                               !.lowered = @ \cup {i \in live : new(i) < old(i)}]

(* Any method of the metadata store, before the first page or between two. *)
DbStep ==
    \/ pager.pc = "idle" /\ DbNext /\ UNCHANGED pager
    \/ pager.pc = "reading" /\ pager.changes < MaxChanges /\ DbNext /\ Track

PageStep ==
    \/ \E f \in Asked : ListFirst(f)
    \/ ListNext
    \/ \E f \in Asked : ListNotFound(f)
    \/ ListEnd

PagerInit == DbInit /\ pager = NoPager

PagerNext == DbStep \/ PageStep

PagerSpec == PagerInit /\ [][PagerNext]_pagerVars

-----------------------------------------------------------------------------
(* Properties *)

Given == {pager.given[n].id : n \in DOMAIN pager.given}

(* Every row comes after the one before it, within a page and across pages, *)
(* by the values they had when they were read: the cursor never goes back,  *)
(* so a traversal cannot circle.                                            *)
PagesInOrder ==
    \A n \in 1..(Len(pager.given) - 1) :
        Before(pager.filter.desc, pager.given[n], pager.given[n + 1])

(* A complete traversal misses an entry that matched throughout only if its *)
(* sort value moved against the direction of travel meanwhile: sorted by    *)
(* path or by creation nothing is missed.  By last_accessed descending a    *)
(* touch may hide an entry, and ascending only one that sets an earlier     *)
(* time than the entry had.                                                 *)
MissedOnlyIfMoved ==
    pager.pc = "done" =>
        \A i \in pager.present \ Given :
            i \in IF pager.filter.desc THEN pager.raised ELSE pager.lowered

(* An entry is returned twice only if its sort value moved with the         *)
(* direction of travel: sorted by path or by creation never.                *)
RepeatedOnlyIfMoved ==
    \A m, n \in DOMAIN pager.given :
        m # n /\ pager.given[m].id = pager.given[n].id =>
            pager.given[m].id \in IF pager.filter.desc THEN pager.lowered ELSE pager.raised
=============================================================================
