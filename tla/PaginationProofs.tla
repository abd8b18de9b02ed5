-------------------------- MODULE PaginationProofs --------------------------
(* Proofs of what a client that follows next_cursor may see, for every       *)
(* number of entries, every filter and any number of changes between pages.  *)
EXTENDS Pagination, MetadataDbProofs

-----------------------------------------------------------------------------
(* The inductive invariant.  Its parts are stated of a client g, so that they *)
(* serve for the first page and for the ones that follow a cursor.            *)

PagerRecord ==
    [pc : {"idle", "reading", "done", "not_found"}, filter : Filter \cup {NULL},
     cursor : Cursor \cup {NULL}, given : Seq(Cursor), changes : Nat,
     present : SUBSET EntryId, raised : SUBSET EntryId, lowered : SUBSET EntryId]

(* The entries whose sort value moved against, and with, the direction of    *)
(* travel since the first page.                                             *)
MovedAgainst(g) == IF g.filter.desc THEN g.raised ELSE g.lowered

MovedWith(g) == IF g.filter.desc THEN g.lowered ELSE g.raised

GivenTo(g) == {g.given[n].id : n \in DOMAIN g.given}

(* All rows given are in order, not only neighbours. *)
InOrder(g) ==
    \A m, n \in DOMAIN g.given : m < n => Before(g.filter.desc, g.given[m], g.given[n])

(* The cursor is the last row given. *)
CursorIsLast(g) ==
    IF g.cursor = NULL
    THEN g.given = << >>
    ELSE /\ g.cursor \in Cursor
         /\ Len(g.given) > 0
         /\ g.cursor = g.given[Len(g.given)]

(* An entry that has matched throughout was given, is ahead of the cursor,   *)
(* or has moved against the direction of travel.                            *)
NothingSkipped(g) ==
    \A i \in g.present :
        /\ Matches(g.filter, entries[i])
        /\ i \in GivenTo(g) \cup MovedAgainst(g) \cup AfterCursor(g.filter, g.cursor)

(* Entry i, if it still exists, has not moved ahead of row r. *)
NotAhead(f, r, i) ==
    IF entries[i] = NULL
    THEN i < nextEntry
    ELSE LET sv == SortValue(f.sort, i, entries[i])
         IN  IF f.desc THEN sv >= r.sv ELSE sv <= r.sv

(* A row given is not ahead of where it was, or it moved with the direction  *)
(* of travel.                                                               *)
NothingAhead(g) ==
    \A n \in DOMAIN g.given :
        \/ g.given[n].id \in MovedWith(g)
        \/ NotAhead(g.filter, g.given[n], g.given[n].id)

(* RepeatedOnlyIfMoved, of g. *)
NoneTwice(g) ==
    \A m, n \in DOMAIN g.given :
        m # n /\ g.given[m].id = g.given[n].id => g.given[m].id \in MovedWith(g)

(* A client that may ask for its next page. *)
Ready(g) ==
    /\ g.filter \in Filter
    /\ InOrder(g)
    /\ CursorIsLast(g)
    /\ NothingSkipped(g)
    /\ NothingAhead(g)
    /\ NoneTwice(g)

PagerInv ==
    /\ DbTypeOK
    /\ pager \in PagerRecord
    /\ pager.pc = "idle" => pager = NoPager
    /\ pager.pc = "reading" => Ready(pager) /\ pager.cursor # NULL
    /\ InOrder(pager)
    /\ NoneTwice(pager)
    /\ MissedOnlyIfMoved

-----------------------------------------------------------------------------
(* Facts about the order of the query, and about where a row is in it. *)

(* The order of ORDER BY col, id is transitive. *)
LEMMA BeforeTransitive ==
    ASSUME NEW d \in BOOLEAN, NEW a \in Cursor, NEW b \in Cursor, NEW c \in Cursor,
           Before(d, a, b), Before(d, b, c)
    PROVE  Before(d, a, c)
  BY BoundsAssumption DEF Before, Cursor, EntryId

(* Two rows of one entry are in order only if their sort values differ. *)
LEMMA BeforeOfSameId ==
    ASSUME NEW d \in BOOLEAN, NEW a \in Cursor, NEW b \in Cursor,
           a.id = b.id, Before(d, a, b)
    PROVE  IF d THEN a.sv > b.sv ELSE a.sv < b.sv
  BY BoundsAssumption DEF Before, Cursor, EntryId

(* Every column that a list may be sorted by holds a natural number. *)
LEMMA SortValueType ==
    ASSUME NEW f \in Filter, NEW i \in EntryId, NEW row \in EntryRow
    PROVE  SortValue(f.sort, i, row) \in Nat
<1>1. f.sort \in SortField
  BY DEF Filter
<1>2. /\ row.key \in Key /\ row.last_accessed \in Nat /\ row.blob_hash \in Hash /\ i \in Nat
  BY BoundsAssumption DEF EntryRow, Time, EntryId
<1>3. PathRank[row.key] \in Nat /\ Size[row.blob_hash] \in Nat
  BY <1>2, PaginationAssumption, SizeAssumption
<1> QED
  BY <1>1, <1>2, <1>3 DEF SortField, SortValue

(* A row that exists can be pointed at. *)
LEMMA PositionType ==
    ASSUME DbTypeOK, NEW f \in Filter, NEW i \in EntryId, entries[i] # NULL
    PROVE  /\ Position(f, i) \in Cursor
           /\ Position(f, i).id = i
           /\ Position(f, i).sv = SortValue(f.sort, i, entries[i])
  BY SortValueType DEF Position, Cursor, DbTypeOK

(* What the query finds: rows that exist, match and are ahead of the cursor. *)
LEMMA FoundRows ==
    ASSUME DbTypeOK, NEW f \in Filter, NEW c \in Cursor \cup {NULL},
           NEW x \in {Position(f, i) : i \in AfterCursor(f, c)}
    PROVE  /\ x \in Cursor /\ x.id \in EntryId
           /\ entries[x.id] # NULL
           /\ x = Position(f, x.id)
           /\ x.sv = SortValue(f.sort, x.id, entries[x.id])
           /\ c # NULL => Before(f.desc, c, x)
<1>1. PICK i \in AfterCursor(f, c) : x = Position(f, i)
  OBVIOUS
<1>2. i \in EntryId /\ entries[i] # NULL
  BY DEF AfterCursor, Matches
<1>3. c # NULL => Before(f.desc, c, Position(f, i))
  BY DEF AfterCursor
<1> QED
  BY <1>1, <1>2, <1>3, PositionType

-----------------------------------------------------------------------------
(* The client g after a page. *)
WithPage(g, pc, page, c) == [g EXCEPT !.pc = pc, !.given = @ \o page, !.cursor = c]

(* What a page changes of a client, and that the result has its type. *)
Paged(r, g, pc, page, c) ==
    /\ r \in PagerRecord
    /\ r.filter = g.filter /\ r.present = g.present
    /\ r.raised = g.raised /\ r.lowered = g.lowered
    /\ r.given = g.given \o page /\ r.pc = pc /\ r.cursor = c

(* A client's record after a page has its type. *)
LEMMA PageType ==
    ASSUME NEW g \in PagerRecord, NEW pc \in {"reading", "done"}, NEW page \in Seq(Cursor),
           NEW c \in Cursor \cup {NULL}
    PROVE  Paged(WithPage(g, pc, page, c), g, pc, page, c)
<1> DEFINE S == Seq(Cursor)
           C == Cursor \cup {NULL}
           F == Filter \cup {NULL}
           all == g.given \o page
           r == WithPage(g, pc, page, c)
<1>1. g.given \in Seq(Cursor)
  BY DEF PagerRecord
<1>2. all \in S
  BY <1>1
<1>3. c \in C
  OBVIOUS
<1>4. g \in [pc : {"idle", "reading", "done", "not_found"}, filter : F,
             cursor : C, given : S, changes : Nat,
             present : SUBSET EntryId, raised : SUBSET EntryId, lowered : SUBSET EntryId]
  BY DEF PagerRecord
<1> HIDE DEF S, C, F, all, r
<1>5. r = [g EXCEPT !.pc = pc, !.given = all, !.cursor = c]
  BY DEF all, r, WithPage
<1>6. /\ r \in [pc : {"idle", "reading", "done", "not_found"}, filter : F,
                cursor : C, given : S, changes : Nat,
                present : SUBSET EntryId, raised : SUBSET EntryId, lowered : SUBSET EntryId]
      /\ r.filter = g.filter /\ r.present = g.present
      /\ r.raised = g.raised /\ r.lowered = g.lowered
      /\ r.given = all /\ r.pc = pc /\ r.cursor = c
  BY <1>2, <1>3, <1>4, <1>5
<1> QED
  BY <1>6 DEF S, C, F, all, r, PagerRecord, Paged

(* The rows a page adds, as Page and Fetch determine them: in order, each    *)
(* ahead of the old cursor, and everything else ahead of the new one.        *)
LEMMA PageRows ==
    ASSUME DbTypeOK, NEW g \in PagerRecord, Ready(g), List(g)
    PROVE  \E page \in Seq(Cursor) :
              /\ pager' \in PagerRecord
              /\ pager'.filter = g.filter /\ pager'.present = g.present
              /\ pager'.raised = g.raised /\ pager'.lowered = g.lowered
              /\ pager'.given = g.given \o page
              /\ pager'.pc \in {"reading", "done"}
              /\ \A j \in 1..Len(page) :
                    page[j] \in {Position(g.filter, i) : i \in AfterCursor(g.filter, g.cursor)}
              /\ \A j, k \in 1..Len(page) : j < k => Before(g.filter.desc, page[j], page[k])
              /\ pager'.pc = "done" =>
                    \A i \in AfterCursor(g.filter, g.cursor) : \E j \in 1..Len(page) : page[j] = Position(g.filter, i)
              /\ pager'.pc = "reading" =>
                    /\ Len(page) > 0
                    /\ pager'.cursor = page[Len(page)]
                    /\ \A i \in AfterCursor(g.filter, g.cursor) :
                          \/ \E j \in 1..Len(page) : page[j] = Position(g.filter, i)
                          \/ Before(g.filter.desc, page[Len(page)], Position(g.filter, i))
<1> DEFINE f == g.filter
           limit == f.limit
           found == {Position(f, i) : i \in AfterCursor(f, g.cursor)}
<1>1. f \in Filter /\ limit \in Nat /\ limit >= 1 /\ g.cursor \in Cursor \cup {NULL}
  <2>1. f \in Filter
    BY DEF Ready
  <2>2. limit \in 1..1000
    BY <2>1 DEF Filter
  <2>3. g.cursor \in Cursor \cup {NULL}
    BY DEF PagerRecord
  <2> HIDE DEF f, limit
  <2>4. limit \in Nat /\ limit >= 1
    BY <2>2
  <2> QED
    BY <2>1, <2>3, <2>4
<1>2. PICK rows \in Fetch(f, found, limit + 1) : pager' = Page(g, rows)
  BY DEF List
<1>3. found \subseteq Cursor
  BY <1>1, FoundRows
<1> HIDE DEF found, limit
<1>4. PICK m \in 0..(limit + 1) : rows \in [1..m -> found]
  BY <1>2 DEF Fetch
<1>5. m \in Nat /\ m <= limit + 1
  BY <1>1, <1>4
<1>6. rows \in Seq(Cursor) /\ Len(rows) = m /\ DOMAIN rows = 1..m
  BY <1>3, <1>4, <1>5
<1>7. \A j, k \in 1..m : j < k => Before(f.desc, rows[j], rows[k])
  BY <1>2, <1>6 DEF Fetch
<1>8. \A x \in found : \/ \E j \in 1..m : rows[j] = x
                       \/ m = limit + 1 /\ \A j \in 1..m : Before(f.desc, rows[j], x)
  <2> SUFFICES ASSUME NEW x \in found, ~(\E j \in 1..m : rows[j] = x)
               PROVE  m = limit + 1 /\ \A j \in 1..m : Before(f.desc, rows[j], x)
    OBVIOUS
  <2>1. 1..m = 1..(limit + 1) /\ \A j \in 1..m : Before(f.desc, rows[j], x)
    BY <1>2, <1>6 DEF Fetch
  <2>2. limit + 1 \in 1..m
    BY <1>1, <2>1
  <2> QED
    BY <1>1, <1>5, <2>1, <2>2
<1>9. \A i \in AfterCursor(f, g.cursor) : Position(f, i) \in found
  BY DEF found
<1>10. CASE m > limit
  <2>1. m = limit + 1
    BY <1>1, <1>5, <1>10
  <2> DEFINE page == SubSeq(rows, 1, limit)
  <2>2. /\ page \in Seq(Cursor) /\ Len(page) = limit
        /\ \A j \in 1..limit : page[j] = rows[j]
    BY <1>1, <1>6, <2>1
  <2>3. pager' = WithPage(g, "reading", page, rows[limit])
    BY <1>2, <1>6, <1>10 DEF Page, WithPage, limit
  <2> HIDE DEF page
  <2>4. rows[limit] \in Cursor /\ limit \in 1..m
    BY <1>1, <1>3, <1>4, <2>1
  <2>5. Paged(pager', g, "reading", page, rows[limit])
    BY <2>2, <2>3, <2>4, PageType
  <2>6. Paged(pager', g, "reading", page, page[Len(page)]) /\ Len(page) > 0
    BY <1>1, <2>2, <2>5
  <2>7. \A j \in 1..Len(page) : j \in 1..m /\ page[j] = rows[j] /\ page[j] \in found
    BY <1>1, <1>4, <2>1, <2>2
  <2>8. \A j, k \in 1..Len(page) : j < k => Before(f.desc, page[j], page[k])
    BY <1>7, <2>7
  <2>9. ASSUME NEW i \in AfterCursor(f, g.cursor)
        PROVE  \/ \E j \in 1..Len(page) : page[j] = Position(f, i)
               \/ Before(f.desc, page[Len(page)], Position(f, i))
    <3>1. CASE \A j \in 1..m : Before(f.desc, rows[j], Position(f, i))
      BY <2>2, <2>4, <3>1
    <3>2. CASE \E j \in 1..m : rows[j] = Position(f, i)
      <4>1. PICK j \in 1..m : rows[j] = Position(f, i)
        BY <3>2
      <4>2. CASE j <= limit
        <5>1. j \in 1..Len(page)
          BY <1>1, <2>2, <4>2
        <5> QED
          BY <4>1, <5>1, <2>7
      <4>3. CASE ~(j <= limit)
        <5>1. limit < j
          BY <1>1, <4>3
        <5>2. Before(f.desc, rows[limit], rows[j])
          BY <1>7, <2>4, <5>1
        <5> QED
          BY <2>2, <2>4, <4>1, <5>2, <1>1
      <4> QED
        BY <4>2, <4>3
    <3> QED
      BY <1>8, <1>9, <3>1, <3>2
  <2> QED
    BY <2>2, <2>6, <2>7, <2>8, <2>9 DEF Paged, found
<1>11. CASE ~(m > limit)
  <2>1. pager' = WithPage(g, "done", rows, NULL)
    BY <1>2, <1>6, <1>11 DEF Page, WithPage, limit
  <2>3. Paged(pager', g, "done", rows, NULL)
    BY <1>6, <2>1, PageType
  <2>4. \A i \in AfterCursor(f, g.cursor) : \E j \in 1..m : rows[j] = Position(f, i)
    BY <1>1, <1>5, <1>8, <1>9, <1>11
  <2>5. \A j \in 1..m : rows[j] \in found
    BY <1>4
  <2> QED
    BY <1>6, <1>7, <2>3, <2>4, <2>5 DEF Paged, found
<1> QED
  BY <1>10, <1>11

-----------------------------------------------------------------------------
(* A page leaves the client ready for the next one, or done with nothing     *)
(* missed that did not move: Entries::list on a client that was ready.       *)
LEMMA ListKeeps ==
    ASSUME DbTypeOK, NEW g \in PagerRecord, Ready(g), List(g), UNCHANGED dbVars
    PROVE  PagerInv'
<1> DEFINE f == g.filter
           old == g.given
           all == pager'.given
           L == Len(g.given)
<1>1. PICK page \in Seq(Cursor) :
              /\ pager' \in PagerRecord
              /\ pager'.filter = g.filter /\ pager'.present = g.present
              /\ pager'.raised = g.raised /\ pager'.lowered = g.lowered
              /\ pager'.given = g.given \o page
              /\ pager'.pc \in {"reading", "done"}
              /\ \A j \in 1..Len(page) :
                    page[j] \in {Position(g.filter, i) : i \in AfterCursor(g.filter, g.cursor)}
              /\ \A j, k \in 1..Len(page) : j < k => Before(g.filter.desc, page[j], page[k])
              /\ pager'.pc = "done" =>
                    \A i \in AfterCursor(g.filter, g.cursor) :
                        \E j \in 1..Len(page) : page[j] = Position(g.filter, i)
              /\ pager'.pc = "reading" =>
                    /\ Len(page) > 0
                    /\ pager'.cursor = page[Len(page)]
                    /\ \A i \in AfterCursor(g.filter, g.cursor) :
                          \/ \E j \in 1..Len(page) : page[j] = Position(g.filter, i)
                          \/ Before(g.filter.desc, page[Len(page)], Position(g.filter, i))
  BY PageRows
<1>2. /\ f \in Filter /\ f.desc \in BOOLEAN /\ g.cursor \in Cursor \cup {NULL}
      /\ old \in Seq(Cursor) /\ L \in Nat /\ Len(page) \in Nat
  <2>1. f \in Filter
    BY DEF Ready
  <2>2. f.desc \in BOOLEAN
    BY <2>1 DEF Filter
  <2>3. g.cursor \in Cursor \cup {NULL} /\ old \in Seq(Cursor)
    BY DEF PagerRecord
  <2>4. L \in Nat /\ Len(page) \in Nat
    BY <2>3
  <2> QED
    BY <2>1, <2>2, <2>3, <2>4
<1>3. /\ all \in Seq(Cursor) /\ Len(all) = L + Len(page)
      /\ DOMAIN all = 1..(L + Len(page)) /\ DOMAIN old = 1..L
      /\ \A n \in 1..L : all[n] = old[n] /\ old[n] \in Cursor
      /\ \A n \in 1..(L + Len(page)) :
            n \notin 1..L => n - L \in 1..Len(page) /\ all[n] = page[n - L]
  BY <1>1, <1>2
<1>4. ASSUME NEW j \in 1..Len(page) PROVE L + j \in DOMAIN all /\ all[L + j] = page[j]
  <2>1. L + j \in 1..(L + Len(page)) /\ L + j \notin 1..L /\ (L + j) - L = j
    BY <1>2
  <2> QED
    BY <1>3, <2>1
<1>5. entries' = entries /\ nextEntry' = nextEntry
  BY DEF dbVars, tables
<1>6. \A j \in 1..Len(page) :
         /\ page[j] \in Cursor /\ page[j].id \in EntryId
         /\ entries[page[j].id] # NULL
         /\ page[j] = Position(f, page[j].id)
         /\ page[j].sv = SortValue(f.sort, page[j].id, entries[page[j].id])
         /\ g.cursor # NULL => Before(f.desc, g.cursor, page[j])
  BY <1>1, <1>2, FoundRows
<1> HIDE DEF f, old, all, L
<1>7. pager' \in PagerRecord /\ pager'.filter = f /\ pager'.given = all
  BY <1>1 DEF f, all
<1>8. MovedWith(pager)' = MovedWith(g) /\ MovedAgainst(pager)' = MovedAgainst(g)
  BY <1>1 DEF MovedWith, MovedAgainst
<1>9. \A m, n \in DOMAIN all : m < n => Before(f.desc, all[m], all[n])
  <2> SUFFICES ASSUME NEW m \in DOMAIN all, NEW n \in DOMAIN all, m < n
               PROVE  Before(f.desc, all[m], all[n])
    OBVIOUS
  <2>1. CASE n \in 1..L
    <3>1. m \in 1..L
      BY <1>2, <1>3, <2>1
    <3>2. Before(f.desc, old[m], old[n])
      BY <1>3, <2>1, <3>1 DEF Ready, InOrder, f, old
    <3> QED
      BY <1>3, <2>1, <3>1, <3>2
  <2>2. CASE m \notin 1..L
    <3>1. n \notin 1..L
      BY <1>2, <1>3, <2>2
    <3>2. m - L \in 1..Len(page) /\ n - L \in 1..Len(page) /\ m - L < n - L
      BY <1>2, <1>3, <2>2, <3>1
    <3>3. Before(f.desc, page[m - L], page[n - L])
      BY <1>1, <3>2 DEF f
    <3> QED
      BY <1>3, <2>2, <3>1, <3>3
  <2>3. CASE m \in 1..L /\ n \notin 1..L
    <3>1. g.cursor # NULL
      BY <1>2, <2>3 DEF Ready, CursorIsLast, L
    <3>2. g.cursor \in Cursor /\ L > 0 /\ g.cursor = old[L]
      BY <3>1 DEF Ready, CursorIsLast, L, old
    <3>3. n - L \in 1..Len(page) /\ all[n] = page[n - L] /\ all[m] = old[m] /\ old[m] \in Cursor
      BY <1>3, <2>3
    <3>4. Before(f.desc, old[L], page[n - L]) /\ page[n - L] \in Cursor
      BY <1>6, <3>1, <3>2, <3>3
    <3>5. CASE m = L
      BY <3>3, <3>4, <3>5
    <3>6. CASE m # L
      <4>1. m < L /\ L \in 1..L
        BY <1>2, <2>3, <3>2, <3>6
      <4>2. Before(f.desc, old[m], old[L])
        BY <1>3, <2>3, <4>1 DEF Ready, InOrder, f, old
      <4> QED
        BY <1>2, <3>2, <3>3, <3>4, <4>2, BeforeTransitive
    <3> QED
      BY <3>5, <3>6
  <2> QED
    BY <2>1, <2>2, <2>3
<1>10. InOrder(pager)'
  BY <1>7, <1>9 DEF InOrder
<1>11. \A n \in DOMAIN all : \/ all[n].id \in MovedWith(g)
                             \/ NotAhead(f, all[n], all[n].id)
  <2> SUFFICES ASSUME NEW n \in DOMAIN all
               PROVE  \/ all[n].id \in MovedWith(g)
                      \/ NotAhead(f, all[n], all[n].id)
    OBVIOUS
  <2>1. CASE n \in 1..L
    <3>1. n \in DOMAIN old /\ all[n] = old[n]
      BY <1>3, <2>1
    <3> QED
      BY <3>1 DEF Ready, NothingAhead, f, old
  <2>2. CASE n \notin 1..L
    <3>1. n - L \in 1..Len(page) /\ all[n] = page[n - L]
      BY <1>3, <2>2
    <3> DEFINE r == all[n]
    <3>2. r \in Cursor /\ entries[r.id] # NULL /\ r.sv = SortValue(f.sort, r.id, entries[r.id])
      BY <1>6, <3>1
    <3>3. r.sv >= r.sv /\ r.sv <= r.sv
      BY <3>2 DEF Cursor
    <3> QED
      BY <3>2, <3>3 DEF NotAhead
  <2> QED
    BY <2>1, <2>2
<1>12. NothingAhead(pager)'
  BY <1>5, <1>7, <1>8, <1>11 DEF NothingAhead, NotAhead
<1>13. ASSUME NEW m \in DOMAIN all, NEW n \in DOMAIN all, m < n, all[m].id = all[n].id
       PROVE  all[m].id \in MovedWith(g)
  <2>1. Before(f.desc, all[m], all[n]) /\ all[m] \in Cursor /\ all[n] \in Cursor
    BY <1>3, <1>9, <1>13
  <2>2. IF f.desc THEN all[m].sv > all[n].sv ELSE all[m].sv < all[n].sv
    BY <1>2, <1>13, <2>1, BeforeOfSameId
  <2>3. CASE n \in 1..L
    <3>1. m \in DOMAIN old /\ n \in DOMAIN old /\ m # n /\ all[m] = old[m] /\ all[n] = old[n]
      BY <1>2, <1>3, <1>13, <2>3
    <3> QED
      BY <1>13, <3>1 DEF Ready, NoneTwice, old
  <2>4. CASE n \notin 1..L
    <3>1. n - L \in 1..Len(page) /\ all[n] = page[n - L]
      BY <1>3, <2>4
    <3>2. entries[all[n].id] # NULL /\ all[n].sv = SortValue(f.sort, all[n].id, entries[all[n].id])
      BY <1>6, <3>1
    <3>3. all[m].sv \in Nat /\ all[n].sv \in Nat
      BY <2>1 DEF Cursor
    <3>4. ~NotAhead(f, all[m], all[m].id)
      BY <1>2, <1>13, <2>2, <3>2, <3>3 DEF NotAhead
    <3> QED
      BY <1>11, <3>4
  <2> QED
    BY <2>3, <2>4
<1>14. NoneTwice(pager)'
  <2>1. ASSUME NEW m \in DOMAIN all, NEW n \in DOMAIN all, m # n, all[m].id = all[n].id
        PROVE  all[m].id \in MovedWith(g)
    <3>1. m < n \/ n < m
      BY <1>2, <1>3, <2>1
    <3> QED
      BY <1>13, <2>1, <3>1
  <2> QED
    BY <1>7, <1>8, <2>1 DEF NoneTwice
<1>15. \A i \in g.present : Matches(f, entries[i])
  BY DEF Ready, NothingSkipped, f
<1>16. GivenTo(pager)' = {all[n].id : n \in DOMAIN all}
  BY <1>7 DEF GivenTo
<1>17. \A i \in GivenTo(g) : i \in GivenTo(pager)'
  <2> SUFFICES ASSUME NEW n \in DOMAIN old PROVE old[n].id \in GivenTo(pager)'
    BY DEF GivenTo, old
  <2>1. n \in DOMAIN all /\ all[n] = old[n]
    BY <1>2, <1>3
  <2> QED
    BY <1>16, <2>1
<1>18. \A i \in AfterCursor(f, g.cursor), j \in 1..Len(page) :
          page[j] = Position(f, i) => i \in GivenTo(pager)'
  <2> SUFFICES ASSUME NEW i \in AfterCursor(f, g.cursor), NEW j \in 1..Len(page),
                      page[j] = Position(f, i)
               PROVE  i \in GivenTo(pager)'
    OBVIOUS
  <2>1. Position(f, i).id = i
    BY DEF Position
  <2> QED
    BY <1>4, <1>16, <2>1
<1>19. CASE pager'.pc = "done"
  <2>1. \A i \in g.present : i \in GivenTo(pager)' \cup MovedAgainst(g)
    <3> SUFFICES ASSUME NEW i \in g.present PROVE i \in GivenTo(pager)' \cup MovedAgainst(g)
      OBVIOUS
    <3>1. i \in GivenTo(g) \cup MovedAgainst(g) \cup AfterCursor(f, g.cursor)
      BY DEF Ready, NothingSkipped, f
    <3>2. CASE i \in AfterCursor(f, g.cursor)
      BY <1>1, <1>18, <1>19, <3>2 DEF f
    <3> QED
      BY <1>17, <3>1, <3>2
  <2>2. MissedOnlyIfMoved'
    BY <1>1, <1>8, <2>1 DEF MissedOnlyIfMoved, Given, GivenTo, MovedAgainst
  <2>3. DbTypeOK'
    BY DEF DbTypeOK, dbVars, tables, LiveEntries, LiveProjects
  <2> QED
    BY <1>7, <1>10, <1>14, <1>19, <2>2, <2>3 DEF PagerInv
<1>20. CASE pager'.pc = "reading"
  <2> DEFINE last == page[Len(page)]
  <2>1. Len(page) \in 1..Len(page) /\ pager'.cursor = last /\ last \in Cursor
    BY <1>1, <1>2, <1>20
  <2>2. pager'.cursor # NULL
    BY <2>1, PaginationAssumption
  <2>3. CursorIsLast(pager)'
    <3>1. L + Len(page) \in DOMAIN all /\ all[L + Len(page)] = last /\ Len(all) > 0
      BY <1>1, <1>2, <1>3, <1>4, <1>20, <2>1
    <3> QED
      BY <1>3, <1>7, <2>1, <2>2, <3>1 DEF CursorIsLast
  <2>4. NothingSkipped(pager)'
    <3> SUFFICES ASSUME NEW i \in g.present
                 PROVE  i \in GivenTo(pager)' \cup MovedAgainst(g) \cup AfterCursor(f, last)'
      BY <1>1, <1>5, <1>7, <1>8, <1>15, <2>1 DEF NothingSkipped, Matches, AfterCursor, Position
    <3>1. i \in GivenTo(g) \cup MovedAgainst(g) \cup AfterCursor(f, g.cursor)
      BY DEF Ready, NothingSkipped, f
    <3>2. CASE i \in AfterCursor(f, g.cursor)
      <4>1. i \in EntryId /\ Matches(f, entries[i])
        BY <3>2 DEF AfterCursor
      <4>2. CASE \E j \in 1..Len(page) : page[j] = Position(f, i)
        BY <1>18, <3>2, <4>2
      <4>3. CASE Before(f.desc, last, Position(f, i))
        BY <1>5, <4>1, <4>3 DEF AfterCursor, Position
      <4> QED
        BY <1>1, <1>20, <3>2, <4>2, <4>3 DEF f
    <3> QED
      BY <1>17, <3>1, <3>2
  <2>5. Ready(pager)'
    BY <1>2, <1>7, <1>10, <1>12, <1>14, <2>3, <2>4 DEF Ready
  <2>6. DbTypeOK'
    BY DEF DbTypeOK, dbVars, tables, LiveEntries, LiveProjects
  <2> QED
    BY <1>7, <1>10, <1>14, <1>20, <2>2, <2>5, <2>6 DEF PagerInv, MissedOnlyIfMoved
<1> QED
  BY <1>1, <1>19, <1>20

-----------------------------------------------------------------------------
(* What a method of the store changes of a client. *)
Tracked(r, g, P, R, D) ==
    /\ r \in PagerRecord
    /\ r.pc = g.pc /\ r.filter = g.filter /\ r.cursor = g.cursor /\ r.given = g.given
    /\ r.present = P /\ r.raised = R /\ r.lowered = D

(* A client's record after a method of the store has its type. *)
LEMMA TrackType ==
    ASSUME NEW g \in PagerRecord, NEW n \in Nat, NEW P \in SUBSET EntryId,
           NEW R \in SUBSET EntryId, NEW D \in SUBSET EntryId
    PROVE  Tracked([g EXCEPT !.changes = n, !.present = P, !.raised = R, !.lowered = D],
                   g, P, R, D)
<1> DEFINE S == Seq(Cursor)
           C == Cursor \cup {NULL}
           F == Filter \cup {NULL}
           r == [g EXCEPT !.changes = n, !.present = P, !.raised = R, !.lowered = D]
<1>1. g \in [pc : {"idle", "reading", "done", "not_found"}, filter : F,
             cursor : C, given : S, changes : Nat,
             present : SUBSET EntryId, raised : SUBSET EntryId, lowered : SUBSET EntryId]
  BY DEF PagerRecord
<1> HIDE DEF S, C, F
<1>2. /\ r \in [pc : {"idle", "reading", "done", "not_found"}, filter : F,
                cursor : C, given : S, changes : Nat,
                present : SUBSET EntryId, raised : SUBSET EntryId, lowered : SUBSET EntryId]
      /\ r.pc = g.pc /\ r.filter = g.filter /\ r.cursor = g.cursor /\ r.given = g.given
      /\ r.present = P /\ r.raised = R /\ r.lowered = D
  BY <1>1
<1> QED
  BY <1>2 DEF S, C, F, Tracked, PagerRecord

(* A method of the store between two pages leaves the client ready: Track    *)
(* notices every entry that moves past the cursor or past where it was given. *)
LEMMA TrackKeeps ==
    ASSUME DbTypeOK, NEW g \in PagerRecord, pager = g, Ready(g), g.cursor # NULL,
           g.pc = "reading", DbNext, Track
    PROVE  PagerInv'
<1> DEFINE f == g.filter
           c == g.cursor
           given == g.given
           old(i) == SortValue(f.sort, i, entries[i])
           new(i) == SortValue(f.sort, i, entries'[i])
           live == {i \in LiveEntries : entries'[i] # NULL}
           up == {i \in live : new(i) > old(i)}
           down == {i \in live : new(i) < old(i)}
<1>1. DbTypeOK'
  BY NextTypeOK
<1>2. f \in Filter
  BY DEF Ready
<1>3. f.desc \in BOOLEAN
  BY <1>2 DEF Filter
<1>4. c \in Cursor /\ given \in Seq(Cursor)
  BY PaginationAssumption DEF PagerRecord
<1>5. pager' = [g EXCEPT !.changes = @ + 1,
                             !.present = {i \in @ : Matches(f, entries'[i])},
                             !.raised = @ \cup up, !.lowered = @ \cup down]
  BY DEF Track
<1>6. live \subseteq EntryId
  BY DEF LiveEntries
<1> HIDE DEF up, down
<1>7. up \subseteq EntryId /\ down \subseteq EntryId
  BY <1>6 DEF up, down
<1>8. /\ pager' \in PagerRecord
      /\ pager'.pc = "reading" /\ pager'.filter = f /\ pager'.cursor = c /\ pager'.given = given
      /\ pager'.present = {i \in g.present : Matches(f, entries'[i])}
      /\ pager'.raised = g.raised \cup up /\ pager'.lowered = g.lowered \cup down
  <2> DEFINE P == {i \in g.present : Matches(f, entries'[i])}
             R == g.raised \cup up
             D == g.lowered \cup down
  <2>1. /\ g.changes + 1 \in Nat
        /\ P \in SUBSET EntryId /\ R \in SUBSET EntryId /\ D \in SUBSET EntryId
    BY <1>7 DEF PagerRecord
  <2>2. pager' = [g EXCEPT !.changes = g.changes + 1, !.present = P, !.raised = R, !.lowered = D]
    BY <1>5
  <2> HIDE DEF P, R, D
  <2>3. Tracked(pager', g, P, R, D)
    BY <2>1, <2>2, TrackType
  <2> QED
    BY <2>3 DEF Tracked, P, R, D
<1> HIDE DEF f, c, given, old, new, live
<1>9. /\ MovedAgainst(pager)' = MovedAgainst(g) \cup (IF f.desc THEN up ELSE down)
      /\ MovedWith(pager)' = MovedWith(g) \cup (IF f.desc THEN down ELSE up)
  BY <1>3, <1>8 DEF MovedAgainst, MovedWith, f
<1>10. GivenTo(pager)' = GivenTo(g)
  BY <1>8 DEF GivenTo, given
<1>11. \A i \in live : old(i) \in Nat /\ new(i) \in Nat /\ i \in EntryId
  <2> SUFFICES ASSUME NEW i \in live PROVE old(i) \in Nat /\ new(i) \in Nat /\ i \in EntryId
    OBVIOUS
  <2>1. i \in EntryId /\ entries[i] # NULL /\ entries'[i] # NULL
    BY DEF live, LiveEntries
  <2>2. entries[i] \in EntryRow /\ entries'[i] \in EntryRow
    BY <1>1, <2>1 DEF DbTypeOK
  <2> QED
    BY <1>2, <2>1, <2>2, SortValueType DEF old, new
<1>12. InOrder(pager)' /\ CursorIsLast(pager)' /\ pager'.cursor # NULL
  BY <1>8 DEF Ready, InOrder, CursorIsLast, f, c, given
<1>13. NoneTwice(pager)'
  BY <1>8, <1>9 DEF Ready, NoneTwice, given
<1>14. NothingSkipped(pager)'
  <2> SUFFICES ASSUME NEW i \in g.present, Matches(f, entries'[i])
               PROVE  i \in GivenTo(pager)' \cup MovedAgainst(pager)' \cup AfterCursor(f, c)'
    BY <1>8 DEF NothingSkipped
  <2>1. /\ Matches(f, entries[i]) /\ i \in EntryId
        /\ i \in GivenTo(g) \cup MovedAgainst(g) \cup AfterCursor(f, c)
    BY DEF Ready, NothingSkipped, PagerRecord, f, c
  <2>2. CASE i \in AfterCursor(f, c) /\ i \notin MovedAgainst(pager)'
    <3>1. i \in live
      BY <2>1 DEF Matches, live, LiveEntries
    <3>2. IF f.desc THEN new(i) <= old(i) ELSE new(i) >= old(i)
      BY <1>9, <1>11, <2>2, <3>1 DEF up, down
    <3>3. Before(f.desc, c, [sv |-> old(i), id |-> i])
      BY <2>2 DEF AfterCursor, Position, old, c
    <3>4. Before(f.desc, c, [sv |-> new(i), id |-> i])
      <4>1. c.sv \in Nat /\ c.id \in Nat /\ i \in Nat
        BY <1>4, <2>1, BoundsAssumption DEF Cursor, EntryId
      <4> QED
        BY <1>3, <1>11, <3>1, <3>2, <3>3, <4>1 DEF Before
    <3> QED
      BY <2>1, <3>4 DEF AfterCursor, Position, new
  <2> QED
    BY <1>9, <1>10, <2>1, <2>2
<1>15. NothingAhead(pager)'
  <2> SUFFICES ASSUME NEW n \in DOMAIN given, given[n].id \notin MovedWith(pager)'
               PROVE  NotAhead(f, given[n], given[n].id)'
    BY <1>8 DEF NothingAhead
  <2> DEFINE r == given[n]
             i == given[n].id
  <2>1. r.sv \in Nat /\ i \in EntryId
    <3>1. r \in Cursor
      BY <1>4
    <3> QED
      BY <3>1 DEF Cursor
  <2>2. NotAhead(f, r, i)
    BY <1>9 DEF Ready, NothingAhead, f, given
  <2>3. CASE entries'[i] = NULL
    <3>1. i < nextEntry
      BY <2>1, <2>2 DEF NotAhead, DbTypeOK, LiveEntries
    <3>2. i < nextEntry'
      BY <2>1, <3>1, GoneForGood, BoundsAssumption DEF EntryId
    <3> QED
      BY <2>3, <3>2 DEF NotAhead
  <2>4. CASE entries'[i] # NULL
    <3>1. entries[i] # NULL
      BY <2>1, <2>2, <2>4, GoneForGood DEF NotAhead
    <3>2. i \in live
      BY <2>1, <2>4, <3>1 DEF live, LiveEntries
    <3>3. IF f.desc THEN new(i) >= old(i) ELSE new(i) <= old(i)
      BY <1>9, <1>11, <3>2 DEF up, down
    <3>4. IF f.desc THEN old(i) >= r.sv ELSE old(i) <= r.sv
      BY <2>2, <3>1 DEF NotAhead, old
    <3>5. IF f.desc THEN new(i) >= r.sv ELSE new(i) <= r.sv
      BY <1>3, <1>11, <2>1, <3>2, <3>3, <3>4
    <3> QED
      BY <2>4, <3>5 DEF NotAhead, new
  <2> QED
    BY <2>3, <2>4
<1>16. Ready(pager)'
  BY <1>2, <1>8, <1>12, <1>13, <1>14, <1>15 DEF Ready
<1> QED
  BY <1>1, <1>8, <1>12, <1>13, <1>16 DEF PagerInv, MissedOnlyIfMoved

(* A client that has been given nothing satisfies the invariant. *)
LEMMA IdleInv ==
    ASSUME DbTypeOK, pager = NoPager
    PROVE  PagerInv
<1>1. pager \in PagerRecord
  BY DEF NoPager, PagerRecord
<1>2. DOMAIN pager.given = {} /\ pager.pc = "idle"
  BY DEF NoPager
<1> QED
  BY <1>1, <1>2 DEF PagerInv, InOrder, NoneTwice, MissedOnlyIfMoved

(* What a client knows when it asks for its first page. *)
First(r, f, P) ==
    /\ r \in PagerRecord
    /\ r.filter = f /\ r.cursor = NULL /\ r.given = << >> /\ r.present = P

(* A client's record before its first page has its type. *)
LEMMA FirstType ==
    ASSUME NEW f \in Filter, NEW P \in SUBSET EntryId
    PROVE  First([pc |-> "idle", filter |-> f, cursor |-> NULL, given |-> << >>,
                  changes |-> 0, present |-> P, raised |-> {}, lowered |-> {}], f, P)
  BY DEF First, PagerRecord

(* A client that asks for the first page of a filter is ready for it. *)
LEMMA FirstReady ==
    ASSUME DbTypeOK, NEW f \in Filter, NEW g,
           g = [NoPager EXCEPT !.filter = f,
                               !.present = {i \in EntryId : Matches(f, entries[i])}]
    PROVE  g \in PagerRecord /\ Ready(g)
<1>1. /\ g.filter = f /\ g.cursor = NULL /\ g.given = << >>
      /\ g.present = {i \in EntryId : Matches(f, entries[i])}
      /\ g \in PagerRecord
  <2> DEFINE P == {i \in EntryId : Matches(f, entries[i])}
  <2>1. P \in SUBSET EntryId /\ << >> \in Seq(Cursor)
    OBVIOUS
  <2>2. g = [NoPager EXCEPT !.filter = f, !.present = P]
    OBVIOUS
  <2> HIDE DEF P
  <2>3. g = [pc |-> "idle", filter |-> f, cursor |-> NULL, given |-> << >>,
             changes |-> 0, present |-> P, raised |-> {}, lowered |-> {}]
    BY <2>2 DEF NoPager
  <2>4. First(g, f, P)
    BY <2>1, <2>3, FirstType
  <2> QED
    BY <2>4 DEF First, P
<1>2. DOMAIN g.given = {}
  BY <1>1
<1>3. NothingSkipped(g)
  BY <1>1 DEF NothingSkipped, AfterCursor
<1> QED
  BY <1>1, <1>2, <1>3 DEF Ready, InOrder, CursorIsLast, NothingAhead, NoneTwice

(* Every step of the client and of the store keeps the invariant. *)
LEMMA NextPagerInv == PagerInv /\ [PagerNext]_pagerVars => PagerInv'
<1> SUFFICES ASSUME PagerInv, [PagerNext]_pagerVars PROVE PagerInv'
  OBVIOUS
<1> USE DEF PagerInv
<1>1. ASSUME pager.pc = "idle", DbNext, UNCHANGED pager PROVE PagerInv'
  <2>1. DbTypeOK'
    BY <1>1, NextTypeOK
  <2>2. pager' = NoPager
    BY <1>1
  <2>3. pager' \in PagerRecord
    BY <1>1
  <2> QED
    BY <1>1, <2>1, <2>2, <2>3 DEF InOrder, NoneTwice, MissedOnlyIfMoved, NoPager, MovedWith
<1>2. ASSUME pager.pc = "reading", DbNext, Track PROVE PagerInv'
  BY <1>2, TrackKeeps
<1>3. ASSUME NEW f \in Asked, ListFirst(f) PROVE PagerInv'
  <2> DEFINE g == [NoPager EXCEPT !.filter = f,
                                  !.present = {i \in EntryId : Matches(f, entries[i])}]
  <2>1. List(g) /\ UNCHANGED dbVars
    BY <1>3 DEF ListFirst
  <2>2. g \in PagerRecord /\ Ready(g)
    BY PaginationAssumption, FirstReady
  <2> HIDE DEF g
  <2> QED
    BY <2>1, <2>2, ListKeeps
<1>4. CASE ListNext
  BY <1>4, ListKeeps DEF ListNext
<1>5. ASSUME NEW f \in Asked, ListNotFound(f) PROVE PagerInv'
  <2>1. pager' = [pager EXCEPT !.pc = "not_found"] /\ UNCHANGED dbVars
    BY <1>5 DEF ListNotFound
  <2>2. /\ pager' \in PagerRecord /\ pager'.pc = "not_found"
        /\ pager'.filter = pager.filter /\ pager'.given = pager.given
        /\ pager'.raised = pager.raised /\ pager'.lowered = pager.lowered
    BY <2>1 DEF PagerRecord
  <2>3. DbTypeOK'
    BY <2>1 DEF DbTypeOK, dbVars, tables, LiveEntries, LiveProjects
  <2> QED
    BY <2>2, <2>3 DEF InOrder, NoneTwice, MovedWith, MissedOnlyIfMoved
<1>6. CASE ListEnd
  <2>1. DbTypeOK'
    BY <1>6 DEF ListEnd, DbTypeOK, dbVars, tables, LiveEntries, LiveProjects
  <2>2. pager' = NoPager
    BY <1>6 DEF ListEnd
  <2>3. pager' \in PagerRecord
    BY <2>2 DEF NoPager, PagerRecord
  <2> QED
    BY <2>1, <2>2, <2>3 DEF InOrder, NoneTwice, MissedOnlyIfMoved, NoPager, MovedWith
<1>7. CASE UNCHANGED pagerVars
  BY <1>7 DEF pagerVars, dbVars, tables, DbTypeOK, LiveEntries, LiveProjects, Ready, InOrder,
              CursorIsLast, NothingSkipped, NothingAhead, NoneTwice, MissedOnlyIfMoved, Given,
              MovedWith, MovedAgainst, GivenTo, NotAhead, AfterCursor, Position, Matches
<1> QED
  BY <1>1, <1>2, <1>3, <1>4, <1>5, <1>6, <1>7 DEF PagerNext, DbStep, PageStep

-----------------------------------------------------------------------------
(* The inductive invariant holds of every traversal: the cursor is the last  *)
(* row given, nothing behind it was skipped and nothing given is ahead of    *)
(* it, except what moved.                                                    *)
THEOREM PagerInvariant == PagerSpec => []PagerInv
<1>1. PagerInit => PagerInv
  BY InitTypeOK, IdleInv DEF PagerInit
<1> QED
  BY <1>1, NextPagerInv, PTL DEF PagerSpec

(* The rows of a traversal come in the order of the query, across pages too: *)
(* PagesInOrder, for every filter and any changes of the store in between.   *)
THEOREM TraversalIsOrdered == PagerSpec => []PagesInOrder
<1>1. PagerInv => PagesInOrder
  <2> SUFFICES ASSUME PagerInv, NEW n \in 1..(Len(pager.given) - 1)
               PROVE  Before(pager.filter.desc, pager.given[n], pager.given[n + 1])
    BY DEF PagesInOrder
  <2>1. pager.given \in Seq(Cursor)
    BY DEF PagerInv, PagerRecord
  <2>2. n \in DOMAIN pager.given /\ n + 1 \in DOMAIN pager.given /\ n < n + 1
    BY <2>1
  <2> QED
    BY <2>2 DEF PagerInv, InOrder
<1> QED
  BY <1>1, PagerInvariant, PTL

(* A complete traversal misses an entry that matched throughout only if its  *)
(* sort value moved against the direction of travel (MissedOnlyIfMoved).     *)
THEOREM TraversalIsComplete == PagerSpec => []MissedOnlyIfMoved
<1>1. PagerInv => MissedOnlyIfMoved
  BY DEF PagerInv
<1> QED
  BY <1>1, PagerInvariant, PTL

(* An entry is returned twice only if its sort value moved with the          *)
(* direction of travel (RepeatedOnlyIfMoved).                                *)
THEOREM TraversalRepeatsOnlyMoved == PagerSpec => []RepeatedOnlyIfMoved
<1>1. PagerInv => RepeatedOnlyIfMoved
  BY DEF PagerInv, RepeatedOnlyIfMoved, NoneTwice, MovedWith
<1> QED
  BY <1>1, PagerInvariant, PTL
=============================================================================
