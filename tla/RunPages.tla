------------------------------- MODULE RunPages -------------------------------
(***************************************************************************)
(* The list of runs and the list of instances, read page by page           *)
(* (internal/ui/ui.go, buildRunsGrid and Instances, over                   *)
(* Repository.ListInstances) while instances are started and change their  *)
(* status.                                                                 *)
(*                                                                         *)
(* A page is one SELECT, newest first, of one row more than it shows; the  *)
(* last row it shows is the cursor of the next. created_at and id of a row *)
(* never change. The cursor keeps all digits of created_at that PostgreSQL *)
(* stores, so it is the row's pair itself.                                 *)
(***************************************************************************)
EXTENDS Naturals, FiniteSets

CONSTANTS
    Rows,           \* instances that may exist: [created, id], unique ids
    Existing,       \* those that exist when the reader begins
    PageSize,       \* runsPageSize, instancesPageSize
    NoCursor,
    MaxEnds,        \* bound: instances that end while the reader reads
    MaxPages        \* bound: pages read, more than there are

ASSUME RunPagesAssumptions ==
    /\ Rows \subseteq [created : Nat, id : Nat] /\ IsFiniteSet(Rows)
    /\ \A r, q \in Rows : r.id = q.id => r = q
    /\ Existing \subseteq Rows
    /\ PageSize \in Nat \ {0}
    /\ NoCursor \notin Rows
    /\ MaxEnds \in Nat /\ MaxPages \in Nat

VARIABLES
    rows,           \* the rows of workflow_instances
    ended,          \* those the reader's status filter does not match (any more)
    cursor,         \* the cursor of the next page
    pages,          \* what the pages read so far showed: <<number of the page, row>>
    turn,           \* how many pages those are
    done            \* the last page had no link to another

vars == <<rows, ended, cursor, pages, turn, done>>

Matching == rows \ ended

\* ORDER BY created_at DESC, id DESC: r comes before q.
Before(r, q) ==
    r.created > q.created \/ (r.created = q.created /\ r.id > q.id)

Init ==
    /\ rows = Existing
    /\ ended = {}
    /\ cursor = NoCursor
    /\ pages = {}
    /\ turn = 0
    /\ done = FALSE

\* CreateInstance. created_at is when its transaction began, which may be before
\* rows that are there already.
Insert(r) ==
    /\ r \in Rows \ rows
    /\ ~done
    /\ rows' = rows \union {r}
    /\ UNCHANGED <<ended, cursor, pages, turn, done>>

\* The instance ends: it leaves a list of running instances.
End(r) ==
    /\ r \in Matching
    /\ ~done
    /\ Cardinality(ended) < MaxEnds
    /\ ended' = ended \union {r}
    /\ UNCHANGED <<rows, cursor, pages, turn, done>>

-----------------------------------------------------------------------------
\* ListInstances

\* Slip: the tie-break is left out of the condition.
AfterCursorTime(r) == cursor = NoCursor \/ r.created < cursor.created

\* Slip: the row of the cursor is listed again.
FromCursor(r) == cursor = NoCursor \/ r = cursor \/ Before(cursor, r)

AfterCursor(r) == cursor = NoCursor \/ Before(cursor, r)

\* The first n of the rows that match, in the order of the query.
Listed(n) ==
    LET candidates == {r \in Matching : AfterCursor(r)}
    IN  {r \in candidates : Cardinality({q \in candidates : Before(q, r)}) < n}

LastOf(S) == CHOOSE r \in S : \A q \in S : q = r \/ Before(q, r)

HasMore(listed) == Cardinality(listed) > PageSize

\* The rows of a page as it is shown.
Shown(listed) == {r \in listed : Cardinality({q \in listed : Before(q, r)}) < PageSize}

NextCursor(listed) == LastOf(Shown(listed))

NextPage ==
    /\ ~done
    /\ turn < MaxPages
    /\ LET listed == Listed(PageSize + 1) IN
        /\ pages' = pages \union {<<turn + 1, r>> : r \in Shown(listed)}
        /\ turn' = turn + 1
        /\ done' = ~HasMore(listed)
        /\ cursor' = IF HasMore(listed) THEN NextCursor(listed) ELSE cursor
    /\ UNCHANGED <<rows, ended>>

Next ==
    \/ \E r \in Rows : Insert(r) \/ End(r)
    \/ NextPage

Spec == Init /\ [][Next]_vars

-----------------------------------------------------------------------------
ShownRows == {x[2] : x \in pages}

\* Types; a page is full unless it is the last, and no page is empty but a last
\* one.
TypeOK ==
    /\ rows \subseteq Rows /\ ended \subseteq rows
    /\ cursor \in Rows \union {NoCursor}
    /\ turn \in Nat
    /\ pages \subseteq (1 .. turn) \X Rows
    /\ done \in BOOLEAN
    /\ \A i \in 1 .. turn :
        LET size == Cardinality({x \in pages : x[1] = i})
        IN  size <= PageSize /\ (i < turn => size = PageSize)

\* No row is shown on two pages, and all pages together are in the order of the
\* query, whatever is inserted or ends between two of them.
PagesInOrder ==
    \A x, y \in pages :
        /\ x[1] < y[1] => Before(x[2], y[2])
        /\ x[2] = y[2] => x = y

\* When the last page was read, every row that was there from the start and
\* still matches has been shown, rows with equal created_at included.
NothingSkipped == done => (Existing \ ended) \subseteq ShownRows

=============================================================================
