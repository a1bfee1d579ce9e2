---------------------------- MODULE RunPagesProofs ----------------------------
(***************************************************************************)
(* What the reader of the list sees, for any rows, page size, and number   *)
(* of pages and of instances that begin and end between two of them.       *)
(***************************************************************************)
EXTENDS RunPages, FiniteSetTheorems, WellFoundedInduction, TLAPS

-----------------------------------------------------------------------------
\* The order of the query

\* The rows are in one order: ids are unique.
LEMMA BeforeIsOrder ==
    ASSUME NEW p \in Rows, NEW q \in Rows, NEW r \in Rows
    PROVE  /\ ~Before(r, r)
           /\ Before(p, q) /\ Before(q, r) => Before(p, r)
           /\ q # r => (Before(q, r) <=> ~Before(r, q))
<1>1. /\ p.created \in Nat /\ q.created \in Nat /\ r.created \in Nat
      /\ p.id \in Nat /\ q.id \in Nat /\ r.id \in Nat
      /\ q.id = r.id => q = r
  BY RunPagesAssumptions
<1> QED
  BY <1>1 DEF Before

\* Any rows have a first ...
LEMMA HasFirst ==
    ASSUME NEW S \in SUBSET Rows, S # {}
    PROVE  \E r \in S : \A q \in S : q = r \/ Before(r, q)
<1> DEFINE Ahead(r) == {q \in S : Before(q, r)}
           Aheads == {Ahead(r) : r \in S}
<1>1. IsFiniteSet(S)
  BY RunPagesAssumptions, FS_Subset
<1>2. IsWellFoundedOn(StrictSubsetOrdering(S), SUBSET S)
  BY <1>1, FS_StrictSubsetOrderingWellFounded, FS_FiniteSubsetsOfFinite
<1>3. Aheads \subseteq SUBSET S /\ Aheads # {}
  OBVIOUS
<1>4. PICK A \in Aheads : \A B \in Aheads : <<B, A>> \notin StrictSubsetOrdering(S)
  <2> HIDE DEF Aheads
  <2> QED
    BY <1>2, <1>3, WFMin
<1>5. PICK r \in S : A = Ahead(r)
  OBVIOUS
<1>6. ASSUME NEW q \in S, Before(q, r) PROVE FALSE
  <2>1. Ahead(q) \subseteq Ahead(r)
    BY <1>6, BeforeIsOrder
  <2>2. q \in Ahead(r) /\ q \notin Ahead(q)
    BY <1>6, BeforeIsOrder
  <2>3. <<Ahead(q), Ahead(r)>> \in StrictSubsetOrdering(S)
    BY <2>1, <2>2 DEF StrictSubsetOrdering
  <2> QED
    BY <1>4, <1>5, <2>3
<1> QED
  BY <1>6, BeforeIsOrder

\* ... and a last.
LEMMA HasLast ==
    ASSUME NEW S \in SUBSET Rows, S # {}
    PROVE  LastOf(S) \in S /\ \A q \in S : q = LastOf(S) \/ Before(q, LastOf(S))
<1> DEFINE Behind(r) == {q \in S : Before(r, q)}
           Behinds == {Behind(r) : r \in S}
<1>1. IsFiniteSet(S)
  BY RunPagesAssumptions, FS_Subset
<1>2. IsWellFoundedOn(StrictSubsetOrdering(S), SUBSET S)
  BY <1>1, FS_StrictSubsetOrderingWellFounded, FS_FiniteSubsetsOfFinite
<1>3. Behinds \subseteq SUBSET S /\ Behinds # {}
  OBVIOUS
<1>4. PICK A \in Behinds : \A B \in Behinds : <<B, A>> \notin StrictSubsetOrdering(S)
  <2> HIDE DEF Behinds
  <2> QED
    BY <1>2, <1>3, WFMin
<1>5. PICK r \in S : A = Behind(r)
  OBVIOUS
<1>6. ASSUME NEW q \in S, Before(r, q) PROVE FALSE
  <2>1. Behind(q) \subseteq Behind(r)
    BY <1>6, BeforeIsOrder
  <2>2. q \in Behind(r) /\ q \notin Behind(q)
    BY <1>6, BeforeIsOrder
  <2>3. <<Behind(q), Behind(r)>> \in StrictSubsetOrdering(S)
    BY <2>1, <2>2 DEF StrictSubsetOrdering
  <2> QED
    BY <1>4, <1>5, <2>3
<1>7. \A q \in S : q = r \/ Before(q, r)
  BY <1>6, BeforeIsOrder
<1> QED
  BY <1>7 DEF LastOf

-----------------------------------------------------------------------------
\* LIMIT

\* The first n rows of S.
Top(n, S) == {r \in S : Cardinality({q \in S : Before(q, r)}) < n}

\* The first n rows come before the others, and there are n of them, unless that
\* is all there is.
LEMMA TopIsFirst ==
    ASSUME NEW n \in Nat, NEW S \in SUBSET Rows
    PROVE  /\ Top(n, S) \subseteq S /\ IsFiniteSet(Top(n, S))
           /\ \A q \in Top(n, S), r \in S \ Top(n, S) : Before(q, r)
           /\ Cardinality(Top(n, S)) <= n
           /\ Top(n, S) # S => Cardinality(Top(n, S)) = n
<1> DEFINE T == Top(n, S)
           Ahead(r) == {q \in S : Before(q, r)}
<1>1. T \subseteq S /\ IsFiniteSet(S) /\ IsFiniteSet(T)
  BY RunPagesAssumptions, FS_Subset DEF Top
<1>2. \A r \in S : IsFiniteSet(Ahead(r)) /\ Cardinality(Ahead(r)) \in Nat
  BY <1>1, FS_Subset, FS_CardinalityType
<1>3. \A r \in S : r \in T <=> Cardinality(Ahead(r)) < n
  BY DEF Top
<1>4. Cardinality(T) \in Nat
  BY <1>1, FS_CardinalityType
<1>5. ASSUME NEW q \in T, NEW r \in S \ T PROVE Before(q, r)
  <2> SUFFICES ASSUME ~Before(q, r) PROVE FALSE
    OBVIOUS
  <2>1. Before(r, q)
    BY <1>1, BeforeIsOrder
  <2>2. Ahead(r) \subseteq Ahead(q)
    BY <1>1, <2>1, BeforeIsOrder
  <2>3. Cardinality(Ahead(r)) <= Cardinality(Ahead(q))
    BY <1>1, <1>2, <2>2, FS_Subset
  <2> HIDE DEF Ahead
  <2> QED
    BY <1>1, <1>2, <1>3, <2>3
<1>6. Cardinality(T) <= n
  <2>1. CASE T = {}
    BY <2>1, FS_EmptySet
  <2>2. CASE T # {}
    <3>1. PICK x \in T : \A q \in T : q = x \/ Before(q, x)
      BY <1>1, <2>2, HasLast
    <3>2. T \subseteq Ahead(x) \union {x}
      BY <1>1, <3>1
    <3>3. /\ IsFiniteSet(Ahead(x) \union {x})
          /\ Cardinality(Ahead(x) \union {x}) <= Cardinality(Ahead(x)) + 1
      <4>1. IsFiniteSet(Ahead(x)) /\ Cardinality(Ahead(x)) \in Nat
        BY <1>1, <1>2
      <4> HIDE DEF Ahead
      <4> QED
        <5>1. /\ IsFiniteSet(Ahead(x) \union {x})
              /\ Cardinality(Ahead(x) \union {x})
                   = IF x \in Ahead(x) THEN Cardinality(Ahead(x)) ELSE Cardinality(Ahead(x)) + 1
          BY <4>1, FS_AddElement
        <5> QED
          BY <4>1, <5>1
    <3>4. Cardinality(T) <= Cardinality(Ahead(x) \union {x})
      BY <3>2, <3>3, FS_Subset
    <3>5. Cardinality(Ahead(x) \union {x}) \in Nat
      BY <3>3, FS_CardinalityType
    <3> HIDE DEF Ahead, T
    <3> QED
      BY <1>1, <1>2, <1>3, <1>4, <3>3, <3>4, <3>5
  <2> QED
    BY <2>1, <2>2
<1>7. ASSUME T # S PROVE Cardinality(T) = n
  <2>1. PICK m \in S \ T : \A q \in S \ T : q = m \/ Before(m, q)
    BY <1>1, <1>7, HasFirst
  <2>2. Ahead(m) \subseteq T
    BY <2>1, BeforeIsOrder
  <2>3. Cardinality(Ahead(m)) <= Cardinality(T)
    BY <1>1, <2>2, FS_Subset
  <2> HIDE DEF Ahead, T
  <2> QED
    BY <1>2, <1>3, <1>4, <1>6, <2>1, <2>3
<1> QED
  BY <1>1, <1>5, <1>6, <1>7

-----------------------------------------------------------------------------
\* One page

Candidates == {r \in Matching : AfterCursor(r)}

\* The one row more that a page reads tells whether rows are left, and all of
\* them come after those it shows.
LEMMA PageIsFirst ==
    ASSUME rows \subseteq Rows, NEW listed, listed = Listed(PageSize + 1)
    PROVE  /\ Shown(listed) \subseteq Candidates /\ IsFiniteSet(Shown(listed))
           /\ \A q \in Shown(listed), r \in Candidates \ Shown(listed) : Before(q, r)
           /\ Cardinality(Shown(listed)) <= PageSize
           /\ HasMore(listed) => Cardinality(Shown(listed)) = PageSize
           /\ ~HasMore(listed) => Shown(listed) = Candidates
<1> DEFINE C == Candidates
           T == Shown(listed)
<1>1. C \subseteq Rows /\ listed = Top(PageSize + 1, C) /\ T = Top(PageSize, listed)
  BY DEF Candidates, Matching, Listed, Shown, Top
<1>2. PageSize \in Nat /\ PageSize + 1 \in Nat
  BY RunPagesAssumptions
<1> HIDE DEF C, T
<1>3. /\ listed \subseteq C /\ IsFiniteSet(listed)
      /\ \A q \in listed, r \in C \ listed : Before(q, r)
      /\ listed # C => Cardinality(listed) = PageSize + 1
  BY <1>1, <1>2, TopIsFirst
<1>4. /\ T \subseteq listed /\ IsFiniteSet(T)
      /\ \A q \in T, r \in listed \ T : Before(q, r)
      /\ Cardinality(T) <= PageSize
      /\ T # listed => Cardinality(T) = PageSize
  BY <1>1, <1>2, <1>3, TopIsFirst
<1>5. Cardinality(T) \in Nat /\ Cardinality(listed) \in Nat
  BY <1>3, <1>4, FS_CardinalityType
<1>6. HasMore(listed) <=> Cardinality(listed) > PageSize
  BY DEF HasMore
<1>7. ASSUME HasMore(listed) PROVE Cardinality(T) = PageSize
  BY <1>2, <1>4, <1>5, <1>6, <1>7
<1>8. ASSUME ~HasMore(listed) PROVE T = C
  <2>1. listed = C
    BY <1>2, <1>3, <1>5, <1>6, <1>8
  <2>2. T # listed => Cardinality(T) = Cardinality(listed)
    <3>1. Cardinality(T) <= Cardinality(listed)
      BY <1>3, <1>4, FS_Subset
    <3> QED
      BY <1>2, <1>4, <1>5, <1>6, <1>8, <3>1
  <2> QED
    BY <1>3, <1>4, <2>1, <2>2, FS_Subset
<1>9. \A q \in T, r \in C \ T : Before(q, r)
  BY <1>3, <1>4
<1> QED
  BY <1>3, <1>4, <1>7, <1>8, <1>9 DEF C, T

-----------------------------------------------------------------------------
\* The inductive invariant

PageRows(i) == {x \in pages : x[1] = i}

\* Only the last page may have room left.
FullSoFar == ~done => \A i \in 1 .. turn : Cardinality(PageRows(i)) = PageSize

\* The cursor is the last row that was shown.
CursorBehind ==
    ~done => \A x \in pages :
        cursor # NoCursor /\ (x[2] = cursor \/ Before(x[2], cursor))

\* What was not shown comes after the cursor.
LeftToShow ==
    /\ Existing \subseteq rows
    /\ \A r \in Existing \ ended : r \in ShownRows \/ (~done /\ AfterCursor(r))

RInv ==
    /\ TypeOK
    /\ FullSoFar
    /\ CursorBehind
    /\ PagesInOrder
    /\ LeftToShow

\* No page was read.
LEMMA RInvInit == Init => RInv
<1> SUFFICES ASSUME Init PROVE RInv
  OBVIOUS
<1>1. TypeOK /\ FullSoFar
  <2>1. 1 .. turn = {} /\ turn \in Nat
    BY DEF Init
  <2> QED
    BY <2>1, RunPagesAssumptions DEF Init, TypeOK, FullSoFar
<1> QED
  BY <1>1 DEF Init, RInv, CursorBehind, PagesInOrder, LeftToShow, AfterCursor

-----------------------------------------------------------------------------
\* The reader's step

\* What NextPage does to the pages.
LEMMA PageMoves ==
    ASSUME TypeOK, NextPage
    PROVE  \E listed :
        /\ listed = Listed(PageSize + 1)
        /\ ~done /\ turn' = turn + 1 /\ UNCHANGED <<rows, ended>>
        /\ pages' = pages \union {<<turn + 1, r>> : r \in Shown(listed)}
        /\ done' = ~HasMore(listed)
        /\ cursor' = IF HasMore(listed) THEN LastOf(Shown(listed)) ELSE cursor
        /\ Shown(listed) \subseteq Rows
        /\ \A i \in 1 .. turn : PageRows(i)' = PageRows(i)
        /\ \A i \in {turn + 1} : Cardinality(PageRows(i)') = Cardinality(Shown(listed))
<1> DEFINE listed == Listed(PageSize + 1)
           S == Shown(listed)
           new == {<<turn + 1, r>> : r \in S}
<1>1. /\ ~done /\ turn' = turn + 1 /\ UNCHANGED <<rows, ended>>
      /\ pages' = pages \union new
      /\ done' = ~HasMore(listed)
      /\ cursor' = IF HasMore(listed) THEN LastOf(S) ELSE cursor
  BY DEF NextPage, NextCursor
<1>2. S \subseteq Rows /\ IsFiniteSet(S)
  BY PageIsFirst DEF TypeOK, Candidates, Matching
<1>3. turn \in Nat /\ pages \subseteq (1 .. turn) \X Rows
  BY DEF TypeOK
<1> HIDE DEF S, listed
<1>4. \A i \in 1 .. turn : PageRows(i)' = PageRows(i)
  <2>1. \A i \in 1 .. turn, x \in new : x[1] # i
    BY <1>3
  <2> QED
    BY <1>1, <2>1 DEF PageRows
<1>5. \A i \in {turn + 1} : PageRows(i)' = new
  <2>1. \A x \in new : x[1] = turn + 1
    OBVIOUS
  <2>2. \A x \in pages : x[1] # turn + 1
    BY <1>3
  <2> QED
    BY <1>1, <2>1, <2>2 DEF PageRows
<1>6. Cardinality(new) = Cardinality(S)
  <2> DEFINE f == [r \in S |-> <<turn + 1, r>>]
  <2>1. f \in Bijection(S, new)
    BY DEF Bijection, Injection, Surjection, IsInjective
  <2>2. ExistsBijection(S, new)
    BY <2>1 DEF ExistsBijection
  <2> QED
    BY <1>2, <2>2, FS_Bijection
<1>7. \A i \in {turn + 1} : Cardinality(PageRows(i)') = Cardinality(S)
  BY <1>5, <1>6
<1> QED
  BY <1>1, <1>2, <1>4, <1>7 DEF S, listed

\* The next page comes after all pages before it, and what it leaves comes after
\* its cursor.
LEMMA NextPageKeeps == RInv /\ NextPage => RInv'
<1> SUFFICES ASSUME RInv, NextPage PROVE RInv'
  OBVIOUS
<1> USE DEF RInv
<1>1. PICK listed :
        /\ listed = Listed(PageSize + 1)
        /\ ~done /\ turn' = turn + 1 /\ UNCHANGED <<rows, ended>>
        /\ pages' = pages \union {<<turn + 1, r>> : r \in Shown(listed)}
        /\ done' = ~HasMore(listed)
        /\ cursor' = IF HasMore(listed) THEN LastOf(Shown(listed)) ELSE cursor
        /\ Shown(listed) \subseteq Rows
        /\ \A i \in 1 .. turn : PageRows(i)' = PageRows(i)
        /\ \A i \in {turn + 1} : Cardinality(PageRows(i)') = Cardinality(Shown(listed))
  BY PageMoves
<1> DEFINE S == Shown(listed)
           more == HasMore(listed)
<1>2. /\ S \subseteq Candidates /\ IsFiniteSet(S)
      /\ \A q \in S, r \in Candidates \ S : Before(q, r)
      /\ Cardinality(S) <= PageSize
      /\ more => Cardinality(S) = PageSize
      /\ ~more => S = Candidates
  BY <1>1, PageIsFirst DEF TypeOK
<1>3. /\ turn \in Nat /\ pages \subseteq (1 .. turn) \X Rows
      /\ rows \subseteq Rows /\ PageSize \in Nat \ {0} /\ NoCursor \notin Rows
  BY RunPagesAssumptions DEF TypeOK
<1> HIDE DEF S, more
<1>4. ASSUME more
      PROVE  cursor' \in S /\ \A q \in S : q = cursor' \/ Before(q, cursor')
  <2>1. S # {}
    BY <1>2, <1>3, <1>4, FS_EmptySet
  <2> QED
    BY <1>1, <1>4, <2>1, HasLast DEF S, more
<1>5. \A i \in 1 .. turn + 1 :
        Cardinality(PageRows(i)') = IF i = turn + 1 THEN Cardinality(S) ELSE PageSize
  <2> SUFFICES ASSUME NEW i \in 1 .. turn + 1
               PROVE  Cardinality(PageRows(i)')
                        = IF i = turn + 1 THEN Cardinality(S) ELSE PageSize
    OBVIOUS
  <2>1. CASE i = turn + 1
    BY <1>1, <2>1 DEF S
  <2>2. CASE i # turn + 1
    <3>1. i \in 1 .. turn
      BY <1>3, <2>2
    <3> QED
      BY <1>1, <2>2, <3>1 DEF FullSoFar
  <2> QED
    BY <2>1, <2>2
<1>6. TypeOK'
  <2>1. rows' \subseteq Rows /\ ended' \subseteq rows' /\ turn' \in Nat /\ done' \in BOOLEAN
    BY <1>1, <1>3 DEF TypeOK
  <2>2. cursor' \in Rows \union {NoCursor}
    BY <1>1, <1>4 DEF TypeOK, S, more
  <2>3. pages' \subseteq (1 .. turn') \X Rows
    BY <1>1, <1>3 DEF S
  <2>4. ASSUME NEW i \in 1 .. turn'
        PROVE  LET size == Cardinality({x \in pages' : x[1] = i})
               IN  size <= PageSize /\ (i < turn' => size = PageSize)
    BY <1>1, <1>2, <1>3, <1>5 DEF PageRows
  <2> QED
    BY <2>1, <2>2, <2>3, <2>4 DEF TypeOK
<1>7. FullSoFar'
  BY <1>1, <1>2, <1>5 DEF FullSoFar, more
<1>8. \A r \in Candidates : r \in rows /\ r \in Rows /\ AfterCursor(r)
  BY <1>3 DEF Candidates, Matching
<1>9. ASSUME NEW x \in pages, NEW r \in Candidates PROVE Before(x[2], r)
  <2>1. x[2] \in Rows /\ cursor \in Rows /\ (x[2] = cursor \/ Before(x[2], cursor))
    BY <1>1, <1>3 DEF CursorBehind, TypeOK
  <2>2. Before(cursor, r)
    BY <1>3, <1>8, <2>1 DEF AfterCursor
  <2> QED
    BY <1>8, <2>1, <2>2, BeforeIsOrder
<1>10. \A x \in pages' : x \in pages \/ (x[1] = turn + 1 /\ x[2] \in S /\ x = <<x[1], x[2]>>)
  BY <1>1 DEF S
<1>11. CursorBehind'
  <2> SUFFICES ASSUME more, NEW x \in pages'
               PROVE  cursor' # NoCursor /\ (x[2] = cursor' \/ Before(x[2], cursor'))
    BY <1>1 DEF CursorBehind, more
  <2> QED
    BY <1>2, <1>3, <1>4, <1>8, <1>9, <1>10
<1>12. PagesInOrder'
  <2> SUFFICES ASSUME NEW x \in pages', NEW y \in pages'
               PROVE  /\ x[1] < y[1] => Before(x[2], y[2])
                      /\ x[2] = y[2] => x = y
    BY DEF PagesInOrder
  <2>1. CASE x \in pages /\ y \in pages
    BY <2>1 DEF PagesInOrder
  <2>2. CASE x \in pages /\ y \notin pages
    <3>1. Before(x[2], y[2]) /\ x[2] \in Rows
      BY <1>2, <1>3, <1>9, <1>10, <2>2
    <3> QED
      BY <3>1, BeforeIsOrder
  <2>3. CASE x \notin pages /\ y \in pages
    <3>1. Before(y[2], x[2]) /\ y[2] \in Rows
      BY <1>2, <1>3, <1>9, <1>10, <2>3
    <3>2. x[1] = turn + 1 /\ y[1] \in 1 .. turn
      BY <1>3, <1>10, <2>3
    <3> QED
      BY <1>3, <3>1, <3>2, BeforeIsOrder
  <2>4. CASE x \notin pages /\ y \notin pages
    BY <1>3, <1>10, <2>4
  <2> QED
    BY <2>1, <2>2, <2>3, <2>4
<1>13. LeftToShow'
  <2>1. ShownRows' = ShownRows \union S
    <3>1. \A x \in pages' : x \in pages \/ x[2] \in S
      BY <1>10
    <3>2. \A r \in S : <<turn + 1, r>> \in pages' /\ <<turn + 1, r>>[2] = r
      BY <1>1 DEF S
    <3>3. pages \subseteq pages'
      BY <1>1
    <3> QED
      BY <3>1, <3>2, <3>3 DEF ShownRows
  <2>2. ASSUME NEW r \in Existing \ ended, r \notin ShownRows
        PROVE  r \in S \/ (more /\ AfterCursor(r)')
    <3>1. r \in Candidates
      BY <2>2 DEF LeftToShow, Candidates, Matching
    <3> QED
      BY <1>2, <1>4, <3>1 DEF AfterCursor
  <2> QED
    BY <1>1, <2>1, <2>2 DEF LeftToShow, more
<1> QED
  BY <1>6, <1>7, <1>11, <1>12, <1>13

-----------------------------------------------------------------------------
\* The theorems

\* What was shown, what the cursor stands for, and what is left.
THEOREM Invariance == Spec => []RInv
<1>1. RInv /\ [Next]_vars => RInv'
  <2> SUFFICES ASSUME RInv, [Next]_vars PROVE RInv'
    OBVIOUS
  <2> USE DEF RInv, TypeOK, FullSoFar, PageRows, CursorBehind, PagesInOrder, LeftToShow,
              ShownRows, AfterCursor
  <2>1. ASSUME NEW r \in Rows, Insert(r) PROVE RInv'
    BY <2>1 DEF Insert
  <2>2. ASSUME NEW r \in Rows, End(r) PROVE RInv'
    BY <2>2 DEF End, Matching
  <2>3. CASE UNCHANGED vars
    BY <2>3 DEF vars
  <2> QED
    BY <2>1, <2>2, <2>3, NextPageKeeps DEF Next
<1> QED
  BY RInvInit, <1>1, PTL DEF Spec

\* The types; and every page but the last is full, and none holds more.
THEOREM TypeCorrect == Spec => []TypeOK
<1>1. RInv => TypeOK
  BY DEF RInv
<1> QED
  BY Invariance, <1>1, PTL

\* No row is shown twice, and all pages together are in the order of the query,
\* whatever is inserted or ends between two of them (ListInstances).
THEOREM PagesAreInOrder == Spec => []PagesInOrder
<1>1. RInv => PagesInOrder
  BY DEF RInv
<1> QED
  BY Invariance, <1>1, PTL

\* Who reads to the last page has seen every row that was there from the start
\* and still matches, also those created at the same time (ListInstances).
THEOREM NoRowIsSkipped == Spec => []NothingSkipped
<1>1. RInv => NothingSkipped
  BY DEF RInv, LeftToShow, NothingSkipped
<1> QED
  BY Invariance, <1>1, PTL

=============================================================================
