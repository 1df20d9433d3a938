---------------------------- MODULE Listing_proofs ----------------------------
(***************************************************************************)
(* Proofs about Listing for any set of comments, sizes of a page and width *)
(* of an integer.  The rank of a row is the number of rows before it; the  *)
(* ranks of the listed rows are 0, 1, 2, ..., so a slice has as many rows  *)
(* as its bounds say.  As long as no rows change places, ranks only fall   *)
(* while nothing joins, and what was shown stays behind the walk; and they *)
(* only rise while nothing leaves, and what is behind the walk was shown.  *)
(***************************************************************************)
EXTENDS Listing, FiniteSetTheorems, TLAPS

-----------------------------------------------------------------------------
(* Numbers and ranks.                                                        *)

\* Rounded up: the number of pages is enough for all rows and no page more.
LEMMA TotalPagesBounds ==
    ASSUME NEW t \in Nat, NEW n \in Nat \ {0}
    PROVE  /\ TotalPages(t, n) \in 0 .. t
           /\ t <= TotalPages(t, n) * n
           /\ \A p \in Nat : p < TotalPages(t, n) <=> p * n < t
<1> DEFINE P == TotalPages(t, n)
           r == (t + n - 1) % n
<1>1. P \in Int /\ r \in 0 .. n - 1 /\ t + n - 1 = n * P + r
  BY DEF TotalPages
<1> HIDE DEF P, r
<1>2. n * P >= t /\ n * P <= t + n - 1
  BY <1>1
<1>3. P >= 0
  <2>1. SUFFICES ASSUME P <= -1 PROVE FALSE
    BY <1>1
  <2>2. n * P <= n * (-1)
    BY <1>1, <2>1
  <2>3. n * (-1) = 0 - n
    OBVIOUS
  <2> QED
    BY <1>1, <1>2, <2>2, <2>3
<1>4. P <= t
  <2>1. SUFFICES ASSUME P >= t + 1 PROVE FALSE
    BY <1>1
  <2>2. n * P >= n * (t + 1)
    BY <1>1, <2>1
  <2>3. n * (t + 1) = n * t + n /\ n * t >= t
    OBVIOUS
  <2> QED
    BY <1>1, <1>2, <2>2, <2>3
<1>5. ASSUME NEW p \in Nat PROVE p < P <=> p * n < t
  <2>1. CASE p < P
    <3>1. n * (p + 1) <= n * P
      BY <1>1, <2>1
    <3>2. n * (p + 1) = n * p + n /\ n * p = p * n
      OBVIOUS
    <3> QED
      BY <1>1, <1>2, <2>1, <3>1, <3>2
  <2>2. CASE p >= P
    <3>1. n * p >= n * P /\ n * p = p * n
      BY <1>1, <2>2
    <3> QED
      BY <1>1, <1>2, <2>2, <3>1
  <2> QED
    BY <1>1, <2>1, <2>2
<1>6. n * P = P * n
  BY <1>1
<1> QED
  BY <1>1, <1>2, <1>3, <1>4, <1>5, <1>6 DEF P

\* An offset that fits is not changed by the arithmetic.
LEMMA NoOverflow ==
    ASSUME NEW p \in Nat \ {0}, NEW n \in Nat, (p - 1) * n <= MaxInt
    PROVE  /\ Offset(p, n) = (p - 1) * n
           /\ (p - 1) * n \in Nat
<1> DEFINE k == (p - 1) * n
<1>1. k \in Nat
  OBVIOUS
<1> HIDE DEF k
<1>2. (k + MaxInt + 1) % (2 * (MaxInt + 1)) = k + MaxInt + 1
  BY <1>1, PagesAssumption DEF k
<1> QED
  BY <1>1, <1>2, PagesAssumption DEF Offset, Wrap, k

\* ORDER BY and the scan together leave no two rows without an order.
LEMMA OrderTotal ==
    ASSUME listed \subseteq Comments, newest \in BOOLEAN, byPost \in BOOLEAN,
           NEW c \in listed, NEW d \in listed, NEW e \in listed
    PROVE  /\ ~Precedes(c, c)
           /\ c = d \/ Precedes(c, d) \/ Precedes(d, c)
           /\ Precedes(c, d) /\ Precedes(d, e) => Precedes(c, e)
<1>1. /\ c \in Int /\ d \in Int /\ e \in Int
      /\ CreatedAt[c] \in Int /\ CreatedAt[d] \in Int /\ CreatedAt[e] \in Int
  BY CommentsAssumption, CreatedAtAssumption
<1>2. ~Precedes(c, c)
  BY <1>1 DEF Precedes
<1>3. c = d \/ Precedes(c, d) \/ Precedes(d, c)
  BY <1>1 DEF Precedes
<1>4. Precedes(c, d) /\ Precedes(d, e) => Precedes(c, e)
  BY <1>1 DEF Precedes
<1> QED
  BY <1>2, <1>3, <1>4

\* The rows have the ranks from 0 on, each another.
LEMMA RankBounds ==
    ASSUME listed \subseteq Comments, newest \in BOOLEAN, byPost \in BOOLEAN,
           NEW c \in listed
    PROVE  /\ IsFiniteSet(listed) /\ Cardinality(listed) \in Nat
           /\ IsFiniteSet(Before(c))
           /\ Rank(c) \in 0 .. Cardinality(listed) - 1
<1>1. IsFiniteSet(listed) /\ Cardinality(listed) \in Nat
  BY CommentsAssumption, FS_Subset, FS_CardinalityType
<1>2. Before(c) \subseteq listed /\ c \in listed \ Before(c)
  BY OrderTotal DEF Before
<1>3. /\ IsFiniteSet(Before(c)) /\ Cardinality(Before(c)) \in Nat
      /\ Cardinality(Before(c)) <= Cardinality(listed)
      /\ Cardinality(Before(c)) # Cardinality(listed)
  BY <1>1, <1>2, FS_Subset, FS_CardinalityType
<1> QED
  BY <1>1, <1>3 DEF Rank

LEMMA RankType == listed \subseteq Comments => \A c \in Comments : Rank(c) \in Nat
<1> SUFFICES ASSUME listed \subseteq Comments, NEW c \in Comments
             PROVE  Rank(c) \in Nat
  OBVIOUS
<1>1. Before(c) \subseteq Comments
  BY DEF Before
<1> QED
  BY <1>1, CommentsAssumption, FS_Subset, FS_CardinalityType DEF Rank

LEMMA RankTypeNext ==
    (listed \subseteq Comments => \A c \in Comments : Rank(c) \in Nat)'
BY RankType, PTL

\* A row that precedes another has the smaller rank.
LEMMA RankInjective ==
    ASSUME listed \subseteq Comments, newest \in BOOLEAN, byPost \in BOOLEAN,
           NEW c \in listed, NEW d \in listed, d \in Before(c)
    PROVE  Rank(d) < Rank(c)
<1>1. Before(d) \subseteq Before(c) /\ d \notin Before(d)
  BY OrderTotal DEF Before
<1>2. /\ Cardinality(Before(d)) <= Cardinality(Before(c))
      /\ Cardinality(Before(d)) # Cardinality(Before(c))
  BY <1>1, RankBounds, FS_Subset
<1> QED
  BY <1>2, RankBounds DEF Rank

\* No rank is missing and none occurs twice.
LEMMA RankBijection ==
    ASSUME listed \subseteq Comments, newest \in BOOLEAN, byPost \in BOOLEAN
    PROVE  [c \in listed |-> Rank(c)] \in
               Bijection(listed, 0 .. Cardinality(listed) - 1)
<1> DEFINE N == Cardinality(listed)
           rank == [c \in listed |-> Rank(c)]
<1>1. IsFiniteSet(listed) /\ N \in Nat
  BY CommentsAssumption, FS_Subset, FS_CardinalityType
<1>2. rank \in [listed -> 0 .. N - 1]
  BY RankBounds
<1>3. ASSUME NEW c \in listed, NEW d \in listed, rank[c] = rank[d]
      PROVE  c = d
  <2>1. c = d \/ d \in Before(c) \/ c \in Before(d)
    BY OrderTotal DEF Before
  <2> QED
    BY <1>3, <2>1, RankInjective, RankBounds
<1>4. rank \in Injection(listed, 0 .. N - 1)
  BY <1>2, <1>3 DEF Injection, IsInjective
<1>5. IsFiniteSet(0 .. N - 1) /\ Cardinality(0 .. N - 1) = N
  <2> HIDE DEF N
  <2>1. 0 \in Int /\ N - 1 \in Int
    BY <1>1
  <2> DEFINE top == N - 1
  <2>2. IsFiniteSet(0 .. top) /\ Cardinality(0 .. top) = IF 0 > top THEN 0 ELSE top - 0 + 1
    <3> HIDE DEF top
    <3> QED
      BY <2>1, FS_Interval, Zenon DEF top
  <2> QED
    BY <1>1, <2>2
<1>6. rank \in Surjection(listed, 0 .. N - 1)
  BY <1>4, <1>5, FS_Injection
<1> QED
  BY <1>4, <1>6 DEF Bijection

\* LIMIT and OFFSET pick as many rows as there are.
LEMMA SliceSize ==
    ASSUME listed \subseteq Comments, newest \in BOOLEAN, byPost \in BOOLEAN,
           NEW limit \in Nat \ {0}, NEW skip \in Nat
    PROVE  LET left == Cardinality(listed) - skip
           IN  /\ IsFiniteSet(Slice(limit, skip))
               /\ Cardinality(Slice(limit, skip)) =
                     IF left <= 0 THEN 0 ELSE IF left < limit THEN left ELSE limit
<1> DEFINE N == Cardinality(listed)
           rank == [c \in listed |-> Rank(c)]
           last == IF N < skip + limit THEN N - 1 ELSE skip + limit - 1
           page_ == Slice(limit, skip)
           onPage == [c \in page_ |-> Rank(c)]
<1>1. IsFiniteSet(listed) /\ N \in Nat
  BY CommentsAssumption, FS_Subset, FS_CardinalityType
<1>2. /\ page_ = {c \in listed : Rank(c) \in skip .. skip + limit - 1}
      /\ last \in Int
  BY <1>1 DEF Slice
<1> HIDE DEF page_
<1>3. \A c \in listed : Rank(c) \in 0 .. N - 1
  BY RankBounds
<1>4. onPage \in [page_ -> skip .. last]
  BY <1>1, <1>2, <1>3
<1>5. \A c, d \in listed : Rank(c) = Rank(d) => c = d
  BY RankBijection DEF Bijection, Injection, IsInjective
<1>6. \A k \in 0 .. N - 1 : \E c \in listed : Rank(c) = k
  BY RankBijection DEF Bijection, Surjection
<1>7. \A k \in skip .. last : \E c \in page_ : onPage[c] = k
  BY <1>1, <1>2, <1>6
<1>8. onPage \in Bijection(page_, skip .. last)
  BY <1>2, <1>4, <1>5, <1>7 DEF Bijection, Injection, IsInjective, Surjection
<1>9. IsFiniteSet(page_)
  BY <1>1, <1>2, FS_Subset
<1>10. Cardinality(page_) = Cardinality(skip .. last)
  BY <1>8, <1>9, FS_Bijection DEF ExistsBijection
<1>11. Cardinality(skip .. last) = IF skip > last THEN 0 ELSE last - skip + 1
  <2>1. skip \in Int /\ last \in Int
    BY <1>2
  <2> HIDE DEF last
  <2> QED
    BY <2>1, FS_Interval, Zenon
<1> QED
  BY <1>1, <1>9, <1>10, <1>11 DEF page_

\* What joins raises ranks, what leaves lowers them.
LEMMA RankMoves ==
    ASSUME listed \subseteq Comments, listed' \subseteq Comments,
           \A d, e \in listed \cap listed' : Precedes(d, e)' <=> Precedes(d, e),
           NEW c \in listed \cap listed'
    PROVE  /\ listed \subseteq listed' => Rank(c) <= Rank(c)'
           /\ listed' \subseteq listed => Rank(c)' <= Rank(c)
<1>1. /\ listed \subseteq listed' => Before(c) \subseteq Before(c)'
      /\ listed' \subseteq listed => Before(c)' \subseteq Before(c)
  BY DEF Before
<1>2. IsFiniteSet(Before(c)) /\ IsFiniteSet(Before(c)')
  <2>1. Before(c) \subseteq Comments /\ Before(c)' \subseteq Comments
    BY DEF Before
  <2> QED
    BY <2>1, CommentsAssumption, FS_Subset
<1> QED
  BY <1>1, <1>2, FS_Subset DEF Rank

-----------------------------------------------------------------------------
(* The inductive invariant.                                                  *)

LEMMA Sizes ==
    /\ Cardinality(Comments) \in Nat /\ MaxInt \in Nat
    /\ \A S \in SUBSET Comments :
          /\ IsFiniteSet(S) /\ Cardinality(S) \in 0 .. Cardinality(Comments)
<1>1. IsFiniteSet(Comments) /\ MaxInt \in Nat
  BY CommentsAssumption, PagesAssumption
<1>2. Cardinality(Comments) \in Nat
  BY <1>1, FS_CardinalityType
<1>3. ASSUME NEW S \in SUBSET Comments
      PROVE  IsFiniteSet(S) /\ Cardinality(S) \in 0 .. Cardinality(Comments)
  <2>1. IsFiniteSet(S) /\ Cardinality(S) <= Cardinality(Comments)
    BY <1>1, FS_Subset
  <2>2. Cardinality(S) \in Nat
    BY <2>1, FS_CardinalityType
  <2> QED
    BY <1>2, <2>1, <2>2
<1> QED
  BY <1>1, <1>2, <1>3

LEMMA InvInit == Init => IInv
<1> SUFFICES ASSUME Init PROVE IInv
  OBVIOUS
<1>1. /\ shown.rows = {} /\ shown.total = 0 /\ shown.pages = 0
      /\ 0 \in 0 .. Cardinality(Comments)
      /\ 1 \in 1 .. MaxInt /\ DefaultPerPage \in 1 .. MaxPerPage
  BY PagesAssumption, Sizes DEF Init, Nothing
<1>2. TypeOK
  BY <1>1 DEF Init, TypeOK
<1>3. Paging /\ ShownStaysBehind /\ BehindWasShown /\ WalkComplete /\ PageAsPromised
  BY DEF Init, Paging, ShownStaysBehind, BehindWasShown, WalkComplete, AtLastPage,
         PageAsPromised
<1> QED
  BY <1>2, <1>3 DEF IInv

\* What Select shows, in numbers: rows of the ranks that belong to the page.
LEMMA RowsOfPage ==
    ASSUME TypeOK, Near
    PROVE  LET rows == Slice(perPage, Offset(page, perPage))
           IN  rows = {c \in listed : Rank(c) \in
                          (page - 1) * perPage .. (page - 1) * perPage + perPage - 1}
<1>1. page \in Nat \ {0} /\ perPage \in Nat
  BY PagesAssumption DEF TypeOK
<1>2. (page - 1) * perPage <= MaxInt
  <2>1. (page - 1) * perPage \in Nat
    BY <1>1
  <2> QED
    BY <2>1, Sizes, CountAssumption DEF Near
<1> QED
  BY <1>1, <1>2, NoOverflow DEF Slice

LEMMA StartKeeps ==
    ASSUME IInv, NEW p \in FirstPages, NEW n \in PerPages, Start(p, n)
    PROVE  IInv'
<1>1. page' \in 1 .. MaxInt /\ perPage' \in 1 .. MaxPerPage
  BY PagesAssumption DEF Start, PageNumber, PerPage
<1>2. TypeOK'
  <2>1. TypeOK
    BY DEF IInv
  <2>2. shown' = [rows |-> {}, total |-> 0, pages |-> 0]
    BY DEF Start, Nothing
  <2>3. walked' \in BOOLEAN
    BY DEF Start
  <2>4. /\ 0 \in 0 .. Cardinality(Comments)
        /\ shown'.rows = {} /\ shown'.total = 0 /\ shown'.pages = 0
    BY <2>2, Sizes
  <2>5. /\ UNCHANGED <<listed, newest, byPost, approved, total>> /\ pc' = "count"
        /\ seen' = {} /\ twice' = FALSE /\ steady' = listed
        /\ lost' = FALSE /\ grew' = FALSE /\ slipped' = FALSE /\ moved' = FALSE
    BY DEF Start, list
  <2> QED
    BY <1>1, <2>1, <2>3, <2>4, <2>5 DEF TypeOK
<1>0. walked' => (page' - 1) * perPage' = 0
  <2>1. \A j, k \in Int : j = 1 => (j - 1) * k = 0
    OBVIOUS
  <2>2. walked' => page' = 1
    BY DEF Start
  <2>3. page' \in Int /\ perPage' \in Int
    BY <1>1
  <2> QED
    BY <2>1, <2>2, <2>3
<1>3. walked' => Near'
  BY <1>0, Sizes DEF Near
<1>4. Paging' /\ ShownStaysBehind'
  BY <1>3 DEF Start, Paging, ShownStaysBehind
<1>5. BehindWasShown'
  <2>1. SUFFICES ASSUME walked' PROVE \A c \in steady' : ~(Rank(c)' < Reached')
    BY DEF BehindWasShown, Start, list
  <2>2. Reached' = 0
    BY <1>0, <2>1 DEF Start, Reached
  <2> QED
    BY <1>2, <2>2, RankTypeNext DEF TypeOK
<1> QED
  BY <1>2, <1>4, <1>5 DEF IInv, Start, WalkComplete, AtLastPage, PageAsPromised

LEMMA CountOrFailKeeps == IInv /\ (Count \/ Fail) => IInv'
<1> SUFFICES ASSUME IInv, Count \/ Fail PROVE IInv'
  OBVIOUS
<1>1. TypeOK
  BY DEF IInv
<1>2. /\ pc \in {"count", "select"} /\ pc' \in {"count", "select"}
      /\ pc' = "select" => total' = Cardinality(listed)
      /\ total' \in {total, Cardinality(listed)}
      /\ UNCHANGED <<listed, newest, byPost, approved, page, perPage, shown, walked,
                     seen, twice, steady, lost, grew, slipped, moved>>
  BY DEF Count, Fail, list, request, history
<1>3. TypeOK'
  BY <1>1, <1>2, Sizes DEF TypeOK
<1>4. /\ Near' <=> Near
      /\ Reached' = Reached
      /\ \A c : Rank(c)' = Rank(c)
  BY <1>2 DEF Near, Reached, Rank, Before, Precedes
<1>5. Paging'
  BY <1>2, <1>4 DEF IInv, Paging
<1>6. ShownStaysBehind'
  BY <1>2, <1>4 DEF IInv, ShownStaysBehind
<1>7. BehindWasShown'
  BY <1>2, <1>4 DEF IInv, BehindWasShown
<1> QED
  BY <1>2, <1>3, <1>5, <1>6, <1>7 DEF IInv, WalkComplete, AtLastPage, PageAsPromised

\* "Next" leads to a page that holds some of the comments there are.
LEMMA NextPageKeeps == IInv /\ NextPage => IInv'
<1> SUFFICES ASSUME IInv, NextPage PROVE IInv'
  OBVIOUS
<1>1. /\ TypeOK
      /\ page \in Nat \ {0} /\ perPage \in Nat \ {0}
      /\ shown.total \in Nat /\ shown.total <= Cardinality(Comments)
  BY PagesAssumption, Sizes DEF IInv, TypeOK
<1>2. /\ pc = "page" /\ page < shown.pages /\ page' = page + 1 /\ pc' = "count"
      /\ UNCHANGED <<listed, newest, byPost, approved, perPage, total, shown, walked,
                     seen, twice, steady, lost, grew, slipped, moved>>
  BY DEF NextPage, list, history
<1>3. shown.pages = TotalPages(shown.total, perPage)
  BY <1>2 DEF IInv, Paging
<1>4. page * perPage < shown.total /\ shown.pages \in 0 .. shown.total
  BY <1>1, <1>2, <1>3, TotalPagesBounds
<1>5. (page + 1) - 1 = page /\ page * perPage \in Nat
  BY <1>1
<1>6. Near'
  BY <1>1, <1>2, <1>4, <1>5, Sizes DEF Near
<1>7. Near
  <2>1. (page - 1) * perPage <= page * perPage /\ (page - 1) * perPage \in Nat
    BY <1>1
  <2> QED
    BY <1>1, <1>4, <1>5, <2>1, Sizes DEF Near
<1>8. Reached' = Reached /\ \A c : Rank(c)' = Rank(c)
  BY <1>1, <1>2, <1>5 DEF Reached, Rank, Before, Precedes
<1>9. page' \in 1 .. MaxInt
  BY <1>1, <1>2, <1>4, Sizes, CountAssumption
<1>10. TypeOK'
  BY <1>1, <1>2, <1>9 DEF TypeOK
<1>11. Paging' /\ ShownStaysBehind' /\ BehindWasShown'
  BY <1>2, <1>6, <1>7, <1>8 DEF IInv, Paging, ShownStaysBehind, BehindWasShown
<1> QED
  BY <1>2, <1>10, <1>11 DEF IInv, WalkComplete, AtLastPage, PageAsPromised

LEMMA LeaveKeeps == IInv /\ Leave => IInv'
<1> SUFFICES ASSUME IInv, Leave PROVE IInv'
  OBVIOUS
<1>1. /\ TypeOK /\ pc' = "idle"
      /\ UNCHANGED <<listed, newest, byPost, approved, page, perPage, total, shown,
                     walked, seen, twice, steady, lost, grew, slipped, moved>>
  BY DEF IInv, Leave, list, request, history
<1>2. TypeOK'
  BY <1>1 DEF TypeOK
<1> QED
  BY <1>1, <1>2 DEF IInv, Paging, ShownStaysBehind, BehindWasShown, WalkComplete,
                   AtLastPage, PageAsPromised

LEMMA PartKeeps == ASSUME IInv, NEW c \in Comments, Part(c) PROVE IInv'
<1>1. /\ TypeOK /\ listed' = listed \ {c} /\ steady' = steady \ {c} /\ lost' = TRUE
      /\ approved' = approved \ {c}
      /\ UNCHANGED <<newest, byPost, pc, page, perPage, total, shown, walked, seen, twice,
                     grew, slipped, moved>>
  BY DEF IInv, Part, request
<1>2. TypeOK'
  BY <1>1 DEF TypeOK
<1>3. ShownStaysBehind'
  <2>1. Near' <=> Near
    BY <1>1 DEF Near
  <2>2. Reached' = Reached /\ Reached \in Int
    BY <1>1 DEF Reached, TypeOK
  <2>6. \A d, e \in listed \cap listed' : Precedes(d, e)' <=> Precedes(d, e)
    BY <1>1 DEF Precedes
  <2>3. ASSUME NEW d \in seen \cap listed' PROVE Rank(d)' <= Rank(d)
    BY <1>1, <1>2, <2>6, RankMoves DEF TypeOK
  <2>4. ASSUME NEW d \in seen \cap listed'
        PROVE  d \in Comments /\ Rank(d) \in Nat /\ Rank(d)' \in Nat
    BY <1>1, <1>2, RankType, RankTypeNext DEF TypeOK
  <2>5. ASSUME pc # "idle", ~grew, ~moved, Near, NEW d \in seen \cap listed'
        PROVE  Rank(d)' < Reached
    <3>1. Rank(d) < Reached
      BY <1>1, <2>5 DEF IInv, ShownStaysBehind
    <3> QED
      BY <2>2, <2>3, <2>4, <2>5, <3>1
  <2> QED
    BY <1>1, <2>1, <2>2, <2>5 DEF IInv, ShownStaysBehind
<1>4. Paging'
  BY <1>1 DEF IInv, Paging, Near
<1> QED
  BY <1>1, <1>2, <1>3, <1>4 DEF IInv, BehindWasShown, WalkComplete, PageAsPromised, Quiet

LEMMA JoinKeeps ==
    ASSUME IInv, NEW c \in Comments, NEW a \in BOOLEAN, Join(c, a) PROVE IInv'
<1>1. /\ TypeOK /\ listed' = listed \cup {c} /\ grew' = TRUE
      /\ c \notin listed /\ approved' \in {approved, approved \cup {c}}
      /\ slipped' = (slipped \/ pc = "select")
      /\ UNCHANGED <<newest, byPost, pc, page, perPage, total, shown, walked, seen, twice,
                     steady, lost, moved>>
  BY DEF IInv, Join, request
<1>2. TypeOK'
  BY <1>1 DEF TypeOK
<1>3. BehindWasShown'
  <2>1. Reached' = Reached /\ Reached \in Int
    BY <1>1 DEF Reached, TypeOK
  <2>5. \A d, e \in listed \cap listed' : Precedes(d, e)' <=> Precedes(d, e)
    BY <1>1 DEF Precedes
  <2>2. ASSUME NEW d \in steady, steady \subseteq listed PROVE Rank(d) <= Rank(d)'
    BY <1>1, <1>2, <2>2, <2>5, RankMoves DEF TypeOK
  <2>3. ASSUME NEW d \in steady
        PROVE  Rank(d) \in Nat /\ Rank(d)' \in Nat
    BY <1>1, <1>2, RankType, RankTypeNext DEF TypeOK
  <2>4. ASSUME pc # "idle", walked, ~lost, ~moved, NEW d \in steady, Rank(d)' < Reached
        PROVE  d \in seen
    <3>1. steady \subseteq listed
      BY <2>4 DEF IInv, BehindWasShown
    <3>2. Rank(d) < Reached
      BY <2>1, <2>2, <2>3, <2>4, <3>1
    <3> QED
      BY <2>4, <3>2 DEF IInv, BehindWasShown
  <2> QED
    BY <1>1, <2>1, <2>4 DEF IInv, BehindWasShown
<1>4. Paging'
  BY <1>1 DEF IInv, Paging, Near
<1> QED
  BY <1>1, <1>2, <1>3, <1>4 DEF IInv, ShownStaysBehind, WalkComplete, AtLastPage,
                                PageAsPromised, Quiet

\* A toggle moves no row, or is remembered.
LEMMA ToggleKeeps == ASSUME IInv, NEW c \in Comments, Toggle(c) PROVE IInv'
<1>1. /\ TypeOK /\ c \in listed /\ approved' \in {approved \ {c}, approved \cup {c}}
      /\ UNCHANGED <<listed, newest, byPost, pc, page, perPage, total, shown, walked, seen,
                     twice, steady, lost, grew, slipped>>
      /\ moved' = (moved \/ \E d, e \in listed : Precedes(d, e)' # Precedes(d, e))
  BY DEF IInv, Toggle, request
<1>2. TypeOK'
  BY <1>1 DEF TypeOK
<1>3. Paging' /\ PageAsPromised' /\ (Near' <=> Near) /\ Reached' = Reached
  BY <1>1 DEF IInv, Paging, Near, Reached, PageAsPromised, Quiet, Fits, Promised
<1>4. ASSUME ~moved' PROVE ~moved /\ \A d \in listed : Rank(d)' = Rank(d)
  <2>1. \A d \in listed : Before(d)' = Before(d)
    BY <1>1, <1>4 DEF Before
  <2> QED
    BY <1>1, <1>4, <2>1 DEF Rank
<1>5. ShownStaysBehind'
  BY <1>1, <1>3, <1>4 DEF IInv, ShownStaysBehind
<1>6. BehindWasShown'
  BY <1>1, <1>3, <1>4 DEF IInv, BehindWasShown
<1>7. WalkComplete'
  BY <1>1, <1>4 DEF IInv, WalkComplete, AtLastPage
<1> QED
  BY <1>2, <1>3, <1>5, <1>6, <1>7 DEF IInv

\* The step all depends on: rows of the ranks from the reached one on, by the
\* table of this moment, beside the total of an earlier one.
LEMMA SelectKeeps == IInv /\ Select => IInv'
<1> SUFFICES ASSUME IInv, Select PROVE IInv'
  OBVIOUS
<1> DEFINE rows == Slice(perPage, Offset(page, perPage))
           first == (page - 1) * perPage
<1>1. /\ pc = "select" /\ pc' = "page"
      /\ shown' = [rows |-> rows, total |-> total, pages |-> TotalPages(total, perPage)]
      /\ seen' = seen \cup rows
      /\ twice' = (twice \/ rows \cap seen # {})
      /\ UNCHANGED <<listed, newest, byPost, approved, page, perPage, total, walked,
                     steady, lost, grew, slipped, moved>>
  BY DEF Select, list, request
<1>2. /\ TypeOK
      /\ page \in Nat \ {0} /\ perPage \in Nat \ {0}
      /\ total \in 0 .. Cardinality(Comments)
      /\ listed \subseteq Comments /\ newest \in BOOLEAN /\ byPost \in BOOLEAN
  BY PagesAssumption DEF IInv, TypeOK
<1>3. /\ rows \subseteq listed
      /\ Near => rows = {c \in listed : Rank(c) \in first .. first + perPage - 1}
  BY <1>2, RowsOfPage DEF Slice
<1>4. /\ shown'.rows = rows /\ shown'.total = total
      /\ shown'.pages = TotalPages(total, perPage)
  BY <1>1
<1>5. /\ total \in Nat
      /\ TotalPages(total, perPage) \in 0 .. total
      /\ total <= TotalPages(total, perPage) * perPage
      /\ \A p \in Nat : p < TotalPages(total, perPage) <=> p * perPage < total
  <2>1. total \in Nat
    BY <1>2, Sizes
  <2> QED
    BY <1>2, <2>1, TotalPagesBounds
<1> HIDE DEF rows, first
<1>6. first \in Nat /\ page * perPage = first + perPage /\ page * perPage \in Nat
  BY <1>2 DEF first
<1>7. Reached = first /\ Reached' = first + perPage
  BY <1>1, <1>6 DEF Reached, first
<1>8. (Near' <=> Near) /\ \A c : Rank(c)' = Rank(c)
  BY <1>1 DEF Near, Rank, Before, Precedes
<1>9. \A c \in listed : Rank(c) \in 0 .. Cardinality(listed) - 1
  BY <1>2, RankBounds
<1>10. TypeOK'
  BY <1>1, <1>2, <1>3, <1>4, <1>5, Sizes DEF TypeOK
<1>11. Paging'
  BY <1>1, <1>4, <1>8 DEF IInv, Paging
<1>12. ShownStaysBehind'
  <2>1. CASE ~grew /\ ~moved /\ Near
    <3>1. \A c \in seen \cap listed : Rank(c) < first
      BY <1>1, <1>7, <2>1 DEF IInv, ShownStaysBehind
    <3>2. rows \cap seen = {}
      BY <1>3, <1>6, <1>9, <2>1, <3>1
    <3>3. \A c \in seen' \cap listed' : Rank(c) < first + perPage
      BY <1>1, <1>2, <1>3, <1>6, <1>9, <2>1, <3>1
    <3> QED
      BY <1>1, <1>7, <1>8, <2>1, <3>2, <3>3 DEF IInv, ShownStaysBehind
  <2>2. CASE ~grew /\ ~moved /\ ~Near
    <3>1. seen = {}
      BY <1>1, <2>2 DEF IInv, Paging
    <3> QED
      BY <1>1, <1>8, <2>2, <3>1 DEF IInv, ShownStaysBehind
  <2> QED
    BY <1>1, <2>1, <2>2 DEF ShownStaysBehind
<1>13. ASSUME walked, ~lost, ~moved
       PROVE  /\ Near /\ steady \subseteq listed
              /\ \A c \in steady : Rank(c) < first + perPage => c \in seen'
  <2>1. Near
    BY <1>1, <1>13 DEF IInv, Paging
  <2>2. /\ steady \subseteq listed
        /\ \A c \in steady : Rank(c) < first => c \in seen
    BY <1>1, <1>7, <1>13 DEF IInv, BehindWasShown
  <2> QED
    BY <1>1, <1>2, <1>3, <1>6, <1>9, <2>1, <2>2
<1>14. BehindWasShown'
  BY <1>1, <1>7, <1>8, <1>13 DEF BehindWasShown
<1>15. WalkComplete'
  <2>1. SUFFICES ASSUME page >= TotalPages(total, perPage), walked, ~lost, ~slipped, ~moved,
                        NEW c \in steady
                 PROVE  c \in seen'
    BY <1>1, <1>4 DEF WalkComplete, AtLastPage
  <2>2. total = Cardinality(listed)
    BY <1>1, <2>1 DEF IInv, Paging
  <2>3. total <= page * perPage
    BY <1>2, <1>5, <1>6, <2>1
  <2>4. Rank(c) < first + perPage
    BY <1>5, <1>6, <1>9, <1>13, <2>1, <2>2, <2>3
  <2> QED
    BY <1>13, <2>1, <2>4
<1>16. PageAsPromised'
  <2>1. SUFFICES ASSUME ~lost, ~grew, first <= MaxInt
                 PROVE  /\ Cardinality(rows) = Promised'
                        /\ (rows = {}) = (page > TotalPages(total, perPage))
    BY <1>1, <1>4 DEF PageAsPromised, Quiet, Fits, first
  <2>2. total = Cardinality(listed)
    BY <1>1, <2>1 DEF IInv, Paging
  <2>3. rows = Slice(perPage, first)
    BY <1>2, <2>1, NoOverflow DEF rows, first
  <2> DEFINE left == total - first
  <2>5. /\ IsFiniteSet(rows)
        /\ Cardinality(rows) =
              IF left <= 0 THEN 0 ELSE IF left < perPage THEN left ELSE perPage
    BY <1>2, <1>6, <2>2, <2>3, SliceSize
  <2>6. Promised' = IF left <= 0 THEN 0 ELSE IF left < perPage THEN left ELSE perPage
    BY <1>1, <1>4 DEF Promised, first
  <2>7. rows = {} <=> total <= first
    <3>1. rows = {} <=> Cardinality(rows) = 0
      BY <2>5, FS_EmptySet
    <3> QED
      BY <1>2, <1>5, <1>6, <2>5, <3>1
  <2>8. page > TotalPages(total, perPage) <=> total <= first
    <3>1. page - 1 \in Nat
      BY <1>2
    <3>2. page - 1 < TotalPages(total, perPage) <=> first < total
      BY <1>5, <3>1 DEF first
    <3> QED
      BY <1>2, <1>5, <1>6, <3>2
  <2> QED
    BY <2>5, <2>6, <2>7, <2>8
<1> QED
  BY <1>10, <1>11, <1>12, <1>14, <1>15, <1>16 DEF IInv

LEMMA InvNext == IInv /\ [Next]_vars => IInv'
<1> SUFFICES ASSUME IInv, [Next]_vars PROVE IInv'
  OBVIOUS
<1>1. CASE UNCHANGED vars
  <2>1. /\ UNCHANGED <<listed, newest, byPost, approved, pc, page, perPage, total, shown,
                       walked, seen, twice, steady, lost, grew, slipped, moved>>
    BY <1>1 DEF vars
  <2> QED
    BY <2>1 DEF IInv, TypeOK, Paging, ShownStaysBehind, BehindWasShown, WalkComplete,
                PageAsPromised, AtLastPage, Quiet, Fits, Promised, Near, Reached, Rank,
                Before, Precedes, TotalPages
<1>2. CASE Next
  BY <1>2, StartKeeps, CountOrFailKeeps, SelectKeeps, NextPageKeeps, LeaveKeeps,
     JoinKeeps, PartKeeps, ToggleKeeps DEF Next
<1> QED
  BY <1>1, <1>2

-----------------------------------------------------------------------------
(* Theorems                                                                  *)

\* The inductive invariant holds, for any number of comments, any sizes of a
\* page and any integer that can count the comments.
THEOREM Inductive == Spec => []IInv
BY InvInit, InvNext, PTL DEF Spec

\* Page and totals stay within their ranges.
THEOREM TypeCorrect == Spec => []TypeOK
<1>1. IInv => TypeOK
  BY DEF IInv
<1> QED
  BY Inductive, <1>1, PTL

\* A walk to the last page shows all that was listed all the while, if nothing
\* left the list, nothing joined it between a count and its page, and no toggle
\* made two comments of the same second change places.
THEOREM WalkCompleteHolds == Spec => []WalkComplete
<1>1. IInv => WalkComplete
  BY DEF IInv
<1> QED
  BY Inductive, <1>1, PTL

\* No walk shows a comment twice unless one joined the list or a toggle made two
\* comments of the same second change places.
THEOREM NoRepeatsHolds == Spec => []NoRepeats
<1>1. IInv => NoRepeats
  BY DEF IInv, ShownStaysBehind, NoRepeats
<1> QED
  BY Inductive, <1>1, PTL

\* An undisturbed page is as full as the totals beside it promise.
THEOREM PageAsPromisedHolds == Spec => []PageAsPromised
<1>1. IInv => PageAsPromised
  BY DEF IInv
<1> QED
  BY Inductive, <1>1, PTL

=============================================================================
