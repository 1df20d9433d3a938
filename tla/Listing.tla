------------------------------- MODULE Listing -------------------------------
(***************************************************************************)
(* Listing comments page by page: List and ListAll of comment_service.go   *)
(* over FindApproved and FindAll of comment_repository.go, which count the *)
(* rows with one statement and fetch a page of them with another, and the  *)
(* admin page's list view, which asks for one page after the other while   *)
(* comments are created, moderated and deleted.                            *)
(*                                                                         *)
(* "listed" are the rows the WHERE clause picks.  created_at has a         *)
(* second's resolution and ORDER BY names nothing else: rows of equal      *)
(* times come in the order of the scan.  The admin's list of one post      *)
(* scans the index (post_id, approved, created_at), so there the rows not  *)
(* approved come first; in every other list the order of the scan is       *)
(* fixed.  A comment is a number that says its place in that fixed order.  *)
(***************************************************************************)
EXTENDS Integers, FiniteSets

CONSTANTS
    Comments,   \* places in the scan, integers
    CreatedAt,  \* their seconds
    FirstPages, \* ?page= a walk may begin with; 0 stands for absent or unusable
    PerPages,   \* ?per_page=, likewise
    DefaultPerPage, MaxPerPage,     \* 20 and 100
    MaxInt      \* of int64

ASSUME CommentsAssumption == Comments \subseteq Nat /\ IsFiniteSet(Comments)
ASSUME CreatedAtAssumption == CreatedAt \in [Comments -> Nat]
ASSUME PagesAssumption ==
    /\ FirstPages \subseteq Nat /\ PerPages \subseteq Nat
    /\ DefaultPerPage \in 1 .. MaxPerPage /\ MaxPerPage \in 1 .. MaxInt
    /\ MaxInt \in Nat /\ \A p \in FirstPages : p <= MaxInt
ASSUME CountAssumption == Cardinality(Comments) <= MaxInt   \* COUNT(*) is an int64

VARIABLES
    listed,         \* the rows that match
    newest,         \* the list: ORDER BY created_at DESC, or ASC
    byPost,         \* the list: FindAll with a post_id
    approved,       \* the listed rows that are approved, if byPost
    pc,             \* the reader's request
    page, perPage,  \* as List uses them
    total,          \* the result of COUNT(*)
    shown,          \* the last page answered: rows, total and total_pages
    walked,         \* history: the walk began on page 1
    seen, twice,    \* history: comments on the pages so far; one was repeated
    steady,         \* history: comments listed ever since the walk began
    lost, grew,     \* history: since then a comment left, or joined, the listed
    slipped,        \* history: one joined between a count and its page
    moved           \* history: two listed rows of equal times changed places

list == <<listed, newest, byPost, approved>>
request == <<page, perPage>>
history == <<walked, seen, twice, steady, lost, grew, slipped, moved>>
vars == <<listed, newest, byPost, approved, pc, page, perPage, total, shown, walked,
          seen, twice, steady, lost, grew, slipped, moved>>

Nothing == [rows |-> {}, total |-> 0, pages |-> 0]

TypeOK ==
    /\ listed \subseteq Comments /\ approved \subseteq listed
    /\ newest \in BOOLEAN /\ byPost \in BOOLEAN
    /\ pc \in {"idle", "count", "select", "page"}
    /\ page \in 1 .. MaxInt /\ perPage \in 1 .. MaxPerPage
    /\ total \in 0 .. Cardinality(Comments)
    /\ shown.rows \subseteq Comments /\ shown.total \in 0 .. Cardinality(Comments)
    /\ shown.pages \in 0 .. Cardinality(Comments)
    /\ walked \in BOOLEAN /\ twice \in BOOLEAN
    /\ seen \subseteq Comments /\ steady \subseteq Comments
    /\ lost \in BOOLEAN /\ grew \in BOOLEAN /\ slipped \in BOOLEAN /\ moved \in BOOLEAN

Init ==
    /\ listed \in SUBSET Comments
    /\ newest \in BOOLEAN /\ byPost \in BOOLEAN
    /\ approved \in SUBSET listed /\ (~byPost => approved = {})
    /\ pc = "idle" /\ page = 1 /\ perPage = DefaultPerPage
    /\ total = 0 /\ shown = Nothing
    /\ seen = {} /\ steady = {}
    /\ walked = FALSE /\ twice = FALSE /\ lost = FALSE /\ grew = FALSE /\ slipped = FALSE
    /\ moved = FALSE

\* What List makes of the parameters (variant: without the upper limit).
PerPageUnlimited(n) == IF n <= 0 THEN DefaultPerPage ELSE n
PerPage(n) == IF n <= 0 THEN DefaultPerPage ELSE IF n > MaxPerPage THEN MaxPerPage ELSE n
PageNumber(n) == IF n <= 0 THEN 1 ELSE n

\* Signed 64-bit arithmetic.
Wrap(n) == ((n + MaxInt + 1) % (2 * (MaxInt + 1))) - (MaxInt + 1)

\* (variant: the first page is skipped)
OffsetFromOne(p, n) == Wrap(p * n)
Offset(p, n) == Wrap((p - 1) * n)

\* int(math.Ceil(total / perPage)) (variant: rounded down)
TotalPagesDown(t, n) == t \div n
TotalPages(t, n) == (t + n - 1) \div n

\* ORDER BY created_at, and the order of the scan among equals.
Precedes(d, c) ==
    \/ IF newest THEN CreatedAt[d] > CreatedAt[c] ELSE CreatedAt[d] < CreatedAt[c]
    \/ /\ CreatedAt[d] = CreatedAt[c]
       /\ \/ byPost /\ d \notin approved /\ c \in approved
          \/ (byPost => (d \in approved <=> c \in approved)) /\ d < c

Before(c) == {d \in listed : Precedes(d, c)}
Rank(c) == Cardinality(Before(c))

\* LIMIT limit OFFSET offset; SQLite takes a negative offset for 0 (variant: one
\* row more is fetched, to see whether there is a next page, and kept).
SliceOneMore(limit, offset) ==
    LET skip == IF offset < 0 THEN 0 ELSE offset
    IN  {c \in listed : Rank(c) \in skip .. skip + limit}
Slice(limit, offset) ==
    LET skip == IF offset < 0 THEN 0 ELSE offset
    IN  {c \in listed : Rank(c) \in skip .. skip + limit - 1}

-----------------------------------------------------------------------------

\* The reader begins with any page.
Start(p, n) ==
    /\ pc = "idle"
    /\ pc' = "count"
    /\ page' = PageNumber(p) /\ perPage' = PerPage(n)
    /\ walked' = (PageNumber(p) = 1)
    /\ shown' = Nothing /\ seen' = {} /\ twice' = FALSE
    /\ steady' = listed /\ lost' = FALSE /\ grew' = FALSE /\ slipped' = FALSE
    /\ moved' = FALSE
    /\ UNCHANGED <<list, total>>

Count ==
    /\ pc = "count"
    /\ total' = Cardinality(listed)
    /\ pc' = "select"
    /\ UNCHANGED <<list, request, shown, history>>

Select ==
    /\ pc = "select"
    /\ LET rows == Slice(perPage, Offset(page, perPage))
       IN  /\ shown' = [rows |-> rows, total |-> total, pages |-> TotalPages(total, perPage)]
           /\ seen' = seen \cup rows
           /\ twice' = (twice \/ rows \cap seen # {})
    /\ pc' = "page"
    /\ UNCHANGED <<list, request, total, walked, steady, lost, grew, slipped, moved>>

\* A statement fails: INTERNAL_ERROR, and the reader asks again.
Fail ==
    /\ pc \in {"count", "select"}
    /\ pc' = "count"
    /\ UNCHANGED <<list, request, total, shown, history>>

\* The button "Next" is enabled while listPage < listTotalPages.
NextPage ==
    /\ pc = "page" /\ page < shown.pages
    /\ page' = page + 1
    /\ pc' = "count"
    /\ UNCHANGED <<list, perPage, total, shown, history>>

Leave ==
    /\ pc = "page"
    /\ pc' = "idle"
    /\ UNCHANGED <<list, request, total, shown, history>>

\* Others create, approve, reject and delete comments, one statement at a time:
\* a row joins the list, or leaves it,
Join(c, approvedToo) ==
    /\ c \in Comments \ listed
    /\ approvedToo => byPost
    /\ listed' = listed \cup {c}
    /\ approved' = IF approvedToo THEN approved \cup {c} ELSE approved
    /\ grew' = TRUE
    /\ slipped' = (slipped \/ pc = "select")
    /\ UNCHANGED <<newest, byPost, pc, request, total, shown, walked, seen, twice, steady,
                   lost, moved>>

Part(c) ==
    /\ c \in listed
    /\ listed' = listed \ {c} /\ approved' = approved \ {c}
    /\ steady' = steady \ {c}
    /\ lost' = TRUE
    /\ UNCHANGED <<newest, byPost, pc, request, total, shown, walked, seen, twice, grew,
                   slipped, moved>>

\* or stays and changes its place in the index.
Toggle(c) ==
    /\ byPost /\ c \in listed
    /\ approved' = IF c \in approved THEN approved \ {c} ELSE approved \cup {c}
    /\ UNCHANGED <<listed, newest, byPost>>
    /\ moved' = (moved \/ \E d, e \in listed : Precedes(d, e)' # Precedes(d, e))
    /\ UNCHANGED <<pc, request, total, shown, walked, seen, twice, steady, lost, grew, slipped>>

Next ==
    \/ \E p \in FirstPages, n \in PerPages : Start(p, n)
    \/ Count \/ Select \/ Fail \/ NextPage \/ Leave
    \/ \E c \in Comments : Part(c) \/ Toggle(c) \/ \E a \in BOOLEAN : Join(c, a)

Spec == Init /\ [][Next]_vars

-----------------------------------------------------------------------------
(* Properties *)

\* A walk to the last page shows every comment that was listed all the while,
\* if meanwhile none left the list, none joined it between a count and its page,
\* and no toggle made two comments of the same second change places.  (Others
\* may join.  Without the first condition a comment slides onto a page already
\* seen, without the second one off a page believed to be last, and without the
\* third an admin who moderates one post on the way misses some of it.)
AtLastPage == pc = "page" /\ page >= shown.pages
WalkComplete == AtLastPage /\ walked /\ ~lost /\ ~slipped /\ ~moved => steady \subseteq seen

\* A walk shows no comment twice unless meanwhile one joined the list, or a toggle
\* made two comments of the same second change places.
NoRepeats == pc = "page" /\ ~grew /\ ~moved => ~twice

\* Unless the list changed under the reader, a page is as full as its total
\* promises, and empty beyond the last one; offsets that overflow excepted.
Quiet == ~lost /\ ~grew
Fits == (page - 1) * perPage <= MaxInt
Promised == LET left == shown.total - (page - 1) * perPage
            IN  IF left <= 0 THEN 0 ELSE IF left < perPage THEN left ELSE perPage
PageAsPromised ==
    pc = "page" /\ Quiet /\ Fits =>
        /\ Cardinality(shown.rows) = Promised
        /\ (shown.rows = {}) = (page > shown.pages)

-----------------------------------------------------------------------------
(* What the properties rest on: inductive.                                   *)

\* The walk has passed the rows of smaller rank.
Reached == (IF pc = "page" THEN page ELSE page - 1) * perPage

\* Only the page a reader begins with can lie so far behind the last comment
\* that its offset overflows: "Next" does not lead there, nor from there on.
Near == (page - 1) * perPage <= Cardinality(Comments)
Paging ==
    /\ pc # "idle" => Near \/ (~walked /\ (seen # {} => pc = "page"))
    /\ pc = "select" /\ ~lost /\ ~slipped => total = Cardinality(listed)
    /\ pc = "page" => shown.pages = TotalPages(shown.total, perPage)
    /\ slipped => grew

\* While nothing joins or changes places, ranks only fall: what was shown stays
\* behind the walk.
ShownStaysBehind ==
    pc # "idle" /\ ~grew /\ ~moved =>
        /\ ~twice
        /\ Near => \A c \in seen \cap listed : Rank(c) < Reached

\* While nothing leaves or changes places, ranks only rise: what is behind the walk
\* was shown.
BehindWasShown ==
    pc # "idle" /\ walked /\ ~lost /\ ~moved =>
        /\ steady \subseteq listed
        /\ \A c \in steady : Rank(c) < Reached => c \in seen

IInv ==
    /\ TypeOK /\ Paging /\ ShownStaysBehind /\ BehindWasShown
    /\ WalkComplete /\ PageAsPromised

=============================================================================
