------------------------------ MODULE AdminPage ------------------------------
(***************************************************************************)
(* internal/templates/admin.html: the state of the admin page, and the     *)
(* fetches it has under way.  The page runs one callback at a time, but    *)
(* between a click and its answer the user clicks on, other admins change  *)
(* the table, the session ends, and answers come in any order or not at    *)
(* all.  A server operation is one step here (CommentService and Listing   *)
(* take them apart).  Left out: the filter by post, the modal, the fields  *)
(* of the forms, and what a comment says.                                  *)
(***************************************************************************)
EXTENDS Naturals, FiniteSets

CONSTANTS
    MaxId,      \* comments have the IDs 1 .. MaxId
    PerPage,    \* rows of a page: 20
    MaxClicks,  \* bound on the clicks and page loads
    MaxVersion, \* bound on the changes of the table
    None        \* no row, no message, no answer

Ids == 1 .. MaxId
Versions == 0 .. MaxVersion
PageNumbers == 1 .. MaxId + 1
CallNumbers == 0 .. 2 * MaxClicks + 1

ASSUME BoundsAssumption ==
    MaxId \in Nat /\ PerPage \in Nat \ {0} /\ MaxClicks \in Nat /\ MaxVersion \in Nat

Rows == [id : Ids, approved : BOOLEAN, ver : Versions]
Forms == {"get", "toggle", "delete"}
Ops == Forms \cup {"verify", "login", "logout", "list",
                   "getToggle", "getDelete", "rowToggle", "rowDelete"}
ASSUME NoneAssumption == None \notin Ops

VARIABLES
    ui,         \* the fields of adminApp(), under their names
    calls,      \* fetches under way, each with what its callback remembers
    sent,       \* how many fetches were sent: the number of each
    clicks,
    session,    \* the browser's cookie names a live session
    table,      \* the server's comments: approved or not, None if deleted
    version,    \* history: changes of the table so far
    changed,    \* history: the version at which each comment last changed
    seen        \* history: the list sent last, the list answer taken last and
                \* whether a later one failed, the version of the last change a
                \* row's button was told of, now and when that list was asked for

server == <<session, table, version, changed>>
vars == <<ui, calls, sent, clicks, server, seen>>

\* "then" is the row's button whose callback waits for this list, "was" the row
\* it was clicked on, "did" what the server told it, "told" what rows' buttons had
\* been told when a list was asked for.
Call(op, id, was) ==
    [no |-> sent + 1, op |-> op, id |-> id, page |-> 1, was |-> was,
     then |-> None, did |-> None, told |-> 0, answer |-> [status |-> "none"]]

Blank ==
    [authenticated |-> FALSE, view |-> "get", result |-> None, alertMsg |-> None,
     error |-> FALSE, loading |-> FALSE, toggleInProgress |-> FALSE,
     deleteInProgress |-> FALSE, toggleInProgressID |-> None,
     deleteInProgressID |-> None, listData |-> {}, listPage |-> 1,
     listTotalPages |-> 0]

Unlisted ==
    [last |-> 0, no |-> 0, ok |-> TRUE, rows |-> {}, page |-> 1, ver |-> 0, told |-> 0,
     asked |-> 0]

\* What the server answers to a list.
IsPage(list) ==
    /\ list.rows \subseteq Rows /\ Cardinality(list.rows) <= PerPage
    /\ list.page \in PageNumbers /\ list.pages \in 0 .. MaxId

TypeOK ==
    /\ DOMAIN ui = DOMAIN Blank
    /\ {ui.authenticated, ui.error, ui.loading, ui.toggleInProgress,
        ui.deleteInProgress} \subseteq BOOLEAN
    /\ ui.view \in Forms \cup {"list"}
    /\ ui.listPage \in PageNumbers /\ ui.listTotalPages \in 0 .. MaxId
    /\ ui.listData \subseteq Rows /\ Cardinality(ui.listData) <= PerPage
    /\ {ui.toggleInProgressID, ui.deleteInProgressID} \subseteq Ids \cup {None}
    /\ sent \in CallNumbers /\ clicks \in 0 .. MaxClicks
    /\ \A c \in calls :
        /\ c.no \in 1 .. sent /\ c.op \in Ops /\ c.page \in PageNumbers
        /\ c.op = "list" /\ c.answer.status = "ok" => IsPage(c.answer.data)
    /\ session \in BOOLEAN
    /\ table \in [Ids -> BOOLEAN \cup {None}]
    /\ version \in Versions /\ changed \in [Ids -> Versions]

\* The page is loaded and asks whether it has a session (init, checkSession).
Init ==
    /\ ui = Blank /\ seen = Unlisted
    /\ sent = 1 /\ clicks = 0
    /\ session \in BOOLEAN
    /\ table \in [Ids -> BOOLEAN]
    /\ version = 0 /\ changed = [id \in Ids |-> 0]
    /\ calls = {[Call("verify", None, None) EXCEPT !.no = 1]}

Cleared(u) == [u EXCEPT !.alertMsg = None, !.error = FALSE]

-----------------------------------------------------------------------------
(* Clicks.  Only what is on the screen and not disabled can be clicked.      *)

Click == clicks < MaxClicks /\ clicks' = clicks + 1 /\ UNCHANGED server
At(view) == ui.authenticated /\ ui.view = view

Send(c, u) ==
    /\ ui' = u
    /\ calls' = calls \cup {c}
    /\ sent' = sent + 1
    /\ UNCHANGED seen

\* The start of listComments, up to its await; c is the call it sends.
ListCall(u) == [Call("list", None, None) EXCEPT !.page = u.listPage, !.told = seen.told]
Listing(u) == [Cleared(u) EXCEPT !.result = None, !.view = "list", !.loading = TRUE]
SendList(u) ==
    /\ ui' = Listing(u)
    /\ calls' = calls \cup {ListCall(u)}
    /\ sent' = sent + 1
    /\ seen' = [seen EXCEPT !.last = sent + 1]

ListComments == Click /\ ui.authenticated /\ SendList(ui)   \* tab and Refresh

\* The pager is on the screen with the rows (variant: never disabled).
Pager == Click /\ At("list") /\ ~ui.loading /\ ui.listData # {}
PreviousAlways == Pager /\ SendList([ui EXCEPT !.listPage = @ - 1])
Previous == Pager /\ ui.listPage > 1 /\ SendList([ui EXCEPT !.listPage = @ - 1])
NextPage ==
    /\ Pager /\ ui.listPage < ui.listTotalPages
    /\ SendList([ui EXCEPT !.listPage = @ + 1])

OpenForm(form) ==
    /\ Click /\ ui.authenticated
    /\ ui' = [ui EXCEPT !.view = form, !.result = None, !.error = FALSE]
    /\ UNCHANGED <<calls, sent, seen>>

\* fetchComment, toggleApproval, deleteComment: an ID typed into a form.
SubmitForm(form, id) ==
    /\ Click /\ At(form)
    /\ Send(Call(form, id, None), [Cleared(ui) EXCEPT !.result = None])

\* The buttons under a fetched comment.  A result that belongs to another form
\* has no ID, and the server refuses the path.
ResultId == IF ui.result.kind = "get" THEN ui.result.id ELSE None
ToggleApprovalForFetched ==
    /\ Click /\ At("get") /\ ui.result # None /\ ~ui.toggleInProgress
    /\ Send(Call("getToggle", ResultId, None), [Cleared(ui) EXCEPT !.toggleInProgress = TRUE])
DeleteFetchedComment ==
    /\ Click /\ At("get") /\ ui.result # None /\ ~ui.deleteInProgress
    /\ Send(Call("getDelete", ResultId, None), [Cleared(ui) EXCEPT !.deleteInProgress = TRUE])

\* The buttons of a row: one row at a time is marked as busy, the last clicked.
ToggleApprovalForList(item) ==
    /\ Click /\ At("list") /\ ~ui.loading /\ ui.toggleInProgressID # item.id
    /\ Send(Call("rowToggle", item.id, item),
            [Cleared(ui) EXCEPT !.toggleInProgressID = item.id])
DeleteCommentForList(item) ==
    /\ Click /\ At("list") /\ ~ui.loading /\ ui.deleteInProgressID # item.id
    /\ Send(Call("rowDelete", item.id, item),
            [Cleared(ui) EXCEPT !.deleteInProgressID = item.id])

Login == Click /\ ~ui.authenticated /\ Send(Call("login", None, None), Cleared(ui))
Logout == Click /\ ui.authenticated /\ Send(Call("logout", None, None), Cleared(ui))

\* The page is loaded again: callbacks are gone.  What their requests may still
\* do to the table, another admin does.
Reload ==
    /\ Click
    /\ ui' = Blank /\ seen' = Unlisted
    /\ calls' = {Call("verify", None, None)}
    /\ sent' = sent + 1

-----------------------------------------------------------------------------
(* The server, and what else happens to the table and the session.           *)

Waiting(c) == c.answer.status = "none"
Reply(c, answer) ==
    /\ calls' = (calls \ {c}) \cup {[c EXCEPT !.answer = answer]}
    /\ UNCHANGED <<ui, sent, clicks, seen>>
Ok(data) == [status |-> "ok", data |-> data]

Change(id, value) ==
    /\ version < MaxVersion
    /\ table[id] # None
    /\ table' = [table EXCEPT ![id] = value]
    /\ changed' = [changed EXCEPT ![id] = version + 1]
    /\ version' = version + 1

Stored == {id \in Ids : table[id] # None}
RowOf(id) == [id |-> id, approved |-> table[id], ver |-> changed[id]]
Position(id) == Cardinality({other \in Stored : other >= id})   \* newest first
Slice(page) ==
    {RowOf(id) : id \in {i \in Stored : /\ (page - 1) * PerPage < Position(i)
                                        /\ Position(i) <= page * PerPage}}
TotalPages == (Cardinality(Stored) + PerPage - 1) \div PerPage

Serve(c) ==
    /\ Waiting(c) /\ session /\ UNCHANGED session
    /\ \/ /\ c.op = "verify"
          /\ Reply(c, Ok(None))
          /\ UNCHANGED <<table, version, changed>>
       \/ /\ c.op = "list"
          /\ Reply(c, Ok([rows |-> Slice(c.page), page |-> c.page, pages |-> TotalPages,
                          ver |-> version]))
          /\ UNCHANGED <<table, version, changed>>
       \/ /\ c.op = "get" /\ c.id \in Stored
          /\ Reply(c, Ok(RowOf(c.id)))
          /\ UNCHANGED <<table, version, changed>>
       \/ /\ c.op \in {"toggle", "getToggle", "rowToggle"} /\ c.id \in Stored
          /\ Change(c.id, ~table[c.id])
          /\ Reply(c, Ok([approved |-> ~table[c.id], over |-> changed[c.id],
                          ver |-> version + 1]))
       \/ /\ c.op \in {"delete", "getDelete", "rowDelete"} /\ c.id \in Stored
          /\ Change(c.id, None)
          /\ Reply(c, Ok([approved |-> FALSE, over |-> changed[c.id], ver |-> version + 1]))

ServeLogin(c) ==
    /\ Waiting(c) /\ c.op = "login"
    /\ session' = TRUE
    /\ Reply(c, Ok(None))
    /\ UNCHANGED <<table, version, changed>>
ServeLogout(c) ==
    /\ Waiting(c) /\ c.op = "logout" /\ session
    /\ session' = FALSE
    /\ Reply(c, Ok(None))
    /\ UNCHANGED <<table, version, changed>>
Unauthorized(c) ==
    /\ Waiting(c) /\ c.op # "login" /\ ~session
    /\ Reply(c, [status |-> "401"])
    /\ UNCHANGED server
Elsewhere == UNCHANGED <<ui, calls, sent, clicks, seen>>
Others ==   \* another admin, or another tab
    /\ \E id \in Ids : Change(id, ~table[id]) \/ Change(id, None)
    /\ Elsewhere /\ UNCHANGED session
Expire ==   \* the session's time is over, or the server starts again
    /\ session /\ session' = FALSE
    /\ Elsewhere /\ UNCHANGED <<table, version, changed>>

-----------------------------------------------------------------------------
(* The rest of each callback, when its answer or failure arrives.            *)

Succeeded(c) == c.answer.status = "ok"

\* The finally blocks (variant: after a success only).
ReleasedIfOk(u, c) ==
    IF ~Succeeded(c) THEN u
    ELSE [u EXCEPT !.loading = IF c.op = "list" THEN FALSE ELSE @,
                   !.toggleInProgress = IF c.op = "getToggle" THEN FALSE ELSE @,
                   !.deleteInProgress = IF c.op = "getDelete" THEN FALSE ELSE @,
                   !.toggleInProgressID = IF "rowToggle" \in {c.op, c.then} THEN None ELSE @,
                   !.deleteInProgressID = IF "rowDelete" \in {c.op, c.then} THEN None ELSE @]
Released(u, c) ==
    [u EXCEPT !.loading = IF c.op = "list" THEN FALSE ELSE @,
              !.toggleInProgress = IF c.op = "getToggle" THEN FALSE ELSE @,
              !.deleteInProgress = IF c.op = "getDelete" THEN FALSE ELSE @,
              !.toggleInProgressID = IF "rowToggle" \in {c.op, c.then} THEN None ELSE @,
              !.deleteInProgressID = IF "rowDelete" \in {c.op, c.then} THEN None ELSE @]

SignedOut(u) ==
    [u EXCEPT !.authenticated = FALSE, !.view = "get", !.result = None, !.listData = {}]

\* What apiFetch does with an answer that is not a success.
Refused(u, c) ==
    [IF c.answer.status = "401" THEN SignedOut(u) ELSE u EXCEPT !.error = TRUE]

Take(c, u) ==
    /\ ui' = u
    /\ calls' = {d \in calls : d.no # c.no}
    /\ UNCHANGED <<sent, clicks, server>>

TakeFailure(c) ==
    /\ ~Succeeded(c) /\ c.op \in Forms \cup {"getToggle", "getDelete", "rowToggle", "rowDelete"}
    /\ Take(c, Released(Refused(ui, c), c))
    /\ UNCHANGED seen

\* Rows, page and number of pages come from one answer (variant: the pager
\* keeps what the user asked for last).  Then the row's button goes on, whose
\* message is made from the row as it was when clicked (variant: from the
\* opposite), whatever became of the list.
FilledRows(u, list) ==
    [u EXCEPT !.listData = list.rows, !.listTotalPages = list.pages]
Filled(u, list) ==
    [u EXCEPT !.listData = list.rows, !.listTotalPages = list.pages, !.listPage = list.page]

Word(approved) == IF approved THEN "approved" ELSE "rejected"
MessageSame(c) ==
    [id |-> c.id, says |-> IF c.then = "rowDelete" THEN "deleted" ELSE Word(c.was.approved),
     did |-> Word(c.did.approved), upToDate |-> c.was.ver = c.did.over]
Message(c) ==
    [id |-> c.id, says |-> IF c.then = "rowDelete" THEN "deleted" ELSE Word(~c.was.approved),
     did |-> Word(c.did.approved), upToDate |-> c.was.ver = c.did.over]

TakeList(c) ==
    LET listed == Released(IF Succeeded(c) THEN Filled(ui, c.answer.data)
                                           ELSE Refused(ui, c), c)
    IN  /\ c.op = "list"
        /\ Take(c, IF c.then = None THEN listed ELSE [listed EXCEPT !.alertMsg = Message(c)])
        /\ seen' = IF Succeeded(c)
                   THEN [seen EXCEPT !.no = c.no, !.ok = TRUE, !.rows = c.answer.data.rows,
                                     !.page = c.answer.data.page, !.ver = c.answer.data.ver,
                                     !.asked = c.told]
                   ELSE [seen EXCEPT !.ok = FALSE]

\* A row's button was obeyed: its callback asks for the list and waits (variant:
\* it asks for nothing and shows its message).
TakeRowOnly(c) ==
    /\ Succeeded(c) /\ c.op \in {"rowToggle", "rowDelete"}
    /\ Take(c, [Released(ui, c) EXCEPT
                    !.alertMsg = Message([c EXCEPT !.then = c.op, !.did = c.answer.data])])
    /\ seen' = [seen EXCEPT !.told = IF @ > c.answer.data.ver THEN @ ELSE c.answer.data.ver]
TakeRow(c) ==
    /\ Succeeded(c) /\ c.op \in {"rowToggle", "rowDelete"}
    /\ ui' = Listing(ui)
    /\ sent' = sent + 1
    /\ seen' = [seen EXCEPT !.last = sent + 1,
                            !.told = IF @ > c.answer.data.ver THEN @ ELSE c.answer.data.ver]
    /\ calls' = {d \in calls : d.no # c.no} \cup
                {[ListCall(ui) EXCEPT !.id = c.id, !.was = c.was, !.then = c.op,
                                      !.did = c.answer.data, !.told = seen'.told]}
    /\ UNCHANGED <<clicks, server>>

\* The forms and the buttons of a fetched comment write the one result, which
\* may have become another form's meanwhile.
TakeResult(c) ==
    /\ Succeeded(c)
    /\ \/ /\ c.op \in {"get", "getToggle"}
          /\ Take(c, [Released(ui, c) EXCEPT !.result = [kind |-> "get", id |-> c.id]])
       \/ /\ c.op \in {"toggle", "delete"}
          /\ Take(c, [ui EXCEPT !.result = [kind |-> c.op]])
       \/ /\ c.op = "getDelete"
          /\ Take(c, [Released(ui, c) EXCEPT
                        !.result = None,
                        !.alertMsg = [id |-> c.id, says |-> "deleted",
                                      did |-> "rejected", upToDate |-> TRUE]])
    /\ UNCHANGED seen

TakeSession(c) ==
    /\ \/ /\ c.op = "verify"
          /\ Take(c, [ui EXCEPT !.authenticated = @ \/ Succeeded(c)])
       \/ /\ c.op = "login"
          /\ Take(c, [ui EXCEPT !.authenticated = @ \/ Succeeded(c), !.error = ~Succeeded(c)])
       \/ /\ c.op = "logout"
          /\ Take(c, SignedOut(ui))
    /\ UNCHANGED seen

Resume(c) == TakeFailure(c) \/ TakeList(c) \/ TakeRow(c) \/ TakeResult(c) \/ TakeSession(c)
Settle(c) == ~Waiting(c) /\ Resume(c)

\* The server refuses (limit, wrong password, no such comment, a failed
\* statement), or the request or its answer is lost.
Fail(c) == Resume([c EXCEPT !.answer = [status |-> "failed"]])

-----------------------------------------------------------------------------

User ==
    \/ ListComments \/ Previous \/ NextPage
    \/ \E form \in Forms : OpenForm(form) \/ \E id \in Ids : SubmitForm(form, id)
    \/ ToggleApprovalForFetched \/ DeleteFetchedComment
    \/ \E item \in ui.listData : ToggleApprovalForList(item) \/ DeleteCommentForList(item)
    \/ Login \/ Logout \/ Reload

Next ==
    \/ User
    \/ \E c \in calls :
        \/ Serve(c) \/ ServeLogin(c) \/ ServeLogout(c) \/ Unauthorized(c)
        \/ Settle(c) \/ Fail(c)
    \/ Others \/ Expire

Spec == Init /\ [][Next]_vars

-----------------------------------------------------------------------------
(* Properties *)

Quiet == \A c \in calls : c.op \notin {"list", "rowToggle", "rowDelete"}

\* Answers to overlapping lists that overtake each other, a pager clicked in
\* between, a sign-out and a late answer never leave the pager at one page over
\* the rows of another, unless the list that ended last has failed.
PagerMatchesRows ==
    At("list") /\ Quiet /\ seen.ok => ui.listPage = seen.page /\ ui.listData = seen.rows

\* The list asked for last is the one whose answer was taken last: it did not
\* fail and no older list's answer came after its own.
InOrder == seen.no = seen.last

\* However lists overtake each other, the rows on the screen are no older than
\* what the rows' buttons had been told when that list was asked for; and if it is
\* the list asked for last, than anything they were told.  More does not hold: the
\* lists of two rows' buttons may overtake each other, or the last one fail, and
\* the page rests on rows that lack what it reported.
OwnWritesShow ==
    At("list") /\ Quiet =>
        /\ seen.asked <= seen.ver
        /\ InOrder => seen.told <= seen.ver

\* The message over the list is true: a comment said to be deleted is gone, and
\* approved or rejected is what the server did, unless the row had changed since
\* the list it was clicked on was read.  Whoever changed it: the page itself may
\* have, by a toggle whose answer or whose list was lost, or is still under way
\* when another row's click has released the button; then admin.html:439 says the
\* opposite of what the server did.
AlertIsTrue ==
    ui.alertMsg # None =>
        IF ui.alertMsg.says = "deleted" THEN table[ui.alertMsg.id] = None
        ELSE ui.alertMsg.upToDate => ui.alertMsg.says = ui.alertMsg.did

\* Nothing stays "Loading..." or disabled, whatever fails and whatever else is
\* clicked: a button is busy only while a call of its own is under way, and
\* every call ends, be it as a network error.
BusyHasCall ==
    LET Underway(op, id) ==
            \E c \in calls : op \in {c.op, c.then} /\ id \in {c.id, None}
    IN  /\ ui.loading => Underway("list", None)
        /\ ui.toggleInProgress => Underway("getToggle", None)
        /\ ui.deleteInProgress => Underway("getDelete", None)
        /\ ui.toggleInProgressID # None => Underway("rowToggle", ui.toggleInProgressID)
        /\ ui.deleteInProgressID # None => Underway("rowDelete", ui.deleteInProgressID)

-----------------------------------------------------------------------------
(* What the properties rest on: inductive.                                   *)

\* Calls are told apart by their numbers.
Numbered ==
    /\ DOMAIN ui = DOMAIN Blank /\ DOMAIN seen = DOMAIN Unlisted
    /\ sent \in Nat /\ version \in Nat
    /\ seen.no \in 0 .. sent /\ seen.last \in 0 .. sent
    /\ \A c \in calls :
        /\ DOMAIN c = {"no", "op", "id", "page", "was", "then", "did", "told", "answer"}
        /\ c.no \in 1 .. sent
        /\ c.answer.status \in {"none", "ok", "401"}
        /\ c.then \in {None, "rowToggle", "rowDelete"} /\ (c.op # "list" => c.then = None)
    /\ \A c, d \in calls : c.no = d.no => c = d

\* While the list is on the screen and none is under way.
Settled ==
    /\ ui.view = "list" /\ seen.ok
    /\ \A c \in calls : c.op # "list"
    => ui.listPage = seen.page /\ ui.listData = seen.rows

\* No list that is asked for after a button was told can be older than that.
ListsFollow ==
    /\ seen.told \in 0 .. version /\ seen.asked <= seen.ver
    /\ \A c \in calls : c.op = "list" => c.told \in 0 .. seen.told
    /\ \A c \in calls : Succeeded(c) =>
        /\ c.op \in {"list", "rowToggle", "rowDelete"} => c.answer.data.ver \in 0 .. version
        /\ c.op = "list" => c.told <= c.answer.data.ver
        /\ c.op = "list" /\ c.no = seen.last => seen.told <= c.answer.data.ver
    /\ InOrder => seen.told <= seen.ver

\* A row that was listed is right about the comment until that changes.
RowFits(row) ==
    /\ row.id \in Ids /\ row.ver \in 0 .. changed[row.id]
    /\ row.ver = changed[row.id] => (row.approved <=> table[row.id])
Obeyed(c, data) == c.was.ver = data.over => (data.approved <=> ~c.was.approved)
RowsFit ==
    /\ \A id \in Ids : changed[id] \in 0 .. version
    /\ \A row \in ui.listData : RowFits(row)
    /\ \A c \in calls :
        /\ c.op = "list" /\ Succeeded(c) => \A row \in c.answer.data.rows : RowFits(row)
        /\ c.op \in {"rowToggle", "rowDelete"} => RowFits(c.was) /\ c.was.id = c.id
        /\ c.op = "rowToggle" /\ Succeeded(c) => Obeyed(c, c.answer.data)
        /\ c.then = "rowToggle" /\ c.op = "list" => Obeyed(c, c.did)
        /\ \/ c.op \in {"rowDelete", "getDelete"} /\ Succeeded(c)
           \/ c.then = "rowDelete" /\ c.op = "list"
           => c.id \in Ids /\ table[c.id] = None

\* A click sends one fetch; on a row's button it may send one more later.
FetchesCounted ==
    /\ IsFiniteSet(calls)
    /\ LET pending == {c \in calls : c.op \in {"rowToggle", "rowDelete"}}
       IN  sent + Cardinality(pending) <= 2 * clicks + 1

-----------------------------------------------------------------------------
(* What the page says and the code does not do.                             *)

\* admin.html:121 says "No comments found" when the list has no rows.
EmptyMeansNone ==
    At("list") /\ Quiet /\ InOrder /\ ui.listData = {} => ui.listTotalPages = 0

=============================================================================
