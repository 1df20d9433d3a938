-------------------------- MODULE AdminPage_proofs ---------------------------
(***************************************************************************)
(* What the admin page keeps, for any number of comments, clicks and       *)
(* changes, and any size of a page.  The first part says what kinds of     *)
(* steps there are; the invariants are then shown kind by kind.            *)
(***************************************************************************)
EXTENDS AdminPage, FiniteSetTheorems, TLAPS

Fields == {"no", "op", "id", "page", "was", "then", "did", "told", "answer"}
RowOps == {"rowToggle", "rowDelete"}
UiFields ==
    {"authenticated", "view", "result", "alertMsg", "error", "loading", "toggleInProgress",
     "deleteInProgress", "toggleInProgressID", "deleteInProgressID", "listData", "listPage",
     "listTotalPages"}

\* A call that is just made.
Fresh(c) ==
    /\ DOMAIN c = Fields
    /\ c.no = sent + 1 /\ c.then \in {None, "rowToggle", "rowDelete"}
    /\ c.op # "list" => c.then = None
    /\ c.answer.status = "none"

\* The kinds of clicks: a list is asked for, something else is asked for, a
\* row's button is clicked, another form is opened, the page is loaded again.
Asks(c) == Fresh(c) /\ calls' = calls \cup {c} /\ sent' = sent + 1 /\ DOMAIN ui' = UiFields
ListAsked(c) ==
    /\ Asks(c) /\ c.op = "list" /\ c.then = None /\ c.told = seen.told
    /\ seen' = [seen EXCEPT !.last = sent + 1]
    /\ ui'.view = "list" /\ ui'.listData = ui.listData /\ ui'.alertMsg = None
    /\ ui'.toggleInProgress = ui.toggleInProgress /\ ui'.deleteInProgress = ui.deleteInProgress
    /\ ui'.toggleInProgressID = ui.toggleInProgressID
    /\ ui'.deleteInProgressID = ui.deleteInProgressID
OtherAsked(c) ==
    /\ Asks(c) /\ c.op \notin RowOps \cup {"list"}
    /\ UNCHANGED seen
    /\ ui'.view = ui.view /\ ui'.listData = ui.listData /\ ui'.listPage = ui.listPage
    /\ ui'.alertMsg = None /\ ui'.loading = ui.loading
    /\ c.op # "getToggle" => ui'.toggleInProgress = ui.toggleInProgress
    /\ c.op # "getDelete" => ui'.deleteInProgress = ui.deleteInProgress
    /\ ui'.toggleInProgressID = ui.toggleInProgressID
    /\ ui'.deleteInProgressID = ui.deleteInProgressID
RowAsked(c) ==
    /\ Asks(c) /\ c.op \in RowOps /\ c.was \in ui.listData /\ c.id = c.was.id
    /\ UNCHANGED seen
    /\ ui'.view = ui.view /\ ui'.listData = ui.listData /\ ui'.listPage = ui.listPage
    /\ ui'.alertMsg = None /\ ui'.loading = ui.loading
    /\ ui'.toggleInProgress = ui.toggleInProgress /\ ui'.deleteInProgress = ui.deleteInProgress
    /\ ui'.toggleInProgressID = IF c.op = "rowToggle" THEN c.id ELSE ui.toggleInProgressID
    /\ ui'.deleteInProgressID = IF c.op = "rowDelete" THEN c.id ELSE ui.deleteInProgressID
Opened ==
    /\ UNCHANGED <<calls, sent, seen>>
    /\ DOMAIN ui' = UiFields /\ ui'.view # "list"
    /\ ui'.listData = ui.listData /\ ui'.alertMsg = ui.alertMsg /\ ui'.loading = ui.loading
    /\ ui'.toggleInProgress = ui.toggleInProgress /\ ui'.deleteInProgress = ui.deleteInProgress
    /\ ui'.toggleInProgressID = ui.toggleInProgressID
    /\ ui'.deleteInProgressID = ui.deleteInProgressID
Loaded(c) ==
    /\ Fresh(c) /\ c.op = "verify" /\ calls' = {c} /\ sent' = sent + 1
    /\ ui' = Blank /\ seen' = Unlisted

LEMMA BlankFacts ==
    /\ DOMAIN Blank = UiFields
    /\ DOMAIN Unlisted = {"last", "no", "ok", "rows", "page", "ver", "told", "asked"}
BY DEF Blank, Unlisted, UiFields

LEMMA CallFacts ==
    ASSUME NEW o, NEW i, NEW w
    PROVE  Fresh(Call(o, i, w)) /\ Call(o, i, w).op = o /\ Call(o, i, w).id = i
           /\ Call(o, i, w).was = w /\ Call(o, i, w).then = None
BY DEF Fresh, Call, Fields

LEMMA SendListKind ==
    ASSUME Numbered, NEW u, DOMAIN u = UiFields, u.listData = ui.listData,
           u.toggleInProgress = ui.toggleInProgress, u.deleteInProgress = ui.deleteInProgress,
           u.toggleInProgressID = ui.toggleInProgressID,
           u.deleteInProgressID = ui.deleteInProgressID, SendList(u)
    PROVE  \E c : ListAsked(c)
<1> DEFINE c == ListCall(u)
<1>1. Fresh(c) /\ c.op = "list" /\ c.then = None /\ c.told = seen.told
  BY DEF ListCall, Call, Fresh, Fields
<1>2. /\ DOMAIN ui' = UiFields
      /\ ui'.view = "list" /\ ui'.listData = ui.listData /\ ui'.alertMsg = None
      /\ ui'.toggleInProgress = ui.toggleInProgress /\ ui'.deleteInProgress = ui.deleteInProgress
      /\ ui'.toggleInProgressID = ui.toggleInProgressID
      /\ ui'.deleteInProgressID = ui.deleteInProgressID
  BY DEF SendList, Listing, Cleared, UiFields
<1>3. calls' = calls \cup {c} /\ sent' = sent + 1 /\ seen' = [seen EXCEPT !.last = sent + 1]
  BY DEF SendList
<1> QED
  BY <1>1, <1>2, <1>3 DEF ListAsked, Asks

LEMMA UserKinds ==
    ASSUME Numbered, User
    PROVE  /\ UNCHANGED server
           /\ \/ \E c : ListAsked(c) \/ OtherAsked(c) \/ RowAsked(c) \/ Loaded(c)
              \/ Opened
<1>0. DOMAIN ui = UiFields
  BY BlankFacts DEF Numbered
<1>1. CASE ListComments \/ Previous \/ NextPage
  <2>1. \/ SendList(ui) \/ SendList([ui EXCEPT !.listPage = @ - 1])
        \/ SendList([ui EXCEPT !.listPage = @ + 1])
    BY <1>1 DEF ListComments, Previous, NextPage
  <2>2. \E c : ListAsked(c)
    BY <1>0, <2>1, SendListKind DEF UiFields
  <2> QED
    BY <1>1, <2>2 DEF ListComments, Previous, NextPage, Pager, Click
<1>2. ASSUME NEW form \in Forms, OpenForm(form)
      PROVE  Opened /\ UNCHANGED server
  BY <1>0, <1>2 DEF OpenForm, Click, Opened, Forms, UiFields
<1>3. ASSUME NEW form \in Forms, NEW id \in Ids, SubmitForm(form, id)
      PROVE  (\E c : OtherAsked(c)) /\ UNCHANGED server
  <2>1. OtherAsked(Call(form, id, None))
    BY <1>0, <1>3, CallFacts DEF SubmitForm, Send, Cleared, OtherAsked, Asks, Forms, RowOps, UiFields
  <2> QED
    BY <1>3, <2>1 DEF SubmitForm, Click
<1>4. CASE ToggleApprovalForFetched
  <2> DEFINE c == Call("getToggle", ResultId, None)
             u == [Cleared(ui) EXCEPT !.toggleInProgress = TRUE]
  <2>0. Send(c, u)
    BY <1>4 DEF ToggleApprovalForFetched
  <2>1. OtherAsked(c)
    <3>1. Fresh(c) /\ c.op = "getToggle"
      BY CallFacts
    <3>2. calls' = calls \cup {c} /\ sent' = sent + 1 /\ UNCHANGED seen /\ ui' = u
      BY <2>0 DEF Send
    <3> HIDE DEF c
    <3> QED
      BY <1>0, <3>1, <3>2 DEF Cleared, OtherAsked, Asks, RowOps, UiFields
  <2> QED
    BY <1>4, <2>1 DEF ToggleApprovalForFetched, Click
<1>5. CASE DeleteFetchedComment
  <2> DEFINE c == Call("getDelete", ResultId, None)
             u == [Cleared(ui) EXCEPT !.deleteInProgress = TRUE]
  <2>0. Send(c, u)
    BY <1>5 DEF DeleteFetchedComment
  <2>1. OtherAsked(c)
    <3>1. Fresh(c) /\ c.op = "getDelete"
      BY CallFacts
    <3>2. calls' = calls \cup {c} /\ sent' = sent + 1 /\ UNCHANGED seen /\ ui' = u
      BY <2>0 DEF Send
    <3> HIDE DEF c
    <3> QED
      BY <1>0, <3>1, <3>2 DEF Cleared, OtherAsked, Asks, RowOps, UiFields
  <2> QED
    BY <1>5, <2>1 DEF DeleteFetchedComment, Click
<1>6. ASSUME NEW item \in ui.listData, ToggleApprovalForList(item)
      PROVE  (\E c : RowAsked(c)) /\ UNCHANGED server
  <2>1. RowAsked(Call("rowToggle", item.id, item))
    BY <1>0, <1>6, CallFacts DEF ToggleApprovalForList, Send, Cleared, RowAsked, Asks, RowOps, UiFields
  <2> QED
    BY <1>6, <2>1 DEF ToggleApprovalForList, Click
<1>7. ASSUME NEW item \in ui.listData, DeleteCommentForList(item)
      PROVE  (\E c : RowAsked(c)) /\ UNCHANGED server
  <2>1. RowAsked(Call("rowDelete", item.id, item))
    BY <1>0, <1>7, CallFacts DEF DeleteCommentForList, Send, Cleared, RowAsked, Asks, RowOps, UiFields
  <2> QED
    BY <1>7, <2>1 DEF DeleteCommentForList, Click
<1>8. CASE Login
  <2>1. OtherAsked(Call("login", None, None))
    BY <1>0, <1>8, CallFacts DEF Login, Send, Cleared, OtherAsked, Asks, RowOps, UiFields
  <2> QED
    BY <1>8, <2>1 DEF Login, Click
<1>9. CASE Logout
  <2>1. OtherAsked(Call("logout", None, None))
    BY <1>0, <1>9, CallFacts DEF Logout, Send, Cleared, OtherAsked, Asks, RowOps, UiFields
  <2> QED
    BY <1>9, <2>1 DEF Logout, Click
<1>10. CASE Reload
  <2>1. Loaded(Call("verify", None, None))
    BY <1>10, CallFacts DEF Reload, Loaded
  <2> QED
    BY <1>10, <2>1 DEF Reload, Click
<1> QED
  BY <1>1, <1>2, <1>3, <1>4, <1>5, <1>6, <1>7, <1>8, <1>9, <1>10 DEF User

\* The kinds of answers: a call gets its answer, and is taken up with one or
\* with a failure.
TableStands == UNCHANGED <<table, version, changed>>
TableSteps == TableStands \/ \E id \in Ids, value \in BOOLEAN \cup {None} : Change(id, value)
Replied(c, a) ==
    /\ c \in calls /\ Waiting(c)
    /\ calls' = (calls \ {c}) \cup {[c EXCEPT !.answer = a]}
    /\ UNCHANGED <<ui, sent, seen>>
    /\ a.status \in {"ok", "401"} /\ TableSteps
    /\ a.status = "ok" =>
        /\ c.op = "list" => TableStands /\ a.data.ver = version /\ a.data.rows = Slice(c.page)
        /\ c.op \in RowOps \cup {"getDelete"} => c.id \in Ids
        /\ c.op \in RowOps => a.data.ver = version + 1 /\ version' = version + 1
        /\ c.op = "rowToggle" =>
             a.data.over = changed[c.id] /\ (a.data.approved <=> ~table[c.id])
        /\ c.op \in {"rowDelete", "getDelete"} => table'[c.id] = None

Holding(d) ==
    /\ DOMAIN d = Fields
    /\ d.then \in {None, "rowToggle", "rowDelete"} /\ (d.op # "list" => d.then = None)
    /\ \E c \in calls :
        /\ c.no = d.no /\ c.op = d.op /\ c.id = d.id /\ c.then = d.then /\ c.was = d.was
        /\ c.did = d.did
        /\ Succeeded(d) => d = c

LEMMA ServerKinds ==
    ASSUME Numbered, table \in [Ids -> BOOLEAN \cup {None}], NEW c \in calls,
           Serve(c) \/ ServeLogin(c) \/ ServeLogout(c) \/ Unauthorized(c)
    PROVE  \E a : Replied(c, a)
<1>1. CASE Unauthorized(c)
  <2>1. Replied(c, [status |-> "401"])
    BY <1>1 DEF Unauthorized, Reply, Replied, server, TableStands, TableSteps
  <2> QED
    BY <2>1
<1>2. CASE ServeLogin(c) \/ ServeLogout(c)
  <2>1. Replied(c, Ok(None))
    BY <1>2 DEF ServeLogin, ServeLogout, Reply, Ok, Replied, TableStands, TableSteps, RowOps
  <2> QED
    BY <2>1
<1>3. ASSUME Serve(c), c.op = "verify" PROVE \E a : Replied(c, a)
  <2>1. Replied(c, Ok(None))
    BY <1>3 DEF Serve, Reply, Ok, Replied, TableStands, TableSteps, RowOps, Forms
  <2> QED
    BY <2>1
<1>4. ASSUME Serve(c), c.op = "list" PROVE \E a : Replied(c, a)
  <2> DEFINE a == Ok([rows |-> Slice(c.page), page |-> c.page, pages |-> TotalPages,
                      ver |-> version])
  <2>1. Waiting(c) /\ Reply(c, a) /\ UNCHANGED <<table, version, changed>>
    BY <1>4 DEF Serve
  <2>2. a.status = "ok" /\ a.data.rows = Slice(c.page) /\ a.data.ver = version
    BY DEF Ok
  <2> HIDE DEF a
  <2>3. Replied(c, a)
    BY <1>4, <2>1, <2>2 DEF Reply, Replied, TableStands, TableSteps, RowOps
  <2> QED
    BY <2>3
<1>5. ASSUME Serve(c), c.op = "get" PROVE \E a : Replied(c, a)
  <2> DEFINE a == Ok(RowOf(c.id))
  <2>1. Waiting(c) /\ Reply(c, a) /\ UNCHANGED <<table, version, changed>>
    BY <1>5 DEF Serve
  <2>2. a.status = "ok"
    BY DEF Ok
  <2> HIDE DEF a
  <2>3. Replied(c, a)
    BY <1>5, <2>1, <2>2 DEF Reply, Replied, TableStands, TableSteps, RowOps
  <2> QED
    BY <2>3
<1>6. ASSUME Serve(c), c.op \in {"toggle", "getToggle", "rowToggle"} PROVE \E a : Replied(c, a)
  <2> DEFINE a == Ok([approved |-> ~table[c.id], over |-> changed[c.id], ver |-> version + 1])
  <2>1. Waiting(c) /\ Reply(c, a) /\ Change(c.id, ~table[c.id]) /\ c.id \in Stored
    BY <1>6 DEF Serve
  <2>2. /\ a.status = "ok" /\ (a.data.approved <=> ~table[c.id])
        /\ a.data.over = changed[c.id] /\ a.data.ver = version + 1
    BY DEF Ok
  <2> HIDE DEF a
  <2>3. c.id \in Ids /\ (~table[c.id]) \in BOOLEAN
    BY <2>1 DEF Stored
  <2>4. TableSteps /\ version' = version + 1
    BY <2>1, <2>3 DEF TableSteps, Change
  <2>5. Replied(c, a)
    BY <1>6, <2>1, <2>2, <2>3, <2>4 DEF Reply, Replied, RowOps
  <2> QED
    BY <2>5
<1>7. ASSUME Serve(c), c.op \in {"delete", "getDelete", "rowDelete"} PROVE \E a : Replied(c, a)
  <2> DEFINE a == Ok([approved |-> FALSE, over |-> changed[c.id], ver |-> version + 1])
  <2>1. Waiting(c) /\ Reply(c, a) /\ Change(c.id, None) /\ c.id \in Stored
    BY <1>7 DEF Serve
  <2>2. a.status = "ok" /\ a.data.ver = version + 1
    BY DEF Ok
  <2> HIDE DEF a
  <2>3. c.id \in Ids /\ table'[c.id] = None /\ version' = version + 1
    BY <2>1 DEF Stored, Change
  <2>4. TableSteps
    BY <2>1, <2>3 DEF TableSteps
  <2>5. Replied(c, a)
    BY <1>7, <2>1, <2>2, <2>3, <2>4 DEF Reply, Replied, RowOps
  <2> QED
    BY <2>5
<1>8. Serve(c) => c.op \in {"verify", "list", "get", "toggle", "getToggle", "rowToggle",
                             "delete", "getDelete", "rowDelete"}
  BY DEF Serve
<1> QED
  BY <1>1, <1>2, <1>3, <1>4, <1>5, <1>6, <1>7, <1>8

LEMMA OtherKinds ==
    ASSUME table \in [Ids -> BOOLEAN \cup {None}], Others \/ Expire
    PROVE  UNCHANGED <<ui, calls, sent, seen>> /\ TableSteps
<1>1. CASE Expire
  BY <1>1 DEF Expire, Elsewhere, TableSteps, TableStands
<1>2. CASE Others
  <2>1. PICK id \in Ids : Change(id, ~table[id]) \/ Change(id, None)
    BY <1>2 DEF Others
  <2>2. (~table[id]) \in BOOLEAN
    OBVIOUS
  <2>3. TableSteps
    BY <2>1, <2>2 DEF TableSteps
  <2> QED
    BY <1>2, <2>3 DEF Others, Elsewhere
<1> QED
  BY <1>1, <1>2

LEMMA TakenUp ==
    ASSUME Numbered, NEW c \in calls, Settle(c) \/ Fail(c)
    PROVE  \E d : Holding(d) /\ Resume(d)
<1>1. /\ DOMAIN c = Fields /\ c.then \in {None, "rowToggle", "rowDelete"}
      /\ c.op # "list" => c.then = None
  BY DEF Numbered, Fields
<1>2. CASE Settle(c)
  BY <1>1, <1>2 DEF Settle, Holding
<1>3. CASE Fail(c)
  <2> DEFINE d == [c EXCEPT !.answer = [status |-> "failed"]]
  <2>1. /\ DOMAIN d = Fields /\ d.no = c.no /\ d.op = c.op /\ d.id = c.id /\ d.then = c.then
        /\ d.was = c.was /\ d.did = c.did /\ d.answer = [status |-> "failed"]
    BY <1>1 DEF Fields
  <2>2. Resume(d)
    BY <1>3 DEF Fail
  <2> HIDE DEF d
  <2>3. Holding(d)
    BY <1>1, <2>1 DEF Holding, Succeeded
  <2> QED
    BY <2>2, <2>3
<1> QED
  BY <1>2, <1>3

\* The call is gone, what it kept busy is released, and nothing else gets busy.
Dropped(d) ==
    /\ calls' = {e \in calls : e.no # d.no} /\ sent' = sent /\ UNCHANGED server
    /\ DOMAIN ui' = UiFields
    /\ ui'.loading => ui.loading /\ d.op # "list"
    /\ ui'.toggleInProgress => ui.toggleInProgress /\ d.op # "getToggle"
    /\ ui'.deleteInProgress => ui.deleteInProgress /\ d.op # "getDelete"
    /\ ui'.toggleInProgressID # None =>
         /\ ui'.toggleInProgressID = ui.toggleInProgressID
         /\ "rowToggle" \notin {d.op, d.then}
    /\ ui'.deleteInProgressID # None =>
         /\ ui'.deleteInProgressID = ui.deleteInProgressID
         /\ "rowDelete" \notin {d.op, d.then}

\* A list fills the page, or fails; then its row's button has its message.
ListTaken(d) ==
    /\ d.op = "list"
    /\ IF Succeeded(d)
       THEN /\ seen' = [seen EXCEPT !.no = d.no, !.ok = TRUE, !.rows = d.answer.data.rows,
                                    !.page = d.answer.data.page, !.ver = d.answer.data.ver,
                                    !.asked = d.told]
            /\ ui'.listData = d.answer.data.rows /\ ui'.listPage = d.answer.data.page
       ELSE /\ seen' = [seen EXCEPT !.ok = FALSE]
            /\ ui'.listData \subseteq ui.listData
    /\ \/ ui'.alertMsg = ui.alertMsg
       \/ d.then # None /\ ui'.alertMsg = Message(d)
OtherTaken(d) ==
    /\ d.op # "list" /\ UNCHANGED seen
    /\ \/ ui'.view = "get" /\ ui'.listData \subseteq ui.listData
       \/ ui'.view = ui.view /\ ui'.listData = ui.listData /\ ui'.listPage = ui.listPage
    /\ \/ ui'.alertMsg = ui.alertMsg
       \/ /\ d.op = "getDelete" /\ Succeeded(d)
          /\ ui'.alertMsg.says = "deleted" /\ ui'.alertMsg.id = d.id

\* A row's button goes on with a list.
Relisted(d, c) ==
    /\ d.op \in RowOps /\ Succeeded(d) /\ UNCHANGED server
    /\ Fresh([c EXCEPT !.then = None]) /\ DOMAIN c = Fields
    /\ c.op = "list" /\ c.then = d.op /\ c.id = d.id /\ c.was = d.was /\ c.did = d.answer.data
    /\ calls' = {e \in calls : e.no # d.no} \cup {c} /\ sent' = sent + 1
    /\ seen' = [seen EXCEPT !.last = sent + 1,
                            !.told = IF @ > d.answer.data.ver THEN @ ELSE d.answer.data.ver]
    /\ c.told = seen'.told
    /\ DOMAIN ui' = UiFields
    /\ ui'.view = "list" /\ ui'.listData = ui.listData /\ ui'.alertMsg = None
    /\ ui'.toggleInProgress = ui.toggleInProgress /\ ui'.deleteInProgress = ui.deleteInProgress
    /\ ui'.toggleInProgressID = ui.toggleInProgressID
    /\ ui'.deleteInProgressID = ui.deleteInProgressID

LEMMA ReleasedFacts ==
    ASSUME NEW u, NEW d, DOMAIN u = UiFields
    PROVE  LET r == Released(u, d)
           IN  /\ DOMAIN r = UiFields
               /\ r.view = u.view /\ r.listData = u.listData /\ r.listPage = u.listPage
               /\ r.alertMsg = u.alertMsg
               /\ r.loading = IF d.op = "list" THEN FALSE ELSE u.loading
               /\ r.toggleInProgress = IF d.op = "getToggle" THEN FALSE ELSE u.toggleInProgress
               /\ r.deleteInProgress = IF d.op = "getDelete" THEN FALSE ELSE u.deleteInProgress
               /\ r.toggleInProgressID =
                    IF "rowToggle" \in {d.op, d.then} THEN None ELSE u.toggleInProgressID
               /\ r.deleteInProgressID =
                    IF "rowDelete" \in {d.op, d.then} THEN None ELSE u.deleteInProgressID
BY DEF Released, UiFields

LEMMA RefusedFacts ==
    ASSUME NEW u, NEW d, DOMAIN u = UiFields
    PROVE  LET r == Refused(u, d)
           IN  /\ DOMAIN r = UiFields
               /\ \/ r.view = "get" /\ r.listData = {}
                  \/ r.view = u.view /\ r.listData = u.listData
               /\ r.listPage = u.listPage /\ r.alertMsg = u.alertMsg /\ r.loading = u.loading
               /\ r.toggleInProgress = u.toggleInProgress
               /\ r.deleteInProgress = u.deleteInProgress
               /\ r.toggleInProgressID = u.toggleInProgressID
               /\ r.deleteInProgressID = u.deleteInProgressID
BY DEF Refused, SignedOut, UiFields

LEMMA FailureKind ==
    ASSUME Numbered, NEW d, Holding(d), TakeFailure(d)
    PROVE  Dropped(d) /\ OtherTaken(d)
<1> DEFINE u == Refused(ui, d)
<1>0. DOMAIN ui = UiFields
  BY BlankFacts DEF Numbered
<1>1. ui' = Released(u, d) /\ d.op # "list" /\ d.then = None /\ UNCHANGED seen
  BY DEF TakeFailure, Take, Forms, Holding
<1>2. calls' = {e \in calls : e.no # d.no} /\ sent' = sent /\ UNCHANGED server
  BY DEF TakeFailure, Take
<1>3. /\ DOMAIN u = UiFields
      /\ \/ u.view = "get" /\ u.listData = {}
         \/ u.view = ui.view /\ u.listData = ui.listData
      /\ u.listPage = ui.listPage /\ u.alertMsg = ui.alertMsg /\ u.loading = ui.loading
      /\ u.toggleInProgress = ui.toggleInProgress
      /\ u.deleteInProgress = ui.deleteInProgress
      /\ u.toggleInProgressID = ui.toggleInProgressID
      /\ u.deleteInProgressID = ui.deleteInProgressID
  BY <1>0, RefusedFacts
<1> HIDE DEF u
<1>4. /\ DOMAIN ui' = UiFields
      /\ ui'.view = u.view /\ ui'.listData = u.listData /\ ui'.listPage = u.listPage
      /\ ui'.alertMsg = u.alertMsg
      /\ ui'.loading = IF d.op = "list" THEN FALSE ELSE u.loading
      /\ ui'.toggleInProgress = IF d.op = "getToggle" THEN FALSE ELSE u.toggleInProgress
      /\ ui'.deleteInProgress = IF d.op = "getDelete" THEN FALSE ELSE u.deleteInProgress
      /\ ui'.toggleInProgressID =
           IF "rowToggle" \in {d.op, d.then} THEN None ELSE u.toggleInProgressID
      /\ ui'.deleteInProgressID =
           IF "rowDelete" \in {d.op, d.then} THEN None ELSE u.deleteInProgressID
  BY <1>1, <1>3 DEF Released, UiFields
<1> QED
  BY <1>1, <1>2, <1>3, <1>4 DEF Dropped, OtherTaken

LEMMA ListKind ==
    ASSUME Numbered, NEW d, Holding(d), TakeList(d)
    PROVE  Dropped(d) /\ ListTaken(d)
<1> DEFINE u == IF Succeeded(d) THEN Filled(ui, d.answer.data) ELSE Refused(ui, d)
           r == Released(u, d)
<1>0. DOMAIN ui = UiFields
  BY BlankFacts DEF Numbered
<1>1. /\ d.op = "list"
      /\ ui' = IF d.then = None THEN r ELSE [r EXCEPT !.alertMsg = Message(d)]
      /\ seen' = IF Succeeded(d)
                 THEN [seen EXCEPT !.no = d.no, !.ok = TRUE, !.rows = d.answer.data.rows,
                                   !.page = d.answer.data.page, !.ver = d.answer.data.ver,
                                   !.asked = d.told]
                 ELSE [seen EXCEPT !.ok = FALSE]
  BY DEF TakeList, Take
<1>2. calls' = {e \in calls : e.no # d.no} /\ sent' = sent /\ UNCHANGED server
  BY DEF TakeList, Take
<1>3. /\ DOMAIN u = UiFields
      /\ IF Succeeded(d) THEN u.listData = d.answer.data.rows /\ u.listPage = d.answer.data.page
                         ELSE u.listData \subseteq ui.listData
      /\ u.alertMsg = ui.alertMsg
      /\ u.toggleInProgress = ui.toggleInProgress
      /\ u.deleteInProgress = ui.deleteInProgress
      /\ u.toggleInProgressID = ui.toggleInProgressID
      /\ u.deleteInProgressID = ui.deleteInProgressID
  <2>1. CASE Succeeded(d)
    BY <1>0, <2>1 DEF Filled, UiFields
  <2>2. CASE ~Succeeded(d)
    BY <1>0, <2>2, RefusedFacts
  <2> QED
    BY <2>1, <2>2
<1> HIDE DEF u
<1>4. /\ DOMAIN r = UiFields /\ r.listData = u.listData /\ r.listPage = u.listPage
      /\ r.alertMsg = u.alertMsg /\ r.loading = FALSE
      /\ r.toggleInProgress = u.toggleInProgress /\ r.deleteInProgress = u.deleteInProgress
      /\ r.toggleInProgressID =
           IF "rowToggle" \in {d.op, d.then} THEN None ELSE u.toggleInProgressID
      /\ r.deleteInProgressID =
           IF "rowDelete" \in {d.op, d.then} THEN None ELSE u.deleteInProgressID
  BY <1>1, <1>3 DEF Released, UiFields
<1> HIDE DEF r
<1>5. /\ DOMAIN ui' = UiFields /\ ui'.listData = r.listData /\ ui'.listPage = r.listPage
      /\ ui'.loading = r.loading
      /\ ui'.toggleInProgress = r.toggleInProgress /\ ui'.deleteInProgress = r.deleteInProgress
      /\ ui'.toggleInProgressID = r.toggleInProgressID
      /\ ui'.deleteInProgressID = r.deleteInProgressID
      /\ ui'.alertMsg = IF d.then = None THEN r.alertMsg ELSE Message(d)
  BY <1>1, <1>4 DEF UiFields
<1>6. Dropped(d)
  BY <1>1, <1>2, <1>3, <1>4, <1>5 DEF Dropped
<1>7. ListTaken(d)
  BY <1>1, <1>3, <1>4, <1>5 DEF ListTaken
<1> QED
  BY <1>6, <1>7

LEMMA RowKind ==
    ASSUME Numbered, NEW d, Holding(d), TakeRow(d)
    PROVE  \E c : Relisted(d, c)
<1> DEFINE l == ListCall(ui)
           c == [l EXCEPT !.id = d.id, !.was = d.was, !.then = d.op, !.did = d.answer.data,
                          !.told = seen'.told]
<1>0. DOMAIN ui = UiFields
  BY BlankFacts DEF Numbered
<1>1. DOMAIN l = Fields /\ l.no = sent + 1 /\ l.op = "list" /\ l.answer.status = "none"
  BY DEF ListCall, Call, Fields
<1>2. /\ Succeeded(d) /\ d.op \in RowOps /\ UNCHANGED server
      /\ ui' = Listing(ui)
      /\ calls' = {e \in calls : e.no # d.no} \cup {c}
      /\ sent' = sent + 1
      /\ seen' = [seen EXCEPT !.last = sent + 1,
                              !.told = IF @ > d.answer.data.ver THEN @ ELSE d.answer.data.ver]
  BY DEF TakeRow, RowOps
<1> HIDE DEF l
<1>3. /\ DOMAIN c = Fields /\ c.no = sent + 1 /\ c.op = "list" /\ c.answer.status = "none"
      /\ c.id = d.id /\ c.was = d.was /\ c.then = d.op /\ c.did = d.answer.data
      /\ c.told = seen'.told
  BY <1>1 DEF Fields
<1> HIDE DEF c
<1>4. Fresh([c EXCEPT !.then = None])
  BY <1>3 DEF Fresh, Fields
<1>5. /\ DOMAIN ui' = UiFields
      /\ ui'.view = "list" /\ ui'.listData = ui.listData /\ ui'.alertMsg = None
      /\ ui'.toggleInProgress = ui.toggleInProgress /\ ui'.deleteInProgress = ui.deleteInProgress
      /\ ui'.toggleInProgressID = ui.toggleInProgressID
      /\ ui'.deleteInProgressID = ui.deleteInProgressID
  BY <1>0, <1>2 DEF Listing, Cleared, UiFields
<1>6. Relisted(d, c)
  BY <1>2, <1>3, <1>4, <1>5 DEF Relisted
<1> QED
  BY <1>6

LEMMA ResultKind ==
    ASSUME Numbered, NEW d, Holding(d), TakeResult(d) \/ TakeSession(d)
    PROVE  Dropped(d) /\ OtherTaken(d)
<1> DEFINE r == Released(ui, d)
<1>0. DOMAIN ui = UiFields
  BY BlankFacts DEF Numbered
<1>1. /\ d.op \notin RowOps \cup {"list"} /\ d.then = None /\ UNCHANGED seen
      /\ calls' = {e \in calls : e.no # d.no} /\ sent' = sent /\ UNCHANGED server
  <2>1. d.op \in {"get", "getToggle", "toggle", "delete", "getDelete", "verify", "login", "logout"}
        /\ UNCHANGED seen
        /\ calls' = {e \in calls : e.no # d.no} /\ sent' = sent /\ UNCHANGED server
    BY DEF TakeResult, TakeSession, Take
  <2> QED
    BY <2>1 DEF Holding, RowOps
<1>2. /\ DOMAIN r = UiFields
      /\ r.view = ui.view /\ r.listData = ui.listData /\ r.listPage = ui.listPage
      /\ r.alertMsg = ui.alertMsg /\ r.loading = ui.loading
      /\ r.toggleInProgress = IF d.op = "getToggle" THEN FALSE ELSE ui.toggleInProgress
      /\ r.deleteInProgress = IF d.op = "getDelete" THEN FALSE ELSE ui.deleteInProgress
      /\ r.toggleInProgressID = ui.toggleInProgressID
      /\ r.deleteInProgressID = ui.deleteInProgressID
  BY <1>0, <1>1, ReleasedFacts, NoneAssumption DEF RowOps, Ops
<1> HIDE DEF r
<1>3. CASE d.op \in {"get", "getToggle"} /\ ui' = [r EXCEPT !.result = [kind |-> "get", id |-> d.id]]
  BY <1>1, <1>2, <1>3, NoneAssumption DEF Dropped, OtherTaken, UiFields, RowOps, Ops
<1>4. CASE d.op \in {"toggle", "delete"} /\ ui' = [ui EXCEPT !.result = [kind |-> d.op]]
  BY <1>0, <1>1, <1>4, NoneAssumption DEF Dropped, OtherTaken, UiFields, RowOps, Ops
<1>5. CASE d.op = "getDelete" /\ Succeeded(d)
           /\ ui' = [r EXCEPT !.result = None,
                              !.alertMsg = [id |-> d.id, says |-> "deleted",
                                            did |-> "rejected", upToDate |-> TRUE]]
  BY <1>1, <1>2, <1>5, NoneAssumption DEF Dropped, OtherTaken, UiFields, RowOps, Ops
<1>6. CASE d.op = "verify" /\ ui' = [ui EXCEPT !.authenticated = @ \/ Succeeded(d)]
  BY <1>0, <1>1, <1>6, NoneAssumption DEF Dropped, OtherTaken, UiFields, RowOps, Ops
<1>7. CASE d.op = "login" /\ ui' = [ui EXCEPT !.authenticated = @ \/ Succeeded(d),
                                              !.error = ~Succeeded(d)]
  BY <1>0, <1>1, <1>7, NoneAssumption DEF Dropped, OtherTaken, UiFields, RowOps, Ops
<1>8. CASE d.op = "logout" /\ ui' = SignedOut(ui)
  BY <1>0, <1>1, <1>8, NoneAssumption DEF SignedOut, Dropped, OtherTaken, UiFields, RowOps, Ops
<1> QED
  BY <1>3, <1>4, <1>5, <1>6, <1>7, <1>8 DEF TakeResult, TakeSession, Take, r

\* Every step is of one of these kinds.
Step ==
    \/ UNCHANGED server /\ \E c : ListAsked(c) \/ OtherAsked(c) \/ RowAsked(c) \/ Loaded(c)
    \/ UNCHANGED server /\ Opened
    \/ \E c, a : Replied(c, a)
    \/ UNCHANGED <<ui, calls, sent, seen>> /\ TableSteps
    \/ \E d : Holding(d) /\ Dropped(d) /\ (ListTaken(d) \/ OtherTaken(d))
    \/ \E d, c : Holding(d) /\ Relisted(d, c)

Stores ==
    /\ table \in [Ids -> BOOLEAN \cup {None}] /\ changed \in [Ids -> Nat] /\ version \in Nat

LEMMA Kinds == Numbered /\ Stores /\ [Next]_vars => Step
<1> SUFFICES ASSUME Numbered, Stores, [Next]_vars PROVE Step
  OBVIOUS
<1>1. CASE UNCHANGED vars
  BY <1>1 DEF vars, server, Step, TableSteps, TableStands
<1>2. CASE User
  <2>1. UNCHANGED server /\ ((\E c : ListAsked(c) \/ OtherAsked(c) \/ RowAsked(c) \/ Loaded(c)) \/ Opened)
    BY <1>2, UserKinds
  <2> QED
    BY <2>1 DEF Step
<1>3. ASSUME NEW c \in calls, Serve(c) \/ ServeLogin(c) \/ ServeLogout(c) \/ Unauthorized(c)
      PROVE  Step
  <2>1. \E a : Replied(c, a)
    BY <1>3, ServerKinds DEF Stores
  <2> QED
    BY <2>1 DEF Step
<1>4. ASSUME NEW c \in calls, Settle(c) \/ Fail(c) PROVE Step
  <2>1. PICK d : Holding(d) /\ Resume(d)
    BY <1>4, TakenUp
  <2>2. (Dropped(d) /\ (ListTaken(d) \/ OtherTaken(d))) \/ \E e : Relisted(d, e)
    BY <2>1, FailureKind, ListKind, RowKind, ResultKind DEF Resume
  <2> QED
    BY <2>1, <2>2 DEF Step
<1>5. CASE Others \/ Expire
  <2>1. UNCHANGED <<ui, calls, sent, seen>> /\ TableSteps
    BY <1>5, OtherKinds DEF Stores
  <2> QED
    BY <2>1 DEF Step
<1> QED
  BY <1>1, <1>2, <1>3, <1>4, <1>5 DEF Next

-----------------------------------------------------------------------------
(* Each invariant, kind by kind.                                             *)

LEMMA StepMovesTable == Step => TableSteps \/ UNCHANGED server
<1>1. \A c, a : Replied(c, a) => TableSteps
  BY DEF Replied
<1>2. \A d, c : Dropped(d) \/ Relisted(d, c) => UNCHANGED server
  BY DEF Dropped, Relisted
<1> QED
  BY <1>1, <1>2 DEF Step

LEMMA StoresStand == Stores /\ Step => Stores'
<1>1. Stores /\ TableSteps => Stores'
  <2>1. ASSUME Stores, NEW id \in Ids, NEW value \in BOOLEAN \cup {None}, Change(id, value)
        PROVE  Stores'
    BY <2>1 DEF Stores, Change, Ids
  <2>2. Stores /\ TableStands => Stores'
    BY DEF Stores, TableStands, Ids
  <2> QED
    BY <2>1, <2>2 DEF TableSteps
<1>2. Stores /\ UNCHANGED server => Stores'
  BY DEF Stores, server, Ids
<1>3. Step => TableSteps \/ UNCHANGED server
  BY StepMovesTable
<1> QED
  BY <1>1, <1>2, <1>3

LEMMA NumberedStands == Stores /\ Numbered /\ Step => Numbered'
<1> SUFFICES ASSUME Stores, Numbered, Step PROVE Numbered'
  OBVIOUS
<1>0. /\ Numbered' <=>
           /\ DOMAIN ui' = UiFields /\ DOMAIN seen' = DOMAIN Unlisted
           /\ sent' \in Nat /\ version' \in Nat
           /\ seen.no' \in 0 .. sent' /\ seen.last' \in 0 .. sent'
           /\ \A c \in calls' :
                /\ DOMAIN c = Fields /\ c.no \in 1 .. sent'
                /\ c.answer.status \in {"none", "ok", "401"}
                /\ c.then \in {None, "rowToggle", "rowDelete"} /\ (c.op # "list" => c.then = None)
           /\ \A c, d \in calls' : c.no = d.no => c = d
      /\ Stores'
  BY BlankFacts, StoresStand DEF Numbered, Fields, Blank
<1>1. ASSUME NEW c, Asks(c), UNCHANGED seen \/ seen' = [seen EXCEPT !.last = sent + 1]
      PROVE  Numbered'
  BY <1>0, <1>1, BlankFacts DEF Asks, Fresh, Numbered, Stores, Fields
<1>2. ASSUME NEW c, Loaded(c) PROVE Numbered'
  BY <1>0, <1>2, BlankFacts DEF Loaded, Fresh, Numbered, Stores, Unlisted
<1>3. CASE Opened
  BY <1>0, <1>3 DEF Opened, Numbered, Stores, Fields
<1>4. ASSUME NEW c, NEW a, Replied(c, a) PROVE Numbered'
  <2> DEFINE e == [c EXCEPT !.answer = a]
  <2>1. /\ DOMAIN e = Fields /\ e.no = c.no /\ e.op = c.op /\ e.then = c.then
        /\ e.answer.status \in {"ok", "401"}
    BY <1>4 DEF Replied, Numbered, Fields
  <2> HIDE DEF e
  <2>2. calls' = (calls \ {c}) \cup {e} /\ c \in calls /\ UNCHANGED <<ui, sent, seen>>
    BY <1>4 DEF Replied, e
  <2> QED
    BY <1>0, <2>1, <2>2, BlankFacts DEF Numbered, Stores, Fields
<1>5. CASE UNCHANGED <<ui, calls, sent, seen>>
  BY <1>0, <1>5, BlankFacts DEF Numbered, Stores, Fields
<1>6. ASSUME NEW d, Holding(d), Dropped(d), ListTaken(d) \/ OtherTaken(d) PROVE Numbered'
  <2>1. d.no \in 1 .. sent
    BY <1>6 DEF Holding, Numbered
  <2>2. DOMAIN seen' = DOMAIN Unlisted /\ seen'.no \in 0 .. sent /\ seen'.last \in 0 .. sent
    <3>0. /\ DOMAIN seen = {"last", "no", "ok", "rows", "page", "ver", "told", "asked"}
          /\ seen.no \in 0 .. sent /\ seen.last \in 0 .. sent
      BY BlankFacts DEF Numbered
    <3>1. CASE seen' = [seen EXCEPT !.no = d.no, !.ok = TRUE, !.rows = d.answer.data.rows,
                                    !.page = d.answer.data.page, !.ver = d.answer.data.ver,
                                    !.asked = d.told]
      BY <2>1, <3>0, <3>1, BlankFacts
    <3>2. CASE seen' = [seen EXCEPT !.ok = FALSE]
      BY <3>0, <3>2, BlankFacts
    <3>3. CASE UNCHANGED seen
      BY <3>0, <3>3, BlankFacts
    <3> QED
      BY <1>6, <3>1, <3>2, <3>3 DEF ListTaken, OtherTaken
  <2> QED
    BY <1>0, <1>6, <2>2 DEF Dropped, Numbered, Stores, Fields
<1>7. ASSUME NEW d, NEW c, Holding(d), Relisted(d, c) PROVE Numbered'
  <2>1. /\ DOMAIN c = Fields /\ c.no = sent + 1 /\ c.op = "list" /\ c.answer.status = "none"
        /\ c.then \in {"rowToggle", "rowDelete"}
    <3>1. DOMAIN c = Fields /\ Fresh([c EXCEPT !.then = None])
      BY <1>7 DEF Relisted
    <3>2. c.no = sent + 1 /\ c.answer.status = "none"
      BY <3>1 DEF Fresh, Fields
    <3> QED
      BY <1>7, <3>1, <3>2 DEF Relisted, RowOps
  <2>2. /\ calls' = {e \in calls : e.no # d.no} \cup {c} /\ sent' = sent + 1
        /\ DOMAIN ui' = UiFields /\ DOMAIN seen' = DOMAIN Unlisted
        /\ seen'.no = seen.no /\ seen'.last = sent + 1
    BY <1>7, BlankFacts DEF Relisted, Numbered
  <2> QED
    BY <1>0, <2>1, <2>2 DEF Numbered, Stores, Fields
<1> QED
  BY <1>1, <1>2, <1>3, <1>4, <1>5, <1>6, <1>7 DEF Step, ListAsked, OtherAsked, RowAsked

Going(cs, op, id) == \E c \in cs : op \in {c.op, c.then} /\ id \in {c.id, None}

LEMMA BusyStands == Numbered /\ BusyHasCall /\ Step => BusyHasCall'
<1> SUFFICES ASSUME Numbered, BusyHasCall, Step PROVE BusyHasCall'
  OBVIOUS
<1>a. /\ ui.loading => Going(calls, "list", None)
      /\ ui.toggleInProgress => Going(calls, "getToggle", None)
      /\ ui.deleteInProgress => Going(calls, "getDelete", None)
      /\ ui.toggleInProgressID # None => Going(calls, "rowToggle", ui.toggleInProgressID)
      /\ ui.deleteInProgressID # None => Going(calls, "rowDelete", ui.deleteInProgressID)
  BY DEF BusyHasCall, Going
<1>b. BusyHasCall' <=>
      /\ ui'.loading => Going(calls', "list", None)
      /\ ui'.toggleInProgress => Going(calls', "getToggle", None)
      /\ ui'.deleteInProgress => Going(calls', "getDelete", None)
      /\ ui'.toggleInProgressID # None => Going(calls', "rowToggle", ui'.toggleInProgressID)
      /\ ui'.deleteInProgressID # None => Going(calls', "rowDelete", ui'.deleteInProgressID)
  BY DEF BusyHasCall, Going
<1>1. ASSUME NEW c, ListAsked(c) \/ OtherAsked(c) \/ RowAsked(c) PROVE BusyHasCall'
  <2>1. \A op, id : Going(calls, op, id) \/ (op = c.op /\ id \in {c.id, None}) => Going(calls', op, id)
    BY <1>1 DEF Going, ListAsked, OtherAsked, RowAsked, Asks
  <2> QED
    BY <1>1, <1>a, <1>b, <2>1 DEF ListAsked, OtherAsked, RowAsked, RowOps
<1>2. ASSUME NEW c, Loaded(c) PROVE BusyHasCall'
  BY <1>2, <1>b DEF Loaded, Blank
<1>3. CASE Opened
  <2>1. \A op, id : Going(calls, op, id) => Going(calls', op, id)
    BY <1>3 DEF Opened, Going
  <2> QED
    BY <1>3, <1>a, <1>b, <2>1 DEF Opened
<1>4. ASSUME NEW c, NEW a, Replied(c, a) PROVE BusyHasCall'
  <2> DEFINE e == [c EXCEPT !.answer = a]
  <2>1. e.op = c.op /\ e.then = c.then /\ e.id = c.id
    BY <1>4 DEF Replied, Numbered
  <2>2. calls' = (calls \ {c}) \cup {e} /\ UNCHANGED ui
    BY <1>4 DEF Replied
  <2> HIDE DEF e
  <2>3. \A op, id : Going(calls, op, id) => Going(calls', op, id)
    BY <2>1, <2>2 DEF Going
  <2> QED
    BY <1>a, <1>b, <2>2, <2>3
<1>5. CASE UNCHANGED <<ui, calls, sent, seen>>
  BY <1>5 DEF BusyHasCall, Going
<1>6. ASSUME NEW d, Holding(d), Dropped(d) PROVE BusyHasCall'
  <2>1. \A op, id : Going(calls, op, id) /\ op \notin {d.op, d.then} => Going(calls', op, id)
    <3>1. PICK c \in calls : c.no = d.no /\ c.op = d.op /\ c.then = d.then
      BY <1>6 DEF Holding
    <3>2. calls' = {x \in calls : x.no # d.no}
      BY <1>6 DEF Dropped
    <3>3. \A x \in calls : x.no = d.no => x = c
      BY <3>1 DEF Numbered
    <3> QED
      BY <3>1, <3>2, <3>3 DEF Going
  <2>2. "list" \notin {d.op, d.then} \/ d.op = "list"
    BY <1>6, NoneAssumption DEF Holding, Ops
  <2>3. d.op # "getToggle" => "getToggle" \notin {d.op, d.then}
    BY <1>6, NoneAssumption DEF Holding, Ops, Forms
  <2>4. d.op # "getDelete" => "getDelete" \notin {d.op, d.then}
    BY <1>6, NoneAssumption DEF Holding, Ops, Forms
  <2> QED
    BY <1>6, <1>a, <1>b, <2>1, <2>2, <2>3, <2>4 DEF Dropped
<1>7. ASSUME NEW d, NEW c, Holding(d), Relisted(d, c) PROVE BusyHasCall'
  <2>1. \A op, id : op # None /\ Going(calls, op, id) => Going(calls', op, id)
    <3>1. PICK e \in calls : e.no = d.no /\ e.op = d.op /\ e.then = d.then /\ e.id = d.id
      BY <1>7 DEF Holding
    <3>2. /\ calls' = {x \in calls : x.no # d.no} \cup {c}
          /\ c.op = "list" /\ c.then = d.op /\ c.id = d.id /\ d.op \in RowOps
      BY <1>7 DEF Relisted
    <3>3. d.then = None
      BY <1>7, <3>2 DEF Holding, RowOps
    <3>4. \A x \in calls : x.no = d.no => x = e
      BY <3>1 DEF Numbered
    <3>5. ASSUME NEW op, NEW id, NEW x \in calls, op \in {x.op, x.then}, id \in {x.id, None},
                 op # None
          PROVE  Going(calls', op, id)
      <4>1. CASE x.no # d.no
        BY <3>2, <3>5, <4>1 DEF Going
      <4>2. CASE x.no = d.no
        <5>1. x = e
          BY <3>4, <4>2
        <5>2. op \in {c.op, c.then} /\ id \in {c.id, None} /\ c \in calls'
          BY <3>1, <3>2, <3>3, <3>5, <5>1
        <5> QED
          BY <5>2 DEF Going
      <4> QED
        BY <4>1, <4>2
    <3> QED
      BY <3>5 DEF Going
  <2>2. Going(calls', "list", None)
    BY <1>7 DEF Relisted, Going
  <2> QED
    BY <1>7, <1>a, <1>b, <2>1, <2>2, NoneAssumption DEF Relisted, Ops, Forms
<1> QED
  BY <1>1, <1>2, <1>3, <1>4, <1>5, <1>6, <1>7 DEF Step

LEMMA SeenFacts ==
    ASSUME Numbered
    PROVE  DOMAIN ui = UiFields
           /\ DOMAIN seen = {"last", "no", "ok", "rows", "page", "ver", "told", "asked"}
BY BlankFacts DEF Numbered

LEMMA SettledStands == Numbered /\ Settled /\ Step => Settled'
<1> SUFFICES ASSUME Numbered, Settled, Step PROVE Settled'
  OBVIOUS
<1>1. ASSUME NEW c, ListAsked(c) PROVE Settled'
  BY <1>1 DEF ListAsked, Asks, Settled
<1>2. ASSUME NEW c, OtherAsked(c) \/ RowAsked(c) PROVE Settled'
  BY <1>2 DEF OtherAsked, RowAsked, Asks, Settled
<1>3. ASSUME NEW c, Loaded(c) PROVE Settled'
  BY <1>3 DEF Loaded, Blank, Settled
<1>4. CASE Opened
  BY <1>4 DEF Opened, Settled
<1>5. ASSUME NEW c, NEW a, Replied(c, a) PROVE Settled'
  <2> DEFINE e == [c EXCEPT !.answer = a]
  <2>1. e.op = c.op
    BY <1>5 DEF Replied, Numbered
  <2>2. calls' = (calls \ {c}) \cup {e} /\ UNCHANGED <<ui, seen>>
    BY <1>5 DEF Replied
  <2> HIDE DEF e
  <2> QED
    BY <2>1, <2>2 DEF Settled
<1>6. CASE UNCHANGED <<ui, calls, sent, seen>>
  BY <1>6 DEF Settled
<1>7. ASSUME NEW d, Holding(d), Dropped(d), ListTaken(d) PROVE Settled'
  BY <1>7, SeenFacts DEF ListTaken, Settled
<1>8. ASSUME NEW d, Holding(d), Dropped(d), OtherTaken(d) PROVE Settled'
  <2>1. (\A c \in calls' : c.op # "list") => \A c \in calls : c.op # "list"
    BY <1>8 DEF Dropped, OtherTaken, Holding, Numbered
  <2> QED
    BY <1>8, <2>1 DEF OtherTaken, Settled
<1>9. ASSUME NEW d, NEW c, Holding(d), Relisted(d, c) PROVE Settled'
  BY <1>9 DEF Relisted, Settled
<1> QED
  BY <1>1, <1>2, <1>3, <1>4, <1>5, <1>6, <1>7, <1>8, <1>9 DEF Step

LEMMA VersionGrows == Stores /\ Step => version' \in Nat /\ version <= version'
<1> SUFFICES ASSUME Stores, Step PROVE version' \in Nat /\ version <= version'
  OBVIOUS
<1>1. Stores'
  BY StoresStand
<1>2. TableSteps \/ UNCHANGED server
  BY StepMovesTable
<1> QED
  BY <1>1, <1>2 DEF TableSteps, TableStands, Change, server, Stores

LEMMA ListsStand == Stores /\ Numbered /\ ListsFollow /\ Step => ListsFollow'
<1> SUFFICES ASSUME Stores, Numbered, ListsFollow, Step PROVE ListsFollow'
  OBVIOUS
<1>0. /\ version \in Nat /\ version' \in Nat /\ version <= version'
      /\ sent \in Nat /\ seen.no \in 0 .. sent /\ seen.last \in 0 .. sent
      /\ \A e \in calls : e.no \in 1 .. sent
      /\ DOMAIN seen = {"last", "no", "ok", "rows", "page", "ver", "told", "asked"}
  BY VersionGrows, SeenFacts DEF Stores, Numbered
<1>1. ASSUME NEW c, ListAsked(c) PROVE ListsFollow'
  <2>1. /\ calls' = calls \cup {c} /\ ~Succeeded(c) /\ c.told = seen.told
        /\ seen'.last = sent + 1 /\ seen'.no = seen.no /\ seen'.told = seen.told
        /\ seen'.asked = seen.asked /\ seen'.ver = seen.ver
    BY <1>0, <1>1 DEF ListAsked, Asks, Fresh, Succeeded
  <2> QED
    BY <1>0, <2>1 DEF ListsFollow, InOrder, Succeeded
<1>2. ASSUME NEW c, OtherAsked(c) \/ RowAsked(c) PROVE ListsFollow'
  <2>1. calls' = calls \cup {c} /\ ~Succeeded(c) /\ c.op # "list" /\ UNCHANGED seen
    BY <1>2 DEF OtherAsked, RowAsked, Asks, Fresh, Succeeded, RowOps
  <2> QED
    BY <1>0, <2>1 DEF ListsFollow, InOrder, Succeeded
<1>3. ASSUME NEW c, Loaded(c) PROVE ListsFollow'
  BY <1>0, <1>3 DEF Loaded, Fresh, Unlisted, Succeeded, ListsFollow, InOrder
<1>4. ASSUME UNCHANGED <<calls, seen>> PROVE ListsFollow'
  BY <1>0, <1>4 DEF ListsFollow, InOrder, Succeeded
<1>5. ASSUME NEW c, NEW a, Replied(c, a) PROVE ListsFollow'
  <2> DEFINE e == [c EXCEPT !.answer = a]
  <2>1. e.no = c.no /\ e.op = c.op /\ e.told = c.told /\ e.answer = a
    BY <1>5 DEF Replied, Numbered
  <2>2. calls' = (calls \ {c}) \cup {e} /\ c \in calls /\ UNCHANGED seen
    BY <1>5 DEF Replied
  <2>3. a.status = "ok" =>
          /\ c.op = "list" => a.data.ver = version /\ version' = version
          /\ c.op \in RowOps => a.data.ver = version' 
    BY <1>5 DEF Replied, TableStands
  <2> HIDE DEF e
  <2>5. e.op = "list" => e.told \in 0 .. seen.told
    BY <2>1, <2>2 DEF ListsFollow
  <2>4. Succeeded(e) =>
          /\ e.op \in {"list"} \cup RowOps => e.answer.data.ver \in 0 .. version'
          /\ e.op = "list" => seen.told <= e.answer.data.ver /\ e.told <= e.answer.data.ver
    BY <1>0, <2>1, <2>3, <2>5 DEF Succeeded, ListsFollow, RowOps
  <2> QED
    BY <1>0, <2>2, <2>4, <2>5 DEF ListsFollow, InOrder, Succeeded, RowOps
<1>6. ASSUME NEW d, Holding(d), Dropped(d), ListTaken(d) PROVE ListsFollow'
  <2>1. calls' \subseteq calls
    BY <1>6 DEF Dropped
  <2>2. CASE Succeeded(d)
    <3>1. d \in calls /\ d.op = "list"
      BY <1>6, <2>2 DEF Holding, ListTaken
    <3>2. /\ seen'.no = d.no /\ seen'.last = seen.last /\ seen'.told = seen.told
          /\ seen'.ver = d.answer.data.ver /\ seen'.asked = d.told
      BY <1>0, <1>6, <2>2 DEF ListTaken
    <3> QED
      BY <1>0, <2>1, <2>2, <3>1, <3>2 DEF ListsFollow, InOrder, Succeeded
  <2>3. CASE ~Succeeded(d)
    <3>1. /\ seen'.no = seen.no /\ seen'.last = seen.last /\ seen'.told = seen.told
          /\ seen'.ver = seen.ver /\ seen'.asked = seen.asked
      BY <1>0, <1>6, <2>3 DEF ListTaken
    <3> QED
      BY <1>0, <2>1, <3>1 DEF ListsFollow, InOrder, Succeeded
  <2> QED
    BY <2>2, <2>3
<1>7. ASSUME NEW d, Dropped(d), OtherTaken(d) PROVE ListsFollow'
  <2>1. calls' \subseteq calls /\ UNCHANGED seen
    BY <1>7 DEF Dropped, OtherTaken
  <2> QED
    BY <1>0, <2>1 DEF ListsFollow, InOrder, Succeeded
<1>8. ASSUME NEW d, NEW c, Holding(d), Relisted(d, c) PROVE ListsFollow'
  <2>1. /\ d \in calls /\ Succeeded(d) /\ d.op \in RowOps
    BY <1>8 DEF Relisted, Holding
  <2>2. d.answer.data.ver \in 0 .. version
    BY <2>1 DEF ListsFollow, RowOps
  <2>3. ~Succeeded(c)
    BY <1>8 DEF Relisted, Fresh, Succeeded, Fields
  <2>4. /\ calls' \subseteq calls \cup {c}
        /\ seen'.last = sent + 1 /\ seen'.no = seen.no /\ seen'.told \in 0 .. version
        /\ seen.told <= seen'.told /\ c.told = seen'.told
        /\ seen'.asked = seen.asked /\ seen'.ver = seen.ver
    BY <1>0, <1>8, <2>2 DEF Relisted, ListsFollow
  <2> QED
    BY <1>0, <2>3, <2>4 DEF ListsFollow, InOrder, Succeeded
<1> QED
  BY <1>1, <1>2, <1>3, <1>4, <1>5, <1>6, <1>7, <1>8 DEF Step, Opened

\* A change of the table leaves every row that was listed right or outdated, and
\* brings no comment back.
LEMMA FitsStand ==
    ASSUME Stores, \A id \in Ids : changed[id] \in 0 .. version, TableSteps \/ UNCHANGED server
    PROVE  /\ \A id \in Ids : changed'[id] \in 0 .. version'
           /\ \A id \in Ids : table[id] = None => table'[id] = None
           /\ \A row : RowFits(row) => RowFits(row)'
<1>1. ASSUME TableStands \/ UNCHANGED server
      PROVE  UNCHANGED <<table, version, changed>>
  BY <1>1 DEF TableStands, server
<1>2. CASE TableStands \/ UNCHANGED server
  BY <1>1, <1>2 DEF RowFits, Ids
<1>3. ASSUME NEW id \in Ids, NEW value \in BOOLEAN \cup {None}, Change(id, value)
      PROVE  /\ \A i \in Ids : changed'[i] \in 0 .. version'
             /\ \A i \in Ids : table[i] = None => table'[i] = None
             /\ \A row : RowFits(row) => RowFits(row)'
  <2>1. /\ version \in Nat /\ version' = version + 1
        /\ table[id] # None
        /\ \A i \in Ids : /\ changed[i] \in 0 .. version
                          /\ changed'[i] = IF i = id THEN version + 1 ELSE changed[i]
                          /\ table'[i] = IF i = id THEN value ELSE table[i]
    BY <1>3 DEF Change, Stores
  <2>2. ASSUME NEW row, RowFits(row) PROVE RowFits(row)'
    <3>1. /\ row.id \in Ids /\ row.ver \in 0 .. changed[row.id]
          /\ row.ver = changed[row.id] => (row.approved <=> table[row.id])
      BY <2>2 DEF RowFits
    <3>2. row.id \in Ids' /\ row.ver \in 0 .. changed'[row.id]
      BY <2>1, <3>1 DEF Ids
    <3>3. row.ver = changed'[row.id] => (row.approved <=> table'[row.id])
      <4>1. CASE row.id = id
        BY <2>1, <3>1, <4>1
      <4>2. CASE row.id # id
        BY <2>1, <3>1, <4>2
      <4> QED
        BY <4>1, <4>2
    <3> QED
      BY <3>2, <3>3 DEF RowFits
  <2> QED
    BY <2>1, <2>2
<1> QED
  BY <1>1, <1>2, <1>3 DEF TableSteps

\* What RowsFit says of one call.
CallFits(c) ==
    /\ c.op = "list" /\ Succeeded(c) => \A row \in c.answer.data.rows : RowFits(row)
    /\ c.op \in {"rowToggle", "rowDelete"} => RowFits(c.was) /\ c.was.id = c.id
    /\ c.op = "rowToggle" /\ Succeeded(c) => Obeyed(c, c.answer.data)
    /\ c.then = "rowToggle" /\ c.op = "list" => Obeyed(c, c.did)
    /\ \/ c.op \in {"rowDelete", "getDelete"} /\ Succeeded(c)
       \/ c.then = "rowDelete" /\ c.op = "list"
       => c.id \in Ids /\ table[c.id] = None

LEMMA RowsStand == Stores /\ Numbered /\ RowsFit /\ Step => RowsFit'
<1> SUFFICES ASSUME Stores, Numbered, RowsFit, Step PROVE RowsFit'
  OBVIOUS
<1>a. /\ \A id \in Ids : changed[id] \in 0 .. version
      /\ \A row \in ui.listData : RowFits(row)
      /\ \A c \in calls : CallFits(c)
  BY DEF RowsFit, CallFits
<1>b. /\ \A id \in Ids : changed'[id] \in 0 .. version'
      /\ \A id \in Ids : table[id] = None => table'[id] = None
      /\ \A row : RowFits(row) => RowFits(row)'
  BY <1>a, FitsStand, StepMovesTable
<1>c. ASSUME NEW c, CallFits(c) PROVE CallFits(c)'
  BY <1>b, <1>c DEF CallFits, Succeeded, Obeyed, Ids
<1>d. ui'.listData \subseteq ui.listData /\ (\A c \in calls' : c \in calls \/ CallFits(c)')
      => RowsFit'
  <2>1. ASSUME ui'.listData \subseteq ui.listData, \A c \in calls' : c \in calls \/ CallFits(c)'
        PROVE  (\A row \in ui'.listData : RowFits(row)') /\ (\A c \in calls' : CallFits(c)')
    BY <1>a, <1>b, <1>c, <2>1
  <2> QED
    BY <1>b, <2>1 DEF RowsFit, CallFits, Ids
<1>1. ASSUME NEW c, ListAsked(c) \/ OtherAsked(c) PROVE RowsFit'
  <2>1. CallFits(c)'
    BY <1>1, NoneAssumption
       DEF ListAsked, OtherAsked, Asks, Fresh, CallFits, Succeeded, RowOps, Ops
  <2> QED
    BY <1>1, <1>d, <2>1 DEF ListAsked, OtherAsked, Asks
<1>2. ASSUME NEW c, RowAsked(c) PROVE RowsFit'
  <2>1. RowFits(c.was)'
    BY <1>2, <1>a, <1>b DEF RowAsked
  <2>2. CallFits(c)'
    BY <1>2, <2>1, NoneAssumption
       DEF RowAsked, Asks, Fresh, CallFits, Succeeded, RowOps, Ops
  <2> QED
    BY <1>2, <1>d, <2>2 DEF RowAsked, Asks
<1>3. ASSUME NEW c, Loaded(c) PROVE RowsFit'
  <2>1. CallFits(c)'
    BY <1>3, NoneAssumption DEF Loaded, Fresh, CallFits, Succeeded, RowOps, Ops
  <2>2. ui'.listData \subseteq ui.listData
    BY <1>3 DEF Loaded, Blank
  <2> QED
    BY <1>3, <1>d, <2>1, <2>2 DEF Loaded
<1>4. ASSUME UNCHANGED calls, ui'.listData = ui.listData PROVE RowsFit'
  BY <1>4, <1>d
<1>5. ASSUME NEW c, NEW a, Replied(c, a) PROVE RowsFit'
  <2> DEFINE e == [c EXCEPT !.answer = a]
  <2>0. /\ calls' = (calls \ {c}) \cup {e} /\ c \in calls /\ UNCHANGED ui
        /\ a.status \in {"ok", "401"}
        /\ a.status = "ok" =>
             /\ c.op = "list" => TableStands /\ a.data.rows = Slice(c.page)
             /\ c.op \in RowOps \cup {"getDelete"} => c.id \in Ids
             /\ c.op = "rowToggle" =>
                  a.data.over = changed[c.id] /\ (a.data.approved <=> ~table[c.id])
             /\ c.op \in {"rowDelete", "getDelete"} => table'[c.id] = None
    BY <1>5 DEF Replied
  <2>1. /\ e.op = c.op /\ e.id = c.id /\ e.was = c.was /\ e.then = c.then /\ e.did = c.did
        /\ e.answer = a
    BY <2>0 DEF Numbered
  <2> HIDE DEF e
  <2>2. CallFits(c)' /\ CallFits(c)
    BY <1>a, <1>c, <2>0
  <2>3. c.op = "list" /\ a.status = "ok" => \A row \in a.data.rows : RowFits(row)'
    <3> SUFFICES ASSUME c.op = "list", a.status = "ok", NEW row \in Slice(c.page)
                 PROVE  RowFits(row)'
      BY <2>0
    <3>1. PICK id \in Ids : row = [id |-> id, approved |-> table[id], ver |-> changed[id]]
      BY DEF Slice, RowOf, Stored
    <3>2. changed[id] \in 0 .. version /\ version \in Nat
      BY <1>a DEF Stores
    <3>3. RowFits(row)
      BY <3>1, <3>2 DEF RowFits
    <3> QED
      BY <1>b, <3>3
  <2>4. c.op = "rowToggle" /\ a.status = "ok" => Obeyed(e, a.data)
    <3> SUFFICES ASSUME c.op = "rowToggle", a.status = "ok" PROVE Obeyed(e, a.data)
      OBVIOUS
    <3>1. RowFits(c.was) /\ c.was.id = c.id
      BY <2>2 DEF CallFits
    <3>2. c.was.ver = changed[c.id] => (c.was.approved <=> table[c.id])
      BY <3>1 DEF RowFits
    <3>3. a.data.over = changed[c.id] /\ (a.data.approved <=> ~table[c.id])
      BY <2>0
    <3> QED
      BY <2>1, <3>2, <3>3 DEF Obeyed
  <2>5. e.then = "rowToggle" /\ e.op = "list" => Obeyed(e, e.did)
    BY <2>1, <2>2 DEF CallFits, Obeyed
  <2>6. CallFits(e)'
    BY <2>0, <2>1, <2>2, <2>3, <2>4, <2>5 DEF CallFits, Succeeded, Obeyed, RowOps, Ids
  <2> QED
    BY <1>d, <2>0, <2>6
<1>6. ASSUME NEW d, Holding(d), Dropped(d), ListTaken(d) PROVE RowsFit'
  <2>0. calls' \subseteq calls
    BY <1>6 DEF Dropped
  <2>1. CASE Succeeded(d)
    <3>1. d \in calls /\ d.op = "list" /\ ui'.listData = d.answer.data.rows
      BY <1>6, <2>1 DEF Holding, ListTaken
    <3>2. \A row \in ui'.listData : RowFits(row)
      BY <1>a, <2>1, <3>1 DEF CallFits
    <3>3. (\A row \in ui'.listData : RowFits(row)') /\ (\A c \in calls' : CallFits(c)')
      BY <1>a, <1>b, <1>c, <2>0, <3>2
    <3> QED
      BY <1>b, <3>3 DEF RowsFit, CallFits, Ids
  <2>2. CASE ~Succeeded(d)
    BY <1>6, <1>d, <2>0, <2>2 DEF ListTaken
  <2> QED
    BY <2>1, <2>2
<1>7. ASSUME NEW d, Dropped(d), OtherTaken(d) PROVE RowsFit'
  BY <1>7, <1>d DEF Dropped, OtherTaken
<1>8. ASSUME NEW d, NEW c, Holding(d), Relisted(d, c) PROVE RowsFit'
  <2>1. /\ d \in calls /\ Succeeded(d) /\ d.op \in RowOps
        /\ c.op = "list" /\ c.then = d.op /\ c.id = d.id /\ c.was = d.was /\ c.did = d.answer.data
        /\ calls' \subseteq calls \cup {c} /\ ui'.listData = ui.listData
    BY <1>8 DEF Relisted, Holding
  <2>2. ~Succeeded(c)
    BY <1>8 DEF Relisted, Fresh, Succeeded, Fields
  <2>3. CallFits(d)'
    BY <1>a, <1>c, <2>1
  <2>4. d.op = "rowToggle" => Obeyed(c, c.did)'
    BY <2>1, <2>3 DEF CallFits, Obeyed, Succeeded
  <2>5. CallFits(c)'
    BY <2>1, <2>2, <2>3, <2>4 DEF CallFits, RowOps, Succeeded
  <2> QED
    BY <1>d, <2>1, <2>5
<1> QED
  BY <1>1, <1>2, <1>3, <1>4, <1>5, <1>6, <1>7, <1>8 DEF Step, Opened

\* AlertIsTrue, and the comment said to be deleted is one.
AlertFits ==
    ui.alertMsg # None =>
        IF ui.alertMsg.says = "deleted"
        THEN ui.alertMsg.id \in Ids /\ table[ui.alertMsg.id] = None
        ELSE ui.alertMsg.upToDate => ui.alertMsg.says = ui.alertMsg.did

LEMMA MessageFits ==
    ASSUME NEW c, c.then \in RowOps, c.then = "rowToggle" => Obeyed(c, c.did)
    PROVE  IF Message(c).says = "deleted" THEN c.then = "rowDelete" /\ Message(c).id = c.id
           ELSE Message(c).upToDate => Message(c).says = Message(c).did
<1>1. CASE c.then = "rowDelete"
  BY <1>1 DEF Message
<1>2. CASE c.then = "rowToggle"
  <2>1. Message(c).says = Word(~c.was.approved) /\ Message(c).did = Word(c.did.approved)
        /\ Message(c).upToDate = (c.was.ver = c.did.over)
    BY <1>2 DEF Message
  <2>2. Word(~c.was.approved) # "deleted"
    BY DEF Word
  <2>3. c.was.ver = c.did.over => Word(~c.was.approved) = Word(c.did.approved)
    BY <1>2 DEF Obeyed, Word
  <2> QED
    BY <2>1, <2>2, <2>3
<1> QED
  BY <1>1, <1>2 DEF RowOps

LEMMA AlertStands == Stores /\ Numbered /\ RowsFit /\ AlertFits /\ Step => AlertFits'
<1> SUFFICES ASSUME Stores, Numbered, RowsFit, AlertFits, Step PROVE AlertFits'
  OBVIOUS
<1>a. \A id \in Ids : table[id] = None => table'[id] = None
  BY FitsStand, StepMovesTable DEF RowsFit
<1>b. ui'.alertMsg = ui.alertMsg \/ ui'.alertMsg = None => AlertFits'
  BY <1>a DEF AlertFits, Ids
<1>c. \A c \in calls : CallFits(c)
  BY DEF RowsFit, CallFits
<1>1. ASSUME NEW c, NEW a, Replied(c, a) PROVE AlertFits'
  BY <1>1, <1>b DEF Replied
<1>2. ASSUME NEW d, Holding(d), Dropped(d), ListTaken(d) PROVE AlertFits'
  <2>1. CASE d.then = None
    BY <1>2, <1>b, <2>1 DEF ListTaken
  <2>2. CASE d.then # None /\ ui'.alertMsg = Message(d)
    <3>1. PICK c \in calls : /\ c.op = d.op /\ c.id = d.id /\ c.then = d.then /\ c.was = d.was
                             /\ c.did = d.did
      BY <1>2 DEF Holding
    <3>2. d.then \in RowOps /\ d.op = "list"
      BY <1>2, <2>2 DEF Holding, ListTaken, RowOps
    <3>3. /\ d.then = "rowToggle" => Obeyed(d, d.did)
          /\ d.then = "rowDelete" => d.id \in Ids /\ table[d.id] = None
      BY <1>c, <3>1, <3>2 DEF CallFits, Obeyed
    <3>4. IF Message(d).says = "deleted" THEN d.then = "rowDelete" /\ Message(d).id = d.id
          ELSE Message(d).upToDate => Message(d).says = Message(d).did
      BY <3>2, <3>3, MessageFits
    <3> QED
      BY <1>a, <2>2, <3>3, <3>4 DEF AlertFits, Ids
  <2> QED
    BY <1>2, <1>b, <2>1, <2>2 DEF ListTaken
<1>3. ASSUME NEW d, Holding(d), Dropped(d), OtherTaken(d) PROVE AlertFits'
  <2>1. ASSUME d.op = "getDelete", Succeeded(d), ui'.alertMsg.says = "deleted",
               ui'.alertMsg.id = d.id
        PROVE  AlertFits'
    <3>1. d \in calls
      BY <1>3, <2>1 DEF Holding
    <3>2. d.id \in Ids /\ table[d.id] = None
      BY <1>c, <2>1, <3>1 DEF CallFits
    <3> QED
      BY <1>a, <2>1, <3>2 DEF AlertFits, Ids
  <2> QED
    BY <1>3, <1>b, <2>1 DEF OtherTaken
<1>4. ASSUME NEW d, NEW c, Relisted(d, c) PROVE AlertFits'
  BY <1>4, <1>b DEF Relisted
<1>5. ASSUME NEW c, ListAsked(c) \/ OtherAsked(c) \/ RowAsked(c) \/ Loaded(c) PROVE AlertFits'
  BY <1>5, <1>b DEF ListAsked, OtherAsked, RowAsked, Loaded, Blank
<1>6. CASE Opened \/ UNCHANGED ui
  BY <1>6, <1>b DEF Opened
<1> QED
  BY <1>1, <1>2, <1>3, <1>4, <1>5, <1>6 DEF Step

-----------------------------------------------------------------------------
(* The theorems.                                                             *)

Inv == Stores /\ Numbered /\ BusyHasCall /\ Settled /\ ListsFollow /\ RowsFit /\ AlertFits

LEMMA Starts == Init => Inv
<1> SUFFICES ASSUME Init PROVE Inv
  OBVIOUS
<1> DEFINE c == [Call("verify", None, None) EXCEPT !.no = 1]
<1>1. /\ DOMAIN c = Fields /\ c.no = 1 /\ c.op = "verify" /\ c.then = None
      /\ c.answer.status = "none"
  BY DEF Call, Fields
<1> HIDE DEF c
<1>2. /\ ui = Blank /\ seen = Unlisted /\ sent = 1 /\ calls = {c}
      /\ table \in [Ids -> BOOLEAN] /\ version = 0 /\ changed = [id \in Ids |-> 0]
  BY DEF Init, c
<1>3. Stores
  BY <1>2 DEF Stores
<1>4. Numbered
  BY <1>1, <1>2 DEF Numbered, Unlisted, Fields
<1>5. BusyHasCall /\ Settled /\ AlertFits
  BY <1>2 DEF BusyHasCall, Settled, AlertFits, Blank
<1>6. ListsFollow
  BY <1>1, <1>2 DEF ListsFollow, InOrder, Unlisted, Succeeded
<1>7. RowsFit
  BY <1>1, <1>2, NoneAssumption DEF RowsFit, Blank, Succeeded, Ops
<1> QED
  BY <1>3, <1>4, <1>5, <1>6, <1>7 DEF Inv

\* The strengthened invariant holds throughout: calls keep their numbers, rows
\* fit or are outdated, lists follow what buttons were told.
THEOREM Inductive == Spec => []Inv
<1>1. Inv /\ [Next]_vars => Inv'
  BY Kinds, StoresStand, NumberedStands, BusyStands, SettledStands, ListsStand, RowsStand,
     AlertStands DEF Inv
<1> QED
  BY <1>1, Starts, PTL DEF Spec

\* No answer, late, lost or refused, leaves the page busy (admin.html: the
\* finally blocks, and the one ID that marks a busy row).
THEOREM BusyHasCallHolds == Spec => []BusyHasCall
<1>1. Inv => BusyHasCall
  BY DEF Inv
<1> QED
  BY <1>1, Inductive, PTL

\* The pager and the rows are of one answer (admin.html:357).
THEOREM PagerMatchesRowsHolds == Spec => []PagerMatchesRows
<1>1. Inv => PagerMatchesRows
  BY DEF Inv, PagerMatchesRows, Settled, Quiet, At
<1> QED
  BY <1>1, Inductive, PTL

\* A list at rest shows what the rows' buttons had been told when it was asked for,
\* in whatever order the answers came, and all they were told if it is the list
\* asked for last (admin.html:357, 426-461).
THEOREM OwnWritesShowHolds == Spec => []OwnWritesShow
<1>1. Inv => OwnWritesShow
  BY DEF Inv, OwnWritesShow, ListsFollow
<1> QED
  BY <1>1, Inductive, PTL

\* The message over the list is true, or the row had changed since it was listed:
\* by another admin, or by an earlier click on this very page (admin.html:439).
THEOREM AlertIsTrueHolds == Spec => []AlertIsTrue
<1>1. Inv => AlertIsTrue
  BY DEF Inv, AlertIsTrue, AlertFits
<1> QED
  BY <1>1, Inductive, PTL

-----------------------------------------------------------------------------
(* Types.  A page has at most PerPage rows because positions are all         *)
(* different, and fetches are counted by clicks.                             *)

Tables ==
    /\ table \in [Ids -> BOOLEAN \cup {None}]
    /\ version \in Versions /\ changed \in [Ids -> Versions]

LEMMA StoredFacts ==
    /\ Stored \subseteq Ids /\ IsFiniteSet(Stored)
    /\ Cardinality(Stored) \in 0 .. MaxId
    /\ \A id \in Ids : id \in Nat
<1>1. IsFiniteSet(Ids) /\ Cardinality(Ids) = MaxId
  <2>1. 1 \in Int /\ MaxId \in Int
    BY BoundsAssumption
  <2>2. IsFiniteSet(1 .. MaxId)
        /\ Cardinality(1 .. MaxId) = IF 1 > MaxId THEN 0 ELSE MaxId - 1 + 1
    BY <2>1, FS_Interval, Zenon
  <2> QED
    BY <2>2, BoundsAssumption DEF Ids
<1>2. Stored \subseteq Ids
  BY DEF Stored
<1>3. IsFiniteSet(Stored) /\ Cardinality(Stored) <= Cardinality(Ids)
  BY <1>1, <1>2, FS_Subset
<1>4. Cardinality(Stored) \in Nat
  BY <1>3, FS_CardinalityType
<1> QED
  BY <1>1, <1>2, <1>3, <1>4, BoundsAssumption DEF Ids

LEMMA PositionInjective ==
    /\ \A i \in Stored : Position(i) \in Nat
    /\ \A i, j \in Stored : Position(i) = Position(j) => i = j
<1> DEFINE Upto(i) == {other \in Stored : other >= i}
<1>1. ASSUME NEW i \in Stored
      PROVE  IsFiniteSet(Upto(i)) /\ Cardinality(Upto(i)) \in Nat
  BY StoredFacts, FS_Subset, FS_CardinalityType
<1>2. ASSUME NEW i \in Stored, NEW j \in Stored, Position(i) = Position(j), i < j
      PROVE  FALSE
  <2>1. Upto(j) \subseteq Upto(i) /\ i \in Upto(i) /\ i \notin Upto(j)
    BY <1>2, StoredFacts
  <2>2. Upto(j) = Upto(i)
    BY <1>1, <1>2, <2>1, FS_Subset DEF Position
  <2> QED
    BY <2>1, <2>2
<1>3. \A i, j \in Stored : i < j \/ j < i \/ i = j
  BY StoredFacts
<1> QED
  BY <1>1, <1>2, <1>3 DEF Position

LEMMA SliceFits ==
    ASSUME Tables, NEW page \in PageNumbers
    PROVE  Slice(page) \subseteq Rows /\ Cardinality(Slice(page)) <= PerPage
<1> DEFINE low == (page - 1) * PerPage
           rows == Slice(page)
           place == [row \in rows |-> Position(row.id)]
<1>1. page \in Nat \ {0} /\ PerPage \in Nat \ {0}
  BY BoundsAssumption DEF PageNumbers
<1>2. low \in Nat /\ page * PerPage = low + PerPage
  <2>1. \A k, n \in Nat : k # 0 => (k - 1) * n \in Nat /\ k * n = (k - 1) * n + n
    OBVIOUS
  <2> QED
    BY <1>1, <2>1
<1> HIDE DEF low
<1>3. ASSUME NEW row \in rows
      PROVE  /\ row.id \in Stored /\ row = RowOf(row.id) /\ row \in Rows
             /\ Position(row.id) \in low + 1 .. low + PerPage
  <2>1. PICK i \in Stored : /\ row = RowOf(i)
                            /\ low < Position(i) /\ Position(i) <= page * PerPage
    BY DEF Slice, low
  <2>2. row.id = i /\ row \in Rows
    BY <2>1 DEF RowOf, Rows, Stored, Tables
  <2> QED
    BY <1>1, <1>2, <2>1, <2>2, PositionInjective
<1>4. place \in Injection(rows, low + 1 .. low + PerPage)
  <2> HIDE DEF rows
  <2>1. place \in [rows -> low + 1 .. low + PerPage]
    BY <1>3
  <2>2. ASSUME NEW r \in rows, NEW q \in rows, place[r] = place[q] PROVE r = q
    BY <1>3, <2>2, PositionInjective
  <2> QED
    BY <2>1, <2>2 DEF Injection, IsInjective
<1>5. /\ IsFiniteSet(low + 1 .. low + PerPage)
      /\ Cardinality(low + 1 .. low + PerPage) = PerPage
  <2> DEFINE a == low + 1
             b == low + PerPage
  <2>1. a \in Int /\ b \in Int /\ b - a + 1 = PerPage /\ ~(a > b)
    BY <1>1, <1>2
  <2>2. IsFiniteSet(a .. b) /\ Cardinality(a .. b) = IF a > b THEN 0 ELSE b - a + 1
    <3> HIDE DEF a, b
    <3> QED
      BY <2>1, FS_Interval, Zenon
  <2> QED
    BY <2>1, <2>2
<1>6. Cardinality(rows) <= PerPage
  BY <1>4, <1>5, FS_Injection
<1> QED
  BY <1>3, <1>6

LEMMA TotalPagesFits == TotalPages \in 0 .. MaxId
<1>1. \A t \in Nat, n \in Nat \ {0} : (t + n - 1) \div n \in 0 .. t
  <2> SUFFICES ASSUME NEW t \in Nat, NEW n \in Nat \ {0}
               PROVE  (t + n - 1) \div n \in 0 .. t
    OBVIOUS
  <2> DEFINE P == (t + n - 1) \div n
             r == (t + n - 1) % n
  <2>1. P \in Int /\ r \in 0 .. n - 1 /\ t + n - 1 = n * P + r
    OBVIOUS
  <2> HIDE DEF P, r
  <2>2. P >= 0
    <3> SUFFICES ASSUME P <= -1 PROVE FALSE
      BY <2>1
    <3>1. n * P <= n * (-1) /\ n * (-1) = 0 - n
      BY <2>1
    <3> QED
      BY <2>1, <3>1
  <2>3. P <= t
    <3> SUFFICES ASSUME P >= t + 1 PROVE FALSE
      BY <2>1
    <3>1. n * P >= n * (t + 1)
      BY <2>1
    <3>2. n * (t + 1) = n * t + n /\ n * t >= t
      OBVIOUS
    <3> QED
      BY <2>1, <3>1, <3>2
  <2> QED
    BY <2>1, <2>2, <2>3 DEF P
<1> QED
  BY <1>1, StoredFacts, BoundsAssumption DEF TotalPages

\* The fields of the page, and a call with its answer.
UiTyped(u) ==
    /\ DOMAIN u = UiFields
    /\ u.authenticated \in BOOLEAN /\ u.error \in BOOLEAN /\ u.loading \in BOOLEAN
    /\ u.toggleInProgress \in BOOLEAN /\ u.deleteInProgress \in BOOLEAN
    /\ u.view \in Forms \cup {"list"}
    /\ u.listPage \in PageNumbers /\ u.listTotalPages \in 0 .. MaxId
    /\ u.listData \subseteq Rows /\ Cardinality(u.listData) <= PerPage
    /\ u.toggleInProgressID \in Ids \cup {None} /\ u.deleteInProgressID \in Ids \cup {None}
CallTyped(c) ==
    /\ c.op \in Ops /\ c.page \in PageNumbers
    /\ c.op = "list" /\ Succeeded(c) => IsPage(c.answer.data)
Shape == UiTyped(ui) /\ \A c \in calls : CallTyped(c)

LEMMA Singles == /\ 1 \in PageNumbers /\ 0 \in 0 .. MaxId /\ 0 <= PerPage /\ {} \subseteq Rows
                 /\ Cardinality({}) = 0
BY FS_EmptySet, BoundsAssumption DEF PageNumbers

LEMMA NewCallTyped ==
    ASSUME NEW o \in Ops, NEW i, NEW w
    PROVE  CallTyped(Call(o, i, w))
BY Singles DEF CallTyped, Call, Succeeded

LEMMA ClickedTyped ==
    ASSUME NEW u, UiTyped(u)
    PROVE  UiTyped(Cleared(u)) /\ UiTyped(Listing(u)) /\ CallTyped(ListCall(u))
<1>1. UiTyped(Cleared(u))
  BY DEF UiTyped, UiFields, Cleared
<1>2. UiTyped(Listing(u))
  BY DEF UiTyped, UiFields, Cleared, Listing
<1>3. CallTyped(ListCall(u))
  BY DEF UiTyped, ListCall, Call, CallTyped, Succeeded, Ops
<1> QED
  BY <1>1, <1>2, <1>3

LEMMA AnsweredTyped ==
    ASSUME NEW u, UiTyped(u), NEW c
    PROVE  UiTyped(Released(u, c)) /\ UiTyped(SignedOut(u)) /\ UiTyped(Refused(u, c))
<1>1. UiTyped(Released(u, c))
  BY DEF UiTyped, UiFields, Released
<1>2. UiTyped(SignedOut(u))
  BY Singles DEF UiTyped, UiFields, SignedOut, Forms
<1>3. UiTyped(Refused(u, c))
  BY <1>2 DEF UiTyped, UiFields, Refused
<1> QED
  BY <1>1, <1>2, <1>3

LEMMA UserShape == Shape /\ User => Shape'
<1> SUFFICES ASSUME Shape, User PROVE Shape'
  OBVIOUS
<1>0. UiTyped(ui) /\ \A c \in calls : CallTyped(c)
  BY DEF Shape
<1>a. ASSUME NEW u, UiTyped(u), SendList(u) PROVE Shape'
  BY <1>0, <1>a, ClickedTyped DEF SendList, Shape
<1>b. ASSUME NEW o \in Ops, NEW i, NEW w, NEW u, UiTyped(u), Send(Call(o, i, w), u)
      PROVE  Shape'
  BY <1>0, <1>b, NewCallTyped DEF Send, Shape
<1>1. CASE ListComments
  BY <1>0, <1>1, <1>a DEF ListComments
<1>2. CASE Previous
  <2>1. UiTyped([ui EXCEPT !.listPage = @ - 1])
    BY <1>0, <1>2, BoundsAssumption DEF Previous, UiTyped, UiFields, PageNumbers
  <2> QED
    BY <1>2, <2>1, <1>a DEF Previous
<1>3. CASE NextPage
  <2>1. UiTyped([ui EXCEPT !.listPage = @ + 1])
    BY <1>0, <1>3, BoundsAssumption DEF NextPage, UiTyped, UiFields, PageNumbers
  <2> QED
    BY <1>3, <2>1, <1>a DEF NextPage
<1>4. ASSUME NEW form \in Forms, OpenForm(form) PROVE Shape'
  BY <1>0, <1>4 DEF OpenForm, Shape, UiTyped, UiFields
<1>5. ASSUME NEW form \in Forms, NEW id \in Ids, SubmitForm(form, id) PROVE Shape'
  <2>1. UiTyped([Cleared(ui) EXCEPT !.result = None])
    BY <1>0, ClickedTyped DEF UiTyped, UiFields
  <2> QED
    BY <1>5, <2>1, <1>b DEF SubmitForm, Ops
<1>6. CASE ToggleApprovalForFetched
  <2>1. UiTyped([Cleared(ui) EXCEPT !.toggleInProgress = TRUE])
    BY <1>0, ClickedTyped DEF UiTyped, UiFields
  <2> QED
    BY <1>6, <2>1, <1>b DEF ToggleApprovalForFetched, Ops
<1>7. CASE DeleteFetchedComment
  <2>1. UiTyped([Cleared(ui) EXCEPT !.deleteInProgress = TRUE])
    BY <1>0, ClickedTyped DEF UiTyped, UiFields
  <2> QED
    BY <1>7, <2>1, <1>b DEF DeleteFetchedComment, Ops
<1>8. ASSUME NEW item \in ui.listData, ToggleApprovalForList(item) PROVE Shape'
  <2>1. item.id \in Ids
    BY <1>0 DEF UiTyped, Rows
  <2>2. UiTyped([Cleared(ui) EXCEPT !.toggleInProgressID = item.id])
    BY <1>0, <2>1, ClickedTyped DEF UiTyped, UiFields
  <2> QED
    BY <1>8, <2>2, <1>b DEF ToggleApprovalForList, Ops
<1>9. ASSUME NEW item \in ui.listData, DeleteCommentForList(item) PROVE Shape'
  <2>1. item.id \in Ids
    BY <1>0 DEF UiTyped, Rows
  <2>2. UiTyped([Cleared(ui) EXCEPT !.deleteInProgressID = item.id])
    BY <1>0, <2>1, ClickedTyped DEF UiTyped, UiFields
  <2> QED
    BY <1>9, <2>2, <1>b DEF DeleteCommentForList, Ops
<1>10. CASE Login \/ Logout
  BY <1>0, <1>10, <1>b, ClickedTyped DEF Login, Logout, Ops
<1>11. CASE Reload
  BY <1>11, Singles, NewCallTyped DEF Reload, Shape, UiTyped, UiFields, Blank, Forms, Ops
<1> QED
  BY <1>1, <1>2, <1>3, <1>4, <1>5, <1>6, <1>7, <1>8, <1>9, <1>10, <1>11 DEF User

LEMMA ServerShape ==
    ASSUME Shape, Numbered, Tables, NEW c \in calls,
           Serve(c) \/ ServeLogin(c) \/ ServeLogout(c) \/ Unauthorized(c)
    PROVE  Shape'
<1>0. CallTyped(c) /\ UiTyped(ui) /\ DOMAIN c = Fields
  BY DEF Shape, Numbered, Fields
<1>1. ASSUME NEW a, Reply(c, a),
             c.op = "list" /\ a.status = "ok" =>
                /\ a.data.rows = Slice(c.page) /\ a.data.page = c.page
                /\ a.data.pages = TotalPages
      PROVE  Shape'
  <2> DEFINE e == [c EXCEPT !.answer = a]
  <2>1. e.op = c.op /\ e.page = c.page /\ e.answer = a
    BY <1>0 DEF Fields
  <2>2. calls' = (calls \ {c}) \cup {e} /\ ui' = ui
    BY <1>1 DEF Reply
  <2> HIDE DEF e
  <2>3. CallTyped(e)
    BY <1>0, <1>1, <2>1, SliceFits, TotalPagesFits DEF CallTyped, Succeeded, IsPage
  <2> QED
    BY <2>2, <2>3 DEF Shape
<1>2. CASE Serve(c) /\ c.op = "list"
  <2> DEFINE a == Ok([rows |-> Slice(c.page), page |-> c.page, pages |-> TotalPages,
                      ver |-> version])
  <2>1. /\ Reply(c, a)
        /\ a.data.rows = Slice(c.page) /\ a.data.page = c.page /\ a.data.pages = TotalPages
    BY <1>2 DEF Serve, Ok
  <2> HIDE DEF a
  <2> QED
    BY <2>1, <1>1
<1>3. CASE Serve(c) /\ c.op # "list"
  <2>1. \E a : Reply(c, a)
    BY <1>3 DEF Serve
  <2> QED
    BY <1>3, <2>1, <1>1
<1>4. CASE ServeLogin(c) \/ ServeLogout(c)
  <2>1. Reply(c, Ok(None)) /\ c.op # "list"
    BY <1>4 DEF ServeLogin, ServeLogout
  <2> QED
    BY <2>1, <1>1
<1>5. CASE Unauthorized(c)
  <2>1. Reply(c, [status |-> "401"])
    BY <1>5 DEF Unauthorized
  <2> QED
    BY <2>1, <1>1
<1> QED
  BY <1>2, <1>3, <1>4, <1>5

LEMMA ResumeShape ==
    ASSUME Shape, NEW d, Holding(d), Resume(d)
    PROVE  Shape'
<1>0. UiTyped(ui) /\ \A c \in calls : CallTyped(c)
  BY DEF Shape
<1>a. ASSUME NEW u, UiTyped(u), Take(d, u) PROVE Shape'
  BY <1>0, <1>a DEF Take, Shape
<1>1. CASE TakeFailure(d)
  BY <1>0, <1>1, <1>a, AnsweredTyped DEF TakeFailure
<1>2. CASE TakeList(d)
  <2> DEFINE u == IF Succeeded(d) THEN Filled(ui, d.answer.data) ELSE Refused(ui, d)
             r == Released(u, d)
  <2>1. UiTyped(u)
    <3>1. CASE Succeeded(d)
      <4>1. CallTyped(d) /\ d.op = "list"
        BY <1>0, <1>2, <3>1 DEF Holding, TakeList
      <4>2. UiTyped(Filled(ui, d.answer.data))
        BY <1>0, <3>1, <4>1 DEF CallTyped, IsPage, UiTyped, UiFields, Filled
      <4> QED
        BY <3>1, <4>2
    <3>2. CASE ~Succeeded(d)
      BY <1>0, <3>2, AnsweredTyped
    <3> QED
      BY <3>1, <3>2
  <2>2. UiTyped(r)
    BY <2>1, AnsweredTyped
  <2>3. Take(d, IF d.then = None THEN r ELSE [r EXCEPT !.alertMsg = Message(d)])
    BY <1>2 DEF TakeList
  <2> HIDE DEF r
  <2>4. UiTyped([r EXCEPT !.alertMsg = Message(d)])
    BY <2>2 DEF UiTyped, UiFields
  <2> QED
    BY <2>2, <2>3, <2>4, <1>a
<1>3. CASE TakeRow(d)
  <2> DEFINE l == ListCall(ui)
             c == [l EXCEPT !.id = d.id, !.was = d.was, !.then = d.op, !.did = d.answer.data,
                            !.told = seen'.told]
  <2>1. DOMAIN l = Fields /\ l.op = "list" /\ l.page = ui.listPage /\ l.answer.status = "none"
    BY DEF ListCall, Call, Fields
  <2>2. ui' = Listing(ui) /\ calls' \subseteq calls \cup {c}
    BY <1>3 DEF TakeRow
  <2> HIDE DEF l
  <2>3. c.op = "list" /\ c.page = ui.listPage /\ c.answer.status = "none"
    BY <2>1 DEF Fields
  <2> HIDE DEF c
  <2>4. CallTyped(c)
    BY <1>0, <2>3 DEF CallTyped, UiTyped, Succeeded, Ops
  <2> QED
    BY <1>0, <2>2, <2>4, ClickedTyped DEF Shape
<1>4. CASE TakeResult(d)
  <2> DEFINE r == Released(ui, d)
  <2>1. UiTyped(r)
    BY <1>0, AnsweredTyped
  <2>2. \/ Take(d, [r EXCEPT !.result = [kind |-> "get", id |-> d.id]])
        \/ Take(d, [ui EXCEPT !.result = [kind |-> d.op]])
        \/ Take(d, [r EXCEPT !.result = None,
                             !.alertMsg = [id |-> d.id, says |-> "deleted",
                                           did |-> "rejected", upToDate |-> TRUE]])
    BY <1>4 DEF TakeResult
  <2> HIDE DEF r
  <2>3. /\ UiTyped([r EXCEPT !.result = [kind |-> "get", id |-> d.id]])
        /\ UiTyped([ui EXCEPT !.result = [kind |-> d.op]])
        /\ UiTyped([r EXCEPT !.result = None,
                             !.alertMsg = [id |-> d.id, says |-> "deleted",
                                           did |-> "rejected", upToDate |-> TRUE]])
    BY <1>0, <2>1 DEF UiTyped, UiFields
  <2> QED
    BY <2>2, <2>3, <1>a
<1>5. CASE TakeSession(d)
  <2>1. \/ Take(d, [ui EXCEPT !.authenticated = @ \/ Succeeded(d)])
        \/ Take(d, [ui EXCEPT !.authenticated = @ \/ Succeeded(d), !.error = ~Succeeded(d)])
        \/ Take(d, SignedOut(ui))
    BY <1>5 DEF TakeSession
  <2>2. /\ UiTyped([ui EXCEPT !.authenticated = @ \/ Succeeded(d)])
        /\ UiTyped([ui EXCEPT !.authenticated = @ \/ Succeeded(d), !.error = ~Succeeded(d)])
        /\ UiTyped(SignedOut(ui))
    BY <1>0, AnsweredTyped DEF UiTyped, UiFields
  <2> QED
    BY <2>1, <2>2, <1>a
<1> QED
  BY <1>1, <1>2, <1>3, <1>4, <1>5 DEF Resume

\* Who changes the table, and who clicks.
LEMMA TablesStand == Tables /\ TableSteps => Tables'
<1> SUFFICES ASSUME Tables, TableSteps PROVE Tables'
  OBVIOUS
<1>1. CASE TableStands
  BY <1>1 DEF TableStands, Tables
<1>2. ASSUME NEW id \in Ids, NEW value \in BOOLEAN \cup {None}, Change(id, value)
      PROVE  Tables'
  BY <1>2, BoundsAssumption DEF Change, Tables, Versions
<1> QED
  BY <1>1, <1>2 DEF TableSteps

Pending == {c \in calls : c.op \in RowOps}

LEMMA CountsStand ==
    ASSUME FetchesCounted, sent \in Nat, clicks \in Nat, IsFiniteSet(calls'),
           NEW k \in {0, 1}, clicks' = clicks + k, Cardinality(Pending') \in Nat,
           \/ sent' = sent /\ Cardinality(Pending') <= Cardinality(Pending)
           \/ sent' = sent + 1 /\ Cardinality(Pending') <= Cardinality(Pending) + 2 * k - 1
    PROVE  FetchesCounted'
<1>1. IsFiniteSet(Pending)
  BY FS_Subset DEF FetchesCounted, Pending
<1>2. /\ Cardinality(Pending) \in Nat /\ sent + Cardinality(Pending) <= 2 * clicks + 1
  BY <1>1, FS_CardinalityType DEF FetchesCounted, Pending, RowOps
<1>3. sent' + Cardinality(Pending') <= 2 * clicks' + 1
  BY <1>2
<1> QED
  BY <1>3 DEF FetchesCounted, Pending, RowOps

LEMMA UserCounts == Numbered /\ clicks \in Nat /\ FetchesCounted /\ User => FetchesCounted'
<1> SUFFICES ASSUME Numbered, clicks \in Nat, FetchesCounted, User PROVE FetchesCounted'
  OBVIOUS
<1>0. sent \in Nat /\ IsFiniteSet(calls) /\ IsFiniteSet(Pending) /\ Cardinality(Pending) \in Nat
  BY FS_Subset, FS_CardinalityType DEF Numbered, FetchesCounted, Pending
<1>1. clicks' = clicks + 1
  BY DEF User, ListComments, Previous, NextPage, Pager, OpenForm, SubmitForm,
     ToggleApprovalForFetched, DeleteFetchedComment, ToggleApprovalForList,
     DeleteCommentForList, Login, Logout, Reload, Click
<1>2. ASSUME NEW c, calls' = calls \cup {c}, sent' = sent + 1 PROVE FetchesCounted'
  <2>1. IsFiniteSet(calls')
    BY <1>0, <1>2, FS_AddElement
  <2>2. /\ IsFiniteSet(Pending \cup {c})
        /\ Cardinality(Pending \cup {c}) <= Cardinality(Pending) + 1
        /\ Cardinality(Pending \cup {c}) \in Nat
    BY <1>0, FS_AddElement, FS_CardinalityType
  <2>3. Pending' \subseteq Pending \cup {c}
    BY <1>2 DEF Pending
  <2>4. Cardinality(Pending') <= Cardinality(Pending) + 1 /\ Cardinality(Pending') \in Nat
    <3>1. /\ IsFiniteSet(Pending') /\ Cardinality(Pending') <= Cardinality(Pending \cup {c})
      BY <2>2, <2>3, FS_Subset
    <3>2. Cardinality(Pending') \in Nat
      BY <3>1, FS_CardinalityType
    <3> QED
      BY <1>0, <2>2, <3>1, <3>2
  <2> QED
    BY <1>0, <1>1, <1>2, <2>1, <2>4, CountsStand
<1>3. ASSUME NEW c, Loaded(c) PROVE FetchesCounted'
  <2>1. calls' = {c} /\ sent' = sent + 1 /\ Pending' = {}
    BY <1>3 DEF Loaded, Pending, RowOps
  <2>2. IsFiniteSet(calls') /\ Cardinality(Pending') = 0
    <3>1. IsFiniteSet({} \cup {c}) /\ Cardinality({}) = 0
      BY FS_EmptySet, FS_AddElement
    <3>2. {} \cup {c} = {c}
      OBVIOUS
    <3> QED
      BY <2>1, <3>1, <3>2
  <2> QED
    BY <1>0, <1>1, <2>1, <2>2, CountsStand
<1>4. CASE Opened
  <2>1. calls' = calls /\ sent' = sent /\ Pending' = Pending
    BY <1>4 DEF Opened, Pending
  <2> QED
    BY <1>0, <1>1, <2>1, CountsStand
<1> QED
  BY <1>2, <1>3, <1>4, UserKinds DEF ListAsked, OtherAsked, RowAsked, Asks

LEMMA OthersCount ==
    ASSUME Numbered, clicks \in Nat, FetchesCounted, clicks' = clicks,
           \/ \E c, a : Replied(c, a)
           \/ \E d : Holding(d) /\ Dropped(d)
           \/ \E d, c : Holding(d) /\ Relisted(d, c)
           \/ UNCHANGED <<calls, sent>>
    PROVE  FetchesCounted'
<1>0. sent \in Nat /\ IsFiniteSet(calls) /\ IsFiniteSet(Pending) /\ Cardinality(Pending) \in Nat
  BY FS_Subset, FS_CardinalityType DEF Numbered, FetchesCounted, Pending
<1>a. ASSUME IsFiniteSet(calls'), NEW S, IsFiniteSet(S), Pending' \subseteq S,
             \/ sent' = sent /\ Cardinality(S) <= Cardinality(Pending)
             \/ sent' = sent + 1 /\ Cardinality(S) <= Cardinality(Pending) - 1
      PROVE  FetchesCounted'
  <2>1. IsFiniteSet(Pending') /\ Cardinality(Pending') <= Cardinality(S)
    BY <1>a, FS_Subset
  <2>2. Cardinality(Pending') \in Nat /\ Cardinality(S) \in Nat
    BY <1>a, <2>1, FS_CardinalityType
  <2> QED
    BY <1>0, <1>a, <2>1, <2>2, CountsStand
<1>1. ASSUME NEW c, NEW a, Replied(c, a) PROVE FetchesCounted'
  <2> DEFINE e == [c EXCEPT !.answer = a]
  <2>1. /\ c \in calls /\ calls' = (calls \ {c}) \cup {e} /\ sent' = sent
        /\ e.op = c.op
    BY <1>1 DEF Replied, Numbered
  <2> HIDE DEF e
  <2>2. IsFiniteSet(calls \ {c}) /\ IsFiniteSet(calls')
    BY <1>0, <2>1, FS_RemoveElement, FS_AddElement
  <2>3. CASE c \in Pending
    <3>1. /\ IsFiniteSet(Pending \ {c})
          /\ Cardinality(Pending \ {c}) = Cardinality(Pending) - 1
      BY <1>0, <2>3, FS_RemoveElement
    <3>2. /\ IsFiniteSet((Pending \ {c}) \cup {e})
          /\ Cardinality((Pending \ {c}) \cup {e}) <= Cardinality(Pending)
      BY <1>0, <3>1, FS_AddElement
    <3>3. Pending' \subseteq (Pending \ {c}) \cup {e}
      BY <2>1 DEF Pending
    <3> QED
      BY <1>a, <2>1, <2>2, <3>2, <3>3
  <2>4. CASE c \notin Pending
    <3>1. Pending' \subseteq Pending
      BY <2>1, <2>4 DEF Pending
    <3> QED
      BY <1>0, <1>a, <2>1, <2>2, <3>1
  <2> QED
    BY <2>3, <2>4
<1>2. ASSUME NEW d, Dropped(d) PROVE FetchesCounted'
  <2>1. calls' \subseteq calls /\ sent' = sent /\ Pending' \subseteq Pending
    BY <1>2 DEF Dropped, Pending
  <2>2. IsFiniteSet(calls')
    BY <1>0, <2>1, FS_Subset
  <2> QED
    BY <1>0, <1>a, <2>1, <2>2
<1>3. ASSUME NEW d, NEW c, Holding(d), Relisted(d, c) PROVE FetchesCounted'
  <2>1. /\ d \in Pending /\ sent' = sent + 1
        /\ calls' = {x \in calls : x.no # d.no} \cup {c} /\ c.op = "list"
    BY <1>3 DEF Holding, Relisted, Pending
  <2>2. Pending' \subseteq Pending \ {d}
    BY <2>1 DEF Pending, RowOps
  <2>3. IsFiniteSet(calls')
    <3>1. IsFiniteSet({x \in calls : x.no # d.no})
      BY <1>0, FS_Subset
    <3> QED
      BY <2>1, <3>1, FS_AddElement
  <2>4. /\ IsFiniteSet(Pending \ {d})
        /\ Cardinality(Pending \ {d}) = Cardinality(Pending) - 1
    BY <1>0, <2>1, FS_RemoveElement
  <2> QED
    BY <1>0, <1>a, <2>1, <2>2, <2>3, <2>4
<1>4. CASE UNCHANGED <<calls, sent>>
  <2>1. Pending' = Pending
    BY <1>4 DEF Pending
  <2> QED
    BY <1>0, <1>a, <1>4, <2>1
<1> QED
  BY <1>1, <1>2, <1>3, <1>4

Typed ==
    /\ Shape /\ Tables /\ FetchesCounted
    /\ clicks \in 0 .. MaxClicks /\ session \in BOOLEAN

LEMMA StartsTyped == Init => Typed
<1> SUFFICES ASSUME Init PROVE Typed
  OBVIOUS
<1> DEFINE c == [Call("verify", None, None) EXCEPT !.no = 1]
<1>1. c.op = "verify" /\ c.page = 1 /\ c.answer.status = "none"
  BY DEF Call
<1>2. ui = Blank /\ sent = 1 /\ clicks = 0 /\ calls = {c} /\ session \in BOOLEAN
  BY DEF Init
<1> HIDE DEF c
<1>3. Shape
  <2>1. CallTyped(c)
    BY <1>1, Singles DEF CallTyped, Ops
  <2>2. UiTyped(ui)
    BY <1>2, Singles DEF UiTyped, UiFields, Blank, Forms
  <2> QED
    BY <1>2, <2>1, <2>2 DEF Shape
<1>4. Tables
  BY BoundsAssumption DEF Init, Tables, Versions
<1>5. FetchesCounted
  <2>1. IsFiniteSet({} \cup {c}) /\ Cardinality({}) = 0
    BY FS_EmptySet, FS_AddElement
  <2>2. calls = {} \cup {c} /\ {x \in calls : x.op \in {"rowToggle", "rowDelete"}} = {}
    BY <1>1, <1>2
  <2> QED
    BY <1>2, <2>1, <2>2 DEF FetchesCounted
<1> QED
  BY <1>2, <1>3, <1>4, <1>5, BoundsAssumption DEF Typed

LEMMA TypedStands == Numbered /\ Typed /\ [Next]_vars => Typed'
<1> SUFFICES ASSUME Numbered, Typed, [Next]_vars PROVE Typed'
  OBVIOUS
<1>0. /\ Shape /\ Tables /\ FetchesCounted /\ clicks \in Nat /\ Stores
      /\ clicks \in 0 .. MaxClicks /\ session \in BOOLEAN
  <2>1. Stores
    BY BoundsAssumption DEF Typed, Tables, Stores, Versions
  <2> QED
    BY <2>1, BoundsAssumption DEF Typed
<1>1. CASE UNCHANGED vars
  <2>1. Shape' /\ Tables' /\ FetchesCounted'
    BY <1>0, <1>1 DEF vars, server, Shape, Tables, FetchesCounted
  <2> QED
    BY <1>0, <1>1, <2>1 DEF vars, server, Typed
<1>2. CASE User
  <2>1. clicks' = clicks + 1 /\ clicks < MaxClicks
    BY <1>2 DEF User, ListComments, Previous, NextPage, Pager, OpenForm, SubmitForm,
       ToggleApprovalForFetched, DeleteFetchedComment, ToggleApprovalForList,
       DeleteCommentForList, Login, Logout, Reload, Click
  <2>2. Tables' /\ session' \in BOOLEAN
    BY <1>0, <1>2, UserKinds DEF server, Tables
  <2>3. clicks' \in 0 .. MaxClicks
    BY <1>0, <2>1, BoundsAssumption
  <2> QED
    BY <1>0, <1>2, <2>2, <2>3, UserShape, UserCounts DEF Typed
<1>3. ASSUME NEW c \in calls, Serve(c) \/ ServeLogin(c) \/ ServeLogout(c) \/ Unauthorized(c)
      PROVE  Typed'
  <2>1. PICK a : Replied(c, a)
    BY <1>0, <1>3, ServerKinds DEF Stores
  <2>2. clicks' = clicks /\ session' \in BOOLEAN
    BY <1>0, <1>3 DEF Serve, ServeLogin, ServeLogout, Unauthorized, Reply, server
  <2>3. Tables'
    BY <1>0, <2>1, TablesStand DEF Replied
  <2>4. FetchesCounted'
    BY <1>0, <2>1, <2>2, OthersCount
  <2> QED
    BY <1>0, <1>3, <2>2, <2>3, <2>4, ServerShape DEF Typed
<1>4. ASSUME NEW c \in calls, Settle(c) \/ Fail(c) PROVE Typed'
  <2>1. PICK d : Holding(d) /\ Resume(d)
    BY <1>4, TakenUp
  <2>2. UNCHANGED <<clicks, session, table, version, changed>>
    BY <2>1 DEF Resume, TakeFailure, TakeList, TakeRow, TakeResult, TakeSession, Take, server
  <2>3. Dropped(d) \/ \E e : Relisted(d, e)
    BY <2>1, FailureKind, ListKind, RowKind, ResultKind DEF Resume
  <2>4. FetchesCounted'
    BY <1>0, <2>1, <2>2, <2>3, OthersCount
  <2>5. Tables' /\ Shape'
    BY <1>0, <2>1, <2>2, ResumeShape DEF Tables
  <2> QED
    BY <1>0, <2>2, <2>4, <2>5 DEF Typed
<1>5. CASE Others \/ Expire
  <2>1. UNCHANGED <<ui, calls, sent, seen>> /\ TableSteps
    BY <1>0, <1>5, OtherKinds DEF Stores
  <2>2. clicks' = clicks /\ session' \in BOOLEAN
    BY <1>0, <1>5 DEF Others, Expire, Elsewhere
  <2>3. FetchesCounted'
    BY <1>0, <2>1, <2>2, OthersCount
  <2>4. Shape' /\ Tables'
    BY <1>0, <2>1, TablesStand DEF Shape
  <2> QED
    BY <1>0, <2>2, <2>3, <2>4 DEF Typed
<1> QED
  BY <1>1, <1>2, <1>3, <1>4, <1>5 DEF Next

\* The page never leaves its types: a list holds no more rows than a page has,
\* the pager stays on a page that can be (admin.html:345, repository.go: LIMIT),
\* and every click costs at most two fetches.
THEOREM TypeCorrect == Spec => []TypeOK
<1>1. Inv /\ Typed /\ [Next]_vars => Typed'
  BY TypedStands DEF Inv
<1>2. Inv /\ Typed => TypeOK
  <2> SUFFICES ASSUME Numbered, Typed PROVE TypeOK
    BY DEF Inv
  <2>1. sent \in CallNumbers
    <3>1. /\ IsFiniteSet(Pending) /\ sent \in Nat /\ clicks \in 0 .. MaxClicks
      BY FS_Subset DEF Typed, FetchesCounted, Pending, Numbered
    <3>2. Cardinality(Pending) \in Nat /\ sent + Cardinality(Pending) <= 2 * clicks + 1
      BY <3>1, FS_CardinalityType DEF Typed, FetchesCounted, Pending, RowOps
    <3> QED
      BY <3>1, <3>2, BoundsAssumption DEF CallNumbers
  <2>2. UiTyped(ui) /\ \A c \in calls : CallTyped(c)
    BY DEF Typed, Shape
  <2>3. {ui.authenticated, ui.error, ui.loading, ui.toggleInProgress,
         ui.deleteInProgress} \subseteq BOOLEAN
        /\ {ui.toggleInProgressID, ui.deleteInProgressID} \subseteq Ids \cup {None}
    BY <2>2 DEF UiTyped
  <2>4. \A c \in calls :
          /\ c.no \in 1 .. sent /\ c.op \in Ops /\ c.page \in PageNumbers
          /\ c.op = "list" /\ c.answer.status = "ok" => IsPage(c.answer.data)
    BY <2>2 DEF CallTyped, Numbered, Succeeded
  <2> QED
    BY <2>1, <2>2, <2>3, <2>4, BlankFacts DEF TypeOK, Typed, Tables, UiTyped
<1> QED
  BY <1>1, <1>2, StartsTyped, Inductive, PTL DEF Spec

=============================================================================
