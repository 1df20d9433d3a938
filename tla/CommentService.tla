--------------------------- MODULE CommentService ---------------------------
(***************************************************************************)
(* internal/service/comment_service.go over the comments table of          *)
(* internal/repository/comment_repository.go.  Every request runs in its   *)
(* own goroutine; each SQL statement is one step, and each may fail (the   *)
(* client went away and the request's context is cancelled, the database   *)
(* is busy) without having changed the table.  Writers hold the service's  *)
(* mutex from their first statement to their return; readers do not.       *)
(***************************************************************************)
EXTENDS Naturals

CONSTANTS
    Handlers,   \* goroutines serving requests
    MaxId,      \* largest rowid AUTOINCREMENT can hand out
    NoRow,      \* there is no row with this ID
    Free        \* the mutex is not held

Ids == 1 .. MaxId
Row == [named : BOOLEAN, approved : BOOLEAN]    \* named: display_id is set

ASSUME MaxIdAssumption == MaxId \in Nat \ {0}
ASSUME NoRowAssumption == NoRow \notin Row
ASSUME FreeAssumption == Free \notin Handlers

VARIABLES
    rows,       \* the comments table
    seq,        \* sqlite_sequence: the last ID AUTOINCREMENT handed out
    mu,         \* CommentService.mu: the goroutine that holds it, or Free
    pc,         \* where each goroutine is
    op,         \* the request it serves
    id,         \* the comment the request is about, 0 before Create has one
    want,       \* ToggleApproval's local newApproved
    reply,      \* the answer it is about to send
    mail,       \* the notification goroutine of each comment
    flips,      \* history: parity of the UPDATE approved statements per comment
    acked       \* history: IDs whose 201 was sent

table == <<rows, seq>>
request == <<op, id, want>>
vars == <<rows, seq, mu, pc, op, id, want, reply, mail, flips, acked>>

Ops == {"create", "toggle", "delete", "get", "adminGet"}
Codes == {"none", "CREATED", "OK", "CAPTCHA_FAILED", "NOT_FOUND", "INTERNAL_ERROR"}
Reply == [code : Codes, shown : Row \cup {NoRow}]
NoReply == [code |-> "none", shown |-> NoRow]

\* A comment as Create inserts it.
NewRow == [named |-> FALSE, approved |-> FALSE]

\* Where a goroutine is while it owns the mutex.
Critical == {"insert", "encode", "name", "reload", "find", "flip", "reread",
             "erase", "unlock"}
Labels == Critical \cup {"idle", "captcha", "lock", "select", "reply"}

Exists(i) == rows[i] # NoRow

Typed ==
    /\ rows \in [Ids -> Row \cup {NoRow}]
    /\ seq \in 0 .. MaxId
    /\ mu \in Handlers \cup {Free}
    /\ pc \in [Handlers -> Labels]
    /\ op \in [Handlers -> Ops \cup {"none"}]
    /\ id \in [Handlers -> 0 .. MaxId]
    /\ want \in [Handlers -> BOOLEAN]
    /\ reply \in [Handlers -> Reply]
    /\ mail \in [Ids -> {"none", "running", "over"}]
    /\ flips \in [Ids -> BOOLEAN]
    /\ acked \subseteq Ids

\* A statement about one comment names a comment: Create's ID is the one its
\* INSERT was given, whatever came between.
NamesComment ==
    \A h \in Handlers :
        pc[h] \in (Critical \cup {"select"}) \ {"insert", "unlock"} => id[h] \in Ids

TypeOK == Typed /\ NamesComment

-----------------------------------------------------------------------------

Init ==
    /\ mu = Free
    /\ pc = [h \in Handlers |-> "idle"]
    /\ op = [h \in Handlers |-> "none"]
    /\ id = [h \in Handlers |-> 0]
    /\ want = [h \in Handlers |-> FALSE]
    /\ reply = [h \in Handlers |-> NoReply]
    /\ rows = [i \in Ids |-> NoRow]
    /\ seq = 0
    /\ mail = [i \in Ids |-> "none"]
    /\ flips = [i \in Ids |-> FALSE]
    /\ acked = {}

Goto(h, label) == pc' = [pc EXCEPT ![h] = label]

Answer(h, code, row) ==
    reply' = [reply EXCEPT ![h] = [code |-> code, shown |-> row]]

\* An early return under the mutex: the deferred Unlock still runs (variant: an
\* explicit Unlock on the good path only).
RefuseHoldingMutex(h, code) ==
    /\ Goto(h, "reply")
    /\ Answer(h, code, NoRow)
    /\ UNCHANGED <<rows, seq, id, want, mail, flips>>
Refuse(h, code) ==
    /\ Goto(h, "unlock")
    /\ Answer(h, code, NoRow)
    /\ UNCHANGED <<rows, seq, id, want, mail, flips>>

\* Where a request starts (variant: ToggleApproval without s.mu.Lock()) and
\* where it goes on once it has the mutex.
FirstStepNoMutex(o) ==
    CASE o = "create" -> "captcha"
      [] o = "toggle" -> "find"
      [] o = "delete" -> "lock"
      [] OTHER -> "select"
FirstStep(o) ==
    CASE o = "create" -> "captcha"
      [] o \in {"toggle", "delete"} -> "lock"
      [] OTHER -> "select"
LockedStep(o) ==
    CASE o = "create" -> "insert" [] o = "toggle" -> "find" [] OTHER -> "erase"

\* A request reaches the service; the IDs of admins and readers are arbitrary.
Receive(h, o, i) ==
    /\ pc[h] = "idle"
    /\ op' = [op EXCEPT ![h] = o]
    /\ id' = [id EXCEPT ![h] = i]
    /\ Goto(h, FirstStep(o))
    /\ UNCHANGED <<table, mu, want, reply, mail, flips, acked>>

\* Create asks the captcha verifier before it takes the mutex.
VerifyCaptcha(h) ==
    /\ pc[h] = "captcha"
    /\ \/ Goto(h, "lock") /\ UNCHANGED reply
       \/ Goto(h, "reply") /\ Answer(h, "CAPTCHA_FAILED", NoRow)
    /\ UNCHANGED <<table, mu, request, mail, flips, acked>>

Lock(h) ==
    /\ pc[h] = "lock"
    /\ mu = Free
    /\ mu' = h
    /\ Goto(h, LockedStep(op[h]))
    /\ UNCHANGED <<table, request, reply, mail, flips, acked>>

\* deferred: runs after the answer is computed, before the handler writes it.
Unlock(h) ==
    /\ pc[h] = "unlock"
    /\ mu' = Free
    /\ Goto(h, "reply")
    /\ UNCHANGED <<table, request, reply, mail, flips, acked>>

-----------------------------------------------------------------------------
(* Create *)

\* The next rowid (variant: INTEGER PRIMARY KEY without AUTOINCREMENT).
NextIdNoAutoincrement ==
    LET used == {i \in Ids : Exists(i)}
    IN  IF used = {} THEN 1 ELSE 1 + CHOOSE i \in used : \A j \in used : j <= i
NextId == seq + 1

\* AUTOINCREMENT fails (SQLITE_FULL) once the largest rowid was used (variant:
\* the result of LastInsertId is not assigned).
InsertIdDropped(h) ==
    /\ pc[h] = "insert"
    /\ \/ /\ NextId <= MaxId
          /\ rows' = [rows EXCEPT ![NextId] = NewRow]
          /\ seq' = NextId
          /\ Goto(h, "encode")
          /\ UNCHANGED <<id, want, reply, mail, flips>>
       \/ Refuse(h, "INTERNAL_ERROR")
    /\ UNCHANGED <<mu, op, acked>>
Insert(h) ==
    /\ pc[h] = "insert"
    /\ \/ /\ NextId <= MaxId
          /\ rows' = [rows EXCEPT ![NextId] = NewRow]
          /\ seq' = NextId
          /\ id' = [id EXCEPT ![h] = NextId]
          /\ Goto(h, "encode")
          /\ UNCHANGED <<want, reply, mail, flips>>
       \/ Refuse(h, "INTERNAL_ERROR")
    /\ UNCHANGED <<mu, op, acked>>

\* sqids: no table access, but it can give up.
Generate(h) ==
    /\ pc[h] = "encode"
    /\ \/ Goto(h, "name") /\ UNCHANGED <<table, id, want, reply, mail, flips>>
       \/ Refuse(h, "INTERNAL_ERROR")
    /\ UNCHANGED <<mu, op, acked>>

\* Variant: a failed UPDATE is logged and the request goes on.
UpdateDisplayIDLogged(h) ==
    /\ pc[h] = "name"
    /\ Goto(h, "reload")
    /\ \/ Exists(id[h]) /\ rows' = [rows EXCEPT ![id[h]].named = TRUE]
       \/ UNCHANGED rows
    /\ UNCHANGED <<seq, mu, request, reply, mail, flips, acked>>
UpdateDisplayID(h) ==
    /\ pc[h] = "name"
    /\ \/ /\ Exists(id[h])
          /\ rows' = [rows EXCEPT ![id[h]].named = TRUE]
          /\ Goto(h, "reload")
          /\ UNCHANGED <<seq, id, want, reply, mail, flips>>
       \/ Refuse(h, "INTERNAL_ERROR")
    /\ UNCHANGED <<mu, op, acked>>

\* FindByID, then the notification goroutine is started and the row answered.
Reload(h) ==
    /\ pc[h] = "reload"
    /\ \/ /\ Exists(id[h])
          /\ mail' = [mail EXCEPT ![id[h]] = "running"]
          /\ Answer(h, "CREATED", rows[id[h]])
          /\ Goto(h, "unlock")
          /\ UNCHANGED <<table, id, want, flips>>
       \/ Refuse(h, "INTERNAL_ERROR")
    /\ UNCHANGED <<mu, op, acked>>

-----------------------------------------------------------------------------
(* ToggleApproval, Delete, GetByID, GetByIDUnrestricted *)

\* Any error of the first read counts as "not found".
Find(h) ==
    /\ pc[h] = "find"
    /\ \/ /\ Exists(id[h])
          /\ want' = [want EXCEPT ![h] = ~rows[id[h]].approved]
          /\ Goto(h, "flip")
          /\ UNCHANGED <<table, id, reply, mail, flips>>
       \/ Refuse(h, "NOT_FOUND")
    /\ UNCHANGED <<mu, op, acked>>

UpdateApproved(h) ==
    /\ pc[h] = "flip"
    /\ \/ /\ Exists(id[h])
          /\ rows' = [rows EXCEPT ![id[h]].approved = want[h]]
          /\ flips' = [flips EXCEPT ![id[h]] = ~@]
          /\ Goto(h, "reread")
          /\ UNCHANGED <<seq, id, want, reply, mail>>
       \/ Refuse(h, "INTERNAL_ERROR")
    /\ UNCHANGED <<mu, op, acked>>

\* The answer is the row read back, not the value written.
Reread(h) ==
    /\ pc[h] = "reread"
    /\ \/ /\ Exists(id[h])
          /\ Answer(h, "OK", rows[id[h]])
          /\ Goto(h, "unlock")
          /\ UNCHANGED <<table, id, want, mail, flips>>
       \/ Refuse(h, "INTERNAL_ERROR")
    /\ UNCHANGED <<mu, op, acked>>

\* No row affected and a failed statement get the same answer (variant: rows
\* affected not looked at).
DeleteUnchecked(h) ==
    /\ pc[h] = "erase"
    /\ rows' = [rows EXCEPT ![id[h]] = NoRow]
    /\ Answer(h, "OK", NoRow)
    /\ Goto(h, "unlock")
    /\ UNCHANGED <<seq, mu, request, mail, flips, acked>>
Delete(h) ==
    /\ pc[h] = "erase"
    /\ \/ /\ Exists(id[h])
          /\ rows' = [rows EXCEPT ![id[h]] = NoRow]
          /\ Answer(h, "OK", NoRow)
          /\ Goto(h, "unlock")
          /\ UNCHANGED <<seq, id, want, mail, flips>>
       \/ Refuse(h, "NOT_FOUND")
    /\ UNCHANGED <<mu, op, acked>>

\* WHERE approved = 1 for the public API, without it for the admin.
Selects(o, row) == row # NoRow /\ (o = "get" => row.approved)

\* One SELECT, no mutex; any error counts as "not found".
Get(h) ==
    /\ pc[h] = "select"
    /\ \/ Selects(op[h], rows[id[h]]) /\ Answer(h, "OK", rows[id[h]])
       \/ Answer(h, "NOT_FOUND", NoRow)
    /\ Goto(h, "reply")
    /\ UNCHANGED <<table, mu, request, mail, flips, acked>>

-----------------------------------------------------------------------------

Respond(h) ==
    /\ pc[h] = "reply"
    /\ acked' = IF reply[h].code = "CREATED" THEN acked \cup {id[h]} ELSE acked
    /\ Goto(h, "idle")
    /\ op' = [op EXCEPT ![h] = "none"]
    /\ id' = [id EXCEPT ![h] = 0]
    /\ want' = [want EXCEPT ![h] = FALSE]
    /\ reply' = [reply EXCEPT ![h] = NoReply]
    /\ UNCHANGED <<table, mu, mail, flips>>

\* emailNotifier.Send returned, with or without error: it is only logged.
MailEnds(i) ==
    /\ mail[i] = "running"
    /\ mail' = [mail EXCEPT ![i] = "over"]
    /\ UNCHANGED <<table, mu, pc, request, reply, flips, acked>>

\* The process dies and is started again: only the table survives.
Crash ==
    /\ mu' = Free
    /\ pc' = [h \in Handlers |-> "idle"]
    /\ op' = [h \in Handlers |-> "none"]
    /\ id' = [h \in Handlers |-> 0]
    /\ want' = [h \in Handlers |-> FALSE]
    /\ reply' = [h \in Handlers |-> NoReply]
    /\ mail' = [i \in Ids |-> IF mail[i] = "running" THEN "over" ELSE mail[i]]
    /\ UNCHANGED <<table, flips, acked>>

Arrive(h) ==
    \/ Receive(h, "create", 0)
    \/ \E o \in Ops \ {"create"}, i \in Ids : Receive(h, o, i)

Proceed(h) ==
    \/ VerifyCaptcha(h) \/ Unlock(h) \/ Respond(h)
    \/ Insert(h) \/ Generate(h) \/ UpdateDisplayID(h) \/ Reload(h)
    \/ Find(h) \/ UpdateApproved(h) \/ Reread(h) \/ Delete(h) \/ Get(h)

Next ==
    \/ \E h \in Handlers : Arrive(h) \/ Lock(h) \/ Proceed(h)
    \/ \E i \in Ids : MailEnds(i)
    \/ Crash

Spec == Init /\ [][Next]_vars

\* Statements end (busy_timeout), and Go's mutex passes itself to a goroutine
\* that has waited for more than a millisecond (starvation mode).
Fairness == \A h \in Handlers : WF_vars(Proceed(h)) /\ SF_vars(Lock(h))

LiveSpec == Spec /\ Fairness

-----------------------------------------------------------------------------
(* Properties *)

\* No toggle is lost: a comment is approved exactly if an odd number of
\* UPDATEs flipped it, however the read-modify-writes of ToggleApproval and the
\* other requests interleave.
NoLostToggle == \A i \in Ids : Exists(i) => rows[i].approved = flips[i]

\* A successful answer reports the caller's own write although the row is read
\* back by another statement: Create's comment has its display ID and is not
\* yet approved, ToggleApproval's is in the state this request gave it.
AnswersOwnWrite ==
    \A h \in Handlers :
        /\ reply[h].code = "CREATED" =>
               /\ reply[h].shown # NoRow
               /\ reply[h].shown.named /\ ~reply[h].shown.approved
        /\ reply[h].code = "OK" /\ op[h] = "toggle" =>
               /\ reply[h].shown # NoRow
               /\ reply[h].shown.approved = want[h]

\* A comment whose author was told 201 is complete for as long as it exists,
\* and the moderators' notification was started, even if the process crashed
\* right after.
AckedIsComplete ==
    \A i \in acked :
        /\ mail[i] # "none"
        /\ Exists(i) => rows[i].named

\* An ID that was handed out and whose row is gone never names a comment again:
\* the number in a notification mail or on an admin's screen cannot come to mean
\* somebody else's comment.
DeletedStaysDeleted ==
    [][\A i \in Ids : i <= seq /\ ~Exists(i) => ~Exists(i)']_vars

\* No request waits forever, for the mutex or otherwise, whatever fails.
EveryRequestAnswered ==
    \A h \in Handlers : pc[h] # "idle" ~> pc[h] = "idle"

-----------------------------------------------------------------------------
(* The inductive invariant: who owns the mutex, and what the owner knows of *)
(* its row from its earlier statements.                                     *)

OwnerInv == \A h \in Handlers : pc[h] \in Critical <=> mu = h

\* A goroutine is only at the points of its own operation, and knows its ID.
RequestInv ==
    \A h \in Handlers :
        /\ pc[h] \in {"captcha", "insert", "encode", "name", "reload"} =>
               op[h] = "create"
        /\ pc[h] \in {"find", "flip", "reread"} => op[h] = "toggle"
        /\ pc[h] = "erase" => op[h] = "delete"
        /\ pc[h] = "lock" => op[h] \in {"create", "toggle", "delete"}
        /\ pc[h] = "select" => op[h] \in {"get", "adminGet"}
        /\ reply[h].code # "none" => pc[h] \in {"unlock", "reply"}
        /\ \/ op[h] \in {"toggle", "delete", "get", "adminGet"}
           \/ pc[h] \in {"encode", "name", "reload"}
           \/ reply[h].code = "CREATED"
           => id[h] \in Ids

UnusedInv ==
    \A i \in Ids : i > seq =>
        /\ ~Exists(i)
        /\ mail[i] = "none"
        /\ ~flips[i]

OwnRowInv ==
    \A h \in Handlers :
        /\ pc[h] \in {"encode", "name"} => rows[id[h]] = NewRow
        /\ pc[h] = "reload" =>
               Exists(id[h]) /\ rows[id[h]].named /\ ~rows[id[h]].approved
        /\ pc[h] = "flip" => Exists(id[h]) /\ want[h] = ~rows[id[h]].approved
        /\ pc[h] = "reread" => Exists(id[h]) /\ want[h] = rows[id[h]].approved

AnswerInv ==
    \A h \in Handlers :
        reply[h].code = "CREATED" =>
            /\ mail[id[h]] # "none"
            /\ Exists(id[h]) => rows[id[h]].named

IInv ==
    /\ Typed
    /\ OwnerInv /\ RequestInv /\ UnusedInv /\ OwnRowInv /\ AnswerInv
    /\ NoLostToggle /\ AnswersOwnWrite /\ AckedIsComplete

-----------------------------------------------------------------------------
(* Refinement: what callers can rely on.                                    *)

Status(row) ==
    IF row = NoRow THEN "gone" ELSE IF row.approved THEN "public" ELSE "hidden"

Succeeded(h) == reply[h].code \in {"CREATED", "OK"}

PhaseOf(h) ==
    CASE pc[h] = "idle" -> "idle"
      [] pc[h] \in {"encode", "name", "reload", "reread"} -> "took"
      [] pc[h] \in {"unlock", "reply"} -> IF Succeeded(h) THEN "took" ELSE "failed"
      [] OTHER -> "called"

ShownTo(h) ==
    CASE pc[h] \in {"encode", "name", "reload"} -> "hidden"
      [] pc[h] = "reread" -> IF want[h] THEN "public" ELSE "hidden"
      [] pc[h] \in {"unlock", "reply"} /\ Succeeded(h) -> Status(reply[h].shown)
      [] OTHER -> "nothing"

contractBoard == [i \in Ids |-> IF i > seq THEN "unused" ELSE Status(rows[i])]
contractPhase == [h \in Handlers |-> PhaseOf(h)]
contractShown == [h \in Handlers |-> ShownTo(h)]

Contract == INSTANCE ModerationContract WITH
    Callers <- Handlers, board <- contractBoard, phase <- contractPhase,
    kind <- op, subject <- id, shown <- contractShown

\* Every request of the service is one atomic, at-most-once operation of the
\* contract, whatever interleaves, fails or crashes.
ImplementsContract == Contract!Spec

-----------------------------------------------------------------------------
(* What the documentation says and the code does not do.                    *)

\* .agents/skills/architecture/database.md:120: "Update comment with display_id
\* (same transaction)" as the insert.  Then no comment lacks its display ID once
\* nobody is inside the mutex.
NamedInSameTransaction ==
    mu = Free => \A i \in Ids : Exists(i) => rows[i].named

=============================================================================
