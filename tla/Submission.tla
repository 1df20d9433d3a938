----------------------------- MODULE Submission ------------------------------
(***************************************************************************)
(* What becomes of a comment that a reader sends, and sends again when no  *)
(* answer comes: the handler (comment_handler.go), the captcha verifier    *)
(* (Turnstile), the row that Create stores, and the server's WriteTimeout, *)
(* which cuts an answer but not the handler (cmd/server/main.go).  A       *)
(* submission is known by its captcha token; CommentService takes the      *)
(* storing apart.  Time passes only at Cloudflare: what Create waits for   *)
(* between verdict and INSERT (the service's mutex, SQLite's busy_timeout) *)
(* is not counted.                                                         *)
(***************************************************************************)
EXTENDS Turnstile, FiniteSets

CONSTANTS
    WriteTimeout,   \* HTTP_WRITE_TIMEOUT: from the request's arrival
    MaxAttempts     \* bound on the requests that are sent

ASSUME AttemptsAssumption == WriteTimeout \in Nat /\ MaxAttempts \in Nat

VARIABLES
    sent,       \* how many attempts were made: the number of each
    serves,     \* the attempt a goroutine serves, and when it arrived
    reader,     \* per submission: what its author knows
    rows,       \* the table: which attempt stored a comment, for what, when
    doubt       \* history: submissions with an attempt that got no clear answer

attempts == <<sent, serves, reader, rows, doubt>>

Knows == {"ready", "waiting", "told", "refused", "unsure"}
TypesOK ==
    /\ TypeOK
    /\ sent \in 0 .. MaxAttempts
    /\ serves \in [Requests -> [attempt : 0 .. MaxAttempts, began : Times]]
    /\ reader \in [Tokens -> [knows : Knows, attempt : 0 .. MaxAttempts]]
    /\ rows \subseteq [attempt : 1 .. MaxAttempts, key : Keys, at : Times]
    /\ doubt \subseteq Tokens

Idle == [attempt |-> 0, began |-> 0]
InitAttempts ==
    /\ Init
    /\ sent = 0
    /\ serves = [r \in Requests |-> Idle]
    /\ reader = [t \in Tokens |-> [knows |-> "ready", attempt |-> 0]]
    /\ rows = {} /\ doubt = {}

-----------------------------------------------------------------------------

\* The form is sent, or sent again by somebody who was not told that it worked.
Submit(r, k) ==
    /\ sent < MaxAttempts
    /\ reader[k[1]].knows \notin {"waiting", "told"}
    /\ Verify(r, k)
    /\ sent' = sent + 1
    /\ serves' = [serves EXCEPT ![r] = [attempt |-> sent + 1, began |-> now]]
    /\ reader' = [reader EXCEPT ![k[1]] = [knows |-> "waiting", attempt |-> sent + 1]]
    /\ UNCHANGED <<rows, doubt>>

\* The author stops waiting; the goroutine may not notice.
GiveUp(t) ==
    /\ reader[t].knows = "waiting"
    /\ reader' = [reader EXCEPT ![t].knows = "unsure"]
    /\ doubt' = doubt \cup {t}
    /\ UNCHANGED <<vars, sent, serves, rows>>

\* The answer reaches the author if it is written before the deadline, is not
\* lost, and somebody still waits for it.  A 500 leaves the author in doubt.
Tell(r, news) ==
    LET token == asked[r][1]
        waits == /\ reader[token].knows = "waiting"
                 /\ reader[token].attempt = serves[r].attempt
        Learns(what) == reader' = [reader EXCEPT ![token].knows = what]
    IN  /\ \/ ~waits /\ UNCHANGED <<reader, doubt>>
           \/ waits /\ Learns("unsure") /\ doubt' = doubt \cup {token}
           \/ /\ waits /\ now - serves[r].began < WriteTimeout
              /\ news \in {"told", "refused"}
              /\ Learns(news) /\ UNCHANGED doubt
        /\ serves' = [serves EXCEPT ![r] = Idle]

Insert(r) ==
    rows' = rows \cup {[attempt |-> serves[r].attempt, key |-> asked[r], at |-> now]}

\* CAPTCHA_FAILED for every verdict but "yes" (variant: the comment is stored
\* before the verdict is looked at).
RefuseLate(r) ==
    /\ verdict[r] # "yes"
    /\ Return(r) /\ Insert(r) /\ Tell(r, "refused")
    /\ UNCHANGED sent
Refuse(r) ==
    /\ verdict[r] # "yes"
    /\ Return(r) /\ Tell(r, "refused")
    /\ UNCHANGED <<sent, rows>>

\* The comment is stored and the handler answers 201, or it fails with or
\* without its row.
Create(r) ==
    /\ verdict[r] = "yes"
    /\ Return(r)
    /\ \/ Insert(r) /\ Tell(r, "told")
       \/ Insert(r) /\ Tell(r, "failed")
       \/ UNCHANGED rows /\ Tell(r, "failed")
    /\ UNCHANGED sent

Crash ==
    /\ Restart
    /\ serves' = [r \in Requests |-> Idle]
    /\ reader' = [t \in Tokens |->
                    IF reader[t].knows = "waiting"
                    THEN [reader[t] EXCEPT !.knows = "unsure"] ELSE reader[t]]
    /\ doubt' = doubt \cup {t \in Tokens : reader[t].knows = "waiting"}
    /\ UNCHANGED <<sent, rows>>

Work(r) == (Hit(r) \/ Miss(r) \/ Store(r) \/ Break(r)) /\ UNCHANGED attempts
Respond(r) == Refuse(r) \/ Create(r)

NextAttempts ==
    \/ \E r \in Requests :
        \/ \E k \in Keys : Submit(r, k)
        \/ Work(r) \/ Respond(r)
        \/ (Accept(r) \/ Reject(r)) /\ UNCHANGED attempts
    \/ \E t \in Tokens : GiveUp(t)
    \/ Tick /\ UNCHANGED attempts
    \/ Crash

allvars == <<vars, attempts>>
SpecAttempts == InitAttempts /\ [][NextAttempts]_allvars

\* Goroutines run and the HTTP client gives up after its timeout.  Nothing is
\* assumed of Cloudflare, nor of the author's patience.
LiveAttempts == SpecAttempts /\ \A r \in Requests : WF_allvars(Work(r) \/ Respond(r))

-----------------------------------------------------------------------------
(* Properties *)

\* Every comment in the table was let in by an acceptance of its own token for
\* its author's address, younger than the TTL and one HTTP timeout together: a
\* repeated attempt lives on the cached verdict of an earlier one, and a slow
\* answer that is cached on arrival does not stretch it further.  (What Create
\* waits between verdict and INSERT comes on top of the age, and is not in the
\* model.)
StoredWasAccepted ==
    \A row \in rows : /\ acceptedAt[row.key] # None
                      /\ row.at - acceptedAt[row.key] < TTL + Timeout

\* Unless an answer was lost, late or a 500, an author who was told 201 has
\* exactly one comment in the table and one who was not has none, however often
\* the form was sent and from whatever addresses.
CountedOnce ==
    \A t \in Tokens \ doubt :
        reader[t].knows # "waiting" =>
            Cardinality({row \in rows : row.key[1] = t}) =
                IF reader[t].knows = "told" THEN 1 ELSE 0

\* Nobody waits for ever, even if Cloudflare never answers: the answer comes or
\* the connection is cut.
AttemptEnds == \A t \in Tokens : reader[t].knows = "waiting" ~> reader[t].knows # "waiting"

-----------------------------------------------------------------------------
(* What the properties rest on: inductive.                                   *)

Busy(r) == pc[r] # "idle"
RowsOf(t) == {row \in rows : row.key[1] = t}

\* A goroutine serves an attempt of its own, and while its token is not in
\* doubt it is the one its author waits for.
AttemptsKeep ==
    /\ \A r \in Requests : Busy(r) =>
        /\ serves[r].attempt \in 1 .. sent
        /\ asked[r][1] \notin doubt =>
               reader[asked[r][1]] = [knows |-> "waiting", attempt |-> serves[r].attempt]
    /\ \A r, q \in Requests : Busy(r) /\ Busy(q) /\ r # q => serves[r].attempt # serves[q].attempt

\* Whoever is not in doubt is right about the table.
ReadersKnow ==
    \A t \in Tokens \ doubt :
        /\ reader[t].knows # "unsure"
        /\ reader[t].knows # "told" => RowsOf(t) = {}
        /\ reader[t].knows = "told" => \E row \in rows : RowsOf(t) = {row}

IInv == VerifierInv /\ TypesOK /\ AttemptsKeep /\ ReadersKnow /\ StoredWasAccepted

=============================================================================
