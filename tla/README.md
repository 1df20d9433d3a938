# ReplyForge: formal models, checks and proofs

ReplyForge is a small HTTP service that stores blog comments in SQLite, holds
them for moderation and serves the approved ones. This directory holds TLA+
models of its parts, configurations for the TLC model checker, and proofs for
the TLA+ proof system. Every definition is translated from the Go, SQL and
JavaScript source; `PROJECT.json` names the lines behind each of them.

    tlc -workers 2 -config CommentService.cfg MCCommentService
    tlapm CommentService_proofs.tla

## Inventory

| Component | State | Operations | Interacts with |
|---|---|---|---|
| comment service (`internal/service/comment_service.go`) | a mutex, shared by all writers | Create, ToggleApproval, Delete, GetByID, GetByIDUnrestricted, List, ListAll | handlers call it; it calls captcha verifier, repository, display IDs; starts a goroutine per notification |
| repository and table (`internal/repository`, `migrations`) | the `comments` table, `sqlite_sequence` | one SQL statement each; no transaction spans two | the service; SQLite in WAL mode through a connection pool |
| captcha verifier (`turnstile.go`) | map of verdicts under a RW mutex | Verify | Cloudflare, over HTTP with a 10 s timeout |
| e-mail notifier (`email_notifier.go`) | none | Send | SMTP server |
| session manager (`internal/auth/session.go`) | map token -> expiry, sweeper goroutine | CreateSession, ValidateSession, DeleteSession, sweep, Stop | admin handlers, every admin route's middleware |
| rate limiter (`middleware/ratelimit.go`) | map client -> token bucket and last request, sweeper goroutine | lookup, Allow, sweep, Stop | every comment creation, admin mutation and login |
| handlers (`internal/handler`) | none | decode, call the service, answer | the service, session manager |
| middleware chain (CSRF, rate limit, CORS, logging, recovery) | per-request writers | wrap one another | all requests |
| validation, sanitizer, display IDs, password hashing | none | pure functions | Create, login |
| server (`cmd/server/main.go`) | start-up order, signals, HTTP server | start, health, shutdown | all of the above |
| migrations (`internal/config/migrator.go`) | the schema | run every file at each start | SQLite |
| admin page (`internal/templates/admin.html`) | the browser's view of session and list | login, list, toggle, delete | the admin routes |
| seed tool, configuration, metrics | - | - | development, constants, write-only counters |

What is hard, and which properties the parts owe:

* **Comment service.** Concurrency: each request has a goroutine, each statement
  commits by itself, any statement may fail, the process may die between two of
  them, readers do not take the mutex. Owed: no lost moderation, at most one
  effect per request, an acknowledged comment is complete, IDs are never used
  again, every request is answered.
* **Captcha verifier.** The lock is released during the HTTP call: answers are
  lost, late and stored in any order. Owed: the cache is truthful and acceptances
  are recent, also for the comments that were stored on them; an author who got a clear
  answer knows how many comments there are; an answer comes.
* **Rate limiter.** A bucket is used after the map's mutex was released while the
  sweeper forgets clients. Owed: one bucket per client, the quota in every
  window, a bounded map.
* **Sessions.** Logout, expiry, sweep and restart race with requests under way.
  Owed: an ended session never works again, nobody is let in beyond the TTL, a
  bounded map.
* **Lists.** Two statements per page, offsets that shift. Owed: which walks are
  complete, which are free of repetitions.
* **Notifier.** The server may fail or fall silent at each step, and only the dial
  has a deadline. Owed: a report of success is true, no fall-back to clear text,
  no connection left open.
* **Server.** main, the listener, the goroutine that shuts down, requests and
  notifications race with two signals and a deadline. Owed: nothing served
  without the schema, an orderly stop cuts nobody short, every stop ends.
* **Middleware chain.** Six layers, each with its own idea of which request it is
  for, two of them wrapping the `ResponseWriter`, and a handler that may panic
  before, during or after its answer. Owed: the log says what was sent, no route
  slips past limiter, CSRF or session, a refusal changes nothing, the pages that
  may read an answer can.
* **Admin page.** One thread, but fetches overlap, others change the table, the
  session ends. Owed: what is on the screen belongs together, messages are true,
  nothing stays busy.

## Plan

In order of importance; all of it is done.

1. `ModerationContract`, `CommentService`: moderation is atomic at most once. Runs:
   safety with refinement, liveness. Proofs: every safety property, refinement.
2. `Turnstile`: the cache. `Submission` composes it with handler, table and
   `WriteTimeout`. Proofs: invariant of both, the composition implements `Turnstile`.
3. `TokenBucket`, `RateLimiter`: quota. Proofs: invariant, quota, refinement.
4. `Sessions`: ended sessions. Proofs: invariant, no revival.
5. `Listing`: walks through pages. Proofs: invariant, every safety property.
6. `Notifier`, `Server`: the SMTP dialogue, start-up, shutdown with one or two
   signals, goroutines left behind. Proofs: invariant, every safety property.
7. `RequestPath`: the middlewares and every route. Proofs: invariant, every safety
   property.
8. `AdminPage`: overlapping fetches. Proofs: invariant, every safety property.

## Modules

### CommentService and ModerationContract

`CommentService` has the table (`rows`, `seq`), the mutex (`mu`), and per goroutine
its place (`pc`), request (`op`, `id`), the local `newApproved` (`want`) and the
answer it is about to send (`reply`). A row is `named` (its `display_id` is set) and
`approved`; the text columns and the counters of `expvar` are left out because
nothing depends on them. Each SQL statement is one action and each may fail
without effect (context cancelled, database busy). The steps of Create are
`VerifyCaptcha`, `Lock`, `Insert`, `Generate`, `UpdateDisplayID`, `Reload`, `Unlock`;
of ToggleApproval `Lock`, `Find`, `UpdateApproved`, `Reread`, `Unlock`; of Delete
`Lock`, `Delete`, `Unlock`; reads are one `Get`. `Respond` sends the answer and
`MailEnds` ends a notification goroutine. `Crash` empties everything but the
table. `flips` and `acked` are history.

`ModerationContract` is what clients may rely on: every request is one atomic
operation that happens at most once; a request answered with an error may or may
not have happened; Create happens in two moments (the comment exists, then has
its ID). `CommentService` implements it under the mapping stated by
`ImplementsContract`.

| Run | Shows |
|---|---|
| `comment_service` | type correctness; `NoLostToggle` (approval is the parity of the flips), `AnswersOwnWrite` (a success reports the caller's own write although it is read back), `AckedIsComplete` (a 201 means display ID and notification started), `DeletedStaysDeleted` (no ID is used again); `ImplementsContract` (every behaviour is one of the contract) |
| `comment_service_live` | every request is answered, whatever fails |
| `same_transaction` (violated) | INSERT and display ID are not one transaction, although `database.md:120` says so |

Bounds: two goroutines and two comments (one for liveness). A pair of goroutines
meets at every pair of statements; two IDs suffice for one request to confuse two
comments and for an ID to be handed out after a deletion. What depends on more is
proved. Fairness of `LiveSpec`: every goroutine that can run does (weak), and the
mutex starves nobody (strong, Go's mutex hands over to a waiter after 1 ms). No
fairness is assumed of requests arriving, crashes or mails.

### Turnstile and Submission

State of `Turnstile`: the `cache`, each call's place, arguments, start and verdict,
and what Cloudflare knows (`spent`) and said (`acceptedAt`, `rejected`, history). `Hit`
and `Miss` hold the read lock, `Store` the write lock; `Accept`/`Reject` are
Cloudflare's decision, external; `Break` covers every error path. Time passes only
while calls wait, at most `Timeout` for each, because computation is negligible
against the 10 s timeout and the 5 min TTL.

`Submission` extends it with who calls: a reader's form, known by its captcha token,
that is sent and sent again (`reader`, `sent`), the goroutine that serves each attempt
and when it arrived (`serves`), and the comments that `Create` stored (`rows`). `Tell` is
the way of the answer: it is lost, or late (`WriteTimeout`, counted from the arrival,
cuts the answer and not the handler), or nobody waits any more, or the author reads
it; a 500 leaves the author in doubt, because the row may be there. `doubt`
is history: submissions of which some attempt had no clear answer. A crash takes
calls and cache along, the rows stay. No time passes between verdict and row: what
Create may wait there for the service's mutex or for SQLite (`_busy_timeout`, 5 s per
statement) is left out, and adds to the age that `StoredWasAccepted` bounds.

| Run | Shows |
|---|---|
| `submission` | `CacheTruthful` (the cache repeats what Cloudflare said about just that token and address, whatever overlaps), `StoredWasAccepted` (every stored comment rests on an acceptance for its author, younger than TTL + timeout when the verdict was given), `CountedOnce` (without doubt, 201 means exactly one comment and a refusal none), `AttemptEnds` (an answer or a cut connection comes, whatever Cloudflare does) |

`CountedOnce` is as strong as it can be: once an answer was lost, the same token
within the TTL is a hit in the cache and stores a second comment; nothing in the
code recognizes the repetition. Bounds: one genuine token, two addresses, two
goroutines, three attempts, TTL 2, both timeouts 1, three units of time: a verdict
is stored late, used, outlived; an answer is late while the comment is stored. A
rejected genuine token stands for a bad one. `LiveAttempts` assumes that goroutines
run and that the HTTP client gives up after its timeout; nothing of Cloudflare or of
the author.

### RateLimiter and TokenBucket

Time is counted in the interval in which a bucket regains one token (6 s with the
defaults), so `Idle` (5 min) is 50 units, `Burst` 15. A limiter is an object
(`limiters`) referred to by the map and by goroutines between lookup and `Allow`,
as in the code. `Stall` bounds how long a goroutine takes between the two; a due
sweep is not overtaken by time. `OpenWindow` lets an observer start to count at
any moment, so `Quota` speaks of every window. `TokenBucket` is one everlasting
bucket per client; `ImplementsBucket` maps a forgotten client to a full bucket.
That is true because of `RefillAssumption` (`Burst + Stall <= Idle + 1`): 15 + Stall
<= 51 with the defaults. A configuration with a larger burst and a smaller rate
breaks it, and then forgetting hands out quota.

`rate_limiter`: two goroutines, two clients, `Idle` 2, five units of time, so two
periods of the sweeper and one unit pass. The assumption is tight (2 + 1 <= 3).

### Sessions

The map, the browser's `jar`, requests between login and cookie, between arrival
and validation, between validation and handler; expiry, sweep, `Stop` and restart
at any moment, with no bound on how long a request lasts. A request that was let
in completes even if its session ends meanwhile: the code checks once. `sessions`
shows that an ended session never works again (`DeadStaysDead`), that nobody who
comes after a logout was answered is let in (`LoggedOutNoMore`), that admission is
within one TTL of creation (`AdmittedInLife`) and that the map is bounded in time
(`ForgottenInTime`). Bounds: two requests, two tokens, TTL 1, period 2, five units.

### Listing

`ORDER BY created_at` has no tie-breaker and `CURRENT_TIMESTAMP` a resolution of one
second, so `Precedes` compares `CreatedAt`, up or down (`newest`), and then what the
scan does. In most lists that is a fixed order, and a comment is a number that says
its place in it. The admin's list of one post (`byPost`) is different: SQLite scans
`idx_comments_post_approved_created`, whose second column is `approved`, so comments of
the same second come out with the ones not approved first, and a `Toggle` by anybody
moves a comment among its equals without its joining or leaving the list. `Count`
and `Select` are separate steps between which others `Join`, `Part` or `Toggle`. The
reader is the admin page's list: next page while `listPage < listTotalPages`; a failed
request is repeated. `Offset` is computed in a signed integer of `MaxInt` and a negative
offset is taken for 0, as SQLite does.

`listing` shows when a walk shows everything (`WalkComplete`: meanwhile nothing left the
list, nothing joined it between a count and its page, and no toggle made two rows
change places), when it shows nothing twice (`NoRepeats`: nothing joined, and no such
toggle), and that a page agrees with its own totals when nothing joined or left
(`PageAsPromised`, but for offsets that overflow). Each proviso is needed: TLC finds a
counterexample without it. Without the second of `WalkComplete`, a comment that was
listed all the while slides onto a page the reader believes not to exist; without the
third, an admin who approves comments of one post on the way through its pages
misses or repeats others of the same second. Which of the listed rows are approved
is kept for lists of one post only, because no other order depends on it. Bounds:
three comments, two of them of the same second, page sizes 1 and 2 (the default and
the limit), an 8-bit integer so that an offset overflows: three pages, and equals on
both sides of the edge of a page; the proofs are for all of them.

### Notifier and Server

`Notifier` is `Send` of `email_notifier.go`, one dialogue per created comment: `stage`
is the step it is at, `open`, `offered` and `secure` describe its connection,
`delivered` says that the mail server took the message (it may have, although its
answer was lost: second disjunct of `Fault`), `outcome` is what `Send` returned. The
settings `smtp` are chosen once: no host, a local or a remote one, with a login
or without. `Server` extends it with `main.go`: where main is (`main`), how the
process ended (`exit`), the database handle, the sweepers, the listening goroutine,
the signal channel of capacity 1 (`quit`), the shutdown context (`ctx`) and the
goroutine that shuts down (`shut`). `Await` is the `select` after the first signal;
`Die` stands for `os.Exit` and for a signal that comes before `signal.Notify`. What a
request does is left to `CommentService`: here it arrives, may `Store` (which starts
its notification) and is answered.

| Run | Shows |
|---|---|
| `server` | `ServesMigrated`, `OrderlyStop` (a stop that was neither forced nor late cuts no request short), `StopIsComplete` (the database is closed after the sweepers were told and `Shutdown` returned), `SentWasDelivered`, `NoDowngrade`; `DeadlineStops` and `SecondSignalStops` (the process ends, whatever hangs) |
| `notification_ends` (violated) | the 30 s of `comment_service.go` bound the dial only; a silent mail server keeps the goroutine |

Bounds: one request that creates a comment and one that does not, three signals:
one that starts the shutdown, one that forces it, one that finds the channel full or
comes too late. The listener's start, `Notify`, arrivals and `Shutdown` interleave
freely. `LiveSpec` is fair to main, to the goroutine that shuts down and to the
dialer's time-out: goroutines that can run do, and the dialer observes its
context. Nothing is assumed of requests, the mail server, signals or the deadline.

### RequestPath

One request from `setupMiddleware` to the wire. `mode` and `at` say where it is: on its
way `"down"` the `Chain`, in a handler, on its way `"up"`, or torn down by a `"panic"` until
`Recover`. A layer that answers by itself (`Answered`) turns back. `wrote` holds the
first status that each writer was given: the one `recovery` wraps, the one `logging`
wraps, and `net/http`'s; `WriteHeader` hands a status outwards through the wrappers that
have none yet. `reply` is what the handler means to send, `logged` the status in the
log, `readable` and `traced` two headers that properties are about, `used` the token
taken from the client's bucket, `effect` the change in the table or the sessions.
What limiter, session manager and service decide is `RateLimiter`, `Sessions` and
`CommentService`; here they may decide anything (`Outcomes`). A text has three kinds of
characters, a letter, a space and a NUL, because the only thing about the sanitizer
that depends on an order is which of them goes first: `Sanitize` collapses spaces,
then drops NULs; bluemonday, the entities and NFC leave these alone. Both are a
choice of places (`Kept`, `Printable`) and `Pick`, which closes the gaps between them.

`request_path` shows `LoggedAsSent` (who has a request ID finds its line in the log,
with the status that was sent, after a panic too; the line is of level Info,
`logging.go:55`, so with `LOG_LEVEL=warn` or `error` there is an ID and no line), `EffectsGuarded` (limiter and CSRF
find their routes by prefixes of their own, and still no route slips past them or
past the session), `RefusedIsFree` (a 4xx changed nothing, and what limiter or CSRF
refused cost no token), `PageReadsAnswer` (which answers carry the CORS header, for
which origins; a page of the server's own origin reads answers without it) and
`ShownIsNormal` (an answer shows single spaces and no NUL although the table may).
Bounds: every method, route and kind of origin; one allowed origin, and texts up to
five characters, which hold a NUL between two spaces between two words; the proofs
are for all of them.

### AdminPage

The fields of `adminApp()` under their names (`ui`), the fetches under way (`calls`), each
with what its callback remembers, and the server's side as far as the page sees it:
the browser's session and the table, which others change. A click is one action up
to its first `await`; `Serve` and its companions are the server's answer; `Settle` is the
rest of the callback, up to its end or its next `await`; `Fail` is the same after a
refusal or a lost connection. A row's button is two fetches, the second being the
list (`TakeRow`, then `TakeList` with `then` set), and its message is made from the row
as it was when clicked, as `admin.html:439` does. `Reload` forgets all callbacks.
`version` and `changed` count changes of the table; `seen` is history.

| Run | Shows |
|---|---|
| `admin_page` | `PagerMatchesRows` (overtaking lists never leave page number and rows of two answers), `OwnWritesShow` (rows at rest are no older than what the rows' buttons had been told when their list was asked for, however lists overtake; no older than what any button was told, if the list asked for last was also the last to be taken and did not fail), `AlertIsTrue` (the message says what the server did, unless the row had changed after it was listed, be it by this page's own earlier click), `BusyHasCall` (whatever fails, nothing stays disabled or "Loading...") |
| `empty_means_none` (violated) | "No comments found" is shown over a table that has comments, with the pager hidden and `listPage` stuck on a page that is gone |

Bounds: two comments on pages of one, three clicks, two changes of the table: two
lists and a row's button overlap, a page disappears. Deadlock is not checked: the
user stops after `MaxClicks`. What depends on more is proved. The provisos of the
properties are weaknesses of the page, all of them in the model, each of which no
text of the repository rules out:

* Nothing orders the answers to lists (`admin.html:357-362`, `:438`). Rows of two
  comments are toggled one after the other; the second list overtakes the first, and
  the page rests on rows that lack the second toggle, which it has reported. Hence
  `InOrder` in the second half of `OwnWritesShow`; the first half holds without it. A
  last list that fails leaves old rows likewise.
* The message after a toggle is made from the row as listed (`admin.html:439`). If the
  answer to the first toggle, or the list after it, is lost, the row stays as it was;
  the admin clicks it again, the server rejects what it had approved, and the page
  says "approved", with nobody else involved. The same comes of a second row's click,
  which releases the first row's button. Hence `upToDate` in `AlertIsTrue`.
* One field names the busy row: a second row's click releases the first row's button
  and the end of either call releases both. `BusyHasCall` is about the opposite, what
  stays busy.
* An answer that comes after another form was opened is shown under that form.

## Proofs

* `CommentService_proofs`: `IInv` is inductive. The safety properties alone are not:
  it adds who holds the mutex at each label, that the writer's copy of a row agrees
  with the table while it holds the mutex, and that used IDs are at most `seq`. From
  it follow type correctness, `NoLostToggle`, `AnswersOwnWrite`, `AckedIsComplete`
  and, per step, `DeletedStaysDeleted`, for any number of goroutines and IDs. In
  its second part each action maps to one of `ModerationContract` or a stutter;
  `Refinement` is `Spec => ImplementsContract`.
* `RateLimiter_proofs`: `IInv` relates a limiter's last use to its client's last
  lookup (at most `Stall` later) and the sweeper's last tick to every visitor. Then a
  forgotten visitor is idle for `Idle + 1 - Stall` and its bucket is full
  (`Forgotten`), the credit of a client never changes through the sweeper, and
  `admitted + credit <= Burst + time` gives `Quota`. `Refinement` follows from the
  same lemmas.
* `Sessions_proofs`: `IInv` says that a session in the map expires one TTL after its
  creation, has no answered logout, and was swept over at most once since its end.
* `Server_proofs`: `IInv` says how far main, the listener and the goroutine that
  shuts down can be apart (`MainInv` and the parts after it) and what each step of
  the dialogue owes to the ones before it (`NotifierInv`). From it follow type
  correctness and all safety properties of `server`, for any number of requests.
* `Submission_proofs`: `VerifierInv` of `Turnstile` (a success is stored at most one
  timeout after it was pronounced, so its age is bounded when it is used), that every
  step of `Submission` is a step of `Turnstile` or leaves its variables alone
  (`UsesVerifier`), and `IInv`, which adds that a busy goroutine's attempt is its own and
  the one its author waits for, unless in doubt. From it follow `StoredWasAccepted` and
  `CountedOnce`, for any number of goroutines, tokens, addresses and attempts.
* `Listing_proofs`: a row's rank is the number of rows before it. `Precedes` orders
  them totally whatever is approved (`OrderTotal`), so ranks are all
  different and leave none out (`RankBijection`), and `LIMIT` and `OFFSET` pick as many
  rows as there are (`SliceSize`), and rounding up gives just the pages that have rows
  (`TotalPagesBounds`). `WalkComplete` is not inductive: `IInv` adds that what was shown
  has a rank below `Reached` as long as nothing joined, because ranks then only fall, and
  that what has such a rank was shown as long as nothing left, because they then only
  rise. A toggle keeps every rank or sets `moved`, which both except (`ToggleKeeps`). A row that joins between a count and its page lifts others over the edge of a
  page believed to be the last, which is what `slipped` is for. `Near` keeps a
  walk away from the offsets that overflow: only its first page can be so far out. For
  any set of comments, their times, default and limit of a page and width of an integer.
* `RequestPath_proofs`: `IInv` says what a request has behind it at each layer, on its
  way down (`Behind`), inside, torn down, turned back and up. From it follow the
  properties of the way, for any allowed origins. For `ShownIsNormal` the text itself is
  followed: the places kept are numbered without a gap, so neighbours in the result are
  neighbours among the kept (no place between them). The first pass leaves no NUL
  (`SanitizeDropsNUL`), but perhaps two spaces; the second leaves one space between two
  words (`CollapseIsNormal`) and then has nothing to drop, so nothing it could spoil. For
  texts of any length.
* `AdminPage_proofs`: first that every step is one of a dozen kinds (`Kinds`), then that
  each kind keeps the parts of `Inv`: calls are told apart by their numbers; while no
  list is under way, pager and rows are of the last answer; every list was read after
  all that the buttons had been told when it was asked for, and the one asked for last
  after all that they were told; a listed row is right about its comment or outdated. From it follow the four properties, for any number of
  comments, clicks and changes and any size of a page. `TypeOK` needs two counts more:
  a page of the list has no more rows than places, because no two comments have the
  same place (`SliceFits`), and fetches are at most two per click (`FetchesCounted`:
  what was sent, and what waits to send once more).

Assumptions of the proofs: the `ASSUME`s of the modules (numbers are naturals, the
markers for "none" are distinct from what they stand beside, `RefillAssumption`, and
`CountAssumption`: an `int` can count the comments, whose IDs are `int64`). TLC
evaluates them in every run.

Every invariant, action property and refinement that a passing run checks is proved.
Model-checked only is liveness (`EveryRequestAnswered`, `AttemptEnds`,
`DeadlineStops`, `SecondSignalStops`), because the proof system does not handle
fairness and ENABLED. The parts of each inductive invariant were model-checked on
the instance of the run before they were proved.

## Where the code and its texts disagree

Three runs are violated on purpose: `same_transaction`, `notification_ends` and
`empty_means_none`. What else was met while modelling, each a plain reading of the
code and part of the models, without a run of its own:

* `README.md:138` says that CAPTCHA_FAILED means an invalid, missing or expired token; a
  network error on the way to Cloudflare is answered so too (`comment_service.go:102`).
* `README.md:139` says that NOT_FOUND means there is no such comment; a failed statement
  is answered so too (`comment_service.go:221`, `:272`, `:283`, `:311`).
* `README.md:100` says that an empty `SMTP_HOST` disables mail; the notifier is made and
  dials this machine (`main.go:61`, `email_notifier.go:40`). `Server` contains the case.
* `README.md:119` promises `X-Request-ID` on responses; answers of the limiter, of CSRF,
  preflights, `/health` and `/debug/vars` have none (`traced` in `RequestPath`).
* A 429 and the 403 of CSRF come from outside of CORS: the page of an allowed origin
  cannot read why it was refused (the exception in `PageReadsAnswer`).
* The sanitizer's test calls it idempotent; a NUL between two spaces makes the second
  pass differ from the first, which is why the table may hold what no answer shows.
* The server tells the page whether a comment was approved or rejected
  (`admin_handler.go:192`); the page ignores it and guesses from the row it listed
  (`admin.html:439`), wrongly if the row has changed since, by another admin or by an
  earlier click of the page itself.
* `README.md:263-268` says that the admin routes that read need no authentication, and
  that toggle and delete take a password in the JSON body; all four demand a session
  (`admin_handler.go:42-53`), and only login takes a password. `EffectsGuarded` and the
  401 of every private route are the code's rule.
* `.agents/skills/architecture/security.md:101` says that the limiter applies to `POST
  /api/v1/comments` only; it also takes tokens for every admin route that changes
  something and for login (`ratelimit.go:44`, `Limited`).
* `.agents/skills/architecture/components.md:201` says that the first middleware is the
  outermost; `setupMiddleware` wraps one after the other (`main.go:218`), so the first,
  recovery, is the innermost (`Chain`).

## Not modelled

* Password hashing, the Sqids alphabet, NFC, HTML entities and tags: pure functions
  of libraries, called by one goroutine on its own values.
* Migrations beyond one step of `Server` that may fail: each file is one transaction
  of `IF NOT EXISTS` statements, or one PRAGMA, so that a rerun repeats them all; a
  model would only restate that.
* What a power failure takes with `synchronous=NORMAL`: a property of SQLite.
* The seed tool: a development tool, one loop. With `-clear` it resets
  `sqlite_sequence`; beside a running server that would break `DeletedStaysDeleted`.
* `config.go` beyond whether the server starts: values read once.
* Metrics: counters that nothing reads but `/debug/vars`.

## Abstractions common to all modules

Formatting, logging, metrics, HTTP headers and the contents of comments are left
out, but for the headers and texts that `RequestPath` keeps. Identities are model
values. SQLite is taken to execute one statement atomically, and an
interrupted statement to have no effect.
Each definition named `...` beside a comment "(variant: ...)" is a deliberately
faulty form of the definition that follows it, used to see that the properties
notice; no behaviour of the specifications uses it.
