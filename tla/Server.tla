------------------------------- MODULE Server -------------------------------
(***************************************************************************)
(* cmd/server/main.go: the life of the process, from its settings to its   *)
(* exit, with four kinds of goroutines: main, the listener, the one that   *)
(* shuts down, and those of requests and notifications.  Signals come at   *)
(* any moment.  What a request does is one step here; a creation starts    *)
(* the notification goroutine of Notifier, which nobody waits for.         *)
(***************************************************************************)
EXTENDS Notifier, Naturals

CONSTANTS
    Requests,       \* requests, of which those in Comments create a comment
    MaxSignals      \* bound: signals sent to the process

ASSUME CommentsAssumption == Comments \subseteq Requests
ASSUME MaxSignalsAssumption == MaxSignals \in Nat

VARIABLES
    main,       \* where main is
    exit,       \* how the process ended, "none" while it lives
    db,         \* the database handle
    sweepers,   \* the sweeper goroutines that run
    listener,   \* srv.ListenAndServe
    quit,       \* signals in the channel of capacity 1
    ctx,        \* the context with SHUTDOWN_TIMEOUT
    shut,       \* where the goroutine that shuts down is
    request,    \* what has become of each request
    signals     \* bound: signals sent so far

life == <<main, exit, db, sweepers, listener, quit, ctx, shut, signals>>
vars == <<life, request, smtp, mails>>

Running == {"running", "stored"}
Alive == exit = "none"

TypeOK ==
    /\ NotifierTypeOK
    /\ main \in {"validate", "migrate", "wire", "spawn", "notify", "wait",
                 "shutdown", "select", "force", "over"}
    /\ exit \in {"none", "killed", "error", "stopped"}
    /\ db \in {"unopened", "empty", "migrated", "closed"}
    /\ sweepers \subseteq {"limiter", "sessions"}
    /\ listener \in {"none", "starting", "open", "closed"}
    /\ quit \in 0 .. 1
    /\ ctx \in {"none", "live", "expired", "cancelled"}
    /\ shut \in {"none", "close", "drain", "stopLimiter", "stopSessions", "done"}
    /\ request \in [Requests -> {"none", "answered"} \cup Running]
    /\ signals \in 0 .. MaxSignals

Init ==
    /\ NotifierInit
    /\ main = "validate"
    /\ exit = "none"
    /\ db = "unopened"
    /\ sweepers = {}
    /\ listener = "none"
    /\ quit = 0
    /\ ctx = "none"
    /\ shut = "none"
    /\ request = [r \in Requests |-> "none"]
    /\ signals = 0

-----------------------------------------------------------------------------
(* Start *)

Goto(from, to) == Alive /\ main = from /\ main' = to

\* os.Exit and death by a signal: nothing deferred runs.
Die(how) ==
    /\ exit' = how
    /\ UNCHANGED <<main, db, sweepers, listener, quit, ctx, shut>>

\* TURNSTILE_SECRET_KEY is required; sql.Open does not touch the file yet.
Validate ==
    /\ \/ /\ Goto("validate", "migrate")
          /\ db' = "empty"
          /\ UNCHANGED <<exit, sweepers, listener, quit, ctx, shut>>
       \/ Alive /\ main = "validate" /\ Die("error")
    /\ UNCHANGED <<signals, request, smtp, mails>>

\* All files or an error (variant: the error is logged, without os.Exit).
MigrateLogged ==
    /\ Goto("migrate", "wire")
    /\ db' \in {"empty", "migrated"}
    /\ UNCHANGED <<exit, sweepers, listener, quit, ctx, shut, signals,
                   request, smtp, mails>>
Migrate ==
    /\ \/ /\ Goto("migrate", "wire")
          /\ db' = "migrated"
          /\ UNCHANGED <<exit, sweepers, listener, quit, ctx, shut>>
       \/ Alive /\ main = "migrate" /\ Die("error")
    /\ UNCHANGED <<signals, request, smtp, mails>>

\* The session manager and the rate limiter start their sweepers.
Wire ==
    /\ Goto("wire", "spawn")
    /\ sweepers' = {"limiter", "sessions"}
    /\ UNCHANGED <<exit, db, listener, quit, ctx, shut, signals, request, smtp, mails>>

Spawn ==
    /\ Goto("spawn", "notify")
    /\ listener' = "starting"
    /\ UNCHANGED <<exit, db, sweepers, quit, ctx, shut, signals, request, smtp, mails>>

\* signal.Notify: until here a signal kills, though requests may be served.
Notify ==
    /\ Goto("notify", "wait")
    /\ UNCHANGED <<exit, db, sweepers, listener, quit, ctx, shut, signals,
                   request, smtp, mails>>

\* The listening goroutine: a server that is shutting down returns at once, any
\* other error ends the process, whatever it is doing.
Listen ==
    /\ Alive
    /\ \/ /\ listener = "starting"
          /\ listener' = IF shut \in {"none", "close"} THEN "open" ELSE "closed"
          /\ UNCHANGED <<main, exit, db, sweepers, quit, ctx, shut>>
       \/ listener \in {"starting", "open"} /\ Die("error")
    /\ UNCHANGED <<signals, request, smtp, mails>>

-----------------------------------------------------------------------------
(* Requests *)

Arrive(r) ==
    /\ Alive
    /\ listener = "open"
    /\ request[r] = "none"
    /\ request' = [request EXCEPT ![r] = "running"]
    /\ UNCHANGED <<life, smtp, mails>>

\* Create succeeds: the comment is stored and its notification under way.
Store(r) ==
    /\ Alive
    /\ r \in Comments
    /\ request[r] = "running"
    /\ request' = [request EXCEPT ![r] = "stored"]
    /\ stage' = [stage EXCEPT ![r] = "dial"]
    /\ UNCHANGED <<life, smtp, open, offered, secure, delivered, outcome>>

\* A request that is turned down is answered without having stored anything.
Answer(r) ==
    /\ Alive
    /\ request[r] \in Running
    /\ request' = [request EXCEPT ![r] = "answered"]
    /\ UNCHANGED <<life, smtp, mails>>

Mail(c) == Alive /\ Send(c) /\ UNCHANGED <<life, request>>

-----------------------------------------------------------------------------
(* Shutdown *)

\* Before Notify a signal kills; after it, it is dropped if one is waiting.
Signal ==
    /\ Alive
    /\ signals < MaxSignals
    /\ signals' = signals + 1
    /\ IF main \in {"validate", "migrate", "wire", "spawn", "notify"}
       THEN Die("killed")
       ELSE quit' = 1 /\ UNCHANGED <<main, exit, db, sweepers, listener, ctx, shut>>
    /\ UNCHANGED <<request, smtp, mails>>

TakeSignal ==
    /\ Goto("wait", "shutdown")
    /\ quit = 1
    /\ quit' = 0
    /\ UNCHANGED <<exit, db, sweepers, listener, ctx, shut, signals, request, smtp, mails>>

StartShutdown ==
    /\ Goto("shutdown", "select")
    /\ ctx' = "live"
    /\ shut' = "close"
    /\ UNCHANGED <<exit, db, sweepers, listener, quit, signals, request, smtp, mails>>

Deadline ==
    /\ Alive
    /\ ctx = "live"
    /\ ctx' = "expired"
    /\ UNCHANGED <<main, exit, db, sweepers, listener, quit, shut, signals,
                   request, smtp, mails>>

ShutStep(from, to) == Alive /\ shut = from /\ shut' = to

\* srv.Shutdown closes listener and idle connections, ...
CloseListener ==
    /\ ShutStep("close", "drain")
    /\ listener' = IF listener = "open" THEN "closed" ELSE listener
    /\ UNCHANGED <<main, exit, db, sweepers, quit, ctx, signals, request, smtp, mails>>

\* ... then waits for the requests or the context (variant: for the requests
\* only, context.Background()).
DrainForever ==
    /\ ShutStep("drain", "stopLimiter")
    /\ \A r \in Requests : request[r] \notin Running
    /\ UNCHANGED <<main, exit, db, sweepers, listener, quit, ctx, signals,
                   request, smtp, mails>>
Drain ==
    /\ ShutStep("drain", "stopLimiter")
    /\ ctx # "live" \/ \A r \in Requests : request[r] \notin Running
    /\ UNCHANGED <<main, exit, db, sweepers, listener, quit, ctx, signals,
                   request, smtp, mails>>

StopSweepers ==
    /\ \/ ShutStep("stopLimiter", "stopSessions") /\ sweepers' = sweepers \ {"limiter"}
       \/ ShutStep("stopSessions", "done") /\ sweepers' = sweepers \ {"sessions"}
    /\ UNCHANGED <<main, exit, db, listener, quit, ctx, signals, request, smtp, mails>>

\* main returns: the deferred calls close the database, the process ends.
Return ==
    /\ main' = "over"
    /\ exit' = "stopped"
    /\ db' = "closed"
    /\ UNCHANGED <<sweepers, listener, quit, ctx, shut, signals, request, smtp, mails>>

\* The select after the first signal (variants: main returns when
\* ListenAndServe does; the second signal returns without waiting; the second
\* signal does not cancel).
AwaitListener ==
    /\ Alive
    /\ main = "select"
    /\ \/ listener = "closed" /\ Return
       \/ /\ quit = 1
          /\ quit' = 0
          /\ ctx' = "cancelled"
          /\ main' = "force"
          /\ UNCHANGED <<exit, db, sweepers, listener, shut, signals, request, smtp, mails>>
AwaitNotForced ==
    /\ Alive
    /\ main = "select"
    /\ shut = "done" \/ quit = 1
    /\ Return
AwaitNoCancel ==
    /\ Alive
    /\ main = "select"
    /\ \/ shut = "done" /\ Return
       \/ /\ quit = 1
          /\ quit' = 0
          /\ main' = "force"
          /\ UNCHANGED <<exit, db, sweepers, listener, ctx, shut, signals, request, smtp, mails>>
Await ==
    /\ Alive
    /\ main = "select"
    /\ \/ shut = "done" /\ Return
       \/ /\ quit = 1
          /\ quit' = 0
          /\ ctx' = "cancelled"
          /\ main' = "force"
          /\ UNCHANGED <<exit, db, sweepers, listener, shut, signals, request, smtp, mails>>

\* <-shutdownDone after the second signal.
FinishForced ==
    /\ Alive
    /\ main = "force"
    /\ shut = "done"
    /\ Return

Ended == ~Alive /\ UNCHANGED vars

Next ==
    \/ Validate \/ Migrate \/ Wire \/ Spawn \/ Notify \/ Listen
    \/ \E r \in Requests : Arrive(r) \/ Store(r) \/ Answer(r)
    \/ \E c \in Comments : Mail(c)
    \/ Signal \/ TakeSignal \/ StartShutdown \/ Deadline
    \/ CloseListener \/ Drain \/ StopSweepers \/ Await \/ FinishForced
    \/ Ended

Spec == Init /\ [][Next]_vars

\* main and the goroutine that shuts down run, and the dialer gives up after its
\* 30 s.  No fairness of requests, of the mail server, of signals or of the
\* deadline.
LiveSpec ==
    /\ Spec
    /\ WF_vars(StartShutdown) /\ WF_vars(Await) /\ WF_vars(FinishForced)
    /\ WF_vars(CloseListener) /\ WF_vars(Drain) /\ WF_vars(StopSweepers)
    /\ \A c \in Comments :
          WF_vars(Alive /\ DialFails(c) /\ UNCHANGED <<smtp, life, request>>)

-----------------------------------------------------------------------------
(* Properties *)

\* Nothing is served before the schema is there: an error on the way ends the
\* process instead.
ServesMigrated ==
    Alive /\ (\E r \in Requests : request[r] # "none") => db = "migrated"

\* A stop that neither ran into the deadline nor was forced cuts no request
\* short, however it raced with the listener's start and with arrivals.
OrderlyStop ==
    exit = "stopped" /\ ctx = "live" => \A r \in Requests : request[r] \notin Running

\* main returns only when the goroutine that shuts down is through, forced or
\* not: the database is not closed under it and both sweepers were told.
StopIsComplete == exit = "stopped" => shut = "done" /\ sweepers = {}

\* After the deadline the process ends, whatever requests and mails hang.
DeadlineStops == ctx = "expired" ~> ~Alive

\* After a second signal it ends without waiting for the deadline either.
SecondSignalStops == main = "force" ~> ~Alive

-----------------------------------------------------------------------------
(* The inductive invariant: how far main, the listener and the goroutine    *)
(* that shuts down can be apart.                                            *)

Booting == {"validate", "migrate", "wire", "spawn", "notify"}
Draining == {"stopLimiter", "stopSessions", "done"}     \* Shutdown has returned

MainInv ==
    /\ exit = "stopped" <=> main = "over"
    /\ main \in Booting \cup {"wait", "shutdown"} <=> shut = "none"
    /\ shut = "none" <=> ctx = "none"
    /\ main = "over" => shut = "done"
    /\ main \in {"validate", "migrate", "wire", "spawn"} => listener = "none"
    /\ main \in {"wire", "spawn", "notify", "wait", "shutdown", "select", "force"} =>
           db = "migrated"

ShutInv ==
    /\ shut \in {"drain"} \cup Draining => listener # "open"
    /\ shut \in Draining /\ ctx = "live" => \A r \in Requests : request[r] \notin Running
    /\ shut \in {"stopSessions", "done"} => "limiter" \notin sweepers
    /\ shut = "done" => "sessions" \notin sweepers

\* Requests come through the listener, notifications from stored comments.
ServedInv ==
    /\ listener = "none" => \A r \in Requests : request[r] = "none"
    /\ \A c \in Comments : request[c] \in {"none", "running"} => stage[c] = "none"

IInv ==
    /\ TypeOK /\ MainInv /\ ShutInv /\ ServedInv /\ NotifierInv
    /\ ServesMigrated /\ OrderlyStop /\ StopIsComplete

-----------------------------------------------------------------------------
(* What the documentation says and the code does not do.                    *)

\* development-guidelines/SKILL.md:114: "Always know how a goroutine will stop."
\* The notification goroutine is given 30 s (comment_service.go:161).
NotificationEnds ==
    \A c \in Comments : stage[c] = "dial" ~> stage[c] = "over" \/ ~Alive

=============================================================================
