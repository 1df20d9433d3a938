------------------------------ MODULE Sessions ------------------------------
(***************************************************************************)
(* internal/auth/session.go with the handlers of admin_handler.go that use *)
(* it: login, the middleware in front of every admin route, logout, the    *)
(* background sweep and restarts.  Sessions live in memory; every access   *)
(* to the map holds the mutex and is one step.  Time passes freely between *)
(* the steps of a request.  The password check (a login that fails leaves  *)
(* no trace) and the attributes of the cookie are left out.                *)
(***************************************************************************)
EXTENDS Naturals

CONSTANTS
    Requests,   \* goroutines serving requests
    Tokens,     \* what 32 random bytes can be: drawn at most once each
    TTL,        \* ADMIN_SESSION_TTL
    Period,     \* of the sweep: 10 minutes
    MaxTime,    \* bound on the clock
    None

Times == 0 .. MaxTime
Deadlines == 0 .. MaxTime + TTL

ASSUME TimesAssumption == MaxTime \in Nat /\ TTL \in Nat \ {0} /\ Period \in Nat \ {0}
ASSUME NoneAssumption == None \notin Deadlines \cup Tokens

VARIABLES
    now,
    sessions,       \* expiresAt of each token in the map
    pc, carries,    \* where a request is and the token it is about
    jar,            \* tokens an admin's browser may present
    swept, stopped, \* the sweeper's last tick; stopCh is closed
    born,           \* history: when a token's session was created
    over,           \* history: tokens whose logout has been answered
    late,           \* history: the request arrived after that
    admittedAt      \* history: when the middleware let the request in

history == <<born, over, late, admittedAt>>
vars == <<now, sessions, pc, carries, jar, swept, stopped, born, over, late, admittedAt>>

Labels == {"idle", "store", "cookie", "check", "run", "clear"}

TypeOK ==
    /\ now \in Times
    /\ sessions \in [Tokens -> Deadlines \cup {None}]
    /\ pc \in [Requests -> Labels]
    /\ carries \in [Requests -> Tokens \cup {None}]
    /\ jar \subseteq Tokens
    /\ swept \in Times /\ stopped \in BOOLEAN
    /\ born \in [Tokens -> Times \cup {None}]
    /\ over \subseteq Tokens
    /\ late \in [Requests -> BOOLEAN]
    /\ admittedAt \in [Requests -> Times \cup {None}]

Init ==
    /\ now = 0
    /\ sessions = [t \in Tokens |-> None]
    /\ pc = [r \in Requests |-> "idle"]
    /\ carries = [r \in Requests |-> None]
    /\ jar = {} /\ over = {}
    /\ swept = 0 /\ stopped = FALSE
    /\ born = [t \in Tokens |-> None]
    /\ late = [r \in Requests |-> FALSE]
    /\ admittedAt = [r \in Requests |-> None]

Goto(r, label) == pc' = [pc EXCEPT ![r] = label]

\* The handler returns.
Done(r) ==
    /\ Goto(r, "idle")
    /\ carries' = [carries EXCEPT ![r] = None]
    /\ late' = [late EXCEPT ![r] = FALSE]
    /\ admittedAt' = [admittedAt EXCEPT ![r] = None]

-----------------------------------------------------------------------------

\* The password is right and CreateSession draws a token nobody has.
Login(r, t) ==
    /\ pc[r] = "idle"
    /\ born[t] = None /\ \A q \in Requests : carries[q] # t
    /\ Goto(r, "store")
    /\ carries' = [carries EXCEPT ![r] = t]
    /\ UNCHANGED <<now, sessions, jar, swept, stopped, history>>

\* CreateSession stores it.
CreateSession(r) ==
    /\ pc[r] = "store"
    /\ sessions' = [sessions EXCEPT ![carries[r]] = now + TTL]
    /\ born' = [born EXCEPT ![carries[r]] = now]
    /\ Goto(r, "cookie")
    /\ UNCHANGED <<now, carries, jar, swept, stopped, over, late, admittedAt>>

\* The answer with the cookie reaches the browser, or is lost.
SetCookie(r) ==
    /\ pc[r] = "cookie"
    /\ jar' = jar \cup {carries[r]} \/ UNCHANGED jar
    /\ Done(r)
    /\ UNCHANGED <<now, sessions, swept, stopped, born, over>>

\* A request for an admin route, with a cookie the browser has or had.
Arrive(r, t) ==
    /\ pc[r] = "idle"
    /\ t \in jar
    /\ carries' = [carries EXCEPT ![r] = t]
    /\ late' = [late EXCEPT ![r] = t \in over]
    /\ Goto(r, "check")
    /\ UNCHANGED <<now, sessions, jar, swept, stopped, born, over, admittedAt>>

\* ValidateSession under the mutex: an expired session is deleted (variants:
\* expiry is left to the sweeper; the session is extended, then checked).
InMap(t) == sessions[t] # None
Expired(t) == InMap(t) /\ now > sessions[t]
Live(t) == InMap(t) /\ ~Expired(t)

LetIn(r) ==
    /\ Goto(r, "run")
    /\ admittedAt' = [admittedAt EXCEPT ![r] = now]
AdmitMapped(r) ==
    /\ pc[r] = "check" /\ InMap(carries[r])
    /\ LetIn(r)
    /\ UNCHANGED <<now, sessions, carries, jar, swept, stopped, born, over, late>>
AdmitSliding(r) ==
    /\ pc[r] = "check" /\ InMap(carries[r])
    /\ sessions' = [sessions EXCEPT ![carries[r]] = now + TTL]
    /\ LetIn(r)
    /\ UNCHANGED <<now, carries, jar, swept, stopped, born, over, late>>
Admit(r) ==
    /\ pc[r] = "check" /\ Live(carries[r])
    /\ LetIn(r)
    /\ UNCHANGED <<now, sessions, carries, jar, swept, stopped, born, over, late>>

Refuse(r) ==    \* 401
    /\ pc[r] = "check" /\ ~Live(carries[r])
    /\ sessions' = [sessions EXCEPT ![carries[r]] = None]
    /\ Done(r)
    /\ UNCHANGED <<now, jar, swept, stopped, born, over>>

\* The handler of an admin route other than logout does its work.
Serve(r) ==
    /\ pc[r] = "run"
    /\ Done(r)
    /\ UNCHANGED <<now, sessions, jar, swept, stopped, born, over>>

\* Logout (variant: it clears the cookie only).
LogoutCookieOnly(r) ==
    /\ pc[r] = "run"
    /\ Goto(r, "clear")
    /\ UNCHANGED <<now, sessions, carries, jar, swept, stopped, history>>
Logout(r) ==
    /\ pc[r] = "run"
    /\ sessions' = [sessions EXCEPT ![carries[r]] = None]
    /\ Goto(r, "clear")
    /\ UNCHANGED <<now, carries, jar, swept, stopped, history>>

\* Its answer clears the cookie of the browser it reaches; another tab or
\* a request under way may still carry the token.
ClearCookie(r) ==
    /\ pc[r] = "clear"
    /\ over' = over \cup {carries[r]}
    /\ Done(r)
    /\ UNCHANGED <<now, sessions, jar, swept, stopped, born>>

\* The sweeper's ticker fired (variant: it stops at the first it deletes).
SweepDue == ~stopped /\ now - swept >= Period
SweepFirst ==
    /\ SweepDue
    /\ \/ \E t \in Tokens : Expired(t) /\ sessions' = [sessions EXCEPT ![t] = None]
       \/ (\A t \in Tokens : ~Expired(t)) /\ UNCHANGED sessions
    /\ swept' = now
    /\ UNCHANGED <<now, pc, carries, jar, stopped, history>>
Sweep ==
    /\ SweepDue
    /\ sessions' = [t \in Tokens |-> IF Expired(t) THEN None ELSE sessions[t]]
    /\ swept' = now
    /\ UNCHANGED <<now, pc, carries, jar, stopped, history>>

Stop ==
    /\ ~stopped
    /\ stopped' = TRUE
    /\ UNCHANGED <<now, sessions, pc, carries, jar, swept, history>>

\* A due sweep is not overtaken by time.
Tick ==
    /\ now < MaxTime /\ ~SweepDue
    /\ now' = now + 1
    /\ UNCHANGED <<sessions, pc, carries, jar, swept, stopped, history>>

\* The process dies and starts again; the browsers keep their cookies.
Restart ==
    /\ sessions' = [t \in Tokens |-> None]
    /\ pc' = [r \in Requests |-> "idle"]
    /\ carries' = [r \in Requests |-> None]
    /\ late' = [r \in Requests |-> FALSE]
    /\ admittedAt' = [r \in Requests |-> None]
    /\ swept' = now /\ stopped' = FALSE
    /\ UNCHANGED <<now, jar, born, over>>

Next ==
    \/ \E r \in Requests :
        \/ \E t \in Tokens : Login(r, t) \/ Arrive(r, t)
        \/ CreateSession(r) \/ SetCookie(r)
        \/ Admit(r) \/ Refuse(r) \/ Serve(r) \/ Logout(r) \/ ClearCookie(r)
    \/ Sweep \/ Stop \/ Tick \/ Restart

Spec == Init /\ [][Next]_vars

-----------------------------------------------------------------------------
(* Properties *)

\* A session that has ended, by logout, expiry, sweep or restart, never comes
\* back, whatever requests with its token are still under way.
DeadStaysDead ==
    [][\A t \in Tokens : born[t] # None /\ ~Live(t) => ~Live(t)']_vars

\* No request that arrives after its session's logout was answered is let in.
LoggedOutNoMore == \A r \in Requests : pc[r] = "run" => ~late[r]

\* Whoever is let in has a session that was created at most one TTL before.
AdmittedInLife ==
    \A r \in Requests : pc[r] = "run" =>
        /\ born[carries[r]] # None /\ born[carries[r]] <= admittedAt[r]
        /\ admittedAt[r] <= born[carries[r]] + TTL

\* The map holds a session at most one sweeping period beyond its end.
ForgottenInTime ==
    \A t \in Tokens : InMap(t) /\ ~stopped => now <= sessions[t] + Period

\* Why: the map and the history agree.
Kept(t) ==
    /\ born[t] # None /\ born[t] <= now
    /\ sessions[t] = born[t] + TTL
    /\ t \notin over
    /\ ~stopped => swept <= sessions[t]
Busy(r) ==
    /\ pc[r] # "idle" => carries[r] \in Tokens
    /\ pc[r] = "store" => /\ born[carries[r]] = None
                          /\ \A q \in Requests \ {r} : carries[q] # carries[r]
    /\ pc[r] \in {"cookie", "check", "run", "clear"} => born[carries[r]] # None
    /\ pc[r] = "clear" => ~InMap(carries[r])
    /\ late[r] => pc[r] # "idle" /\ carries[r] \in over
IInv ==
    /\ TypeOK
    /\ swept <= now /\ (~stopped => now - swept <= Period)
    /\ \A t \in jar \cup over : born[t] # None
    /\ \A t \in Tokens : InMap(t) => Kept(t)
    /\ \A r \in Requests : Busy(r)
    /\ LoggedOutNoMore
    /\ AdmittedInLife

=============================================================================
