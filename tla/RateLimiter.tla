---------------------------- MODULE RateLimiter ----------------------------
(***************************************************************************)
(* internal/middleware/ratelimit.go: one token bucket per client address   *)
(* in a map that a background goroutine sweeps.  A request looks its       *)
(* bucket up under the mutex and asks it after the mutex is released.      *)
(* Requests the middleware does not limit never get here.                  *)
(*                                                                         *)
(* The unit of time is the interval in which a bucket regains one token,   *)
(* 60 s / RATE_LIMIT_RPM: with the defaults 6 s, Idle is 50 and Burst 15.  *)
(***************************************************************************)
EXTENDS Naturals

CONSTANTS
    Handlers,   \* goroutines serving requests
    Clients,    \* client addresses
    Limiters,   \* identities of *rate.Limiter objects
    Burst,
    Idle,       \* the sweeper's period and the age it tolerates: 5 minutes
    Stall,      \* the longest a goroutine takes from lookup to Allow
    MaxTime,    \* bound on the clock
    None

Times == 0 .. MaxTime
Limiter == [tokens : 0 .. Burst, last : Times]
Visitor == [limiter : Limiters, lastSeen : Times]

ASSUME TimesAssumption == MaxTime \in Nat /\ Idle \in Nat \ {0} /\ Stall \in Nat
ASSUME BurstAssumption == Burst \in Nat \ {0}
\* A visitor that the sweeper forgets must have had a full bucket.
ASSUME RefillAssumption == Burst + Stall <= Idle + 1
ASSUME NoneAssumption == None \notin Visitor /\ None \notin Handlers \cup Limiters

VARIABLES
    now,
    visitors,   \* the map: limiter and last request of a client
    limiters,   \* the heap: tokens when last taken from, and when
    pc, client, holds, since,   \* a goroutine between lookup and Allow
    swept,      \* the sweeper's last tick
    stopped,    \* stopCh is closed
    opened, admitted, refusals  \* history, as in TokenBucket

history == <<opened, admitted, refusals>>
goroutine == <<pc, client, holds, since>>
vars == <<now, visitors, limiters, pc, client, holds, since, swept, stopped,
          opened, admitted, refusals>>

TypeOK ==
    /\ now \in Times
    /\ visitors \in [Clients -> Visitor \cup {None}]
    /\ limiters \in [Limiters -> Limiter]
    /\ pc \in [Handlers -> {"idle", "ask"}]
    /\ client \in [Handlers -> Clients \cup {None}]
    /\ holds \in [Handlers -> Limiters \cup {None}]
    /\ since \in [Handlers -> Times]
    /\ swept \in Times /\ stopped \in BOOLEAN
    /\ opened \in Times /\ admitted \in [Clients -> Nat]
    /\ refusals \in [Clients -> BOOLEAN]

\* rate.NewLimiter.
Fresh == [tokens |-> Burst, last |-> now]

Init ==
    /\ now = 0
    /\ visitors = [c \in Clients |-> None]
    /\ limiters = [l \in Limiters |-> Fresh]
    /\ pc = [h \in Handlers |-> "idle"]
    /\ client = [h \in Handlers |-> None]
    /\ holds = [h \in Handlers |-> None]
    /\ since = [h \in Handlers |-> 0]
    /\ swept = 0 /\ stopped = FALSE
    /\ opened = 0
    /\ admitted = [c \in Clients |-> 0]
    /\ refusals = [c \in Clients |-> FALSE]

Smaller(a, b) == IF a <= b THEN a ELSE b

\* rate.Limiter.advance: what the bucket holds now.
Level(l) == Smaller(Burst, limiters[l].tokens + (now - limiters[l].last))

Unused(l) ==
    /\ \A c \in Clients : visitors[c] # None => visitors[c].limiter # l
    /\ \A h \in Handlers : holds[h] # l

Take(h, c, l) ==
    /\ pc' = [pc EXCEPT ![h] = "ask"]
    /\ client' = [client EXCEPT ![h] = c]
    /\ holds' = [holds EXCEPT ![h] = l]
    /\ since' = [since EXCEPT ![h] = now]

-----------------------------------------------------------------------------

\* getVisitor, an unknown client: a new, full bucket.
Meet(h, c, l) ==
    /\ pc[h] = "idle" /\ visitors[c] = None /\ Unused(l)
    /\ limiters' = [limiters EXCEPT ![l] = Fresh]
    /\ visitors' = [visitors EXCEPT ![c] = [limiter |-> l, lastSeen |-> now]]
    /\ Take(h, c, l)
    /\ UNCHANGED <<now, swept, stopped, history>>

\* getVisitor, a known client (variant: lastSeen is not brought up to date).
FindUnseen(h, c) ==
    /\ pc[h] = "idle" /\ visitors[c] # None
    /\ Take(h, c, visitors[c].limiter)
    /\ UNCHANGED <<now, visitors, limiters, swept, stopped, history>>
Find(h, c) ==
    /\ pc[h] = "idle" /\ visitors[c] # None
    /\ visitors' = [visitors EXCEPT ![c].lastSeen = now]
    /\ Take(h, c, visitors[c].limiter)
    /\ UNCHANGED <<now, limiters, swept, stopped, history>>

Leave(h) ==
    /\ pc' = [pc EXCEPT ![h] = "idle"]
    /\ client' = [client EXCEPT ![h] = None]
    /\ holds' = [holds EXCEPT ![h] = None]
    /\ since' = [since EXCEPT ![h] = 0]

\* limiter.Allow() is true and the request goes on to the next handler.
Allow(h) ==
    /\ pc[h] = "ask" /\ Level(holds[h]) > 0
    /\ limiters' = [limiters EXCEPT ![holds[h]] =
                       [tokens |-> Level(holds[h]) - 1, last |-> now]]
    /\ admitted' = [admitted EXCEPT ![client[h]] = @ + 1]
    /\ Leave(h)
    /\ UNCHANGED <<now, visitors, swept, stopped, opened, refusals>>

\* It is false: 429, and nothing is taken (variant: one token too early).
RefuseEarly(h) ==
    /\ pc[h] = "ask" /\ Level(holds[h]) <= 1
    /\ refusals' = [refusals EXCEPT ![client[h]] = ~@]
    /\ Leave(h)
    /\ UNCHANGED <<now, visitors, limiters, swept, stopped, opened, admitted>>
Refuse(h) ==
    /\ pc[h] = "ask" /\ Level(holds[h]) = 0
    /\ refusals' = [refusals EXCEPT ![client[h]] = ~@]
    /\ Leave(h)
    /\ UNCHANGED <<now, visitors, limiters, swept, stopped, opened, admitted>>

\* The sweeper's ticker fired (variants: it forgets everybody; it leaves the
\* loop after the first one it forgets).
SweepDue == ~stopped /\ now - swept >= Idle
Stale(c) == visitors[c] # None /\ now - visitors[c].lastSeen > Idle
SweepAll ==
    /\ SweepDue
    /\ visitors' = [c \in Clients |-> None]
    /\ swept' = now
    /\ UNCHANGED <<now, limiters, goroutine, stopped, history>>
SweepFirst ==
    /\ SweepDue
    /\ \/ \E c \in Clients : Stale(c) /\ visitors' = [visitors EXCEPT ![c] = None]
       \/ (\A c \in Clients : ~Stale(c)) /\ UNCHANGED visitors
    /\ swept' = now
    /\ UNCHANGED <<now, limiters, goroutine, stopped, history>>
Sweep ==
    /\ SweepDue
    /\ visitors' = [c \in Clients |-> IF Stale(c) THEN None ELSE visitors[c]]
    /\ swept' = now
    /\ UNCHANGED <<now, limiters, goroutine, stopped, history>>

Stop ==
    /\ ~stopped
    /\ stopped' = TRUE
    /\ UNCHANGED <<now, visitors, limiters, goroutine, swept, history>>

\* Time does not pass over a due sweep or a goroutine that stalls too long.
Tick ==
    /\ now < MaxTime
    /\ ~SweepDue
    /\ \A h \in Handlers : pc[h] = "ask" => now - since[h] < Stall
    /\ now' = now + 1
    /\ UNCHANGED <<visitors, limiters, goroutine, swept, stopped, history>>

OpenWindow ==
    /\ opened' = now
    /\ admitted' = [c \in Clients |-> 0]
    /\ UNCHANGED <<now, visitors, limiters, goroutine, swept, stopped, refusals>>

Next ==
    \/ \E h \in Handlers :
        \/ \E c \in Clients : Find(h, c) \/ \E l \in Limiters : Meet(h, c, l)
        \/ Allow(h) \/ Refuse(h)
    \/ Sweep \/ Stop \/ Tick \/ OpenWindow

Spec == Init /\ [][Next]_vars

-----------------------------------------------------------------------------
(* Properties *)

\* Over any window, a client gets at most its burst and one request per unit of
\* time, although the sweeper forgets clients and hands out full buckets anew.
Quota == \A c \in Clients : admitted[c] <= Burst + (now - opened)

\* A request asks the bucket the map holds for its client, although the mutex
\* is released in between: requests of one client never have separate quotas,
\* and requests of two clients never share one.
HeldIsMapped ==
    /\ \A h \in Handlers : pc[h] = "ask" =>
        visitors[client[h]] # None /\ visitors[client[h]].limiter = holds[h]
    /\ \A c, d \in Clients : visitors[c] # None /\ visitors[d] # None =>
        (visitors[c].limiter = visitors[d].limiter => c = d)

\* The map holds only clients of the last two periods of the sweeper.
ForgottenInTime ==
    \A c \in Clients : visitors[c] # None /\ ~stopped =>
        now - visitors[c].lastSeen <= 2 * Idle

\* The limiter implements one everlasting bucket per client: a forgotten client
\* is one whose bucket is full.
Credit(c) == IF visitors[c] = None THEN Burst ELSE Level(visitors[c].limiter)
Bucket == INSTANCE TokenBucket WITH credit <- [c \in Clients |-> Credit(c)]
ImplementsBucket == Bucket!Spec

\* Why it does: every limiter was last taken from within Stall of the last
\* lookup of its client, and a goroutine that waits looked up recently.
Recent(c) ==
    /\ visitors[c].lastSeen <= now
    /\ limiters[visitors[c].limiter].last <= now
    /\ limiters[visitors[c].limiter].last <= visitors[c].lastSeen + Stall
    /\ ~stopped => swept <= visitors[c].lastSeen + Idle
Waiting(h) ==
    /\ client[h] \in Clients /\ holds[h] \in Limiters
    /\ since[h] <= now /\ now - since[h] <= Stall
    /\ since[h] <= visitors[client[h]].lastSeen
Clock == opened <= now /\ swept <= now /\ (~stopped => now - swept <= Idle)
Paid == \A c \in Clients : admitted[c] + Credit(c) <= Burst + (now - opened)
IInv ==
    /\ TypeOK
    /\ HeldIsMapped
    /\ Clock
    /\ \A c \in Clients : visitors[c] # None => Recent(c)
    /\ \A h \in Handlers : IF pc[h] = "ask" THEN Waiting(h) ELSE holds[h] = None
    /\ Paid

=============================================================================
