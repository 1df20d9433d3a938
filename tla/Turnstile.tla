------------------------------ MODULE Turnstile ------------------------------
(***************************************************************************)
(* internal/service/turnstile.go: Verify asks Cloudflare about a token and *)
(* caches the verdict for five minutes per (token, client IP).  Concurrent *)
(* calls share the cache; Cloudflare redeems a genuine token once.  Time   *)
(* is coarse: it passes only while calls wait for Cloudflare.              *)
(***************************************************************************)
EXTENDS Naturals

CONSTANTS
    Requests,   \* goroutines calling Verify
    Tokens,
    Genuine,    \* the tokens the widget really issued
    Addresses,  \* client IPs
    TTL,        \* how long a cached verdict is used
    Timeout,    \* of the HTTP client
    MaxTime,    \* bound on the clock
    None        \* no cache entry, no call, no time

Keys == Tokens \X Addresses
Times == 0 .. MaxTime
Entry == [success : BOOLEAN, at : Times]

ASSUME TokensAssumption == Genuine \subseteq Tokens
ASSUME TimesAssumption == TTL \in Nat \ {0} /\ Timeout \in Nat \ {0} /\ MaxTime \in Nat
ASSUME NoneAssumption == None \notin Entry \cup Times \cup Keys

VARIABLES
    now,
    cache,      \* what the verifier remembers per key
    pc,         \* where each call is
    asked,      \* its arguments: token and client IP
    since,      \* when it sent its HTTP request
    verdict,    \* what Cloudflare said, then what Verify returns
    spent,      \* Cloudflare: tokens already redeemed
    acceptedAt, \* history: when Cloudflare last accepted a token for an address
    rejected    \* history: what Cloudflare turned down at least once

cloudflare == <<spent, acceptedAt, rejected>>
vars == <<now, cache, pc, asked, since, verdict, spent, acceptedAt, rejected>>

TypeOK ==
    /\ now \in Times
    /\ cache \in [Keys -> Entry \cup {None}]
    /\ pc \in [Requests -> {"idle", "check", "call", "answer", "done"}]
    /\ asked \in [Requests -> Keys \cup {None}]
    /\ since \in [Requests -> Times \cup {None}]
    /\ verdict \in [Requests -> {"none", "yes", "no", "error"}]
    /\ spent \subseteq Genuine
    /\ acceptedAt \in [Keys -> Times \cup {None}]
    /\ rejected \subseteq Keys

Quiet ==    \* a new process: nobody calls, nothing is remembered
    [cache |-> [k \in Keys |-> None],
     pc |-> [r \in Requests |-> "idle"],
     none |-> [r \in Requests |-> None],
     verdict |-> [r \in Requests |-> "none"]]

Init ==
    /\ now = 0
    /\ cache = Quiet.cache /\ pc = Quiet.pc /\ verdict = Quiet.verdict
    /\ asked = Quiet.none /\ since = Quiet.none
    /\ spent = {} /\ rejected = {}
    /\ acceptedAt = [k \in Keys |-> None]

\* SHA-256 of "token:ip" (variant: the address left out).
CacheKeyTokenOnly(k) == <<k[1], CHOOSE a \in Addresses : TRUE>>
CacheKey(k) == k

\* An entry is used for TTL from when it was stored (variant: forever).
FreshForever(k) == cache[k] # None
Fresh(k) == cache[k] # None /\ now - cache[k].at < TTL

Goto(r, label) == pc' = [pc EXCEPT ![r] = label]
Decide(r, v) == verdict' = [verdict EXCEPT ![r] = v]

-----------------------------------------------------------------------------

Verify(r, k) ==
    /\ pc[r] = "idle"
    /\ Goto(r, "check")
    /\ asked' = [asked EXCEPT ![r] = k]
    /\ UNCHANGED <<now, cache, since, verdict, cloudflare>>

\* Under the read lock, which is released before the HTTP request.
Hit(r) ==
    /\ pc[r] = "check"
    /\ Fresh(CacheKey(asked[r]))
    /\ Decide(r, IF cache[CacheKey(asked[r])].success THEN "yes" ELSE "no")
    /\ Goto(r, "done")
    /\ UNCHANGED <<now, cache, asked, since, cloudflare>>

Miss(r) ==
    /\ pc[r] = "check"
    /\ ~Fresh(CacheKey(asked[r]))
    /\ since' = [since EXCEPT ![r] = now]
    /\ Goto(r, "call")
    /\ UNCHANGED <<now, cache, asked, verdict, cloudflare>>

\* Cloudflare redeems a genuine token once and may turn down anything it does
\* not like (expired, issued to another address).
Accept(r) ==
    /\ pc[r] = "call"
    /\ asked[r][1] \in Genuine \ spent
    /\ spent' = spent \cup {asked[r][1]}
    /\ acceptedAt' = [acceptedAt EXCEPT ![asked[r]] = now]
    /\ Decide(r, "yes")
    /\ Goto(r, "answer")
    /\ UNCHANGED <<now, cache, asked, since, rejected>>

Reject(r) ==
    /\ pc[r] = "call"
    /\ rejected' = rejected \cup {asked[r]}
    /\ Decide(r, "no")
    /\ Goto(r, "answer")
    /\ UNCHANGED <<now, cache, asked, since, spent, acceptedAt>>

\* The answer arrives and is cached under the write lock, over whatever another
\* call stored meanwhile.
Store(r) ==
    /\ pc[r] = "answer"
    /\ cache' = [cache EXCEPT ![CacheKey(asked[r])] =
                    [success |-> verdict[r] = "yes", at |-> now]]
    /\ Goto(r, "done")
    /\ UNCHANGED <<now, asked, since, verdict, cloudflare>>

\* The request or its answer is lost, unreadable or late, or the client of the
\* service is gone: an error, which is not cached (variant: an HTTP client
\* without timeout).
BreakNoTimeout(r) ==
    /\ pc[r] = "answer"
    /\ Decide(r, "error")
    /\ Goto(r, "done")
    /\ UNCHANGED <<now, cache, asked, since, cloudflare>>
Break(r) ==
    /\ pc[r] \in {"call", "answer"}
    /\ Decide(r, "error")
    /\ Goto(r, "done")
    /\ UNCHANGED <<now, cache, asked, since, cloudflare>>

Return(r) ==
    /\ pc[r] = "done"
    /\ Goto(r, "idle")
    /\ Decide(r, "none")
    /\ asked' = [asked EXCEPT ![r] = None]
    /\ since' = [since EXCEPT ![r] = None]
    /\ UNCHANGED <<now, cache, cloudflare>>

\* Time passes while every running call waits for Cloudflare, and none waits
\* beyond the HTTP client's timeout.
Tick ==
    /\ now < MaxTime
    /\ \A r \in Requests : \/ pc[r] = "idle"
                           \/ pc[r] \in {"call", "answer"} /\ now - since[r] < Timeout
    /\ now' = now + 1
    /\ UNCHANGED <<cache, pc, asked, since, verdict, cloudflare>>

\* A restarted process has an empty cache; Cloudflare remembers.
Restart ==
    /\ cache' = Quiet.cache /\ pc' = Quiet.pc /\ verdict' = Quiet.verdict
    /\ asked' = Quiet.none /\ since' = Quiet.none
    /\ UNCHANGED <<now, cloudflare>>

Next ==
    \/ \E r \in Requests :
        \/ \E k \in Keys : Verify(r, k)
        \/ Hit(r) \/ Miss(r) \/ Accept(r) \/ Reject(r)
        \/ Store(r) \/ Break(r) \/ Return(r)
    \/ Tick
    \/ Restart

Spec == Init /\ [][Next]_vars

-----------------------------------------------------------------------------
(* Properties *)

\* The cache never invents or mixes up a verdict: what it remembers for a token
\* and an address is something Cloudflare said about just them, whichever of
\* the overlapping calls stored it and whichever calls failed.
CacheTruthful ==
    \A k \in Keys : cache[k] # None =>
        IF cache[k].success THEN acceptedAt[k] # None ELSE k \in rejected

\* A comment is let through on an acceptance of its own token for its own
\* address that is younger than the TTL and one HTTP timeout together: a slow
\* answer that is cached on arrival does not stretch it further.
AcceptanceIsRecent ==
    \A r \in Requests : pc[r] = "done" /\ verdict[r] = "yes" =>
        /\ acceptedAt[asked[r]] # None
        /\ now - acceptedAt[asked[r]] < TTL + Timeout

-----------------------------------------------------------------------------
(* What the properties rest on: inductive.                                   *)

\* Cloudflare accepts a token once.
OnceAccepted == \A k \in Keys : acceptedAt[k] # None => k[1] \in spent

\* A success is stored at most one HTTP timeout after it was pronounced.
StoredInTime ==
    \A k \in Keys : cache[k] # None /\ cache[k].success =>
        acceptedAt[k] # None /\ cache[k].at - acceptedAt[k] <= Timeout

\* What a call holds on each of its steps.
CallsKeep ==
    \A r \in Requests :
        /\ pc[r] # "idle" => asked[r] \in Keys
        /\ pc[r] \in {"call", "answer"} =>
               since[r] \in Times /\ since[r] <= now /\ now - since[r] <= Timeout
        /\ pc[r] = "answer" =>
               \/ /\ verdict[r] = "yes" /\ acceptedAt[asked[r]] # None
                  /\ since[r] <= acceptedAt[asked[r]]
               \/ verdict[r] = "no" /\ asked[r] \in rejected

VerifierInv ==
    TypeOK /\ OnceAccepted /\ StoredInTime /\ CallsKeep /\ CacheTruthful /\ AcceptanceIsRecent

=============================================================================
