-------------------------- MODULE Submission_proofs --------------------------
(***************************************************************************)
(* What the captcha verifier and the attempts to submit a comment keep, for *)
(* any number of goroutines, tokens, addresses and attempts and any times. *)
(* The first part is about Turnstile alone; Submission's steps are steps   *)
(* of it, so that what the verifier keeps holds there as well.             *)
(***************************************************************************)
EXTENDS Submission, FiniteSetTheorems, TLAPS

\* None is no entry, no time and no key.
LEMMA NoneFacts ==
    /\ \A e \in Entry : e # None
    /\ \A t \in Times : t # None
    /\ \A k \in Keys : k # None
BY NoneAssumption

LEMMA InitVerifier == Init => VerifierInv
<1> SUFFICES ASSUME Init PROVE VerifierInv
  OBVIOUS
<1>1. /\ cache = [k \in Keys |-> None] /\ pc = [r \in Requests |-> "idle"]
      /\ verdict = [r \in Requests |-> "none"]
      /\ asked = [r \in Requests |-> None] /\ since = [r \in Requests |-> None]
  BY DEF Init, Quiet
<1>2. TypeOK
  BY <1>1, TimesAssumption DEF Init, TypeOK, Times
<1>3. OnceAccepted /\ StoredInTime /\ CacheTruthful
  BY <1>1 DEF Init, OnceAccepted, StoredInTime, CacheTruthful
<1>4. CallsKeep /\ AcceptanceIsRecent
  BY <1>1 DEF CallsKeep, AcceptanceIsRecent
<1> QED
  BY <1>2, <1>3, <1>4 DEF VerifierInv

-----------------------------------------------------------------------------
(* The verifier, step by step.                                               *)

LEMMA VerifyKeeps == ASSUME NEW r \in Requests, NEW k \in Keys, VerifierInv, Verify(r, k)
                     PROVE  VerifierInv'
<1>1. TypeOK'
  BY DEF VerifierInv, TypeOK, Verify, Goto, cloudflare
<1>2. (OnceAccepted /\ StoredInTime /\ CacheTruthful)'
  BY DEF VerifierInv, OnceAccepted, StoredInTime, CacheTruthful, Verify, cloudflare
<1>3. (CallsKeep /\ AcceptanceIsRecent)'
  BY DEF VerifierInv, TypeOK, CallsKeep, AcceptanceIsRecent, Verify, Goto, cloudflare
<1> QED
  BY <1>1, <1>2, <1>3 DEF VerifierInv

LEMMA HitKeeps == ASSUME NEW r \in Requests, VerifierInv, Hit(r)
                  PROVE  VerifierInv'
<1>0. /\ pc[r] = "check" /\ asked[r] \in Keys /\ Fresh(asked[r])
      /\ pc' = [pc EXCEPT ![r] = "done"]
      /\ verdict' = [verdict EXCEPT ![r] = IF cache[asked[r]].success THEN "yes" ELSE "no"]
      /\ UNCHANGED <<now, cache, asked, since, spent, acceptedAt, rejected>>
  BY DEF VerifierInv, CallsKeep, Hit, CacheKey, Goto, Decide, cloudflare
<1>1. TypeOK'
  BY <1>0 DEF VerifierInv, TypeOK
<1>2. (OnceAccepted /\ StoredInTime /\ CacheTruthful)'
  BY <1>0 DEF VerifierInv, OnceAccepted, StoredInTime, CacheTruthful
<1>3. CallsKeep'
  BY <1>0 DEF VerifierInv, TypeOK, CallsKeep
<1>4. cache[asked[r]].success => /\ acceptedAt[asked[r]] # None
                                 /\ now - acceptedAt[asked[r]] < TTL + Timeout
  <2>1. cache[asked[r]] \in Entry /\ acceptedAt[asked[r]] \in Times \cup {None} /\ now \in Times
    BY <1>0 DEF VerifierInv, TypeOK, Fresh
  <2>2. cache[asked[r]].success => /\ acceptedAt[asked[r]] # None
                                   /\ cache[asked[r]].at - acceptedAt[asked[r]] <= Timeout
    BY <1>0 DEF VerifierInv, StoredInTime, Fresh
  <2>3. now - cache[asked[r]].at < TTL
    BY <1>0 DEF Fresh
  <2> QED
    BY <2>1, <2>2, <2>3, TimesAssumption DEF Entry, Times
<1>5. AcceptanceIsRecent'
  BY <1>0, <1>4 DEF VerifierInv, TypeOK, AcceptanceIsRecent
<1> QED
  BY <1>1, <1>2, <1>3, <1>5 DEF VerifierInv

LEMMA MissKeeps == ASSUME NEW r \in Requests, VerifierInv, Miss(r)
                   PROVE  VerifierInv'
<1>1. TypeOK'
  BY DEF VerifierInv, TypeOK, Miss, Goto, cloudflare
<1>2. (OnceAccepted /\ StoredInTime /\ CacheTruthful)'
  BY DEF VerifierInv, OnceAccepted, StoredInTime, CacheTruthful, Miss, cloudflare
<1>3. (CallsKeep /\ AcceptanceIsRecent)'
  BY TimesAssumption DEF VerifierInv, TypeOK, Times, CallsKeep, AcceptanceIsRecent, Miss, Goto, cloudflare
<1> QED
  BY <1>1, <1>2, <1>3 DEF VerifierInv

LEMMA AcceptKeeps == ASSUME NEW r \in Requests, VerifierInv, Accept(r)
                     PROVE  VerifierInv'
<1>0. /\ pc[r] = "call" /\ asked[r] \in Keys /\ acceptedAt[asked[r]] = None
      /\ spent' = spent \cup {asked[r][1]}
      /\ acceptedAt' = [acceptedAt EXCEPT ![asked[r]] = now]
      /\ verdict' = [verdict EXCEPT ![r] = "yes"]
      /\ pc' = [pc EXCEPT ![r] = "answer"]
      /\ UNCHANGED <<now, cache, asked, since, rejected>>
  BY DEF VerifierInv, CallsKeep, OnceAccepted, Accept, Goto, Decide
<1>1. TypeOK'
  BY <1>0 DEF VerifierInv, TypeOK, Accept
<1>2. now # None
  BY NoneFacts DEF VerifierInv, TypeOK
<1>3. OnceAccepted'
  BY <1>0 DEF VerifierInv, OnceAccepted, TypeOK
<1>4. (StoredInTime /\ CacheTruthful)'
  BY <1>0, <1>2 DEF VerifierInv, StoredInTime, CacheTruthful, TypeOK
<1>5. CallsKeep'
  BY <1>0, <1>2 DEF VerifierInv, TypeOK, CallsKeep
<1>6. AcceptanceIsRecent'
  BY <1>0 DEF VerifierInv, TypeOK, AcceptanceIsRecent
<1> QED
  BY <1>1, <1>3, <1>4, <1>5, <1>6 DEF VerifierInv

LEMMA RejectKeeps == ASSUME NEW r \in Requests, VerifierInv, Reject(r)
                     PROVE  VerifierInv'
<1>0. /\ pc[r] = "call" /\ asked[r] \in Keys
      /\ rejected' = rejected \cup {asked[r]}
      /\ verdict' = [verdict EXCEPT ![r] = "no"]
      /\ pc' = [pc EXCEPT ![r] = "answer"]
      /\ UNCHANGED <<now, cache, asked, since, spent, acceptedAt>>
  BY DEF VerifierInv, CallsKeep, Reject, Goto, Decide
<1>1. TypeOK'
  BY <1>0 DEF VerifierInv, TypeOK
<1>2. (OnceAccepted /\ StoredInTime /\ CacheTruthful)'
  BY <1>0 DEF VerifierInv, OnceAccepted, StoredInTime, CacheTruthful
<1>3. (CallsKeep /\ AcceptanceIsRecent)'
  BY <1>0 DEF VerifierInv, TypeOK, CallsKeep, AcceptanceIsRecent
<1> QED
  BY <1>1, <1>2, <1>3 DEF VerifierInv

LEMMA StoreKeeps == ASSUME NEW r \in Requests, VerifierInv, Store(r)
                    PROVE  VerifierInv'
<1> DEFINE entry == [success |-> verdict[r] = "yes", at |-> now]
<1>0. /\ pc[r] = "answer" /\ asked[r] \in Keys
      /\ cache' = [cache EXCEPT ![asked[r]] = entry]
      /\ pc' = [pc EXCEPT ![r] = "done"]
      /\ UNCHANGED <<now, asked, since, verdict, spent, acceptedAt, rejected>>
  BY DEF VerifierInv, CallsKeep, Store, CacheKey, Goto, cloudflare
<1>1. /\ entry = IF verdict[r] = "yes" THEN [success |-> TRUE, at |-> now]
                                     ELSE [success |-> FALSE, at |-> now]
      /\ entry \in Entry
  <2>1. CASE verdict[r] = "yes"
    <3>1. (verdict[r] = "yes") = TRUE
      BY <2>1
    <3> QED
      BY <2>1, <3>1 DEF VerifierInv, TypeOK, Entry
  <2>2. CASE verdict[r] # "yes"
    <3>1. (verdict[r] = "yes") = FALSE
      BY <2>2
    <3> QED
      BY <2>2, <3>1 DEF VerifierInv, TypeOK, Entry
  <2> QED
    BY <2>1, <2>2
<1> HIDE DEF entry
<1>2. TypeOK'
  BY <1>0, <1>1 DEF VerifierInv, TypeOK
<1>3. /\ since[r] \in Times /\ now \in Times /\ now - since[r] <= Timeout
      /\ acceptedAt[asked[r]] \in Times \cup {None}
      /\ \/ verdict[r] = "yes" /\ acceptedAt[asked[r]] # None /\ since[r] <= acceptedAt[asked[r]]
         \/ verdict[r] = "no" /\ asked[r] \in rejected
  BY <1>0 DEF VerifierInv, CallsKeep, TypeOK
<1>4. verdict[r] = "yes" => acceptedAt[asked[r]] # None /\ now - acceptedAt[asked[r]] <= Timeout
  <2>1. SUFFICES ASSUME verdict[r] = "yes"
                 PROVE  acceptedAt[asked[r]] # None /\ now - acceptedAt[asked[r]] <= Timeout
    OBVIOUS
  <2>2. acceptedAt[asked[r]] \in Times /\ since[r] <= acceptedAt[asked[r]]
    BY <1>3, <2>1
  <2>3. now \in Int /\ since[r] \in Int /\ acceptedAt[asked[r]] \in Int /\ Timeout \in Int
    BY <1>3, <2>2, TimesAssumption DEF Times
  <2> QED
    BY <1>3, <2>2, <2>3, NoneFacts
<1>5. OnceAccepted'
  BY <1>0 DEF VerifierInv, OnceAccepted
<1>6. (StoredInTime /\ CacheTruthful)'
  <2> SUFFICES ASSUME NEW k \in Keys, cache'[k] # None
               PROVE  /\ cache'[k].success => /\ acceptedAt[k] # None
                                              /\ cache'[k].at - acceptedAt[k] <= Timeout
                      /\ ~cache'[k].success => k \in rejected
    BY <1>0 DEF StoredInTime, CacheTruthful
  <2>1. CASE k = asked[r]
    <3>1. cache'[k] = entry
      BY <1>0, <2>1 DEF VerifierInv, TypeOK
    <3> QED
      BY <1>1, <1>3, <1>4, <2>1, <3>1
  <2>2. CASE k # asked[r]
    <3>1. cache'[k] = cache[k]
      BY <1>0, <2>2 DEF VerifierInv, TypeOK
    <3> QED
      BY <3>1 DEF VerifierInv, StoredInTime, CacheTruthful
  <2> QED
    BY <2>1, <2>2
<1>7. CallsKeep'
  BY <1>0 DEF VerifierInv, TypeOK, CallsKeep
<1>8. AcceptanceIsRecent'
  <2>1. verdict[r] = "yes" => now - acceptedAt[asked[r]] < TTL + Timeout
    BY <1>3, <1>4, TimesAssumption DEF Times
  <2> QED
    BY <1>0, <1>4, <2>1 DEF VerifierInv, TypeOK, AcceptanceIsRecent
<1> QED
  BY <1>2, <1>5, <1>6, <1>7, <1>8 DEF VerifierInv

LEMMA BreakKeeps == ASSUME NEW r \in Requests, VerifierInv, Break(r)
                    PROVE  VerifierInv'
<1>1. TypeOK'
  BY DEF VerifierInv, TypeOK, Break, Goto, Decide, cloudflare
<1>2. (OnceAccepted /\ StoredInTime /\ CacheTruthful)'
  BY DEF VerifierInv, OnceAccepted, StoredInTime, CacheTruthful, Break, cloudflare
<1>3. (CallsKeep /\ AcceptanceIsRecent)'
  BY DEF VerifierInv, TypeOK, CallsKeep, AcceptanceIsRecent, Break, Goto, Decide, cloudflare
<1> QED
  BY <1>1, <1>2, <1>3 DEF VerifierInv

LEMMA ReturnKeeps == ASSUME NEW r \in Requests, VerifierInv, Return(r)
                     PROVE  VerifierInv'
<1>1. TypeOK'
  BY DEF VerifierInv, TypeOK, Return, Goto, Decide, cloudflare
<1>2. (OnceAccepted /\ StoredInTime /\ CacheTruthful)'
  BY DEF VerifierInv, OnceAccepted, StoredInTime, CacheTruthful, Return, cloudflare
<1>3. (CallsKeep /\ AcceptanceIsRecent)'
  BY DEF VerifierInv, TypeOK, CallsKeep, AcceptanceIsRecent, Return, Goto, Decide, cloudflare
<1> QED
  BY <1>1, <1>2, <1>3 DEF VerifierInv

LEMMA TickKeeps == VerifierInv /\ Tick => VerifierInv'
<1> SUFFICES ASSUME VerifierInv, Tick PROVE VerifierInv'
  OBVIOUS
<1>0. now \in Times /\ now' = now + 1 /\ now' \in Times
  BY TimesAssumption DEF VerifierInv, TypeOK, Times, Tick
<1>1. TypeOK'
  BY <1>0 DEF VerifierInv, TypeOK, Tick, cloudflare
<1>2. (OnceAccepted /\ StoredInTime /\ CacheTruthful)'
  BY DEF VerifierInv, OnceAccepted, StoredInTime, CacheTruthful, Tick, cloudflare
<1>3. CallsKeep'
  BY <1>0, TimesAssumption DEF VerifierInv, TypeOK, Times, CallsKeep, Tick, cloudflare
<1>4. AcceptanceIsRecent'
  BY DEF AcceptanceIsRecent, Tick, cloudflare
<1> QED
  BY <1>1, <1>2, <1>3, <1>4 DEF VerifierInv

LEMMA RestartKeeps == VerifierInv /\ Restart => VerifierInv'
<1> SUFFICES ASSUME VerifierInv, Restart PROVE VerifierInv'
  OBVIOUS
<1>0. /\ cache' = [k \in Keys |-> None] /\ pc' = [r \in Requests |-> "idle"]
      /\ verdict' = [r \in Requests |-> "none"]
      /\ asked' = [r \in Requests |-> None] /\ since' = [r \in Requests |-> None]
      /\ UNCHANGED <<now, spent, acceptedAt, rejected>>
  BY DEF Restart, Quiet, cloudflare
<1>1. TypeOK'
  BY <1>0 DEF VerifierInv, TypeOK
<1>2. (OnceAccepted /\ StoredInTime /\ CacheTruthful)'
  BY <1>0 DEF VerifierInv, OnceAccepted, StoredInTime, CacheTruthful
<1>3. (CallsKeep /\ AcceptanceIsRecent)'
  BY <1>0 DEF CallsKeep, AcceptanceIsRecent
<1> QED
  BY <1>1, <1>2, <1>3 DEF VerifierInv

LEMMA VerifierSteps == VerifierInv /\ [Next]_vars => VerifierInv'
<1> SUFFICES ASSUME VerifierInv, [Next]_vars PROVE VerifierInv'
  OBVIOUS
<1>1. CASE UNCHANGED vars
  BY <1>1 DEF VerifierInv, vars, TypeOK, OnceAccepted, StoredInTime, CallsKeep, CacheTruthful,
     AcceptanceIsRecent
<1> QED
  BY <1>1, VerifyKeeps, HitKeeps, MissKeeps, AcceptKeeps, RejectKeeps, StoreKeeps, BreakKeeps,
     ReturnKeeps, TickKeeps, RestartKeeps DEF Next

\* The inductive invariant of the verifier alone.
THEOREM VerifierInductive == Spec => []VerifierInv
BY InitVerifier, VerifierSteps, PTL DEF Spec

-----------------------------------------------------------------------------
(* The attempts.                                                             *)

\* What happens to the verifier here is a step of Turnstile, or nothing.
LEMMA StepsOfVerifier == [NextAttempts]_allvars => [Next]_vars
BY DEF NextAttempts, Submit, Work, GiveUp, Respond, Refuse, Create, Crash, Next, allvars, vars

\* Submission makes no other step of the verifier than Turnstile has, so what
\* is shown of Spec holds of it.
THEOREM UsesVerifier == SpecAttempts => Spec
<1>1. InitAttempts => Init
  BY DEF InitAttempts
<1> QED
  BY <1>1, StepsOfVerifier, PTL DEF SpecAttempts, Spec

\* What is accepted once stays so: no later step changes when it was.
LEMMA AcceptanceStays ==
    ASSUME VerifierInv, [Next]_vars, NEW k \in Keys, acceptedAt[k] # None
    PROVE  acceptedAt'[k] = acceptedAt[k]
<1>1. ASSUME NEW r \in Requests, Accept(r) PROVE acceptedAt'[k] = acceptedAt[k]
  BY <1>1 DEF VerifierInv, OnceAccepted, CallsKeep, TypeOK, Accept
<1>2. CASE UNCHANGED acceptedAt
  BY <1>2
<1>3. UNCHANGED acceptedAt \/ \E r \in Requests : Accept(r)
  BY DEF Next, vars, cloudflare, Verify, Hit, Miss, Reject, Store, Break, Return, Tick, Restart
<1> QED
  BY <1>1, <1>2, <1>3

LEMMA InitAll == InitAttempts => IInv
<1> SUFFICES ASSUME InitAttempts PROVE IInv
  OBVIOUS
<1>1. VerifierInv
  BY InitVerifier DEF InitAttempts
<1>2. pc = [r \in Requests |-> "idle"]
  BY DEF InitAttempts, Init, Quiet
<1>3. TypesOK
  <2>1. 0 \in Times /\ 0 \in 0 .. MaxAttempts
    BY TimesAssumption, AttemptsAssumption DEF Times
  <2>2. serves \in [Requests -> [attempt : 0 .. MaxAttempts, began : Times]]
    BY <2>1 DEF InitAttempts, Idle
  <2>3. reader \in [Tokens -> [knows : Knows, attempt : 0 .. MaxAttempts]]
    BY <2>1 DEF InitAttempts, Knows
  <2> QED
    BY <1>1, <2>1, <2>2, <2>3 DEF TypesOK, InitAttempts, VerifierInv
<1>4. AttemptsKeep /\ ReadersKnow /\ StoredWasAccepted
  BY <1>2 DEF AttemptsKeep, ReadersKnow, StoredWasAccepted, InitAttempts, Busy, RowsOf
<1> QED
  BY <1>1, <1>3, <1>4 DEF IInv

\* A comment in the table keeps its acceptance.
LEMMA StoredStays ==
    ASSUME IInv, [Next]_vars, UNCHANGED rows
    PROVE  StoredWasAccepted'
<1>1. ASSUME NEW row \in rows
      PROVE  /\ acceptedAt'[row.key] # None
             /\ row.at - acceptedAt'[row.key] < TTL + Timeout
  <2>1. row.key \in Keys /\ acceptedAt[row.key] # None /\ row.at - acceptedAt[row.key] < TTL + Timeout
    BY DEF IInv, TypesOK, StoredWasAccepted
  <2>2. acceptedAt'[row.key] = acceptedAt[row.key]
    BY <2>1, AcceptanceStays DEF IInv
  <2> QED
    BY <2>1, <2>2
<1> QED
  BY <1>1 DEF StoredWasAccepted

LEMMA SubmitKeeps ==
    ASSUME NEW r \in Requests, NEW k \in Keys, IInv, VerifierInv', Submit(r, k)
    PROVE  IInv'
<1>0. /\ sent < MaxAttempts /\ reader[k[1]].knows \notin {"waiting", "told"}
      /\ pc[r] = "idle" /\ pc' = [pc EXCEPT ![r] = "check"]
      /\ asked' = [asked EXCEPT ![r] = k] /\ now' = now
      /\ sent' = sent + 1
      /\ serves' = [serves EXCEPT ![r] = [attempt |-> sent + 1, began |-> now]]
      /\ reader' = [reader EXCEPT ![k[1]] = [knows |-> "waiting", attempt |-> sent + 1]]
      /\ UNCHANGED <<rows, doubt>>
  BY DEF Submit, Verify, Goto
<1>1. /\ TypesOK /\ VerifierInv /\ k[1] \in Tokens /\ sent \in 0 .. MaxAttempts /\ now \in Times
      /\ pc \in [Requests -> {"idle", "check", "call", "answer", "done"}]
      /\ asked \in [Requests -> Keys \cup {None}]
      /\ serves \in [Requests -> [attempt : 0 .. MaxAttempts, began : Times]]
      /\ reader \in [Tokens -> [knows : Knows, attempt : 0 .. MaxAttempts]]
  BY DEF IInv, TypesOK, TypeOK, Keys
<1>2. TypesOK'
  <2>1. sent' \in 0 .. MaxAttempts
    BY <1>0, <1>1, AttemptsAssumption
  <2>2. serves' \in [Requests -> [attempt : 0 .. MaxAttempts, began : Times]]
    BY <1>0, <1>1, <2>1
  <2>3. reader' \in [Tokens -> [knows : Knows, attempt : 0 .. MaxAttempts]]
    BY <1>0, <1>1, <2>1 DEF Knows
  <2> QED
    BY <1>0, <1>1, <2>1, <2>2, <2>3 DEF TypesOK, VerifierInv
\* Nobody serves this token, unless its author is in doubt.
<1>3. \A q \in Requests : Busy(q) /\ asked[q][1] = k[1] => k[1] \in doubt
  <2> SUFFICES ASSUME NEW q \in Requests, Busy(q), asked[q][1] = k[1], k[1] \notin doubt
               PROVE  FALSE
    OBVIOUS
  <2>1. reader[k[1]] = [knows |-> "waiting", attempt |-> serves[q].attempt]
    BY DEF IInv, AttemptsKeep
  <2> QED
    BY <1>0, <2>1
<1>4. \A q \in Requests : q # r => Busy(q)' = Busy(q) /\ asked'[q] = asked[q] /\ serves'[q] = serves[q]
  BY <1>0, <1>1 DEF Busy
<1>5. asked'[r] = k /\ serves'[r].attempt = sent + 1 /\ ~Busy(r)
  BY <1>0, <1>1 DEF Busy
<1>6. AttemptsKeep'
  <2>1. ASSUME NEW q \in Requests, Busy(q)'
        PROVE  /\ serves'[q].attempt \in 1 .. sent'
               /\ asked'[q][1] \notin doubt' =>
                    reader'[asked'[q][1]] = [knows |-> "waiting", attempt |-> serves'[q].attempt]
    <3>1. CASE q = r
      BY <1>0, <1>1, <1>5, <3>1
    <3>2. CASE q # r
      <4>1. Busy(q) /\ asked'[q] = asked[q] /\ serves'[q] = serves[q] /\ asked[q] \in Keys
        BY <1>1, <1>4, <2>1, <3>2 DEF VerifierInv, CallsKeep, Busy
      <4>2. asked[q][1] \notin doubt => asked[q][1] # k[1]
        BY <1>3, <4>1
      <4>3. serves[q].attempt \in 1 .. sent
        BY <4>1 DEF IInv, AttemptsKeep
      <4>4. asked[q][1] \notin doubt => reader'[asked[q][1]] = reader[asked[q][1]]
        BY <1>0, <1>1, <4>1, <4>2 DEF Keys
      <4>5. asked[q][1] \notin doubt =>
               reader[asked[q][1]] = [knows |-> "waiting", attempt |-> serves[q].attempt]
        BY <4>1 DEF IInv, AttemptsKeep
      <4> QED
        BY <1>0, <1>1, <4>1, <4>3, <4>4, <4>5
    <3> QED
      BY <3>1, <3>2
  <2>2. ASSUME NEW p \in Requests, NEW q \in Requests, Busy(p)', Busy(q)', p # q
        PROVE  serves'[p].attempt # serves'[q].attempt
    <3>1. \A x \in Requests : Busy(x) => serves[x].attempt \in 1 .. sent
      BY DEF IInv, AttemptsKeep
    <3>2. CASE p = r
      BY <1>1, <1>4, <1>5, <2>2, <3>1, <3>2
    <3>3. CASE q = r
      BY <1>1, <1>4, <1>5, <2>2, <3>1, <3>3
    <3>4. CASE p # r /\ q # r
      BY <1>4, <2>2, <3>4 DEF IInv, AttemptsKeep
    <3> QED
      BY <3>2, <3>3, <3>4
  <2> QED
    BY <2>1, <2>2 DEF AttemptsKeep
<1>7. ReadersKnow'
  <2> SUFFICES ASSUME NEW t \in Tokens, t \notin doubt
               PROVE  /\ reader'[t].knows # "unsure"
                      /\ reader'[t].knows # "told" => RowsOf(t) = {}
                      /\ reader'[t].knows = "told" => \E row \in rows : RowsOf(t) = {row}
    BY <1>0 DEF ReadersKnow, RowsOf
  <2>1. /\ reader[t].knows # "unsure"
        /\ reader[t].knows # "told" => RowsOf(t) = {}
        /\ reader[t].knows = "told" => \E row \in rows : RowsOf(t) = {row}
    BY DEF IInv, ReadersKnow
  <2>2. CASE t = k[1]
    BY <1>0, <1>1, <2>1, <2>2
  <2>3. CASE t # k[1]
    BY <1>0, <1>1, <2>1, <2>3
  <2> QED
    BY <2>2, <2>3
<1>8. StoredWasAccepted'
  BY <1>0, StoredStays, StepsOfVerifier DEF Submit, Next
<1> QED
  BY <1>2, <1>6, <1>7, <1>8 DEF IInv

\* Steps of the verifier in which nobody starts or ends.
LEMMA WorkKeeps ==
    ASSUME IInv, VerifierInv', [Next]_vars, UNCHANGED attempts,
           asked' = asked, \A r \in Requests : Busy(r)' <=> Busy(r)
    PROVE  IInv'
<1>1. TypesOK'
  BY DEF IInv, TypesOK, VerifierInv, attempts
<1>2. AttemptsKeep'
  BY DEF IInv, AttemptsKeep, attempts
<1>3. ReadersKnow'
  BY DEF IInv, ReadersKnow, RowsOf, attempts
<1>4. StoredWasAccepted'
  BY StoredStays DEF attempts
<1> QED
  BY <1>1, <1>2, <1>3, <1>4 DEF IInv

LEMMA GiveUpKeeps ==
    ASSUME NEW t \in Tokens, IInv, VerifierInv', GiveUp(t)
    PROVE  IInv'
<1>0. /\ reader' = [reader EXCEPT ![t].knows = "unsure"]
      /\ doubt' = doubt \cup {t}
      /\ UNCHANGED <<now, pc, asked, acceptedAt, sent, serves, rows>>
  BY DEF GiveUp, vars
<1>1. reader \in [Tokens -> [knows : Knows, attempt : 0 .. MaxAttempts]]
  BY DEF IInv, TypesOK
<1>2. \A u \in Tokens : u \notin doubt' => u \notin doubt /\ reader'[u] = reader[u]
  BY <1>0, <1>1
<1>3. TypesOK'
  <2>1. reader' \in [Tokens -> [knows : Knows, attempt : 0 .. MaxAttempts]]
    BY <1>0, <1>1 DEF Knows
  <2> QED
    BY <1>0, <2>1 DEF IInv, TypesOK, VerifierInv
<1>4. AttemptsKeep'
  <2>1. \A r \in Requests : Busy(r) => asked[r] \in Keys
    BY DEF IInv, VerifierInv, CallsKeep, Busy
  <2>2. \A r \in Requests : Busy(r) => asked[r][1] \in Tokens
    BY <2>1 DEF Keys
  <2> QED
    BY <1>0, <1>2, <2>2 DEF IInv, AttemptsKeep, Busy
<1>5. ReadersKnow'
  BY <1>0, <1>2 DEF IInv, ReadersKnow, RowsOf
<1>6. StoredWasAccepted'
  BY <1>0 DEF IInv, StoredWasAccepted
<1> QED
  BY <1>3, <1>4, <1>5, <1>6 DEF IInv

LEMMA CrashKeeps == ASSUME IInv, VerifierInv', Crash PROVE IInv'
<1>0. /\ pc' = [r \in Requests |-> "idle"]
      /\ serves' = [r \in Requests |-> Idle]
      /\ doubt' = doubt \cup {t \in Tokens : reader[t].knows = "waiting"}
      /\ UNCHANGED <<now, acceptedAt, sent, rows>>
  BY DEF Crash, Restart, Quiet, cloudflare
<1>1. \A t \in Tokens : reader'[t] = IF reader[t].knows = "waiting"
                                     THEN [reader[t] EXCEPT !.knows = "unsure"] ELSE reader[t]
  BY DEF Crash
<1>2. TypesOK'
  <2>1. reader \in [Tokens -> [knows : Knows, attempt : 0 .. MaxAttempts]]
    BY DEF IInv, TypesOK
  <2>2. reader' = [t \in Tokens |-> IF reader[t].knows = "waiting"
                                    THEN [reader[t] EXCEPT !.knows = "unsure"] ELSE reader[t]]
    BY DEF Crash
  <2>3. reader' \in [Tokens -> [knows : Knows, attempt : 0 .. MaxAttempts]]
    BY <2>1, <2>2 DEF Knows
  <2>4. serves' \in [Requests -> [attempt : 0 .. MaxAttempts, began : Times]]
    BY <1>0, TimesAssumption, AttemptsAssumption DEF Idle, Times
  <2>5. doubt' \subseteq Tokens
    BY <1>0 DEF IInv, TypesOK
  <2> QED
    BY <1>0, <2>3, <2>4, <2>5 DEF IInv, TypesOK, VerifierInv
<1>3. AttemptsKeep'
  BY <1>0 DEF AttemptsKeep, Busy
<1>4. ReadersKnow'
  <2>1. \A t \in Tokens : t \notin doubt' => t \notin doubt /\ reader'[t] = reader[t]
    BY <1>0, <1>1
  <2> QED
    BY <1>0, <2>1 DEF IInv, ReadersKnow, RowsOf
<1>5. StoredWasAccepted'
  BY <1>0 DEF IInv, StoredWasAccepted
<1> QED
  BY <1>2, <1>3, <1>4, <1>5 DEF IInv

\* What an answer leaves, whatever becomes of it: the token is in doubt, or its
\* author now knows the news.
LEMMA TellFacts ==
    ASSUME IInv, NEW r \in Requests, Busy(r), NEW news \in {"told", "refused", "failed"},
           Tell(r, news)
    PROVE  /\ asked[r][1] \in Tokens
           /\ serves' = [serves EXCEPT ![r] = Idle]
           /\ reader' \in [Tokens -> [knows : Knows, attempt : 0 .. MaxAttempts]]
           /\ doubt \subseteq doubt' /\ doubt' \subseteq Tokens
           /\ \A t \in Tokens : t # asked[r][1] =>
                  reader'[t] = reader[t] /\ (t \in doubt' <=> t \in doubt)
           /\ asked[r][1] \notin doubt' =>
                  /\ news \in {"told", "refused"} /\ reader'[asked[r][1]].knows = news
                  /\ reader[asked[r][1]].knows = "waiting"
<1> DEFINE token == asked[r][1]
<1>1. /\ reader \in [Tokens -> [knows : Knows, attempt : 0 .. MaxAttempts]]
      /\ doubt \subseteq Tokens
  BY DEF IInv, TypesOK
<1>2. token \in Tokens
  <2>1. asked[r] \in Keys
    BY DEF IInv, VerifierInv, CallsKeep, Busy
  <2> QED
    BY <2>1 DEF Keys
<1>3. token \notin doubt =>
         reader[token].knows = "waiting" /\ reader[token].attempt = serves[r].attempt
  <2>1. token \notin doubt =>
           reader[token] = [knows |-> "waiting", attempt |-> serves[r].attempt]
    BY DEF IInv, AttemptsKeep
  <2> QED
    BY <2>1
<1>4. serves' = [serves EXCEPT ![r] = Idle]
  BY DEF Tell
<1> DEFINE waits == reader[token].knows = "waiting" /\ reader[token].attempt = serves[r].attempt
<1>5. CASE ~waits /\ UNCHANGED <<reader, doubt>>
  BY <1>1, <1>2, <1>3, <1>4, <1>5
<1>6. CASE /\ reader' = [reader EXCEPT ![token].knows = "unsure"]
           /\ doubt' = doubt \cup {token}
  BY <1>1, <1>2, <1>4, <1>6 DEF Knows
<1>7. CASE /\ waits /\ news \in {"told", "refused"}
           /\ reader' = [reader EXCEPT ![token].knows = news] /\ UNCHANGED doubt
  BY <1>1, <1>2, <1>4, <1>7 DEF Knows
<1> QED
  BY <1>5, <1>6, <1>7 DEF Tell

LEMMA RespondKeeps ==
    ASSUME NEW r \in Requests, IInv, VerifierInv', Respond(r)
    PROVE  IInv'
<1> DEFINE new == [attempt |-> serves[r].attempt, key |-> asked[r], at |-> now]
           token == asked[r][1]
<1>0. /\ pc[r] = "done" /\ pc' = [pc EXCEPT ![r] = "idle"]
      /\ asked' = [asked EXCEPT ![r] = None]
      /\ UNCHANGED <<now, acceptedAt, sent>>
  BY DEF Respond, Refuse, Create, Return, Goto, cloudflare
<1>1. PICK news \in {"told", "refused", "failed"} :
         /\ Tell(r, news)
         /\ rows' \in {rows, rows \cup {new}}
         /\ news = "told" => rows' = rows \cup {new}
         /\ news = "refused" => rows' = rows
         /\ rows' # rows => verdict[r] = "yes"
  BY DEF Respond, Refuse, Create, Insert
<1>2. /\ pc \in [Requests -> {"idle", "check", "call", "answer", "done"}]
      /\ asked \in [Requests -> Keys \cup {None}] /\ asked[r] \in Keys /\ Busy(r)
      /\ serves \in [Requests -> [attempt : 0 .. MaxAttempts, began : Times]]
  BY <1>0 DEF IInv, TypesOK, TypeOK, VerifierInv, CallsKeep, Busy
<1>3. /\ token \in Tokens
      /\ serves' = [serves EXCEPT ![r] = Idle]
      /\ reader' \in [Tokens -> [knows : Knows, attempt : 0 .. MaxAttempts]]
      /\ doubt \subseteq doubt' /\ doubt' \subseteq Tokens
      /\ \A t \in Tokens : t # token =>
             reader'[t] = reader[t] /\ (t \in doubt' <=> t \in doubt)
      /\ token \notin doubt' =>
             /\ news \in {"told", "refused"} /\ reader'[token].knows = news
             /\ reader[token].knows = "waiting"
  BY <1>1, <1>2, TellFacts
<1>4. new.key[1] = token /\ new \in [attempt : 1 .. MaxAttempts, key : Keys, at : Times]
  <2>1. serves[r].attempt \in 1 .. sent /\ sent \in 0 .. MaxAttempts /\ now \in Times
    BY <1>2 DEF IInv, AttemptsKeep, TypesOK, TypeOK
  <2>2. serves[r].attempt \in 1 .. MaxAttempts
    BY <2>1, AttemptsAssumption
  <2> QED
    BY <1>2, <2>1, <2>2
<1> HIDE DEF new, token
<1>5. TypesOK'
  <2>1. serves' \in [Requests -> [attempt : 0 .. MaxAttempts, began : Times]]
    <3>1. Idle \in [attempt : 0 .. MaxAttempts, began : Times]
      BY TimesAssumption, AttemptsAssumption DEF Idle, Times
    <3> QED
      BY <1>2, <1>3, <3>1
  <2>2. rows' \subseteq [attempt : 1 .. MaxAttempts, key : Keys, at : Times]
    BY <1>1, <1>4 DEF IInv, TypesOK
  <2> QED
    BY <1>0, <1>3, <2>1, <2>2 DEF IInv, TypesOK, VerifierInv
<1>6. \A q \in Requests : Busy(q)' => /\ q # r /\ Busy(q) /\ asked'[q] = asked[q]
                                      /\ serves'[q] = serves[q] /\ asked[q][1] \in Tokens
  <2>1. \A q \in Requests : Busy(q) => asked[q] \in Keys
    BY DEF IInv, VerifierInv, CallsKeep, Busy
  <2>2. \A q \in Requests : Busy(q) => asked[q][1] \in Tokens
    BY <2>1 DEF Keys
  <2> QED
    BY <1>0, <1>2, <1>3, <2>2 DEF Busy
\* Nobody else serves a token that is not in doubt: attempts are unique.
<1>7. \A q \in Requests : Busy(q) /\ q # r /\ asked[q][1] = token => token \in doubt
  <2> SUFFICES ASSUME NEW q \in Requests, Busy(q), q # r, asked[q][1] = token, token \notin doubt
               PROVE  FALSE
    OBVIOUS
  <2>1. /\ reader[token] = [knows |-> "waiting", attempt |-> serves[q].attempt]
        /\ reader[token] = [knows |-> "waiting", attempt |-> serves[r].attempt]
    BY <1>2 DEF IInv, AttemptsKeep, token
  <2>2. serves[q].attempt # serves[r].attempt
    BY <1>2 DEF IInv, AttemptsKeep
  <2> QED
    BY <2>1, <2>2
<1>8. AttemptsKeep'
  <2>1. ASSUME NEW q \in Requests, Busy(q)'
        PROVE  /\ serves'[q].attempt \in 1 .. sent'
               /\ asked'[q][1] \notin doubt' =>
                    reader'[asked'[q][1]] = [knows |-> "waiting", attempt |-> serves'[q].attempt]
    <3>1. /\ Busy(q) /\ q # r /\ asked'[q] = asked[q] /\ serves'[q] = serves[q]
          /\ asked[q][1] \in Tokens
      BY <1>6, <2>1
    <3>2. /\ serves[q].attempt \in 1 .. sent
          /\ asked[q][1] \notin doubt =>
               reader[asked[q][1]] = [knows |-> "waiting", attempt |-> serves[q].attempt]
      BY <3>1 DEF IInv, AttemptsKeep
    <3>3. asked[q][1] \notin doubt' => asked[q][1] \notin doubt /\ asked[q][1] # token
      BY <1>3, <1>7, <3>1
    <3> QED
      BY <1>0, <1>3, <3>1, <3>2, <3>3
  <2>2. \A p, q \in Requests : Busy(p)' /\ Busy(q)' /\ p # q =>
                                  serves'[p].attempt # serves'[q].attempt
    BY <1>6 DEF IInv, AttemptsKeep
  <2> QED
    BY <2>1, <2>2 DEF AttemptsKeep
<1>9. ReadersKnow'
  <2> SUFFICES ASSUME NEW t \in Tokens, t \notin doubt'
               PROVE  /\ reader'[t].knows # "unsure"
                      /\ reader'[t].knows # "told" => RowsOf(t)' = {}
                      /\ reader'[t].knows = "told" => \E row \in rows' : RowsOf(t)' = {row}
    BY DEF ReadersKnow
  <2>1. /\ t \notin doubt
        /\ reader[t].knows # "unsure"
        /\ reader[t].knows # "told" => RowsOf(t) = {}
        /\ reader[t].knows = "told" => \E row \in rows : RowsOf(t) = {row}
    BY <1>3 DEF IInv, ReadersKnow
  <2>2. CASE t # token
    <3>1. RowsOf(t)' = RowsOf(t)
      BY <1>1, <1>4, <2>2 DEF RowsOf
    <3> QED
      BY <1>1, <1>3, <2>1, <2>2, <3>1
  <2>3. CASE t = token
    <3>1. RowsOf(t) = {} /\ reader'[t].knows = news /\ news \in {"told", "refused"}
      BY <1>3, <2>1, <2>3
    <3>2. CASE news = "told"
      <4>1. RowsOf(t)' = {new} /\ new \in rows'
        BY <1>1, <1>4, <2>3, <3>1, <3>2 DEF RowsOf
      <4> QED
        BY <3>1, <3>2, <4>1
    <3>3. CASE news = "refused"
      BY <1>1, <3>1, <3>3 DEF RowsOf
    <3> QED
      BY <3>1, <3>2, <3>3
  <2> QED
    BY <2>2, <2>3
<1>10. StoredWasAccepted'
  <2>1. ASSUME NEW row \in rows'
        PROVE  /\ acceptedAt[row.key] # None
               /\ row.at - acceptedAt[row.key] < TTL + Timeout
    <3>1. CASE row \in rows
      BY <3>1 DEF IInv, StoredWasAccepted
    <3>2. CASE row \notin rows
      <4>1. row = new /\ verdict[r] = "yes"
        BY <1>1, <2>1, <3>2
      <4> QED
        BY <1>0, <4>1 DEF IInv, VerifierInv, AcceptanceIsRecent, new
    <3> QED
      BY <3>1, <3>2
  <2> QED
    BY <1>0, <2>1 DEF StoredWasAccepted
<1> QED
  BY <1>5, <1>8, <1>9, <1>10 DEF IInv

LEMMA AllSteps == IInv /\ [NextAttempts]_allvars => IInv'
<1> SUFFICES ASSUME IInv, [NextAttempts]_allvars PROVE IInv'
  OBVIOUS
<1>1. VerifierInv' /\ [Next]_vars
  BY VerifierSteps, StepsOfVerifier DEF IInv
<1>2. CASE UNCHANGED allvars
  BY <1>2, <1>1, WorkKeeps DEF allvars, vars, attempts, Busy
<1>3. ASSUME NEW r \in Requests, Work(r) \/ ((Accept(r) \/ Reject(r)) /\ UNCHANGED attempts)
      PROVE  IInv'
  <2>1. UNCHANGED <<attempts, asked>>
    BY <1>3 DEF Work, Hit, Miss, Store, Break, Accept, Reject
  <2>2. \A q \in Requests : Busy(q)' <=> Busy(q)
    <3>1. pc \in [Requests -> {"idle", "check", "call", "answer", "done"}]
      BY DEF IInv, VerifierInv, TypeOK
    <3>2. /\ pc[r] # "idle"
          /\ \E label \in {"call", "answer", "done"} : pc' = [pc EXCEPT ![r] = label]
      BY <1>3 DEF Work, Hit, Miss, Store, Break, Accept, Reject, Goto
    <3> QED
      BY <3>1, <3>2 DEF Busy
  <2> QED
    BY <1>1, <2>1, <2>2, WorkKeeps
<1>4. CASE Tick /\ UNCHANGED attempts
  BY <1>1, <1>4, WorkKeeps DEF Tick, Busy
<1>5. \/ UNCHANGED allvars \/ (Tick /\ UNCHANGED attempts) \/ Crash
      \/ \E t \in Tokens : GiveUp(t)
      \/ \E r \in Requests :
            \/ \E k \in Keys : Submit(r, k)
            \/ Work(r) \/ Respond(r) \/ ((Accept(r) \/ Reject(r)) /\ UNCHANGED attempts)
  BY DEF NextAttempts
<1> QED
  BY <1>1, <1>2, <1>3, <1>4, <1>5, SubmitKeeps, RespondKeeps, GiveUpKeeps, CrashKeeps

\* The inductive invariant of verifier, attempts and table together.
THEOREM Inductive == SpecAttempts => []IInv
BY InitAll, AllSteps, PTL DEF SpecAttempts

-----------------------------------------------------------------------------
(* The properties.                                                           *)

\* Every variable has its type.
THEOREM TypeCorrect == SpecAttempts => []TypesOK
<1>1. IInv => TypesOK
  BY DEF IInv
<1> QED
  BY Inductive, <1>1, PTL

\* The cache repeats what Cloudflare said about just that token and address,
\* for every way of calling Verify.
THEOREM CacheTruthfulHolds == Spec => []CacheTruthful
<1>1. VerifierInv => CacheTruthful
  BY DEF VerifierInv
<1> QED
  BY VerifierInductive, <1>1, PTL

\* A verdict that Verify hands out is younger than TTL and timeout together.
THEOREM AcceptanceIsRecentHolds == Spec => []AcceptanceIsRecent
<1>1. VerifierInv => AcceptanceIsRecent
  BY DEF VerifierInv
<1> QED
  BY VerifierInductive, <1>1, PTL

\* So is the acceptance behind every comment in the table.
THEOREM StoredWasAcceptedHolds == SpecAttempts => []StoredWasAccepted
<1>1. IInv => StoredWasAccepted
  BY DEF IInv
<1> QED
  BY Inductive, <1>1, PTL

\* An author who is not in doubt is right: one comment for a 201, else none.
THEOREM CountedOnceHolds == SpecAttempts => []CountedOnce
<1>1. ASSUME IInv, NEW t \in Tokens \ doubt, reader[t].knows # "waiting"
      PROVE  Cardinality({row \in rows : row.key[1] = t}) =
                IF reader[t].knows = "told" THEN 1 ELSE 0
  <2>1. /\ reader[t].knows # "told" => RowsOf(t) = {}
        /\ reader[t].knows = "told" => \E row \in rows : RowsOf(t) = {row}
    BY <1>1 DEF IInv, ReadersKnow
  <2>2. Cardinality(RowsOf(t)) = IF reader[t].knows = "told" THEN 1 ELSE 0
    BY <2>1, FS_EmptySet, FS_Singleton
  <2> QED
    BY <2>2 DEF RowsOf
<1>2. IInv => CountedOnce
  BY <1>1 DEF CountedOnce
<1> QED
  BY Inductive, <1>2, PTL

=============================================================================
