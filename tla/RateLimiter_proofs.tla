------------------------- MODULE RateLimiter_proofs -------------------------
(***************************************************************************)
(* Proofs about RateLimiter: its inductive invariant, the quota, and that  *)
(* it implements one everlasting bucket per client.                        *)
(***************************************************************************)
EXTENDS RateLimiter, TLAPS

\* The slack of the numbers: a stalled goroutine is never older than what the
\* sweeper tolerates.
LEMMA Numbers ==
    /\ Burst \in Nat /\ Burst > 0 /\ Idle \in Nat /\ Stall \in Nat /\ MaxTime \in Nat
    /\ Stall <= Idle /\ Burst <= Idle + 1 - Stall
BY SMT, TimesAssumption, BurstAssumption, RefillAssumption

\* Level reads a limiter that was last taken from in the past.
LEMMA LevelRange ==
    ASSUME TypeOK, NEW l \in Limiters, limiters[l].last <= now
    PROVE  Level(l) \in 0 .. Burst
BY SMT, Numbers DEF TypeOK, Limiter, Level, Smaller, Times

\* The bucket of a client is between empty and full.
LEMMA CreditRange ==
    ASSUME IInv, NEW c \in Clients
    PROVE  Credit(c) \in 0 .. Burst
<1>1. CASE visitors[c] = None
  BY SMT, <1>1, Numbers DEF Credit
<1>2. CASE visitors[c] # None
  <2>1. visitors[c].limiter \in Limiters /\ limiters[visitors[c].limiter].last <= now
    BY <1>2 DEF IInv, TypeOK, Visitor, Recent
  <2>2. TypeOK
    BY DEF IInv
  <2> QED BY <1>2, <2>1, <2>2, LevelRange DEF Credit
<1> QED BY <1>1, <1>2

LEMMA InvInit == Init => IInv
<1> SUFFICES ASSUME Init PROVE IInv
  OBVIOUS
<1> USE DEF Init
<1>1. TypeOK
  <2>1. Fresh \in Limiter
    BY SMT, Numbers DEF Fresh, Limiter, Times
  <2>2. limiters \in [Limiters -> Limiter]
    BY <2>1
  <2>3. visitors \in [Clients -> Visitor \cup {None}]
        /\ client \in [Handlers -> Clients \cup {None}]
        /\ holds \in [Handlers -> Limiters \cup {None}]
    OBVIOUS
  <2>4. 0 \in Times /\ now \in Times /\ swept \in Times /\ opened \in Times
    BY SMT, Numbers DEF Times
  <2>5. since \in [Handlers -> Times] /\ admitted \in [Clients -> Nat]
        /\ pc \in [Handlers -> {"idle", "ask"}]
    BY <2>4
  <2> QED BY <2>2, <2>3, <2>4, <2>5 DEF TypeOK
<1>2. HeldIsMapped /\ Clock
  BY SMT, Numbers DEF HeldIsMapped, Clock
<1>3. Paid
  BY SMT, Numbers DEF Paid, Credit
<1> QED BY <1>1, <1>2, <1>3 DEF IInv

\* A lookup of a client the map does not hold.
LEMMA InvMeet ==
    ASSUME IInv, NEW h \in Handlers, NEW c \in Clients, NEW l \in Limiters, Meet(h, c, l)
    PROVE  IInv'
<1> USE DEF Meet, Take
<1>0. TypeOK /\ HeldIsMapped /\ Clock /\ Paid
  BY DEF IInv
<1>1. Fresh \in Limiter /\ [limiter |-> l, lastSeen |-> now] \in Visitor
  BY SMT, <1>0, Numbers DEF TypeOK, Fresh, Limiter, Visitor
<1>2. TypeOK'
  BY SMT, <1>0, <1>1 DEF TypeOK, history
<1>3. \A d \in Clients : d # c =>
         /\ visitors'[d] = visitors[d]
         /\ visitors[d] # None =>
              /\ visitors[d].limiter # l
              /\ limiters'[visitors[d].limiter] = limiters[visitors[d].limiter]
  BY <1>0 DEF TypeOK, Unused, Visitor
<1>4. visitors'[c] = [limiter |-> l, lastSeen |-> now] /\ limiters'[l] = Fresh
  BY <1>0 DEF TypeOK
<1>5. \A g \in Handlers : g # h =>
         /\ pc'[g] = pc[g] /\ client'[g] = client[g]
         /\ holds'[g] = holds[g] /\ since'[g] = since[g]
  BY <1>0 DEF TypeOK
<1>6. pc'[h] = "ask" /\ client'[h] = c /\ holds'[h] = l /\ since'[h] = now
  BY <1>0 DEF TypeOK
<1>7. now' = now /\ stopped' = stopped /\ swept' = swept /\ opened' = opened
      /\ admitted' = admitted
  BY DEF history
<1>8. \A g \in Handlers : pc[g] = "ask" => client[g] \in Clients /\ client[g] # c
  BY <1>0 DEF IInv, Waiting, HeldIsMapped
<1>9. HeldIsMapped'
  <2>1. ASSUME NEW g \in Handlers, pc'[g] = "ask"
        PROVE  visitors'[client'[g]] # None /\ visitors'[client'[g]].limiter = holds'[g]
    <3>1. CASE g = h
      BY <3>1, <1>1, <1>4, <1>6, NoneAssumption
    <3>2. CASE g # h
      BY <3>2, <2>1, <1>0, <1>3, <1>5, <1>8 DEF HeldIsMapped
    <3> QED BY <3>1, <3>2
  <2>2. ASSUME NEW d \in Clients, NEW e \in Clients, visitors'[d] # None,
               visitors'[e] # None, visitors'[d].limiter = visitors'[e].limiter
        PROVE  d = e
    BY <2>2, <1>0, <1>3, <1>4 DEF HeldIsMapped
  <2> QED BY <2>1, <2>2 DEF HeldIsMapped
<1>10. Clock'
  BY <1>0, <1>7 DEF Clock
<1>11. ASSUME NEW d \in Clients, visitors'[d] # None PROVE Recent(d)'
  <2>1. CASE d = c
    BY SMT, <2>1, <1>0, <1>4, <1>7, Numbers DEF Recent, Fresh, Clock, TypeOK, Times
  <2>2. CASE d # c
    BY <2>2, <1>11, <1>3, <1>7 DEF Recent, IInv
  <2> QED BY <2>1, <2>2
<1>12. ASSUME NEW g \in Handlers
       PROVE  (IF pc[g] = "ask" THEN Waiting(g) ELSE holds[g] = None)'
  <2>1. CASE g = h
    BY SMT, <2>1, <1>0, <1>4, <1>6, <1>7, Numbers DEF Waiting, TypeOK, Times
  <2>2. CASE g # h
    BY <2>2, <1>3, <1>5, <1>7, <1>8 DEF Waiting, IInv
  <2> QED BY <2>1, <2>2
<1>13. Paid'
  <2>1. ASSUME NEW d \in Clients PROVE Credit(d)' = Credit(d)
    <3>1. CASE d = c
      <4>1. visitors'[c] # None
        BY <1>1, <1>4, NoneAssumption
      <4>2. Level(l)' = Burst
        BY SMT, <1>0, <1>4, <1>7, Numbers DEF Level, Smaller, Fresh, TypeOK, Times
      <4> QED BY <3>1, <4>1, <4>2, <1>4 DEF Credit
    <3>2. CASE d # c
      BY <3>2, <1>3, <1>7 DEF Credit, Level
    <3> QED BY <3>1, <3>2
  <2> QED BY <2>1, <1>0, <1>7 DEF Paid
<1> QED BY <1>2, <1>9, <1>10, <1>11, <1>12, <1>13 DEF IInv

\* A lookup of a client the map holds.
LEMMA InvFind ==
    ASSUME IInv, NEW h \in Handlers, NEW c \in Clients, Find(h, c)
    PROVE  IInv'
<1> USE DEF Find, Take
<1>0. TypeOK /\ HeldIsMapped /\ Clock /\ Paid
  BY DEF IInv
<1>1. visitors[c] \in Visitor /\ visitors[c].limiter \in Limiters
  BY <1>0 DEF TypeOK, Visitor
<1>2. visitors'[c] = [limiter |-> visitors[c].limiter, lastSeen |-> now]
  BY <1>0, <1>1 DEF TypeOK, Visitor
<1>3. visitors'[c] \in Visitor /\ visitors'[c] # None
  BY <1>0, <1>1, <1>2, NoneAssumption DEF TypeOK, Visitor
<1>4. \A d \in Clients : d # c => visitors'[d] = visitors[d]
  BY <1>0 DEF TypeOK
<1>5. TypeOK'
  <2>1. visitors' \in [Clients -> Visitor \cup {None}]
    BY <1>0, <1>3, <1>4 DEF TypeOK
  <2> QED BY <2>1, <1>0, <1>1 DEF TypeOK, history
<1>6. \A g \in Handlers : g # h =>
         /\ pc'[g] = pc[g] /\ client'[g] = client[g]
         /\ holds'[g] = holds[g] /\ since'[g] = since[g]
  BY <1>0 DEF TypeOK
<1>7. pc'[h] = "ask" /\ client'[h] = c /\ holds'[h] = visitors[c].limiter
      /\ since'[h] = now
  BY <1>0 DEF TypeOK
<1>8. now' = now /\ limiters' = limiters /\ stopped' = stopped /\ swept' = swept
      /\ opened' = opened /\ admitted' = admitted
  BY DEF history
<1>9. \A d \in Clients :
         /\ visitors'[d] = None <=> visitors[d] = None
         /\ visitors[d] # None => visitors'[d].limiter = visitors[d].limiter
  BY <1>2, <1>3, <1>4
<1>10. HeldIsMapped'
  <2>1. ASSUME NEW g \in Handlers, pc'[g] = "ask"
        PROVE  visitors'[client'[g]] # None /\ visitors'[client'[g]].limiter = holds'[g]
    <3>1. CASE g = h
      BY <3>1, <1>2, <1>3, <1>7
    <3>2. CASE g # h
      <4>1. client[g] \in Clients
        BY <3>2, <2>1, <1>6 DEF IInv, Waiting
      <4> QED BY <4>1, <3>2, <2>1, <1>0, <1>6, <1>9 DEF HeldIsMapped
    <3> QED BY <3>1, <3>2
  <2>2. ASSUME NEW d \in Clients, NEW e \in Clients, visitors'[d] # None,
               visitors'[e] # None, visitors'[d].limiter = visitors'[e].limiter
        PROVE  d = e
    BY <2>2, <1>0, <1>9 DEF HeldIsMapped
  <2> QED BY <2>1, <2>2 DEF HeldIsMapped
<1>11. Clock'
  BY <1>0, <1>8 DEF Clock
<1>12. ASSUME NEW d \in Clients, visitors'[d] # None PROVE Recent(d)'
  <2>1. CASE d = c
    <3>1. Recent(c)
      BY DEF IInv
    <3> QED BY SMT, <3>1, <2>1, <1>0, <1>1, <1>2, <1>8, Numbers
            DEF Recent, Clock, TypeOK, Times, Limiter, Visitor
  <2>2. CASE d # c
    BY <2>2, <1>12, <1>4, <1>8 DEF Recent, IInv
  <2> QED BY <2>1, <2>2
<1>13. ASSUME NEW g \in Handlers
       PROVE  (IF pc[g] = "ask" THEN Waiting(g) ELSE holds[g] = None)'
  <2>1. CASE g = h
    BY SMT, <2>1, <1>0, <1>1, <1>2, <1>7, <1>8, Numbers DEF Waiting, TypeOK, Times
  <2>2. CASE g # h
    <3>1. CASE pc[g] = "ask" /\ client[g] = c
      <4>1. Waiting(g)
        BY <3>1 DEF IInv
      <4>2. Waiting(g)'
        BY <4>1, <3>1, <2>2, <1>2, <1>6, <1>8 DEF Waiting
      <4> QED BY <4>2, <3>1, <2>2, <1>6
    <3>2. CASE ~(pc[g] = "ask" /\ client[g] = c)
      BY <3>2, <2>2, <1>4, <1>6, <1>8 DEF Waiting, IInv
    <3> QED BY <3>1, <3>2
  <2> QED BY <2>1, <2>2
<1>14. Paid'
  <2>1. ASSUME NEW d \in Clients PROVE Credit(d)' = Credit(d)
    BY <1>8, <1>9 DEF Credit, Level
  <2> QED BY <2>1, <1>0, <1>8 DEF Paid
<1> QED BY <1>5, <1>10, <1>11, <1>12, <1>13, <1>14 DEF IInv

\* What Allow and Refuse know of the goroutine's limiter, and what leaving does.
LEMMA Asking ==
    ASSUME IInv, NEW h \in Handlers, pc[h] = "ask"
    PROVE  /\ client[h] \in Clients /\ holds[h] \in Limiters
           /\ visitors[client[h]] # None /\ visitors[client[h]].limiter = holds[h]
           /\ Waiting(h) /\ Recent(client[h])
           /\ Level(holds[h]) = Credit(client[h])
           /\ Level(holds[h]) \in 0 .. Burst
<1>1. Waiting(h) /\ client[h] \in Clients /\ holds[h] \in Limiters
  BY DEF IInv, Waiting
<1>2. visitors[client[h]] # None /\ visitors[client[h]].limiter = holds[h]
  BY DEF IInv, HeldIsMapped
<1>3. Recent(client[h])
  BY <1>1, <1>2 DEF IInv
<1>4. Level(holds[h]) = Credit(client[h])
  BY <1>2 DEF Credit
<1> QED BY <1>1, <1>2, <1>3, <1>4, CreditRange

LEMMA Leaving ==
    ASSUME IInv, NEW h \in Handlers, Leave(h)
    PROVE  /\ pc' \in [Handlers -> {"idle", "ask"}]
           /\ client' \in [Handlers -> Clients \cup {None}]
           /\ holds' \in [Handlers -> Limiters \cup {None}]
           /\ since' \in [Handlers -> Times]
           /\ pc'[h] = "idle" /\ holds'[h] = None
           /\ \A g \in Handlers : g # h =>
                 /\ pc'[g] = pc[g] /\ client'[g] = client[g]
                 /\ holds'[g] = holds[g] /\ since'[g] = since[g]
<1>1. TypeOK /\ 0 \in Times
  BY SMT, Numbers DEF IInv, Times
<1> QED BY <1>1 DEF TypeOK, Leave

LEMMA InvAllow ==
    ASSUME IInv, NEW h \in Handlers, Allow(h)
    PROVE  IInv'
<1> USE DEF Allow
<1>p. PICK c \in Clients, l \in Limiters : c = client[h] /\ l = holds[h]
  BY Asking
<1>0. TypeOK /\ HeldIsMapped /\ Clock /\ Paid
  BY DEF IInv
<1>1. /\ c \in Clients /\ l \in Limiters /\ visitors[c] # None
      /\ visitors[c].limiter = l /\ Waiting(h) /\ Recent(c)
      /\ Level(l) = Credit(c) /\ Level(l) \in 0 .. Burst
  BY Asking, <1>p
<1>2. limiters'[l] = [tokens |-> Level(l) - 1, last |-> now]
  BY <1>0, <1>1, <1>p DEF TypeOK
<1>3. \A k \in Limiters : k # l => limiters'[k] = limiters[k]
  BY <1>0, <1>p DEF TypeOK
<1>4. [tokens |-> Level(l) - 1, last |-> now] \in Limiter
  <2>1. Level(l) > 0 /\ now \in Times
    BY <1>0, <1>p DEF TypeOK
  <2>2. Level(l) - 1 \in 0 .. Burst
    BY SMT, <2>1, <1>1, Numbers
  <2> QED BY <2>1, <2>2 DEF Limiter
<1>5. /\ admitted' \in [Clients -> Nat] /\ admitted'[c] = admitted[c] + 1
      /\ \A d \in Clients : d # c => admitted'[d] = admitted[d]
  <2>1. admitted \in [Clients -> Nat] /\ admitted' = [admitted EXCEPT ![c] = @ + 1]
    BY <1>0, <1>p DEF TypeOK
  <2> QED BY SMT, <2>1
<1>6. TypeOK'
  <2>1. limiters' \in [Limiters -> Limiter]
    BY <1>0, <1>4, <1>p DEF TypeOK
  <2> QED BY <2>1, <1>0, <1>5, Leaving DEF TypeOK
<1>7. HeldIsMapped'
  BY <1>0, Leaving DEF HeldIsMapped
<1>8. Clock'
  BY <1>0 DEF Clock
<1>9. \A d \in Clients : visitors[d] # None =>
         visitors[d].limiter \in Limiters /\ (d # c => visitors[d].limiter # l)
  BY <1>0, <1>1 DEF TypeOK, Visitor, HeldIsMapped
<1>10. ASSUME NEW d \in Clients, visitors'[d] # None PROVE Recent(d)'
  <2>1. CASE d = c
    <3>1. now <= visitors[c].lastSeen + Stall
      <4>1. visitors[c].lastSeen \in Times /\ since[h] \in Times /\ now \in Times
        BY <1>0, <1>1 DEF TypeOK, Visitor
      <4> QED BY SMT, <4>1, <1>1, <1>p, Numbers DEF Waiting, Times
    <3>2. limiters'[visitors[c].limiter].last = now
      BY <1>1, <1>2
    <3>3. now \in Nat
      BY <1>0, Numbers DEF TypeOK, Times
    <3>4. visitors' = visitors /\ now' = now /\ swept' = swept /\ stopped' = stopped
      OBVIOUS
    <3>5. now <= now
      BY SMT, <3>3
    <3> QED BY <3>1, <3>2, <3>4, <3>5, <2>1, <1>1 DEF Recent
  <2>2. CASE d # c
    BY <2>2, <1>10, <1>3, <1>9 DEF Recent, IInv
  <2> QED BY <2>1, <2>2
<1>11. ASSUME NEW g \in Handlers
       PROVE  (IF pc[g] = "ask" THEN Waiting(g) ELSE holds[g] = None)'
  <2>1. CASE g = h
    BY <2>1, Leaving
  <2>2. CASE g # h
    BY <2>2, Leaving DEF Waiting, IInv
  <2> QED BY <2>1, <2>2
<1>12. Paid'
  <2>1. Credit(c)' = Credit(c) - 1
    <3>1. Level(l)' = Level(l) - 1
      <4>1. now \in Nat
        BY <1>0, Numbers DEF TypeOK, Times
      <4>2. Level(l)' = Smaller(Burst, (Level(l) - 1) + (now - now))
        BY <1>2 DEF Level
      <4> QED BY SMT, <4>1, <4>2, <1>1, Numbers DEF Smaller
    <3> QED BY <3>1, <1>1 DEF Credit
  <2>2. ASSUME NEW d \in Clients, d # c PROVE Credit(d)' = Credit(d)
    BY <2>2, <1>3, <1>9 DEF Credit, Level
  <2>3. ASSUME NEW d \in Clients
        PROVE  admitted'[d] + Credit(d)' <= Burst + (now' - opened')
    <3>1. admitted[d] + Credit(d) <= Burst + (now - opened) /\ admitted[d] \in Nat
          /\ Credit(d) \in 0 .. Burst
      BY <1>0, CreditRange DEF Paid, TypeOK
    <3>2. CASE d = c
      BY SMT, <3>1, <3>2, <2>1, <1>5, Numbers
    <3>3. CASE d # c
      BY <3>1, <3>3, <2>2, <1>5
    <3> QED BY <3>2, <3>3
  <2> QED BY <2>3 DEF Paid
<1> QED BY <1>6, <1>7, <1>8, <1>10, <1>11, <1>12 DEF IInv

LEMMA InvRefuse ==
    ASSUME IInv, NEW h \in Handlers, Refuse(h)
    PROVE  IInv'
<1> USE DEF Refuse
<1>0. TypeOK /\ HeldIsMapped /\ Clock /\ Paid
  BY DEF IInv
<1>1. TypeOK'
  <2>1. refusals' \in [Clients -> BOOLEAN]
    BY <1>0 DEF TypeOK
  <2> QED BY <2>1, <1>0, Leaving DEF TypeOK
<1>2. HeldIsMapped' /\ Clock'
  BY <1>0, Leaving DEF HeldIsMapped, Clock
<1>3. \A d \in Clients : Credit(d)' = Credit(d) /\ (visitors[d] # None => Recent(d)')
  BY DEF Credit, Level, Recent, IInv
<1>4. ASSUME NEW g \in Handlers
      PROVE  (IF pc[g] = "ask" THEN Waiting(g) ELSE holds[g] = None)'
  <2>1. CASE g = h
    BY <2>1, Leaving
  <2>2. CASE g # h
    BY <2>2, Leaving DEF Waiting, IInv
  <2> QED BY <2>1, <2>2
<1>5. Paid'
  BY <1>0, <1>3 DEF Paid
<1> QED BY <1>1, <1>2, <1>3, <1>4, <1>5 DEF IInv

\* Whoever the sweeper forgets has a full bucket and nobody waiting.
LEMMA Forgotten ==
    ASSUME IInv, NEW c \in Clients, Stale(c)
    PROVE  Credit(c) = Burst /\ \A h \in Handlers : pc[h] = "ask" => client[h] # c
<1>0. TypeOK /\ visitors[c] # None /\ Recent(c)
  BY DEF IInv, Stale
<1> DEFINE l == visitors[c].limiter
<1>1. /\ now \in Nat /\ visitors[c].lastSeen \in Nat /\ l \in Limiters
      /\ limiters[l].last \in Nat /\ limiters[l].tokens \in Nat
  BY <1>0, Numbers DEF TypeOK, Visitor, Limiter, Times
<1>2. now - limiters[l].last >= Burst
  BY SMT, <1>0, <1>1, Numbers DEF Recent, Stale
<1>3. Level(l) = Burst
  BY SMT, <1>1, <1>2, Numbers DEF Level, Smaller
<1>4. ASSUME NEW h \in Handlers, pc[h] = "ask", client[h] = c PROVE FALSE
  <2>1. since[h] \in Nat /\ now - since[h] <= Stall /\ since[h] <= visitors[c].lastSeen
    BY <1>4, <1>0, Numbers DEF IInv, Waiting, TypeOK, Times
  <2> QED BY SMT, <2>1, <1>1, Numbers DEF Stale
<1> QED BY <1>0, <1>3, <1>4 DEF Credit

LEMMA SweepKeepsCredit ==
    ASSUME IInv, Sweep, NEW c \in Clients
    PROVE  Credit(c)' = Credit(c)
<1>1. visitors'[c] = IF Stale(c) THEN None ELSE visitors[c]
  BY DEF Sweep
<1>2. limiters' = limiters /\ now' = now
  BY DEF Sweep
<1>3. CASE Stale(c)
  BY <1>3, <1>1, Forgotten DEF Credit
<1>4. CASE ~Stale(c)
  BY <1>4, <1>1, <1>2 DEF Credit, Level
<1> QED BY <1>3, <1>4

LEMMA InvSweep ==
    ASSUME IInv, Sweep
    PROVE  IInv'
<1> USE DEF Sweep
<1>0. TypeOK /\ HeldIsMapped /\ Clock /\ Paid
  BY DEF IInv
<1>1. \A c \in Clients : visitors'[c] = IF Stale(c) THEN None ELSE visitors[c]
  OBVIOUS
<1>2. TypeOK'
  <2>1. visitors' \in [Clients -> Visitor \cup {None}]
    BY <1>0 DEF TypeOK
  <2> QED BY <2>1, <1>0 DEF TypeOK, goroutine, history
<1>3. HeldIsMapped'
  <2>1. ASSUME NEW h \in Handlers, pc[h] = "ask" PROVE visitors'[client[h]] = visitors[client[h]]
    BY <2>1, <1>1, Asking, Forgotten
  <2> QED BY <2>1, <1>0, <1>1 DEF HeldIsMapped, goroutine
<1>4. Clock'
  BY SMT, <1>0, Numbers DEF Clock, TypeOK, Times, history
<1>5. ASSUME NEW c \in Clients, visitors'[c] # None PROVE Recent(c)'
  <2>1. visitors'[c] = visitors[c] /\ ~Stale(c) /\ Recent(c)
    BY <1>5, <1>1 DEF IInv
  <2>2. now \in Nat /\ visitors[c].lastSeen \in Nat
    BY <2>1, <1>5, <1>0, Numbers DEF TypeOK, Visitor, Times
  <2>3. now <= visitors[c].lastSeen + Idle
    BY SMT, <2>1, <2>2, <1>5, Numbers DEF Stale
  <2> QED BY <2>1, <2>3 DEF Recent
<1>6. ASSUME NEW h \in Handlers
      PROVE  (IF pc[h] = "ask" THEN Waiting(h) ELSE holds[h] = None)'
  <2>1. pc[h] = "ask" => visitors'[client[h]] = visitors[client[h]]
    BY <1>1, Asking, Forgotten
  <2> QED BY <2>1 DEF IInv, Waiting, goroutine
<1>7. Paid'
  BY <1>0, SweepKeepsCredit DEF Paid, history
<1> QED BY <1>2, <1>3, <1>4, <1>5, <1>6, <1>7 DEF IInv

\* A bucket regains one token.
LEMMA TickCredit ==
    ASSUME IInv, Tick, NEW c \in Clients
    PROVE  Credit(c)' = Smaller(Burst, Credit(c) + 1)
<1>0. TypeOK
  BY DEF IInv
<1>1. CASE visitors[c] = None
  BY SMT, <1>1, Numbers DEF Tick, Credit, Smaller
<1>2. CASE visitors[c] # None
  <2> DEFINE l == visitors[c].limiter
  <2>1. /\ now \in Nat /\ limiters[l].last \in Nat /\ limiters[l].tokens \in Nat
        /\ limiters[l].last <= now
    BY <1>0, <1>2, Numbers DEF IInv, Recent, TypeOK, Visitor, Limiter, Times
  <2>2. Level(l) = Smaller(Burst, limiters[l].tokens + (now - limiters[l].last))
        /\ Level(l)' = Smaller(Burst, limiters[l].tokens + ((now + 1) - limiters[l].last))
    BY DEF Level, Tick
  <2>3. Level(l)' = Smaller(Burst, Level(l) + 1)
    BY SMT, <2>1, <2>2, Numbers DEF Smaller
  <2> QED BY <2>3, <1>2 DEF Credit, Tick
<1> QED BY <1>1, <1>2

LEMMA InvTick ==
    ASSUME IInv, Tick
    PROVE  IInv'
<1> USE DEF Tick
<1>0. TypeOK /\ HeldIsMapped /\ Clock /\ Paid
  BY DEF IInv
<1>1. now \in Nat /\ swept \in Nat /\ opened \in Nat /\ now' \in Times
  BY SMT, <1>0, Numbers DEF TypeOK, Times
<1>2. TypeOK'
  BY <1>0, <1>1 DEF TypeOK, goroutine, history
<1>3. HeldIsMapped'
  BY <1>0 DEF HeldIsMapped, goroutine
<1>4. Clock'
  BY SMT, <1>0, <1>1, Numbers DEF Clock, SweepDue, history
<1>5. ASSUME NEW c \in Clients, visitors'[c] # None PROVE Recent(c)'
  <2>1. Recent(c) /\ visitors[c].lastSeen \in Nat
        /\ limiters[visitors[c].limiter].last \in Nat
    BY <1>5, <1>0, Numbers DEF IInv, TypeOK, Visitor, Limiter, Times
  <2> QED BY SMT, <2>1, <1>1 DEF Recent
<1>6. ASSUME NEW h \in Handlers
      PROVE  (IF pc[h] = "ask" THEN Waiting(h) ELSE holds[h] = None)'
  <2>1. CASE pc[h] = "ask"
    <3>1. Waiting(h) /\ since[h] \in Nat /\ now - since[h] < Stall
      BY <2>1, <1>0, Numbers DEF IInv, TypeOK, Times
    <3>2. since[h] <= now + 1 /\ (now + 1) - since[h] <= Stall
      BY SMT, <3>1, <1>1, Numbers DEF Waiting
    <3> QED BY <3>1, <3>2, <2>1 DEF Waiting, goroutine
  <2>2. CASE pc[h] # "ask"
    BY <2>2 DEF IInv, goroutine
  <2> QED BY <2>1, <2>2
<1>7. Paid'
  <2>1. ASSUME NEW c \in Clients
        PROVE  admitted'[c] + Credit(c)' <= Burst + (now' - opened')
    <3>1. admitted[c] \in Nat /\ admitted[c] + Credit(c) <= Burst + (now - opened)
          /\ Credit(c) \in 0 .. Burst
      BY <1>0, CreditRange DEF Paid, TypeOK
    <3>2. Credit(c)' <= Credit(c) + 1 /\ Credit(c)' \in Nat
      BY SMT, <3>1, TickCredit, Numbers DEF Smaller
    <3> QED BY SMT, <3>1, <3>2, <1>1, Numbers DEF history
  <2> QED BY <2>1 DEF Paid
<1> QED BY <1>2, <1>3, <1>4, <1>5, <1>6, <1>7 DEF IInv

LEMMA InvOpenWindow ==
    ASSUME IInv, OpenWindow
    PROVE  IInv'
<1> USE DEF OpenWindow
<1>0. TypeOK /\ HeldIsMapped /\ Clock /\ Paid
  BY DEF IInv
<1>1. TypeOK'
  BY SMT, <1>0 DEF TypeOK, goroutine
<1>2. HeldIsMapped' /\ Clock'
  BY SMT, <1>0, Numbers DEF HeldIsMapped, Clock, TypeOK, Times, goroutine
<1>3. \A c \in Clients : Credit(c)' = Credit(c) /\ (visitors[c] # None => Recent(c)')
  BY DEF Credit, Level, Recent, IInv
<1>4. \A h \in Handlers : (IF pc[h] = "ask" THEN Waiting(h) ELSE holds[h] = None)'
  BY DEF Waiting, IInv, goroutine
<1>5. Paid'
  <2>1. ASSUME NEW c \in Clients
        PROVE  admitted'[c] + Credit(c)' <= Burst + (now' - opened')
    BY SMT, <1>0, <1>3, CreditRange, Numbers DEF TypeOK, Times
  <2> QED BY <2>1 DEF Paid
<1> QED BY <1>1, <1>2, <1>3, <1>4, <1>5 DEF IInv

\* Stopping the sweeper, or nothing at all.
LEMMA InvStop ==
    ASSUME IInv, Stop \/ UNCHANGED vars
    PROVE  IInv'
<1>0. TypeOK /\ HeldIsMapped /\ Clock /\ Paid
  BY DEF IInv
<1>1. /\ now' = now /\ visitors' = visitors /\ limiters' = limiters /\ pc' = pc
      /\ client' = client /\ holds' = holds /\ since' = since /\ swept' = swept
      /\ opened' = opened /\ admitted' = admitted /\ refusals' = refusals
      /\ (stopped' = stopped \/ stopped' = TRUE)
  BY DEF Stop, vars, goroutine, history
<1>2. TypeOK'
  BY <1>0, <1>1 DEF TypeOK
<1>3. HeldIsMapped' /\ Clock'
  BY <1>0, <1>1 DEF HeldIsMapped, Clock
<1>4. \A c \in Clients : Credit(c)' = Credit(c) /\ (visitors[c] # None => Recent(c)')
  BY <1>1 DEF Credit, Level, Recent, IInv
<1>5. \A h \in Handlers : (IF pc[h] = "ask" THEN Waiting(h) ELSE holds[h] = None)'
  BY <1>1 DEF Waiting, IInv
<1>6. Paid'
  BY <1>0, <1>1, <1>4 DEF Paid
<1> QED BY <1>1, <1>2, <1>3, <1>4, <1>5, <1>6 DEF IInv

LEMMA InvNext == IInv /\ [Next]_vars => IInv'
<1> SUFFICES ASSUME IInv, [Next]_vars PROVE IInv'
  OBVIOUS
<1>1. CASE \E h \in Handlers, c \in Clients, l \in Limiters : Meet(h, c, l)
  BY <1>1, InvMeet
<1>2. CASE \E h \in Handlers, c \in Clients : Find(h, c)
  BY <1>2, InvFind
<1>3. CASE \E h \in Handlers : Allow(h) \/ Refuse(h)
  BY <1>3, InvAllow, InvRefuse
<1>4. CASE Sweep \/ Tick \/ OpenWindow
  BY <1>4, InvSweep, InvTick, InvOpenWindow
<1>5. CASE Stop \/ UNCHANGED vars
  BY <1>5, InvStop
<1> QED BY <1>1, <1>2, <1>3, <1>4, <1>5 DEF Next

\* The inductive invariant holds of every behaviour.
THEOREM Inductive == Spec => []IInv
<1> QED BY InvInit, InvNext, PTL DEF Spec

\* Type correctness for any number of goroutines, clients and limiters.
THEOREM TypeCorrect == Spec => []TypeOK
<1>1. IInv => TypeOK
  BY DEF IInv
<1> QED BY <1>1, Inductive, PTL

\* Two requests of one client never have separate quotas, although the mutex is
\* released between lookup and Allow.
THEOREM HeldIsMappedHolds == Spec => []HeldIsMapped
<1>1. IInv => HeldIsMapped
  BY DEF IInv
<1> QED BY <1>1, Inductive, PTL

\* Over any window a client gets at most its burst and one request per unit of
\* time, whatever the sweeper forgets.
THEOREM QuotaHolds == Spec => []Quota
<1>1. IInv => Quota
  <2> SUFFICES ASSUME IInv, NEW c \in Clients
               PROVE  admitted[c] <= Burst + (now - opened)
    BY DEF Quota
  <2>1. /\ admitted[c] \in Nat /\ now \in Nat /\ opened \in Nat
        /\ admitted[c] + Credit(c) <= Burst + (now - opened)
    BY Numbers DEF IInv, TypeOK, Paid, Times
  <2> QED BY SMT, <2>1, CreditRange, Numbers
<1> QED BY <1>1, Inductive, PTL

\* The map holds only clients of the sweeper's last two periods.
THEOREM ForgottenInTimeHolds == Spec => []ForgottenInTime
<1>1. IInv => ForgottenInTime
  <2> SUFFICES ASSUME IInv, NEW c \in Clients, visitors[c] # None, ~stopped
               PROVE  now - visitors[c].lastSeen <= 2 * Idle
    BY DEF ForgottenInTime
  <2>1. /\ now \in Nat /\ swept \in Nat /\ visitors[c].lastSeen \in Nat
        /\ now - swept <= Idle /\ swept <= visitors[c].lastSeen + Idle
    BY Numbers DEF IInv, TypeOK, Visitor, Times, Clock, Recent
  <2> QED BY SMT, <2>1, Numbers
<1> QED BY <1>1, Inductive, PTL

-----------------------------------------------------------------------------
(* Refinement *)

LEMMA BucketInit == Init => Bucket!Init
BY DEF Init, Bucket!Init, Credit

LEMMA BucketStep == IInv /\ [Next]_vars => [Bucket!Next]_Bucket!vars
<1> SUFFICES ASSUME IInv, [Next]_vars PROVE [Bucket!Next]_Bucket!vars
  OBVIOUS
<1> DEFINE Same == /\ now' = now /\ opened' = opened /\ admitted' = admitted
                   /\ refusals' = refusals
                   /\ \A c \in Clients : Credit(c)' = Credit(c)
<1>1. ASSUME Same PROVE UNCHANGED Bucket!vars
  BY <1>1 DEF Bucket!vars
<1>2. ASSUME NEW h \in Handlers, NEW c \in Clients, NEW l \in Limiters, Meet(h, c, l)
      PROVE  Same
  <2>1. TypeOK /\ now \in Nat
    BY Numbers DEF IInv, TypeOK, Times
  <2>2. \A d \in Clients : d # c =>
           /\ visitors'[d] = visitors[d]
           /\ visitors[d] # None =>
                limiters'[visitors[d].limiter] = limiters[visitors[d].limiter]
    BY <1>2, <2>1 DEF Meet, TypeOK, Unused, Visitor
  <2>3. visitors'[c] = [limiter |-> l, lastSeen |-> now] /\ limiters'[l] = Fresh
        /\ visitors[c] = None
    BY <1>2, <2>1 DEF Meet, TypeOK
  <2>4. visitors'[c] # None
    BY <2>1, <2>3, NoneAssumption DEF TypeOK, Visitor
  <2>5. Level(l)' = Burst
    <3>1. Level(l)' = Smaller(Burst, Burst + (now - now))
      BY <1>2, <2>3 DEF Level, Fresh, Meet
    <3> QED BY SMT, <3>1, <2>1, Numbers DEF Smaller
  <2>6. Credit(c)' = Credit(c)
    BY <2>3, <2>4, <2>5 DEF Credit
  <2>7. \A d \in Clients : d # c => Credit(d)' = Credit(d)
    BY <1>2, <2>2 DEF Credit, Level, Meet
  <2> QED BY <1>2, <2>6, <2>7 DEF Meet, history
<1>3. ASSUME NEW h \in Handlers, NEW c \in Clients, Find(h, c)
      PROVE  Same
  <2>1. visitors[c] \in Visitor /\ visitors \in [Clients -> Visitor \cup {None}]
    BY <1>3 DEF IInv, TypeOK, Find
  <2>2. visitors'[c] = [limiter |-> visitors[c].limiter, lastSeen |-> now]
        /\ \A d \in Clients : d # c => visitors'[d] = visitors[d]
    BY <1>3, <2>1 DEF Find, Visitor
  <2>3. visitors'[c] # None
    BY <2>1, <2>2, NoneAssumption DEF IInv, TypeOK, Visitor
  <2>4. \A d \in Clients : Credit(d)' = Credit(d)
    BY <1>3, <2>2, <2>3 DEF Credit, Level, Find
  <2> QED BY <1>3, <2>4 DEF Find, history
<1>4. ASSUME NEW h \in Handlers, Allow(h)
      PROVE  \E c \in Clients : Bucket!Admit(c)
  <2>p. PICK c \in Clients, l \in Limiters : c = client[h] /\ l = holds[h]
    BY <1>4, Asking DEF Allow
  <2>1. /\ c \in Clients /\ l \in Limiters /\ visitors[c] # None
        /\ visitors[c].limiter = l /\ Level(l) = Credit(c) /\ Level(l) \in 0 .. Burst
    BY <1>4, <2>p, Asking DEF Allow
  <2>2. limiters'[l] = [tokens |-> Level(l) - 1, last |-> now]
        /\ \A k \in Limiters : k # l => limiters'[k] = limiters[k]
    BY <1>4, <2>1, <2>p DEF Allow, IInv, TypeOK
  <2>3. Credit(c)' = Credit(c) - 1
    <3>1. now \in Nat
      BY Numbers DEF IInv, TypeOK, Times
    <3>2. Level(l)' = Smaller(Burst, (Level(l) - 1) + (now - now))
      BY <1>4, <2>2 DEF Level, Allow
    <3>3. Level(l)' = Level(l) - 1
      BY SMT, <3>1, <3>2, <2>1, Numbers DEF Smaller
    <3> QED BY <3>3, <2>1, <1>4 DEF Credit, Allow
  <2>4. ASSUME NEW d \in Clients, d # c PROVE Credit(d)' = Credit(d)
    <3>1. visitors[d] # None => visitors[d].limiter \in Limiters \ {l}
      BY <2>4, <2>1 DEF IInv, HeldIsMapped, TypeOK, Visitor
    <3> QED BY <3>1, <2>2, <1>4 DEF Credit, Level, Allow
  <2>5. [e \in Clients |-> Credit(e)]' = [[e \in Clients |-> Credit(e)] EXCEPT ![c] = @ - 1]
    BY <2>1, <2>3, <2>4
  <2>6. Credit(c) > 0
    BY <2>1, <2>p, <1>4 DEF Allow
  <2>7. Bucket!Admit(c)
    BY <2>1, <2>p, <2>5, <2>6, <1>4 DEF Bucket!Admit, Allow
  <2> QED BY <2>1, <2>7
<1>5. ASSUME NEW h \in Handlers, Refuse(h)
      PROVE  \E c \in Clients : Bucket!Refuse(c)
  <2>1. client[h] \in Clients /\ Level(holds[h]) = Credit(client[h])
    BY <1>5, Asking DEF Refuse
  <2>2. \A d \in Clients : Credit(d)' = Credit(d)
    BY <1>5 DEF Credit, Level, Refuse
  <2>3. Bucket!Refuse(client[h])
    BY <2>1, <2>2, <1>5 DEF Bucket!Refuse, Refuse
  <2> QED BY <2>1, <2>3
<1>6. ASSUME Sweep PROVE Same
  BY <1>6, SweepKeepsCredit DEF Sweep, history
<1>7. ASSUME Tick PROVE Bucket!Tick
  <2>1. \A c \in Clients : Credit(c)' = Smaller(Burst, Credit(c) + 1)
    BY <1>7, TickCredit
  <2> QED BY <2>1, <1>7 DEF Tick, history, Bucket!Tick, Bucket!Smaller, Smaller
<1>8. ASSUME OpenWindow PROVE Bucket!OpenWindow
  <2>1. \A c \in Clients : Credit(c)' = Credit(c)
    BY <1>8 DEF OpenWindow, Credit, Level
  <2> QED BY <2>1, <1>8 DEF OpenWindow, Bucket!OpenWindow
<1>9. ASSUME Stop \/ UNCHANGED vars PROVE Same
  BY <1>9 DEF Stop, vars, history, Credit, Level
<1>10. Same \/ Bucket!Next
  <2>1. CASE Next
    BY <2>1, <1>2, <1>3, <1>4, <1>5, <1>6, <1>7, <1>8, <1>9 DEF Next, Bucket!Next
  <2> QED BY <2>1, <1>9
<1> HIDE DEF Same
<1> QED BY <1>1, <1>10

\* The limiter is, for every client, one bucket that is never forgotten.
THEOREM Refinement == Spec => ImplementsBucket
<1> QED BY BucketInit, BucketStep, Inductive, PTL DEF Spec, ImplementsBucket, Bucket!Spec

=============================================================================
