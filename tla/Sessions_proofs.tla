-------------------------- MODULE Sessions_proofs --------------------------
(***************************************************************************)
(* Proofs about Sessions: its inductive invariant, and that a session that *)
(* has ended never comes back.                                             *)
(***************************************************************************)
EXTENDS Sessions, TLAPS

LEMMA Numbers ==
    /\ TTL \in Nat /\ TTL > 0 /\ Period \in Nat /\ MaxTime \in Nat
    /\ None \notin Times /\ None \notin Deadlines /\ None \notin Tokens
    /\ 0 \in Times
    /\ \A x \in Times : x \in Nat /\ x + TTL \in Deadlines
    /\ \A x \in Deadlines : x \in Nat
BY SMT, TimesAssumption, NoneAssumption DEF Times, Deadlines

LEMMA InvLogin ==
    ASSUME IInv, NEW r \in Requests, NEW t \in Tokens, Login(r, t)
    PROVE  IInv'
<1> USE DEF Login, Goto, history
<1>1. TypeOK'
  BY Numbers DEF IInv, TypeOK, Labels
<1>2. swept' <= now' /\ (~stopped' => now' - swept' <= Period)
  BY SMT, Numbers DEF IInv, TypeOK, Times, SweepDue
<1>3. \A s \in jar' \cup over' : born'[s] # None
  BY Numbers DEF IInv, TypeOK, Busy, Times
<1>4. ASSUME NEW s \in Tokens, InMap(s)' PROVE Kept(s)'
  BY SMT, <1>4, Numbers DEF IInv, TypeOK, Busy, Kept, InMap, Times, Live, Expired, SweepDue
<1>5. ASSUME NEW q \in Requests PROVE Busy(q)'
  <2>1. carries'[r] = t /\ pc'[r] = "store"
        /\ \A p \in Requests : p # r => carries'[p] = carries[p] /\ pc'[p] = pc[p]
    BY DEF IInv, TypeOK
  <2>2. CASE q = r
    BY <2>1, <2>2, Numbers DEF IInv, Busy
  <2>3. CASE q # r
    BY <2>1, <2>3 DEF IInv, Busy, InMap
  <2> QED BY <2>2, <2>3
<1>6. LoggedOutNoMore'
  BY DEF IInv, TypeOK, Busy, Kept, Live, LoggedOutNoMore
<1>7. AdmittedInLife'
  BY SMT, Numbers DEF IInv, TypeOK, Busy, Kept, InMap, Live, Expired, AdmittedInLife, Times
<1> QED BY <1>1, <1>2, <1>3, <1>4, <1>5, <1>6, <1>7 DEF IInv

LEMMA InvArrive ==
    ASSUME IInv, NEW r \in Requests, NEW t \in Tokens, Arrive(r, t)
    PROVE  IInv'
<1> USE DEF Arrive, Goto, history
<1>1. TypeOK'
  BY Numbers DEF IInv, TypeOK, Labels
<1>2. swept' <= now' /\ (~stopped' => now' - swept' <= Period)
  BY SMT, Numbers DEF IInv, TypeOK, Times, SweepDue
<1>3. \A s \in jar' \cup over' : born'[s] # None
  BY Numbers DEF IInv, TypeOK, Busy, Times
<1>4. ASSUME NEW s \in Tokens, InMap(s)' PROVE Kept(s)'
  BY SMT, <1>4, Numbers DEF IInv, TypeOK, Busy, Kept, InMap, Times, Live, Expired, SweepDue
<1>5. ASSUME NEW q \in Requests PROVE Busy(q)'
  <2>0. /\ DOMAIN carries = Requests /\ DOMAIN pc = Requests /\ DOMAIN late = Requests
        /\ carries' = [carries EXCEPT ![r] = t] /\ pc' = [pc EXCEPT ![r] = "check"]
        /\ late' = [late EXCEPT ![r] = t \in over]
    BY DEF IInv, TypeOK
  <2>1. carries'[r] = t /\ pc'[r] = "check" /\ late'[r] = (t \in over)
        /\ \A p \in Requests : p # r =>
              carries'[p] = carries[p] /\ pc'[p] = pc[p] /\ late'[p] = late[p]
    BY <2>0
  <2>2. born[t] # None
    BY DEF IInv
  <2>3. CASE q = r
    <3>1. t # None /\ born'[t] # None
      BY <2>2, Numbers
    <3>2. late'[r] => t \in over'
      BY <2>1
    <3> HIDE DEF Arrive, Goto, history
    <3> QED BY <2>1, <2>3, <3>1, <3>2 DEF Busy
  <2>4. CASE q # r
    BY <2>1, <2>2, <2>4 DEF IInv, Busy, InMap
  <2> QED BY <2>3, <2>4
<1>6. LoggedOutNoMore'
  BY DEF IInv, TypeOK, Busy, Kept, Live, LoggedOutNoMore
<1>7. AdmittedInLife'
  BY SMT, Numbers DEF IInv, TypeOK, Busy, Kept, InMap, Live, Expired, AdmittedInLife, Times
<1> QED BY <1>1, <1>2, <1>3, <1>4, <1>5, <1>6, <1>7 DEF IInv

LEMMA InvCreateSession ==
    ASSUME IInv, NEW r \in Requests, CreateSession(r)
    PROVE  IInv'
<1> USE DEF CreateSession, Goto, history
<1>1. TypeOK'
  BY Numbers DEF IInv, TypeOK, Labels
<1>2. swept' <= now' /\ (~stopped' => now' - swept' <= Period)
  BY SMT, Numbers DEF IInv, TypeOK, Times, SweepDue
<1>3. \A s \in jar' \cup over' : born'[s] # None
  BY Numbers DEF IInv, TypeOK, Busy, Times
<1>4. ASSUME NEW s \in Tokens, InMap(s)' PROVE Kept(s)'
  BY SMT, <1>4, Numbers DEF IInv, TypeOK, Busy, Kept, InMap, Times, Live, Expired, SweepDue
<1>5. ASSUME NEW q \in Requests PROVE Busy(q)'
  BY Numbers DEF IInv, TypeOK, Busy, Kept, InMap, Live, Times
<1>6. LoggedOutNoMore'
  BY DEF IInv, TypeOK, Busy, Kept, Live, LoggedOutNoMore
<1>7. AdmittedInLife'
  BY SMT, Numbers DEF IInv, TypeOK, Busy, Kept, InMap, Live, Expired, AdmittedInLife, Times
<1> QED BY <1>1, <1>2, <1>3, <1>4, <1>5, <1>6, <1>7 DEF IInv

LEMMA InvSetCookie ==
    ASSUME IInv, NEW r \in Requests, SetCookie(r)
    PROVE  IInv'
<1> USE DEF SetCookie, Done, Goto, history
<1>1. TypeOK'
  <2>1. jar' \subseteq Tokens
    BY DEF IInv, TypeOK, Busy
  <2> QED BY <2>1 DEF IInv, TypeOK, Labels
<1>2. swept' <= now' /\ (~stopped' => now' - swept' <= Period)
  BY SMT, Numbers DEF IInv, TypeOK, Times, SweepDue
<1>3. \A s \in jar' \cup over' : born'[s] # None
  BY Numbers DEF IInv, TypeOK, Busy, Times
<1>4. ASSUME NEW s \in Tokens, InMap(s)' PROVE Kept(s)'
  BY SMT, <1>4, Numbers DEF IInv, TypeOK, Busy, Kept, InMap, Times, Live, Expired, SweepDue
<1>5. ASSUME NEW q \in Requests PROVE Busy(q)'
  BY Numbers DEF IInv, TypeOK, Busy, Kept, InMap, Live, Times
<1>6. LoggedOutNoMore'
  BY DEF IInv, TypeOK, Busy, Kept, Live, LoggedOutNoMore
<1>7. AdmittedInLife'
  BY SMT, Numbers DEF IInv, TypeOK, Busy, Kept, InMap, Live, Expired, AdmittedInLife, Times
<1> QED BY <1>1, <1>2, <1>3, <1>4, <1>5, <1>6, <1>7 DEF IInv

LEMMA InvAdmit ==
    ASSUME IInv, NEW r \in Requests, Admit(r)
    PROVE  IInv'
<1> USE DEF Admit, LetIn, Goto, history
<1>1. TypeOK'
  BY Numbers DEF IInv, TypeOK, Labels
<1>2. swept' <= now' /\ (~stopped' => now' - swept' <= Period)
  BY SMT, Numbers DEF IInv, TypeOK, Times, SweepDue
<1>3. \A s \in jar' \cup over' : born'[s] # None
  BY Numbers DEF IInv, TypeOK, Busy, Times
<1>4. ASSUME NEW s \in Tokens, InMap(s)' PROVE Kept(s)'
  BY SMT, <1>4, Numbers DEF IInv, TypeOK, Busy, Kept, InMap, Times, Live, Expired, SweepDue
<1>5. ASSUME NEW q \in Requests PROVE Busy(q)'
  BY Numbers DEF IInv, TypeOK, Busy, Kept, InMap, Live, Times
<1>6. LoggedOutNoMore'
  BY DEF IInv, TypeOK, Busy, Kept, Live, LoggedOutNoMore
<1>7. AdmittedInLife'
  BY SMT, Numbers DEF IInv, TypeOK, Busy, Kept, InMap, Live, Expired, AdmittedInLife, Times
<1> QED BY <1>1, <1>2, <1>3, <1>4, <1>5, <1>6, <1>7 DEF IInv

LEMMA InvRefuse ==
    ASSUME IInv, NEW r \in Requests, Refuse(r)
    PROVE  IInv'
<1> USE DEF Refuse, Done, Goto, history
<1>1. TypeOK'
  BY Numbers DEF IInv, TypeOK, Labels
<1>2. swept' <= now' /\ (~stopped' => now' - swept' <= Period)
  BY SMT, Numbers DEF IInv, TypeOK, Times, SweepDue
<1>3. \A s \in jar' \cup over' : born'[s] # None
  BY Numbers DEF IInv, TypeOK, Busy, Times
<1>4. ASSUME NEW s \in Tokens, InMap(s)' PROVE Kept(s)'
  BY SMT, <1>4, Numbers DEF IInv, TypeOK, Busy, Kept, InMap, Times, Live, Expired, SweepDue
<1>5. ASSUME NEW q \in Requests PROVE Busy(q)'
  BY Numbers DEF IInv, TypeOK, Busy, Kept, InMap, Live, Times
<1>6. LoggedOutNoMore'
  BY DEF IInv, TypeOK, Busy, Kept, Live, LoggedOutNoMore
<1>7. AdmittedInLife'
  BY SMT, Numbers DEF IInv, TypeOK, Busy, Kept, InMap, Live, Expired, AdmittedInLife, Times
<1> QED BY <1>1, <1>2, <1>3, <1>4, <1>5, <1>6, <1>7 DEF IInv

LEMMA InvServe ==
    ASSUME IInv, NEW r \in Requests, Serve(r)
    PROVE  IInv'
<1> USE DEF Serve, Done, Goto, history
<1>1. TypeOK'
  BY Numbers DEF IInv, TypeOK, Labels
<1>2. swept' <= now' /\ (~stopped' => now' - swept' <= Period)
  BY SMT, Numbers DEF IInv, TypeOK, Times, SweepDue
<1>3. \A s \in jar' \cup over' : born'[s] # None
  BY Numbers DEF IInv, TypeOK, Busy, Times
<1>4. ASSUME NEW s \in Tokens, InMap(s)' PROVE Kept(s)'
  BY SMT, <1>4, Numbers DEF IInv, TypeOK, Busy, Kept, InMap, Times, Live, Expired, SweepDue
<1>5. ASSUME NEW q \in Requests PROVE Busy(q)'
  BY Numbers DEF IInv, TypeOK, Busy, Kept, InMap, Live, Times
<1>6. LoggedOutNoMore'
  BY DEF IInv, TypeOK, Busy, Kept, Live, LoggedOutNoMore
<1>7. AdmittedInLife'
  BY SMT, Numbers DEF IInv, TypeOK, Busy, Kept, InMap, Live, Expired, AdmittedInLife, Times
<1> QED BY <1>1, <1>2, <1>3, <1>4, <1>5, <1>6, <1>7 DEF IInv

LEMMA InvLogout ==
    ASSUME IInv, NEW r \in Requests, Logout(r)
    PROVE  IInv'
<1> USE DEF Logout, Goto, history
<1>1. TypeOK'
  BY Numbers DEF IInv, TypeOK, Labels
<1>2. swept' <= now' /\ (~stopped' => now' - swept' <= Period)
  BY SMT, Numbers DEF IInv, TypeOK, Times, SweepDue
<1>3. \A s \in jar' \cup over' : born'[s] # None
  BY Numbers DEF IInv, TypeOK, Busy, Times
<1>4. ASSUME NEW s \in Tokens, InMap(s)' PROVE Kept(s)'
  BY SMT, <1>4, Numbers DEF IInv, TypeOK, Busy, Kept, InMap, Times, Live, Expired, SweepDue
<1>5. ASSUME NEW q \in Requests PROVE Busy(q)'
  BY Numbers DEF IInv, TypeOK, Busy, Kept, InMap, Live, Times
<1>6. LoggedOutNoMore'
  BY DEF IInv, TypeOK, Busy, Kept, Live, LoggedOutNoMore
<1>7. AdmittedInLife'
  BY SMT, Numbers DEF IInv, TypeOK, Busy, Kept, InMap, Live, Expired, AdmittedInLife, Times
<1> QED BY <1>1, <1>2, <1>3, <1>4, <1>5, <1>6, <1>7 DEF IInv

LEMMA InvClearCookie ==
    ASSUME IInv, NEW r \in Requests, ClearCookie(r)
    PROVE  IInv'
<1> USE DEF ClearCookie, Done, Goto, history
<1>1. TypeOK'
  <2>1. over' \subseteq Tokens
    BY DEF IInv, TypeOK, Busy
  <2> QED BY <2>1 DEF IInv, TypeOK, Labels
<1>2. swept' <= now' /\ (~stopped' => now' - swept' <= Period)
  BY SMT, Numbers DEF IInv, TypeOK, Times, SweepDue
<1>3. \A s \in jar' \cup over' : born'[s] # None
  BY Numbers DEF IInv, TypeOK, Busy, Times
<1>4. ASSUME NEW s \in Tokens, InMap(s)' PROVE Kept(s)'
  BY SMT, <1>4, Numbers DEF IInv, TypeOK, Busy, Kept, InMap, Times, Live, Expired, SweepDue
<1>5. ASSUME NEW q \in Requests PROVE Busy(q)'
  BY Numbers DEF IInv, TypeOK, Busy, Kept, InMap, Live, Times
<1>6. LoggedOutNoMore'
  BY DEF IInv, TypeOK, Busy, Kept, Live, LoggedOutNoMore
<1>7. AdmittedInLife'
  BY SMT, Numbers DEF IInv, TypeOK, Busy, Kept, InMap, Live, Expired, AdmittedInLife, Times
<1> QED BY <1>1, <1>2, <1>3, <1>4, <1>5, <1>6, <1>7 DEF IInv

LEMMA InvSweep ==
    ASSUME IInv, Sweep
    PROVE  IInv'
<1> USE DEF Sweep, Goto, history
<1>1. TypeOK'
  BY Numbers DEF IInv, TypeOK, Labels
<1>2. swept' <= now' /\ (~stopped' => now' - swept' <= Period)
  BY SMT, Numbers DEF IInv, TypeOK, Times, SweepDue
<1>3. \A s \in jar' \cup over' : born'[s] # None
  BY Numbers DEF IInv, TypeOK, Busy, Times
<1>4. ASSUME NEW s \in Tokens, InMap(s)' PROVE Kept(s)'
  BY SMT, <1>4, Numbers DEF IInv, TypeOK, Busy, Kept, InMap, Times, Live, Expired, SweepDue
<1>5. ASSUME NEW q \in Requests PROVE Busy(q)'
  BY Numbers DEF IInv, TypeOK, Busy, Kept, InMap, Live, Times
<1>6. LoggedOutNoMore'
  BY DEF IInv, TypeOK, Busy, Kept, Live, LoggedOutNoMore
<1>7. AdmittedInLife'
  BY SMT, Numbers DEF IInv, TypeOK, Busy, Kept, InMap, Live, Expired, AdmittedInLife, Times
<1> QED BY <1>1, <1>2, <1>3, <1>4, <1>5, <1>6, <1>7 DEF IInv

LEMMA InvStop ==
    ASSUME IInv, Stop
    PROVE  IInv'
<1> USE DEF Stop, Goto, history
<1>1. TypeOK'
  BY Numbers DEF IInv, TypeOK, Labels
<1>2. swept' <= now' /\ (~stopped' => now' - swept' <= Period)
  BY SMT, Numbers DEF IInv, TypeOK, Times, SweepDue
<1>3. \A s \in jar' \cup over' : born'[s] # None
  BY Numbers DEF IInv, TypeOK, Busy, Times
<1>4. ASSUME NEW s \in Tokens, InMap(s)' PROVE Kept(s)'
  BY SMT, <1>4, Numbers DEF IInv, TypeOK, Busy, Kept, InMap, Times, Live, Expired, SweepDue
<1>5. ASSUME NEW q \in Requests PROVE Busy(q)'
  BY Numbers DEF IInv, TypeOK, Busy, Kept, InMap, Live, Times
<1>6. LoggedOutNoMore'
  BY DEF IInv, TypeOK, Busy, Kept, Live, LoggedOutNoMore
<1>7. AdmittedInLife'
  BY SMT, Numbers DEF IInv, TypeOK, Busy, Kept, InMap, Live, Expired, AdmittedInLife, Times
<1> QED BY <1>1, <1>2, <1>3, <1>4, <1>5, <1>6, <1>7 DEF IInv

LEMMA InvTick ==
    ASSUME IInv, Tick
    PROVE  IInv'
<1> USE DEF Tick, Goto, history
<1>1. TypeOK'
  <2>1. now' \in Times
    BY SMT, Numbers DEF IInv, TypeOK, Times
  <2> QED BY <2>1 DEF IInv, TypeOK
<1>2. swept' <= now' /\ (~stopped' => now' - swept' <= Period)
  BY SMT, Numbers DEF IInv, TypeOK, Times, SweepDue
<1>3. \A s \in jar' \cup over' : born'[s] # None
  BY Numbers DEF IInv, TypeOK, Busy, Times
<1>4. ASSUME NEW s \in Tokens, InMap(s)' PROVE Kept(s)'
  BY SMT, <1>4, Numbers DEF IInv, TypeOK, Busy, Kept, InMap, Times, Live, Expired, SweepDue
<1>5. ASSUME NEW q \in Requests PROVE Busy(q)'
  BY Numbers DEF IInv, TypeOK, Busy, Kept, InMap, Live, Times
<1>6. LoggedOutNoMore'
  BY DEF IInv, TypeOK, Busy, Kept, Live, LoggedOutNoMore
<1>7. AdmittedInLife'
  BY SMT, Numbers DEF IInv, TypeOK, Busy, Kept, InMap, Live, Expired, AdmittedInLife, Times
<1> QED BY <1>1, <1>2, <1>3, <1>4, <1>5, <1>6, <1>7 DEF IInv

LEMMA InvRestart ==
    ASSUME IInv, Restart
    PROVE  IInv'
<1> USE DEF Restart, Goto, history
<1>1. TypeOK'
  BY Numbers DEF IInv, TypeOK, Labels
<1>2. swept' <= now' /\ (~stopped' => now' - swept' <= Period)
  BY SMT, Numbers DEF IInv, TypeOK, Times, SweepDue
<1>3. \A s \in jar' \cup over' : born'[s] # None
  BY Numbers DEF IInv, TypeOK, Busy, Times
<1>4. ASSUME NEW s \in Tokens, InMap(s)' PROVE Kept(s)'
  BY SMT, <1>4, Numbers DEF IInv, TypeOK, Busy, Kept, InMap, Times, Live, Expired, SweepDue
<1>5. ASSUME NEW q \in Requests PROVE Busy(q)'
  BY Numbers DEF IInv, TypeOK, Busy, Kept, InMap, Live, Times
<1>6. LoggedOutNoMore'
  BY DEF IInv, TypeOK, Busy, Kept, Live, LoggedOutNoMore
<1>7. AdmittedInLife'
  BY SMT, Numbers DEF IInv, TypeOK, Busy, Kept, InMap, Live, Expired, AdmittedInLife, Times
<1> QED BY <1>1, <1>2, <1>3, <1>4, <1>5, <1>6, <1>7 DEF IInv

LEMMA InvInit == Init => IInv
<1> SUFFICES ASSUME Init PROVE IInv
  OBVIOUS
<1> USE DEF Init
<1>1. TypeOK
  BY Numbers DEF TypeOK, Labels
<1>2. swept <= now /\ (~stopped => now - swept <= Period)
  BY SMT, Numbers
<1>3. \A r \in Requests : Busy(r)
  BY DEF Busy
<1> QED BY <1>1, <1>2, <1>3 DEF IInv, InMap, LoggedOutNoMore, AdmittedInLife

LEMMA InvStutter ==
    ASSUME IInv, UNCHANGED vars
    PROVE  IInv'
BY DEF vars, IInv, TypeOK, InMap, Kept, Busy, LoggedOutNoMore, AdmittedInLife

LEMMA InvNext == IInv /\ [Next]_vars => IInv'
<1> SUFFICES ASSUME IInv, [Next]_vars PROVE IInv'
  OBVIOUS
<1>1. CASE \E r \in Requests, t \in Tokens : Login(r, t) \/ Arrive(r, t)
  BY <1>1, InvLogin, InvArrive
<1>2. CASE \E r \in Requests : CreateSession(r) \/ SetCookie(r)
  BY <1>2, InvCreateSession, InvSetCookie
<1>3. CASE \E r \in Requests : Admit(r) \/ Refuse(r) \/ Serve(r)
  BY <1>3, InvAdmit, InvRefuse, InvServe
<1>4. CASE \E r \in Requests : Logout(r) \/ ClearCookie(r)
  BY <1>4, InvLogout, InvClearCookie
<1>5. CASE Sweep \/ Stop \/ Tick \/ Restart
  BY <1>5, InvSweep, InvStop, InvTick, InvRestart
<1>6. CASE UNCHANGED vars
  BY <1>6, InvStutter
<1> QED BY <1>1, <1>2, <1>3, <1>4, <1>5, <1>6 DEF Next

\* The inductive invariant holds of every behaviour.
THEOREM Inductive == Spec => []IInv
<1> QED BY InvInit, InvNext, PTL DEF Spec

\* Type correctness for any number of requests and tokens.
THEOREM TypeCorrect == Spec => []TypeOK
<1>1. IInv => TypeOK
  BY DEF IInv
<1> QED BY <1>1, Inductive, PTL

\* No request that arrives after its session's logout was answered is let in.
THEOREM LoggedOutNoMoreHolds == Spec => []LoggedOutNoMore
<1>1. IInv => LoggedOutNoMore
  BY DEF IInv
<1> QED BY <1>1, Inductive, PTL

\* Whoever is let in has a session no older than the TTL.
THEOREM AdmittedInLifeHolds == Spec => []AdmittedInLife
<1>1. IInv => AdmittedInLife
  BY DEF IInv
<1> QED BY <1>1, Inductive, PTL

\* The map holds a session at most one sweeping period beyond its end.
THEOREM ForgottenInTimeHolds == Spec => []ForgottenInTime
<1>1. IInv => ForgottenInTime
  <2> SUFFICES ASSUME IInv, NEW t \in Tokens, InMap(t), ~stopped
               PROVE  now <= sessions[t] + Period
    BY DEF ForgottenInTime
  <2>1. /\ now \in Nat /\ swept \in Nat /\ sessions[t] \in Nat
        /\ now - swept <= Period /\ swept <= sessions[t]
    BY Numbers DEF IInv, TypeOK, Kept, InMap
  <2> QED BY SMT, <2>1, Numbers
<1> QED BY <1>1, Inductive, PTL

\* A token whose session was created and is not alive stays so in every step.
LEMMA NoRevival ==
    ASSUME IInv, [Next]_vars, NEW t \in Tokens, born[t] # None, ~Live(t)
    PROVE  ~Live(t)'
<1>1. ASSUME sessions'[t] = sessions[t] \/ sessions'[t] = None, now' \in Nat, now <= now'
      PROVE  ~Live(t)'
  <2>1. now \in Nat /\ (sessions[t] # None => sessions[t] \in Nat)
    BY Numbers DEF IInv, TypeOK
  <2> QED BY SMT, <1>1, <2>1 DEF Live, Expired, InMap
<1>2. now \in Nat /\ now <= now
  BY SMT, Numbers DEF IInv, TypeOK
<1>3. CASE \E r \in Requests : CreateSession(r)
  <2>1. PICK r \in Requests : CreateSession(r)
    BY <1>3
  <2>2. carries[r] \in Tokens /\ carries[r] # t
    BY <2>1 DEF CreateSession, IInv, Busy
  <2>3. sessions'[t] = sessions[t] /\ now' = now
    BY <2>1, <2>2 DEF CreateSession, IInv, TypeOK
  <2> QED BY <2>3, <1>1, <1>2
<1>4. CASE \E r \in Requests : Refuse(r) \/ Logout(r)
  BY <1>4, <1>1, <1>2 DEF Refuse, Logout, IInv, TypeOK
<1>5. CASE Sweep \/ Restart
  BY <1>5, <1>1, <1>2 DEF Sweep, Restart
<1>6. CASE Tick
  <2>1. now' \in Nat /\ now <= now'
    BY SMT, <1>6, <1>2 DEF Tick
  <2> QED BY <1>6, <2>1, <1>1 DEF Tick
<1>7. CASE UNCHANGED <<now, sessions>>
  BY <1>7, <1>1, <1>2
<1> QED
  BY <1>3, <1>4, <1>5, <1>6, <1>7
     DEF Next, vars, Login, Arrive, SetCookie, Admit, Serve, ClearCookie, Stop

\* A session that has ended never comes back.
THEOREM DeadStaysDeadHolds == Spec => DeadStaysDead
<1>1. IInv /\ [Next]_vars => [\A t \in Tokens : born[t] # None /\ ~Live(t) => ~Live(t)']_vars
  BY NoRevival
<1> QED BY <1>1, Inductive, PTL DEF Spec, DeadStaysDead

=============================================================================
