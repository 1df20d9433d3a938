---------------------------- MODULE Server_proofs ----------------------------
(***************************************************************************)
(* Proofs about Server and Notifier for any number of requests, created    *)
(* comments and signals: the mail dialogue first, which the server moves   *)
(* only by Send and by starting it, then the life of the process.          *)
(***************************************************************************)
EXTENDS Server, TLAPS

\* Whatever the mail server does, a step of Send keeps the dialogue's types.
LEMMA SendType ==
    ASSUME NotifierTypeOK, NEW c \in Comments, Send(c)
    PROVE  NotifierTypeOK'
<1> USE DEF NotifierTypeOK, Proceed, End, Stages
<1>1. CASE Dial(c)
  BY <1>1 DEF Dial, Send
<1>2. CASE DialFails(c)
  BY <1>2 DEF DialFails, Send
<1>3. CASE Hello(c)
  BY <1>3 DEF Hello, Login, Send
<1>4. CASE StartTLS(c)
  BY <1>4 DEF StartTLS, Login, Send
<1>5. CASE Auth(c)
  BY <1>5 DEF Auth, Send
<1>6. CASE Command(c)
  BY <1>6 DEF Command, Send
<1>7. CASE Body(c)
  BY <1>7 DEF Body, Send
<1>8. CASE Quit(c)
  BY <1>8 DEF Quit, Send
<1>9. CASE Fault(c)
  BY <1>9 DEF Fault, Send
<1> QED
  BY <1>1, <1>2, <1>3, <1>4, <1>5, <1>6, <1>7, <1>8, <1>9 DEF Send

\* ... and what each step of the dialogue owes to the next ones.
LEMMA SendInv ==
    ASSUME NotifierTypeOK, NotifierInv, NEW c \in Comments, Send(c)
    PROVE  NotifierInv'
<1> USE DEF NotifierTypeOK, NotifierInv, SentWasDelivered, NoDowngrade,
            NoConnectionLeft, Proceed, End
<1>1. CASE Dial(c)
  BY <1>1 DEF Dial
<1>2. CASE DialFails(c)
  BY <1>2 DEF DialFails
<1>3. CASE Hello(c)
  BY <1>3 DEF Hello, Login
<1>4. CASE StartTLS(c)
  BY <1>4 DEF StartTLS, Login
<1>5. CASE Auth(c)
  BY <1>5 DEF Auth
<1>6. CASE Command(c)
  BY <1>6 DEF Command
<1>7. CASE Body(c)
  BY <1>7 DEF Body
<1>8. CASE Quit(c)
  BY <1>8 DEF Quit
<1>9. CASE Fault(c)
  BY <1>9 DEF Fault
<1> QED
  BY <1>1, <1>2, <1>3, <1>4, <1>5, <1>6, <1>7, <1>8, <1>9 DEF Send

LEMMA InvInit == Init => IInv
<1> SUFFICES ASSUME Init PROVE IInv
  OBVIOUS
<1>1. NotifierTypeOK /\ NotifierInv
  BY DEF Init, NotifierInit, NotifierTypeOK, NotifierInv, Stages, Hosts,
     SentWasDelivered, NoDowngrade, NoConnectionLeft
<1>2. TypeOK
  BY <1>1, MaxSignalsAssumption DEF Init, TypeOK, Running
<1>3. MainInv /\ ShutInv /\ ServedInv
  BY CommentsAssumption DEF Init, NotifierInit, MainInv, ShutInv, ServedInv, Booting, Draining
<1>4. ServesMigrated /\ OrderlyStop /\ StopIsComplete
  BY DEF Init, ServesMigrated, OrderlyStop, StopIsComplete
<1> QED
  BY <1>1, <1>2, <1>3, <1>4 DEF IInv

\* The steps of main, the listener, the shutdown and the signals.
LifeStep ==
    \/ Validate \/ Migrate \/ Wire \/ Spawn \/ Notify \/ Listen
    \/ Signal \/ TakeSignal \/ StartShutdown \/ Deadline
    \/ CloseListener \/ Drain \/ StopSweepers \/ Await \/ FinishForced

\* They leave requests and mails alone.
LEMMA LifeOnly == LifeStep => UNCHANGED <<request, smtp, mails>>
<1>1. CASE Validate
  BY <1>1 DEF Validate
<1>2. CASE Migrate
  BY <1>2 DEF Migrate
<1>3. CASE Wire
  BY <1>3 DEF Wire
<1>4. CASE Spawn
  BY <1>4 DEF Spawn
<1>5. CASE Notify
  BY <1>5 DEF Notify
<1>6. CASE Listen
  BY <1>6 DEF Listen
<1>7. CASE Signal
  BY <1>7 DEF Signal
<1>8. CASE TakeSignal
  BY <1>8 DEF TakeSignal
<1>9. CASE StartShutdown
  BY <1>9 DEF StartShutdown
<1>10. CASE Deadline
  BY <1>10 DEF Deadline
<1>11. CASE CloseListener
  BY <1>11 DEF CloseListener
<1>12. CASE Drain
  BY <1>12 DEF Drain
<1>13. CASE StopSweepers
  BY <1>13 DEF StopSweepers
<1>14. CASE Await
  BY <1>14 DEF Await, Return
<1>15. CASE FinishForced
  BY <1>15 DEF FinishForced, Return
<1> QED
  BY <1>1, <1>2, <1>3, <1>4, <1>5, <1>6, <1>7, <1>8,
     <1>9, <1>10, <1>11, <1>12, <1>13, <1>14, <1>15
     DEF LifeStep

LEMMA MailsTypeKept ==
    ASSUME NotifierTypeOK, UNCHANGED <<mails, smtp>>
    PROVE  NotifierTypeOK'
BY DEF NotifierTypeOK, mails

LEMMA LifeType == TypeOK /\ LifeStep => TypeOK'
<1> SUFFICES ASSUME TypeOK, LifeStep PROVE TypeOK'
  OBVIOUS
<1>1. NotifierTypeOK' /\ UNCHANGED request
  BY LifeOnly, MailsTypeKept DEF TypeOK
<1>2. CASE Validate
  <2>1. /\ main' \in {main, "migrate"} /\ exit' \in {exit, "error"} /\ db' \in {db, "empty"}
        /\ UNCHANGED <<sweepers, listener, quit, ctx, shut, signals>>
    BY <1>2 DEF Validate, Goto, Die
  <2> QED
    BY <1>1, <2>1 DEF TypeOK
<1>3. CASE Migrate
  <2>1. /\ main' \in {main, "wire"} /\ exit' \in {exit, "error"} /\ db' \in {db, "migrated"}
        /\ UNCHANGED <<sweepers, listener, quit, ctx, shut, signals>>
    BY <1>3 DEF Migrate, Goto, Die
  <2> QED
    BY <1>1, <2>1 DEF TypeOK
<1>4. CASE Wire
  BY <1>1, <1>4 DEF TypeOK, Wire, Goto
<1>5. CASE Spawn
  BY <1>1, <1>5 DEF TypeOK, Spawn, Goto
<1>6. CASE Notify
  BY <1>1, <1>6 DEF TypeOK, Notify, Goto
<1>7. CASE Listen
  <2>1. /\ listener' \in {listener, "open", "closed"} /\ exit' \in {exit, "error"}
        /\ UNCHANGED <<main, db, sweepers, quit, ctx, shut, signals>>
    BY <1>7 DEF Listen, Die
  <2> QED
    BY <1>1, <2>1 DEF TypeOK
<1>8. CASE Signal
  <2>1. signals' \in 0 .. MaxSignals
    BY <1>8, MaxSignalsAssumption DEF TypeOK, Signal
  <2>2. UNCHANGED <<main, db, sweepers, listener, ctx, shut>> /\ exit' \in {exit, "killed"}
    BY <1>8 DEF Signal, Die
  <2>3. quit' \in 0 .. 1
    BY <1>8 DEF TypeOK, Signal, Die
  <2> QED
    BY <1>1, <2>1, <2>2, <2>3 DEF TypeOK
<1>9. CASE TakeSignal
  BY <1>1, <1>9 DEF TypeOK, TakeSignal, Goto
<1>10. CASE StartShutdown
  BY <1>1, <1>10 DEF TypeOK, StartShutdown, Goto
<1>11. CASE Deadline
  BY <1>1, <1>11 DEF TypeOK, Deadline
<1>12. CASE CloseListener
  BY <1>1, <1>12 DEF TypeOK, CloseListener, ShutStep
<1>13. CASE Drain
  BY <1>1, <1>13 DEF TypeOK, Drain, ShutStep
<1>14. CASE StopSweepers
  <2>1. /\ sweepers' \subseteq sweepers /\ shut' \in {"stopSessions", "done"}
        /\ UNCHANGED <<main, exit, db, listener, quit, ctx, signals>>
    BY <1>14 DEF StopSweepers, ShutStep
  <2> QED
    BY <1>1, <2>1 DEF TypeOK
<1>15. CASE Await
  <2>1. CASE Return /\ UNCHANGED <<sweepers, listener>>
    BY <1>1, <2>1 DEF TypeOK, Return
  <2>2. CASE ~Return
    <3>1. /\ main' = "force" /\ quit' = 0 /\ ctx' = "cancelled"
          /\ UNCHANGED <<exit, db, sweepers, listener, shut, signals>>
      BY <1>15, <2>2 DEF Await
    <3> QED
      BY <1>1, <3>1 DEF TypeOK
  <2> QED
    BY <2>1, <2>2 DEF Return
<1>16. CASE FinishForced
  <2>1. Return
    BY <1>16 DEF FinishForced
  <2> QED
    BY <1>1, <2>1 DEF TypeOK, Return
<1> QED
  BY <1>2, <1>3, <1>4, <1>5, <1>6, <1>7, <1>8, <1>9,
     <1>10, <1>11, <1>12, <1>13, <1>14, <1>15, <1>16
     DEF LifeStep

LEMMA TypeNext == TypeOK /\ [Next]_vars => TypeOK'
<1> SUFFICES ASSUME TypeOK, [Next]_vars PROVE TypeOK'
  OBVIOUS
<1>1. ASSUME NEW c \in Comments, Mail(c) PROVE TypeOK'
  BY <1>1, SendType DEF Mail, TypeOK, life
<1>2. ASSUME NEW r \in Requests, Store(r) PROVE TypeOK'
  <2>1. NotifierTypeOK'
    BY <1>2 DEF Store, TypeOK, NotifierTypeOK, Stages
  <2> QED
    BY <1>2, <2>1 DEF Store, TypeOK, life, Running
<1>3. ASSUME NEW r \in Requests, Arrive(r) \/ Answer(r) PROVE TypeOK'
  <2>1. UNCHANGED <<mails, smtp, life>>
    BY <1>3 DEF Arrive, Answer
  <2>2. NotifierTypeOK'
    BY <2>1, MailsTypeKept DEF TypeOK
  <2>3. request' \in [Requests -> {"none", "answered"} \cup Running]
    BY <1>3 DEF Arrive, Answer, TypeOK, Running
  <2> QED
    BY <2>1, <2>2, <2>3 DEF TypeOK, life
<1>4. CASE Ended \/ UNCHANGED vars
  <2>1. UNCHANGED <<mails, smtp, life, request>>
    BY <1>4 DEF Ended, vars
  <2>2. NotifierTypeOK'
    BY <2>1, MailsTypeKept DEF TypeOK
  <2> QED
    BY <2>1, <2>2 DEF TypeOK, life
<1> QED
  BY <1>1, <1>2, <1>3, <1>4, LifeType DEF Next, LifeStep

\* The conjuncts of IInv beyond typing, which a step is shown to preserve.
StepInv ==
    /\ MainInv /\ ShutInv /\ ServedInv /\ NotifierInv
    /\ ServesMigrated /\ OrderlyStop /\ StopIsComplete

\* The step that leaves the mails alone keeps what NotifierInv says of them.
LEMMA MailsKept ==
    ASSUME NotifierInv, UNCHANGED mails
    PROVE  NotifierInv'
BY DEF NotifierInv, mails, SentWasDelivered, NoDowngrade, NoConnectionLeft

LEMMA LifeInv == IInv /\ LifeStep => StepInv'
<1> SUFFICES ASSUME IInv, LifeStep PROVE StepInv'
  OBVIOUS
<1>1. UNCHANGED <<request, mails>> /\ NotifierInv'
  BY LifeOnly, MailsKept DEF IInv
<1>2. UNCHANGED <<stage, request>>
  BY <1>1 DEF mails
<1> USE DEF IInv, TypeOK, StepInv, MainInv, ShutInv, ServedInv, ServesMigrated,
        OrderlyStop, StopIsComplete, Booting, Draining, Alive
<1>3. CASE Validate
  BY <1>1, <1>2, <1>3 DEF Validate, Goto, Die
<1>4. CASE Migrate
  BY <1>1, <1>2, <1>4 DEF Migrate, Goto, Die
<1>5. CASE Wire
  BY <1>1, <1>2, <1>5 DEF Wire, Goto
<1>6. CASE Spawn
  BY <1>1, <1>2, <1>6 DEF Spawn, Goto
<1>7. CASE Notify
  BY <1>1, <1>2, <1>7 DEF Notify, Goto
<1>8. CASE Listen
  BY <1>1, <1>2, <1>8 DEF Listen, Die
<1>9. CASE Signal
  BY <1>1, <1>2, <1>9 DEF Signal, Die
<1>10. CASE TakeSignal
  BY <1>1, <1>2, <1>10 DEF TakeSignal, Goto
<1>11. CASE StartShutdown
  BY <1>1, <1>2, <1>11 DEF StartShutdown, Goto
<1>12. CASE Deadline
  BY <1>1, <1>2, <1>12 DEF Deadline
<1>13. CASE CloseListener
  BY <1>1, <1>2, <1>13 DEF CloseListener, ShutStep
<1>14. CASE Drain
  BY <1>1, <1>2, <1>14 DEF Drain, ShutStep
<1>15. CASE StopSweepers
  BY <1>1, <1>2, <1>15 DEF StopSweepers, ShutStep
<1>16. CASE Await
  BY <1>1, <1>2, <1>16 DEF Await, Return
<1>17. CASE FinishForced
  BY <1>1, <1>2, <1>17 DEF FinishForced, Return
<1> QED
  BY <1>3, <1>4, <1>5, <1>6, <1>7, <1>8, <1>9,
     <1>10, <1>11, <1>12, <1>13, <1>14, <1>15, <1>16, <1>17
     DEF LifeStep

LEMMA InvNext == IInv /\ TypeOK' /\ [Next]_vars => StepInv'
<1> SUFFICES ASSUME IInv, TypeOK', [Next]_vars PROVE StepInv'
  OBVIOUS
<1> DEFINE Rest == /\ MainInv /\ ShutInv /\ ServedInv
                   /\ ServesMigrated /\ OrderlyStop /\ StopIsComplete
<1>1. ASSUME NEW c \in Comments, Mail(c) PROVE StepInv'
  <2>1. NotifierInv'
    BY <1>1, SendInv DEF Mail, IInv, TypeOK
  <2>2. \A d \in Comments : stage[d] = "none" => stage'[d] = "none"
    BY <1>1 DEF Mail, Send, Dial, DialFails, Hello, StartTLS, Auth, Command, Body, Quit,
       Fault, Proceed, End, NotifierTypeOK, IInv, TypeOK
  <2>3. UNCHANGED <<life, request>>
    BY <1>1 DEF Mail
  <2>4. Rest'
    BY <2>2, <2>3 DEF IInv, life, MainInv, ShutInv, ServedInv, ServesMigrated,
       OrderlyStop, StopIsComplete, Alive
  <2> QED
    BY <2>1, <2>4 DEF StepInv
<1>2. ASSUME NEW r \in Requests, Store(r) PROVE StepInv'
  <2>1. /\ r \in Comments /\ stage[r] = "none" /\ request[r] = "running"
        /\ request' = [request EXCEPT ![r] = "stored"]
        /\ stage' = [stage EXCEPT ![r] = "dial"]
        /\ UNCHANGED <<life, open, offered, secure, delivered, outcome>>
    BY <1>2 DEF Store, IInv, ServedInv
  <2>2. NotifierInv'
    BY <2>1 DEF IInv, TypeOK, NotifierInv, NotifierTypeOK, SentWasDelivered, NoDowngrade,
       NoConnectionLeft
  <2>3. /\ \A q \in Requests : request'[q] \in Running <=> request[q] \in Running
        /\ \A q \in Requests : request'[q] = "none" <=> request[q] = "none"
        /\ \A c \in Comments : c # r => stage'[c] = stage[c] /\ request'[c] = request[c]
        /\ request'[r] = "stored"
    BY <2>1, CommentsAssumption DEF IInv, TypeOK, NotifierTypeOK, Running
  <2>4. Rest'
    BY <2>1, <2>3, CommentsAssumption DEF IInv, life, MainInv, ShutInv, ServedInv, ServesMigrated,
       OrderlyStop, StopIsComplete, Alive
  <2> QED
    BY <2>2, <2>4 DEF StepInv
<1>3. ASSUME NEW r \in Requests, Arrive(r) PROVE StepInv'
  <2>1. /\ UNCHANGED <<mails, life>> /\ Alive /\ listener = "open" /\ request[r] = "none"
        /\ request' = [request EXCEPT ![r] = "running"]
    BY <1>3 DEF Arrive
  <2>2. NotifierInv' /\ UNCHANGED stage
    BY <2>1, MailsKept DEF IInv, mails
  <2>3. Rest'
    BY <2>1, <2>2, CommentsAssumption DEF IInv, TypeOK, life, MainInv, ShutInv, ServedInv,
       ServesMigrated, OrderlyStop, StopIsComplete, Alive, Booting, Draining, Running
  <2> QED
    BY <2>2, <2>3 DEF StepInv
<1>4. ASSUME NEW r \in Requests, Answer(r) PROVE StepInv'
  <2>1. /\ UNCHANGED <<mails, life>> /\ Alive /\ request[r] \in Running
        /\ request' = [request EXCEPT ![r] = "answered"]
    BY <1>4 DEF Answer
  <2>2. NotifierInv' /\ UNCHANGED stage
    BY <2>1, MailsKept DEF IInv, mails
  <2>3. /\ \A q \in Requests : request'[q] \in Running => request[q] \in Running
        /\ \A q \in Requests : request'[q] = "none" <=> request[q] = "none"
        /\ \A q \in Requests : request'[q] = "running" => request[q] = "running"
    BY <2>1 DEF IInv, TypeOK, Running
  <2>4. Rest'
    BY <2>1, <2>2, <2>3, CommentsAssumption DEF IInv, life, MainInv, ShutInv, ServedInv,
       ServesMigrated, OrderlyStop, StopIsComplete, Alive
  <2> QED
    BY <2>2, <2>4 DEF StepInv
<1>5. CASE Ended \/ UNCHANGED vars
  <2>1. UNCHANGED <<mails, life, request>>
    BY <1>5 DEF Ended, vars
  <2>2. NotifierInv' /\ UNCHANGED stage
    BY <2>1, MailsKept DEF IInv, mails
  <2>3. Rest'
    BY <2>1, <2>2 DEF IInv, life, MainInv, ShutInv, ServedInv, ServesMigrated, OrderlyStop,
       StopIsComplete, Alive
  <2> QED
    BY <2>2, <2>3 DEF StepInv
<1> QED
  BY <1>1, <1>2, <1>3, <1>4, <1>5, LifeInv DEF Next, LifeStep

LEMMA Inductive == Spec => []IInv
<1>1. IInv /\ [Next]_vars => IInv'
  BY TypeNext, InvNext DEF IInv, StepInv
<1> QED
  BY InvInit, <1>1, PTL DEF Spec

\* Type correctness of the server with its notifications.
THEOREM TypeCorrect == Spec => []TypeOK
<1>1. IInv => TypeOK
  BY DEF IInv
<1> QED
  BY Inductive, <1>1, PTL

\* No request meets a database without schema, for any number of requests.
THEOREM ServesMigratedHolds == Spec => []ServesMigrated
<1>1. IInv => ServesMigrated
  BY DEF IInv
<1> QED
  BY Inductive, <1>1, PTL

\* A stop within the deadline and without a second signal cuts no request short,
\* however many requests, and signals at whichever moments.
THEOREM OrderlyStopHolds == Spec => []OrderlyStop
<1>1. IInv => OrderlyStop
  BY DEF IInv
<1> QED
  BY Inductive, <1>1, PTL

\* main never returns before the goroutine that shuts down is through.
THEOREM StopIsCompleteHolds == Spec => []StopIsComplete
<1>1. IInv => StopIsComplete
  BY DEF IInv
<1> QED
  BY Inductive, <1>1, PTL

\* Send reports no success for a message the mail server did not take.
THEOREM SentWasDeliveredHolds == Spec => []SentWasDelivered
<1>1. IInv => SentWasDelivered
  BY DEF IInv, NotifierInv
<1> QED
  BY Inductive, <1>1, PTL

\* Nothing is sent in clear to a server that offered encryption.
THEOREM NoDowngradeHolds == Spec => []NoDowngrade
<1>1. IInv => NoDowngrade
  BY DEF IInv, NotifierInv
<1> QED
  BY Inductive, <1>1, PTL

\* A dialogue that is over has closed its connection.
THEOREM NoConnectionLeftHolds == Spec => []NoConnectionLeft
<1>1. IInv => NoConnectionLeft
  BY DEF IInv, NotifierInv
<1> QED
  BY Inductive, <1>1, PTL

=============================================================================
