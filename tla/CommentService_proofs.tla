------------------------ MODULE CommentService_proofs ------------------------
(***************************************************************************)
(* Proofs about CommentService for any number of goroutines and comments.  *)
(* Typing first; then, with it, the inductive invariant IInv, whose heart  *)
(* is that only the owner of the mutex writes, so that what the owner read *)
(* of its row still holds when it writes.  Last, that every step is one of *)
(* ModerationContract or changes nothing a client could see.               *)
(***************************************************************************)
EXTENDS CommentService, TLAPS

\* What UPDATE ... SET does to a row: one column changes, the row stays a row.
LEMMA RowUpdates ==
    ASSUME NEW r \in Row, NEW b \in BOOLEAN
    PROVE  /\ r # NoRow /\ r.named \in BOOLEAN /\ r.approved \in BOOLEAN
           /\ [r EXCEPT !.named = b] \in Row
           /\ [r EXCEPT !.named = b] # NoRow
           /\ [r EXCEPT !.named = b].named = b
           /\ [r EXCEPT !.named = b].approved = r.approved
           /\ [r EXCEPT !.approved = b] \in Row
           /\ [r EXCEPT !.approved = b] # NoRow
           /\ [r EXCEPT !.approved = b].approved = b
           /\ [r EXCEPT !.approved = b].named = r.named
<1>1. /\ [r EXCEPT !.named = b] \in Row
      /\ [r EXCEPT !.approved = b] \in Row
  BY DEF Row
<1>2. /\ r.named \in BOOLEAN /\ r.approved \in BOOLEAN
      /\ [r EXCEPT !.named = b].named = b
      /\ [r EXCEPT !.named = b].approved = r.approved
      /\ [r EXCEPT !.approved = b].approved = b
      /\ [r EXCEPT !.approved = b].named = r.named
  BY DEF Row
<1> QED
  BY <1>1, <1>2, NoRowAssumption

LEMMA NewRowType ==
    /\ NewRow \in Row /\ NewRow # NoRow
    /\ NewRow.named = FALSE /\ NewRow.approved = FALSE
<1>1. NewRow \in Row /\ NewRow.named = FALSE /\ NewRow.approved = FALSE
  BY DEF NewRow, Row
<1> QED
  BY <1>1, NoRowAssumption

LEMMA NoReplyType == NoReply \in Reply
BY DEF NoReply, Reply, Codes

LEMMA AnswerType ==
    ASSUME Typed, NEW h \in Handlers, NEW code \in Codes,
           NEW row \in Row \cup {NoRow}, Answer(h, code, row)
    PROVE  reply' \in [Handlers -> Reply]
<1>1. [code |-> code, shown |-> row] \in Reply
  BY DEF Reply
<1> QED
  BY <1>1 DEF Typed, Answer

LEMMA GotoType ==
    ASSUME Typed, NEW h \in Handlers, NEW label \in Labels, Goto(h, label)
    PROVE  pc' \in [Handlers -> Labels]
BY DEF Typed, Goto

LEMMA RefuseType ==
    ASSUME Typed, NEW h \in Handlers, NEW code \in Codes, Refuse(h, code),
           UNCHANGED <<mu, op, acked>>
    PROVE  Typed'
<1>1. pc' \in [Handlers -> Labels]
  BY GotoType DEF Refuse, Labels, Critical
<1>2. reply' \in [Handlers -> Reply]
  BY AnswerType DEF Refuse
<1> QED
  BY <1>1, <1>2 DEF Typed, Refuse

LEMMA SetApproved ==
    ASSUME Typed, NEW i \in Ids, rows[i] \in Row, NEW b \in BOOLEAN,
           rows' = [rows EXCEPT ![i].approved = b]
    PROVE  /\ rows'[i] # NoRow
           /\ rows'[i].approved = b
           /\ rows'[i].named = rows[i].named
<1>1. rows'[i] = [rows[i] EXCEPT !.approved = b]
  BY DEF Typed
<1>2. \A r \in Row : /\ [r EXCEPT !.approved = b] # NoRow
                     /\ [r EXCEPT !.approved = b].approved = b
                     /\ [r EXCEPT !.approved = b].named = r.named
  <2> SUFFICES ASSUME NEW r \in Row
               PROVE  /\ [r EXCEPT !.approved = b] # NoRow
                      /\ [r EXCEPT !.approved = b].approved = b
                      /\ [r EXCEPT !.approved = b].named = r.named
    OBVIOUS
  <2>1. [r EXCEPT !.approved = b] \in Row
    BY DEF Row
  <2>2. /\ [r EXCEPT !.approved = b].approved = b
        /\ [r EXCEPT !.approved = b].named = r.named
    BY DEF Row
  <2> QED
    BY <2>1, <2>2, NoRowAssumption
<1> QED
  BY <1>1, <1>2

LEMMA TypeInit == Init => Typed
<1> SUFFICES ASSUME Init PROVE Typed
  OBVIOUS
<1>1. seq \in 0 .. MaxId /\ id \in [Handlers -> 0 .. MaxId]
  BY MaxIdAssumption DEF Init
<1>2. pc \in [Handlers -> Labels]
  BY DEF Init, Labels
<1>3. reply \in [Handlers -> Reply]
  BY NoReplyType DEF Init
<1> QED
  BY <1>1, <1>2, <1>3 DEF Init, Typed

LEMMA TypeNext == Typed /\ RequestInv /\ [Next]_vars => Typed'
<1> SUFFICES ASSUME Typed, RequestInv, [Next]_vars PROVE Typed'
  OBVIOUS
<1> USE DEF table, request
<1>1. ASSUME NEW h \in Handlers, Arrive(h) PROVE Typed'
  <2>1. PICK o \in Ops, i \in 0 .. MaxId : Receive(h, o, i)
    BY <1>1, MaxIdAssumption DEF Arrive, Ids, Ops
  <2>2. pc' \in [Handlers -> Labels]
    BY <2>1, GotoType DEF Receive, FirstStep, Labels
  <2> QED
    BY <2>1, <2>2 DEF Receive, Typed
<1>2. ASSUME NEW h \in Handlers, Lock(h) PROVE Typed'
  <2>1. pc' \in [Handlers -> Labels]
    BY <1>2, GotoType DEF Lock, LockedStep, Labels, Critical
  <2> QED
    BY <1>2, <2>1 DEF Lock, Typed
<1>3. ASSUME NEW h \in Handlers, Proceed(h) PROVE Typed'
  <2> USE DEF Labels, Critical
  <2>1. CASE VerifyCaptcha(h)
    <3>1. pc' \in [Handlers -> Labels]
      BY <2>1, GotoType DEF VerifyCaptcha
    <3>2. reply' \in [Handlers -> Reply]
      BY <2>1, AnswerType DEF VerifyCaptcha, Codes, Typed
    <3> QED
      BY <2>1, <3>1, <3>2 DEF VerifyCaptcha, Typed
  <2>2. CASE Unlock(h)
    <3>1. pc' \in [Handlers -> Labels]
      BY <2>2, GotoType DEF Unlock
    <3> QED
      BY <2>2, <3>1 DEF Unlock, Typed
  <2>3. CASE Respond(h)
    <3>1. pc' \in [Handlers -> Labels]
      BY <2>3, GotoType DEF Respond
    <3>2. reply' \in [Handlers -> Reply]
      BY <2>3, NoReplyType DEF Respond, Typed
    <3>3. op' \in [Handlers -> Ops \cup {"none"}] /\ id' \in [Handlers -> 0 .. MaxId]
      BY <2>3, MaxIdAssumption DEF Respond, Typed
    <3>4. acked' \subseteq Ids
      BY <2>3 DEF Respond, Typed, RequestInv
    <3> QED
      BY <2>3, <3>1, <3>2, <3>3, <3>4 DEF Respond, Typed
  <2>4. CASE Insert(h)
    <3>1. CASE Refuse(h, "INTERNAL_ERROR")
      BY <2>4, <3>1, RefuseType DEF Insert, Codes
    <3>2. CASE ~Refuse(h, "INTERNAL_ERROR")
      <4>1. pc' \in [Handlers -> Labels]
        BY <2>4, <3>2, GotoType DEF Insert
      <4>2. NextId \in Ids /\ NextId \in 0 .. MaxId
        BY <2>4, <3>2, MaxIdAssumption DEF Insert, NextId, Ids, Typed
      <4>3. rows' \in [Ids -> Row \cup {NoRow}]
        BY <2>4, <3>2, <4>2, NewRowType DEF Insert, Typed
      <4>4. id' \in [Handlers -> 0 .. MaxId] /\ seq' \in 0 .. MaxId
        BY <2>4, <3>2, <4>2 DEF Insert, Typed
      <4> QED
        BY <2>4, <3>2, <4>1, <4>3, <4>4 DEF Insert, Typed
    <3> QED
      BY <3>1, <3>2
  <2>5. CASE Generate(h)
    <3>1. CASE Refuse(h, "INTERNAL_ERROR")
      BY <2>5, <3>1, RefuseType DEF Generate, Codes
    <3>2. CASE Goto(h, "name") /\ UNCHANGED <<table, id, want, reply, mail, flips>>
      <4>1. pc' \in [Handlers -> Labels]
        BY <3>2, GotoType
      <4> QED
        BY <2>5, <3>2, <4>1 DEF Generate, Typed
    <3> QED
      BY <2>5, <3>1, <3>2 DEF Generate
  <2>6. CASE UpdateDisplayID(h)
    <3>1. CASE Refuse(h, "INTERNAL_ERROR")
      BY <2>6, <3>1, RefuseType DEF UpdateDisplayID, Codes
    <3>2. CASE ~Refuse(h, "INTERNAL_ERROR")
      <4>1. pc' \in [Handlers -> Labels]
        BY <2>6, <3>2, GotoType DEF UpdateDisplayID
      <4>2. rows' \in [Ids -> Row \cup {NoRow}]
        <5>1. id[h] \in Ids /\ rows[id[h]] \in Row /\ want[h] \in BOOLEAN
          BY <2>6, <3>2 DEF UpdateDisplayID, Exists, Typed, RequestInv
        <5>2. [rows[id[h]] EXCEPT !.named = TRUE] \in Row
          BY <5>1, RowUpdates
        <5> QED
          BY <2>6, <3>2, <5>1, <5>2 DEF UpdateDisplayID, Typed
      <4> QED
        BY <2>6, <3>2, <4>1, <4>2 DEF UpdateDisplayID, Typed
    <3> QED
      BY <3>1, <3>2
  <2>7. CASE Reload(h)
    <3>1. CASE Refuse(h, "INTERNAL_ERROR")
      BY <2>7, <3>1, RefuseType DEF Reload, Codes
    <3>2. CASE ~Refuse(h, "INTERNAL_ERROR")
      <4>1. pc' \in [Handlers -> Labels]
        BY <2>7, <3>2, GotoType DEF Reload
      <4>2. reply' \in [Handlers -> Reply]
        BY <2>7, <3>2, AnswerType DEF Reload, Typed, RequestInv, Codes, Exists
      <4> QED
        BY <2>7, <3>2, <4>1, <4>2 DEF Reload, Typed
    <3> QED
      BY <3>1, <3>2
  <2>8. CASE Find(h)
    <3>1. CASE Refuse(h, "NOT_FOUND")
      BY <2>8, <3>1, RefuseType DEF Find, Codes
    <3>2. CASE ~Refuse(h, "NOT_FOUND")
      <4>1. pc' \in [Handlers -> Labels]
        BY <2>8, <3>2, GotoType DEF Find
      <4>2. want' \in [Handlers -> BOOLEAN]
        BY <2>8, <3>2 DEF Find, Typed
      <4> QED
        BY <2>8, <3>2, <4>1, <4>2 DEF Find, Typed
    <3> QED
      BY <3>1, <3>2
  <2>9. CASE UpdateApproved(h)
    <3>1. CASE Refuse(h, "INTERNAL_ERROR")
      BY <2>9, <3>1, RefuseType DEF UpdateApproved, Codes
    <3>2. CASE ~Refuse(h, "INTERNAL_ERROR")
      <4>1. pc' \in [Handlers -> Labels]
        BY <2>9, <3>2, GotoType DEF UpdateApproved
      <4>2. rows' \in [Ids -> Row \cup {NoRow}]
        <5>1. id[h] \in Ids /\ rows[id[h]] \in Row /\ want[h] \in BOOLEAN
          BY <2>9, <3>2 DEF UpdateApproved, Exists, Typed, RequestInv
        <5>2. [rows[id[h]] EXCEPT !.approved = want[h]] \in Row
          BY <5>1, RowUpdates
        <5> QED
          BY <2>9, <3>2, <5>1, <5>2 DEF UpdateApproved, Typed
      <4>3. flips' \in [Ids -> BOOLEAN]
        BY <2>9, <3>2 DEF UpdateApproved, Typed
      <4> QED
        BY <2>9, <3>2, <4>1, <4>2, <4>3 DEF UpdateApproved, Typed
    <3> QED
      BY <3>1, <3>2
  <2>10. CASE Reread(h)
    <3>1. CASE Refuse(h, "INTERNAL_ERROR")
      BY <2>10, <3>1, RefuseType DEF Reread, Codes
    <3>2. CASE ~Refuse(h, "INTERNAL_ERROR")
      <4>1. pc' \in [Handlers -> Labels]
        BY <2>10, <3>2, GotoType DEF Reread
      <4>2. reply' \in [Handlers -> Reply]
        BY <2>10, <3>2, AnswerType DEF Reread, Typed, RequestInv, Codes, Exists
      <4> QED
        BY <2>10, <3>2, <4>1, <4>2 DEF Reread, Typed
    <3> QED
      BY <3>1, <3>2
  <2>11. CASE Delete(h)
    <3>1. CASE Refuse(h, "NOT_FOUND")
      BY <2>11, <3>1, RefuseType DEF Delete, Codes
    <3>2. CASE ~Refuse(h, "NOT_FOUND")
      <4>1. pc' \in [Handlers -> Labels]
        BY <2>11, <3>2, GotoType DEF Delete
      <4>2. reply' \in [Handlers -> Reply]
        BY <2>11, <3>2, AnswerType DEF Delete, Codes
      <4> QED
        BY <2>11, <3>2, <4>1, <4>2 DEF Delete, Typed
    <3> QED
      BY <3>1, <3>2
  <2>12. CASE Get(h)
    <3>1. pc' \in [Handlers -> Labels]
      BY <2>12, GotoType DEF Get
    <3>2. reply' \in [Handlers -> Reply]
      <4>1. CASE Selects(op[h], rows[id[h]]) /\ Answer(h, "OK", rows[id[h]])
        BY <2>12, <4>1, AnswerType DEF Codes, Typed, RequestInv, Selects, Get
      <4>2. CASE Answer(h, "NOT_FOUND", NoRow)
        BY <2>12, <4>2, AnswerType DEF Codes
      <4> QED
        BY <2>12, <4>1, <4>2 DEF Get
    <3> QED
      BY <2>12, <3>1, <3>2 DEF Get, Typed
  <2> QED
    BY <1>3, <2>1, <2>2, <2>3, <2>4, <2>5, <2>6, <2>7, <2>8, <2>9, <2>10,
       <2>11, <2>12 DEF Proceed
<1>4. ASSUME NEW i \in Ids, MailEnds(i) PROVE Typed'
  BY <1>4 DEF MailEnds, Typed
<1>5. CASE Crash
  <2>1. id' \in [Handlers -> 0 .. MaxId]
    BY <1>5, MaxIdAssumption DEF Crash
  <2>2. reply' \in [Handlers -> Reply] /\ pc' \in [Handlers -> Labels]
    BY <1>5, NoReplyType DEF Crash, Labels
  <2> QED
    BY <1>5, <2>1, <2>2 DEF Crash, Typed
<1>6. CASE UNCHANGED vars
  BY <1>6 DEF vars, Typed
<1> QED
  BY <1>1, <1>2, <1>3, <1>4, <1>5, <1>6 DEF Next

LEMMA RequestNext == Typed /\ RequestInv /\ [Next]_vars => RequestInv'
<1> SUFFICES ASSUME Typed, RequestInv, [Next]_vars PROVE RequestInv'
  OBVIOUS
<1> USE DEF Typed, RequestInv, Goto, Answer, Refuse, table, request
<1>1. ASSUME NEW h \in Handlers, Arrive(h) PROVE RequestInv'
  <2>1. PICK o \in Ops, i \in 0 .. MaxId :
            Receive(h, o, i) /\ (o # "create" => i \in Ids)
    BY <1>1, MaxIdAssumption DEF Arrive, Ids, Ops
  <2> QED
    BY <2>1 DEF Receive, FirstStep, Ops
<1>2. ASSUME NEW h \in Handlers, Lock(h) PROVE RequestInv'
  BY <1>2 DEF Lock, LockedStep
<1>3. ASSUME NEW h \in Handlers, Proceed(h) PROVE RequestInv'
  <2>1. CASE VerifyCaptcha(h)
    BY <2>1 DEF VerifyCaptcha
  <2>2. CASE Unlock(h)
    BY <2>2 DEF Unlock
  <2>3. CASE Respond(h)
    BY <2>3 DEF Respond, NoReply
  <2>4. CASE Insert(h)
    BY <2>4 DEF Insert, NextId, Ids
  <2>5. CASE Generate(h)
    BY <2>5 DEF Generate
  <2>6. CASE UpdateDisplayID(h)
    BY <2>6 DEF UpdateDisplayID
  <2>7. CASE Reload(h)
    BY <2>7 DEF Reload
  <2>8. CASE Find(h)
    BY <2>8 DEF Find
  <2>9. CASE UpdateApproved(h)
    BY <2>9 DEF UpdateApproved
  <2>10. CASE Reread(h)
    BY <2>10 DEF Reread
  <2>11. CASE Delete(h)
    BY <2>11 DEF Delete
  <2>12. CASE Get(h)
    BY <2>12 DEF Get, Selects
  <2> QED
    BY <1>3, <2>1, <2>2, <2>3, <2>4, <2>5, <2>6, <2>7, <2>8, <2>9, <2>10,
       <2>11, <2>12 DEF Proceed
<1>4. ASSUME NEW i \in Ids, MailEnds(i) PROVE RequestInv'
  BY <1>4 DEF MailEnds
<1>5. CASE Crash
  BY <1>5 DEF Crash, NoReply
<1>6. CASE UNCHANGED vars
  BY <1>6 DEF vars
<1> QED
  BY <1>1, <1>2, <1>3, <1>4, <1>5, <1>6 DEF Next

\* The conjuncts of IInv beyond typing, which a step is shown to preserve.
StepInv ==
    /\ OwnerInv /\ UnusedInv /\ OwnRowInv /\ AnswerInv
    /\ NoLostToggle /\ AnswersOwnWrite /\ AckedIsComplete

LEMMA InvInit == Init => IInv
<1> SUFFICES ASSUME Init PROVE IInv
  OBVIOUS
<1>1. Typed
  BY TypeInit
<1>2. RequestInv /\ StepInv
  BY MaxIdAssumption, FreeAssumption DEF Init, StepInv, OwnerInv, RequestInv, UnusedInv, OwnRowInv,
     AnswerInv, NoLostToggle, AnswersOwnWrite, AckedIsComplete, NoReply,
     Critical, Exists, Ids
<1> QED
  BY <1>1, <1>2 DEF IInv, StepInv

LEMMA InvNext == IInv /\ [Next]_vars => StepInv'
<1> SUFFICES ASSUME IInv, [Next]_vars PROVE StepInv'
  OBVIOUS
<1> USE DEF IInv, Typed, Goto, Answer, Refuse, table, request, Critical, Exists, NoReply
<1>1. ASSUME NEW h \in Handlers, Arrive(h) PROVE StepInv'
  <2>1. PICK o \in Ops, i \in 0 .. MaxId : Receive(h, o, i)
    BY <1>1, MaxIdAssumption DEF Arrive, Ids, Ops
  <2> QED
    BY <2>1, FreeAssumption DEF Receive, FirstStep, StepInv, OwnerInv, UnusedInv, OwnRowInv, AnswerInv, NoLostToggle,
       AnswersOwnWrite, AckedIsComplete, RequestInv
<1>2. ASSUME NEW h \in Handlers, Lock(h) PROVE StepInv'
  BY <1>2, FreeAssumption DEF Lock, LockedStep, StepInv, OwnerInv, UnusedInv, OwnRowInv, AnswerInv, NoLostToggle,
       AnswersOwnWrite, AckedIsComplete, RequestInv
<1>3. ASSUME NEW h \in Handlers, Proceed(h) PROVE StepInv'
  <2>1. CASE VerifyCaptcha(h)
    BY <2>1, FreeAssumption, NewRowType DEF VerifyCaptcha, StepInv, OwnerInv, UnusedInv, OwnRowInv, AnswerInv, NoLostToggle,
       AnswersOwnWrite, AckedIsComplete, RequestInv
  <2>2. CASE Unlock(h)
    BY <2>2, FreeAssumption, NewRowType DEF Unlock, StepInv, OwnerInv, UnusedInv, OwnRowInv, AnswerInv, NoLostToggle,
       AnswersOwnWrite, AckedIsComplete, RequestInv
  <2>3. CASE Respond(h)
    BY <2>3, FreeAssumption, NewRowType DEF Respond, StepInv, OwnerInv, UnusedInv, OwnRowInv, AnswerInv, NoLostToggle,
       AnswersOwnWrite, AckedIsComplete, RequestInv
  <2>4. CASE Insert(h)
    <3>1. CASE Refuse(h, "INTERNAL_ERROR") /\ UNCHANGED <<mu, op, acked>>
      BY <3>1, <2>4 DEF Insert, StepInv, OwnerInv, UnusedInv, OwnRowInv, AnswerInv, NoLostToggle,
       AnswersOwnWrite, AckedIsComplete, RequestInv
    <3>2. CASE ~Refuse(h, "INTERNAL_ERROR")
      <4>1. /\ NextId \in Ids /\ NextId > seq
            /\ seq' = NextId
            /\ rows' = [rows EXCEPT ![NextId] = NewRow]
            /\ id' = [id EXCEPT ![h] = NextId]
            /\ pc[h] = "insert" /\ pc' = [pc EXCEPT ![h] = "encode"]
            /\ UNCHANGED <<mu, op, want, reply, mail, flips, acked>>
        BY <2>4, <3>2, MaxIdAssumption DEF Insert, NextId, Ids
      <4>2. /\ \A j \in Ids : j # NextId => rows'[j] = rows[j]
            /\ rows'[NextId] = NewRow
            /\ \A j \in Ids : j > seq' => j > seq /\ j # NextId
        BY <4>1 DEF Ids
      <4>3. flips[NextId] = FALSE /\ mail[NextId] = "none"
        BY <4>1 DEF UnusedInv
      <4>4. \A g \in Handlers : reply[g].code = "CREATED" =>
                 id[g] \in Ids /\ id'[g] = id[g] /\ id[g] # NextId
        BY <4>1 DEF RequestInv, UnusedInv, AnswerInv
      <4>5. OwnerInv'
        BY <4>1, <4>2, <4>3, <4>4, NewRowType DEF OwnerInv
      <4>6. UnusedInv'
        BY <4>1, <4>2, <4>3, <4>4, NewRowType DEF UnusedInv, RequestInv
      <4>7. OwnRowInv'
        BY <4>1, <4>2, <4>3, <4>4, NewRowType DEF OwnRowInv, OwnerInv, RequestInv
      <4>8. AnswerInv'
        BY <4>1, <4>2, <4>3, <4>4, NewRowType DEF AnswerInv, RequestInv, OwnerInv, OwnRowInv
      <4>9. NoLostToggle'
        BY <4>1, <4>2, <4>3, <4>4, NewRowType DEF NoLostToggle
      <4>10. AnswersOwnWrite'
        BY <4>1, <4>2, <4>3, <4>4, NewRowType DEF AnswersOwnWrite, RequestInv, OwnRowInv
      <4>11. AckedIsComplete'
        BY <4>1, <4>2, <4>3, <4>4, NewRowType DEF AckedIsComplete
      <4> QED
        BY <4>5, <4>6, <4>7, <4>8, <4>9, <4>10, <4>11 DEF StepInv
    <3> QED
      BY <2>4, <3>1, <3>2 DEF Insert
  <2>5. CASE Generate(h)
    BY <2>5, FreeAssumption, NewRowType DEF Generate, StepInv, OwnerInv, UnusedInv, OwnRowInv, AnswerInv, NoLostToggle,
       AnswersOwnWrite, AckedIsComplete, RequestInv
  <2>6. CASE UpdateDisplayID(h)
    <3>1. CASE Refuse(h, "INTERNAL_ERROR") /\ UNCHANGED <<mu, op, acked>>
      BY <3>1, <2>6 DEF UpdateDisplayID, StepInv, OwnerInv, UnusedInv, OwnRowInv, AnswerInv, NoLostToggle,
       AnswersOwnWrite, AckedIsComplete, RequestInv
    <3>2. CASE ~Refuse(h, "INTERNAL_ERROR")
      <4>1. /\ id[h] \in Ids
            /\ rows[id[h]] = NewRow
            /\ rows' = [rows EXCEPT ![id[h]] = [NewRow EXCEPT !.named = TRUE]]
            /\ pc[h] = "name" /\ pc' = [pc EXCEPT ![h] = "reload"]
            /\ UNCHANGED <<seq, id, mu, op, want, reply, mail, flips, acked>>
        BY <2>6, <3>2 DEF UpdateDisplayID, OwnRowInv, RequestInv
      <4>2. /\ \A j \in Ids : j # id[h] => rows'[j] = rows[j]
            /\ rows'[id[h]] # NoRow
            /\ rows'[id[h]].named /\ rows'[id[h]].approved = FALSE
        <5>1. rows'[id[h]] = [NewRow EXCEPT !.named = TRUE]
          BY <4>1
        <5>2. /\ [NewRow EXCEPT !.named = TRUE] # NoRow
              /\ [NewRow EXCEPT !.named = TRUE].named = TRUE
              /\ [NewRow EXCEPT !.named = TRUE].approved = FALSE
          BY NewRowType, RowUpdates
        <5> HIDE DEF NewRow
        <5> QED
          BY <4>1, <5>1, <5>2
      <4>3. \A j \in Ids : j > seq => j # id[h]
        BY <4>1, NewRowType DEF UnusedInv
      <4>4. flips[id[h]] = FALSE
        BY <4>1, NewRowType DEF NoLostToggle
      <4>5. OwnerInv'
        BY <4>1, <4>2, <4>3, <4>4, NewRowType DEF OwnerInv
      <4>6. UnusedInv'
        BY <4>1, <4>2, <4>3, <4>4, NewRowType DEF UnusedInv, RequestInv
      <4>7. OwnRowInv'
        BY <4>1, <4>2, <4>3, <4>4, NewRowType DEF OwnRowInv, OwnerInv, RequestInv
      <4>8. AnswerInv'
        BY <4>1, <4>2, <4>3, <4>4, NewRowType DEF AnswerInv, RequestInv, OwnerInv, OwnRowInv
      <4>9. NoLostToggle'
        BY <4>1, <4>2, <4>3, <4>4, NewRowType DEF NoLostToggle
      <4>10. AnswersOwnWrite'
        BY <4>1, <4>2, <4>3, <4>4, NewRowType DEF AnswersOwnWrite, RequestInv, OwnRowInv
      <4>11. AckedIsComplete'
        BY <4>1, <4>2, <4>3, <4>4, NewRowType DEF AckedIsComplete
      <4> QED
        BY <4>5, <4>6, <4>7, <4>8, <4>9, <4>10, <4>11 DEF StepInv
    <3> QED
      BY <2>6, <3>1, <3>2 DEF UpdateDisplayID
  <2>7. CASE Reload(h)
    BY <2>7, FreeAssumption, NewRowType DEF Reload, StepInv, OwnerInv, UnusedInv, OwnRowInv, AnswerInv, NoLostToggle,
       AnswersOwnWrite, AckedIsComplete, RequestInv
  <2>8. CASE Find(h)
    BY <2>8, FreeAssumption, NewRowType DEF Find, StepInv, OwnerInv, UnusedInv, OwnRowInv, AnswerInv, NoLostToggle,
       AnswersOwnWrite, AckedIsComplete, RequestInv
  <2>9. CASE UpdateApproved(h)
    <3>1. CASE Refuse(h, "INTERNAL_ERROR") /\ UNCHANGED <<mu, op, acked>>
      BY <3>1, <2>9 DEF UpdateApproved, StepInv, OwnerInv, UnusedInv, OwnRowInv, AnswerInv, NoLostToggle,
       AnswersOwnWrite, AckedIsComplete, RequestInv
    <3>2. CASE ~Refuse(h, "INTERNAL_ERROR")
      <4>1. /\ id[h] \in Ids
            /\ rows[id[h]] # NoRow /\ rows[id[h]] \in Row /\ want[h] \in BOOLEAN
            /\ want[h] = ~rows[id[h]].approved
            /\ rows' = [rows EXCEPT ![id[h]] = [rows[id[h]] EXCEPT !.approved = want[h]]]
            /\ flips' = [flips EXCEPT ![id[h]] = ~flips[id[h]]]
            /\ pc[h] = "flip" /\ pc' = [pc EXCEPT ![h] = "reread"]
            /\ UNCHANGED <<seq, id, mu, op, want, reply, mail, acked>>
        BY <2>9, <3>2 DEF UpdateApproved, OwnRowInv, RequestInv
      <4>2. /\ rows'[id[h]] # NoRow
            /\ rows'[id[h]].approved = want[h]
            /\ rows'[id[h]].named = rows[id[h]].named
        BY <4>1, SetApproved
      <4>3. \A j \in Ids : j # id[h] => rows'[j] = rows[j] /\ flips'[j] = flips[j]
        BY <4>1
      <4>4. \A j \in Ids : j > seq => j # id[h]
        BY <4>1, NoRowAssumption DEF UnusedInv
      <4>5. OwnerInv'
        BY <4>1, <4>2, <4>3, <4>4, NewRowType DEF OwnerInv
      <4>6. UnusedInv'
        BY <4>1, <4>2, <4>3, <4>4, NewRowType DEF UnusedInv, RequestInv
      <4>7. OwnRowInv'
        BY <4>1, <4>2, <4>3, <4>4, NewRowType DEF OwnRowInv, OwnerInv, RequestInv
      <4>8. AnswerInv'
        BY <4>1, <4>2, <4>3, <4>4, NewRowType DEF AnswerInv, RequestInv, OwnerInv, OwnRowInv
      <4>9. NoLostToggle'
        BY <4>1, <4>2, <4>3, <4>4, NewRowType DEF NoLostToggle
      <4>10. AnswersOwnWrite'
        BY <4>1, <4>2, <4>3, <4>4, NewRowType DEF AnswersOwnWrite, RequestInv, OwnRowInv
      <4>11. AckedIsComplete'
        BY <4>1, <4>2, <4>3, <4>4, NewRowType DEF AckedIsComplete
      <4> QED
        BY <4>5, <4>6, <4>7, <4>8, <4>9, <4>10, <4>11 DEF StepInv
    <3> QED
      BY <2>9, <3>1, <3>2 DEF UpdateApproved
  <2>10. CASE Reread(h)
    <3>1. CASE Refuse(h, "INTERNAL_ERROR")
      BY <2>10, <3>1 DEF Reread, StepInv, OwnerInv, UnusedInv, OwnRowInv, AnswerInv, NoLostToggle,
         AnswersOwnWrite, AckedIsComplete, RequestInv
    <3>2. CASE ~Refuse(h, "INTERNAL_ERROR")
      <4>1. /\ pc[h] = "reread" /\ pc' = [pc EXCEPT ![h] = "unlock"]
            /\ rows[id[h]] # NoRow
            /\ reply' = [reply EXCEPT ![h] = [code |-> "OK", shown |-> rows[id[h]]]]
            /\ UNCHANGED <<rows, seq, id, mu, op, want, mail, flips, acked>>
        BY <2>10, <3>2 DEF Reread
      <4>2. OwnerInv' /\ UnusedInv' /\ NoLostToggle' /\ AckedIsComplete'
        BY <4>1 DEF OwnerInv, UnusedInv, NoLostToggle, AckedIsComplete
      <4>3. OwnRowInv'
        BY <4>1 DEF OwnRowInv, OwnerInv, RequestInv
      <4>4. AnswerInv'
        BY <4>1 DEF AnswerInv
      <4>5. AnswersOwnWrite'
        BY <4>1 DEF AnswersOwnWrite, OwnRowInv, RequestInv
      <4> QED
        BY <4>2, <4>3, <4>4, <4>5 DEF StepInv
    <3> QED
      BY <3>1, <3>2
  <2>11. CASE Delete(h)
    BY <2>11, FreeAssumption, NewRowType DEF Delete, StepInv, OwnerInv, UnusedInv, OwnRowInv, AnswerInv, NoLostToggle,
       AnswersOwnWrite, AckedIsComplete, RequestInv
  <2>12. CASE Get(h)
    BY <2>12, FreeAssumption, NewRowType DEF Get, Selects, StepInv, OwnerInv, UnusedInv, OwnRowInv, AnswerInv, NoLostToggle,
       AnswersOwnWrite, AckedIsComplete, RequestInv
  <2> QED
    BY <1>3, <2>1, <2>2, <2>3, <2>4, <2>5, <2>6, <2>7, <2>8, <2>9, <2>10,
       <2>11, <2>12 DEF Proceed
<1>4. ASSUME NEW i \in Ids, MailEnds(i) PROVE StepInv'
  BY <1>4 DEF MailEnds, StepInv, OwnerInv, UnusedInv, OwnRowInv, AnswerInv, NoLostToggle,
       AnswersOwnWrite, AckedIsComplete, RequestInv
<1>5. CASE Crash
  BY <1>5, FreeAssumption DEF Crash, StepInv, OwnerInv, UnusedInv, OwnRowInv, AnswerInv, NoLostToggle,
       AnswersOwnWrite, AckedIsComplete, RequestInv
<1>6. CASE UNCHANGED vars
  BY <1>6 DEF vars, StepInv, OwnerInv, UnusedInv, OwnRowInv, AnswerInv, NoLostToggle,
       AnswersOwnWrite, AckedIsComplete, RequestInv
<1> QED
  BY <1>1, <1>2, <1>3, <1>4, <1>5, <1>6 DEF Next

LEMMA Inductive == Spec => []IInv
<1>1. IInv /\ [Next]_vars => IInv'
  BY TypeNext, RequestNext, InvNext DEF IInv, StepInv
<1> QED
  BY InvInit, <1>1, PTL DEF Spec

\* Every variable keeps its type: the table holds rows or nothing, no ID beyond
\* AUTOINCREMENT's range is handed out, every goroutine is at a known point, and
\* every statement about one comment names one.
THEOREM TypeCorrect == Spec => []TypeOK
<1>1. IInv => TypeOK
  <2>1. RequestInv => NamesComment
    BY DEF RequestInv, NamesComment, Critical
  <2> QED
    BY <2>1 DEF IInv, TypeOK
<1> QED
  BY Inductive, <1>1, PTL

\* ToggleApproval's read-modify-write under CommentService.mu loses no flip,
\* for any number of requests and any failing statements.
THEOREM NoLostToggleHolds == Spec => []NoLostToggle
<1>1. IInv => NoLostToggle
  BY DEF IInv
<1> QED
  BY Inductive, <1>1, PTL

\* What Create and ToggleApproval answer from their second read is their own
\* write: nobody changed the row in between.
THEOREM AnswersOwnWriteHolds == Spec => []AnswersOwnWrite
<1>1. IInv => AnswersOwnWrite
  BY DEF IInv
<1> QED
  BY Inductive, <1>1, PTL

\* A 201 stands for a comment with a display ID and a started notification.
THEOREM AckedIsCompleteHolds == Spec => []AckedIsComplete
<1>1. IInv => AckedIsComplete
  BY DEF IInv
<1> QED
  BY Inductive, <1>1, PTL

\* No step brings a row back under an ID that was handed out before.
LEMMA NoReuse ==
    ASSUME IInv, [Next]_vars, NEW i \in Ids, i <= seq, ~Exists(i)
    PROVE  ~Exists(i)'
<1> USE DEF IInv, Typed, Exists, Refuse, table
<1>1. CASE \E h \in Handlers : Arrive(h) \/ Lock(h)
  BY <1>1 DEF Arrive, Receive, Lock
<1>2. ASSUME NEW h \in Handlers, Proceed(h) PROVE ~Exists(i)'
  <2>1. CASE Insert(h)
    <3>1. NextId # i
      BY DEF NextId, Ids
    <3> QED
      BY <2>1, <3>1 DEF Insert
  <2>2. CASE UpdateDisplayID(h)
    BY <2>2 DEF UpdateDisplayID
  <2>3. CASE UpdateApproved(h)
    BY <2>3 DEF UpdateApproved
  <2>4. CASE Delete(h)
    BY <2>4 DEF Delete
  <2>5. CASE \/ VerifyCaptcha(h) \/ Unlock(h) \/ Respond(h) \/ Generate(h)
             \/ Reload(h) \/ Find(h) \/ Reread(h) \/ Get(h)
    BY <2>5 DEF VerifyCaptcha, Unlock, Respond, Generate, Reload, Find, Reread, Get
  <2> QED
    BY <1>2, <2>1, <2>2, <2>3, <2>4, <2>5 DEF Proceed
<1>3. CASE \E j \in Ids : MailEnds(j)
  BY <1>3 DEF MailEnds
<1>4. CASE Crash \/ UNCHANGED vars
  BY <1>4 DEF Crash, vars
<1> QED
  BY <1>1, <1>2, <1>3, <1>4 DEF Next

\* A deleted comment's ID is never given to another comment.
THEOREM DeletedStaysDeletedHolds == Spec => DeletedStaysDeleted
<1>1. IInv /\ [Next]_vars =>
          [\A i \in Ids : i <= seq /\ ~Exists(i) => ~Exists(i)']_vars
  BY NoReuse
<1> QED
  BY Inductive, <1>1, PTL DEF Spec, DeletedStaysDeleted

-----------------------------------------------------------------------------
(* The comment service implements ModerationContract: each of its steps is a *)
(* step of the contract or leaves the contract's variables alone.            *)

\* A step of goroutine h moves only h's call.
LEMMA OnlyOwnCall ==
    ASSUME Typed, Typed', NEW h \in Handlers,
           \A g \in Handlers \ {h} : /\ pc'[g] = pc[g]
                                     /\ reply'[g] = reply[g]
                                     /\ want'[g] = want[g]
    PROVE  /\ contractPhase' = [contractPhase EXCEPT ![h] = PhaseOf(h)']
           /\ contractShown' = [contractShown EXCEPT ![h] = ShownTo(h)']
<1>1. \A g \in Handlers \ {h} : PhaseOf(g)' = PhaseOf(g)
  BY DEF PhaseOf, Succeeded
<1>2. \A g \in Handlers \ {h} : ShownTo(g)' = ShownTo(g)
  BY DEF ShownTo, Succeeded, Status
<1> QED
  BY <1>1, <1>2 DEF contractPhase, contractShown

LEMMA ContractInit == Init => Contract!Init
<1> SUFFICES ASSUME Init PROVE Contract!Init
  OBVIOUS
<1>1. contractBoard = [i \in Ids |-> "unused"]
  BY MaxIdAssumption DEF Init, contractBoard, Ids
<1>2. /\ contractPhase = [h \in Handlers |-> "idle"]
      /\ contractShown = [h \in Handlers |-> "nothing"]
  BY DEF Init, contractPhase, contractShown, PhaseOf, ShownTo
<1> QED
  BY <1>1, <1>2 DEF Init, Contract!Init, Contract!Ids, Ids

\* Where a call of the contract is, by the point its goroutine has reached.
LEMMA PhaseAt ==
    ASSUME NEW h \in Handlers
    PROVE  /\ pc[h] = "idle" => PhaseOf(h) = "idle" /\ ShownTo(h) = "nothing"
           /\ pc[h] \in {"captcha", "lock", "insert", "find", "flip", "erase", "select"} =>
                  PhaseOf(h) = "called" /\ ShownTo(h) = "nothing"
           /\ pc[h] \in {"encode", "name", "reload"} =>
                  PhaseOf(h) = "took" /\ ShownTo(h) = "hidden"
           /\ pc[h] = "reread" =>
                  /\ PhaseOf(h) = "took"
                  /\ ShownTo(h) = IF want[h] THEN "public" ELSE "hidden"
           /\ pc[h] \in {"unlock", "reply"} /\ Succeeded(h) =>
                  PhaseOf(h) = "took" /\ ShownTo(h) = Status(reply[h].shown)
           /\ pc[h] \in {"unlock", "reply"} /\ ~Succeeded(h) =>
                  PhaseOf(h) = "failed" /\ ShownTo(h) = "nothing"
<1>1. CASE pc[h] = "idle"
  BY <1>1 DEF PhaseOf, ShownTo
<1>2. CASE pc[h] \in {"captcha", "lock", "insert", "find", "flip", "erase", "select"}
  BY <1>2 DEF PhaseOf, ShownTo
<1>3. CASE pc[h] \in {"encode", "name", "reload"}
  BY <1>3 DEF PhaseOf, ShownTo
<1>4. CASE pc[h] = "reread"
  BY <1>4 DEF PhaseOf, ShownTo
<1>5. CASE pc[h] \in {"unlock", "reply"}
  BY <1>5 DEF PhaseOf, ShownTo
<1> QED
  BY <1>1, <1>2, <1>3, <1>4, <1>5

LEMMA PhaseAtNext ==
    ASSUME NEW h \in Handlers
    PROVE  /\ pc'[h] = "idle" => PhaseOf(h)' = "idle" /\ ShownTo(h)' = "nothing"
           /\ pc'[h] \in {"captcha", "lock", "insert", "find", "flip", "erase", "select"} =>
                  PhaseOf(h)' = "called" /\ ShownTo(h)' = "nothing"
           /\ pc'[h] \in {"encode", "name", "reload"} =>
                  PhaseOf(h)' = "took" /\ ShownTo(h)' = "hidden"
           /\ pc'[h] = "reread" =>
                  /\ PhaseOf(h)' = "took"
                  /\ ShownTo(h)' = IF want'[h] THEN "public" ELSE "hidden"
           /\ pc'[h] \in {"unlock", "reply"} /\ Succeeded(h)' =>
                  PhaseOf(h)' = "took" /\ ShownTo(h)' = Status(reply'[h].shown)
           /\ pc'[h] \in {"unlock", "reply"} /\ ~Succeeded(h)' =>
                  PhaseOf(h)' = "failed" /\ ShownTo(h)' = "nothing"
<1>1. CASE pc'[h] = "idle"
  BY <1>1 DEF PhaseOf, ShownTo
<1>2. CASE pc'[h] \in {"captcha", "lock", "insert", "find", "flip", "erase", "select"}
  BY <1>2 DEF PhaseOf, ShownTo
<1>3. CASE pc'[h] \in {"encode", "name", "reload"}
  BY <1>3 DEF PhaseOf, ShownTo
<1>4. CASE pc'[h] = "reread"
  BY <1>4 DEF PhaseOf, ShownTo
<1>5. CASE pc'[h] \in {"unlock", "reply"}
  BY <1>5 DEF PhaseOf, ShownTo
<1> QED
  BY <1>1, <1>2, <1>3, <1>4, <1>5

LEMMA Untouched ==
    ASSUME Typed, UNCHANGED table
    PROVE  UNCHANGED contractBoard
BY DEF contractBoard, table

\* A step that keeps h's place in the contract is no step of the contract.
LEMMA Stutter ==
    ASSUME Typed, Typed', NEW h \in Handlers,
           \A g \in Handlers \ {h} : /\ pc'[g] = pc[g]
                                     /\ reply'[g] = reply[g]
                                     /\ want'[g] = want[g],
           PhaseOf(h)' = PhaseOf(h), ShownTo(h)' = ShownTo(h),
           UNCHANGED <<contractBoard, op, id>>
    PROVE  UNCHANGED Contract!vars
<1>1. UNCHANGED <<contractPhase, contractShown>>
  BY OnlyOwnCall DEF contractPhase, contractShown
<1> QED
  BY <1>1 DEF Contract!vars

\* An error answer is a failed call, whatever the call has done so far.
LEMMA RefuseFails ==
    ASSUME Typed, Typed', NEW h \in Handlers,
           \A g \in Handlers \ {h} : /\ pc'[g] = pc[g]
                                     /\ reply'[g] = reply[g]
                                     /\ want'[g] = want[g],
           PhaseOf(h) \in {"called", "took"},
           pc'[h] \in {"unlock", "reply"},
           reply'[h].code \in {"NOT_FOUND", "INTERNAL_ERROR", "CAPTCHA_FAILED"},
           UNCHANGED <<contractBoard, op, id>>
    PROVE  Contract!Fail(h)
<1>1. PhaseOf(h)' = "failed" /\ ShownTo(h)' = "nothing"
  BY PhaseAtNext DEF Succeeded
<1>2. contractPhase[h] \in {"called", "took"}
  BY DEF contractPhase
<1> QED
  BY <1>1, <1>2, OnlyOwnCall DEF Contract!Fail

LEMMA ContractStep == IInv /\ IInv' /\ [Next]_vars => [Contract!Next]_Contract!vars
<1> SUFFICES ASSUME IInv, IInv', [Next]_vars
             PROVE  Contract!Next \/ UNCHANGED Contract!vars
  OBVIOUS
<1>0. Typed /\ Typed' /\ RequestInv /\ RequestInv' /\ Contract!Ids = Ids
  BY DEF IInv, Contract!Ids, Ids
<1> DEFINE Others(h) == \A g \in Handlers \ {h} : /\ pc'[g] = pc[g]
                                                  /\ reply'[g] = reply[g]
                                                  /\ want'[g] = want[g]
<1>1. ASSUME NEW h \in Handlers, Arrive(h)
      PROVE  Contract!Next \/ UNCHANGED Contract!vars
  <2>1. PICK o \in Ops, i \in 0 .. MaxId :
            /\ Receive(h, o, i)
            /\ (o = "create" /\ i = 0) \/ (o # "create" /\ i \in Ids)
    BY <1>1, MaxIdAssumption DEF Arrive, Ids, Ops
  <2>2. Others(h) /\ pc[h] = "idle" /\ pc'[h] \in {"captcha", "lock", "select"}
    BY <1>0, <2>1 DEF Receive, FirstStep, Goto, Typed
  <2>3. UNCHANGED contractBoard
    BY <1>0, <2>1, Untouched DEF Receive
  <2>4. /\ PhaseOf(h) = "idle" /\ PhaseOf(h)' = "called"
        /\ ShownTo(h) = "nothing" /\ ShownTo(h)' = "nothing"
    BY <2>2, PhaseAt, PhaseAtNext
  <2>5. /\ contractPhase' = [contractPhase EXCEPT ![h] = PhaseOf(h)']
        /\ contractShown' = [contractShown EXCEPT ![h] = ShownTo(h)']
    BY <1>0, <2>2, OnlyOwnCall
  <2>6. contractPhase[h] = "idle" /\ contractPhase' = [contractPhase EXCEPT ![h] = "called"]
    BY <2>4, <2>5 DEF contractPhase
  <2>7. UNCHANGED contractShown
    BY <2>4, <2>5 DEF contractShown
  <2>8. Contract!Call(h, o, i)
    BY <2>1, <2>3, <2>6, <2>7 DEF Contract!Call, Receive
  <2> QED
    BY <1>0, <2>1, <2>8 DEF Contract!Next, Contract!Kinds, Ops
<1>2. ASSUME NEW h \in Handlers, Lock(h)
      PROVE  Contract!Next \/ UNCHANGED Contract!vars
  <2>0. Others(h) /\ pc[h] = "lock"
    BY <1>0, <1>2 DEF Lock, LockedStep, Goto, Typed, request
  <2>1. pc'[h] \in {"insert", "find", "erase"}
    <3>1. CASE op[h] = "create"
      BY <1>0, <1>2, <3>1 DEF Lock, LockedStep, Goto, Typed
    <3>2. CASE op[h] = "toggle"
      BY <1>0, <1>2, <3>2 DEF Lock, LockedStep, Goto, Typed
    <3>3. CASE op[h] \notin {"create", "toggle"}
      BY <1>0, <1>2, <3>3 DEF Lock, LockedStep, Goto, Typed
    <3> QED
      BY <3>1, <3>2, <3>3
  <2>2. UNCHANGED <<contractBoard, op, id>>
    BY <1>0, <1>2, Untouched DEF Lock, request
  <2> QED
    BY <1>0, <2>0, <2>1, <2>2, PhaseAt, PhaseAtNext, Stutter
<1>3. ASSUME NEW h \in Handlers, Proceed(h)
      PROVE  Contract!Next \/ UNCHANGED Contract!vars
  <2>1. CASE VerifyCaptcha(h)
    <3>1. Others(h) /\ pc[h] = "captcha" /\ UNCHANGED <<contractBoard, op, id>>
      BY <1>0, <2>1, Untouched DEF VerifyCaptcha, Goto, Answer, Typed, request
    <3>2. CASE pc'[h] = "lock"
      BY <1>0, <3>1, <3>2, PhaseAt, PhaseAtNext, Stutter
    <3>3. CASE pc'[h] # "lock"
      <4>1. pc'[h] = "reply" /\ reply'[h].code = "CAPTCHA_FAILED"
        BY <1>0, <2>1, <3>3 DEF VerifyCaptcha, Goto, Answer, Typed
      <4> QED
        BY <1>0, <3>1, <4>1, PhaseAt, RefuseFails DEF Contract!Next
    <3> QED
      BY <3>2, <3>3
  <2>2. CASE Unlock(h)
    <3>1. /\ Others(h) /\ pc[h] = "unlock" /\ pc'[h] = "reply"
          /\ UNCHANGED <<contractBoard, op, id, reply>>
      BY <1>0, <2>2, Untouched DEF Unlock, Goto, Typed, request
    <3>2. PhaseOf(h)' = PhaseOf(h) /\ ShownTo(h)' = ShownTo(h)
      BY <3>1, PhaseAt, PhaseAtNext DEF Succeeded, Status
    <3> QED
      BY <1>0, <3>1, <3>2, Stutter
  <2>3. CASE Respond(h)
    <3>1. /\ Others(h) /\ pc[h] = "reply" /\ pc'[h] = "idle"
          /\ UNCHANGED contractBoard
      BY <1>0, <2>3, Untouched DEF Respond, Goto, Typed
    <3>2. /\ PhaseOf(h) \in {"took", "failed"}
          /\ PhaseOf(h)' = "idle" /\ ShownTo(h)' = "nothing"
      BY <3>1, PhaseAt, PhaseAtNext
    <3>3. Contract!Return(h)
      BY <1>0, <2>3, <3>1, <3>2, OnlyOwnCall DEF Contract!Return, Respond, contractPhase
    <3> QED
      BY <3>3 DEF Contract!Next
  <2>4. CASE Insert(h)
    <3>1. Others(h) /\ pc[h] = "insert" /\ op' = op
      BY <1>0, <2>4 DEF Insert, Refuse, Goto, Answer, Typed
    <3>2. CASE Refuse(h, "INTERNAL_ERROR")
      <4>1. /\ pc'[h] = "unlock" /\ reply'[h].code = "INTERNAL_ERROR"
            /\ UNCHANGED <<contractBoard, id>>
        BY <1>0, <3>2, Untouched DEF Refuse, Goto, Answer, Typed, table
      <4> QED
        BY <1>0, <3>1, <4>1, PhaseAt, RefuseFails DEF Contract!Next
    <3>3. CASE ~Refuse(h, "INTERNAL_ERROR")
      <4> DEFINE n == NextId
      <4>1. /\ n \in Ids /\ n = seq + 1 /\ seq' = n
            /\ rows' = [rows EXCEPT ![n] = NewRow]
            /\ id' = [id EXCEPT ![h] = n]
            /\ pc'[h] = "encode" /\ op[h] = "create"
        BY <1>0, <2>4, <3>1, <3>3, MaxIdAssumption
           DEF Insert, NextId, Ids, Goto, Typed, RequestInv
      <4>2. /\ contractBoard[n] = "unused"
            /\ \A j \in 1 .. (n - 1) : contractBoard[j] # "unused"
        <5>1. \A j \in 1 .. (n - 1) : j \in Ids /\ ~(j > seq)
          BY <1>0, <4>1, MaxIdAssumption DEF Ids, Typed
        <5>2. \A row : Status(row) # "unused"
          BY DEF Status
        <5>3. n > seq
          BY <1>0, <4>1 DEF Typed
        <5> HIDE DEF n
        <5> QED
          BY <4>1, <5>1, <5>2, <5>3 DEF contractBoard
      <4>3. contractBoard' = [contractBoard EXCEPT ![n] = "hidden"]
        <5>1. \A j \in Ids : j # n => (j > seq') = (j > seq) /\ rows'[j] = rows[j]
          BY <1>0, <4>1 DEF Ids, Typed
        <5>2. ~(n > seq') /\ Status(rows'[n]) = "hidden"
          BY <1>0, <4>1, NewRowType DEF Ids, Typed, Status
        <5> HIDE DEF n
        <5> QED
          BY <4>1, <5>1, <5>2 DEF contractBoard, Status
      <4>4. /\ PhaseOf(h) = "called" /\ PhaseOf(h)' = "took"
            /\ ShownTo(h)' = "hidden"
        BY <3>1, <4>1, PhaseAt, PhaseAtNext
      <4>5. Contract!Post(h, n)
        <5> HIDE DEF n
        <5> QED
          BY <1>0, <3>1, <4>1, <4>2, <4>3, <4>4, OnlyOwnCall
             DEF Contract!Post, Contract!Effect, contractPhase
      <4> QED
        BY <1>0, <4>1, <4>5 DEF Contract!Next
    <3> QED
      BY <3>2, <3>3
  <2>5. CASE Generate(h)
    <3>1. Others(h) /\ pc[h] = "encode" /\ op' = op
      BY <1>0, <2>5 DEF Generate, Refuse, Goto, Answer, Typed
    <3>2. CASE Refuse(h, "INTERNAL_ERROR")
      <4>1. /\ pc'[h] = "unlock" /\ reply'[h].code = "INTERNAL_ERROR"
            /\ UNCHANGED <<contractBoard, id>>
        BY <1>0, <3>2, Untouched DEF Refuse, Goto, Answer, Typed, table
      <4> QED
        BY <1>0, <3>1, <4>1, PhaseAt, RefuseFails DEF Contract!Next
    <3>3. CASE ~Refuse(h, "INTERNAL_ERROR")
      <4>1. pc'[h] = "name" /\ UNCHANGED <<table, id, reply>>
        BY <1>0, <2>5, <3>3 DEF Generate, Goto, Typed, table
      <4>2. UNCHANGED contractBoard
        BY <1>0, <4>1, Untouched
      <4> QED
        BY <1>0, <3>1, <4>1, <4>2, PhaseAt, PhaseAtNext, Stutter
    <3> QED
      BY <3>2, <3>3
  <2>6. CASE UpdateDisplayID(h)
    <3>1. Others(h) /\ pc[h] = "name" /\ op' = op
      BY <1>0, <2>6 DEF UpdateDisplayID, Refuse, Goto, Answer, Typed
    <3>2. CASE Refuse(h, "INTERNAL_ERROR")
      <4>1. /\ pc'[h] = "unlock" /\ reply'[h].code = "INTERNAL_ERROR"
            /\ UNCHANGED <<contractBoard, id>>
        BY <1>0, <3>2, Untouched DEF Refuse, Goto, Answer, Typed, table
      <4> QED
        BY <1>0, <3>1, <4>1, PhaseAt, RefuseFails DEF Contract!Next
    <3>3. CASE ~Refuse(h, "INTERNAL_ERROR")
      <4>1. /\ pc'[h] = "reload" /\ id' = id /\ seq' = seq
            /\ id[h] \in Ids /\ rows[id[h]] = NewRow
            /\ rows' = [rows EXCEPT ![id[h]] = [rows[id[h]] EXCEPT !.named = TRUE]]
        BY <1>0, <2>6, <3>1, <3>3
           DEF UpdateDisplayID, Goto, Typed, RequestInv, IInv, OwnRowInv
      <4>2. \A j \in Ids : j # id[h] => rows'[j] = rows[j]
        BY <1>0, <4>1 DEF Typed
      <4>3. Status(rows'[id[h]]) = "hidden" /\ Status(rows[id[h]]) = "hidden"
        <5>1. rows'[id[h]] # NoRow /\ ~rows'[id[h]].approved
          BY <1>0, <3>1, <4>1 DEF IInv, OwnRowInv, Exists
        <5> QED
          BY <4>1, <5>1, NewRowType DEF Status
      <4>4. UNCHANGED contractBoard
        BY <4>1, <4>2, <4>3 DEF contractBoard, Status
      <4> QED
        BY <1>0, <3>1, <4>1, <4>4, PhaseAt, PhaseAtNext, Stutter
    <3> QED
      BY <3>2, <3>3
  <2>7. CASE Reload(h)
    <3>1. Others(h) /\ pc[h] = "reload" /\ op' = op
      BY <1>0, <2>7 DEF Reload, Refuse, Goto, Answer, Typed
    <3>2. CASE Refuse(h, "INTERNAL_ERROR")
      <4>1. /\ pc'[h] = "unlock" /\ reply'[h].code = "INTERNAL_ERROR"
            /\ UNCHANGED <<contractBoard, id>>
        BY <1>0, <3>2, Untouched DEF Refuse, Goto, Answer, Typed, table
      <4> QED
        BY <1>0, <3>1, <4>1, PhaseAt, RefuseFails DEF Contract!Next
    <3>3. CASE ~Refuse(h, "INTERNAL_ERROR")
      <4>1. /\ pc'[h] = "unlock" /\ UNCHANGED <<table, id>>
            /\ reply'[h].code = "CREATED" /\ reply'[h].shown = rows[id[h]]
        BY <1>0, <2>7, <3>3 DEF Reload, Goto, Answer, Typed, table
      <4>2. UNCHANGED contractBoard
        BY <1>0, <4>1, Untouched
      <4>3. Status(reply'[h].shown) = "hidden"
        BY <3>1, <4>1 DEF IInv, OwnRowInv, Exists, Status
      <4>4. Succeeded(h)'
        BY <4>1 DEF Succeeded
      <4> QED
        BY <1>0, <3>1, <4>1, <4>2, <4>3, <4>4, PhaseAt, PhaseAtNext, Stutter
    <3> QED
      BY <3>2, <3>3
  <2>8. CASE Find(h)
    <3>1. Others(h) /\ pc[h] = "find" /\ op' = op
      BY <1>0, <2>8 DEF Find, Refuse, Goto, Answer, Typed
    <3>2. CASE Refuse(h, "NOT_FOUND")
      <4>1. /\ pc'[h] = "unlock" /\ reply'[h].code = "NOT_FOUND"
            /\ UNCHANGED <<contractBoard, id>>
        BY <1>0, <3>2, Untouched DEF Refuse, Goto, Answer, Typed, table
      <4> QED
        BY <1>0, <3>1, <4>1, PhaseAt, RefuseFails DEF Contract!Next
    <3>3. CASE ~Refuse(h, "NOT_FOUND")
      <4>1. pc'[h] = "flip" /\ UNCHANGED <<table, id, reply>>
        BY <1>0, <2>8, <3>3 DEF Find, Goto, Typed, table
      <4>2. UNCHANGED contractBoard
        BY <1>0, <4>1, Untouched
      <4> QED
        BY <1>0, <3>1, <4>1, <4>2, PhaseAt, PhaseAtNext, Stutter
    <3> QED
      BY <3>2, <3>3
  <2>9. CASE UpdateApproved(h)
    <3>1. Others(h) /\ pc[h] = "flip" /\ op' = op
      BY <1>0, <2>9 DEF UpdateApproved, Refuse, Goto, Answer, Typed
    <3>2. CASE Refuse(h, "INTERNAL_ERROR")
      <4>1. /\ pc'[h] = "unlock" /\ reply'[h].code = "INTERNAL_ERROR"
            /\ UNCHANGED <<contractBoard, id>>
        BY <1>0, <3>2, Untouched DEF Refuse, Goto, Answer, Typed, table
      <4> QED
        BY <1>0, <3>1, <4>1, PhaseAt, RefuseFails DEF Contract!Next
    <3>3. CASE ~Refuse(h, "INTERNAL_ERROR")
      <4> DEFINE i == id[h]
      <4>1. /\ pc'[h] = "reread" /\ id' = id /\ want' = want /\ seq' = seq
            /\ i \in Ids /\ Exists(i) /\ op[h] = "toggle"
            /\ rows' = [rows EXCEPT ![i] = [rows[i] EXCEPT !.approved = want[h]]]
            /\ want[h] = ~rows[i].approved
        BY <1>0, <2>9, <3>1, <3>3
           DEF UpdateApproved, Goto, Typed, RequestInv, IInv, OwnRowInv
      <4>2. \A j \in Ids : j # i => rows'[j] = rows[j]
        BY <1>0, <4>1 DEF Typed
      <4>3. i <= seq
        BY <1>0, <4>1 DEF IInv, UnusedInv, Ids, Typed
      <4>4. rows'[i] # NoRow /\ want[h] = rows'[i].approved
        BY <1>0, <3>1, <4>1 DEF IInv, OwnRowInv, Exists
      <4>5. /\ contractBoard[i] = Status(rows[i])
            /\ contractBoard' = [contractBoard EXCEPT ![i] = Status(rows'[i])]
        <5>1. ~(i > seq) /\ ~(i > seq') /\ i \in Ids
          BY <1>0, <4>1, <4>3 DEF Ids, Typed
        <5> HIDE DEF i
        <5> QED
          BY <4>1, <4>2, <5>1 DEF contractBoard, Status
      <4>6. /\ Status(rows'[i]) = IF want[h] THEN "public" ELSE "hidden"
            /\ Status(rows[i]) = IF want[h] THEN "hidden" ELSE "public"
        BY <4>1, <4>4 DEF Status, Exists
      <4>7. /\ PhaseOf(h) = "called" /\ PhaseOf(h)' = "took"
            /\ ShownTo(h)' = IF want[h] THEN "public" ELSE "hidden"
        BY <3>1, <4>1, PhaseAt, PhaseAtNext
      <4>8. Contract!Flip(h, i)
        BY <1>0, <3>1, <4>1, <4>5, <4>6, <4>7, OnlyOwnCall
           DEF Contract!Flip, Contract!Effect, Contract!Flipped, contractPhase
      <4> QED
        BY <1>0, <4>1, <4>8 DEF Contract!Next
    <3> QED
      BY <3>2, <3>3
  <2>10. CASE Reread(h)
    <3>1. Others(h) /\ pc[h] = "reread" /\ op' = op
      BY <1>0, <2>10 DEF Reread, Refuse, Goto, Answer, Typed
    <3>2. CASE Refuse(h, "INTERNAL_ERROR")
      <4>1. /\ pc'[h] = "unlock" /\ reply'[h].code = "INTERNAL_ERROR"
            /\ UNCHANGED <<contractBoard, id>>
        BY <1>0, <3>2, Untouched DEF Refuse, Goto, Answer, Typed, table
      <4> QED
        BY <1>0, <3>1, <4>1, PhaseAt, RefuseFails DEF Contract!Next
    <3>3. CASE ~Refuse(h, "INTERNAL_ERROR")
      <4>1. /\ pc'[h] = "unlock" /\ UNCHANGED <<table, id>>
            /\ reply'[h].code = "OK" /\ reply'[h].shown = rows[id[h]]
            /\ Exists(id[h]) /\ want[h] = rows[id[h]].approved
        BY <1>0, <2>10, <3>1, <3>3
           DEF Reread, Goto, Answer, Typed, table, IInv, OwnRowInv
      <4>2. UNCHANGED contractBoard
        BY <1>0, <4>1, Untouched
      <4>3. Status(reply'[h].shown) = IF want[h] THEN "public" ELSE "hidden"
        BY <4>1 DEF Exists, Status
      <4>4. Succeeded(h)'
        BY <4>1 DEF Succeeded
      <4> QED
        BY <1>0, <3>1, <4>1, <4>2, <4>3, <4>4, PhaseAt, PhaseAtNext, Stutter
    <3> QED
      BY <3>2, <3>3
  <2>11. CASE Delete(h)
    <3>1. Others(h) /\ pc[h] = "erase" /\ op' = op
      BY <1>0, <2>11 DEF Delete, Refuse, Goto, Answer, Typed
    <3>2. CASE Refuse(h, "NOT_FOUND")
      <4>1. /\ pc'[h] = "unlock" /\ reply'[h].code = "NOT_FOUND"
            /\ UNCHANGED <<contractBoard, id>>
        BY <1>0, <3>2, Untouched DEF Refuse, Goto, Answer, Typed, table
      <4> QED
        BY <1>0, <3>1, <4>1, PhaseAt, RefuseFails DEF Contract!Next
    <3>3. CASE ~Refuse(h, "NOT_FOUND")
      <4> DEFINE i == id[h]
      <4>1. /\ pc'[h] = "unlock" /\ id' = id /\ seq' = seq
            /\ i \in Ids /\ Exists(i) /\ op[h] = "delete"
            /\ rows' = [rows EXCEPT ![i] = NoRow]
            /\ reply'[h].code = "OK" /\ reply'[h].shown = NoRow
        BY <1>0, <2>11, <3>1, <3>3 DEF Delete, Goto, Answer, Typed, RequestInv
      <4>2. i <= seq
        BY <1>0, <4>1 DEF IInv, UnusedInv, Ids, Typed
      <4>3. /\ contractBoard[i] \in {"hidden", "public"}
            /\ contractBoard' = [contractBoard EXCEPT ![i] = "gone"]
        <5>1. ~(i > seq) /\ ~(i > seq') /\ i \in Ids
          BY <1>0, <4>1, <4>2 DEF Ids, Typed
        <5>2. /\ \A j \in Ids : j # i => rows'[j] = rows[j]
              /\ rows'[i] = NoRow
          BY <1>0, <4>1 DEF Typed
        <5>3. Status(rows[i]) \in {"hidden", "public"} /\ Status(rows'[i]) = "gone"
          BY <4>1, <5>2 DEF Status, Exists
        <5> HIDE DEF i
        <5> QED
          BY <4>1, <5>1, <5>2, <5>3 DEF contractBoard, Status
      <4>4. Succeeded(h)' /\ Status(reply'[h].shown) = "gone"
        BY <4>1 DEF Succeeded, Status
      <4>5. /\ PhaseOf(h) = "called" /\ PhaseOf(h)' = "took"
            /\ ShownTo(h)' = "gone"
        BY <3>1, <4>1, <4>4, PhaseAt, PhaseAtNext
      <4>6. Contract!Remove(h, i)
        BY <1>0, <3>1, <4>1, <4>3, <4>5, OnlyOwnCall
           DEF Contract!Remove, Contract!Effect, contractPhase
      <4> QED
        BY <1>0, <4>1, <4>6 DEF Contract!Next
    <3> QED
      BY <3>2, <3>3
  <2>12. CASE Get(h)
    <3>1. /\ Others(h) /\ pc[h] = "select" /\ pc'[h] = "reply"
          /\ UNCHANGED <<table, op, id>> /\ id[h] \in Ids
          /\ op[h] \in {"get", "adminGet"}
      BY <1>0, <2>12 DEF Get, Goto, Answer, Typed, request, RequestInv
    <3>2. UNCHANGED contractBoard
      BY <1>0, <3>1, Untouched
    <3>3. CASE Answer(h, "NOT_FOUND", NoRow)
      <4>1. reply'[h].code = "NOT_FOUND"
        BY <1>0, <3>3 DEF Answer, Typed
      <4> QED
        BY <1>0, <3>1, <3>2, <4>1, PhaseAt, RefuseFails DEF Contract!Next
    <3>4. CASE Selects(op[h], rows[id[h]]) /\ Answer(h, "OK", rows[id[h]])
      <4> DEFINE i == id[h]
      <4>1. reply'[h].code = "OK" /\ reply'[h].shown = rows[i]
        BY <1>0, <3>4 DEF Answer, Typed
      <4>2. i <= seq /\ rows[i] # NoRow
        BY <1>0, <3>1, <3>4 DEF IInv, UnusedInv, Ids, Typed, Selects, Exists
      <4>3. /\ contractBoard[i] = Status(rows[i])
            /\ Status(rows[i]) \in Contract!VisibleTo(op[h])
        BY <1>0, <3>1, <3>4, <4>2
           DEF contractBoard, Ids, Typed, Status, Selects, Contract!VisibleTo
      <4>4. contractBoard' = [contractBoard EXCEPT ![i] = Status(rows[i])]
        BY <3>1, <3>2, <4>3 DEF contractBoard
      <4>5. /\ PhaseOf(h) = "called" /\ PhaseOf(h)' = "took"
            /\ ShownTo(h)' = Status(rows[i])
        BY <3>1, <4>1, PhaseAt, PhaseAtNext DEF Succeeded
      <4>6. Contract!Look(h, op[h], i)
        BY <1>0, <3>1, <4>3, <4>4, <4>5, OnlyOwnCall
           DEF Contract!Look, Contract!Effect, contractPhase
      <4> QED
        BY <1>0, <3>1, <4>6 DEF Contract!Next
    <3> QED
      BY <2>12, <3>3, <3>4 DEF Get
  <2> QED
    BY <1>3, <2>1, <2>2, <2>3, <2>4, <2>5, <2>6, <2>7, <2>8, <2>9, <2>10,
       <2>11, <2>12 DEF Proceed
<1>4. ASSUME NEW i \in Ids, MailEnds(i) PROVE UNCHANGED Contract!vars
  <2>1. UNCHANGED <<table, pc, op, id, want, reply>>
    BY <1>4 DEF MailEnds, request
  <2>2. UNCHANGED contractBoard
    BY <1>0, <2>1, Untouched
  <2>3. UNCHANGED <<contractPhase, contractShown>>
    BY <2>1 DEF contractPhase, contractShown, PhaseOf, ShownTo, Succeeded, Status
  <2> QED
    BY <2>1, <2>2, <2>3 DEF Contract!vars
<1>5. CASE Crash
  <2>1. \A h \in Handlers : pc'[h] = "idle"
    BY <1>5 DEF Crash
  <2>2. \A h \in Handlers : PhaseOf(h)' = "idle" /\ ShownTo(h)' = "nothing"
    BY <2>1, PhaseAtNext
  <2>3. UNCHANGED contractBoard
    BY <1>0, <1>5, Untouched DEF Crash
  <2>4. Contract!Restart
    BY <1>5, <2>2, <2>3 DEF Contract!Restart, Crash, contractPhase, contractShown
  <2> QED
    BY <2>4 DEF Contract!Next
<1>6. CASE UNCHANGED vars
  <2>1. UNCHANGED contractBoard
    BY <1>0, <1>6, Untouched DEF vars, table
  <2>2. UNCHANGED <<contractPhase, contractShown>>
    BY <1>6 DEF vars, contractPhase, contractShown, PhaseOf, ShownTo, Succeeded, Status
  <2> QED
    BY <1>6, <2>1, <2>2 DEF vars, Contract!vars
<1> QED
  BY <1>1, <1>2, <1>3, <1>4, <1>5, <1>6 DEF Next

\* Whatever a caller can observe of the service is allowed by the contract: each
\* request is one atomic operation that takes effect at most once, a success
\* reports its own effect, and deleted IDs stay deleted.
THEOREM Refinement == Spec => ImplementsContract
<1>1. IInv /\ [Next]_vars => IInv'
  BY TypeNext, RequestNext, InvNext DEF IInv, StepInv
<1> QED
  BY InvInit, ContractInit, ContractStep, <1>1, PTL
     DEF Spec, ImplementsContract, Contract!Spec

=============================================================================
