------------------------- MODULE RequestPath_proofs -------------------------
(***************************************************************************)
(* What RequestPath's layers guarantee, for every set of allowed origins   *)
(* and of texts.  IInv says what each layer behind a request has done: it  *)
(* is shown layer by layer, and each property follows from it at the end   *)
(* of the way.                                                             *)
(***************************************************************************)
EXTENDS RequestPath, FiniteSetTheorems, TLAPS

\* The order of the layers, as positions.
LEMMA ChainFacts ==
    /\ Len(Chain) = 6 /\ DOMAIN Chain = 1 .. 6
    /\ Chain[1] = "csrf" /\ Chain[2] = "limit" /\ Chain[3] = "cors"
    /\ Chain[4] = "logging" /\ Chain[5] = "recovery" /\ Chain[6] = "mux"
BY DEF Chain

LEMMA DepthFacts == Depth("logging") = 4 /\ Depth("recovery") = 5
<1>1. \A i \in 1 .. 6 : (Chain[i] = "logging" <=> i = 4) /\ (Chain[i] = "recovery" <=> i = 5)
  <2> SUFFICES ASSUME NEW i \in 1 .. 6
               PROVE (Chain[i] = "logging" <=> i = 4) /\ (Chain[i] = "recovery" <=> i = 5)
    OBVIOUS
  <2>1. i \in {1, 2, 3, 4, 5, 6}
    OBVIOUS
  <2> QED
    BY <2>1, ChainFacts
<1> QED
  BY <1>1, ChainFacts DEF Depth

Writers == {"recovery", "logging", "net"}

\* The parts of IInv that speak of where a request is.
Places == OnTheWayDown /\ Inside /\ TornDown /\ OnTheWayUp /\ Arrived

\* A status written inside of n layers reaches the wire, and the writers of the
\* layers around it, unless they have one.
LEMMA WriteFacts ==
    ASSUME TypeOK, NEW n \in 1 .. 6, NEW status, WriteHeader(n, status)
    PROVE  /\ DOMAIN wrote' = Writers
           /\ wrote'.net = IF wrote.net = 0 THEN status ELSE wrote.net
           /\ wrote'.logging = IF wrote.logging = 0 /\ n > 4 THEN status ELSE wrote.logging
           /\ wrote'.recovery = IF wrote.recovery = 0 /\ n > 5 THEN status ELSE wrote.recovery
BY DepthFacts DEF WriteHeader, TypeOK, Writers

LEMMA WriteTyped ==
    ASSUME TypeOK, NEW n \in 1 .. 6, NEW status \in Statuses, WriteHeader(n, status)
    PROVE  wrote' \in [Writers -> Statuses \cup {0}]
<1>1. wrote \in [Writers -> Statuses \cup {0}]
  BY DEF TypeOK, Writers
<1> QED
  BY <1>1 DEF WriteHeader

\* What the handlers may come to.
LEMMA OutcomeFacts ==
    ASSUME NEW r, NEW o \in Outcomes(r)
    PROVE  /\ o[1] \in Statuses \ {204, 405, 429}
           /\ o[1] = 201 => o[2] = "create"
           /\ o[1] = 403 => r.path = "comments"
           /\ o[1] \in 400 .. 499 => o[2] = "none"
           /\ o[2] \in {"none", "create", "toggle", "delete", "login", "logout"}
           /\ o[2] = "create" => Route(r) = <<"POST", "comments">>
           /\ o[2] = "toggle" => Route(r) = <<"POST", "toggle">>
           /\ o[2] = "delete" => Route(r) = <<"DELETE", "adminComment">>
           /\ o[2] = "login" => Route(r) = <<"POST", "login">>
           /\ o[2] = "logout" => Route(r) = <<"POST", "logout">>
<1> DEFINE Fine ==
       /\ o[1] \in Statuses \ {204, 405, 429}
       /\ o[1] = 403 => r.path = "comments"
       /\ o[1] \in 400 .. 499 => o[2] = "none"
       /\ o[2] \in {"none", "create", "toggle", "delete", "login", "logout"}
       /\ o[2] = "create" => Route(r) = <<"POST", "comments">>
       /\ o[2] = "toggle" => Route(r) = <<"POST", "toggle">>
       /\ o[2] = "delete" => Route(r) = <<"DELETE", "adminComment">>
       /\ o[2] = "login" => Route(r) = <<"POST", "login">>
       /\ o[2] = "logout" => Route(r) = <<"POST", "logout">>
<1>1. CASE Route(r) = <<"POST", "comments">>
  <2>1. o \in {<<400, "none">>} \/ o \in {400, 403, 500} \X {"none"} \/ o \in {201, 500} \X {"create"}
    BY <1>1 DEF Outcomes
  <2>2. r.path = "comments"
    BY <1>1 DEF Route
  <2> QED
    BY <1>1, <2>1, <2>2 DEF Statuses
<1>2. CASE Route(r) = <<"POST", "toggle">>
  <2>1. o \in {400, 404, 500} \X {"none"} \/ o \in {200, 500} \X {"toggle"}
    BY <1>2 DEF Outcomes
  <2> QED
    BY <1>2, <2>1 DEF Statuses
<1>3. CASE Route(r) = <<"DELETE", "adminComment">>
  <2>1. o \in {400, 404} \X {"none"} \/ o \in {<<200, "delete">>}
    BY <1>3 DEF Outcomes
  <2> QED
    BY <1>3, <2>1 DEF Statuses
<1>4. CASE Route(r) = <<"POST", "login">>
  <2>1. o \in {400, 401, 500} \X {"none"} \/ o \in {<<200, "login">>}
    BY <1>4 DEF Outcomes
  <2> QED
    BY <1>4, <2>1 DEF Statuses
<1>5. CASE Route(r) = <<"POST", "logout">>
  <2>1. o \in {<<200, "logout">>}
    BY <1>5 DEF Outcomes
  <2> QED
    BY <1>5, <2>1 DEF Statuses
<1>6. CASE /\ Route(r) # <<"POST", "comments">> /\ Route(r) # <<"POST", "toggle">>
           /\ Route(r) # <<"DELETE", "adminComment">> /\ Route(r) # <<"POST", "login">>
           /\ Route(r) # <<"POST", "logout">>
  <2>1. \/ o \in {200, 400, 404} \X {"none"} \/ o \in {200, 500} \X {"none"}
        \/ o \in {200, 503} \X {"none"} \/ o \in {<<200, "none">>}
    BY <1>6 DEF Outcomes
  <2> QED
    BY <2>1 DEF Statuses
<1> QED
  BY <1>1, <1>2, <1>3, <1>4, <1>5, <1>6

-----------------------------------------------------------------------------
(* The invariant, layer by layer.                                            *)

LEMMA InitIInv == Init => IInv
<1> SUFFICES ASSUME Init PROVE IInv
  OBVIOUS
<1>1. TypeOK
  <2>1. wrote \in [{"recovery", "logging", "net"} -> Statuses \cup {0}]
    BY DEF Init
  <2>2. at \in 0 .. Len(Chain) /\ reply \in Statuses \cup {0} /\ logged \in Statuses \cup {0}
    BY ChainFacts DEF Init
  <2>3. {readable, traced, used} \subseteq BOOLEAN
    BY DEF Init
  <2> QED
    BY <2>1, <2>2, <2>3 DEF Init, TypeOK
<1>2. OnTheWayDown
  BY DEF Init, OnTheWayDown, Unwritten, Untouched, Behind
<1> QED
  BY <1>1, <1>2 DEF Init, IInv, Inside, TornDown, OnTheWayUp, Arrived

\* A layer that turns a request back where nothing was written yet.
LEMMA TurnBack ==
    ASSUME TypeOK, NEW n \in 1 .. 6, mode = "down", OnTheWayDown, at = n,
           NEW status \in Statuses \ {0}, Answered(status)
    PROVE  /\ at' = n - 1 /\ mode' = "up"
           /\ wrote' \in [Writers -> Statuses \cup {0}]
           /\ wrote'.net = status
           /\ wrote'.logging = IF n > 4 THEN status ELSE 0
<1>1. /\ DOMAIN wrote = Writers /\ wrote.net = 0 /\ wrote.logging = 0
  BY DEF OnTheWayDown, Unwritten, TypeOK, Writers
<1>2. WriteHeader(n, status)
  BY DEF Answered
<1> QED
  BY <1>1, <1>2, WriteFacts, WriteTyped DEF Answered, Return

LEMMA CSRFStep == IInv /\ CSRF => IInv'
<1> SUFFICES ASSUME IInv, CSRF PROVE IInv'
  OBVIOUS
<1>1. mode = "down" /\ at = 1 /\ TypeOK /\ OnTheWayDown
  BY ChainFacts DEF CSRF, At, IInv, OnTheWayDown
<1>2. Unwritten /\ Untouched /\ Behind(0)
  BY <1>1 DEF OnTheWayDown
<1>3. CASE Answered(403) /\ request.path \in AdminAPI
  <2>1. at' = 0 /\ mode' = "up" /\ wrote'.net = 403 /\ wrote' \in [Writers -> Statuses \cup {0}]
    BY <1>1, <1>3, TurnBack DEF Statuses
  <2>2. TypeOK'
    BY <1>1, <2>1, ChainFacts DEF TypeOK, Writers, CSRF, done
  <2>3. Places'
    BY <1>2, <1>3, <2>1 DEF Places, OnTheWayDown, Inside, TornDown, OnTheWayUp, Arrived, TurnedBack,
       Untouched, Behind, CSRF, done
  <2> QED
    BY <2>2, <2>3 DEF IInv, Places
<1>4. CASE /\ Onward /\ UNCHANGED wrote
           /\ request.path \in AdminAPI =>
                request.method \in {"GET", "HEAD", "OPTIONS"} \/ ~CrossOrigin(request)
  <2>1. at' = 2 /\ mode' = "down"
    BY <1>1, <1>4 DEF Onward
  <2>2. TypeOK'
    BY <1>1, <1>4, <2>1, ChainFacts DEF TypeOK, CSRF, done
  <2>3. Places'
    BY <1>2, <1>4, <2>1 DEF Places, OnTheWayDown, Inside, TornDown, OnTheWayUp, Arrived, Unwritten,
       Untouched, Behind, CSRF, done, CrossOrigin, Limited, Allowed, Quiet
  <2> QED
    BY <2>2, <2>3 DEF IInv, Places
<1> QED
  BY <1>3, <1>4 DEF CSRF

LEMMA RateLimitStep == IInv /\ RateLimit => IInv'
<1> SUFFICES ASSUME IInv, RateLimit PROVE IInv'
  OBVIOUS
<1>1. mode = "down" /\ at = 2 /\ TypeOK /\ OnTheWayDown
  BY ChainFacts DEF RateLimit, At, IInv, OnTheWayDown
<1>2. Unwritten /\ Untouched /\ Behind(1)
  BY <1>1 DEF OnTheWayDown
<1>3. CASE Answered(429) /\ UNCHANGED used
  <2>1. at' = 1 /\ mode' = "up" /\ wrote'.net = 429 /\ wrote' \in [Writers -> Statuses \cup {0}]
    BY <1>1, <1>3, TurnBack DEF Statuses
  <2>2. TypeOK'
    BY <1>1, <1>3, <2>1, ChainFacts DEF TypeOK, Writers, RateLimit
  <2>3. Places'
    BY <1>2, <1>3, <2>1 DEF Places, OnTheWayDown, Inside, TornDown, OnTheWayUp, Arrived, TurnedBack,
       Untouched, Behind, RateLimit
  <2> QED
    BY <2>2, <2>3 DEF IInv, Places
<1>4. CASE Onward /\ UNCHANGED wrote /\ used' \in BOOLEAN /\ (used' <=> Limited(request))
  <2>1. at' = 3 /\ mode' = "down"
    BY <1>1, <1>4 DEF Onward
  <2>2. TypeOK'
    BY <1>1, <1>4, <2>1, ChainFacts DEF TypeOK, RateLimit, Limited
  <2>3. Places'
    BY <1>2, <1>4, <2>1 DEF Places, OnTheWayDown, Inside, TornDown, OnTheWayUp, Arrived, Unwritten,
       Untouched, Behind, RateLimit, CrossOrigin, Limited, Allowed, Quiet
  <2> QED
    BY <2>2, <2>3 DEF IInv, Places
<1>5. used \in BOOLEAN /\ ~used
  BY <1>1, <1>2 DEF Behind, TypeOK
<1>6. CASE ~Limited(request) /\ Onward /\ UNCHANGED <<wrote, used>>
  BY <1>4, <1>5, <1>6
<1>7. CASE Limited(request) /\ used' = TRUE /\ Onward /\ UNCHANGED wrote
  BY <1>4, <1>7
<1> QED
  BY <1>3, <1>6, <1>7 DEF RateLimit

LEMMA CORSStep == IInv /\ CORS => IInv'
<1> SUFFICES ASSUME IInv, CORS PROVE IInv'
  OBVIOUS
<1>0. readable' \in BOOLEAN /\ (readable' <=> Allowed(request))
  BY DEF CORS, Allowed
<1>1. mode = "down" /\ at = 3 /\ TypeOK /\ OnTheWayDown
  BY ChainFacts DEF CORS, At, IInv, OnTheWayDown
<1>2. Unwritten /\ Untouched /\ Behind(2)
  BY <1>1 DEF OnTheWayDown
<1>3. CASE Answered(204) /\ Allowed(request) /\ request.method = "OPTIONS"
  <2>1. at' = 2 /\ mode' = "up" /\ wrote'.net = 204 /\ wrote' \in [Writers -> Statuses \cup {0}]
    BY <1>1, <1>3, TurnBack DEF Statuses
  <2>2. TypeOK'
    BY <1>0, <1>1, <1>3, <2>1, ChainFacts DEF TypeOK, Writers, CORS, done
  <2>3. ~used /\ ~traced
    BY <1>2, <1>3 DEF Behind, Limited
  <2>4. Places'
    BY <1>0, <1>2, <1>3, <2>1, <2>3 DEF Places, OnTheWayDown, Inside, TornDown, OnTheWayUp, Arrived, TurnedBack,
       Untouched, CORS, done, Allowed
  <2> QED
    BY <2>2, <2>4 DEF IInv, Places
<1>4. CASE Onward /\ UNCHANGED wrote /\ (Allowed(request) => request.method # "OPTIONS")
  <2>1. at' = 4 /\ mode' = "down"
    BY <1>1, <1>4 DEF Onward
  <2>2. TypeOK'
    BY <1>0, <1>1, <1>4, <2>1, ChainFacts DEF TypeOK, CORS, done
  <2>3. Places'
    BY <1>0, <1>2, <1>4, <2>1 DEF Places, OnTheWayDown, Inside, TornDown, OnTheWayUp, Arrived, Unwritten,
       Untouched, Behind, CORS, done, CrossOrigin, Limited, Allowed, Quiet
  <2> QED
    BY <2>2, <2>3 DEF IInv, Places
<1> QED
  BY <1>3, <1>4 DEF CORS

LEMMA LoggingStep == IInv /\ Logging => IInv'
<1> SUFFICES ASSUME IInv, Logging PROVE IInv'
  OBVIOUS
<1>1. mode = "down" /\ at = 4 /\ TypeOK /\ OnTheWayDown
  BY ChainFacts DEF Logging, At, IInv, OnTheWayDown
<1>2. Unwritten /\ Untouched /\ Behind(3)
  BY <1>1 DEF OnTheWayDown
<1>0. traced' \in BOOLEAN /\ (traced' <=> ~Quiet(request))
  BY DEF Logging, Quiet
<1>3. at' = 5 /\ mode' = "down"
  BY <1>1 DEF Logging, Onward
<1>4. TypeOK'
  BY <1>0, <1>1, <1>3, ChainFacts DEF TypeOK, Logging, done
<1>5. Places'
  BY <1>0, <1>2, <1>3 DEF Places, OnTheWayDown, Inside, TornDown, OnTheWayUp, Arrived, Unwritten,
     Untouched, Behind, Logging, done, CrossOrigin, Limited, Allowed, Quiet
<1> QED
  BY <1>4, <1>5 DEF IInv, Places

LEMMA RecoveryStep == IInv /\ Recovery => IInv'
<1> SUFFICES ASSUME IInv, Recovery PROVE IInv'
  OBVIOUS
<1>1. mode = "down" /\ at = 5 /\ TypeOK /\ OnTheWayDown
  BY ChainFacts DEF Recovery, At, IInv, OnTheWayDown
<1>2. Unwritten /\ Untouched /\ Behind(4)
  BY <1>1 DEF OnTheWayDown
<1>3. at' = 6 /\ mode' = "down"
  BY <1>1 DEF Recovery, Onward
<1>4. TypeOK'
  BY <1>1, <1>3, ChainFacts DEF TypeOK, Recovery, done, answer
<1>5. Places'
  BY <1>2, <1>3 DEF Places, OnTheWayDown, Inside, TornDown, OnTheWayUp, Arrived, Unwritten,
     Untouched, Behind, Recovery, done, answer, CrossOrigin, Limited, Allowed, Quiet
<1> QED
  BY <1>4, <1>5 DEF IInv, Places

LEMMA MuxStep == IInv /\ Mux => IInv'
<1> SUFFICES ASSUME IInv, Mux PROVE IInv'
  OBVIOUS
<1>1. mode = "down" /\ at = 6 /\ TypeOK /\ OnTheWayDown
  BY ChainFacts DEF Mux, At, IInv, OnTheWayDown
<1>2. Unwritten /\ Untouched /\ Behind(5)
  BY <1>1 DEF OnTheWayDown
<1>3. CASE mode' = "handle" /\ UNCHANGED <<at, wrote>>
  <2>1. TypeOK'
    BY <1>1, <1>3, ChainFacts DEF TypeOK, Mux, done
  <2>2. Places'
    BY <1>1, <1>2, <1>3 DEF Places, OnTheWayDown, Inside, TornDown, OnTheWayUp, Arrived, Unwritten,
       Untouched, Behind, Owed, Mux, done
  <2> QED
    BY <2>1, <2>2 DEF IInv, Places
<1>4. ASSUME NEW status \in {404, 405}, Answered(status)
      PROVE  IInv'
  <2>1. /\ at' = 5 /\ mode' = "up" /\ wrote' \in [Writers -> Statuses \cup {0}]
        /\ wrote'.net = status /\ wrote'.logging = status
    BY <1>1, <1>4, TurnBack DEF Statuses
  <2>2. TypeOK'
    BY <1>1, <2>1, ChainFacts DEF TypeOK, Writers, Mux, done
  <2>3. Behind(5)' /\ effect' = "none" /\ logged' = 0
    BY <1>2 DEF Behind, Untouched, Mux, done
  <2>4. OnTheWayUp'
    BY <1>4, <2>1, <2>3 DEF OnTheWayUp, Owed, Meant, Statuses
  <2>5. Places'
    BY <2>1, <2>4 DEF Places, OnTheWayDown, Inside, TornDown, Arrived
  <2> QED
    BY <2>2, <2>5 DEF IInv, Places
<1> QED
  BY <1>3, <1>4 DEF Mux

LEMMA HandleStep == IInv /\ Handle => IInv'
<1> SUFFICES ASSUME IInv, Handle PROVE IInv'
  OBVIOUS
<1>1. mode = "handle" /\ at = 6 /\ TypeOK /\ Unwritten /\ logged = 0 /\ Behind(5) /\ effect = "none"
  BY DEF Handle, IInv, Inside
<1>2. mode' = "respond" /\ UNCHANGED <<request, at, wrote, readable, traced, logged, used>>
  BY DEF Handle
<1>3. /\ reply' \in Statuses \ {204, 405, 429}
      /\ reply' = 403 => request.path \notin AdminAPI
      /\ reply' \in 400 .. 499 => effect' = "none"
      /\ effect' \in {"none", "create", "toggle", "delete", "login", "logout"}
      /\ Owed'
  <2>1. CASE Route(request) \in Private /\ ~request.signedIn
    BY <1>1, <1>2, <2>1 DEF Handle, Statuses, Owed
  <2>2. CASE ~(Route(request) \in Private /\ ~request.signedIn)
    <3>1. PICK o \in Outcomes(request) : reply' = o[1] /\ effect' = o[2]
      BY <2>2 DEF Handle
    <3>2. \/ effect' = "none"
          \/ effect' = "create" /\ Route(request) = <<"POST", "comments">>
          \/ effect' = "toggle" /\ Route(request) = <<"POST", "toggle">>
          \/ effect' = "delete" /\ Route(request) = <<"DELETE", "adminComment">>
          \/ effect' = "login" /\ Route(request) = <<"POST", "login">>
          \/ effect' = "logout" /\ Route(request) = <<"POST", "logout">>
      BY <3>1, OutcomeFacts
    <3>3. Owed'
      BY <1>2, <2>2, <3>2 DEF Owed, Route, Limited, Private
    <3>4. /\ reply' \in Statuses \ {204, 405, 429}
          /\ reply' = 403 => request.path = "comments"
          /\ reply' \in 400 .. 499 => effect' = "none"
      BY <3>1, OutcomeFacts
    <3> QED
      BY <3>2, <3>3, <3>4 DEF AdminAPI
  <2> QED
    BY <2>1, <2>2
<1>4. TypeOK'
  BY <1>1, <1>2, <1>3, ChainFacts DEF TypeOK
<1>5. Places'
  BY <1>1, <1>2, <1>3 DEF Places, OnTheWayDown, Inside, TornDown, OnTheWayUp, Arrived, Unwritten,
     Behind, Meant
<1> QED
  BY <1>4, <1>5 DEF IInv, Places

LEMMA RespondStep == IInv /\ Respond => IInv'
<1> SUFFICES ASSUME IInv, Respond PROVE IInv'
  OBVIOUS
<1>1. mode = "respond" /\ at = 6 /\ TypeOK /\ Unwritten /\ logged = 0 /\ Behind(5) /\ Owed /\ Meant(reply)
  BY DEF Respond, IInv, Inside
<1>2. mode' = "up" /\ at' = 5 /\ UNCHANGED <<request, reply, readable, traced, done>>
  BY <1>1 DEF Respond, Return
<1>3. wrote.net = 0 /\ wrote.logging = 0 /\ wrote.recovery = 0 /\ reply \in Statuses
  BY <1>1 DEF Unwritten, TypeOK, Meant
<1>4. wrote' \in [Writers -> Statuses \cup {0}] /\ wrote'.net = reply /\ wrote'.logging = reply
  BY <1>1, <1>3, WriteFacts, WriteTyped DEF Respond
<1>5. TypeOK'
  BY <1>1, <1>2, <1>4, ChainFacts DEF TypeOK, Writers, done
<1>6. OnTheWayUp'
  BY <1>1, <1>2, <1>4 DEF OnTheWayUp, Behind, Owed, Meant, done
<1> QED
  BY <1>2, <1>5, <1>6 DEF IInv, OnTheWayDown, Inside, TornDown, Arrived

LEMMA PanicStep == IInv /\ Panic => IInv'
<1> SUFFICES ASSUME IInv, Panic PROVE IInv'
  OBVIOUS
<1>1. at = 6 /\ TypeOK /\ Unwritten /\ logged = 0 /\ Behind(5) /\ Owed
  BY DEF Panic, IInv, Inside
<1>2. mode' = "panic" /\ at' = 5 /\ UNCHANGED <<request, reply, readable, traced, done>>
  BY <1>1 DEF Panic
<1>3. /\ wrote' \in [Writers -> Statuses \cup {0}]
      /\ Unwritten' \/ (Meant(reply) /\ \A w \in DOMAIN wrote' : wrote'[w] = reply)
  <2>1. CASE UNCHANGED wrote
    BY <1>1, <2>1 DEF Unwritten, TypeOK, Writers
  <2>2. CASE mode = "respond" /\ WriteHeader(at, reply)
    <3>1. Meant(reply) /\ reply \in Statuses
      BY <2>2 DEF IInv, Inside, Meant
    <3>2. wrote.net = 0 /\ wrote.logging = 0 /\ wrote.recovery = 0
      BY <1>1 DEF Unwritten, TypeOK
    <3>3. /\ wrote' \in [Writers -> Statuses \cup {0}] /\ DOMAIN wrote' = Writers
          /\ wrote'.net = reply /\ wrote'.logging = reply /\ wrote'.recovery = reply
      BY <1>1, <2>2, <3>1, <3>2, WriteFacts, WriteTyped
    <3> QED
      BY <3>1, <3>3 DEF Writers
  <2> QED
    BY <2>1, <2>2 DEF Panic
<1>4. TypeOK'
  BY <1>1, <1>2, <1>3, ChainFacts DEF TypeOK, Writers, done
<1>5. TornDown'
  BY <1>1, <1>2, <1>3 DEF TornDown, Behind, Owed, Meant, done
<1> QED
  BY <1>2, <1>4, <1>5 DEF IInv, OnTheWayDown, Inside, OnTheWayUp, Arrived

LEMMA RecoverStep == IInv /\ Recover => IInv'
<1> SUFFICES ASSUME IInv, Recover PROVE IInv'
  OBVIOUS
<1>1. /\ mode = "panic" /\ at = 5 /\ TypeOK /\ logged = 0 /\ Behind(5) /\ Owed
      /\ Unwritten \/ (Meant(reply) /\ \A w \in DOMAIN wrote : wrote[w] = reply)
  BY DEF Recover, IInv, TornDown
<1>2. mode' = "up" /\ at' = 4 /\ UNCHANGED <<request, reply, readable, traced, done>>
  BY <1>1 DEF Recover, Return
<1>3. DOMAIN wrote = Writers /\ wrote \in [Writers -> Statuses \cup {0}]
  BY <1>1 DEF TypeOK, Writers
<1>4. /\ wrote' \in [Writers -> Statuses \cup {0}]
      /\ wrote'.net = wrote'.logging /\ Meant(wrote'.net)
  <2>1. CASE wrote.recovery = 0
    <3>1. WriteHeader(5, 500)
      BY <1>1, <2>1 DEF Recover
    <3>2. Unwritten
      BY <1>1, <1>3, <2>1 DEF Meant, Statuses, Writers
    <3>3. wrote.net = 0 /\ wrote.logging = 0
      BY <1>3, <3>2 DEF Unwritten, Writers
    <3>4. wrote' \in [Writers -> Statuses \cup {0}] /\ wrote'.net = 500 /\ wrote'.logging = 500
      BY <1>1, <3>1, <3>3, WriteFacts, WriteTyped DEF Statuses
    <3> QED
      BY <3>4 DEF Meant, Statuses
  <2>2. CASE wrote.recovery # 0
    <3>1. UNCHANGED wrote
      BY <2>2 DEF Recover
    <3>2. Meant(reply) /\ wrote.net = reply /\ wrote.logging = reply
      BY <1>1, <1>3, <2>2 DEF Unwritten, Writers
    <3> QED
      BY <1>3, <3>1, <3>2
  <2> QED
    BY <2>1, <2>2
<1>5. TypeOK'
  BY <1>1, <1>2, <1>4, ChainFacts DEF TypeOK, Writers, done
<1>6. Meant(wrote.net)' /\ Behind(5)' /\ Owed' /\ logged' = 0
  BY <1>1, <1>2, <1>4 DEF Meant, Behind, Owed, done
<1>7. OnTheWayUp'
  BY <1>2, <1>4, <1>6 DEF OnTheWayUp, Meant, Statuses
<1> QED
  BY <1>2, <1>5, <1>7 DEF IInv, OnTheWayDown, Inside, TornDown, Arrived

LEMMA GoUpStep == IInv /\ GoUp => IInv'
<1> SUFFICES ASSUME IInv, GoUp PROVE IInv'
  OBVIOUS
<1>1. mode = "up" /\ at \in 1 .. 5 /\ TypeOK /\ OnTheWayUp
  BY ChainFacts DEF GoUp, IInv, TypeOK, OnTheWayUp, TurnedBack, TornDown
<1>2. /\ at' = at - 1 /\ mode' = "up"
      /\ UNCHANGED <<request, answer, used, effect, stored, shown>>
      /\ logged' = IF at = 4 THEN Log ELSE logged
  BY <1>1, ChainFacts DEF GoUp, Chain
<1>3. Log \in Statuses \cup {0}
  BY <1>1 DEF Log, TypeOK, Statuses
<1>4. TypeOK'
  BY <1>1, <1>2, <1>3, ChainFacts DEF TypeOK, answer
<1>5. ASSUME \/ TurnedBack(0, 403) /\ request.path \in AdminAPI /\ ~readable
             \/ TurnedBack(1, 429) /\ ~readable
             \/ TurnedBack(2, 204) /\ readable /\ Allowed(request)
      PROVE  OnTheWayUp'
  <2>1. at <= 2 /\ logged' = logged
    BY <1>1, <1>2, <1>5 DEF TurnedBack
  <2> QED
    BY <1>1, <1>2, <1>5, <2>1 DEF OnTheWayUp, TurnedBack, Untouched, Allowed, answer
<1>6. ASSUME /\ Behind(5) /\ Owed /\ wrote.net = wrote.logging
             /\ wrote.net = 405 \/ Meant(wrote.net)
             /\ wrote.net = 405 => effect = "none"
             /\ logged = IF at < 4 /\ traced THEN wrote.net ELSE 0
      PROVE  OnTheWayUp'
  <2>1. logged' = IF at' < 4 /\ traced THEN wrote.net ELSE 0
    <3>1. CASE at = 4
      BY <1>1, <1>2, <1>6, <3>1 DEF Log, Behind, Meant, Statuses
    <3>2. CASE at # 4
      BY <1>1, <1>2, <1>6, <3>2
    <3> QED
      BY <3>1, <3>2
  <2>2. Behind(5)' /\ Owed' /\ (wrote.net = 405 \/ Meant(wrote.net))'
    BY <1>2, <1>6 DEF Behind, Owed, Meant, answer
  <2> QED
    BY <1>1, <1>2, <1>6, <2>1, <2>2 DEF OnTheWayUp, answer
<1>7. OnTheWayUp'
  BY <1>1, <1>5, <1>6 DEF OnTheWayUp
<1> QED
  BY <1>2, <1>4, <1>7 DEF IInv, OnTheWayDown, Inside, TornDown, Arrived

LEMMA FinishStep == IInv /\ Finish => IInv'
<1> SUFFICES ASSUME IInv, Finish PROVE IInv'
  OBVIOUS
<1>1. mode = "up" /\ at = 0 /\ TypeOK /\ OnTheWayUp
  BY DEF Finish, IInv, TornDown
<1>2. mode' = "done" /\ UNCHANGED <<request, at, answer, done>>
  BY DEF Finish
<1>3. TypeOK'
  BY <1>1, <1>2, ChainFacts DEF TypeOK, answer, done
<1>4. OnTheWayUp'
  BY <1>1, <1>2 DEF OnTheWayUp, TurnedBack, Untouched, Behind, Owed, Meant, answer, done
<1> QED
  BY <1>1, <1>2, <1>3, <1>4 DEF IInv, OnTheWayDown, Inside, TornDown, Arrived

LEMMA StutterStep == IInv /\ UNCHANGED vars => IInv'
BY DEF IInv, vars, answer, done, TypeOK, OnTheWayDown, Inside, TornDown, OnTheWayUp, Arrived,
   TurnedBack, Unwritten, Untouched, Behind, Owed, Meant

\* The inductive invariant holds of every behaviour.
THEOREM Inductive == Spec => []IInv
<1>1. IInv /\ [Next]_vars => IInv'
  BY CSRFStep, RateLimitStep, CORSStep, LoggingStep, RecoveryStep, MuxStep, HandleStep,
     RespondStep, PanicStep, RecoverStep, GoUpStep, FinishStep, StutterStep DEF Next
<1> QED
  BY InitIInv, <1>1, PTL DEF Spec

-----------------------------------------------------------------------------
(* The properties.                                                           *)

\* Every variable of the request's way has its type, for any bodies.
THEOREM TypeCorrect == Spec => []TypeOK
<1>1. IInv => TypeOK
  BY DEF IInv
<1> QED
  BY Inductive, <1>1, PTL

\* A request ID in the answer has one line, of level Info, in the log with the
\* status sent.
THEOREM LoggedAsSentHolds == Spec => []LoggedAsSent
<1>1. IInv => LoggedAsSent
  BY DEF IInv, OnTheWayUp, Arrived, TurnedBack, Untouched, Meant, Statuses, LoggedAsSent, Sent
<1> QED
  BY Inductive, <1>1, PTL

\* No effect without a token of the bucket, nor, for an admin's, a session and
\* a page of the own site: the prefixes of CSRF and limiter cover the routes.
THEOREM EffectsGuardedHolds == Spec => []EffectsGuarded
<1>1. ASSUME IInv, effect # "none" PROVE Owed /\ Behind(5)
  <2>1. mode \in {"handle", "respond", "panic", "up", "done"}
    BY <1>1 DEF IInv, TypeOK, OnTheWayDown, Untouched
  <2> QED
    BY <1>1, <2>1 DEF IInv, Inside, TornDown, OnTheWayUp, TurnedBack, Untouched
<1>2. IInv => EffectsGuarded
  BY <1>1 DEF EffectsGuarded, Owed, Behind
<1> QED
  BY Inductive, <1>2, PTL

\* A 4xx changes nothing, and what is refused outside of the mux is free.
THEOREM RefusedIsFreeHolds == Spec => []RefusedIsFree
<1>1. IInv => RefusedIsFree
  BY DEF IInv, OnTheWayUp, Arrived, TurnedBack, Untouched, Meant, Statuses, RefusedIsFree, Sent
<1> QED
  BY Inductive, <1>1, PTL

\* The CORS headers let exactly the pages of allowed origins read an answer of
\* the layers from CORS inwards.
THEOREM PageReadsAnswerHolds == Spec => []PageReadsAnswer
<1>1. IInv => PageReadsAnswer
  BY DEF IInv, OnTheWayUp, Arrived, TurnedBack, Behind, Meant, Statuses, PageReadsAnswer, Sent
<1> QED
  BY Inductive, <1>1, PTL

-----------------------------------------------------------------------------
(* The texts.                                                                *)

\* The places that are kept are counted from 1, each once, in their order.
LEMMA PlaceFacts ==
    ASSUME NEW n \in Nat, NEW kept \in SUBSET (1 .. n)
    PROVE  /\ IsFiniteSet(kept) /\ Cardinality(kept) \in 0 .. n
           /\ \A i \in kept : Place(kept, i) \in 1 .. Cardinality(kept)
           /\ \A i, j \in kept : i < j => Place(kept, i) < Place(kept, j)
           /\ \A k \in 1 .. Cardinality(kept) : \E i \in kept : Place(kept, i) = k
<1> DEFINE N == Cardinality(kept)
           Upto(i) == {j \in kept : j <= i}
<1>1. IsFiniteSet(kept) /\ N \in 0 .. n
  <2>1. 1 \in Int /\ n \in Int
    OBVIOUS
  <2>2. IsFiniteSet(1 .. n) /\ Cardinality(1 .. n) = IF 1 > n THEN 0 ELSE n - 1 + 1
    BY <2>1, FS_Interval, Zenon
  <2>3. IsFiniteSet(kept) /\ N <= Cardinality(1 .. n)
    BY <2>2, FS_Subset
  <2>4. N \in Nat
    BY <2>3, FS_CardinalityType
  <2> QED
    BY <2>2, <2>3, <2>4
<1>2. ASSUME NEW i \in kept
      PROVE  /\ IsFiniteSet(Upto(i)) /\ Place(kept, i) = Cardinality(Upto(i))
             /\ Place(kept, i) \in 1 .. N
  <2>1. Upto(i) \subseteq kept /\ i \in Upto(i)
    OBVIOUS
  <2>2. IsFiniteSet(Upto(i)) /\ Cardinality(Upto(i)) <= N
    BY <1>1, <2>1, FS_Subset
  <2>3. Cardinality(Upto(i)) \in Nat /\ Cardinality(Upto(i)) # 0
    BY <2>1, <2>2, FS_CardinalityType, FS_EmptySet
  <2> QED
    BY <1>1, <2>2, <2>3 DEF Place
<1>3. ASSUME NEW i \in kept, NEW j \in kept, i < j
      PROVE  Place(kept, i) < Place(kept, j)
  <2>1. Upto(i) \subseteq Upto(j) /\ j \in Upto(j) /\ j \notin Upto(i)
    <3>1. \A x \in kept : x \in Int
      OBVIOUS
    <3>2. /\ \A x \in kept : x <= i => x <= j
          /\ j <= j /\ ~(j <= i)
      BY <1>3, <3>1
    <3> QED
      BY <3>2
  <2>2. /\ Cardinality(Upto(i)) <= Cardinality(Upto(j))
        /\ Cardinality(Upto(i)) # Cardinality(Upto(j))
    BY <1>2, <2>1, FS_Subset
  <2> QED
    BY <1>1, <1>2, <2>2
<1> HIDE DEF N, Upto
<1>4. \A k \in 1 .. N : \E i \in kept : Place(kept, i) = k
  <2> DEFINE place == [i \in kept |-> Place(kept, i)]
  <2>1. place \in [kept -> 1 .. N]
    BY <1>2
  <2>2. \A i, j \in kept : place[i] = place[j] => i = j
    <3>1. \A i, j \in kept : i = j \/ i < j \/ j < i
      OBVIOUS
    <3> QED
      BY <1>1, <1>2, <1>3, <3>1
  <2>3. place \in Injection(kept, 1 .. N)
    BY <2>1, <2>2 DEF Injection, IsInjective
  <2>4. 1 \in Int /\ N \in Int
    BY <1>1
  <2>5. IsFiniteSet(1 .. N) /\ Cardinality(1 .. N) = IF 1 > N THEN 0 ELSE N - 1 + 1
    BY <2>4, FS_Interval, Zenon
  <2>6. Cardinality(kept) = Cardinality(1 .. N)
    BY <1>1, <2>5 DEF N
  <2>7. place \in Surjection(kept, 1 .. N)
    BY <2>3, <2>5, <2>6, FS_Injection
  <2> QED
    BY <2>7 DEF Surjection
<1> QED
  BY <1>1, <1>2, <1>3, <1>4 DEF N

\* Pick gives each place its character, and skips only what is not kept.
LEMMA PickFacts ==
    ASSUME NEW text \in Seq(Characters), NEW kept \in SUBSET (DOMAIN text)
    PROVE  /\ Pick(text, kept) \in Seq(Characters)
           /\ Len(Pick(text, kept)) = Cardinality(kept)
           /\ DOMAIN Pick(text, kept) = 1 .. Cardinality(kept)
           /\ \A k \in 1 .. Cardinality(kept) :
                 \E i \in kept : Place(kept, i) = k /\ Pick(text, kept)[k] = text[i]
<1> DEFINE N == Cardinality(kept)
<1>1. Len(text) \in Nat /\ DOMAIN text = 1 .. Len(text)
  OBVIOUS
<1>2. N \in Nat /\ \A k \in 1 .. N : \E i \in kept : Place(kept, i) = k
  BY <1>1, PlaceFacts
<1> HIDE DEF N
<1>3. \A k \in 1 .. N : \E i \in kept : Place(kept, i) = k /\ Pick(text, kept)[k] = text[i]
  <2> TAKE k \in 1 .. N
  <2> DEFINE i == CHOOSE i \in kept : Place(kept, i) = k
  <2>1. i \in kept /\ Place(kept, i) = k
    BY <1>2
  <2>2. Pick(text, kept)[k] = text[i]
    BY DEF Pick, N
  <2> QED
    BY <2>1, <2>2
<1>4. Pick(text, kept) \in [1 .. N -> Characters]
  <2>1. \A i \in kept : text[i] \in Characters
    BY <1>1
  <2>2. \A k \in 1 .. N : Pick(text, kept)[k] \in Characters
    BY <1>3, <2>1
  <2> QED
    BY <2>2 DEF Pick, N
<1> QED
  BY <1>2, <1>3, <1>4 DEF N

LEMMA PickAll ==
    ASSUME NEW text \in Seq(Characters)
    PROVE  Pick(text, DOMAIN text) = text
<1> DEFINE all == DOMAIN text
           n == Len(text)
<1>1. n \in Nat /\ all = 1 .. n
  OBVIOUS
<1>2. \A i \in 0 .. n : Cardinality(1 .. i) = i
  <2> TAKE i \in 0 .. n
  <2>1. 1 \in Int /\ i \in Int
    OBVIOUS
  <2>2. Cardinality(1 .. i) = IF 1 > i THEN 0 ELSE i - 1 + 1
    BY <2>1, FS_Interval, Zenon
  <2> QED
    BY <2>2
<1>3. Cardinality(all) = n
  BY <1>1, <1>2
<1>4. \A i \in all : Place(all, i) = i
  <2> TAKE i \in all
  <2>1. {j \in all : j <= i} = 1 .. i /\ i \in 0 .. n
    BY <1>1
  <2> QED
    BY <1>2, <2>1 DEF Place
<1>5. /\ Pick(text, all) \in Seq(Characters) /\ Len(Pick(text, all)) = n
      /\ \A k \in 1 .. n : \E i \in all : Place(all, i) = k /\ Pick(text, all)[k] = text[i]
  <2>1. all \in SUBSET (DOMAIN text)
    OBVIOUS
  <2> HIDE DEF all, n
  <2> QED
    BY <1>3, <2>1, PickFacts
<1>6. \A k \in 1 .. n : Pick(text, all)[k] = text[k]
  <2> TAKE k \in 1 .. n
  <2>1. PICK i \in all : Place(all, i) = k /\ Pick(text, all)[k] = text[i]
    BY <1>5
  <2>2. i = k
    <3> HIDE DEF all, n
    <3> QED
      BY <1>4, <2>1
  <2> QED
    BY <2>1, <2>2
<1>7. Pick(text, all) = text
  <2> DEFINE picked == Pick(text, all)
  <2>1. picked \in Seq(Characters) /\ Len(picked) = n /\ \A k \in 1 .. n : picked[k] = text[k]
    BY <1>5, <1>6
  <2> HIDE DEF picked, all
  <2>2. picked = text
    BY <1>1, <2>1
  <2> QED
    BY <2>2 DEF picked
<1> QED
  BY <1>7

\* The first pass leaves no NUL, whatever it was given.
LEMMA SanitizeDropsNUL ==
    ASSUME NEW text \in Seq(Characters)
    PROVE  /\ Sanitize(text) \in Seq(Characters)
           /\ \A k \in DOMAIN Sanitize(text) : Sanitize(text)[k] # "NUL"
<1> DEFINE single == Collapse(text)
           printable == Printable(single)
<1>1. single \in Seq(Characters)
  <2>1. Kept(text) \in SUBSET (DOMAIN text)
    BY DEF Kept
  <2> QED
    BY <2>1, PickFacts DEF Collapse
<1> HIDE DEF single
<1>2. printable \in SUBSET (DOMAIN single) /\ \A i \in printable : single[i] # "NUL"
  BY DEF Printable
<1>3. Sanitize(text) = Pick(single, printable)
  BY DEF Sanitize, single
<1> QED
  BY <1>1, <1>2, <1>3, PickFacts

\* Spaces that are collapsed with no NUL among them stay so.
LEMMA CollapseIsNormal ==
    ASSUME NEW text \in Seq(Characters), \A i \in DOMAIN text : text[i] # "NUL"
    PROVE  Collapse(text) \in Seq(Characters) /\ Normal(Collapse(text))
<1> DEFINE n == Len(text)
           kept == Kept(text)
           N == Cardinality(kept)
           single == Collapse(text)
<1>1. n \in Nat /\ DOMAIN text = 1 .. n
  OBVIOUS
<1>2. /\ kept \in SUBSET (1 .. n)
      /\ \A i \in 1 .. n : i \in kept <=>
            \/ text[i] # "space"
            \/ i > 1 /\ text[i - 1] # "space" /\ \E j \in i + 1 .. n : text[j] # "space"
  BY <1>1 DEF Kept
<1>3. /\ N \in Nat
      /\ \A i \in kept : Place(kept, i) \in 1 .. N
      /\ \A i, j \in kept : i < j => Place(kept, i) < Place(kept, j)
  <2> HIDE DEF n, kept
  <2> QED
    BY <1>1, <1>2, PlaceFacts DEF N
<1>4. /\ single \in Seq(Characters) /\ Len(single) = N /\ DOMAIN single = 1 .. N
      /\ \A k \in 1 .. N : \E i \in kept : Place(kept, i) = k /\ single[k] = text[i]
  BY <1>1, <1>2, PickFacts DEF Collapse
<1> HIDE DEF n, kept, N, single
<1>5. ASSUME NEW k \in 1 .. N, single[k] = "space"
      PROVE  k \notin {1, N} /\ single[k + 1] # "space"
  <2>1. PICK i \in kept : Place(kept, i) = k /\ single[k] = text[i]
    BY <1>4
  <2>2. /\ i \in 1 .. n /\ text[i] = "space"
        /\ i > 1 /\ text[i - 1] # "space"
        /\ \E j \in i + 1 .. n : text[j] # "space"
    BY <1>2, <1>5, <2>1
  <2>3. k > 1
    <3>1. i - 1 \in kept /\ i - 1 < i
      BY <1>1, <1>2, <2>2
    <3>2. Place(kept, i - 1) \in 1 .. N /\ Place(kept, i - 1) < k
      BY <1>3, <2>1, <3>1
    <3> QED
      BY <1>3, <3>2
  <2>4. k < N
    <3>1. PICK j \in i + 1 .. n : text[j] # "space"
      BY <2>2
    <3>2. j \in kept /\ i < j
      BY <1>1, <1>2, <2>2, <3>1
    <3>3. Place(kept, j) \in 1 .. N /\ k < Place(kept, j)
      BY <1>3, <2>1, <3>2
    <3> QED
      BY <1>3, <3>3
  <2>5. single[k + 1] # "space"
    <3>1. k + 1 \in 1 .. N
      BY <1>3, <2>4
    <3>2. PICK m \in kept : Place(kept, m) = k + 1 /\ single[k + 1] = text[m]
      BY <1>4, <3>1
    <3>3. SUFFICES ASSUME text[m] = "space" PROVE FALSE
      BY <3>2
    <3>4. m \in 1 .. n /\ m > 1 /\ text[m - 1] # "space"
      BY <1>2, <3>2, <3>3
    <3>5. m - 1 \in kept /\ m - 1 < m
      BY <1>1, <1>2, <3>4
    <3>6. i < m
      <4>1. i = m \/ i < m \/ m < i
        BY <1>1, <2>2, <3>4
      <4> QED
        BY <1>3, <2>1, <3>2, <4>1
    <3>7. i < m - 1
      BY <1>1, <2>2, <3>4, <3>6
    <3>8. k < Place(kept, m - 1) /\ Place(kept, m - 1) < k + 1
      BY <1>3, <2>1, <3>2, <3>5, <3>7
    <3>9. Place(kept, m - 1) \in Int
      BY <1>3, <3>5
    <3> QED
      BY <3>8, <3>9
  <2> QED
    BY <2>3, <2>4, <2>5
<1>6. \A k \in 1 .. N : single[k] # "NUL"
  BY <1>1, <1>2, <1>4
<1> QED
  BY <1>4, <1>5, <1>6 DEF Normal, single

\* What was sanitized once is normal after the second time.
LEMMA SanitizedTwiceIsNormal ==
    ASSUME NEW text \in Seq(Characters)
    PROVE  Normal(Sanitize(Sanitize(text)))
<1> DEFINE once == Sanitize(text)
           single == Collapse(once)
<1>1. once \in Seq(Characters) /\ \A k \in DOMAIN once : once[k] # "NUL"
  BY SanitizeDropsNUL
<1> HIDE DEF once
<1>2. single \in Seq(Characters) /\ Normal(single)
  BY <1>1, CollapseIsNormal
<1>3. Printable(single) = DOMAIN single
  BY <1>2 DEF Printable, Normal
<1>4. Sanitize(once) = single
  BY <1>2, <1>3, PickAll DEF Sanitize
<1> QED
  BY <1>2, <1>4 DEF once

\* Whatever an author sends, an answer shows single spaces and no NUL.
THEOREM ShownIsNormalHolds == Spec => []ShownIsNormal
<1>1. Init => ShownIsNormal
  BY DEF Init, ShownIsNormal, Normal
<1>2. ASSUME TypeOK, ShownIsNormal, Handle PROVE ShownIsNormal'
  <2>1. request.body \in Seq(Characters)
    <3>1. \A b \in Bodies : b \in Seq(Characters)
      BY BodiesAssumption
    <3>2. request.body = <<>> \/ request.body \in Bodies
      BY <1>2 DEF TypeOK, Requests
    <3>3. <<>> \in Seq(Characters)
      OBVIOUS
    <3> QED
      BY <3>1, <3>2, <3>3, Zenon
  <2>2. CASE shown' = shown
    BY <1>2, <2>2 DEF ShownIsNormal, Normal
  <2>3. CASE shown' # shown
    <3>1. PICK outcome \in Outcomes(request) :
              /\ reply' = outcome[1] /\ effect' = outcome[2]
              /\ stored' = IF effect' = "create" THEN Sanitize(request.body) ELSE stored
              /\ shown' = IF reply' = 201 THEN MapToResponse(stored') ELSE shown
      BY <1>2, <2>3 DEF Handle
    <3>2. effect' = "create"
      BY <2>3, <3>1, OutcomeFacts
    <3>3. shown' = Sanitize(Sanitize(request.body))
      BY <2>3, <3>1, <3>2 DEF MapToResponse
    <3>4. Normal(shown')
      BY <2>1, <3>3, SanitizedTwiceIsNormal
    <3> QED
      BY <3>4 DEF ShownIsNormal, Normal
  <2> QED
    BY <2>2, <2>3
<1>3. ShownIsNormal /\ UNCHANGED shown => ShownIsNormal'
  BY DEF ShownIsNormal, Normal
<1>4. Next => Handle \/ UNCHANGED shown
  BY DEF Next, CSRF, RateLimit, CORS, Logging, Recovery, Mux, Respond, Panic, Recover, GoUp,
         Finish, done
<1>5. UNCHANGED vars => UNCHANGED shown
  BY DEF vars, done
<1>6. TypeOK /\ ShownIsNormal /\ [Next]_vars => ShownIsNormal'
  BY <1>2, <1>3, <1>4, <1>5
<1> QED
  BY TypeCorrect, <1>1, <1>6, PTL DEF Spec

=============================================================================
