----------------------------- MODULE RequestPath -----------------------------
(***************************************************************************)
(* The way of one HTTP request through setupMiddleware (cmd/server/main.go *)
(* 217-225): CSRF, rate limit, CORS, logging, recovery, the mux and a      *)
(* handler, which may panic anywhere, and back.  Logging and recovery wrap *)
(* the ResponseWriter; each wrapper, and net/http below them, keeps the    *)
(* first status it is given.  What a comment says is a short text, so that *)
(* what the sanitizer does to spaces and NULs can be told.  The bucket of  *)
(* the limiter, the sessions and the service are RateLimiter, Sessions and *)
(* CommentService: here they answer anything they may answer.              *)
(***************************************************************************)
EXTENDS Naturals, FiniteSets, Sequences

CONSTANTS
    AllowedOrigins, \* of ALLOWED_ORIGINS: origins, or "*"
    Bodies          \* what an author may send: texts over Characters

Characters == {"letter", "space", "NUL"}    \* a space of any kind
ASSUME BodiesAssumption == Bodies \subseteq Seq(Characters)

Methods == {"GET", "HEAD", "POST", "DELETE", "OPTIONS", "PUT"}
AdminAPI == {"login", "logout", "verify", "adminComments", "adminComment", "toggle"}
Paths == AdminAPI \cup {"comments", "comment", "admin", "health", "vars", "other"}
Origins == {"none", "own", "blog", "elsewhere"}     \* the Origin header
Sites == {"none", "same", "cross"}                  \* the Sec-Fetch-Site header

Requests ==
    [method : Methods, path : Paths, origin : Origins, site : Sites,
     signedIn : BOOLEAN, body : {<<>>}] \cup
    [method : {"POST"}, path : {"comments"}, origin : Origins, site : Sites,
     signedIn : {FALSE}, body : Bodies]

VARIABLES
    request,
    mode,       \* "down" to the handler, "handle", "respond", "up", "panic", "done"
    at,         \* the layer of Chain that is next
    reply,      \* the status the handler means to send
    wrote,      \* the first status each ResponseWriter was given; 0: none yet
    readable,   \* the answer carries Access-Control-Allow-Origin
    traced,     \* and X-Request-ID
    logged,     \* the status in the log; 0: no line
    used,       \* the request took a token of its client's bucket
    effect,     \* what it changed
    stored, shown   \* the text in the table, and in the answer

answer == <<reply, wrote, readable, traced>>
done == <<logged, used, effect, stored, shown>>
vars == <<request, mode, at, answer, done>>

Init ==
    /\ request \in Requests
    /\ mode = "down" /\ at = 1
    /\ reply = 0
    /\ wrote = [recovery |-> 0, logging |-> 0, net |-> 0]
    /\ readable = FALSE /\ traced = FALSE /\ logged = 0 /\ used = FALSE
    /\ effect = "none" /\ stored = <<>> /\ shown = <<>>

\* Outermost first (variants: recovery around all, the limiter outside of CSRF,
\* CORS outside of both).
ChainRecoveryFirst == <<"recovery", "csrf", "limit", "cors", "logging", "mux">>
ChainLimitFirst == <<"limit", "csrf", "cors", "logging", "recovery", "mux">>
ChainCORSFirst == <<"cors", "csrf", "limit", "logging", "recovery", "mux">>
Chain == <<"csrf", "limit", "cors", "logging", "recovery", "mux">>
Depth(layer) == CHOOSE i \in DOMAIN Chain : Chain[i] = layer

At(layer) == mode = "down" /\ at <= Len(Chain) /\ Chain[at] = layer
Onward == at' = at + 1 /\ UNCHANGED mode
Return == mode' = "up" /\ at' = at - 1

\* WriteHeader by the code inside "depth" layers: every writer of a layer
\* around it that has no status yet takes this one and hands it on.
WriteHeader(depth, status) ==
    wrote' = [w \in DOMAIN wrote |->
                IF wrote[w] = 0 /\ (w = "net" \/ Depth(w) < depth) THEN status ELSE wrote[w]]

Answered(status) ==     \* a layer answers instead of going on
    /\ WriteHeader(at, status)
    /\ Return

-----------------------------------------------------------------------------
(* The layers.                                                               *)

\* http.CrossOriginProtection.Check.
CrossOrigin(r) == r.site = "cross" \/ (r.site = "none" /\ r.origin \notin {"none", "own"})

CSRF ==
    /\ At("csrf")
    /\ IF /\ request.path \in AdminAPI
          /\ request.method \notin {"GET", "HEAD", "OPTIONS"}
          /\ CrossOrigin(request)
       THEN Answered(403)
       ELSE Onward /\ UNCHANGED wrote
    /\ UNCHANGED <<request, reply, readable, traced, done>>

\* (variant: DELETE is not thought of)
LimitedPosts(r) ==
    r.method = "POST" /\ r.path \in {"comments", "login", "adminComment", "toggle"}
Limited(r) ==
    \/ r.method = "POST" /\ r.path \in {"comments", "login"}
    \/ r.method \in {"POST", "DELETE"} /\ r.path \in {"adminComment", "toggle"}

RateLimit ==
    /\ At("limit")
    /\ \/ ~Limited(request) /\ Onward /\ UNCHANGED <<wrote, used>>
       \/ Limited(request) /\ used' = TRUE /\ Onward /\ UNCHANGED wrote
       \/ Limited(request) /\ Answered(429) /\ UNCHANGED used
    /\ UNCHANGED <<request, reply, readable, traced, logged, effect, stored, shown>>

Allowed(r) == r.origin # "none" /\ AllowedOrigins \cap {"*", r.origin} # {}
CORS ==
    /\ At("cors")
    /\ readable' = Allowed(request)
    /\ IF Allowed(request) /\ request.method = "OPTIONS"
       THEN Answered(204)
       ELSE Onward /\ UNCHANGED wrote
    /\ UNCHANGED <<request, reply, traced, done>>

\* Before and after the layers inside; a panic that came this far is not logged.
Quiet(r) == r.path \in {"health", "vars"}
Logging ==
    /\ At("logging") /\ Onward
    /\ traced' = ~Quiet(request)
    /\ UNCHANGED <<request, reply, wrote, readable, done>>
Log ==
    IF Quiet(request) THEN 0 ELSE IF wrote.logging = 0 THEN 200 ELSE wrote.logging

\* Recovery answers 500, to the writer it was given, unless its own was used.
Recovery ==
    /\ At("recovery") /\ Onward
    /\ UNCHANGED <<request, answer, done>>
Recover ==
    /\ mode = "panic" /\ at > 0 /\ Chain[at] = "recovery"
    /\ IF wrote.recovery = 0 THEN WriteHeader(at, 500) ELSE UNCHANGED wrote
    /\ Return
    /\ UNCHANGED <<request, reply, readable, traced, done>>

-----------------------------------------------------------------------------
(* The mux and the handlers.                                                 *)

Public == {<<"POST", "comments">>, <<"GET", "comments">>, <<"GET", "comment">>,
           <<"GET", "admin">>, <<"POST", "login">>, <<"GET", "health">>, <<"GET", "vars">>}
Private == {<<"POST", "logout">>, <<"GET", "verify">>, <<"GET", "adminComments">>,
            <<"GET", "adminComment">>, <<"POST", "toggle">>, <<"DELETE", "adminComment">>}
Route(r) == <<IF r.method = "HEAD" THEN "GET" ELSE r.method, r.path>>

Mux ==
    /\ At("mux")
    /\ IF Route(request) \in Public \cup Private
       THEN mode' = "handle" /\ UNCHANGED <<at, wrote>>
       ELSE \E status \in {404, 405} : Answered(status)
    /\ UNCHANGED <<request, reply, readable, traced, done>>

\* Strictly in the order of the code: spaces are trimmed and collapsed, then
\* NULs go.  Tags, escapes and NFC leave both alone.
Place(kept, i) == Cardinality({j \in kept : j <= i})
Pick(text, kept) ==     \* what is kept, in its order
    [k \in 1 .. Cardinality(kept) |-> text[CHOOSE i \in kept : Place(kept, i) = k]]
Kept(text) ==
    {i \in DOMAIN text :
        \/ text[i] # "space"
        \/ i > 1 /\ text[i - 1] # "space" /\ \E j \in i + 1 .. Len(text) : text[j] # "space"}
Collapse(text) == Pick(text, Kept(text))
Printable(text) == {i \in DOMAIN text : text[i] # "NUL"}
Sanitize(text) == LET single == Collapse(text) IN Pick(single, Printable(single))

\* mapToResponse sanitizes again (variant: it does not).
MapToResponseRaw(text) == text
MapToResponse(text) == Sanitize(text)

\* What a handler may come to: the status it means to send and what it did.  A
\* service that fails with INTERNAL_ERROR may have changed the table before.
Outcomes(r) ==
    CASE Route(r) = <<"POST", "comments">> ->
            IF r.body = <<>> THEN {<<400, "none">>}
            ELSE ({400, 403, 500} \X {"none"}) \cup ({201, 500} \X {"create"})
      [] Route(r) = <<"POST", "toggle">> ->
            ({400, 404, 500} \X {"none"}) \cup ({200, 500} \X {"toggle"})
      [] Route(r) = <<"DELETE", "adminComment">> ->
            ({400, 404} \X {"none"}) \cup {<<200, "delete">>}
      [] Route(r) = <<"POST", "login">> ->
            ({400, 401, 500} \X {"none"}) \cup {<<200, "login">>}
      [] Route(r) = <<"POST", "logout">> -> {<<200, "logout">>}
      [] Route(r) \in {"GET"} \X {"comment", "adminComment"} -> {200, 400, 404} \X {"none"}
      [] Route(r) \in {"GET"} \X {"comments", "adminComments"} -> {200, 500} \X {"none"}
      [] Route(r) = <<"GET", "health">> -> {200, 503} \X {"none"}
      [] OTHER -> {<<200, "none">>}     \* admin, verify, vars

Handle ==
    /\ mode = "handle"
    /\ IF Route(request) \in Private /\ ~request.signedIn
       THEN reply' = 401 /\ UNCHANGED <<effect, stored, shown>>
       ELSE \E outcome \in Outcomes(request) :
                /\ reply' = outcome[1] /\ effect' = outcome[2]
                /\ stored' = IF effect' = "create" THEN Sanitize(request.body) ELSE stored
                /\ shown' = IF reply' = 201 THEN MapToResponse(stored') ELSE shown
    /\ mode' = "respond"
    /\ UNCHANGED <<request, at, wrote, readable, traced, logged, used>>

\* writeJSON and writeError give a status; ServePage only writes, which gives 200.
Respond ==
    /\ mode = "respond"
    /\ WriteHeader(at, reply)
    /\ Return
    /\ UNCHANGED <<request, reply, readable, traced, done>>

\* In the handler, before or after its work, or while it writes its answer.
Panic ==
    /\ mode \in {"handle", "respond"}
    /\ mode' = "panic" /\ at' = at - 1
    /\ UNCHANGED wrote \/ (mode = "respond" /\ WriteHeader(at, reply))
    /\ UNCHANGED <<request, reply, readable, traced, done>>

\* The layers return, or are torn down by a panic, which net/http answers by
\* closing the connection.
GoUp ==
    /\ at > 0
    /\ mode \in {"up", "panic"} /\ (mode = "panic" => Chain[at] # "recovery")
    /\ logged' = IF mode = "up" /\ Chain[at] = "logging" THEN Log ELSE logged
    /\ at' = at - 1
    /\ UNCHANGED <<request, mode, answer, used, effect, stored, shown>>
Finish ==
    /\ mode \in {"up", "panic"} /\ at = 0
    /\ mode' = "done"
    /\ UNCHANGED <<request, at, answer, done>>

Next ==
    \/ CSRF \/ RateLimit \/ CORS \/ Logging \/ Recovery \/ Mux
    \/ Handle \/ Respond \/ Panic \/ Recover \/ GoUp \/ Finish

Spec == Init /\ [][Next]_vars

-----------------------------------------------------------------------------
(* Properties *)

Statuses == {200, 201, 204, 400, 401, 403, 404, 405, 429, 500, 503}

TypeOK ==
    /\ request \in Requests
    /\ mode \in {"down", "handle", "respond", "up", "panic", "done"}
    /\ at \in 0 .. Len(Chain)
    /\ reply \in Statuses \cup {0} /\ logged \in Statuses \cup {0}
    /\ wrote \in [{"recovery", "logging", "net"} -> Statuses \cup {0}]
    /\ {readable, traced, used} \subseteq BOOLEAN
    /\ effect \in {"none", "create", "toggle", "delete", "login", "logout"}

\* What net/http put on the wire.
Sent == IF wrote.net = 0 THEN 200 ELSE wrote.net

\* Whoever is given a request ID finds one line under it in the log, with the
\* status that was sent, also when the handler panicked, before or after the
\* status was out: logging sits outside of recovery, and both keep the first.
\* (The line is of level Info, logging.go:55: with LOG_LEVEL=warn or error the
\* logger drops it, and the ID leads nowhere.)
LoggedAsSent ==
    mode = "done" => /\ traced <=> logged # 0
                     /\ traced => logged = Sent

\* The limiter and CSRF tell routes by prefixes of their own, not by the mux's:
\* still, nothing changes the table or draws a session without a token of the
\* client's bucket, no admin operation is done for a page of another site, and
\* none but login without a session.  This is the code's rule, not that of the
\* texts: README.md:263-268 has toggle and delete guarded by a password in the
\* body, security.md:101 has only POST /api/v1/comments limited.
EffectsGuarded ==
    effect # "none" =>
        /\ effect # "logout" => used
        /\ request.path \in AdminAPI => ~CrossOrigin(request)
        /\ effect \notin {"create", "login"} => request.signedIn

\* Who is told that the request was refused has changed nothing by it; and what
\* the limiter or CSRF refused, and a preflight, cost nothing of the quota.
RefusedIsFree ==
    mode = "done" =>
        /\ Sent \in 400 .. 499 => effect = "none"
        /\ Sent \in {204, 429} \/ (Sent = 403 /\ request.path \in AdminAPI) => ~used

\* By the CORS headers, a page of an allowed origin can read every answer, a
\* panic's 500 too, but those of the layers outside of CORS, and no other origin
\* is let in.  (A page of the server's own origin, the admin page for one, needs
\* no header to read an answer.)
PageReadsAnswer ==
    mode = "done" =>
        readable <=> /\ Allowed(request)
                     /\ Sent # 429 /\ ~(Sent = 403 /\ request.path \in AdminAPI)

\* An answer shows no NUL and no space but single ones between words, although
\* the table may: the sanitizer removes NULs after it has collapsed spaces, and
\* only the second pass of mapToResponse closes up what that leaves.
Normal(text) ==
    \A i \in DOMAIN text :
        /\ text[i] # "NUL"
        /\ text[i] = "space" => i \notin {1, Len(text)} /\ text[i + 1] # "space"
ShownIsNormal == Normal(shown)

-----------------------------------------------------------------------------
(* What is left behind by a request on its way: inductive.                   *)

\* What the outer n layers have done, and that they let the request pass.
Behind(n) ==
    /\ n >= 1 /\ request.path \in AdminAPI =>
           request.method \in {"GET", "HEAD", "OPTIONS"} \/ ~CrossOrigin(request)
    /\ used <=> n >= 2 /\ Limited(request)
    /\ n >= 3 /\ Allowed(request) => request.method # "OPTIONS"
    /\ readable <=> n >= 3 /\ Allowed(request)
    /\ traced <=> n >= 4 /\ ~Quiet(request)

Untouched == effect = "none" /\ logged = 0

\* Only a route that CSRF and the limiter know has effects.
Owed ==
    effect # "none" =>
        /\ request.method \in {"POST", "DELETE"}
        /\ effect # "logout" => Limited(request)
        /\ effect \notin {"create", "login"} => request.signedIn

Meant(status) ==
    /\ status \in Statuses \ {204, 405, 429}
    /\ status = 403 => request.path \notin AdminAPI
    /\ status \in 400 .. 499 => effect = "none"

Unwritten == \A w \in DOMAIN wrote : wrote[w] = 0

OnTheWayDown ==
    mode = "down" => at \in 1 .. 6 /\ Unwritten /\ Untouched /\ Behind(at - 1)
Inside ==
    mode \in {"handle", "respond"} =>
        /\ at = 6 /\ Unwritten /\ logged = 0 /\ Behind(5) /\ Owed
        /\ IF mode = "handle" THEN effect = "none" ELSE Meant(reply)
TornDown ==
    mode = "panic" =>
        /\ at = 5 /\ logged = 0 /\ Behind(5) /\ Owed
        /\ Unwritten \/ (Meant(reply) /\ \A w \in DOMAIN wrote : wrote[w] = reply)

\* Turned back at layer n + 1, or answered inside of logging.
TurnedBack(n, status) ==
    at <= n /\ ~used /\ ~traced /\ Untouched /\ wrote.net = status
OnTheWayUp ==
    mode \in {"up", "done"} =>
        \/ TurnedBack(0, 403) /\ request.path \in AdminAPI /\ ~readable
        \/ TurnedBack(1, 429) /\ ~readable
        \/ TurnedBack(2, 204) /\ readable /\ Allowed(request)
        \/ /\ at <= 5 /\ Behind(5) /\ Owed
           /\ wrote.net = wrote.logging
           /\ wrote.net = 405 \/ Meant(wrote.net)
           /\ wrote.net = 405 => effect = "none"
           /\ logged = IF at < 4 /\ traced THEN wrote.net ELSE 0
Arrived == mode = "done" => at = 0

IInv == TypeOK /\ OnTheWayDown /\ Inside /\ TornDown /\ OnTheWayUp /\ Arrived

=============================================================================
