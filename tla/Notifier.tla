------------------------------ MODULE Notifier ------------------------------
(***************************************************************************)
(* internal/service/email_notifier.go: the SMTP dialogue of the goroutine  *)
(* that comment_service.go starts for every created comment.  The server   *)
(* may answer, refuse, break the connection or stay silent at every step.  *)
(* The goroutine's 30 s context reaches the dialer only, so that nothing   *)
(* but the server ends a dialogue that was begun.                          *)
(***************************************************************************)

CONSTANT Comments       \* created comments: one notification goroutine each

VARIABLES
    smtp,       \* settings: SMTP_HOST, and whether a login is set
    stage,      \* the step of Send each goroutine is at
    open,       \* its connection is open
    offered,    \* the server announced STARTTLS
    secure,     \* the connection is encrypted
    delivered,  \* history: the server took the message
    outcome     \* what Send returned

mails == <<stage, open, offered, secure, delivered, outcome>>

Hosts == {"unset", "local", "remote"}
Stages == {"none", "dial", "hello", "starttls", "auth", "mail", "rcpt", "data",
           "body", "quit", "over"}

NotifierTypeOK ==
    /\ smtp \in [host : Hosts, login : BOOLEAN]
    /\ stage \in [Comments -> Stages]
    /\ open \in [Comments -> BOOLEAN]
    /\ offered \in [Comments -> BOOLEAN]
    /\ secure \in [Comments -> BOOLEAN]
    /\ delivered \in [Comments -> BOOLEAN]
    /\ outcome \in [Comments -> {"none", "sent", "failed"}]

NotifierInit ==
    /\ smtp \in [host : Hosts, login : BOOLEAN]
    /\ stage = [c \in Comments |-> "none"]
    /\ open = [c \in Comments |-> FALSE]
    /\ offered = [c \in Comments |-> FALSE]
    /\ secure = [c \in Comments |-> FALSE]
    /\ delivered = [c \in Comments |-> FALSE]
    /\ outcome = [c \in Comments |-> "none"]

-----------------------------------------------------------------------------

\* The step `from` of c's dialogue went well and `to` is next.
Proceed(c, from, to) ==
    /\ stage[c] = from
    /\ stage' = [stage EXCEPT ![c] = to]

\* Send returns; the deferred Close runs.
End(c, how) ==
    /\ stage' = [stage EXCEPT ![c] = "over"]
    /\ outcome' = [outcome EXCEPT ![c] = how]
    /\ open' = [open EXCEPT ![c] = FALSE]
    /\ UNCHANGED <<offered, secure>>

\* What follows the greeting and the encryption: the login, if there is one.
Login == IF smtp.login THEN "auth" ELSE "mail"

\* An unset SMTP_HOST makes ":587", which dials this machine.
Dial(c) ==
    /\ Proceed(c, "dial", "hello")
    /\ open' = [open EXCEPT ![c] = TRUE]
    /\ UNCHANGED <<offered, secure, delivered, outcome>>

\* Refused, or the context's 30 s are over.
DialFails(c) ==
    /\ stage[c] = "dial"
    /\ End(c, "failed")
    /\ UNCHANGED delivered

\* NewClient reads the greeting, Extension says EHLO (variant: STARTTLS is not
\* asked for).
HelloNoExtension(c) ==
    /\ Proceed(c, "hello", Login)
    /\ \E o \in BOOLEAN : offered' = [offered EXCEPT ![c] = o]
    /\ UNCHANGED <<open, secure, delivered, outcome>>
Hello(c) ==
    /\ \E o \in BOOLEAN :
        /\ offered' = [offered EXCEPT ![c] = o]
        /\ Proceed(c, "hello", IF o THEN "starttls" ELSE Login)
    /\ UNCHANGED <<open, secure, delivered, outcome>>

\* Without a host name there is none to check the certificate for.
StartTLS(c) ==
    /\ smtp.host # "unset"
    /\ Proceed(c, "starttls", Login)
    /\ secure' = [secure EXCEPT ![c] = TRUE]
    /\ UNCHANGED <<open, offered, delivered, outcome>>

\* smtp.PlainAuth sends a password over an encrypted or a local connection.
Auth(c) ==
    /\ secure[c] \/ smtp.host = "local"
    /\ Proceed(c, "auth", "mail")
    /\ UNCHANGED <<open, offered, secure, delivered, outcome>>

\* MAIL FROM, RCPT TO, DATA.
Command(c) ==
    /\ \/ Proceed(c, "mail", "rcpt")
       \/ Proceed(c, "rcpt", "data")
       \/ Proceed(c, "data", "body")
    /\ UNCHANGED <<open, offered, secure, delivered, outcome>>

\* Write and Close: the server answers the final dot once it took the message.
Body(c) ==
    /\ Proceed(c, "body", "quit")
    /\ delivered' = [delivered EXCEPT ![c] = TRUE]
    /\ UNCHANGED <<open, offered, secure, outcome>>

\* The result of QUIT is the result of Send.
Quit(c) ==
    /\ stage[c] = "quit"
    /\ End(c, "sent")
    /\ UNCHANGED delivered

\* An error answer, a broken connection, a rejected certificate or an
\* unencrypted login: Send returns at once.  The server may have taken the
\* message although its answer was lost (variant: the error of the body's
\* Close is ignored and QUIT follows).
FaultBodyIgnored(c) ==
    \/ /\ stage[c] \notin {"none", "dial", "body", "over"}
       /\ End(c, "failed")
       /\ UNCHANGED delivered
    \/ /\ Proceed(c, "body", "quit")
       /\ UNCHANGED <<open, offered, secure, delivered, outcome>>
Fault(c) ==
    /\ stage[c] \notin {"none", "dial", "over"}
    /\ End(c, "failed")
    /\ \/ UNCHANGED delivered
       \/ stage[c] = "body" /\ delivered' = [delivered EXCEPT ![c] = TRUE]

Send(c) ==
    /\ \/ Dial(c) \/ DialFails(c) \/ Hello(c) \/ StartTLS(c) \/ Auth(c)
       \/ Command(c) \/ Body(c) \/ Quit(c) \/ Fault(c)
    /\ UNCHANGED smtp

-----------------------------------------------------------------------------
(* Properties *)

\* A notification that is not reported as failed was taken by the mail server:
\* no error on the way, the one of the final dot included, is lost.
SentWasDelivered == \A c \in Comments : outcome[c] = "sent" => delivered[c]

\* A server that offers encryption is never sent the login or the message in
\* clear, whatever fails: there is no way back from a failed STARTTLS.
NoDowngrade ==
    \A c \in Comments :
        offered[c] /\ (delivered[c] \/ stage[c] \in {"mail", "rcpt", "data", "body"})
            => secure[c]

\* A goroutine that ended has no connection left, on whichever step it failed.
NoConnectionLeft == \A c \in Comments : stage[c] = "over" => ~open[c]

\* Inductive: what each step of the dialogue owes to the ones before it.
NotifierInv ==
    /\ \A c \in Comments :
        /\ stage[c] \in {"none", "dial", "hello", "starttls"} => ~delivered[c]
        /\ stage[c] = "quit" => delivered[c]
        /\ offered[c] /\ stage[c] \in {"auth", "quit"} => secure[c]
    /\ SentWasDelivered /\ NoDowngrade /\ NoConnectionLeft

=============================================================================
