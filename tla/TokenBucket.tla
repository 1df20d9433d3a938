---------------------------- MODULE TokenBucket ----------------------------
(***************************************************************************)
(* What the rate limiter promises: every client has one bucket of Burst    *)
(* tokens for ever; it regains one per unit of time, a request takes one,  *)
(* and a request is refused only when the bucket is empty.                 *)
(***************************************************************************)
EXTENDS Naturals

CONSTANTS Clients, Burst, MaxTime

VARIABLES
    now,
    credit,     \* tokens in each client's bucket
    opened,     \* when the observed window began
    admitted,   \* requests admitted per client since then
    refusals    \* parity of the number of refusals per client

vars == <<now, credit, opened, admitted, refusals>>

Smaller(a, b) == IF a <= b THEN a ELSE b

Init ==
    /\ now = 0
    /\ credit = [c \in Clients |-> Burst]
    /\ opened = 0
    /\ admitted = [c \in Clients |-> 0]
    /\ refusals = [c \in Clients |-> FALSE]

Admit(c) ==
    /\ credit[c] > 0
    /\ credit' = [credit EXCEPT ![c] = @ - 1]
    /\ admitted' = [admitted EXCEPT ![c] = @ + 1]
    /\ UNCHANGED <<now, opened, refusals>>

Refuse(c) ==
    /\ credit[c] = 0
    /\ refusals' = [refusals EXCEPT ![c] = ~@]
    /\ UNCHANGED <<now, credit, opened, admitted>>

Tick ==
    /\ now < MaxTime
    /\ now' = now + 1
    /\ credit' = [c \in Clients |-> Smaller(Burst, credit[c] + 1)]
    /\ UNCHANGED <<opened, admitted, refusals>>

\* An observer begins to count, at any moment.
OpenWindow ==
    /\ opened' = now
    /\ admitted' = [c \in Clients |-> 0]
    /\ UNCHANGED <<now, credit, refusals>>

Next == (\E c \in Clients : Admit(c) \/ Refuse(c)) \/ Tick \/ OpenWindow

Spec == Init /\ [][Next]_vars

=============================================================================
