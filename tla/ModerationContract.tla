------------------------- MODULE ModerationContract -------------------------
(***************************************************************************)
(* What the comment service promises to its callers, without mutex,        *)
(* statements or display IDs: every call takes effect at most once, in one *)
(* stroke, between the call and its return; a call that returns success    *)
(* has taken effect and reports the state its own effect produced; a call  *)
(* that fails may or may not have taken effect.  A deleted comment stays   *)
(* deleted and its ID is never handed out again.                           *)
(***************************************************************************)
EXTENDS Naturals

CONSTANTS
    Callers,        \* concurrent requests
    MaxId           \* largest comment ID

VARIABLES
    board,          \* what has become of each comment ID
    phase,          \* how far each call has got
    kind,           \* the operation a caller asked for
    subject,        \* the comment it is about, 0 before Create has one
    shown           \* the state of the comment its answer reports

vars == <<board, phase, kind, subject, shown>>

Ids == 1 .. MaxId
Kinds == {"create", "toggle", "delete", "get", "adminGet"}
Flipped(status) == IF status = "public" THEN "hidden" ELSE "public"

\* Who may see a comment: the public API only what is public.
VisibleTo(k) == IF k = "adminGet" THEN {"hidden", "public"} ELSE {"public"}

Init ==
    /\ board = [i \in Ids |-> "unused"]
    /\ phase = [c \in Callers |-> "idle"]
    /\ kind = [c \in Callers |-> "none"]
    /\ subject = [c \in Callers |-> 0]
    /\ shown = [c \in Callers |-> "nothing"]

Call(c, k, i) ==
    /\ phase[c] = "idle"
    /\ phase' = [phase EXCEPT ![c] = "called"]
    /\ kind' = [kind EXCEPT ![c] = k]
    /\ subject' = [subject EXCEPT ![c] = i]
    /\ UNCHANGED <<board, shown>>

\* The effect of call c: comment i, in a state of `before`, becomes `after`.
Effect(c, k, i, before, after) ==
    /\ phase[c] = "called"
    /\ kind[c] = k
    /\ board[i] \in before
    /\ board' = [board EXCEPT ![i] = after]
    /\ phase' = [phase EXCEPT ![c] = "took"]
    /\ shown' = [shown EXCEPT ![c] = after]

\* A new comment gets the lowest ID never used and is hidden.
Post(c, i) ==
    /\ Effect(c, "create", i, {"unused"}, "hidden")
    /\ \A j \in 1 .. (i - 1) : board[j] # "unused"
    /\ subject' = [subject EXCEPT ![c] = i]
    /\ UNCHANGED kind

Flip(c, i) ==
    /\ i = subject[c]
    /\ Effect(c, "toggle", i, {"hidden", "public"}, Flipped(board[i]))
    /\ UNCHANGED <<kind, subject>>

Remove(c, i) ==
    /\ i = subject[c]
    /\ Effect(c, "delete", i, {"hidden", "public"}, "gone")
    /\ UNCHANGED <<kind, subject>>

Look(c, k, i) ==
    /\ i = subject[c]
    /\ Effect(c, k, i, VisibleTo(k), board[i])
    /\ UNCHANGED <<kind, subject>>

Fail(c) ==
    /\ phase[c] \in {"called", "took"}
    /\ phase' = [phase EXCEPT ![c] = "failed"]
    /\ shown' = [shown EXCEPT ![c] = "nothing"]
    /\ UNCHANGED <<board, kind, subject>>

Return(c) ==
    /\ phase[c] \in {"took", "failed"}
    /\ phase' = [phase EXCEPT ![c] = "idle"]
    /\ kind' = [kind EXCEPT ![c] = "none"]
    /\ subject' = [subject EXCEPT ![c] = 0]
    /\ shown' = [shown EXCEPT ![c] = "nothing"]
    /\ UNCHANGED board

\* A crash forgets every call in progress and nothing else.
Restart ==
    /\ phase' = [c \in Callers |-> "idle"]
    /\ kind' = [c \in Callers |-> "none"]
    /\ subject' = [c \in Callers |-> 0]
    /\ shown' = [c \in Callers |-> "nothing"]
    /\ UNCHANGED board

Next ==
    \/ \E c \in Callers :
        \/ Call(c, "create", 0)
        \/ \E k \in Kinds \ {"create"}, i \in Ids : Call(c, k, i)
        \/ \E i \in Ids :
            \/ Post(c, i)
            \/ Flip(c, i)
            \/ Remove(c, i)
            \/ \E k \in {"get", "adminGet"} : Look(c, k, i)
        \/ Fail(c)
        \/ Return(c)
    \/ Restart

Spec == Init /\ [][Next]_vars

=============================================================================
