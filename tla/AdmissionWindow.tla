---------------------------- MODULE AdmissionWindow ----------------------------
(***************************************************************************)
(* What "requests per minute" promises: within any window of time a client *)
(* is admitted at most Limit times, and it is refused only when the last   *)
(* window is full.  The window is as exact as the clock it is measured     *)
(* with: early and late say how far that clock has been set forward and    *)
(* back.                                                                   *)
(***************************************************************************)
EXTENDS Integers, Sequences

CONSTANTS Client, Limit, Window

VARIABLES
    now,        \* the real time
    early,      \* how far the clock was set forward in all
    late,       \* how far the clock was set back in all
    log,        \* for each client, when its requests were admitted
    verdict     \* what the client's last request was told

vars == <<now, early, late, log, verdict>>

\* The Limit latest admissions all lie within the last w seconds.
Full(c, w) ==
    \/ Limit = 0
    \/ /\ Len(log[c]) >= Limit
       /\ now - log[c][Len(log[c]) - Limit + 1] <= w

Init ==
    /\ now \in Nat /\ early = 0 /\ late = 0
    /\ log = [c \in Client |-> <<>>]
    /\ verdict = [c \in Client |-> "none"]

Pass ==
    /\ now' >= now /\ early' >= early /\ late' >= late
    /\ UNCHANGED <<log, verdict>>

Admit(c) ==
    /\ ~Full(c, Window - early)
    /\ log' = [log EXCEPT ![c] = Append(@, now)]
    /\ verdict' = [verdict EXCEPT ![c] = "admitted"]
    /\ UNCHANGED <<now, early, late>>

Refuse(c) ==
    /\ Full(c, Window + late)
    /\ verdict' = [verdict EXCEPT ![c] = "refused"]
    /\ UNCHANGED <<now, early, late, log>>

\* The process starts again and remembers nothing.
Forget ==
    /\ log' = [c \in Client |-> <<>>]
    /\ verdict' = [c \in Client |-> "none"]
    /\ UNCHANGED <<now, early, late>>

Next == Pass \/ Forget \/ \E c \in Client : Admit(c) \/ Refuse(c)

Spec == Init /\ [][Next]_vars
================================================================================
