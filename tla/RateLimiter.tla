----------------------------- MODULE RateLimiter -----------------------------
(***************************************************************************)
(* RateLimitMiddleware (saturnix_harness/dashboard/security.py): a queue   *)
(* of the wall-clock times at which each client's requests were admitted.  *)
(* time.time() follows the machine's clock, which may be set forward or    *)
(* back between two requests.  dispatch() does not suspend before it has   *)
(* decided, so a decision is one step.                                     *)
(***************************************************************************)
EXTENDS Integers, Sequences

CONSTANTS
    Client,     \* request.client.host
    Limit,      \* saturnix_rate_limit_per_minute
    Window,     \* window_seconds
    Correction, \* by how much the machine's clock may be set at once
    MaxTime     \* bound: the last instant considered, and how far the clock is off

ASSUME LimiterAssumption ==
    /\ Limit \in Nat /\ Window \in Nat /\ MaxTime \in Nat
    /\ Correction \subseteq Int

VARIABLES
    real,       \* the time that has passed
    clock,      \* what time.time() returns
    early,      \* history: how far the clock was set forward in all
    late,       \* history: how far the clock was set back in all
    bucket,     \* self.requests
    log,        \* history: when requests were admitted, in real time
    verdict     \* history: what the client's last request was told

limiterVars == <<real, clock, early, late, bucket, log, verdict>>

LimiterTypeOK ==
    /\ real \in Nat /\ clock \in Int /\ early \in Nat /\ late \in Nat
    /\ bucket \in [Client -> Seq(Int)]
    /\ log \in [Client -> Seq(Nat)]
    /\ verdict \in [Client -> {"none", "admitted", "refused"}]

-----------------------------------------------------------------------------
LimiterInit ==
    /\ real = 0 /\ clock = 0 /\ early = 0 /\ late = 0
    /\ bucket = [c \in Client |-> <<>>]
    /\ log = [c \in Client |-> <<>>]
    /\ verdict = [c \in Client |-> "none"]

Tick ==
    /\ real < MaxTime
    /\ real' = real + 1 /\ clock' = clock + 1
    /\ UNCHANGED <<early, late, bucket, log, verdict>>

\* The machine's clock is set by d.
SetClock(d) ==
    /\ early + late < MaxTime
    /\ clock' = clock + d
    /\ IF d > 0 THEN early' = early + d /\ late' = late
                ELSE early' = early /\ late' = late - d
    /\ UNCHANGED <<real, bucket, log, verdict>>

Expired(entry) == clock - entry > Window

\* The loop has dropped n entries from the left of the queue.
Dropped(entries, n) ==
    /\ \A k \in 1..n : Expired(entries[k])
    /\ n < Len(entries) => ~Expired(entries[n + 1])

Without(entries, n) == SubSeq(entries, n + 1, Len(entries))

\* Mutant: the limit is tested with > instead of >=.
AdmitOneMore(c) ==
    /\ \E n \in 0..Len(bucket[c]) :
         /\ Dropped(bucket[c], n)
         /\ Len(bucket[c]) - n <= Limit
         /\ bucket' = [bucket EXCEPT ![c] = Append(Without(@, n), clock)]
    /\ log' = [log EXCEPT ![c] = Append(@, real)]
    /\ verdict' = [verdict EXCEPT ![c] = "admitted"]
    /\ UNCHANGED <<real, clock, early, late>>

Admit(c) ==
    /\ \E n \in 0..Len(bucket[c]) :
         /\ Dropped(bucket[c], n)
         /\ Len(bucket[c]) - n < Limit
         /\ bucket' = [bucket EXCEPT ![c] = Append(Without(@, n), clock)]
    /\ log' = [log EXCEPT ![c] = Append(@, real)]
    /\ verdict' = [verdict EXCEPT ![c] = "admitted"]
    /\ UNCHANGED <<real, clock, early, late>>

\* Mutant: a refused request is queued like any other.
RefuseCounted(c) ==
    /\ \E n \in 0..Len(bucket[c]) :
         /\ Dropped(bucket[c], n)
         /\ Len(bucket[c]) - n >= Limit
         /\ bucket' = [bucket EXCEPT ![c] = Append(Without(@, n), clock)]
    /\ verdict' = [verdict EXCEPT ![c] = "refused"]
    /\ UNCHANGED <<real, clock, early, late, log>>

\* HTTPException 429.
Refuse(c) ==
    /\ \E n \in 0..Len(bucket[c]) :
         /\ Dropped(bucket[c], n)
         /\ Len(bucket[c]) - n >= Limit
         /\ bucket' = [bucket EXCEPT ![c] = Without(@, n)]
    /\ verdict' = [verdict EXCEPT ![c] = "refused"]
    /\ UNCHANGED <<real, clock, early, late, log>>

\* The queues are in the memory of the API process.
ForgetRequests ==
    /\ bucket' = [c \in Client |-> <<>>]
    /\ log' = [c \in Client |-> <<>>]
    /\ verdict' = [c \in Client |-> "none"]
    /\ UNCHANGED <<real, clock, early, late>>

TimePasses == Tick \/ \E d \in Correction : SetClock(d)

LimiterNext == TimePasses \/ ForgetRequests \/ \E c \in Client : Admit(c) \/ Refuse(c)

LimiterSpec == LimiterInit /\ [][LimiterNext]_limiterVars

-----------------------------------------------------------------------------
(* Properties *)

\* However the clock was set, Limit + 1 requests of a client are admitted over
\* more than Window seconds, less what the clock was set forward.
RateBound ==
    \A c \in Client : \A i \in DOMAIN log[c] :
        i + Limit \in DOMAIN log[c] => log[c][i + Limit] - log[c][i] > Window - early

\* The limiter is the window of requests per client that its limit describes,
\* no client is refused while it has used less than the limit of the window.
Admissions == INSTANCE AdmissionWindow WITH
    Client <- Client, Limit <- Limit, Window <- Window,
    now <- real, early <- early, late <- late, log <- log, verdict <- verdict

WindowSpec == Admissions!Spec
================================================================================
