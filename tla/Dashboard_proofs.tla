--------------------------- MODULE Dashboard_proofs ---------------------------
(***************************************************************************)
(* Proofs about the rate limiter and the dashboard behind it, for every    *)
(* limit, window, correction of the clock, set of requests, settings and   *)
(* clients.                                                                *)
(*                                                                         *)
(* The limiter's invariant relates one client's queue b to the history s   *)
(* of its admissions; it is kept by the passing of time, by dropping       *)
(* expired entries and by appending a new one.  The dashboard's is about   *)
(* one request at a time: while it has no answer it has written nothing,   *)
(* and it has started a goal exactly when it is running.                   *)
(***************************************************************************)
EXTENDS Dashboard, TLAPS

-----------------------------------------------------------------------------
(* The rate limiter *)

USE LimiterAssumption

\* The queue holds the latest admissions, at most Limit of them.  Since each of
\* them the clock has run as long as the real time, but for its corrections;
\* whatever has left the queue is older than the window.
Agree(s, b, now, clk, e, l) ==
    /\ Len(b) <= Len(s)
    /\ Len(b) <= Limit
    /\ \A k \in 1..Len(b) :
         /\ (clk - b[k]) - (now - s[Len(s) - Len(b) + k]) <= e
         /\ (clk - b[k]) - (now - s[Len(s) - Len(b) + k]) + l >= 0
    /\ \A i \in 1..(Len(s) - Len(b)) : now - s[i] > Window - e

Bounded(s, e) ==
    \A i \in 1..Len(s) : i + Limit <= Len(s) => s[i + Limit] - s[i] > Window - e

LimiterInv ==
    /\ LimiterTypeOK
    /\ \A c \in Client : /\ Agree(log[c], bucket[c], real, clock, early, late)
                         /\ Bounded(log[c], early)

-----------------------------------------------------------------------------
(* One queue and its history *)

LEMMA WithoutProperties ==
    ASSUME NEW b \in Seq(Int), NEW n \in 0..Len(b)
    PROVE  /\ Without(b, n) \in Seq(Int)
           /\ Len(Without(b, n)) = Len(b) - n
           /\ \A k \in 1..(Len(b) - n) : Without(b, n)[k] = b[n + k]
BY DEF Without

LEMMA DriftArithmetic ==
    ASSUME NEW x \in Int, NEW y \in Int, NEW now \in Int, NEW clk \in Int, NEW e \in Int, NEW l \in Int,
           NEW dr \in Int, NEW dc \in Int, NEW de \in Int, NEW dl \in Int,
           dc - dr <= de, dc - dr + dl >= 0,
           (clk - x) - (now - y) <= e, (clk - x) - (now - y) + l >= 0
    PROVE  /\ ((clk + dc) - x) - ((now + dr) - y) <= e + de
           /\ ((clk + dc) - x) - ((now + dr) - y) + (l + dl) >= 0
OBVIOUS

LEMMA ExpiryArithmetic ==
    ASSUME NEW x \in Int, NEW y \in Int, NEW now \in Int, NEW clk \in Int, NEW e \in Int, NEW w \in Int,
           (clk - x) - (now - y) <= e, clk - x > w
    PROVE  now - y > w - e
OBVIOUS

LEMMA ElementType ==
    ASSUME NEW S, NEW q \in Seq(S), NEW i \in 1..Len(q)
    PROVE  q[i] \in S
OBVIOUS

LEMMA TimeAgrees ==
    ASSUME NEW s \in Seq(Nat), NEW b \in Seq(Int),
           NEW now \in Int, NEW clk \in Int, NEW e \in Int, NEW l \in Int,
           NEW dr \in Int, NEW dc \in Int, NEW de \in Int, NEW dl \in Int,
           dr >= 0, de >= 0, dl >= 0, dc - dr <= de, dc - dr + dl >= 0,
           Agree(s, b, now, clk, e, l), Bounded(s, e)
    PROVE  /\ Agree(s, b, now + dr, clk + dc, e + de, l + dl)
           /\ Bounded(s, e + de)
<1>1. ASSUME NEW k \in 1..Len(b)
      PROVE  /\ ((clk + dc) - b[k]) - ((now + dr) - s[Len(s) - Len(b) + k]) <= e + de
             /\ ((clk + dc) - b[k]) - ((now + dr) - s[Len(s) - Len(b) + k]) + (l + dl) >= 0
  <2>1. b[k] \in Int /\ s[Len(s) - Len(b) + k] \in Int
    <3>1. Len(s) \in Nat /\ Len(b) \in Nat /\ Len(b) <= Len(s)
      BY DEF Agree
    <3>2. Len(s) - Len(b) + k \in 1..Len(s)
      BY <3>1
    <3>3. s[Len(s) - Len(b) + k] \in Nat /\ b[k] \in Int
      BY <3>2, ElementType
    <3> QED BY <3>3
  <2>2. /\ (clk - b[k]) - (now - s[Len(s) - Len(b) + k]) <= e
        /\ (clk - b[k]) - (now - s[Len(s) - Len(b) + k]) + l >= 0
    BY DEF Agree
  <2> QED BY <2>1, <2>2, DriftArithmetic
<1>2. ASSUME NEW i \in 1..(Len(s) - Len(b))
      PROVE  (now + dr) - s[i] > Window - (e + de)
  <2>1. s[i] \in Int /\ now - s[i] > Window - e
    BY DEF Agree
  <2> QED BY <2>1
<1>3. ASSUME NEW i \in 1..Len(s), i + Limit <= Len(s)
      PROVE  s[i + Limit] - s[i] > Window - (e + de)
  <2>1. s[i] \in Int /\ s[i + Limit] \in Int /\ s[i + Limit] - s[i] > Window - e
    BY <1>3 DEF Bounded
  <2> QED BY <2>1
<1> QED BY <1>1, <1>2, <1>3 DEF Agree, Bounded

\* An admission that was in the queue, and is not once n entries are dropped, is
\* that of one of the n.
LEMMA DroppedPosition ==
    ASSUME NEW ls \in Nat, NEW lb \in Nat, lb <= ls, NEW n \in 0..lb,
           NEW i \in 1..(ls - (lb - n)), ~(i <= ls - lb)
    PROVE  \E k \in 1..n : k \in 1..lb /\ ls - lb + k = i /\ i \in 1..ls
<1> DEFINE m == i - (ls - lb)
<1>1. m \in 1..n /\ m \in 1..lb /\ ls - lb + m = i /\ i \in 1..ls
  OBVIOUS
<1> QED BY <1>1

LEMMA DropAgrees ==
    ASSUME NEW s \in Seq(Nat), NEW b \in Seq(Int),
           NEW now \in Int, NEW clk \in Int, NEW e \in Int, NEW l \in Int,
           NEW n \in 0..Len(b), \A k \in 1..n : clk - b[k] > Window,
           Agree(s, b, now, clk, e, l)
    PROVE  Agree(s, Without(b, n), now, clk, e, l)
<1> DEFINE w == Without(b, n)
<1>1. w \in Seq(Int) /\ Len(w) = Len(b) - n /\ \A k \in 1..(Len(b) - n) : w[k] = b[n + k]
  BY WithoutProperties
<1> HIDE DEF w
<1>2. Len(w) <= Len(s) /\ Len(w) <= Limit
  BY <1>1 DEF Agree
<1>3. ASSUME NEW k \in 1..Len(w)
      PROVE  /\ (clk - w[k]) - (now - s[Len(s) - Len(w) + k]) <= e
             /\ (clk - w[k]) - (now - s[Len(s) - Len(w) + k]) + l >= 0
  <2>1. n + k \in 1..Len(b) /\ w[k] = b[n + k] /\ Len(s) - Len(w) + k = Len(s) - Len(b) + (n + k)
    BY <1>1
  <2> QED BY <2>1 DEF Agree
<1>4. ASSUME NEW i \in 1..(Len(s) - Len(w))
      PROVE  now - s[i] > Window - e
  <2>1. CASE i <= Len(s) - Len(b)
    BY <2>1 DEF Agree
  <2>2. CASE ~(i <= Len(s) - Len(b))
    <3>1. PICK k \in 1..n : k \in 1..Len(b) /\ Len(s) - Len(b) + k = i /\ i \in 1..Len(s)
      <4>1. Len(s) \in Nat /\ Len(b) \in Nat /\ Len(b) <= Len(s)
        BY DEF Agree
      <4>2. Len(s) - Len(w) = Len(s) - (Len(b) - n)
        BY <1>1, <4>1
      <4>3. i \in 1..(Len(s) - (Len(b) - n))
        BY <4>2
      <4> QED BY <2>2, <4>1, <4>3, DroppedPosition
    <3>2. b[k] \in Int /\ s[i] \in Int
      <4>1. b[k] \in Int
        BY <3>1, ElementType
      <4>2. s[i] \in Nat
        BY <3>1, ElementType
      <4> QED BY <4>1, <4>2
    <3>3. (clk - b[k]) - (now - s[i]) <= e
      BY <3>1 DEF Agree
    <3>4. clk - b[k] > Window
      BY <3>1
    <3>5. Window \in Int
      OBVIOUS
    <3> QED BY <3>2, <3>3, <3>4, <3>5, ExpiryArithmetic
  <2> QED BY <2>1, <2>2
<1> QED BY <1>2, <1>3, <1>4 DEF Agree, w

LEMMA AppendAgrees ==
    ASSUME NEW s \in Seq(Nat), NEW b \in Seq(Int),
           NEW now \in Nat, NEW clk \in Int, NEW e \in Nat, NEW l \in Nat,
           Agree(s, b, now, clk, e, l), Bounded(s, e), Len(b) < Limit
    PROVE  /\ Agree(Append(s, now), Append(b, clk), now, clk, e, l)
           /\ Bounded(Append(s, now), e)
<1> DEFINE t == Append(s, now)
           a == Append(b, clk)
<1>1. /\ Len(t) = Len(s) + 1 /\ t[Len(s) + 1] = now /\ \A i \in 1..Len(s) : t[i] = s[i]
      /\ Len(a) = Len(b) + 1 /\ a[Len(b) + 1] = clk /\ \A k \in 1..Len(b) : a[k] = b[k]
  OBVIOUS
<1> HIDE DEF t, a
<1>2. Len(s) \in Nat /\ Len(b) \in Nat /\ Len(b) <= Len(s)
  BY DEF Agree
<1>3. ASSUME NEW k \in 1..Len(a)
      PROVE  /\ (clk - a[k]) - (now - t[Len(t) - Len(a) + k]) <= e
             /\ (clk - a[k]) - (now - t[Len(t) - Len(a) + k]) + l >= 0
  <2>1. Len(t) - Len(a) + k = Len(s) - Len(b) + k
    BY <1>1, <1>2
  <2>2. CASE k \in 1..Len(b)
    <3>1. Len(s) - Len(b) + k \in 1..Len(s)
      BY <1>2, <2>2
    <3> QED BY <1>1, <2>1, <2>2, <3>1 DEF Agree
  <2>3. CASE k = Len(b) + 1
    <3>1. a[k] = clk /\ t[Len(t) - Len(a) + k] = now
      BY <1>1, <1>2, <2>1, <2>3
    <3> QED BY <3>1
  <2>4. k \in 1..Len(b) \/ k = Len(b) + 1
    BY <1>1, <1>2
  <2> QED BY <2>2, <2>3, <2>4
<1>4. ASSUME NEW i \in 1..(Len(t) - Len(a))
      PROVE  now - t[i] > Window - e
  <2>1. i \in 1..(Len(s) - Len(b)) /\ i \in 1..Len(s)
    BY <1>1, <1>2
  <2> QED BY <1>1, <2>1 DEF Agree
<1>5. ASSUME NEW i \in 1..Len(t), i + Limit <= Len(t)
      PROVE  t[i + Limit] - t[i] > Window - e
  <2>1. i \in 1..Len(s) /\ i + Limit \in 1..(Len(s) + 1)
    BY <1>1, <1>2, <1>5
  <2>2. CASE i + Limit \in 1..Len(s)
    BY <1>1, <2>1, <2>2 DEF Bounded
  <2>3. CASE i + Limit = Len(s) + 1
    <3>1. i \in 1..(Len(t) - Len(a))
      BY <1>1, <1>2, <2>1, <2>3
    <3> QED BY <1>1, <1>4, <2>1, <2>3, <3>1
  <2>4. i + Limit \in 1..Len(s) \/ i + Limit = Len(s) + 1
    <3>1. PICK j \in Int : j = i + Limit
      BY <1>2, <2>1
    <3>2. j \in 1..(Len(s) + 1)
      BY <2>1, <3>1
    <3>3. j \in 1..Len(s) \/ j = Len(s) + 1
      BY <1>2, <3>2
    <3> QED BY <3>1, <3>3
  <2> QED BY <2>2, <2>3, <2>4
<1>6. Len(a) <= Len(t) /\ Len(a) <= Limit
  BY <1>1, <1>2
<1> QED BY <1>3, <1>4, <1>5, <1>6 DEF Agree, Bounded, t, a

-----------------------------------------------------------------------------
(* The limiter's invariant *)

LEMMA InvImpliesBound == LimiterInv => RateBound
<1> SUFFICES ASSUME LimiterInv, NEW c \in Client, NEW i \in DOMAIN log[c], i + Limit \in DOMAIN log[c]
             PROVE  log[c][i + Limit] - log[c][i] > Window - early
  BY DEF RateBound
<1>1. log[c] \in Seq(Nat) /\ Bounded(log[c], early)
  BY DEF LimiterInv, LimiterTypeOK
<1>2. DOMAIN log[c] = 1..Len(log[c]) /\ Len(log[c]) \in Nat
  BY <1>1
<1>3. i \in 1..Len(log[c]) /\ i + Limit <= Len(log[c])
  BY <1>2
<1> QED BY <1>1, <1>3 DEF Bounded

LEMMA InitLimiterInv == LimiterInit => LimiterInv
BY DEF LimiterInit, LimiterInv, LimiterTypeOK, Agree, Bounded

\* Time and corrections move every bound in step.
LEMMA TimeKeepsInv ==
    ASSUME LimiterInv, TimePasses
    PROVE  LimiterInv'
<1>1. real \in Nat /\ clock \in Int /\ early \in Nat /\ late \in Nat
  BY DEF LimiterInv, LimiterTypeOK
<1>2. UNCHANGED <<bucket, log, verdict>>
  BY DEF TimePasses, Tick, SetClock
<1>3. PICK dr \in Int, dc \in Int, de \in Int, dl \in Int :
        /\ real' = real + dr /\ clock' = clock + dc /\ early' = early + de /\ late' = late + dl
        /\ dr >= 0 /\ de >= 0 /\ dl >= 0
        /\ dc - dr <= de /\ dc - dr + dl >= 0
  <2>1. CASE Tick
    <3>1. real' = real + 1 /\ clock' = clock + 1 /\ early' = early + 0 /\ late' = late + 0
      BY <1>1, <2>1 DEF Tick
    <3> QED BY <3>1
  <2>2. ASSUME NEW d \in Correction, SetClock(d), d > 0
        PROVE  /\ d \in Int
               /\ real' = real + 0 /\ clock' = clock + d /\ early' = early + d /\ late' = late + 0
    BY <1>1, <2>2 DEF SetClock
  <2>3. ASSUME NEW d \in Correction, SetClock(d), ~(d > 0)
        PROVE  /\ d \in Int /\ 0 - d \in Int /\ 0 - d >= 0
               /\ real' = real + 0 /\ clock' = clock + d
               /\ early' = early + 0 /\ late' = late + (0 - d)
    BY <1>1, <2>3 DEF SetClock
  <2> QED BY <2>1, <2>2, <2>3 DEF TimePasses
<1>4. LimiterTypeOK'
  <2>1. real' \in Nat /\ clock' \in Int /\ early' \in Nat /\ late' \in Nat
    BY <1>1, <1>3
  <2> QED BY <1>2, <2>1 DEF LimiterInv, LimiterTypeOK
<1>5. ASSUME NEW c \in Client
      PROVE  /\ Agree(log[c], bucket[c], real + dr, clock + dc, early + de, late + dl)
             /\ Bounded(log[c], early + de)
  <2>1. /\ log[c] \in Seq(Nat) /\ bucket[c] \in Seq(Int)
        /\ Agree(log[c], bucket[c], real, clock, early, late) /\ Bounded(log[c], early)
    BY DEF LimiterInv, LimiterTypeOK
  <2>2. real \in Int /\ early \in Int /\ late \in Int
    BY <1>1
  <2> QED BY <1>1, <1>3, <2>1, <2>2, TimeAgrees
<1> QED BY <1>2, <1>3, <1>4, <1>5 DEF LimiterInv

LEMMA ForgetKeepsInv ==
    ASSUME LimiterInv, ForgetRequests
    PROVE  LimiterInv'
BY DEF ForgetRequests, LimiterInv, LimiterTypeOK, Agree, Bounded

LEMMA AdmitKeepsInv ==
    ASSUME LimiterInv, NEW c \in Client, Admit(c)
    PROVE  LimiterInv'
<1>1. PICK n \in 0..Len(bucket[c]) :
        /\ Dropped(bucket[c], n)
        /\ Len(bucket[c]) - n < Limit
        /\ bucket' = [bucket EXCEPT ![c] = Append(Without(bucket[c], n), clock)]
  BY DEF Admit
<1>2. /\ log' = [log EXCEPT ![c] = Append(log[c], real)]
      /\ verdict' = [verdict EXCEPT ![c] = "admitted"]
      /\ UNCHANGED <<real, clock, early, late>>
  BY DEF Admit
<1>3. /\ log[c] \in Seq(Nat) /\ bucket[c] \in Seq(Int)
      /\ real \in Nat /\ clock \in Int /\ early \in Nat /\ late \in Nat
      /\ Agree(log[c], bucket[c], real, clock, early, late) /\ Bounded(log[c], early)
  BY DEF LimiterInv, LimiterTypeOK
<1>4. /\ Without(bucket[c], n) \in Seq(Int)
      /\ Len(Without(bucket[c], n)) < Limit
      /\ Agree(log[c], Without(bucket[c], n), real, clock, early, late)
  <2>1. \A k \in 1..n : clock - bucket[c][k] > Window
    BY <1>1 DEF Dropped, Expired
  <2>2. real \in Int /\ early \in Int /\ late \in Int
    BY <1>3
  <2> QED BY <1>1, <1>3, <2>1, <2>2, WithoutProperties, DropAgrees
<1>5. /\ Agree(Append(log[c], real), Append(Without(bucket[c], n), clock), real, clock, early, late)
      /\ Bounded(Append(log[c], real), early)
  BY <1>3, <1>4, AppendAgrees
<1>6. LimiterTypeOK'
  BY <1>1, <1>2, <1>3, <1>4 DEF LimiterInv, LimiterTypeOK
<1>7. ASSUME NEW d \in Client
      PROVE  Agree(log[d], bucket[d], real, clock, early, late)' /\ Bounded(log[d], early)'
  <2>1. CASE d = c
    <3>1. log'[d] = Append(log[c], real) /\ bucket'[d] = Append(Without(bucket[c], n), clock)
      BY <1>1, <1>2, <2>1 DEF LimiterInv, LimiterTypeOK
    <3> QED BY <1>2, <1>5, <3>1
  <2>2. CASE d # c
    <3>1. log'[d] = log[d] /\ bucket'[d] = bucket[d]
      BY <1>1, <1>2, <2>2 DEF LimiterInv, LimiterTypeOK
    <3> QED BY <1>2, <3>1 DEF LimiterInv
  <2> QED BY <2>1, <2>2
<1> QED BY <1>6, <1>7 DEF LimiterInv

LEMMA RefuseKeepsInv ==
    ASSUME LimiterInv, NEW c \in Client, Refuse(c)
    PROVE  LimiterInv'
<1>1. PICK n \in 0..Len(bucket[c]) :
        /\ Dropped(bucket[c], n)
        /\ bucket' = [bucket EXCEPT ![c] = Without(bucket[c], n)]
  BY DEF Refuse
<1>2. /\ verdict' = [verdict EXCEPT ![c] = "refused"]
      /\ UNCHANGED <<real, clock, early, late, log>>
  BY DEF Refuse
<1>3. /\ log[c] \in Seq(Nat) /\ bucket[c] \in Seq(Int)
      /\ real \in Nat /\ clock \in Int /\ early \in Nat /\ late \in Nat
      /\ Agree(log[c], bucket[c], real, clock, early, late)
  BY DEF LimiterInv, LimiterTypeOK
<1>4. /\ Without(bucket[c], n) \in Seq(Int)
      /\ Agree(log[c], Without(bucket[c], n), real, clock, early, late)
  <2>1. \A k \in 1..n : clock - bucket[c][k] > Window
    BY <1>1 DEF Dropped, Expired
  <2>2. real \in Int /\ early \in Int /\ late \in Int
    BY <1>3
  <2> QED BY <1>1, <1>3, <2>1, <2>2, WithoutProperties, DropAgrees
<1>5. LimiterTypeOK'
  BY <1>1, <1>2, <1>4 DEF LimiterInv, LimiterTypeOK
<1>6. ASSUME NEW d \in Client
      PROVE  Agree(log[d], bucket[d], real, clock, early, late)' /\ Bounded(log[d], early)'
  <2>1. CASE d = c
    <3>1. bucket'[d] = Without(bucket[c], n)
      BY <1>1, <2>1 DEF LimiterInv, LimiterTypeOK
    <3> QED BY <1>2, <1>4, <2>1, <3>1 DEF LimiterInv
  <2>2. CASE d # c
    <3>1. bucket'[d] = bucket[d]
      BY <1>1, <2>2 DEF LimiterInv, LimiterTypeOK
    <3> QED BY <1>2, <3>1 DEF LimiterInv
  <2> QED BY <2>1, <2>2
<1> QED BY <1>5, <1>6 DEF LimiterInv

LEMMA NextKeepsInv == LimiterInv /\ [LimiterNext]_limiterVars => LimiterInv'
<1> SUFFICES ASSUME LimiterInv, [LimiterNext]_limiterVars PROVE LimiterInv'
  OBVIOUS
<1>1. CASE UNCHANGED limiterVars
  BY <1>1 DEF limiterVars, LimiterInv, LimiterTypeOK, Agree, Bounded
<1> QED BY <1>1, TimeKeepsInv, ForgetKeepsInv, AdmitKeepsInv, RefuseKeepsInv DEF LimiterNext

\* The types of the limiter's state and the invariant that carries its bound.
THEOREM LimiterInvariant == LimiterSpec => []LimiterInv
BY InitLimiterInv, NextKeepsInv, PTL DEF LimiterSpec

\* However the machine's clock is set, a client is admitted at most Limit times
\* in Window seconds less what the clock was set forward.
THEOREM LimiterBoundsRate == LimiterSpec => []RateBound
BY LimiterInvariant, InvImpliesBound, PTL

-----------------------------------------------------------------------------
(* The limiter implements the window of admissions *)

\* A queue with room leaves the window open.
LEMMA RoomMeansOpen ==
    ASSUME NEW s \in Seq(Nat), NEW b \in Seq(Int),
           NEW now \in Int, NEW clk \in Int, NEW e \in Int, NEW l \in Int,
           Agree(s, b, now, clk, e, l), Len(b) < Limit, Len(s) >= Limit
    PROVE  now - s[Len(s) - Limit + 1] > Window - e
<1>1. Len(s) \in Nat /\ Len(b) \in Nat
  OBVIOUS
<1>2. PICK i \in Int : i = Len(s) - Limit + 1
  <2>1. Len(s) - Limit + 1 \in Int
    BY <1>1
  <2> QED BY <2>1
<1>3. i \in 1..(Len(s) - Len(b))
  BY <1>1, <1>2
<1>4. now - s[i] > Window - e
  BY <1>3 DEF Agree
<1> QED BY <1>2, <1>4

LEMMA LateArithmetic ==
    ASSUME NEW x \in Int, NEW y \in Int, NEW now \in Int, NEW clk \in Int, NEW l \in Int, NEW w \in Int,
           (clk - x) - (now - y) + l >= 0, ~(clk - x > w)
    PROVE  now - y <= w + l
OBVIOUS

\* A full queue whose head has not expired means that the window is full.
LEMMA FullMeansBusy ==
    ASSUME NEW s \in Seq(Nat), NEW b \in Seq(Int),
           NEW now \in Int, NEW clk \in Int, NEW e \in Int, NEW l \in Int,
           Agree(s, b, now, clk, e, l), Len(b) = Limit, Limit # 0, ~(clk - b[1] > Window)
    PROVE  Len(s) >= Limit /\ now - s[Len(s) - Limit + 1] <= Window + l
<1>1. Len(s) \in Nat /\ Len(b) \in Nat /\ 1 \in 1..Len(b) /\ Len(s) >= Limit
  BY DEF Agree
<1>2. PICK i \in Int : i = Len(s) - Limit + 1
  <2>1. Len(s) - Limit + 1 \in Int
    BY <1>1
  <2> QED BY <2>1
<1>3. (clk - b[1]) - (now - s[i]) + l >= 0
  <2>1. Len(s) - Len(b) + 1 = i
    BY <1>2
  <2> QED BY <1>1, <2>1 DEF Agree
<1>4. i \in 1..Len(s)
  BY <1>1, <1>2
<1>5. PICK x \in Int, y \in Int, z \in Int : x = b[1] /\ y = s[i] /\ z = Window
  BY <1>1, <1>4
<1>6. (clk - x) - (now - y) + l >= 0 /\ ~(clk - x > z)
  BY <1>3, <1>5
<1>7. now - y <= z + l
  BY <1>6, LateArithmetic
<1> QED BY <1>1, <1>2, <1>5, <1>7

LEMMA InitRefines == LimiterInit => Admissions!Init
BY DEF LimiterInit, Admissions!Init

LEMMA AdmitRefines ==
    ASSUME LimiterInv, NEW c \in Client, Admit(c)
    PROVE  Admissions!Admit(c)
<1>1. PICK n \in 0..Len(bucket[c]) : Dropped(bucket[c], n) /\ Len(bucket[c]) - n < Limit
  BY DEF Admit
<1>2. /\ log[c] \in Seq(Nat) /\ bucket[c] \in Seq(Int)
      /\ real \in Int /\ clock \in Int /\ early \in Int /\ late \in Int
      /\ Agree(log[c], bucket[c], real, clock, early, late)
  BY DEF LimiterInv, LimiterTypeOK
<1>3. /\ Without(bucket[c], n) \in Seq(Int) /\ Len(Without(bucket[c], n)) < Limit
      /\ Agree(log[c], Without(bucket[c], n), real, clock, early, late)
  <2>1. \A k \in 1..n : clock - bucket[c][k] > Window
    BY <1>1 DEF Dropped, Expired
  <2> QED BY <1>1, <1>2, <2>1, WithoutProperties, DropAgrees
<1>4. Limit # 0
  BY <1>3
<1>5. CASE Len(log[c]) >= Limit
  <2>1. real - log[c][Len(log[c]) - Limit + 1] > Window - early
    BY <1>2, <1>3, <1>5, RoomMeansOpen
  <2>2. ~(real - log[c][Len(log[c]) - Limit + 1] <= Window - early)
    <3>1. Len(log[c]) - Limit + 1 \in 1..Len(log[c])
      BY <1>2, <1>4, <1>5
    <3>2. PICK y \in Int : y = log[c][Len(log[c]) - Limit + 1]
      BY <1>2, <3>1
    <3> QED BY <1>2, <2>1, <3>2
  <2> QED BY <1>4, <2>2 DEF Admit, Admissions!Admit, Admissions!Full
<1>6. CASE ~(Len(log[c]) >= Limit)
  BY <1>4, <1>6 DEF Admit, Admissions!Admit, Admissions!Full
<1> QED BY <1>5, <1>6

LEMMA RefuseRefines ==
    ASSUME LimiterInv, NEW c \in Client, Refuse(c)
    PROVE  Admissions!Refuse(c)
<1>1. PICK n \in 0..Len(bucket[c]) : Dropped(bucket[c], n) /\ Len(bucket[c]) - n >= Limit
  BY DEF Refuse
<1>2. /\ log[c] \in Seq(Nat) /\ bucket[c] \in Seq(Int)
      /\ real \in Int /\ clock \in Int /\ early \in Int /\ late \in Int
      /\ Agree(log[c], bucket[c], real, clock, early, late)
  BY DEF LimiterInv, LimiterTypeOK
<1>3. n = 0 /\ Len(bucket[c]) = Limit
  BY <1>1, <1>2 DEF Agree
<1>4. CASE Limit = 0
  BY <1>4 DEF Refuse, Admissions!Refuse, Admissions!Full
<1>5. CASE Limit # 0
  <2>1. ~(clock - bucket[c][1] > Window)
    BY <1>1, <1>3, <1>5 DEF Dropped, Expired
  <2>2. Len(log[c]) >= Limit /\ real - log[c][Len(log[c]) - Limit + 1] <= Window + late
    BY <1>2, <1>3, <1>5, <2>1, FullMeansBusy
  <2> QED BY <2>2 DEF Refuse, Admissions!Refuse, Admissions!Full
<1> QED BY <1>4, <1>5

LEMMA TimeRefines ==
    ASSUME LimiterInv, TimePasses
    PROVE  Admissions!Pass
<1>1. real \in Nat /\ clock \in Int /\ early \in Nat /\ late \in Nat
  BY DEF LimiterInv, LimiterTypeOK
<1>2. CASE Tick
  BY <1>1, <1>2 DEF Tick, Admissions!Pass
<1>3. ASSUME NEW d \in Correction, SetClock(d)
      PROVE  Admissions!Pass
  <2>1. d \in Int
    OBVIOUS
  <2>2. CASE d > 0
    BY <1>1, <1>3, <2>1, <2>2 DEF SetClock, Admissions!Pass
  <2>3. CASE ~(d > 0)
    <3>1. late - d \in Int /\ late - d >= late
      BY <1>1, <2>1, <2>3
    <3> QED BY <1>1, <1>3, <2>1, <2>3, <3>1 DEF SetClock, Admissions!Pass
  <2> QED BY <2>2, <2>3
<1> QED BY <1>2, <1>3 DEF TimePasses

LEMMA NextRefines ==
    LimiterInv /\ [LimiterNext]_limiterVars => [Admissions!Next]_(Admissions!vars)
<1> SUFFICES ASSUME LimiterInv, [LimiterNext]_limiterVars
             PROVE  [Admissions!Next]_(Admissions!vars)
  OBVIOUS
<1>1. CASE UNCHANGED limiterVars
  BY <1>1 DEF limiterVars, Admissions!vars
<1>2. CASE ForgetRequests
  BY <1>2 DEF ForgetRequests, Admissions!Next, Admissions!Forget
<1> QED
  BY <1>1, <1>2, TimeRefines, AdmitRefines, RefuseRefines DEF LimiterNext, Admissions!Next

\* The queues of the middleware implement the window that "requests per minute"
\* describes, exact up to what the clock was set forward or back.
THEOREM LimiterImplementsWindow == LimiterSpec => WindowSpec
BY LimiterInvariant, InitRefines, NextRefines, PTL DEF LimiterSpec, WindowSpec, Admissions!Spec

HIDE LimiterAssumption

-----------------------------------------------------------------------------
(* The dashboard *)

\* What the three properties say of a request and what came of it.
Fine(q, started, wrote, answer) ==
    /\ ((answer = "ok" /\ q.kind \notin {"view", "workflow"}) \/ answer = "blocked")
         => \E form \in Form : <<"audit", form>> \in wrote
    /\ started # "no" =>
         /\ ~cfg.lockdown /\ ~q.dry
         /\ q.kind = "execute" => q.approved /\ Obstacles(q) = {}
         /\ q.kind = "workflow" => q.approved \/ ~q.asks
    /\ answer \notin {"none", "ok", "raised"} =>
         /\ started = "no"
         /\ \A x \in wrote : x[1] = "audit"
    /\ q # NoRequest /\ q.text \in {"password", "password=x"}
         => \A x \in wrote : x[1] \in {"audit", "memory"} => x[2] # "clear"

SlotInv(s) ==
    /\ Fine(s.req, s.started, s.wrote, s.answer)
    /\ s.phase = "admitted" =>
         s.wrote = {} /\ s.answer = "none" /\ s.started = "no" /\ s.lockdown = cfg.lockdown
    /\ s.phase = "running" =>
         s.wrote = {} /\ s.answer = "none" /\ s.req.kind \in {"execute", "workflow"}

DashboardInv == TypeOK /\ \A r \in Slot : SlotInv(slot[r])

-----------------------------------------------------------------------------
(* The limiter inside the dashboard *)

LEMMA StepIsLimiterStep == [Next]_dashboardVars => [LimiterNext]_limiterVars
<1> SUFFICES ASSUME [Next]_dashboardVars PROVE [LimiterNext]_limiterVars
  OBVIOUS
<1>1. CASE UNCHANGED dashboardVars
  BY <1>1 DEF dashboardVars
<1>2. CASE ClockRuns
  BY <1>2 DEF ClockRuns, LimiterNext
<1>3. CASE Restart
  BY <1>3 DEF Restart, LimiterNext
<1>4. ASSUME NEW r \in Slot, NEW c \in Client, NEW q \in Requests[cfg.load], Arrive(r, c, q)
      PROVE  LimiterNext
  BY <1>4 DEF Arrive, LimiterNext
<1>5. ASSUME NEW r \in Slot, Handle(r) \/ GoalReturns(r) \/ GoalRaises(r)
      PROVE  UNCHANGED limiterVars
  BY <1>5 DEF Handle, Deny, ExecuteAgent, RunWorkflow, SaveMemory, SearchMemory, ScanInput,
              Lockdown, CreateAgent, StoreApiKey, View, GoalReturns, GoalRaises, Quiet
<1> QED BY <1>1, <1>2, <1>3, <1>4, <1>5 DEF Next

LEMMA DashboardRunsLimiter == Spec => LimiterSpec
<1>1. Init => LimiterInit
  BY DEF Init
<1> QED BY <1>1, StepIsLimiterStep, PTL DEF Spec, LimiterSpec

\* Whatever the handlers do, the requests they get respect the rate.
THEOREM DashboardBoundsRate == Spec => []RateBound
BY DashboardRunsLimiter, LimiterBoundsRate, PTL

\* The dashboard's admissions implement the window of admissions.
THEOREM DashboardImplementsWindow == Spec => WindowSpec
BY DashboardRunsLimiter, LimiterImplementsWindow, PTL

-----------------------------------------------------------------------------
(* Ways a handler ends *)

\* One slot changes, to a state that is fine.
LEMMA SlotChanges ==
    ASSUME DashboardInv, LimiterTypeOK', NEW r \in Slot, NEW s,
           slot' = [slot EXCEPT ![r] = s], UNCHANGED cfg, halted' \in BOOLEAN,
           s \in SlotState, SlotInv(s)
    PROVE  DashboardInv'
<1>1. TypeOK'
  BY DEF DashboardInv, TypeOK, SlotState
<1>2. ASSUME NEW t \in Slot
      PROVE  SlotInv(slot[t])'
  <2>1. slot'[t] = IF t = r THEN s ELSE slot[t]
    BY DEF DashboardInv, TypeOK
  <2>2. SlotInv(slot'[t])
    BY <2>1 DEF DashboardInv
  <2> QED BY <2>2 DEF SlotInv, Fine, Obstacles
<1> QED BY <1>1, <1>2 DEF DashboardInv

\* Either everything was written and the answer is given, or a write raised.
LEMMA WriteAndAnswerCases ==
    ASSUME NEW r, NEW service, NEW answer, NEW S, NEW records, records \in Seq(S),
           NEW all, all = UNION {records[i] : i \in DOMAIN records},
           WriteAndAnswer(r, service, records, answer)
    PROVE  \/ Close(r, service, all, answer)
           \/ \E w \in SUBSET all : Close(r, service, w, "raised")
<1>1. ASSUME NEW n \in 0..Len(records), Close(r, service, UNION {records[i] : i \in 1..n}, "raised")
      PROVE  \E w \in SUBSET all : Close(r, service, w, "raised")
  <2>1. UNION {records[i] : i \in 1..n} \in SUBSET all
    OBVIOUS
  <2> QED BY <1>1, <2>1
<1> QED BY <1>1 DEF WriteAndAnswer

\* A request is answered from its slot or a changed service object.
LEMMA Closes ==
    ASSUME DashboardInv, LimiterTypeOK', UNCHANGED cfg, halted' \in BOOLEAN,
           NEW r \in Slot, NEW service \in SlotState, NEW w \in SUBSET (Place \X Form),
           NEW answer \in Answers, Close(r, service, w, answer),
           Fine(service.req, service.started, service.wrote \cup w, answer)
    PROVE  DashboardInv'
<1> DEFINE s == [service EXCEPT !.phase = "answered", !.wrote = service.wrote \cup w,
                                !.answer = answer]
<1>1. s \in SlotState /\ slot' = [slot EXCEPT ![r] = s]
  BY DEF SlotState, Close
<1>2. SlotInv(s)
  <2>1. s.req = service.req /\ s.started = service.started /\ s.wrote = service.wrote \cup w
        /\ s.answer = answer /\ s.phase = "answered"
    BY DEF SlotState
  <2> QED BY <2>1 DEF SlotInv
<1> HIDE DEF s
<1> QED BY <1>1, <1>2, SlotChanges

\* A handler that has started nothing answers without a record.
LEMMA PlainAnswer ==
    ASSUME DashboardInv, UNCHANGED <<limiterVars, cfg, halted>>, NEW r \in Slot,
           slot[r].wrote = {},
           NEW answer \in Answers, Answer(r, answer),
           Fine(slot[r].req, slot[r].started, {}, answer)
    PROVE  DashboardInv'
<1>1. slot[r] \in SlotState /\ LimiterTypeOK' /\ halted' \in BOOLEAN
  BY DEF DashboardInv, TypeOK, LimiterTypeOK, limiterVars
<1>2. Close(r, slot[r], {}, answer)
  <2>1. UNION {<<>>[i] : i \in DOMAIN <<>>} = {}
    OBVIOUS
  <2> QED BY <2>1 DEF Answer, WriteAndAnswer
<1>3. slot[r].wrote \cup {} = {}
  OBVIOUS
<1> QED BY <1>1, <1>2, <1>3, Closes

\* A handler whose only write is its audit record; the goal it may have run has
\* left its records.
LEMMA AuditedAnswer ==
    ASSUME DashboardInv, LimiterTypeOK', UNCHANGED cfg, halted' \in BOOLEAN,
           NEW r \in Slot, NEW service \in SlotState, service.wrote \in GoalRecords,
           NEW form \in Form, NEW answer \in {"ok", "blocked"},
           WriteAndAnswer(r, service, <<Audit(form)>>, answer),
           answer = "blocked" => service.started = "no" /\ service.wrote = {},
           Fine(service.req, service.started, {}, "none"),
           service.req # NoRequest /\ service.req.text \in {"password", "password=x"} => form # "clear"
    PROVE  DashboardInv'
<1> DEFINE a == Audit(form)
<1>1. a \in SUBSET (Place \X Form) /\ a = {<<"audit", form>>}
  BY DEF Audit, Place
<1>2. \/ Close(r, service, a, answer)
      \/ \E w \in SUBSET a : Close(r, service, w, "raised")
  <2> DEFINE records == <<a>>
  <2>1. records \in Seq({a}) /\ a = UNION {records[i] : i \in DOMAIN records}
        /\ WriteAndAnswer(r, service, records, answer)
    <3> HIDE DEF a
    <3>1. records \in Seq({a}) /\ {records[i] : i \in DOMAIN records} = {a}
      OBVIOUS
    <3>2. WriteAndAnswer(r, service, records, answer)
      BY DEF a
    <3> QED BY <3>1, <3>2
  <2> HIDE DEF records, a
  <2> QED BY <2>1, WriteAndAnswerCases
<1> HIDE DEF a
<1>3. ASSUME NEW w \in SUBSET a
      PROVE  /\ w \in SUBSET (Place \X Form)
             /\ Fine(service.req, service.started, service.wrote \cup w, "raised")
  <2>1. \A x \in service.wrote \cup w : x[1] \in {"audit", "memory"} => x = <<"audit", form>>
    BY <1>1 DEF GoalRecords
  <2> QED BY <1>1, <2>1 DEF Fine
<1>4. CASE Close(r, service, a, answer)
  <2>1. \A x \in service.wrote \cup a : x[1] \in {"audit", "memory"} => x = <<"audit", form>>
    BY <1>1 DEF GoalRecords
  <2>2. answer = "blocked" => \A x \in service.wrote \cup a : x[1] = "audit"
    BY <1>1
  <2>3. <<"audit", form>> \in service.wrote \cup a
    BY <1>1
  <2>4. Fine(service.req, service.started, service.wrote \cup a, answer)
    BY <2>1, <2>2, <2>3 DEF Fine
  <2>5. answer \in Answers
    BY DEF Answers
  <2> QED BY <1>1, <1>4, <2>4, <2>5, Closes
<1>5. ASSUME NEW w \in SUBSET a, Close(r, service, w, "raised")
      PROVE  DashboardInv'
  <2>1. "raised" \in Answers
    BY DEF Answers
  <2> QED BY <1>3, <1>5, <2>1, Closes
<1> QED BY <1>2, <1>4, <1>5

LEMMA LoggedIsCovered ==
    ASSUME NEW text
    PROVE  LoggedForm(text) \in Form /\ (text \in {"password", "password=x"} => LoggedForm(text) # "clear")
BY DEF LoggedForm, Form

\* What a handler finds when it begins.
LEMMA HandlingFacts ==
    ASSUME DashboardInv, NEW r \in Slot, slot[r].phase = "admitted"
    PROVE  /\ slot[r] \in SlotState /\ slot[r].wrote = {} /\ slot[r].started = "no"
           /\ slot[r].lockdown = cfg.lockdown /\ slot[r].answer = "none"
           /\ Fine(slot[r].req, "no", {}, "none")
           /\ \A a \in {"dry_run", "locked", "unknown", "confirm", "declined", "denied", "raised"} :
                a \in Answers /\ Fine(slot[r].req, "no", {}, a)
BY DEF DashboardInv, TypeOK, SlotInv, Fine, Answers

LEMMA QuietFacts ==
    ASSUME DashboardInv, Quiet
    PROVE  LimiterTypeOK' /\ UNCHANGED <<limiterVars, cfg, halted>> /\ halted' \in BOOLEAN
BY DEF DashboardInv, TypeOK, LimiterTypeOK, limiterVars, Quiet

\* A goal starts for a request that passed its gate.
LEMMA StartGoalKeeps ==
    ASSUME DashboardInv, Quiet, NEW r \in Slot, slot[r].phase = "admitted", StartGoal(r),
           slot[r].req.kind \in {"execute", "workflow"}, ~cfg.lockdown, ~slot[r].req.dry,
           slot[r].req.kind = "execute" => slot[r].req.approved /\ Obstacles(slot[r].req) = {},
           slot[r].req.kind = "workflow" => slot[r].req.approved \/ ~slot[r].req.asks
    PROVE  DashboardInv'
<1> DEFINE s == [slot[r] EXCEPT !.phase = "running",
                                !.started = IF halted THEN "halted" ELSE "open"]
<1>1. slot' = [slot EXCEPT ![r] = s]
  BY DEF StartGoal, DashboardInv, TypeOK
<1>2. s \in SlotState
  <2>1. slot[r] \in SlotState
    BY HandlingFacts
  <2>2. (IF halted THEN "halted" ELSE "open") \in {"no", "open", "halted"}
    OBVIOUS
  <2> QED BY <2>1, <2>2 DEF SlotState
<1>3. SlotInv(s)
  <2>1. /\ s.req = slot[r].req /\ s.wrote = {} /\ s.answer = "none" /\ s.phase = "running"
    BY HandlingFacts DEF SlotState
  <2>2. Fine(s.req, s.started, {}, "none")
    BY <2>1, HandlingFacts DEF Fine
  <2> QED BY <2>1, <2>2 DEF SlotInv
<1> HIDE DEF s
<1> QED BY <1>1, <1>2, <1>3, QuietFacts, SlotChanges

-----------------------------------------------------------------------------
(* The handlers *)

LEMMA DenyKeeps ==
    ASSUME DashboardInv, NEW r \in Slot, Deny(r)
    PROVE  DashboardInv'
BY HandlingFacts, QuietFacts, PlainAnswer DEF Deny

LEMMA ExecuteAgentKeeps ==
    ASSUME DashboardInv, NEW r \in Slot, ExecuteAgent(r)
    PROVE  DashboardInv'
<1> DEFINE q == slot[r].req
<1>1. slot[r].phase = "admitted" /\ q.kind = "execute" /\ Quiet
  BY DEF ExecuteAgent, Handling
<1>2. CASE Answer(r, "locked") \/ Answer(r, "unknown") \/ Answer(r, "dry_run")
  BY <1>1, <1>2, HandlingFacts, QuietFacts, PlainAnswer
<1>3. CASE WriteAndAnswer(r, slot[r], <<Audit("none")>>, "blocked")
  <2>1. "none" \in Form
    BY DEF Form
  <2>2. slot[r].wrote \in GoalRecords
    BY <1>1, HandlingFacts DEF GoalRecords
  <2> QED BY <1>1, <1>3, <2>1, <2>2, HandlingFacts, QuietFacts, AuditedAnswer
<1>4. CASE ~slot[r].lockdown /\ Allowed(q) /\ ~q.dry /\ StartGoal(r)
  <2>1. Obstacles(q) = {} /\ q.approved
    BY <1>4 DEF Allowed, RequiredApprovals
  <2> QED BY <1>1, <1>4, <2>1, HandlingFacts, StartGoalKeeps
<1> QED BY <1>2, <1>3, <1>4 DEF ExecuteAgent

LEMMA RunWorkflowKeeps ==
    ASSUME DashboardInv, NEW r \in Slot, RunWorkflow(r)
    PROVE  DashboardInv'
<1> DEFINE q == slot[r].req
<1>1. slot[r].phase = "admitted" /\ q.kind = "workflow" /\ Quiet
  BY DEF RunWorkflow, Handling
<1>2. CASE Answer(r, "locked") \/ Answer(r, "confirm") \/ Answer(r, "dry_run")
  BY <1>1, <1>2, HandlingFacts, QuietFacts, PlainAnswer
<1>3. CASE ~slot[r].lockdown /\ ~q.dry /\ (q.approved \/ ~q.asks) /\ StartGoal(r)
  BY <1>1, <1>3, HandlingFacts, StartGoalKeeps
<1> QED BY <1>2, <1>3 DEF RunWorkflow

LEMMA GoalEndsKeeps ==
    ASSUME DashboardInv, NEW r \in Slot, GoalReturns(r) \/ GoalRaises(r)
    PROVE  DashboardInv'
<1>1. /\ slot[r] \in SlotState /\ slot[r].wrote = {} /\ slot[r].answer = "none"
      /\ slot[r].req.kind \in {"execute", "workflow"} /\ Quiet
      /\ Fine(slot[r].req, slot[r].started, {}, "none")
  BY DEF GoalReturns, GoalRaises, DashboardInv, TypeOK, SlotInv
<1>2. ASSUME NEW left \in GoalRecords
      PROVE  /\ left \in SUBSET (Place \X Form) /\ slot[r].wrote \cup left = left
             /\ \A x \in left : x[1] = "goal"
  BY <1>1 DEF GoalRecords, Place, Form
<1>3. ASSUME NEW left \in GoalRecords, Close(r, slot[r], left, "raised")
      PROVE  DashboardInv'
  <2>1. Fine(slot[r].req, slot[r].started, left, "raised") /\ "raised" \in Answers
    BY <1>1, <1>2 DEF Fine, Answers
  <2> QED BY <1>1, <1>2, <1>3, <2>1, QuietFacts, Closes
<1>4. ASSUME NEW left \in GoalRecords
      PROVE  LET service == [slot[r] EXCEPT !.wrote = left] IN
             /\ service \in SlotState /\ service.wrote = left
             /\ service.req = slot[r].req /\ service.started = slot[r].started
  BY <1>1, <1>2 DEF SlotState
<1>5. ASSUME NEW left \in GoalRecords, slot[r].req.kind # "execute",
             Close(r, [slot[r] EXCEPT !.wrote = left], {}, "ok")
      PROVE  DashboardInv'
  <2> DEFINE service == [slot[r] EXCEPT !.wrote = left]
  <2>1. /\ service \in SlotState /\ service.wrote = left
        /\ service.req = slot[r].req /\ service.started = slot[r].started
    BY <1>4
  <2>2. Close(r, service, {}, "ok")
    BY <1>5
  <2> HIDE DEF service
  <2>3. Fine(service.req, service.started, service.wrote \cup {}, "ok") /\ "ok" \in Answers
    BY <1>1, <1>2, <1>5, <2>1 DEF Fine, Answers
  <2> QED BY <1>1, <2>1, <2>2, <2>3, QuietFacts, Closes
<1>6. ASSUME NEW left \in GoalRecords,
             WriteAndAnswer(r, [slot[r] EXCEPT !.wrote = left],
                            <<Audit(LoggedForm(slot[r].req.text))>>, "ok")
      PROVE  DashboardInv'
  <2> DEFINE service == [slot[r] EXCEPT !.wrote = left]
  <2>1. /\ service \in SlotState /\ service.wrote = left
        /\ service.req = slot[r].req /\ service.started = slot[r].started
    BY <1>4
  <2>2. WriteAndAnswer(r, service, <<Audit(LoggedForm(service.req.text))>>, "ok")
    BY <1>6, <2>1
  <2> HIDE DEF service
  <2> QED BY <1>1, <2>1, <2>2, QuietFacts, LoggedIsCovered, AuditedAnswer
<1> QED BY <1>3, <1>5, <1>6 DEF GoalReturns, GoalRaises

LEMMA SaveMemoryKeeps ==
    ASSUME DashboardInv, NEW r \in Slot, SaveMemory(r)
    PROVE  DashboardInv'
<1> DEFINE q == slot[r].req
           m == MemoryRecord(q)
           a == Audit("none")
           both == m \cup a
<1>1. slot[r].phase = "admitted" /\ q.kind = "save" /\ Quiet
  BY DEF SaveMemory, Handling
<1>2. CASE Answer(r, "declined")
  BY <1>1, <1>2, HandlingFacts, QuietFacts, PlainAnswer
<1>3. CASE WriteAndAnswer(r, slot[r], <<m, a>>, "ok")
  <2>1. /\ both \in SUBSET (Place \X Form) /\ <<"audit", "none">> \in both /\ "none" \in Form
        /\ q.text \in {"password", "password=x"} =>
              \A x \in both : x[1] \in {"audit", "memory"} => x[2] # "clear"
    BY DEF MemoryRecord, StoredForm, EncryptionRequired, DataClass, Form, Place, Audit
  <2> HIDE DEF m, a
  <2>2. \/ Close(r, slot[r], both, "ok")
        \/ \E w \in SUBSET both : Close(r, slot[r], w, "raised")
    <3> DEFINE records == <<m, a>>
    <3>1. records \in Seq({m, a}) /\ both = UNION {records[i] : i \in DOMAIN records}
      <4>1. {records[i] : i \in DOMAIN records} = {m, a} /\ both = UNION {m, a}
        OBVIOUS
      <4> QED BY <4>1
    <3>2. WriteAndAnswer(r, slot[r], records, "ok")
      BY <1>3
    <3> HIDE DEF records, both
    <3> QED BY <3>1, <3>2, WriteAndAnswerCases
  <2> HIDE DEF both
  <2>3. ASSUME NEW w \in SUBSET both
        PROVE  /\ slot[r].wrote \cup w = w /\ w \in SUBSET (Place \X Form)
               /\ Fine(q, "no", w, "raised")
    BY <1>1, <2>1, HandlingFacts DEF Fine
  <2>4. Fine(q, "no", both, "ok")
    BY <1>1, <2>1 DEF Fine
  <2>5. "ok" \in Answers /\ "raised" \in Answers
    BY DEF Answers
  <2> QED BY <1>1, <2>2, <2>3, <2>4, <2>5, HandlingFacts, QuietFacts, Closes
<1> QED BY <1>2, <1>3 DEF SaveMemory

\* The handlers that write one audit record, from a service object they may
\* have changed.
LEMMA AuditingHandlerKeeps ==
    ASSUME DashboardInv, LimiterTypeOK', UNCHANGED cfg, halted' \in BOOLEAN,
           NEW r \in Slot, slot[r].phase = "admitted",
           NEW service \in SlotState,
           service.wrote = slot[r].wrote, service.req = slot[r].req, service.started = slot[r].started,
           NEW form \in Form, WriteAndAnswer(r, service, <<Audit(form)>>, "ok"),
           slot[r].req.text \in {"password", "password=x"} => form # "clear"
    PROVE  DashboardInv'
<1>1. service.wrote \in GoalRecords
  BY HandlingFacts DEF GoalRecords
<1> QED BY <1>1, HandlingFacts, AuditedAnswer

LEMMA OtherHandlersKeep ==
    ASSUME DashboardInv, NEW r \in Slot,
           SearchMemory(r) \/ ScanInput(r) \/ Lockdown(r) \/ CreateAgent(r) \/ StoreApiKey(r)
    PROVE  DashboardInv'
<1> DEFINE q == slot[r].req
<1>1. slot[r].phase = "admitted" /\ slot[r] \in SlotState /\ "none" \in Form /\ UNCHANGED cfg
      /\ LimiterTypeOK'
  BY HandlingFacts DEF SearchMemory, ScanInput, Lockdown, CreateAgent, StoreApiKey, Handling, Form,
        Quiet, DashboardInv, TypeOK, LimiterTypeOK, limiterVars
<1>2. halted' \in BOOLEAN
  BY DEF SearchMemory, ScanInput, Lockdown, CreateAgent, StoreApiKey, Quiet, DashboardInv, TypeOK
<1>3. CASE SearchMemory(r)
  BY <1>1, <1>2, <1>3, LoggedIsCovered, AuditingHandlerKeeps DEF SearchMemory
<1>4. CASE ScanInput(r)
  <2> DEFINE locks == Scan(q.text, q.input).lockdown
             service == [slot[r] EXCEPT !.lockdown = slot[r].lockdown \/ locks]
  <2>1. WriteAndAnswer(r, service, <<Audit("none")>>, "ok")
    BY <1>4 DEF ScanInput
  <2>2. (slot[r].lockdown \/ locks) \in BOOLEAN
    OBVIOUS
  <2>3. service \in SlotState /\ service.wrote = slot[r].wrote /\ service.req = slot[r].req
        /\ service.started = slot[r].started
    BY <1>1, <2>2 DEF SlotState
  <2> HIDE DEF service
  <2> QED BY <1>1, <1>2, <2>1, <2>3, AuditingHandlerKeeps
<1>5. CASE Lockdown(r)
  <2> DEFINE service == [slot[r] EXCEPT !.lockdown = TRUE]
  <2>1. WriteAndAnswer(r, service, <<Audit("none")>>, "ok")
    BY <1>5 DEF Lockdown
  <2>2. service \in SlotState /\ service.wrote = slot[r].wrote /\ service.req = slot[r].req
        /\ service.started = slot[r].started
    BY <1>1 DEF SlotState
  <2> HIDE DEF service
  <2> QED BY <1>1, <1>2, <2>1, <2>2, AuditingHandlerKeeps
<1>6. CASE CreateAgent(r)
  <2> DEFINE service == [slot[r] EXCEPT !.custom = slot[r].custom \cup {"custom"}]
  <2>1. WriteAndAnswer(r, service, <<Audit("none")>>, "ok")
    BY <1>6 DEF CreateAgent
  <2>2. service \in SlotState /\ service.wrote = slot[r].wrote /\ service.req = slot[r].req
        /\ service.started = slot[r].started
    BY <1>1 DEF SlotState
  <2> HIDE DEF service
  <2> QED BY <1>1, <1>2, <2>1, <2>2, AuditingHandlerKeeps
<1>7. CASE StoreApiKey(r)
  <2> DEFINE service == [slot[r] EXCEPT !.keys = slot[r].keys \cup {"key"}]
  <2>1. WriteAndAnswer(r, service, <<Audit(LoggedForm(q.text))>>, "ok")
    BY <1>7 DEF StoreApiKey
  <2>2. service \in SlotState /\ service.wrote = slot[r].wrote /\ service.req = slot[r].req
        /\ service.started = slot[r].started
    BY <1>1 DEF SlotState
  <2> HIDE DEF service
  <2> QED BY <1>1, <1>2, <2>1, <2>2, LoggedIsCovered, AuditingHandlerKeeps
<1> QED BY <1>3, <1>4, <1>5, <1>6, <1>7

LEMMA ViewKeeps ==
    ASSUME DashboardInv, NEW r \in Slot, View(r)
    PROVE  DashboardInv'
<1>1. slot[r].phase = "admitted" /\ slot[r].req.kind = "view" /\ Quiet /\ Answer(r, "ok")
  BY DEF View, Handling
<1>2. Fine(slot[r].req, slot[r].started, {}, "ok") /\ "ok" \in Answers
  BY <1>1, HandlingFacts DEF Fine, Answers
<1> QED BY <1>1, <1>2, HandlingFacts, QuietFacts, PlainAnswer

\* A new request, a refused one and a restart leave nothing behind.
LEMMA FreshKeeps ==
    ASSUME DashboardInv, LimiterTypeOK'
    PROVE  /\ \A r \in Slot, c \in Client, q \in Requests[cfg.load] : Arrive(r, c, q) => DashboardInv'
           /\ Restart => DashboardInv'
<1>1. Free \in SlotState /\ SlotInv(Free)
  BY DEF Free, SlotState, SlotInv, Fine, Answers
<1>2. ASSUME NEW r \in Slot, NEW c \in Client, NEW q \in Requests[cfg.load], Arrive(r, c, q)
      PROVE  DashboardInv'
  <2>1. LimiterTypeOK' /\ UNCHANGED cfg /\ halted' \in BOOLEAN
    BY <1>2 DEF Arrive, DashboardInv, TypeOK
  <2> DEFINE s == [Free EXCEPT !.phase = "admitted", !.req = q, !.lockdown = cfg.lockdown]
  <2>2. s \in SlotState /\ SlotInv(s)
    BY DashboardAssumption DEF DashboardInv, TypeOK, Free, SlotState, SlotInv, Fine, Answers
  <2> HIDE DEF s
  <2>3. slot' = [slot EXCEPT ![r] = s] \/ slot' = [slot EXCEPT ![r] = Free]
    BY <1>2 DEF Arrive, s
  <2> QED BY <1>1, <2>1, <2>2, <2>3, SlotChanges
<1>3. ASSUME Restart
      PROVE  DashboardInv'
  <2>1. TypeOK'
    <3>1. slot' \in [Slot -> SlotState] /\ SlotState' = SlotState
      BY <1>1, <1>3 DEF Restart, SlotState
    <3> QED BY <1>3, <3>1 DEF Restart, DashboardInv, TypeOK
  <2>2. ASSUME NEW r \in Slot
        PROVE  SlotInv(slot[r])'
    <3>1. slot'[r] = Free /\ UNCHANGED cfg
      BY <1>3 DEF Restart
    <3> QED BY <1>1, <3>1 DEF SlotInv, Fine, Obstacles
  <2> QED BY <2>1, <2>2 DEF DashboardInv
<1> QED BY <1>2, <1>3

-----------------------------------------------------------------------------
(* The dashboard *)

LEMMA InitDashboardInv == Init => DashboardInv
<1> SUFFICES ASSUME Init, LimiterTypeOK PROVE DashboardInv
  BY InitLimiterInv DEF Init, LimiterInv
<1>1. Free \in SlotState /\ SlotInv(Free)
  BY DEF Free, SlotState, SlotInv, Fine, Answers
<1> QED BY <1>1 DEF Init, DashboardInv, TypeOK

LEMMA NextKeepsDashboardInv == DashboardInv /\ LimiterTypeOK' /\ [Next]_dashboardVars => DashboardInv'
<1> SUFFICES ASSUME DashboardInv, LimiterTypeOK', [Next]_dashboardVars PROVE DashboardInv'
  OBVIOUS
<1>1. CASE UNCHANGED <<cfg, slot, halted>> /\ LimiterTypeOK'
  BY <1>1 DEF DashboardInv, TypeOK, SlotState, SlotInv, Fine, Obstacles
<1>2. CASE UNCHANGED dashboardVars
  BY <1>1, <1>2 DEF dashboardVars, limiterVars, DashboardInv, TypeOK, LimiterTypeOK
<1>3. CASE ClockRuns
  BY <1>1, <1>3 DEF ClockRuns
<1>4. ASSUME NEW r \in Slot, Handle(r)
      PROVE  DashboardInv'
  BY <1>4, DenyKeeps, ExecuteAgentKeeps, RunWorkflowKeeps, SaveMemoryKeeps, OtherHandlersKeep,
     ViewKeeps DEF Handle
<1> QED BY <1>2, <1>3, <1>4, GoalEndsKeeps, FreshKeeps DEF Next

\* The dashboard's state has its types, and every slot's invariant holds.
THEOREM DashboardInvariant == Spec => []DashboardInv
<1>1. LimiterInv => LimiterTypeOK
  BY DEF LimiterInv
<1> QED BY <1>1, InitDashboardInv, NextKeepsDashboardInv, DashboardRunsLimiter, LimiterInvariant,
           PTL DEF Spec

\* Type correctness.
THEOREM DashboardTypes == Spec => []TypeOK
<1>1. DashboardInv => TypeOK
  BY DEF DashboardInv
<1> QED BY <1>1, DashboardInvariant, PTL

\* No answer reports a sensitive action, workflow runs excepted, without its audit
\* record.
THEOREM DashboardAudits == Spec => []AnsweredIsAudited
<1>1. DashboardInv => AnsweredIsAudited
  BY DEF DashboardInv, SlotInv, Fine, AnsweredIsAudited
<1> QED BY <1>1, DashboardInvariant, PTL

\* No goal runs against the lockdown setting or without its approval, no agent's
\* against a finding of its scan; a refusal leaves at most its audit record behind.
THEOREM DashboardGates == Spec => []ExecutionIsGated
<1>1. DashboardInv => ExecutionIsGated
  BY DEF DashboardInv, SlotInv, Fine, ExecutionIsGated
<1> QED BY <1>1, DashboardInvariant, PTL

\* Texts marked as credentials are covered in saved contents and audit records.
THEOREM DashboardCoversCredentials == Spec => []CredentialsStayCovered
<1>1. DashboardInv => CredentialsStayCovered
  BY DEF DashboardInv, SlotInv, Fine, CredentialsStayCovered
<1> QED BY <1>1, DashboardInvariant, PTL
================================================================================
