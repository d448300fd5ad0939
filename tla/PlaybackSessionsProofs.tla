----------------------- MODULE PlaybackSessionsProofs -----------------------
(***************************************************************************)
(* The rate limiter that session creation goes through is a fixed window,   *)
(* for any clients, limit, window and schedule of sweeps and restarts; and  *)
(* a viewer who watches is counted, for any sessions and lengths of time.   *)
(***************************************************************************)
EXTENDS PlaybackSessions, TLAPS

(* What a step of the server does to the limiter.                           *)
LimiterNext ==
  \/ \E c \in Clients : Allow(c) \/ Refuse(c)
  \/ Tick \/ Sweep \/ Reset

Bucket == [count : Nat, resetAt : Int]

(* A bucket never counts more than the limit, and one whose window is open  *)
(* has counted the request that opened it: an empty bucket, which a sweep   *)
(* leaves, is an expired one.                                               *)
LimiterInv ==
  /\ now \in Nat /\ sweepAt \in Int
  /\ bucket \in [Clients -> Bucket]
  /\ \A c \in Clients : /\ bucket[c].count <= Limit
                        /\ bucket[c].count >= 1 \/ Expired(bucket[c], now)

(* Every action of the server takes at most one step of the limiter.        *)
LEMMA StepOfLimiter == [Next]_vars => LimiterNext \/ UNCHANGED limiterVars
<1> SUFFICES ASSUME [Next]_vars PROVE LimiterNext \/ UNCHANGED limiterVars
  OBVIOUS
<1>1. ASSUME NEW s \in Sessions, Create(s) PROVE LimiterNext
  BY <1>1, SessionAssumption DEF Create, LimiterNext
<1>2. ASSUME NEW s \in Sessions, End(s) PROVE UNCHANGED limiterVars
  BY <1>2 DEF End
<1>3. ASSUME NEW s \in Sessions, NEW g \in Goroutines, Fetch(s, g) PROVE UNCHANGED limiterVars
  BY <1>3 DEF Fetch
<1>4. ASSUME NEW g \in Goroutines,
             SkipTouch(g) \/ MarkTouch(g) \/ IssueTouch(g) \/ WriteTouch(g)
      PROVE  UNCHANGED limiterVars
  BY <1>4 DEF SkipTouch, MarkTouch, IssueTouch, WriteTouch
<1>5. ASSUME NEW c \in Clients, OtherRequest(c) PROVE LimiterNext
  BY <1>5 DEF OtherRequest, LimiterNext
<1>6. ASSUME (Tick \/ Sweep) /\ UNCHANGED sessionVars PROVE LimiterNext
  BY <1>6 DEF LimiterNext
<1>7. CASE Restart
  BY <1>7 DEF Restart, LimiterNext
<1>8. CASE UNCHANGED vars
  BY <1>8 DEF vars
<1> QED
  BY <1>1, <1>2, <1>3, <1>4, <1>5, <1>6, <1>7, <1>8 DEF Next

(* What a granted request does to the buckets.                              *)
LEMMA AllowBucket ==
  ASSUME NEW c \in Clients, Allow(c)
  PROVE  /\ UNCHANGED <<now, sweepAt>>
         /\ \/ /\ Expired(bucket[c], now)
               /\ bucket' = [bucket EXCEPT ![c] = [count |-> 1, resetAt |-> now + Window]]
            \/ /\ ~Expired(bucket[c], now) /\ bucket[c].count < Limit
               /\ bucket' = [bucket EXCEPT ![c].count = @ + 1]
  BY Zenon DEF Allow

LEMMA LimiterInit_Inv == Init => LimiterInv
  BY LimiterAssumption DEF Init, LimiterInit, LimiterInv, NoBucket, Bucket, Expired

(* One step per action of the limiter.                                      *)
LEMMA LimiterStep_Inv ==
  ASSUME LimiterInv, LimiterNext \/ UNCHANGED limiterVars
  PROVE  LimiterInv'
<1> USE LimiterAssumption
<1>1. ASSUME NEW c \in Clients, Allow(c) PROVE LimiterInv'
  BY <1>1, AllowBucket DEF LimiterInv, Bucket, Expired
<1>2. ASSUME NEW c \in Clients, Refuse(c) PROVE LimiterInv'
  BY <1>2 DEF LimiterInv, Refuse, Bucket, Expired
<1>3. CASE Tick
  BY <1>3 DEF LimiterInv, Tick, Bucket, Expired
<1>4. CASE Sweep
  BY <1>4 DEF LimiterInv, Sweep, NoBucket, Bucket, Expired
<1>5. CASE Reset
  BY <1>5 DEF LimiterInv, Reset, NoBucket, Bucket, Expired
<1>6. CASE UNCHANGED limiterVars
  BY <1>6 DEF LimiterInv, limiterVars, Bucket, Expired
<1> QED
  BY <1>1, <1>2, <1>3, <1>4, <1>5, <1>6 DEF LimiterNext

(* The window that FixedWindow sees in client c's bucket.                   *)
Win(c) == IF Expired(bucket[c], now) THEN [count |-> 0, until |-> 0]
          ELSE [count |-> bucket[c].count, until |-> bucket[c].resetAt]

(* A step that leaves every client's window alone, and the clock and the    *)
(* answers, is a stutter of FixedWindow.                                    *)
LEMMA SameWindows ==
  ASSUME UNCHANGED <<now, answer>>, \A c \in Clients : Win(c)' = Win(c)
  PROVE  UNCHANGED FW!vars
<1>1. [c \in Clients |-> Win(c)]' = [c \in Clients |-> Win(c)]
  OBVIOUS
<1> QED
  BY <1>1 DEF FW!vars, Win

LEMMA InitIsFixedWindow == Init => FW!Init
<1> SUFFICES ASSUME Init PROVE FW!Init
  OBVIOUS
<1>1. now = 0 /\ bucket = [c \in Clients |-> NoBucket]
  BY DEF Init, LimiterInit
<1>2. ASSUME NEW c \in Clients PROVE Expired(bucket[c], now)
  <2>1. bucket[c].resetAt = -1
    BY <1>1 DEF NoBucket
  <2> QED
    BY <1>1, <2>1 DEF Expired
<1> QED
  BY <1>2 DEF Init, LimiterInit, FW!Init, FW!Fresh

(* A granted request opens a window where none is open, else counts in it.  *)
LEMMA AllowIsGrant ==
  ASSUME LimiterInv, NEW c \in Clients, Allow(c)
  PROVE  FW!Grant(c)
<1> USE LimiterAssumption
<1> DEFINE W == [d \in Clients |-> Win(d)]
<1>1. \A d \in Clients \ {c} : bucket'[d] = bucket[d]
  BY AllowBucket DEF LimiterInv
<1>2. now' = now
  BY DEF Allow
<1>3. \A d \in Clients \ {c} : Win(d)' = Win(d)
  BY <1>1, <1>2 DEF Win, Expired
<1>4. CASE Expired(bucket[c], now)
  <2>1. Win(c) = FW!Fresh
    BY <1>4 DEF Win, FW!Fresh
  <2>2. bucket'[c] = [count |-> 1, resetAt |-> now + Window]
    BY <1>4 DEF Allow, LimiterInv
  <2>3. Win(c)' = [count |-> 1, until |-> now + Window]
    BY <2>2, <1>2 DEF Win, Expired, LimiterInv
  <2>4. W' = [W EXCEPT ![c] = IF @ = FW!Fresh THEN [count |-> 1, until |-> now + Window]
                              ELSE [count |-> @.count + 1, until |-> @.until]]
    BY <1>3, <2>1, <2>3
  <2>5. W[c].count < Limit
    BY <2>1 DEF FW!Fresh
  <2> QED
    BY <2>4, <2>5, <1>2 DEF FW!Grant, Allow, Win
<1>5. CASE ~Expired(bucket[c], now)
  <2>1. /\ Win(c) = [count |-> bucket[c].count, until |-> bucket[c].resetAt]
        /\ bucket[c] \in Bucket /\ bucket[c].count >= 1 /\ bucket[c].count < Limit
    BY <1>5 DEF Win, Allow, LimiterInv
  <2>2. /\ bucket'[c].count = bucket[c].count + 1
        /\ bucket'[c].resetAt = bucket[c].resetAt
    BY <1>5 DEF Allow, LimiterInv, Bucket
  <2>3. Win(c)' = [count |-> Win(c).count + 1, until |-> Win(c).until]
    BY <1>5, <2>1, <2>2, <1>2 DEF Win, Expired
  <2>4. Win(c) # FW!Fresh
    BY <2>1 DEF FW!Fresh, Bucket
  <2>5. W' = [W EXCEPT ![c] = IF @ = FW!Fresh THEN [count |-> 1, until |-> now + Window]
                              ELSE [count |-> @.count + 1, until |-> @.until]]
    BY <1>3, <2>3, <2>4
  <2>6. W[c].count < Limit
    BY <2>1
  <2> QED
    BY <2>5, <2>6, <1>2 DEF FW!Grant, Allow, Win
<1> QED
  BY <1>4, <1>5

LEMMA RefuseIsRefuse ==
  ASSUME LimiterInv, NEW c \in Clients, Refuse(c)
  PROVE  FW!Refuse(c)
<1>1. Win(c).count = Limit
  BY LimiterAssumption DEF Refuse, Win, LimiterInv, Bucket
<1>2. UNCHANGED <<now, bucket>>
  BY DEF Refuse
<1> QED
  BY <1>1, <1>2 DEF FW!Refuse, Refuse, Win, Expired

(* A window ends when the clock passes its end: at once in FixedWindow, and *)
(* with the next request or sweep in the code.                              *)
LEMMA TickIsTick ==
  ASSUME LimiterInv, Tick
  PROVE  FW!Tick
<1> DEFINE W == [d \in Clients |-> Win(d)]
<1>1. now' = now + 1 /\ UNCHANGED <<bucket, answer>>
  BY DEF Tick
<1>2. ASSUME NEW c \in Clients
      PROVE  Win(c)' = IF now' > Win(c).until THEN FW!Fresh ELSE Win(c)
  BY <1>1 DEF Win, Expired, LimiterInv, Bucket, FW!Fresh
<1>3. W' = [c \in Clients |-> IF now' > W[c].until THEN FW!Fresh ELSE W[c]]
  BY <1>2
<1> QED
  BY <1>1, <1>3 DEF FW!Tick, Win

(* A sweep removes only expired buckets, even with a clock that was read    *)
(* earlier: what has expired then has expired now.                          *)
LEMMA SweepIsStutter ==
  ASSUME LimiterInv, Sweep
  PROVE  UNCHANGED FW!vars
<1>1. UNCHANGED <<now, answer>>
  BY DEF Sweep
<1>2. ASSUME NEW c \in Clients PROVE Win(c)' = Win(c)
  <2>1. PICK t \in sweepAt..now :
          bucket' = [d \in Clients |-> IF Expired(bucket[d], t) THEN NoBucket ELSE bucket[d]]
    BY DEF Sweep
  <2>2. CASE Expired(bucket[c], t)
    <3>1. Expired(bucket[c], now)
      BY <2>2 DEF Expired, LimiterInv, Bucket
    <3>2. Expired(bucket'[c], now')
      BY <2>1, <2>2, <1>1 DEF Expired, LimiterInv, NoBucket
    <3> QED
      BY <3>1, <3>2 DEF Win
  <2>3. CASE ~Expired(bucket[c], t)
    BY <2>1, <2>3, <1>1 DEF Win, Expired
  <2> QED
    BY <2>2, <2>3
<1> QED
  BY <1>1, <1>2, SameWindows

LEMMA ResetIsForget ==
  ASSUME LimiterInv, Reset
  PROVE  FW!Forget
<1>1. \A c \in Clients : Expired(bucket'[c], now')
  BY DEF Reset, NoBucket, Expired, LimiterInv
<1> QED
  BY <1>1 DEF FW!Forget, FW!Fresh, Reset

LEMMA StepIsFixedWindow ==
  ASSUME LimiterInv, LimiterNext \/ UNCHANGED limiterVars
  PROVE  [FW!Next]_FW!vars
<1>1. CASE UNCHANGED limiterVars
  <2>1. UNCHANGED <<now, answer>> /\ \A c \in Clients : Win(c)' = Win(c)
    BY <1>1 DEF limiterVars, Win, Expired
  <2> QED
    BY <2>1, SameWindows
<1> QED
  BY <1>1, AllowIsGrant, RefuseIsRefuse, TickIsTick, SweepIsStutter, ResetIsForget
     DEF LimiterNext, FW!Next

(* The server's limiter is the fixed window of NewIPRateLimiter's comment,  *)
(* whatever its buckets, its sweeps with a stale clock and its restarts do. *)
THEOREM LimiterIsFixedWindow == Spec => IsFixedWindow
<1>1. LimiterInv /\ [Next]_vars => LimiterInv'
  BY StepOfLimiter, LimiterStep_Inv
<1>2. LimiterInv /\ [Next]_vars => [FW!Next]_FW!vars
  BY StepOfLimiter, StepIsFixedWindow
<1> QED
  BY LimiterInit_Inv, InitIsFixedWindow, <1>1, <1>2, PTL DEF Spec, IsFixedWindow, FW!Spec

----------------------------------------------------------------------------
GrantsInv ==
  /\ grants \in [Clients -> Seq(Nat)]
  /\ GrantInv /\ AtMostTwice

LEMMA GrantsInit == Init => GrantsInv
<1> SUFFICES ASSUME Init PROVE GrantsInv
  OBVIOUS
<1>1. grants = [c \in Clients |-> <<>>] /\ bucket = [c \in Clients |-> NoBucket] /\ now = 0
  BY DEF Init, LimiterInit, NoGrants
<1>2. ASSUME NEW c \in Clients PROVE grants[c] = <<>> /\ bucket[c].resetAt = -1
  BY <1>1 DEF NoBucket
<1>3. grants \in [Clients -> Seq(Nat)]
  BY <1>1
<1>4. ASSUME NEW c \in Clients PROVE InWindows(grants[c], bucket[c], now) /\ Spaced(grants[c])
  BY <1>1, <1>2, LimiterAssumption DEF InWindows, Spaced, Expired
<1> QED
  BY <1>3, <1>4 DEF GrantsInv, GrantInv, AtMostTwice

(* A grant is appended to those of its client.                              *)
LEMMA OneGrantMore ==
  ASSUME NEW g \in Seq(Nat), NEW t \in Nat
  PROVE  /\ Append(g, t) \in Seq(Nat)
         /\ Len(g) \in Nat /\ Len(Append(g, t)) = Len(g) + 1
         /\ \A i \in 1..Len(g) : g[i] \in Nat /\ Append(g, t)[i] = g[i]
         /\ Append(g, t)[Len(g) + 1] = t
  OBVIOUS

LEMMA AppendIsInOrder ==
  ASSUME NEW g \in Seq(Nat), NEW t \in Nat,
         \A i, j \in 1..Len(g) : i <= j => g[i] <= g[j],
         \A i \in 1..Len(g) : g[i] <= t
  PROVE  /\ \A i, j \in 1..Len(Append(g, t)) : i <= j => Append(g, t)[i] <= Append(g, t)[j]
         /\ \A i \in 1..Len(Append(g, t)) : Append(g, t)[i] <= t
<1> DEFINE h == Append(g, t)
           n == Len(g)
<1>1. /\ n \in Nat /\ Len(h) = n + 1 /\ h[n + 1] = t
      /\ \A i \in 1..n : g[i] \in Nat /\ h[i] = g[i]
  BY OneGrantMore
<1> HIDE DEF h, n
<1> QED
  BY <1>1 DEF h, n

LEMMA AppendIsSpaced ==
  ASSUME NEW g \in Seq(Nat), NEW t \in Nat, Spaced(g),
         \A i \in 1..Len(g) : i + 2 * Limit = Len(g) + 1 => t > g[i] + Window
  PROVE  Spaced(Append(g, t))
<1> USE LimiterAssumption
<1> DEFINE h == Append(g, t)
           n == Len(g)
<1>1. /\ n \in Nat /\ Len(h) = n + 1 /\ h[n + 1] = t
      /\ \A i \in 1..n : g[i] \in Nat /\ h[i] = g[i]
  BY OneGrantMore
<1>2. \A i \in 1..(n - 2 * Limit) : g[i + 2 * Limit] > g[i] + Window
  BY DEF Spaced
<1> HIDE DEF h, n
<1>3. ASSUME NEW i \in 1..(Len(h) - 2 * Limit) PROVE h[i + 2 * Limit] > h[i] + Window
  <2>1. i \in 1..n /\ h[i] = g[i]
    BY <1>1
  <2>2. CASE i + 2 * Limit = n + 1
    <3>1. h[i + 2 * Limit] = t
      BY <2>2, <1>1
    <3>2. t > g[i] + Window
      BY <2>1, <2>2 DEF n
    <3> QED
      BY <3>1, <3>2, <2>1
  <2>3. CASE i + 2 * Limit # n + 1
    <3>1. i \in 1..(n - 2 * Limit) /\ i + 2 * Limit \in 1..n
      BY <2>3, <1>1
    <3> QED
      BY <3>1, <2>1, <1>1, <1>2
  <2> QED
    BY <2>2, <2>3
<1> QED
  BY <1>3 DEF Spaced, h

(* The grant that opens a window comes after the window of the one that     *)
(* opened the last: the Limit requests before it are older than a window.   *)
LEMMA GrantOpens ==
  ASSUME NEW g \in Seq(Nat), NEW b \in Bucket, NEW t \in Nat,
         InWindows(g, b, t), Spaced(g), Expired(b, t)
  PROVE  /\ InWindows(Append(g, t), [count |-> 1, resetAt |-> t + Window], t)
         /\ Spaced(Append(g, t))
<1> USE LimiterAssumption
<1> DEFINE h == Append(g, t)
           n == Len(g)
           d == [count |-> 1, resetAt |-> t + Window]
<1>1. /\ n \in Nat /\ Len(h) = n + 1 /\ h[n + 1] = t
      /\ \A i \in 1..n : g[i] \in Nat /\ h[i] = g[i]
  BY OneGrantMore
<1>2. /\ \A i, j \in 1..n : i <= j => g[i] <= g[j]
      /\ \A i \in 1..n : g[i] <= t
      /\ n >= Limit => g[n - Limit + 1] + Window < t
  BY DEF InWindows
<1>3. /\ \A i, j \in 1..Len(h) : i <= j => h[i] <= h[j]
      /\ \A i \in 1..Len(h) : h[i] <= t
  BY <1>2, AppendIsInOrder
<1> HIDE DEF h, n
<1>4. ~Expired(d, t)
  BY DEF Expired
<1>5. Opener(h, d) = n + 1 /\ 1 <= d.count /\ d.count <= n + 1 /\ d.resetAt = t + Window
  BY <1>1 DEF Opener
<1>6. n + 1 > Limit => h[n + 1 - Limit] + Window < h[n + 1]
  BY <1>1, <1>2
<1>7. InWindows(h, d, t)
  BY <1>1, <1>3, <1>4, <1>5, <1>6 DEF InWindows
<1>8. ASSUME NEW i \in 1..n, i + 2 * Limit = n + 1 PROVE t > g[i] + Window
  <2>1. n >= Limit /\ n - Limit + 1 \in 1..n /\ i <= n - Limit + 1
    BY <1>8, <1>1
  <2>2. g[i] <= g[n - Limit + 1] /\ g[n - Limit + 1] + Window < t
    BY <2>1, <1>2
  <2>3. g[i] \in Nat /\ g[n - Limit + 1] \in Nat
    BY <2>1, <1>1
  <2> QED
    BY <2>2, <2>3
<1> QED
  BY <1>7, <1>8, AppendIsSpaced DEF h, n

(* A grant in an open window with room: 2 * Limit grants back is in a       *)
(* window before the last one, at the latest its first request.             *)
LEMMA GrantCounts ==
  ASSUME NEW g \in Seq(Nat), NEW b \in Bucket, NEW t \in Nat, NEW d \in Bucket,
         InWindows(g, b, t), Spaced(g), ~Expired(b, t), b.count < Limit,
         d.count = b.count + 1, d.resetAt = b.resetAt
  PROVE  InWindows(Append(g, t), d, t) /\ Spaced(Append(g, t))
<1> USE LimiterAssumption
<1> DEFINE h == Append(g, t)
           n == Len(g)
           s == n - b.count + 1
<1>1. /\ n \in Nat /\ Len(h) = n + 1 /\ h[n + 1] = t
      /\ \A i \in 1..n : g[i] \in Nat /\ h[i] = g[i]
  BY OneGrantMore
<1>2. /\ \A i, j \in 1..n : i <= j => g[i] <= g[j]
      /\ \A i \in 1..n : g[i] <= t
      /\ 1 <= b.count /\ b.count <= n
      /\ g[s] = b.resetAt - Window
      /\ s > Limit => g[s - Limit] + Window < g[s]
  BY DEF InWindows, Opener
<1>3. /\ \A i, j \in 1..Len(h) : i <= j => h[i] <= h[j]
      /\ \A i \in 1..Len(h) : h[i] <= t
  BY <1>2, AppendIsInOrder
<1> HIDE DEF h, n
<1>4. b.count \in Nat /\ 1 <= b.count /\ b.count <= n /\ n \in Nat
  BY <1>1, <1>2 DEF Bucket
<1>5. s \in 1..n /\ n + 1 - s < Limit
  BY <1>4
<1>6. ~Expired(d, t)
  BY DEF Expired
<1>7. Opener(h, d) = s /\ 1 <= d.count /\ d.count <= n + 1
  BY <1>1, <1>4 DEF Opener
<1> HIDE DEF s
<1>8. h[s] = d.resetAt - Window
  BY <1>1, <1>2, <1>5
<1>9. s > Limit => h[s - Limit] + Window < h[s]
  BY <1>1, <1>2, <1>5
<1>10. InWindows(h, d, t)
  BY <1>1, <1>3, <1>6, <1>7, <1>8, <1>9 DEF InWindows
<1>11. ASSUME NEW i \in 1..n, i + 2 * Limit = n + 1 PROVE t > g[i] + Window
  <2>1. s > Limit /\ s - Limit \in 1..n /\ i <= s - Limit
    BY <1>11, <1>4, <1>5
  <2> DEFINE x == g[i]
             y == g[s - Limit]
             z == g[s]
  <2>2. x <= y /\ y + Window < z /\ z <= t
    BY <2>1, <1>2, <1>5
  <2>3. x \in Nat /\ y \in Nat /\ z \in Nat
    BY <2>1, <1>1, <1>5
  <2>4. x + Window < z
    <3> HIDE DEF x, y, z
    <3> QED
      BY <2>2, <2>3
  <2> QED
    BY <2>2, <2>3, <2>4
<1> QED
  BY <1>10, <1>11, AppendIsSpaced DEF h, n

LEMMA GrantsAllow ==
  ASSUME LimiterInv, GrantsInv, NEW c \in Clients, Allow(c)
  PROVE  GrantsInv'
<1> USE LimiterAssumption
<1>1. now' = now /\ now \in Nat /\ grants \in [Clients -> Seq(Nat)] /\ bucket \in [Clients -> Bucket]
  BY AllowBucket DEF LimiterInv, GrantsInv
<1>2. grants' = [grants EXCEPT ![c] = Append(@, now)]
  BY Zenon DEF Allow
<1>3. Append(grants[c], now) \in Seq(Nat)
  BY <1>1, OneGrantMore
<1>4. grants' \in [Clients -> Seq(Nat)] /\ grants'[c] = Append(grants[c], now)
  BY <1>1, <1>2, <1>3
<1>5. InWindows(grants[c], bucket[c], now) /\ Spaced(grants[c])
  BY DEF GrantsInv, GrantInv, AtMostTwice
<1>6. bucket' \in [Clients -> Bucket]
  BY LimiterStep_Inv DEF LimiterNext, LimiterInv
<1>7. InWindows(grants'[c], bucket'[c], now) /\ Spaced(grants'[c])
  <2>1. CASE Expired(bucket[c], now)
    <3>1. bucket'[c] = [count |-> 1, resetAt |-> now + Window]
      BY <2>1, <1>1, AllowBucket
    <3> QED
      BY <2>1, <3>1, <1>1, <1>4, <1>5, GrantOpens
  <2>2. CASE ~Expired(bucket[c], now)
    <3>1. /\ bucket[c].count < Limit
          /\ bucket'[c].count = bucket[c].count + 1 /\ bucket'[c].resetAt = bucket[c].resetAt
      BY <2>2, <1>1, AllowBucket DEF Bucket
    <3>2. bucket[c] \in Bucket /\ bucket'[c] \in Bucket /\ grants[c] \in Seq(Nat)
      BY <1>1, <1>6
    <3> QED
      BY <2>2, <3>1, <3>2, <1>1, <1>4, <1>5, GrantCounts
  <2> QED
    BY <2>1, <2>2
<1>8. ASSUME NEW e \in Clients, e # c
      PROVE  InWindows(grants'[e], bucket'[e], now) /\ Spaced(grants'[e])
  <2>1. grants'[e] = grants[e] /\ bucket'[e] = bucket[e]
    BY <1>1, <1>2, <1>8, AllowBucket
  <2> QED
    BY <2>1 DEF GrantsInv, GrantInv, AtMostTwice
<1>9. (GrantInv /\ AtMostTwice)'
  BY <1>1, <1>7, <1>8 DEF GrantInv, AtMostTwice
<1> QED
  BY <1>4, <1>9 DEF GrantsInv

(* With the clock, a window ends: all its requests are older than it.       *)
LEMMA GrantsTick ==
  ASSUME LimiterInv, GrantsInv, Tick
  PROVE  GrantsInv'
<1> USE LimiterAssumption
<1>1. now' = now + 1 /\ bucket' = bucket /\ grants' = grants
  BY DEF Tick
<1>2. ASSUME NEW c \in Clients PROVE InWindows(grants[c], bucket[c], now + 1)
  <2> DEFINE g == grants[c]
             n == Len(g)
             b == bucket[c]
  <2>1. /\ n \in Nat /\ b.count \in Nat /\ b.resetAt \in Int /\ now \in Nat /\ b.count <= Limit
        /\ \A i \in 1..n : g[i] \in Nat
    BY DEF GrantsInv, LimiterInv, Bucket
  <2>2. InWindows(g, b, now)
    BY DEF GrantsInv, GrantInv
  <2> HIDE DEF g, n, b
  <2>3. \A i \in 1..n : g[i] <= now + 1
    BY <2>1, <2>2 DEF InWindows, n
  <2>4. ASSUME Expired(b, now + 1), n >= Limit
        PROVE  g[n - Limit + 1] + Window < now + 1
    <3>1. n - Limit + 1 \in 1..n
      BY <2>1, <2>4
    <3>2. CASE Expired(b, now)
      BY <3>1, <3>2, <2>1, <2>2, <2>4 DEF InWindows, n
    <3>3. CASE ~Expired(b, now)
      <4>1. n - b.count + 1 \in 1..n /\ n - Limit + 1 <= n - b.count + 1
            /\ g[n - b.count + 1] = b.resetAt - Window
        BY <3>3, <2>1, <2>2 DEF InWindows, Opener, n
      <4>2. g[n - Limit + 1] <= g[n - b.count + 1]
        BY <3>1, <4>1, <2>2 DEF InWindows, n
      <4> QED
        BY <3>1, <4>1, <4>2, <2>1, <2>4 DEF Expired
    <3> QED
      BY <3>2, <3>3
  <2>5. ~Expired(b, now + 1) => ~Expired(b, now)
    BY <2>1 DEF Expired
  <2>6. InWindows(g, b, now + 1)
    BY <2>2, <2>3, <2>4, <2>5 DEF InWindows, n
  <2> QED
    BY <2>6 DEF g, b
<1> QED
  BY <1>1, <1>2 DEF GrantsInv, GrantInv, AtMostTwice

(* What a sweep removes has expired: only the last window's end counts.     *)
LEMMA GrantsSweep ==
  ASSUME LimiterInv, GrantsInv, Sweep
  PROVE  GrantsInv'
<1> USE LimiterAssumption
<1>1. now' = now /\ grants' = grants
  BY DEF Sweep
<1>2. PICK t \in sweepAt..now :
        bucket' = [c \in Clients |-> IF Expired(bucket[c], t) THEN NoBucket ELSE bucket[c]]
  BY DEF Sweep
<1>3. ASSUME NEW c \in Clients PROVE InWindows(grants[c], bucket'[c], now)
  <2>1. InWindows(grants[c], bucket[c], now)
    BY DEF GrantsInv, GrantInv
  <2>2. CASE Expired(bucket[c], t)
    <3>1. Expired(bucket[c], now)
      BY <2>2 DEF Expired, LimiterInv, Bucket
    <3>2. Expired(bucket'[c], now)
      BY <1>2, <2>2 DEF Expired, LimiterInv, NoBucket
    <3> QED
      BY <3>1, <3>2, <2>1 DEF InWindows
  <2>3. CASE ~Expired(bucket[c], t)
    BY <1>2, <2>1, <2>3
  <2> QED
    BY <2>2, <2>3
<1> QED
  BY <1>1, <1>3 DEF GrantsInv, GrantInv, AtMostTwice

LEMMA GrantsReset ==
  ASSUME LimiterInv, GrantsInv, Reset
  PROVE  GrantsInv'
<1> USE LimiterAssumption
<1>1. /\ grants' = [c \in Clients |-> <<>>] /\ bucket' = [c \in Clients |-> NoBucket]
      /\ now' = now /\ now \in Nat
  BY DEF Reset, NoGrants, LimiterInv
<1>2. ASSUME NEW c \in Clients PROVE grants'[c] = <<>> /\ bucket'[c].resetAt = -1
  BY <1>1 DEF NoBucket
<1>3. grants' \in [Clients -> Seq(Nat)]
  BY <1>1
<1>4. ASSUME NEW c \in Clients PROVE InWindows(grants'[c], bucket'[c], now') /\ Spaced(grants'[c])
  BY <1>1, <1>2 DEF InWindows, Spaced, Expired
<1> QED
  BY <1>3, <1>4 DEF GrantsInv, GrantInv, AtMostTwice

LEMMA GrantsStep ==
  ASSUME LimiterInv, GrantsInv, LimiterNext \/ UNCHANGED limiterVars
  PROVE  GrantsInv'
<1>1. ASSUME NEW c \in Clients, Refuse(c) PROVE UNCHANGED <<now, bucket, grants>>
  BY <1>1 DEF Refuse
<1>2. CASE UNCHANGED <<now, bucket, grants>>
  BY <1>2 DEF GrantsInv, GrantInv, AtMostTwice
<1>3. CASE UNCHANGED limiterVars
  BY <1>2, <1>3 DEF limiterVars
<1> QED
  BY <1>1, <1>2, <1>3, GrantsAllow, GrantsTick, GrantsSweep, GrantsReset DEF LimiterNext

(* However a client times its requests, whenever the sweeps run and with    *)
(* whatever stale clock, no more than twice the limit of them is let        *)
(* through in the length of a window.                                       *)
THEOREM NeverMoreThanTwice == Spec => []AtMostTwice
<1>1. LimiterInv /\ [Next]_vars => LimiterInv'
  BY StepOfLimiter, LimiterStep_Inv
<1>2. LimiterInv /\ GrantsInv /\ [Next]_vars => GrantsInv'
  BY StepOfLimiter, GrantsStep
<1>3. GrantsInv => AtMostTwice
  BY DEF GrantsInv
<1> QED
  BY LimiterInit_Inv, GrantsInit, <1>1, <1>2, <1>3, PTL DEF Spec

----------------------------------------------------------------------------
TouchType ==
  /\ row \in [Sessions -> Int] /\ expiresAt \in [Sessions -> Int]
  /\ lastTouch \in [Sessions -> Int] /\ served \in [Sessions -> Int]
  /\ stage \in [Goroutines -> {"idle", "started", "marked", "issued"}]
  /\ touched \in [Goroutines -> Sessions] /\ issuedAt \in [Goroutines -> Int]

(* The times of a session lie in the past, and it is served only after its  *)
(* row exists.                                                              *)
PastTimes(s) ==
  /\ row[s] <= now /\ lastTouch[s] <= now /\ served[s] <= now
  /\ row[s] = None => expiresAt[s] = None /\ served[s] = None

(* A goroutine past the mutex has left its session in the debounce table    *)
(* (a restart that clears the table ends the goroutine), and so the row of  *)
(* its session exists.                                                      *)
PastMutex(g) ==
  /\ stage[g] # "idle" => row[touched[g]] # None
  /\ stage[g] \in {"marked", "issued"} => lastTouch[touched[g]] # None
  /\ stage[g] = "issued" => issuedAt[g] # None /\ issuedAt[g] <= now

Starting(s) == \E g \in Goroutines : stage[g] = "started" /\ touched[g] = s

(* An update as recent as the last touch of s is on its way.                *)
Updating(s) ==
  \E g \in Goroutines :
    /\ touched[g] = s
    /\ \/ stage[g] = "marked"
       \/ stage[g] = "issued" /\ issuedAt[g] >= lastTouch[s]

(* The row follows the debounce table, unless the update of the last touch  *)
(* is on its way, failed or was executed before an earlier one's; and the   *)
(* table follows the requests, behind by less than the debounce time.  An   *)
(* empty table is that of a new process: the row stands in for it.          *)
RowFollows(s) ==
  /\ lastTouch[s] # None /\ s \notin stale /\ ~Updating(s) => row[s] >= lastTouch[s]
  /\ served[s] # None /\ ~Starting(s) =>
       IF lastTouch[s] # None THEN lastTouch[s] > served[s] - Debounce
       ELSE s \in stale \/ row[s] > served[s] - Debounce

TouchInv ==
  /\ now \in Nat /\ TouchType
  /\ \A s \in Sessions : PastTimes(s) /\ RowFollows(s)
  /\ \A g \in Goroutines : PastMutex(g)

LEMMA TouchInit == Init => TouchInv
<1> SUFFICES ASSUME Init PROVE TouchInv
  OBVIOUS
<1>1. /\ \A s \in Sessions : row[s] = None /\ lastTouch[s] = None /\ served[s] = None /\ expiresAt[s] = None
      /\ \A g \in Goroutines : stage[g] = "idle"
      /\ now = 0 /\ TouchType
  BY DEF Init, LimiterInit, TouchType, None
<1> QED
  BY <1>1 DEF TouchInv, PastTimes, RowFollows, PastMutex, None

(* The limiter's steps at most move the clock.                              *)
LEMMA TouchClock ==
  ASSUME TouchInv, now' = now \/ now' = now + 1, UNCHANGED sessionVars
  PROVE  TouchInv'
<1>1. UNCHANGED <<row, expiresAt, lastTouch, stage, touched, issuedAt, served, stale>>
  BY DEF sessionVars, touchVars
<1>2. TouchType' /\ now' \in Nat
  BY <1>1 DEF TouchInv, TouchType
<1>3. ASSUME NEW s \in Sessions PROVE (PastTimes(s) /\ RowFollows(s))'
  <2>1. Updating(s)' = Updating(s) /\ Starting(s)' = Starting(s)
    BY <1>1 DEF Updating, Starting
  <2> QED
    BY <1>1, <2>1 DEF TouchInv, TouchType, PastTimes, RowFollows, None
<1>4. ASSUME NEW g \in Goroutines PROVE PastMutex(g)'
  BY <1>1 DEF TouchInv, TouchType, PastMutex, None
<1> QED
  BY <1>2, <1>3, <1>4 DEF TouchInv

LEMMA TouchCreate ==
  ASSUME TouchInv, NEW s \in Sessions, Create(s)
  PROVE  TouchInv'
<1> USE SessionAssumption DEF None
<1>1. now' = now /\ now \in Nat /\ row[s] = None
  BY DEF Create, Allow, TouchInv
<1>2. /\ row' = [row EXCEPT ![s] = now]
      /\ expiresAt' = [expiresAt EXCEPT ![s] = now + TokenLife]
      /\ UNCHANGED <<lastTouch, stage, touched, issuedAt, served, stale>>
  BY DEF Create, TokenExpiry, touchVars
<1>3. TouchType'
  BY <1>1, <1>2 DEF TouchInv, TouchType
<1>4. ASSUME NEW u \in Sessions PROVE (PastTimes(u) /\ RowFollows(u))'
  <2>1. Updating(u)' = Updating(u) /\ Starting(u)' = Starting(u)
    BY <1>2 DEF Updating, Starting
  <2>2. row'[u] = (IF u = s THEN now ELSE row[u]) /\ row'[u] >= row[u]
        /\ (u = s => served[u] = None)
    BY <1>1, <1>2 DEF TouchInv, TouchType, PastTimes
  <2> QED
    BY <1>1, <1>2, <2>1, <2>2 DEF TouchInv, TouchType, PastTimes, RowFollows
<1>5. ASSUME NEW g \in Goroutines PROVE PastMutex(g)'
  BY <1>1, <1>2 DEF TouchInv, TouchType, PastMutex
<1> QED
  BY <1>1, <1>3, <1>4, <1>5 DEF TouchInv

(* An ended session is touched and served like any other.                   *)
LEMMA TouchEnd ==
  ASSUME TouchInv, NEW s \in Sessions, End(s)
  PROVE  TouchInv'
<1>1. UNCHANGED <<now, row, expiresAt, lastTouch, stage, touched, issuedAt, served, stale>>
  BY DEF End, touchVars, limiterVars
<1>2. ASSUME NEW u \in Sessions PROVE Updating(u)' = Updating(u) /\ Starting(u)' = Starting(u)
  BY <1>1 DEF Updating, Starting
<1> QED
  BY <1>1, <1>2 DEF TouchInv, TouchType, PastTimes, RowFollows, PastMutex

(* The request's goroutine is the one that will see to its row.             *)
LEMMA TouchFetch ==
  ASSUME TouchInv, NEW s \in Sessions, NEW g \in Goroutines, Fetch(s, g)
  PROVE  TouchInv'
<1> USE DEF None
<1>1. /\ now' = now /\ now \in Nat /\ stage[g] = "idle" /\ now < expiresAt[s]
      /\ served' = [served EXCEPT ![s] = now] /\ stage' = [stage EXCEPT ![g] = "started"]
      /\ touched' = [touched EXCEPT ![g] = s]
      /\ UNCHANGED <<row, expiresAt, lastTouch, issuedAt, stale>>
  BY DEF Fetch, TokenValid, limiterVars, TouchInv
<1>2. TouchType'
  BY <1>1 DEF TouchInv, TouchType
<1>3. row[s] # None
  BY <1>1 DEF TouchInv, TouchType, PastTimes
<1>4. \A h \in Goroutines : h # g => stage'[h] = stage[h] /\ touched'[h] = touched[h]
  BY <1>1 DEF TouchInv, TouchType
<1>5. stage'[g] = "started" /\ touched'[g] = s
  BY <1>1 DEF TouchInv, TouchType
<1>6. ASSUME NEW u \in Sessions PROVE (PastTimes(u) /\ RowFollows(u))'
  <2>1. Updating(u) => Updating(u)'
    BY <1>1, <1>4 DEF Updating
  <2>2. Starting(u) => Starting(u)'
    BY <1>1, <1>4 DEF Starting
  <2>3. Starting(s)'
    BY <1>5 DEF Starting
  <2>4. served'[u] = IF u = s THEN now ELSE served[u]
    BY <1>1 DEF TouchInv, TouchType
  <2> QED
    BY <1>1, <1>3, <2>1, <2>2, <2>3, <2>4 DEF TouchInv, TouchType, PastTimes, RowFollows
<1>7. ASSUME NEW h \in Goroutines PROVE PastMutex(h)'
  BY <1>1, <1>3, <1>4, <1>5 DEF TouchInv, TouchType, PastMutex
<1> QED
  BY <1>1, <1>2, <1>6, <1>7 DEF TouchInv

(* A skipped touch is covered by the one that made it skip.                 *)
LEMMA TouchSkip ==
  ASSUME TouchInv, NEW g \in Goroutines, SkipTouch(g)
  PROVE  TouchInv'
<1> USE SessionAssumption DEF None
<1>1. /\ now' = now /\ now \in Nat /\ stage[g] = "started"
      /\ lastTouch[touched[g]] # None /\ now - lastTouch[touched[g]] < Debounce
      /\ stage' = [stage EXCEPT ![g] = "idle"]
      /\ UNCHANGED <<row, expiresAt, lastTouch, touched, issuedAt, served, stale>>
  BY DEF SkipTouch, Debounced, limiterVars, TouchInv
<1>2. TouchType'
  BY <1>1 DEF TouchInv, TouchType
<1>3. /\ stage'[g] = "idle"
      /\ \A h \in Goroutines : h # g => stage'[h] = stage[h]
  BY <1>1 DEF TouchInv, TouchType
<1>4. ASSUME NEW u \in Sessions PROVE (PastTimes(u) /\ RowFollows(u))'
  <2>1. Updating(u)' = Updating(u)
    BY <1>1, <1>3 DEF Updating
  <2>2. Starting(u) /\ u # touched[g] => Starting(u)'
    BY <1>1, <1>3 DEF Starting
  <2> QED
    BY <1>1, <2>1, <2>2 DEF TouchInv, TouchType, PastTimes, RowFollows
<1>5. ASSUME NEW h \in Goroutines PROVE PastMutex(h)'
  BY <1>1, <1>3 DEF TouchInv, TouchType, PastMutex
<1> QED
  BY <1>1, <1>2, <1>4, <1>5 DEF TouchInv

LEMMA TouchMark ==
  ASSUME TouchInv, NEW g \in Goroutines, MarkTouch(g)
  PROVE  TouchInv'
<1> USE SessionAssumption DEF None
<1> DEFINE s == touched[g]
<1>1. /\ now' = now /\ now \in Nat /\ stage[g] = "started" /\ s \in Sessions
      /\ lastTouch' = [lastTouch EXCEPT ![s] = now]
      /\ stage' = [stage EXCEPT ![g] = "marked"]
      /\ UNCHANGED <<row, expiresAt, touched, issuedAt, served, stale>>
  BY DEF MarkTouch, limiterVars, TouchInv, TouchType
<1>2. TouchType'
  BY <1>1 DEF TouchInv, TouchType
<1>3. /\ stage'[g] = "marked" /\ lastTouch'[s] = now
      /\ \A h \in Goroutines : h # g => stage'[h] = stage[h]
      /\ \A u \in Sessions : u # s => lastTouch'[u] = lastTouch[u]
  BY <1>1 DEF TouchInv, TouchType
<1>4. ASSUME NEW u \in Sessions PROVE (PastTimes(u) /\ RowFollows(u))'
  <2>1. CASE u = s
    <3>1. Updating(u)'
      BY <2>1, <1>1, <1>3 DEF Updating
    <3> QED
      BY <2>1, <3>1, <1>1, <1>3 DEF TouchInv, TouchType, PastTimes, RowFollows
  <2>2. CASE u # s
    <3>1. Updating(u) => Updating(u)'
      BY <2>2, <1>1, <1>3 DEF Updating
    <3>2. Starting(u) => Starting(u)'
      BY <2>2, <1>1, <1>3 DEF Starting
    <3> QED
      BY <2>2, <3>1, <3>2, <1>1, <1>3 DEF TouchInv, TouchType, PastTimes, RowFollows
  <2> QED
    BY <2>1, <2>2
<1>5. ASSUME NEW h \in Goroutines PROVE PastMutex(h)'
  BY <1>1, <1>3 DEF TouchInv, TouchType, PastMutex
<1> QED
  BY <1>1, <1>2, <1>4, <1>5 DEF TouchInv

(* The time of an update is read after its touch.                           *)
LEMMA TouchIssue ==
  ASSUME TouchInv, NEW g \in Goroutines, IssueTouch(g)
  PROVE  TouchInv'
<1> USE DEF None
<1>1. /\ now' = now /\ now \in Nat /\ stage[g] = "marked"
      /\ issuedAt' = [issuedAt EXCEPT ![g] = now]
      /\ stage' = [stage EXCEPT ![g] = "issued"]
      /\ UNCHANGED <<row, expiresAt, lastTouch, touched, served, stale>>
  BY DEF IssueTouch, limiterVars, TouchInv
<1>2. TouchType'
  BY <1>1 DEF TouchInv, TouchType
<1>3. /\ stage'[g] = "issued" /\ issuedAt'[g] = now
      /\ \A h \in Goroutines : h # g => stage'[h] = stage[h] /\ issuedAt'[h] = issuedAt[h]
  BY <1>1 DEF TouchInv, TouchType
<1>4. ASSUME NEW u \in Sessions PROVE (PastTimes(u) /\ RowFollows(u))'
  <2>1. lastTouch[u] <= now
    BY DEF TouchInv, PastTimes
  <2>2. Updating(u) => Updating(u)'
    BY <1>1, <1>3, <2>1 DEF Updating
  <2>3. Starting(u) => Starting(u)'
    BY <1>1, <1>3 DEF Starting
  <2> QED
    BY <1>1, <2>2, <2>3 DEF TouchInv, TouchType, PastTimes, RowFollows
<1>5. ASSUME NEW h \in Goroutines PROVE PastMutex(h)'
  BY <1>1, <1>3 DEF TouchInv, TouchType, PastMutex
<1> QED
  BY <1>1, <1>2, <1>4, <1>5 DEF TouchInv

(* An update that is executed brings the row up to the last touch, or finds *)
(* that it was overtaken and leaves the session stale.                      *)
LEMMA TouchWrite ==
  ASSUME TouchInv, NEW g \in Goroutines, WriteTouch(g)
  PROVE  TouchInv'
<1> USE SessionAssumption DEF None
<1> DEFINE s == touched[g]
           t == issuedAt[g]
<1>1. /\ now' = now /\ now \in Nat /\ stage[g] = "issued"
      /\ s \in Sessions /\ t \in Int /\ t # None /\ t <= now
      /\ lastTouch[s] # None /\ row[s] # None
      /\ stage' = [stage EXCEPT ![g] = "idle"] /\ issuedAt' = [issuedAt EXCEPT ![g] = None]
      /\ UNCHANGED <<expiresAt, lastTouch, touched, served>>
  BY DEF WriteTouch, limiterVars, TouchInv, TouchType, PastMutex
<1>2. \/ row' = [row EXCEPT ![s] = t]
         /\ stale' = IF t >= lastTouch[s] THEN stale \ {s} ELSE stale \cup {s}
      \/ row' = row /\ stale' = IF t >= lastTouch[s] THEN stale \cup {s} ELSE stale
  BY DEF WriteTouch, Newest
<1>3. TouchType'
  BY <1>1, <1>2 DEF TouchInv, TouchType
<1>4. /\ stage'[g] = "idle"
      /\ \A h \in Goroutines : h # g => stage'[h] = stage[h] /\ issuedAt'[h] = issuedAt[h]
  BY <1>1 DEF TouchInv, TouchType
<1>5. ASSUME NEW u \in Sessions PROVE (PastTimes(u) /\ RowFollows(u))'
  <2>1. Starting(u) => Starting(u)'
    BY <1>1, <1>4 DEF Starting
  <2>2. Updating(u) /\ (u # s \/ t < lastTouch[s]) => Updating(u)'
    BY <1>1, <1>4 DEF Updating, TouchInv, TouchType
  <2>3. CASE u # s
    <3>1. row'[u] = row[u] /\ (u \in stale' <=> u \in stale)
      BY <2>3, <1>1, <1>2 DEF TouchInv, TouchType
    <3> QED
      BY <2>1, <2>2, <2>3, <3>1, <1>1 DEF TouchInv, TouchType, PastTimes, RowFollows
  <2>4. CASE u = s
    <3>1. \/ row'[u] = t /\ (u \in stale' <=> t < lastTouch[u])
          \/ row'[u] = row[u] /\ (u \in stale' <=> t >= lastTouch[u] \/ u \in stale)
      BY <2>4, <1>1, <1>2 DEF TouchInv, TouchType
    <3> QED
      BY <2>1, <2>2, <2>4, <3>1, <1>1 DEF TouchInv, TouchType, PastTimes, RowFollows
  <2> QED
    BY <2>3, <2>4
<1>6. ASSUME NEW h \in Goroutines PROVE PastMutex(h)'
  <2>1. ASSUME NEW u \in Sessions, row[u] # None PROVE row'[u] # None
    BY <2>1, <1>1, <1>2 DEF TouchInv, TouchType
  <2> QED
    BY <1>1, <1>4, <2>1 DEF TouchInv, TouchType, PastMutex
<1> QED
  BY <1>1, <1>3, <1>5, <1>6 DEF TouchInv

(* A restart ends every goroutine: a session that had one is stale, and of  *)
(* every other the row is as recent as the table that is lost.              *)
LEMMA TouchRestart ==
  ASSUME TouchInv, Restart
  PROVE  TouchInv'
<1> USE SessionAssumption DEF None
<1>1. /\ now' = now /\ now \in Nat
      /\ lastTouch' = [s \in Sessions |-> None]
      /\ stage' = [g \in Goroutines |-> "idle"] /\ issuedAt' = [g \in Goroutines |-> None]
      /\ stale' = stale \cup {s \in Sessions : Touching(s) # {}}
      /\ UNCHANGED <<row, expiresAt, touched, served>>
  BY DEF Restart, Reset, TouchInv
<1>2. TouchType'
  BY <1>1 DEF TouchInv, TouchType
<1>3. ASSUME NEW u \in Sessions PROVE (PastTimes(u) /\ RowFollows(u))'
  <2>1. (Updating(u) \/ Starting(u)) => u \in stale'
    BY <1>1 DEF Updating, Starting, Touching
  <2>2. lastTouch'[u] = None /\ (u \in stale => u \in stale')
    BY <1>1
  <2> QED
    BY <1>1, <2>1, <2>2 DEF TouchInv, TouchType, PastTimes, RowFollows
<1>4. ASSUME NEW g \in Goroutines PROVE PastMutex(g)'
  BY <1>1 DEF PastMutex
<1> QED
  BY <1>1, <1>2, <1>3, <1>4 DEF TouchInv

LEMMA TouchStep == TouchInv /\ [Next]_vars => TouchInv'
<1> SUFFICES ASSUME TouchInv, [Next]_vars PROVE TouchInv'
  OBVIOUS
<1>1. ASSUME NEW c \in Clients, OtherRequest(c) PROVE TouchInv'
  BY <1>1, TouchClock DEF OtherRequest, Allow, Refuse
<1>2. ASSUME (Tick \/ Sweep) /\ UNCHANGED sessionVars PROVE TouchInv'
  BY <1>2, TouchClock DEF Tick, Sweep
<1>3. CASE UNCHANGED vars
  BY <1>3, TouchClock DEF vars, limiterVars
<1> QED
  BY <1>1, <1>2, <1>3, TouchCreate, TouchEnd, TouchFetch, TouchSkip, TouchMark, TouchIssue,
     TouchWrite, TouchRestart DEF Next

(* A viewer whose player asked for something less than ActiveFor - Debounce *)
(* ago is in the viewer count, whatever the order in which its updates are  *)
(* executed, unless one is on its way, the last touch's failed or was       *)
(* overwritten by an earlier one's, or the session has ended: neither the   *)
(* debounce nor a restart of the server hides anyone.                       *)
THEOREM ViewersAreCounted == Spec => []WatchingIsCounted
<1>1. ASSUME TouchInv PROVE WatchingIsCounted
  <2>1. ASSUME NEW s \in Sessions, Touching(s) = {} PROVE ~Updating(s) /\ ~Starting(s)
    BY <2>1 DEF Touching, Updating, Starting
  <2> QED
    BY <1>1, <2>1, SessionAssumption
       DEF TouchInv, TouchType, PastTimes, RowFollows, WatchingIsCounted, Counted, None
<1> QED
  BY TouchInit, TouchStep, <1>1, PTL DEF Spec
============================================================================
