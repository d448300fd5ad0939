---------------------------- MODULE RateLimiter ----------------------------
(***************************************************************************)
(* ipRateLimiter (middleware/ratelimit.go): one bucket per client address   *)
(* in a map behind a mutex, and a goroutine that sweeps expired buckets.    *)
(* It is a component of the server: whoever EXTENDS it takes its requests   *)
(* through Allow and Refuse, and moves its clock.                           *)
(***************************************************************************)
EXTENDS Integers, Sequences

CONSTANTS Clients,  \* client addresses
          Limit,    \* requests per window
          Window,   \* length of a window, in ticks of the clock
          MaxTime   \* bound: where the clock stops

ASSUME LimiterAssumption == Limit \in Nat \ {0} /\ Window \in Nat \ {0} /\ MaxTime \in Nat

VARIABLES now,
          bucket,   \* entries: the bucket of a client, or NoBucket
          sweepAt,  \* when the cleanup ticker fires next
          answer,   \* history variable: what a client's last request was told
          grants    \* history variable: when each request of a client was
                    \* granted, since the process started
limiterVars == <<now, bucket, sweepAt, answer, grants>>

NoBucket == [count |-> 0, resetAt |-> -1]
Expired(b, t) == t > b.resetAt
NoGrants == [c \in Clients |-> <<>>]

LimiterInit ==
  /\ now = 0
  /\ bucket = [c \in Clients |-> NoBucket]
  /\ sweepAt = 2 * Window
  /\ answer = [c \in Clients |-> "none"]
  /\ grants = NoGrants

Tick == /\ now < MaxTime
        /\ now' = now + 1
        /\ UNCHANGED <<bucket, sweepAt, answer, grants>>

(* Mutant: one request too many.                                            *)
Allow_OneMore(c) ==
  /\ \/ /\ Expired(bucket[c], now)
        /\ bucket' = [bucket EXCEPT ![c] = [count |-> 1, resetAt |-> now + Window]]
     \/ /\ ~Expired(bucket[c], now) /\ bucket[c].count <= Limit
        /\ bucket' = [bucket EXCEPT ![c].count = @ + 1]
  /\ answer' = [answer EXCEPT ![c] = "granted"]
  /\ grants' = [grants EXCEPT ![c] = Append(@, now)]
  /\ UNCHANGED <<now, sweepAt>>

(* allow(ip): a missing or expired bucket is replaced, a full one refuses.  *)
Allow(c) ==
  /\ \/ /\ Expired(bucket[c], now)
        /\ bucket' = [bucket EXCEPT ![c] = [count |-> 1, resetAt |-> now + Window]]
     \/ /\ ~Expired(bucket[c], now) /\ bucket[c].count < Limit
        /\ bucket' = [bucket EXCEPT ![c].count = @ + 1]
  /\ answer' = [answer EXCEPT ![c] = "granted"]
  /\ grants' = [grants EXCEPT ![c] = Append(@, now)]
  /\ UNCHANGED <<now, sweepAt>>

Refuse(c) ==
  /\ ~Expired(bucket[c], now) /\ bucket[c].count >= Limit
  /\ answer' = [answer EXCEPT ![c] = "refused"]
  /\ UNCHANGED <<now, bucket, sweepAt, grants>>

(* Mutant: the sweep empties the map.                                       *)
Sweep_All ==
  /\ now >= sweepAt
  /\ sweepAt' = sweepAt + 2 * Window
  /\ bucket' = [c \in Clients |-> NoBucket]
  /\ UNCHANGED <<now, answer, grants>>

(* cleanup reads the clock before it waits for the lock: its time may be    *)
(* older than the buckets it finds.                                         *)
Sweep ==
  /\ now >= sweepAt
  /\ sweepAt' = sweepAt + 2 * Window
  /\ \E t \in sweepAt..now :
       bucket' = [c \in Clients |-> IF Expired(bucket[c], t) THEN NoBucket ELSE bucket[c]]
  /\ UNCHANGED <<now, answer, grants>>

(* The map is the process's: a restart begins with an empty one.            *)
Reset ==
  /\ bucket' = [c \in Clients |-> NoBucket]
  /\ grants' = NoGrants
  /\ sweepAt' = now + 2 * Window
  /\ UNCHANGED <<now, answer>>

----------------------------------------------------------------------------
LimiterTypeOK ==
  /\ now \in 0..MaxTime
  /\ bucket \in [Clients -> [count : 0..Limit, resetAt : -1..(MaxTime + Window)]]
  /\ answer \in [Clients -> {"none", "granted", "refused"}]

(* The window a client is in: a swept bucket, an expired one and one that   *)
(* never was are the same.                                                  *)
FW == INSTANCE FixedWindow WITH
        win <- [c \in Clients |-> IF Expired(bucket[c], now) THEN [count |-> 0, until |-> 0]
                                  ELSE [count |-> bucket[c].count, until |-> bucket[c].resetAt]]

(* The limiter is the fixed window of its comment: the lazily replaced      *)
(* buckets, and a sweep at any time and with any stale clock, change no     *)
(* answer.                                                                  *)
IsFixedWindow == FW!Spec

(* A client that times its requests around the end of a window gets twice   *)
(* the limit into one window's length, and never more: from any request     *)
(* granted to the one that comes 2 * Limit grants later, more time passes.  *)
Spaced(g) == \A i \in 1..(Len(g) - 2 * Limit) : g[i + 2 * Limit] > g[i] + Window

AtMostTwice == \A c \in Clients : Spaced(grants[c])

(* Why: a window that opens comes after the one before it has ended, and in *)
(* each there are at most Limit requests.  Of a client with the grants g    *)
(* and the bucket b at time t, the request that opened the open window:     *)
Opener(g, b) == Len(g) - b.count + 1

InWindows(g, b, t) ==
  /\ \A i, j \in 1..Len(g) : i <= j => g[i] <= g[j]
  /\ \A i \in 1..Len(g) : g[i] <= t
  /\ Expired(b, t) /\ Len(g) >= Limit => g[Len(g) - Limit + 1] + Window < t
  /\ ~Expired(b, t) =>
       /\ 1 <= b.count /\ b.count <= Len(g)
       /\ g[Opener(g, b)] = b.resetAt - Window
       /\ Opener(g, b) > Limit => g[Opener(g, b) - Limit] + Window < g[Opener(g, b)]

(* The grants of every client fall into windows.                            *)
GrantInv == \A c \in Clients : InWindows(grants[c], bucket[c], now)
============================================================================
