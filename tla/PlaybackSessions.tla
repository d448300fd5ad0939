-------------------------- MODULE PlaybackSessions --------------------------
(***************************************************************************)
(* Playback sessions: SessionService and SessionRepo, the token middleware  *)
(* of /videos/ and /live/ with its debounced "last active" update, and the  *)
(* viewer count of a live stream.  Creating a session goes through the      *)
(* authLimiter of main.go.                                                  *)
(*                                                                          *)
(* A request for a playlist or segment starts a goroutine (touchSession):   *)
(* under the mutex it looks at lastTouch and marks the session as touched,  *)
(* then, unlocked, reads the clock and issues an update of last_active_at   *)
(* with that time.  The statement runs when the database gets to it, in any *)
(* order with those of other goroutines, and what it returns is ignored.    *)
(* Server and database are taken to share one clock.                        *)
(***************************************************************************)
EXTENDS RateLimiter

CONSTANTS Sessions,    \* sessions that pages ask for
          ClientOf,    \* the address each is asked from
          TokenLife,   \* JWT_EXPIRY
          Debounce,    \* 30 s
          ActiveFor,   \* the 2 minutes of CountActiveByStreamID
          Goroutines,  \* bound: touchSession goroutines at a time
          MaxFaults,   \* bound: updates that fail
          MaxRestarts  \* bound: restarts of the server

ASSUME SessionAssumption ==
  /\ ClientOf \in [Sessions -> Clients]
  /\ TokenLife \in Nat /\ Debounce \in Nat \ {0} /\ ActiveFor \in Nat

VARIABLES row,        \* row[s]: last_active_at, or None before the insert
          expiresAt,  \* the exp claim of the session's token
          lastTouch,  \* AuthMiddleware.lastTouch[s], or None
          ended,      \* sessions with status 'ended'
          stage,      \* stage[g]: "idle", "started", "marked", "issued"
          touched,    \* touched[g]: the session that goroutine g is for
          issuedAt,   \* issuedAt[g]: the time in the update that g has issued
          served,     \* history variable: when a request of s was last served
          stale,      \* history variable: the update of the last touch of s failed,
                      \* or one of an earlier touch was executed after it
          faults, restarts
touchVars == <<stage, touched, issuedAt>>
sessionVars == <<row, expiresAt, lastTouch, ended, touchVars, served, stale, faults, restarts>>
vars == <<limiterVars, sessionVars>>

None == -1

Init ==
  /\ LimiterInit
  /\ row = [s \in Sessions |-> None] /\ expiresAt = [s \in Sessions |-> None]
  /\ lastTouch = [s \in Sessions |-> None] /\ served = [s \in Sessions |-> None]
  /\ stage = [g \in Goroutines |-> "idle"] /\ issuedAt = [g \in Goroutines |-> None]
  /\ touched \in [Goroutines -> Sessions]
  /\ ended = {} /\ stale = {} /\ faults = 0 /\ restarts = 0

TokenExpiry == now + TokenLife

(* CreateLiveSession: the token is signed before the row is inserted.       *)
Create(s) ==
  /\ row[s] = None
  /\ Allow(ClientOf[s])
  /\ row' = [row EXCEPT ![s] = now]
  /\ expiresAt' = [expiresAt EXCEPT ![s] = TokenExpiry]
  /\ UNCHANGED <<lastTouch, ended, touchVars, served, stale, faults, restarts>>

(* The other requests of an address: refused by the limiter, or let through *)
(* and failing (no such stream, the insert fails), or for a session of a    *)
(* video, which no viewer count includes.                                   *)
OtherRequest(c) ==
  /\ Allow(c) \/ Refuse(c)
  /\ UNCHANGED sessionVars

(* ParseToken: the claims alone decide, the row is not looked at.           *)
TokenValid(s) == now < expiresAt[s]

(* RequireLiveToken: a request with a valid token of this stream starts a   *)
(* touchSession of its own.                                                 *)
Fetch(s, g) ==
  /\ TokenValid(s) /\ stage[g] = "idle"
  /\ served' = [served EXCEPT ![s] = now]
  /\ stage' = [stage EXCEPT ![g] = "started"]
  /\ touched' = [touched EXCEPT ![g] = s]
  /\ UNCHANGED <<limiterVars, row, expiresAt, lastTouch, ended, issuedAt, stale, faults, restarts>>

(* PostEvents got a playback_end, and MarkEnded was not cancelled.  No      *)
(* token is looked at, and the session's token stays valid.                 *)
End(s) ==
  /\ row[s] # None
  /\ ended' = ended \cup {s}
  /\ UNCHANGED <<limiterVars, row, expiresAt, lastTouch, touchVars, served, stale, faults, restarts>>

(* Mutant: the debounce is as long as the count's interval.                 *)
Debounced_Long(s) == lastTouch[s] # None /\ now - lastTouch[s] < ActiveFor

(* touchSession under the mutex.                                            *)
Debounced(s) == lastTouch[s] # None /\ now - lastTouch[s] < Debounce

SkipTouch(g) ==
  /\ stage[g] = "started" /\ Debounced(touched[g])
  /\ stage' = [stage EXCEPT ![g] = "idle"]
  /\ UNCHANGED <<limiterVars, row, expiresAt, lastTouch, ended, touched, issuedAt, served, stale,
                 faults, restarts>>

MarkTouch(g) ==
  /\ stage[g] = "started" /\ ~Debounced(touched[g])
  /\ lastTouch' = [lastTouch EXCEPT ![touched[g]] = now]
  /\ stage' = [stage EXCEPT ![g] = "marked"]
  /\ UNCHANGED <<limiterVars, row, expiresAt, ended, touched, issuedAt, served, stale, faults, restarts>>

(* TouchLastActive reads the clock again, before its statement gets a       *)
(* connection.                                                              *)
IssueTouch(g) ==
  /\ stage[g] = "marked"
  /\ issuedAt' = [issuedAt EXCEPT ![g] = now]
  /\ stage' = [stage EXCEPT ![g] = "issued"]
  /\ UNCHANGED <<limiterVars, row, expiresAt, lastTouch, ended, touched, served, stale, faults, restarts>>

(* The update of g is as recent as the last touch of its session.           *)
Newest(g) == issuedAt[g] >= lastTouch[touched[g]]

(* The update is executed, whatever the row's time and status are, or fails. *)
WriteTouch(g) ==
  /\ stage[g] = "issued"
  /\ stage' = [stage EXCEPT ![g] = "idle"] /\ issuedAt' = [issuedAt EXCEPT ![g] = None]
  /\ \/ /\ row' = [row EXCEPT ![touched[g]] = issuedAt[g]]
        /\ stale' = IF Newest(g) THEN stale \ {touched[g]} ELSE stale \cup {touched[g]}
        /\ UNCHANGED faults
     \/ /\ faults < MaxFaults
        /\ faults' = faults + 1
        /\ stale' = IF Newest(g) THEN stale \cup {touched[g]} ELSE stale
        /\ UNCHANGED row
  /\ UNCHANGED <<limiterVars, expiresAt, lastTouch, ended, touched, served, restarts>>

(* The goroutines of s that are under way.                                  *)
Touching(s) == {g \in Goroutines : touched[g] = s /\ stage[g] # "idle"}

(* A restart loses the map, the goroutines and the limiter's buckets; the   *)
(* rows and the tokens (the secret is configuration) outlive it.            *)
Restart ==
  /\ restarts < MaxRestarts
  /\ restarts' = restarts + 1
  /\ lastTouch' = [s \in Sessions |-> None]
  /\ stage' = [g \in Goroutines |-> "idle"] /\ issuedAt' = [g \in Goroutines |-> None]
  /\ stale' = stale \cup {s \in Sessions : Touching(s) # {}}
  /\ Reset
  /\ UNCHANGED <<row, expiresAt, ended, touched, served, faults>>

Next ==
  \/ \E s \in Sessions : Create(s) \/ End(s)
  \/ \E g \in Goroutines : \/ \E s \in Sessions : Fetch(s, g)
                           \/ SkipTouch(g) \/ MarkTouch(g) \/ IssueTouch(g) \/ WriteTouch(g)
  \/ \E c \in Clients : OtherRequest(c)
  \/ (Tick \/ Sweep) /\ UNCHANGED sessionVars
  \/ Restart

Spec == Init /\ [][Next]_vars

(* CountActiveByStreamID: rows that are not ended and were active in the    *)
(* last ActiveFor ticks.                                                    *)
Counted(s) == row[s] # None /\ s \notin ended /\ row[s] > now - ActiveFor

----------------------------------------------------------------------------
TypeOK ==
  /\ LimiterTypeOK
  /\ row \in [Sessions -> None..MaxTime] /\ served \in [Sessions -> None..MaxTime]
  /\ lastTouch \in [Sessions -> None..MaxTime]
  /\ expiresAt \in [Sessions -> None..(MaxTime + TokenLife)]
  /\ stage \in [Goroutines -> {"idle", "started", "marked", "issued"}]
  /\ touched \in [Goroutines -> Sessions] /\ issuedAt \in [Goroutines -> None..MaxTime]
  /\ ended \subseteq Sessions /\ stale \subseteq Sessions

(* A viewer whose player asked for something less than ActiveFor - Debounce *)
(* ago is counted, however its touches are debounced and whichever of their *)
(* goroutines is late, unless a goroutine is still on its way, the update   *)
(* of the last touch failed or an earlier touch's was executed after it, or *)
(* the session has been marked as ended.                                    *)
WatchingIsCounted ==
  \A s \in Sessions :
    /\ served[s] # None /\ served[s] + ActiveFor > now + Debounce
    /\ Touching(s) = {} /\ s \notin stale \cup ended
    => Counted(s)
=============================================================================
