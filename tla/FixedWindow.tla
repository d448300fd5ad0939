---------------------------- MODULE FixedWindow ----------------------------
(***************************************************************************)
(* What the comment on NewIPRateLimiter promises of each client: in a       *)
(* window that its first request opens, Limit requests are granted and the  *)
(* others refused; when the window is over the client starts afresh.        *)
(* Nothing here is stored, swept or looked up.                              *)
(***************************************************************************)
EXTENDS Integers

CONSTANTS Clients, Limit, Window

VARIABLES now,    \* the clock
          win,    \* win[c]: Fresh, or the open window's count and end
          answer  \* answer[c]: what c's last request was told
vars == <<now, win, answer>>

Fresh == [count |-> 0, until |-> 0]

Init == /\ now = 0
        /\ win = [c \in Clients |-> Fresh]
        /\ answer = [c \in Clients |-> "none"]

Tick == /\ now' = now + 1
        /\ win' = [c \in Clients |-> IF now' > win[c].until THEN Fresh ELSE win[c]]
        /\ UNCHANGED answer

Grant(c) ==
  /\ win[c].count < Limit
  /\ win' = [win EXCEPT ![c] = IF @ = Fresh THEN [count |-> 1, until |-> now + Window]
                               ELSE [count |-> @.count + 1, until |-> @.until]]
  /\ answer' = [answer EXCEPT ![c] = "granted"]
  /\ UNCHANGED now

Refuse(c) ==
  /\ win[c].count = Limit
  /\ answer' = [answer EXCEPT ![c] = "refused"]
  /\ UNCHANGED <<now, win>>

(* The counts live in memory: a new process starts without them.            *)
Forget == /\ win' = [c \in Clients |-> Fresh]
          /\ UNCHANGED <<now, answer>>

Next == Tick \/ Forget \/ \E c \in Clients : Grant(c) \/ Refuse(c)

Spec == Init /\ [][Next]_vars
============================================================================
