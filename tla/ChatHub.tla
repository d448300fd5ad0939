------------------------------ MODULE ChatHub ------------------------------
(***************************************************************************)
(* The chat room of one live stream: ChatHub (chat_service.go), the chat    *)
(* handler that serves it, the message table, and the watch page that posts *)
(* and listens.  Rooms of different streams share nothing but the mutex,    *)
(* which is held only inside the steps below.                               *)
(*                                                                          *)
(* A post is one message: Send stores the row, copies the set of channels   *)
(* under the lock (Announce) and, with the lock released, offers the        *)
(* message to one channel after the other.  A connection reads the stored   *)
(* history first and subscribes after; when it ends, Unsubscribe closes its *)
(* channel, whoever still holds it.  EventSource connects again.            *)
(***************************************************************************)
EXTENDS Integers, Sequences, SequencesExt, FiniteSets

CONSTANTS Viewers,        \* pages that listen
          Posters,        \* pages that post
          MaxSubscribers, \* channels a room may hold (500 in the code)
          Buffer,         \* capacity of a channel (8 in the code)
          HistoryLimit,   \* messages of the initial batch (100 in the code)
          Posts,          \* bound: <<page, k>>, the k-th message of a page
          HistoryMayFail, \* whether the history query may fail
          MaxConns        \* bound: connections a page opens

ASSUME ChatAssumption ==
  /\ MaxSubscribers \in Nat \ {0} /\ Buffer \in Nat \ {0}
  /\ HistoryLimit \in Nat \ {0} /\ MaxConns \in Nat /\ HistoryMayFail \in BOOLEAN
  /\ Posts \subseteq Posters \X Nat

VARIABLES
  stored,   \* live_chat_messages of the stream, in created_at order
  step,     \* step[m]: how far the request that posts m has come
  todo,     \* todo[m]: channels of broadcast's copy not offered m yet
  room,     \* rooms[streamID]: the subscribed channels
  closed,   \* the channels Unsubscribe has closed
  buf,      \* buf[c]: messages waiting in channel c
  pc,       \* pc[v]: "away", "history" (batch written), "open" (in the loop)
  conn,     \* conn[v]: how many connections v has opened
  seen,     \* seen[v]: what the current connection has written to v
  hurried,  \* history variable: pages that posted before an earlier answer
  racing,   \* history variable: stored posts not over when v read history
  missed,   \* history variable: posts announced, unseen, when v subscribed
  dropped   \* history variable: <<c, m>> where c was full when offered m

vars == <<stored, step, todo, room, closed, buf, pc, conn, seen, hurried, racing, missed, dropped>>

Msg     == Posts
Channel == Viewers \X (1..MaxConns)
Over    == {"sent", "panic"}

ChanOf(v) == <<v, conn[v]>>
Oldest(s) == SubSeq(s, 1, IF Len(s) < HistoryLimit THEN Len(s) ELSE HistoryLimit)

Init ==
  /\ stored = <<>>
  /\ step = [m \in Msg |-> "unsent"]
  /\ todo = [m \in Msg |-> {}]
  /\ room = {} /\ closed = {} /\ dropped = {} /\ hurried = {}
  /\ buf = [c \in Channel |-> <<>>]
  /\ pc = [v \in Viewers |-> "away"]
  /\ conn = [v \in Viewers |-> 0]
  /\ seen = [v \in Viewers |-> <<>>]
  /\ racing = [v \in Viewers |-> {}]
  /\ missed = [v \in Viewers |-> {}]

viewerVars == <<pc, conn, seen, racing, missed>>

----------------------------------------------------------------------------
(* Posting.  The page disables its button until the answer, but the Enter   *)
(* key does not look at it: posts may overlap and overtake each other.  A   *)
(* post that is refused (empty or too long, or the insert fails) leaves no  *)
(* trace and is not modelled.                                               *)

(* Mutant: the request is answered when its message is stored.              *)
InTurn_WhenStored(m) ==
  \A n \in Msg : n[1] = m[1] /\ n[2] < m[2] => step[n] # "unsent"

(* The post is one that the button would have let through.                  *)
InTurn(m) == \A n \in Msg : n[1] = m[1] /\ n[2] < m[2] => step[n] \in Over

Store(m) ==
  /\ step[m] = "unsent"
  /\ hurried' = IF InTurn(m) THEN hurried ELSE hurried \cup {m[1]}
  /\ stored' = Append(stored, m)
  /\ step' = [step EXCEPT ![m] = "stored"]
  /\ UNCHANGED <<todo, room, closed, buf, dropped, viewerVars>>

Announce(m) ==
  /\ step[m] = "stored"
  /\ step' = [step EXCEPT ![m] = IF room = {} THEN "sent" ELSE "sending"]
  /\ todo' = [todo EXCEPT ![m] = room]
  /\ UNCHANGED <<hurried, stored, room, closed, buf, dropped, viewerVars>>

(* The next channel of the copy; the last one ends the request.             *)
Offered(m, c) ==
  /\ todo' = [todo EXCEPT ![m] = @ \ {c}]
  /\ step' = [step EXCEPT ![m] = IF todo[m] = {c} THEN "sent" ELSE @]

Deliver(m, c) ==
  /\ c \in todo[m] \ closed
  /\ Len(buf[c]) < Buffer
  /\ buf' = [buf EXCEPT ![c] = Append(@, m)]
  /\ Offered(m, c)
  /\ UNCHANGED <<hurried, stored, room, closed, dropped, viewerVars>>

(* Mutant: a full channel ends the broadcast.                               *)
Drop_Returns(m, c) ==
  /\ c \in todo[m] \ closed
  /\ Len(buf[c]) >= Buffer
  /\ dropped' = dropped \cup {<<c, m>>}
  /\ todo' = [todo EXCEPT ![m] = {}]
  /\ step' = [step EXCEPT ![m] = "sent"]
  /\ UNCHANGED <<hurried, stored, room, closed, buf, viewerVars>>

Drop(m, c) ==
  /\ c \in todo[m] \ closed
  /\ Len(buf[c]) >= Buffer
  /\ dropped' = dropped \cup {<<c, m>>}
  /\ Offered(m, c)
  /\ UNCHANGED <<hurried, stored, room, closed, buf, viewerVars>>

(* A send on a closed channel panics, with or without a default case; the   *)
(* HTTP server recovers the panic and drops the poster's connection.        *)
Panic(m, c) ==
  /\ c \in todo[m] \cap closed
  /\ step' = [step EXCEPT ![m] = "panic"]
  /\ todo' = [todo EXCEPT ![m] = {}]
  /\ UNCHANGED <<hurried, stored, room, closed, buf, dropped, viewerVars>>

----------------------------------------------------------------------------
(* Listening: ChatStream.                                                   *)

(* The initial batch; of a query that fails, the rows read so far are sent. *)
ReadHistory(v) ==
  /\ pc[v] = "away" /\ conn[v] < MaxConns
  /\ \E n \in 0..Len(Oldest(stored)) :
       /\ HistoryMayFail \/ n = Len(Oldest(stored))
       /\ seen' = [seen EXCEPT ![v] = SubSeq(stored, 1, n)]
  /\ racing' = [racing EXCEPT ![v] = {m \in ToSet(stored) : step[m] \notin Over}]
  /\ conn' = [conn EXCEPT ![v] = @ + 1]
  /\ pc' = [pc EXCEPT ![v] = "history"]
  /\ UNCHANGED <<hurried, stored, step, todo, room, closed, buf, missed, dropped>>

(* Mutant: the channel starts with the newest message, to close the gap.    *)
Subscribe_Replays(v) ==
  /\ pc[v] = "history"
  /\ Cardinality(room) < MaxSubscribers
  /\ room' = room \cup {ChanOf(v)}
  /\ buf' = [buf EXCEPT ![ChanOf(v)] = IF stored = <<>> THEN <<>> ELSE <<Last(stored)>>]
  /\ pc' = [pc EXCEPT ![v] = "open"]
  /\ UNCHANGED <<hurried, stored, step, todo, closed, conn, seen, racing, missed, dropped>>

Subscribe(v) ==
  /\ pc[v] = "history"
  /\ Cardinality(room) < MaxSubscribers
  /\ room' = room \cup {ChanOf(v)}
  /\ missed' = [missed EXCEPT ![v] =
       {m \in ToSet(stored) \ ToSet(seen[v]) : step[m] # "stored"}]
  /\ pc' = [pc EXCEPT ![v] = "open"]
  /\ UNCHANGED <<hurried, stored, step, todo, closed, buf, conn, seen, racing, dropped>>

Forget(v) ==
  /\ pc' = [pc EXCEPT ![v] = "away"]
  /\ seen' = [seen EXCEPT ![v] = <<>>]
  /\ racing' = [racing EXCEPT ![v] = {}]
  /\ missed' = [missed EXCEPT ![v] = {}]

(* The room is full: the response ends, and EventSource comes back later.   *)
TurnAway(v) ==
  /\ pc[v] = "history"
  /\ Cardinality(room) >= MaxSubscribers
  /\ Forget(v)
  /\ UNCHANGED <<hurried, stored, step, todo, room, closed, buf, conn, dropped>>

Receive(v) ==
  /\ pc[v] = "open" /\ buf[ChanOf(v)] # <<>>
  /\ seen' = [seen EXCEPT ![v] = Append(@, Head(buf[ChanOf(v)]))]
  /\ buf' = [buf EXCEPT ![ChanOf(v)] = Tail(@)]
  /\ UNCHANGED <<hurried, stored, step, todo, room, closed, pc, conn, racing, missed, dropped>>

(* The request's context ends: the deferred Unsubscribe takes the channel   *)
(* out of the room and closes it.  What it still held nobody will read.     *)
Unsubscribe(v) ==
  /\ pc[v] = "open"
  /\ room' = room \ {ChanOf(v)}
  /\ closed' = closed \cup {ChanOf(v)}
  /\ buf' = [buf EXCEPT ![ChanOf(v)] = <<>>]
  /\ Forget(v)
  /\ dropped' = {d \in dropped : d[1] # ChanOf(v)}
  /\ UNCHANGED <<hurried, stored, step, todo, conn>>

Offer(m)  == \E c \in Channel : Deliver(m, c) \/ Drop(m, c) \/ Panic(m, c)
Listen(v) == ReadHistory(v) \/ Subscribe(v) \/ TurnAway(v) \/ Receive(v) \/ Unsubscribe(v)

Next ==
  \/ \E m \in Msg : Store(m) \/ Announce(m) \/ Offer(m)
  \/ \E v \in Viewers : Listen(v)

(* Only the goroutine of a request that has stored its message is assumed   *)
(* to run on; nothing is assumed of the listeners.                          *)
Spec == Init /\ [][Next]_vars /\ \A m \in Msg : WF_vars(Announce(m) \/ Offer(m))

----------------------------------------------------------------------------
TypeOK ==
  /\ stored \in Seq(Msg)
  /\ step \in [Msg -> {"unsent", "stored", "sending"} \cup Over]
  /\ todo \in [Msg -> SUBSET Channel]
  /\ room \subseteq Channel /\ closed \subseteq Channel
  /\ buf \in [Channel -> Seq(Msg)]
  /\ pc \in [Viewers -> {"away", "history", "open"}]
  /\ conn \in [Viewers -> 0..MaxConns]
  /\ seen \in [Viewers -> Seq(Msg)] /\ hurried \subseteq Posters
  /\ racing \in [Viewers -> SUBSET Msg] /\ missed \in [Viewers -> SUBSET Msg]
  /\ dropped \subseteq Channel \X Msg

(* A room holds exactly the channels of the connections that are in their   *)
(* loop, all of them open, and never more than the limit: Subscribe's       *)
(* check and Unsubscribe's removal are each one critical section.           *)
RoomIsViewers ==
  /\ room = {ChanOf(v) : v \in {w \in Viewers : pc[w] = "open"}}
  /\ room \cap closed = {}
  /\ Cardinality(room) <= MaxSubscribers

Reached(v) == ToSet(seen[v]) \cup ToSet(buf[ChanOf(v)])
Shown(v)   == seen[v] \o buf[ChanOf(v)]

(* A message answered with 201 reaches every connected viewer, unless its   *)
(* channel was full, or the message was announced while the connection      *)
(* stood between reading its history and subscribing (or lies beyond the    *)
(* history limit): there is no other way to lose one.                       *)
NoSilentLoss ==
  \A v \in Viewers, m \in Msg :
    pc[v] = "open" /\ step[m] = "sent" =>
      m \in Reached(v) \cup missed[v] \/ <<ChanOf(v), m>> \in dropped

Count(s, m) == Cardinality({i \in DOMAIN s : s[i] = m})

(* A connection shows a message twice only when the message was stored but  *)
(* still being broadcast while the connection read its history.             *)
TwiceOnlyIfInFlight ==
  \A v \in Viewers, m \in Msg :
    pc[v] = "open" /\ Count(Shown(v), m) > 1 => m \in racing[v]

InOrder(s, p) ==
  \A i, j \in DOMAIN s : i < j /\ s[i][1] = p /\ s[j][1] = p => s[i][2] <= s[j][2]

(* A connection shows the messages of a page that waits for its answers in  *)
(* the order they were posted, however the history, the broadcasts of       *)
(* several pages and the channel interleave.                                *)
SenderOrder ==
  \A v \in Viewers, p \in Posters \ hurried :
    pc[v] = "open" => InOrder(Shown(v), p)

(* The page disables its send button until the answer so that messages      *)
(* arrive in the order they were typed: so they do for every page.          *)
EveryoneInOrder ==
  \A v \in Viewers, p \in Posters :
    pc[v] = "open" => InOrder(Shown(v), p)

(* Whatever a viewer was shown survives a reload: it is in the table before *)
(* it is broadcast.                                                         *)
ShownIsStored ==
  \A v \in Viewers : pc[v] = "open" => Reached(v) \subseteq ToSet(stored)

(* A broadcast never has to wait for a listener: as long as the request is  *)
(* not over it can take a step of its own, whatever the channels hold and   *)
(* whoever has left.                                                        *)
BroadcastNeverWaits ==
  \A m \in Msg : step[m] \in {"stored", "sending"} => ENABLED (Announce(m) \/ Offer(m))

(* A post that is stored is answered (or its handler has panicked), even if *)
(* no viewer ever reads its channel again.                                  *)
EveryPostEnds == \A m \in Msg : step[m] = "stored" ~> step[m] \in Over

(* The comment on Send: it broadcasts to all subscribers.  When the request *)
(* is over, every subscriber it was announced to that is still connected    *)
(* has the message.                                                         *)
AllSubscribersGetIt ==
  \A v \in Viewers, m \in Msg :
    pc[v] = "open" /\ step[m] \in Over =>
      m \in Reached(v) \cup missed[v] \/ <<ChanOf(v), m>> \in dropped

(* The comment on the initial batch: it is the recent history, so it ends   *)
(* with the last message stored when it was read.                           *)
HistoryIsRecent ==
  [][\A v \in Viewers : pc[v] = "away" /\ pc'[v] = "history" /\ seen'[v] # <<>>
       => Last(seen'[v]) = Last(stored)]_vars

----------------------------------------------------------------------------
(* The inductive invariant of the proofs.                                   *)

(* A post is in the table from Store on, once; its copy of the room is empty *)
(* except during the broadcast.                                             *)
PostInv ==
  /\ \A i, j \in DOMAIN stored : stored[i] = stored[j] => i = j
  /\ \A m \in Msg : /\ m \in ToSet(stored) <=> step[m] # "unsent"
                    /\ step[m] = "sending" <=> todo[m] # {}

(* The posts of a page that waits for its answers are stored in its order,  *)
(* each when the ones before are over.                                      *)
TurnInv ==
  \A p \in Posters \ hurried :
    /\ InOrder(stored, p)
    /\ \A m \in Msg : m[1] = p /\ step[m] # "unsent" => InTurn(m)

(* Nobody has heard of a channel before it is subscribed.                   *)
Fresh(c) == LET v == c[1] IN c[2] > conn[v] \/ (pc[v] = "history" /\ c = ChanOf(v))
FreshInv ==
  \A c \in Channel : Fresh(c) =>
    /\ c \notin closed /\ buf[c] = <<>>
    /\ \A m \in Msg : c \notin todo[m] /\ <<c, m>> \notin dropped

RoomInv == RoomIsViewers /\ IsFiniteSet(room)

(* A message that was not on its way when v read the history is shown only  *)
(* once its broadcast has passed v.                                         *)
Passed(v, m) == step[m] \in Over
                \/ (pc[v] = "open" /\ step[m] = "sending" /\ ChanOf(v) \notin todo[m])
ShownOnce(v) ==
  \A i, j \in DOMAIN Shown(v) :
    Shown(v)[i] = Shown(v)[j] /\ Shown(v)[i] \notin racing[v] => i = j
ShownOK(v) ==
  /\ conn[v] >= 1
  /\ \A m \in ToSet(Shown(v)) : step[m] # "unsent" /\ (m \in racing[v] \/ Passed(v, m))
  /\ ShownOnce(v)
  /\ \A p \in Posters \ hurried : InOrder(Shown(v), p)
ViewerInv == \A v \in Viewers : pc[v] # "away" => ShownOK(v)
LossInv ==
  \A v \in Viewers, m \in Msg :
    pc[v] = "open" /\ (step[m] = "sent" \/ (step[m] = "sending" /\ ChanOf(v) \notin todo[m])) =>
      m \in ToSet(Shown(v)) \cup missed[v] \/ <<ChanOf(v), m>> \in dropped

ChatInv == TypeOK /\ PostInv /\ TurnInv /\ FreshInv /\ RoomInv /\ ViewerInv /\ LossInv
============================================================================
