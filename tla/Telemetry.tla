----------------------------- MODULE Telemetry -----------------------------
(***************************************************************************)
(* The telemetry of one playback session: the player page's TelemetryClient *)
(* (player.html), the PostEvents handler, and the session's row and events  *)
(* in the database.                                                         *)
(*                                                                          *)
(* The page collects events and sends what it has with a timer, and at once *)
(* when playback ends; it does not wait for one request before it sends the *)
(* next.  Only a network error puts the events back: an HTTP error does not *)
(* make fetch throw.  The handler reads the session's status, starts        *)
(* MarkEnded on the request's context, and then inserts the batch.          *)
(***************************************************************************)
EXTENDS Integers, Sequences, SequencesExt, FiniteSets

CONSTANTS Flights,     \* bound: requests under way at a time
          MaxRecorded, \* bound: events the page records
          MaxBreaks,   \* bound: connections that break
          MaxFaults    \* bound: statements that fail, bodies that cannot be read

ASSUME TelemetryAssumption ==
  /\ MaxRecorded \in Nat /\ MaxBreaks \in Nat /\ MaxFaults \in Nat

VARIABLES open,      \* the page is open
          recorded,  \* events 1..recorded were pushed, in this order
          ends,      \* those of them that are playback_end
          buffer,    \* eventBuffer
          batch,     \* batch[f]: the events of request f
          tab,       \* tab[f]: "idle", "waiting" for the answer, "over"
          srv,       \* srv[f]: "none", "sent", "checked", "ok", "error"
          marking,   \* requests whose MarkEnded goroutine has not run
          session,   \* playback_sessions.status, or "deleted" with its video
          stored,    \* playback_events of the session
          refused,   \* history variable: events answered with an HTTP error
          resent,    \* history variable: events put back into the buffer
          breaks, faults

tabVars == <<open, recorded, ends, buffer>>
telVars == <<tabVars, batch, tab, srv, marking, session, stored, refused, resent, breaks, faults>>

TelInit ==
  /\ open = TRUE /\ recorded = 0 /\ ends = {} /\ buffer = <<>>
  /\ batch = [f \in Flights |-> <<>>]
  /\ tab = [f \in Flights |-> "idle"] /\ srv = [f \in Flights |-> "none"]
  /\ marking = {} /\ session = "active" /\ stored = <<>>
  /\ refused = {} /\ resent = {} /\ breaks = 0 /\ faults = 0

----------------------------------------------------------------------------
(* The page.                                                                *)

Record ==
  /\ open /\ recorded < MaxRecorded
  /\ recorded' = recorded + 1
  /\ buffer' = Append(buffer, recorded')
  /\ UNCHANGED <<open, ends, batch, tab, srv, marking, session, stored, refused, resent, breaks, faults>>

(* Mutant: the buffer is emptied only by the answer, which other requests   *)
(* do not wait for.                                                         *)
Send_KeepsBuffer(f, events) ==
  /\ tab[f] = "idle" /\ srv[f] = "none"
  /\ batch' = [batch EXCEPT ![f] = events]
  /\ tab' = [tab EXCEPT ![f] = "waiting"]
  /\ srv' = [srv EXCEPT ![f] = "sent"]
  /\ buffer' = events
  /\ UNCHANGED <<marking, session, stored, refused, resent, breaks, faults>>

(* flush(): the buffer is emptied into the request before it is sent.       *)
Send(f, events) ==
  /\ tab[f] = "idle" /\ srv[f] = "none"
  /\ batch' = [batch EXCEPT ![f] = events]
  /\ tab' = [tab EXCEPT ![f] = "waiting"]
  /\ srv' = [srv EXCEPT ![f] = "sent"]
  /\ buffer' = <<>>
  /\ UNCHANGED <<marking, session, stored, refused, resent, breaks, faults>>

Flush(f) ==
  /\ open /\ buffer # <<>>
  /\ Send(f, buffer)
  /\ UNCHANGED <<open, recorded, ends>>

(* recordPlaybackEnd, when the video ends or (destroy) when the page goes.  *)
PlaybackEnd(f) ==
  /\ open /\ recorded < MaxRecorded
  /\ recorded' = recorded + 1
  /\ ends' = ends \cup {recorded'}
  /\ Send(f, Append(buffer, recorded'))
  /\ open' \in BOOLEAN

(* The answer arrives; whatever its status, fetch resolves.                 *)
Resolve(f) ==
  /\ tab[f] = "waiting" /\ srv[f] \in {"ok", "error"}
  /\ tab' = [tab EXCEPT ![f] = "over"]
  /\ UNCHANGED <<tabVars, batch, srv, marking, session, stored, refused, resent, breaks, faults>>

(* Mutant: the catch clause does nothing.                                   *)
Break_Drops(f) ==
  /\ breaks < MaxBreaks
  /\ tab[f] = "waiting"
  /\ breaks' = breaks + 1
  /\ tab' = [tab EXCEPT ![f] = "over"]
  /\ srv' \in {srv, [srv EXCEPT ![f] = IF @ = "sent" THEN "error" ELSE @]}
  /\ UNCHANGED <<tabVars, batch, marking, session, stored, refused, resent, faults>>

(* The connection breaks, before the request arrives or at any time before  *)
(* its answer does.  A page that is still open puts the events back.        *)
Break(f) ==
  /\ breaks < MaxBreaks
  /\ tab[f] = "waiting"
  /\ breaks' = breaks + 1
  /\ tab' = [tab EXCEPT ![f] = "over"]
  /\ srv' \in {srv, [srv EXCEPT ![f] = IF @ = "sent" THEN "error" ELSE @]}
  /\ buffer' = IF open THEN batch[f] \o buffer ELSE buffer
  /\ resent' = resent \cup ToSet(batch[f])
  /\ UNCHANGED <<open, recorded, ends, batch, marking, session, stored, refused, faults>>

(* Bookkeeping of the bound: a request that is over frees its slot.         *)
Free(f) ==
  /\ tab[f] = "over" /\ srv[f] \in {"ok", "error"} /\ f \notin marking
  /\ tab' = [tab EXCEPT ![f] = "idle"]
  /\ srv' = [srv EXCEPT ![f] = "none"]
  /\ batch' = [batch EXCEPT ![f] = <<>>]
  /\ UNCHANGED <<tabVars, marking, session, stored, refused, resent, breaks, faults>>

----------------------------------------------------------------------------
(* The server: PostEvents, MarkEnded, BatchInsert, and the owner's DELETE.  *)

Fail(f) ==
  /\ srv' = [srv EXCEPT ![f] = "error"]
  /\ refused' = IF tab[f] = "waiting" THEN refused \cup ToSet(batch[f]) ELSE refused

(* What fails of itself once the connection has broken, for the request's   *)
(* context ends with it, and otherwise counts as a fault.                   *)
Fault(f) ==
  IF tab[f] = "over" THEN UNCHANGED faults ELSE faults < MaxFaults /\ faults' = faults + 1

(* The status is read once, here.  A batch that holds a playback_end starts *)
(* MarkEnded in a goroutine of its own.  A session that is not active, one  *)
(* whose row cannot be read and a body that cannot be decoded or is too     *)
(* long are all answered with an HTTP error.                                *)
Check(f) ==
  /\ srv[f] = "sent"
  /\ \/ /\ session = "active"
        /\ srv' = [srv EXCEPT ![f] = "checked"]
        /\ marking' = IF ToSet(batch[f]) \cap ends # {} THEN marking \cup {f} ELSE marking
        /\ UNCHANGED <<refused, faults>>
     \/ /\ IF session # "active" THEN UNCHANGED faults ELSE Fault(f)
        /\ Fail(f)
        /\ UNCHANGED marking
  /\ UNCHANGED <<tabVars, batch, tab, session, stored, resent, breaks>>

(* One statement for the whole batch.  The aggregator takes it after.       *)
Insert(f) ==
  /\ srv[f] = "checked" /\ session # "deleted"
  /\ stored' = stored \o batch[f]
  /\ srv' = [srv EXCEPT ![f] = "ok"]
  /\ UNCHANGED <<tabVars, batch, tab, marking, session, refused, resent, breaks, faults>>

(* The insert fails: the session's row is gone, the request's context has   *)
(* ended with the connection, or the database fails.                        *)
InsertFails(f) ==
  /\ srv[f] = "checked"
  /\ IF session = "deleted" THEN UNCHANGED faults ELSE Fault(f)
  /\ Fail(f)
  /\ UNCHANGED <<tabVars, batch, tab, marking, session, stored, resent, breaks>>

MarkEnded(f) ==
  /\ f \in marking
  /\ marking' = marking \ {f}
  /\ session' = IF session = "active" THEN "ended" ELSE session
  /\ UNCHANGED <<tabVars, batch, tab, srv, stored, refused, resent, breaks, faults>>

(* The goroutine's statement runs on r.Context(), which ends with the       *)
(* handler or with the connection: it is cancelled, and nobody tries again. *)
MarkCancelled(f) ==
  /\ f \in marking
  /\ srv[f] \in {"ok", "error"} \/ tab[f] = "over"
  /\ marking' = marking \ {f}
  /\ UNCHANGED <<tabVars, batch, tab, srv, session, stored, refused, resent, breaks, faults>>

(* The transaction of VideoRepo.Delete: events, sessions, then the video.   *)
DeleteVideo ==
  /\ session # "deleted"
  /\ session' = "deleted" /\ stored' = <<>>
  /\ UNCHANGED <<tabVars, batch, tab, srv, marking, refused, resent, breaks, faults>>

----------------------------------------------------------------------------
Handle(f) == Check(f) \/ Insert(f) \/ InsertFails(f)
Mark(f)   == MarkEnded(f) \/ MarkCancelled(f)

TelNext ==
  \/ Record \/ DeleteVideo
  \/ \E f \in Flights : \/ Flush(f) \/ PlaybackEnd(f) \/ Resolve(f) \/ Break(f) \/ Free(f)
                        \/ Handle(f) \/ Mark(f)

(* The page's timer, the server's goroutines and the network's answers go   *)
(* on; nothing makes the viewer watch, end or close, nor anything break.    *)
Fairness == /\ WF_telVars(\E f \in Flights : Flush(f))
            /\ \A f \in Flights : /\ WF_telVars(Resolve(f)) /\ WF_telVars(Free(f))
                                  /\ WF_telVars(Handle(f)) /\ WF_telVars(Mark(f))

TelSpec  == TelInit /\ [][TelNext]_telVars
FairSpec == TelSpec /\ Fairness

----------------------------------------------------------------------------
TelTypeOK ==
  /\ open \in BOOLEAN /\ recorded \in 0..MaxRecorded /\ ends \subseteq 1..MaxRecorded
  /\ buffer \in Seq(1..MaxRecorded) /\ stored \in Seq(1..MaxRecorded)
  /\ batch \in [Flights -> Seq(1..MaxRecorded)]
  /\ tab \in [Flights -> {"idle", "waiting", "over"}]
  /\ srv \in [Flights -> {"none", "sent", "checked", "ok", "error"}]
  /\ marking \subseteq Flights /\ session \in {"active", "ended", "deleted"}
  /\ refused \subseteq 1..MaxRecorded /\ resent \subseteq 1..MaxRecorded

UnderWay == UNION {ToSet(batch[f]) : f \in {g \in Flights : tab[g] = "waiting"}}

(* As long as the page is open and its video exists, no event it recorded   *)
(* vanishes without an HTTP error: it is in the buffer, in a request, or in *)
(* the table, whatever requests overlap, break and are sent again.          *)
NoEventVanishes ==
  open /\ session # "deleted" =>
    1..recorded \subseteq ToSet(buffer) \cup UnderWay \cup ToSet(stored) \cup refused

(* An event is in the table twice only when a connection broke under the    *)
(* request that carried it and the page sent it again.                      *)
TwiceOnlyIfResent ==
  \A i, j \in DOMAIN stored : i # j /\ stored[i] = stored[j] => stored[i] \in resent

(* Once recorded, an event is settled, unless the page is closed or the     *)
(* video deleted first.                                                     *)
EveryEventSettles ==
  \A e \in 1..MaxRecorded :
    e <= recorded ~> e \in ToSet(stored) \cup refused \/ ~open \/ session = "deleted"

(* docs/README.md: playback_end marks the session ended.  When the batch    *)
(* that held it is stored and its goroutine is through, the session is not  *)
(* active any more.                                                         *)
EndMarksEnded ==
  \A f \in Flights :
    srv[f] = "ok" /\ f \notin marking /\ ToSet(batch[f]) \cap ends # {} => session # "active"

(* What was recorded before the end of playback is not refused because the  *)
(* session has ended.                                                       *)
NothingOvertaken ==
  \A e \in refused \ ToSet(stored) : faults = 0 /\ session = "ended" => \E d \in ends : d < e
============================================================================
