---------------------------- MODULE AlertEngine ----------------------------
(***************************************************************************)
(* The alert engine (alerting/engine.go) over the aggregator's published    *)
(* metrics and the system's state as buildSysMetrics (main.go) samples it.  *)
(* Of the eight rules the model keeps one of each kind: on the quality of   *)
(* playback, on sessions and live streams, on the job queue, on the host.   *)
(***************************************************************************)
EXTENDS QoeAggregator

CONSTANTS HistoryLimit, \* alerts that history keeps (100 in the code)
          MaxAlerts,    \* bound: alerts fired
          MaxChanges    \* bound: changes of the system's state

ASSUME EngineAssumption == HistoryLimit \in Nat \ {0} /\ MaxAlerts \in Nat /\ MaxChanges \in Nat

VARIABLES queueDeep,    \* more than ten jobs are queued
          diskLow,      \* less than 1 GB is free
          alerts,       \* every alert ever fired, in order: the heap
          activeAlerts, \* activeAlerts[r]: the index of r's alert, or 0
          history,      \* e.history: indices into alerts
          changes
alertVars == <<queueDeep, diskLow, alerts, activeAlerts, history, changes>>
vars == <<qoeVars, alertVars>>

RuleOrder == <<"high_rebuffer_rate", "disk_space_critical", "transcode_queue_backed_up", "no_active_sessions">>
Rules == ToSet(RuleOrder)

Init ==
  /\ QoeInit
  /\ queueDeep = FALSE /\ diskLow = FALSE /\ changes = 0
  /\ alerts = <<>> /\ history = <<>>
  /\ activeAlerts = [r \in Rules |-> 0]

SystemChanges ==
  /\ changes < MaxChanges
  /\ changes' = changes + 1
  /\ \/ queueDeep' = ~queueDeep /\ UNCHANGED diskLow
     \/ diskLow' = ~diskLow /\ UNCHANGED queueDeep
  /\ UNCHANGED <<qoeVars, alerts, activeAlerts, history>>

(* A live stream begins or ends.                                            *)
LiveChanges ==
  /\ changes < MaxChanges
  /\ changes' = changes + 1 /\ live' = 1 - live
  /\ UNCHANGED <<now, arriving, cacheVars, recentEvents, titleVars, loopVars, pageVars, ingested,
                 queueDeep, diskLow, alerts, activeAlerts, history>>

(* SystemMetrics as buildSysMetrics returns it: the queue's depth, and zero *)
(* for the free space and the latency of the database.                      *)
SysMetrics == [queueDeep |-> queueDeep, diskLow |-> FALSE]

Fires(r, m, sys) ==
  CASE r = "high_rebuffer_rate"        -> m.active > 0 /\ 20 * m.rebuffering > m.sessions
    [] r = "disk_space_critical"       -> sys.diskLow
    [] r = "transcode_queue_backed_up" -> sys.queueDeep
    [] r = "no_active_sessions"        -> m.active = 0 /\ m.live > 0

(* Mutant: history holds copies of the alerts.                              *)
Resolved_Copies(ids) == alerts

(* Resolving changes the alert that activeAlerts and history point to.      *)
Resolved(ids) == [i \in DOMAIN alerts |-> [alerts[i] EXCEPT !.active = @ /\ i \notin ids]]

(* appendHistory keeps the last of them.                                    *)
Kept(h) == SubSeq(h, IF Len(h) > HistoryLimit THEN Len(h) - HistoryLimit + 1 ELSE 1, Len(h))

(* The sequence rs has the rules as the loop over RuleOrder meets them.     *)
Place(r) == CHOOSE i \in DOMAIN RuleOrder : RuleOrder[i] = r
InOrder(rs) == \A i, j \in DOMAIN rs : i < j => Place(rs[i]) < Place(rs[j])

(* evaluate, under the engine's lock: rules that begin to fire get a new    *)
(* alert, in the order of the rules; alerts whose rule no longer fires are  *)
(* resolved, and history, which points to the same objects, shows it.       *)
Evaluate ==
  LET firing(r) == Fires(r, metrics, SysMetrics)
      begins    == {r \in Rules : firing(r) /\ activeAlerts[r] = 0}
      resolves  == {r \in Rules : ~firing(r) /\ activeAlerts[r] # 0}
      new(rs)   == [i \in DOMAIN rs |-> [rule |-> rs[i], active |-> TRUE]]
  IN
  /\ begins \cup resolves # {}
  /\ \E rs \in [1..Cardinality(begins) -> begins] :
       /\ ToSet(rs) = begins /\ InOrder(rs) /\ Len(alerts) + Len(rs) <= MaxAlerts
       /\ alerts' = Resolved({activeAlerts[r] : r \in resolves}) \o new(rs)
       /\ activeAlerts' = [r \in Rules |->
            IF r \in begins THEN Len(alerts) + (CHOOSE i \in DOMAIN rs : rs[i] = r)
            ELSE IF r \in resolves THEN 0 ELSE activeAlerts[r]]
       /\ history' = Kept(history \o [i \in DOMAIN rs |-> Len(alerts) + i])
  /\ UNCHANGED <<qoeVars, queueDeep, diskLow, changes>>

Next == \/ QoeNext /\ UNCHANGED alertVars
        \/ SystemChanges \/ LiveChanges \/ Evaluate

Spec == Init /\ [][Next]_vars

----------------------------------------------------------------------------
TypeOK ==
  /\ QoeTypeOK
  /\ alerts \in Seq([rule : Rules, active : BOOLEAN])
  /\ activeAlerts \in [Rules -> 0..Len(alerts)]
  /\ history \in Seq(1..Len(alerts))

(* The two lists of the alerts page agree: an alert in the history is shown *)
(* as active exactly when it is the one active alert of its rule, and no    *)
(* rule has fired again before its alert was resolved.                      *)
HistoryAgrees ==
  /\ \A i \in DOMAIN alerts : alerts[i].active <=> activeAlerts[alerts[i].rule] = i
  /\ \A r \in Rules : activeAlerts[r] # 0 => alerts[activeAlerts[r]].rule = r

(* README.md: the engine has rules for the disk space.  After an evaluation *)
(* an alert is active exactly for the conditions that hold of the system.   *)
AlertsMatchSystem ==
  [][alerts' # alerts =>
       (activeAlerts'["disk_space_critical"] # 0 <=> diskLow)]_vars

(* The comment on History: the most recent resolved and active alerts.  An  *)
(* active alert is in it.                                                   *)
ActiveIsInHistory == \A r \in Rules : activeAlerts[r] # 0 => activeAlerts[r] \in ToSet(history)
============================================================================
