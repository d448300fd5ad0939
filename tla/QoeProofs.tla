----------------------------- MODULE QoeProofs -----------------------------
(***************************************************************************)
(* What the dashboard rests on, for any sessions, videos, pages and limits. *)
(* Of the aggregator: no pruning strands a title or changes a number, and   *)
(* no broadcast meets a closed channel.  Of the alert engine: its two lists *)
(* agree.  Of telemetry: no event vanishes, and none is stored twice unless *)
(* it was sent again.                                                       *)
(***************************************************************************)
EXTENDS AlertEngine, Telemetry, FiniteSetTheorems, TLAPS

Arrival == [at : Int, session : Sessions, kind : Kinds]

QoeType ==
  /\ now \in Int /\ arriving \subseteq Arrival
  /\ activeSessions \in [Sessions -> Int] /\ tracked \subseteq Sessions
  /\ videoTitles \in [Videos -> {Absent, Placeholder, Title}]
  /\ fetches \subseteq Videos \X {Absent, Placeholder, Title}
  /\ page \in [Streams -> {"away", "open", "leaving", "closed"}]
  /\ subscribers \subseteq Streams

(* A query that brought an empty title is one that failed.                  *)
EmptyIsFailure == \A v \in Videos : <<v, Placeholder>> \in fetches => v \in unfetched

QoeInv == QoeType /\ EmptyIsFailure /\ EmptyTitleIsFetched /\ SendsOnlyToOpen

LEMMA QoeInit_Inv == QoeInit => QoeInv
  BY DEF QoeInit, QoeInv, QoeType, EmptyIsFailure, EmptyTitleIsFetched, SendsOnlyToOpen,
         Never, Absent, Placeholder

(* What a query returned tells the entries of a video apart.                *)
LEMMA OtherResult ==
  ASSUME NEW u, NEW v, NEW x, NEW y, x # y
  PROVE  <<u, x>> # <<v, y>>
  OBVIOUS

(* The invariant is about these variables: the other steps keep it.         *)
LEMMA QoeOthers ==
  ASSUME QoeInv, now' \in Int, arriving' \subseteq arriving,
         UNCHANGED <<activeSessions, tracked, videoTitles, fetches, unfetched, page, subscribers>>
  PROVE  QoeInv'
  BY DEF QoeInv, QoeType, EmptyIsFailure, EmptyTitleIsFetched, SendsOnlyToOpen

LEMMA QoeIngestStarts ==
  ASSUME QoeInv, NEW s \in Sessions, NEW k \in Kinds, IngestStarts(s, k)
  PROVE  QoeInv'
  BY DEF IngestStarts, cacheVars, titleVars, pageVars, Arrival,
         QoeInv, QoeType, EmptyIsFailure, EmptyTitleIsFetched, SendsOnlyToOpen

(* The first event of a video puts an empty title into the cache, and a     *)
(* goroutine that fetches the title, in one critical section.               *)
LEMMA QoeIngest ==
  ASSUME QoeInv, NEW e \in arriving, Ingest(e)
  PROVE  QoeInv'
<1> DEFINE v == VideoOf[e.session]
<1>1. e \in Arrival /\ v \in Videos
  BY DEF QoeInv, QoeType, Arrival, Videos
<1>2. /\ UNCHANGED <<now, unfetched, page, subscribers>>
      /\ arriving' \subseteq arriving /\ tracked' = tracked \cup {e.session}
      /\ activeSessions' = activeSessions \/ activeSessions' = [activeSessions EXCEPT ![e.session] = e.at]
      /\ \/ /\ videoTitles' = [videoTitles EXCEPT ![v] = Placeholder]
            /\ fetches' = fetches \cup {<<v, Absent>>}
         \/ UNCHANGED <<videoTitles, fetches>>
  BY DEF Ingest, pageVars
<1> HIDE DEF v
<1>3. QoeType'
  BY <1>1, <1>2 DEF QoeInv, QoeType, Arrival
<1>4. EmptyIsFailure'
  <2>1. \A u \in Videos : <<u, Placeholder>> # <<v, Absent>>
    BY OtherResult DEF Absent, Placeholder
  <2> QED
    BY <2>1, <1>2 DEF QoeInv, EmptyIsFailure
<1>5. EmptyTitleIsFetched'
  <2>1. CASE UNCHANGED <<videoTitles, fetches>>
    BY <2>1, <1>2 DEF QoeInv, EmptyTitleIsFetched
  <2>2. CASE /\ videoTitles' = [videoTitles EXCEPT ![v] = Placeholder]
             /\ fetches' = fetches \cup {<<v, Absent>>}
    <3>1. ASSUME NEW u \in Videos, u # v PROVE videoTitles'[u] = videoTitles[u]
      BY <2>2, <3>1 DEF QoeInv, QoeType
    <3>2. <<v, Absent>> \in fetches' /\ <<v, Absent>>[1] = v
      BY <2>2
    <3> QED
      BY <2>2, <3>1, <3>2, <1>2 DEF QoeInv, EmptyTitleIsFetched
  <2> QED
    BY <2>1, <2>2, <1>2
<1>6. SendsOnlyToOpen'
  BY <1>2 DEF QoeInv, SendsOnlyToOpen
<1> QED
  BY <1>3, <1>4, <1>5, <1>6 DEF QoeInv

LEMMA QoeQueryTitle ==
  ASSUME QoeInv, NEW v \in Videos, QueryTitle(v)
  PROVE  QoeInv'
<1>1. /\ UNCHANGED <<now, arriving, activeSessions, tracked, videoTitles, page, subscribers>>
      /\ \/ fetches' = (fetches \ {<<v, Absent>>}) \cup {<<v, Title>>} /\ unfetched' = unfetched
         \/ /\ \/ fetches' = fetches \ {<<v, Absent>>}
               \/ fetches' = (fetches \ {<<v, Absent>>}) \cup {<<v, Placeholder>>}
            /\ unfetched' = unfetched \cup {v}
  BY DEF QueryTitle, cacheVars, pageVars
<1>2. QoeType'
  BY <1>1 DEF QoeInv, QoeType
<1>3. EmptyIsFailure'
  <2> SUFFICES ASSUME NEW u \in Videos, <<u, Placeholder>> \in fetches' PROVE u \in unfetched'
    BY DEF EmptyIsFailure
  <2>1. <<u, Placeholder>> # <<v, Title>>
    BY OtherResult DEF Title, Placeholder
  <2>2. CASE u = v /\ v \in unfetched'
    BY <2>2
  <2>3. CASE u # v \/ v \notin unfetched'
    <3>1. u # v => <<u, Placeholder>> # <<v, Placeholder>>
      OBVIOUS
    <3>2. <<u, Placeholder>> \in fetches
      BY <2>1, <2>3, <3>1, <1>1
    <3> QED
      BY <3>2, <1>1 DEF QoeInv, EmptyIsFailure
  <2> QED
    BY <2>2, <2>3, <1>1
<1>4. EmptyTitleIsFetched'
  <2> SUFFICES ASSUME NEW u \in Videos, videoTitles'[u] = Placeholder
               PROVE  u \in unfetched' \/ \E f \in fetches' : f[1] = u
    BY DEF EmptyTitleIsFetched
  <2>1. u \in unfetched \/ \E f \in fetches : f[1] = u
    BY <1>1 DEF QoeInv, EmptyTitleIsFetched
  <2>2. CASE u = v
    <3>1. <<v, Title>>[1] = v
      OBVIOUS
    <3> QED
      BY <1>1, <2>2, <3>1
  <2>3. CASE u # v
    <3>1. ASSUME NEW f \in fetches, f[1] = u PROVE f \in fetches'
      <4>1. f # <<v, Absent>>
        BY <2>3, <3>1
      <4> QED
        BY <4>1, <1>1
    <3> QED
      BY <1>1, <2>1, <3>1
  <2> QED
    BY <2>2, <2>3
<1>5. SendsOnlyToOpen'
  BY <1>1 DEF QoeInv, SendsOnlyToOpen
<1> QED
  BY <1>2, <1>3, <1>4, <1>5 DEF QoeInv

LEMMA QoeStoreTitle ==
  ASSUME QoeInv, NEW f \in fetches, StoreTitle(f)
  PROVE  QoeInv'
<1>1. /\ UNCHANGED <<now, arriving, activeSessions, tracked, unfetched, page, subscribers>>
      /\ fetches' = fetches \ {f} /\ f[2] # Absent
      /\ videoTitles' = [videoTitles EXCEPT ![f[1]] = f[2]]
  BY DEF StoreTitle, pageVars
<1>2. PICK v \in Videos, x \in {Absent, Placeholder, Title} : f = <<v, x>>
  BY DEF QoeInv, QoeType
<1>3. /\ x \in {Placeholder, Title} /\ f[1] = v
      /\ videoTitles' = [videoTitles EXCEPT ![v] = x]
  BY <1>1, <1>2
<1>4. QoeType'
  BY <1>1, <1>3 DEF QoeInv, QoeType
<1>5. EmptyIsFailure'
  BY <1>1 DEF QoeInv, EmptyIsFailure
<1>6. EmptyTitleIsFetched'
  <2> SUFFICES ASSUME NEW u \in Videos, videoTitles'[u] = Placeholder
               PROVE  u \in unfetched' \/ \E g \in fetches' : g[1] = u
    BY DEF EmptyTitleIsFetched
  <2>1. CASE u = v
    <3>1. x = Placeholder
      BY <2>1, <1>3 DEF QoeInv, QoeType
    <3> QED
      BY <3>1, <2>1, <1>1, <1>2 DEF QoeInv, EmptyIsFailure
  <2>2. CASE u # v
    <3>1. videoTitles[u] = Placeholder
      BY <2>2, <1>3 DEF QoeInv, QoeType
    <3>2. u \in unfetched \/ \E g \in fetches : g[1] = u
      BY <3>1 DEF QoeInv, EmptyTitleIsFetched
    <3> QED
      BY <3>2, <2>2, <1>1, <1>3
  <2> QED
    BY <2>1, <2>2
<1>7. SendsOnlyToOpen'
  BY <1>1 DEF QoeInv, SendsOnlyToOpen
<1> QED
  BY <1>4, <1>5, <1>6, <1>7 DEF QoeInv

(* A pruning removes a title; it never leaves an empty one.                 *)
LEMMA QoePruneSessions ==
  ASSUME QoeInv, PruneSessions
  PROVE  QoeInv'
<1>1. /\ UNCHANGED <<now, arriving, fetches, unfetched, page, subscribers>>
      /\ activeSessions' \in [Sessions -> Int] /\ tracked' \subseteq Sessions
      /\ \E V : videoTitles' = [v \in Videos |-> IF v \in V THEN videoTitles[v] ELSE Absent]
  <2>1. UNCHANGED <<now, arriving, fetches, unfetched, page, subscribers>>
    BY DEF PruneSessions, titleVars, pageVars
  <2>2. activeSessions' \in [Sessions -> Int] /\ tracked' \subseteq Sessions
    BY DEF PruneSessions, QoeInv, QoeType, Never
  <2>3. \E V : videoTitles' = [v \in Videos |-> IF v \in V THEN videoTitles[v] ELSE Absent]
    <3> DEFINE gone == {s \in Sessions : activeSessions[s] # Never /\ activeSessions[s] < now - SessionLife}
               V == {v \in Videos : \E s \in tracked \ gone : VideoOf[s] = v}
    <3>1. videoTitles' = [v \in Videos |-> IF \E s \in tracked \ gone : VideoOf[s] = v
                                           THEN videoTitles[v] ELSE Absent]
      BY DEF PruneSessions
    <3> HIDE DEF gone
    <3>2. videoTitles' = [v \in Videos |-> IF v \in V THEN videoTitles[v] ELSE Absent]
      BY <3>1
    <3> QED
      BY <3>2
  <2> QED
    BY <2>1, <2>2, <2>3
<1>2. PICK V : videoTitles' = [v \in Videos |-> IF v \in V THEN videoTitles[v] ELSE Absent]
  BY <1>1
<1>3. QoeType'
  BY <1>1, <1>2 DEF QoeInv, QoeType
<1>4. EmptyTitleIsFetched'
  BY <1>1, <1>2 DEF QoeInv, EmptyTitleIsFetched, Absent, Placeholder
<1> QED
  BY <1>1, <1>3, <1>4 DEF QoeInv, EmptyIsFailure, SendsOnlyToOpen

(* Unsubscribe takes the channel out of the map before it is closed.        *)
LEMMA QoeStream ==
  ASSUME QoeInv, NEW d \in Streams, Stream(d)
  PROVE  QoeInv'
<1>1. /\ UNCHANGED <<now, arriving, activeSessions, tracked, videoTitles, fetches, unfetched>>
      /\ \/ page' = [page EXCEPT ![d] = "open"] /\ subscribers' = subscribers \cup {d}
         \/ UNCHANGED <<page, subscribers>>
         \/ page' = [page EXCEPT ![d] = "leaving"] /\ subscribers' = subscribers \ {d}
         \/ page[d] = "leaving" /\ page' = [page EXCEPT ![d] = "closed"] /\ subscribers' = subscribers
  BY DEF Stream, Subscribe, Receive, Unsubscribe, CloseChannel, cacheVars, titleVars
<1>2. QoeType'
  BY <1>1 DEF QoeInv, QoeType
<1>3. SendsOnlyToOpen'
  BY <1>1 DEF QoeInv, QoeType, SendsOnlyToOpen
<1> QED
  BY <1>1, <1>2, <1>3 DEF QoeInv, EmptyIsFailure, EmptyTitleIsFetched

(* One case per action of the aggregator, and the rest of the engine's.     *)
LEMMA QoeStep == QoeInv /\ [Next]_vars => QoeInv'
<1> SUFFICES ASSUME QoeInv, [Next]_vars PROVE QoeInv'
  OBVIOUS
<1>1. CASE Tick
  BY <1>1, QoeOthers DEF Tick, cacheVars, titleVars, pageVars, QoeInv, QoeType
<1>2. CASE Recalculate \/ Broadcast \/ PruneEvents
  BY <1>2, QoeOthers DEF Recalculate, Broadcast, PruneEvents, cacheVars, titleVars, pageVars, QoeInv, QoeType
<1>3. CASE SystemChanges \/ Evaluate
  BY <1>3, QoeOthers DEF SystemChanges, Evaluate, qoeVars, cacheVars, titleVars, pageVars, QoeInv, QoeType
<1>4. CASE LiveChanges
  BY <1>4, QoeOthers DEF LiveChanges, cacheVars, titleVars, pageVars, QoeInv, QoeType
<1>5. CASE UNCHANGED vars
  BY <1>5, QoeOthers DEF vars, qoeVars, cacheVars, titleVars, pageVars, QoeInv, QoeType
<1>6. CASE QoeNext
  BY <1>6, <1>1, <1>2, QoeIngestStarts, QoeIngest, QoeQueryTitle, QoeStoreTitle,
     QoePruneSessions, QoeStream DEF QoeNext
<1> QED
  BY <1>3, <1>4, <1>5, <1>6 DEF Next

(* No pruning between the halves of a fetch leaves an empty title in the    *)
(* cache for good: somebody fetches it, or a query failed.                  *)
THEOREM NoTitleIsStranded == Spec => []EmptyTitleIsFetched
<1>1. QoeInv => EmptyTitleIsFetched
  BY DEF QoeInv
<1> QED
  BY QoeInit_Inv, QoeStep, <1>1, PTL DEF Spec, Init

(* The broadcast of a snapshot never sends on a closed channel.             *)
THEOREM BroadcastNeverPanics == Spec => []SendsOnlyToOpen
<1>1. QoeInv => SendsOnlyToOpen
  BY DEF QoeInv
<1> QED
  BY QoeInit_Inv, QoeStep, <1>1, PTL DEF Spec, Init

----------------------------------------------------------------------------
(* The sessions a pruning removes are not active: the windows are the same. *)
LEMMA PruneIsInvisible ==
  ASSUME QoeInv, PruneSessions
  PROVE  Snapshot'.active = Snapshot.active /\ Snapshot'.perVideo = Snapshot.perVideo
<1> DEFINE gone == {s \in Sessions : activeSessions[s] # Never /\ activeSessions[s] < now - SessionLife}
<1>1. /\ activeSessions' = [s \in Sessions |-> IF s \in gone THEN Never ELSE activeSessions[s]]
      /\ tracked' = tracked \ gone /\ now' = now
  BY DEF PruneSessions
<1>2. /\ activeSessions \in [Sessions -> Int] /\ tracked \subseteq Sessions
      /\ now \in Int /\ SessionLife \in Nat
  BY AggregatorAssumption DEF QoeInv, QoeType
<1>3. ASSUME NEW s \in gone PROVE s \in Sessions /\ ~IsActive(s) /\ ~IsActive(s)'
  BY <1>1, <1>2 DEF IsActive, Never
<1>4. ASSUME NEW s \in Sessions PROVE IsActive(s)' <=> IsActive(s)
  <2>1. CASE s \in gone
    BY <2>1, <1>3
  <2>2. CASE s \notin gone
    BY <2>2, <1>1 DEF IsActive
  <2> QED
    BY <2>1, <2>2
<1> HIDE DEF gone
<1>5. {s \in Sessions : IsActive(s)}' = {s \in Sessions : IsActive(s)}
  BY <1>4
<1>6. ASSUME NEW v
      PROVE  {s \in tracked : IsActive(s) /\ VideoOf[s] = v}' = {s \in tracked : IsActive(s) /\ VideoOf[s] = v}
  <2>1. ASSUME NEW s PROVE s \in tracked' /\ IsActive(s)' <=> s \in tracked /\ IsActive(s)
    BY <1>1, <1>2, <1>3, <1>4
  <2> QED
    BY <2>1
<1>7. \A v : PerVideo(v)' = PerVideo(v)
  BY <1>6 DEF PerVideo
<1> QED
  BY <1>5, <1>7 DEF Snapshot

(* Only a pruning forgets a session, and an ingest, which has an arrival    *)
(* less, adds one.                                                          *)
LEMMA OnlyPruneForgets ==
  ASSUME [Next]_vars, tracked' # tracked, arriving' = arriving
  PROVE  PruneSessions
<1>1. ASSUME NEW e \in arriving, Ingest(e) PROVE arriving' # arriving
  BY <1>1 DEF Ingest
<1>2. CASE SystemChanges \/ Evaluate \/ UNCHANGED vars
  BY <1>2 DEF SystemChanges, Evaluate, vars, qoeVars, cacheVars
<1>3. CASE LiveChanges
  BY <1>3 DEF LiveChanges, cacheVars
<1>4. ASSUME NEW d \in Streams, Stream(d) PROVE tracked' = tracked
  BY <1>4 DEF Stream, Subscribe, Receive, Unsubscribe, CloseChannel, cacheVars
<1>5. ASSUME NEW f \in fetches, StoreTitle(f) PROVE tracked' = tracked
  BY <1>5 DEF StoreTitle
<1>6. ASSUME NEW v \in Videos, QueryTitle(v) PROVE tracked' = tracked
  BY <1>6 DEF QueryTitle, cacheVars
<1>7. ASSUME NEW s \in Sessions, NEW k \in Kinds, IngestStarts(s, k) PROVE tracked' = tracked
  BY <1>7 DEF IngestStarts, cacheVars
<1>8. CASE Tick \/ Recalculate \/ Broadcast \/ PruneEvents
  BY <1>8 DEF Tick, Recalculate, Broadcast, PruneEvents, cacheVars
<1> QED
  BY <1>1, <1>2, <1>3, <1>4, <1>5, <1>6, <1>7, <1>8 DEF Next, QoeNext

(* Pruning sessions frees memory and changes neither the count of active    *)
(* sessions nor that of any video.                                          *)
THEOREM PruningIsInvisible == Spec => PruneChangesNothing
<1>1. QoeInv /\ [Next]_vars =>
        [tracked' # tracked /\ ingested' = ingested /\ arriving' = arriving
           => Snapshot'.active = Snapshot.active /\ Snapshot'.perVideo = Snapshot.perVideo]_qoeVars
  BY OnlyPruneForgets, PruneIsInvisible
<1> QED
  BY QoeInit_Inv, QoeStep, <1>1, PTL DEF Spec, Init, PruneChangesNothing

----------------------------------------------------------------------------
Alert == [rule : Rules, active : BOOLEAN]

(* The alerts that activeAlerts points to exist.                            *)
AlertInv ==
  /\ alerts \in Seq(Alert)
  /\ activeAlerts \in [Rules -> Nat]
  /\ \A r \in Rules : activeAlerts[r] <= Len(alerts)
  /\ HistoryAgrees

LEMMA AlertInit == Init => AlertInv
<1> SUFFICES ASSUME Init PROVE AlertInv
  OBVIOUS
<1>1. alerts = <<>> /\ activeAlerts = [r \in Rules |-> 0]
  BY DEF Init
<1> QED
  BY <1>1 DEF AlertInv, HistoryAgrees

LEMMA AlertsJoined ==
  ASSUME NEW a \in Seq(Alert), NEW b \in Seq(Alert)
  PROVE  /\ a \o b \in Seq(Alert) /\ Len(a \o b) = Len(a) + Len(b)
         /\ Len(a) \in Nat /\ Len(b) \in Nat
         /\ \A i \in 1..Len(a) : (a \o b)[i] = a[i]
         /\ \A i \in 1..Len(b) : (a \o b)[Len(a) + i] = b[i]
  OBVIOUS

(* The new alerts are after the old ones, of which some are resolved.       *)
AlertsAfter(ids, b) ==
  /\ Len(alerts) \in Nat /\ Len(b) \in Nat
  /\ alerts' \in Seq(Alert) /\ Len(alerts') = Len(alerts) + Len(b)
  /\ \A i \in 1..Len(alerts) : /\ alerts'[i].rule = alerts[i].rule
                               /\ alerts'[i].active = (alerts[i].active /\ i \notin ids)
  /\ \A i \in 1..Len(b) : alerts'[Len(alerts) + i] = b[i]

LEMMA ResolvedThenNew ==
  ASSUME alerts \in Seq(Alert), NEW ids, NEW b \in Seq(Alert), alerts' = Resolved(ids) \o b
  PROVE  AlertsAfter(ids, b)
<1> DEFINE n == Len(alerts)
           a == Resolved(ids)
<1>1. n \in Nat /\ DOMAIN alerts = 1..n /\ \A i \in 1..n : alerts[i] \in Alert
  OBVIOUS
<1>2. a = [i \in 1..n |-> [alerts[i] EXCEPT !.active = @ /\ i \notin ids]]
  BY <1>1 DEF Resolved
<1>3. ASSUME NEW i \in 1..n
      PROVE  LET x == [alerts[i] EXCEPT !.active = @ /\ i \notin ids]
             IN x \in Alert /\ x.rule = alerts[i].rule /\ x.active = (alerts[i].active /\ i \notin ids)
  <2>1. PICK r \in Rules, v \in BOOLEAN : alerts[i] = [rule |-> r, active |-> v]
    BY <1>1 DEF Alert
  <2>2. [alerts[i] EXCEPT !.active = @ /\ i \notin ids] = [rule |-> r, active |-> v /\ i \notin ids]
    BY <2>1
  <2> QED
    BY <2>1, <2>2 DEF Alert
<1>4. /\ a \in Seq(Alert) /\ Len(a) = n
      /\ \A i \in 1..n : a[i].rule = alerts[i].rule /\ a[i].active = (alerts[i].active /\ i \notin ids)
  <2> HIDE DEF n
  <2>1. a \in [1..n -> Alert]
    BY <1>2, <1>3
  <2>2. ASSUME NEW i \in 1..n
        PROVE  a[i].rule = alerts[i].rule /\ a[i].active = (alerts[i].active /\ i \notin ids)
    <3>1. a[i] = [alerts[i] EXCEPT !.active = @ /\ i \notin ids]
      BY <1>2
    <3> QED
      BY <3>1, <1>3, Zenon
  <2> QED
    BY <1>1, <2>1, <2>2
<1> HIDE DEF a, n
<1>5. /\ alerts' \in Seq(Alert) /\ Len(alerts') = n + Len(b) /\ Len(b) \in Nat
      /\ \A i \in 1..n : alerts'[i] = a[i]
      /\ \A i \in 1..Len(b) : alerts'[n + i] = b[i]
  BY <1>4, AlertsJoined DEF a
<1> QED
  BY <1>1, <1>4, <1>5 DEF n, AlertsAfter

(* A rule is in the sequence of those that begin at most once.              *)
LEMMA OrderIsOnce ==
  ASSUME NEW n \in Nat, NEW rs \in [1..n -> Rules], InOrder(rs),
         NEW i \in 1..n, NEW j \in 1..n, rs[i] = rs[j]
  PROVE  i = j
<1>1. \A r \in Rules : Place(r) \in Int
  <2>1. ASSUME NEW r \in Rules PROVE \E k \in DOMAIN RuleOrder : RuleOrder[k] = r
    BY DEF Rules, ToSet
  <2>2. DOMAIN RuleOrder \subseteq Int
    BY DEF RuleOrder
  <2> QED
    BY <2>1, <2>2 DEF Place
<1>2. \A k, l \in 1..n : k < l => Place(rs[k]) < Place(rs[l])
  BY DEF InOrder
<1> QED
  BY <1>1, <1>2

LEMMA RulesAreFinite == IsFiniteSet(Rules)
<1>1. Rules = ({RuleOrder[1]} \cup {RuleOrder[2]}) \cup ({RuleOrder[3]} \cup {RuleOrder[4]})
  BY DEF Rules, ToSet, RuleOrder
<1>2. \A x : IsFiniteSet({x})
  BY FS_Singleton
<1>3. \A x, y : IsFiniteSet({x} \cup {y})
  BY <1>2, FS_Union
<1> QED
  BY <1>1, <1>3, FS_Union

LEMMA AlertEvaluate ==
  ASSUME AlertInv, Evaluate
  PROVE  AlertInv'
<1> DEFINE begins == {r \in Rules : Fires(r, metrics, SysMetrics) /\ activeAlerts[r] = 0}
           resolves == {r \in Rules : ~Fires(r, metrics, SysMetrics) /\ activeAlerts[r] # 0}
           m == Cardinality(begins)
           n == Len(alerts)
<1>0. m \in Nat
  BY RulesAreFinite, FS_Subset, FS_CardinalityType
<1>1. PICK rs \in [1..m -> begins] :
        /\ ToSet(rs) = begins /\ InOrder(rs)
        /\ alerts' = Resolved({activeAlerts[r] : r \in resolves})
                     \o [i \in DOMAIN rs |-> [rule |-> rs[i], active |-> TRUE]]
        /\ activeAlerts' = [r \in Rules |->
             IF r \in begins THEN Len(alerts) + (CHOOSE i \in DOMAIN rs : rs[i] = r)
             ELSE IF r \in resolves THEN 0 ELSE activeAlerts[r]]
  BY Zenon DEF Evaluate
<1>2. /\ \A r \in begins : activeAlerts[r] = 0
      /\ \A r \in resolves : activeAlerts[r] # 0
      /\ begins \in SUBSET Rules /\ resolves \in SUBSET Rules
      /\ DOMAIN rs = 1..m /\ InOrder(rs) /\ \A r \in begins : \E i \in 1..m : rs[i] = r
  <2>1. DOMAIN rs = 1..m /\ \A r \in begins : \E i \in 1..m : rs[i] = r
    BY <1>1 DEF ToSet
  <2> QED
    BY <1>1, <2>1
<1> HIDE DEF begins, resolves, m
<1> DEFINE ids == {activeAlerts[r] : r \in resolves}
           b == [i \in 1..m |-> [rule |-> rs[i], active |-> TRUE]]
           at(r) == CHOOSE i \in 1..m : rs[i] = r
<1>3. b \in Seq(Alert) /\ Len(b) = m /\ \A i \in 1..m : b[i].rule = rs[i] /\ b[i].active = TRUE
  BY <1>0, <1>2 DEF Alert
<1>4. \A r \in begins : at(r) \in 1..m /\ rs[at(r)] = r
  BY <1>2
<1>5. \A i \in 1..m : rs[i] \in begins /\ at(rs[i]) = i
  <2>1. rs \in [1..m -> Rules]
    BY <1>2
  <2>2. ASSUME NEW i \in 1..m PROVE rs[i] \in begins /\ at(rs[i]) = i
    <3>1. rs[i] \in begins
      OBVIOUS
    <3>2. at(rs[i]) \in 1..m /\ rs[at(rs[i])] = rs[i]
      BY <3>1, <1>4
    <3> HIDE DEF at
    <3> QED
      BY <3>1, <3>2, <1>0, <1>2, <2>1, OrderIsOnce
  <2> QED
    BY <2>2
<1>6. /\ n \in Nat /\ alerts' \in Seq(Alert) /\ Len(alerts') = n + m
      /\ \A i \in 1..n : /\ alerts'[i].rule = alerts[i].rule
                         /\ alerts'[i].active = (alerts[i].active /\ i \notin ids)
      /\ \A i \in 1..m : alerts'[n + i] = b[i]
  <2>1. alerts \in Seq(Alert) /\ b \in Seq(Alert) /\ alerts' = Resolved(ids) \o b
    BY <1>1, <1>2, <1>3 DEF AlertInv
  <2> HIDE DEF ids, b
  <2>2. AlertsAfter(ids, b)
    BY <2>1, ResolvedThenNew
  <2> QED
    BY <2>2, <1>3 DEF AlertsAfter
<1>7. /\ activeAlerts \in [Rules -> Nat] /\ \A r \in Rules : activeAlerts[r] <= n
      /\ \A i \in 1..n : alerts[i].rule \in Rules /\ alerts[i].active \in BOOLEAN
      /\ \A i \in 1..n : alerts[i].active <=> activeAlerts[alerts[i].rule] = i
      /\ \A r \in Rules : activeAlerts[r] # 0 => alerts[activeAlerts[r]].rule = r
  <2>1. DOMAIN alerts = 1..n /\ \A i \in 1..n : alerts[i] \in Alert
    BY DEF AlertInv
  <2> QED
    BY <2>1 DEF AlertInv, HistoryAgrees, Alert
<1>8. /\ DOMAIN activeAlerts' = Rules
      /\ \A r \in begins : activeAlerts'[r] = n + at(r)
      /\ \A r \in resolves : activeAlerts'[r] = 0
      /\ \A r \in Rules \ (begins \cup resolves) : activeAlerts'[r] = activeAlerts[r]
  <2>1. activeAlerts' = [r \in Rules |-> IF r \in begins THEN n + at(r)
                                       ELSE IF r \in resolves THEN 0 ELSE activeAlerts[r]]
    BY <1>1, <1>2
  <2>2. begins \cap resolves = {}
    BY <1>2
  <2> HIDE DEF at, n
  <2> QED
    BY <1>2, <2>1, <2>2
<1>9. \A i \in 1..m : alerts'[n + i].rule = rs[i] /\ alerts'[n + i].active = TRUE
  <2> HIDE DEF b
  <2> QED
    BY <1>3, <1>6
<1>10. \A i \in 1..n : i \in ids <=> alerts[i].rule \in resolves /\ activeAlerts[alerts[i].rule] = i
  BY <1>2, <1>7
<1> HIDE DEF n, at, ids, b
<1>11. activeAlerts' \in [Rules -> Nat] /\ \A r \in Rules : activeAlerts'[r] <= n + m
  <2>1. ASSUME NEW r \in Rules PROVE activeAlerts'[r] \in Nat /\ activeAlerts'[r] <= n + m
    <3>1. CASE r \in begins
      <4>1. activeAlerts'[r] = n + at(r) /\ at(r) \in 1..m
        BY <3>1, <1>4, <1>8
      <4> QED
        BY <4>1, <1>0, <1>6
    <3>2. CASE r \in resolves
      BY <3>2, <1>0, <1>6, <1>8
    <3>3. CASE r \notin begins /\ r \notin resolves
      <4>1. activeAlerts'[r] = activeAlerts[r] /\ activeAlerts[r] \in Nat /\ activeAlerts[r] <= n
        BY <3>3, <1>7, <1>8
      <4> QED
        BY <4>1, <1>0, <1>6
    <3> QED
      BY <3>1, <3>2, <3>3
  <2>2. activeAlerts' = [r \in Rules |-> activeAlerts'[r]]
    BY <1>1
  <2> QED
    BY <2>1, <2>2
<1>12. ASSUME NEW i \in 1..(n + m)
       PROVE  alerts'[i].active <=> activeAlerts'[alerts'[i].rule] = i
  <2>1. CASE i \in 1..n
    <3> DEFINE q == alerts[i].rule
    <3>1. q \in Rules /\ alerts'[i].rule = q /\ (alerts'[i].active <=> alerts[i].active /\ i \notin ids)
      BY <2>1, <1>6, <1>7
    <3>2. alerts[i].active <=> activeAlerts[q] = i
      BY <2>1, <1>7
    <3>3. i \in ids <=> q \in resolves /\ activeAlerts[q] = i
      BY <2>1, <1>10
    <3> HIDE DEF q
    <3>4. CASE q \in begins
      <4>1. activeAlerts[q] = 0 /\ activeAlerts'[q] = n + at(q) /\ at(q) \in 1..m
        BY <3>4, <1>2, <1>4, <1>8
      <4>2. activeAlerts[q] # i /\ activeAlerts'[q] # i
        BY <4>1, <2>1, <1>6
      <4> QED
        BY <3>1, <3>2, <4>2
    <3>5. CASE q \in resolves
      <4>1. activeAlerts'[q] # i
        BY <3>5, <2>1, <1>6, <1>8
      <4> QED
        BY <3>1, <3>2, <3>3, <3>5, <4>1
    <3>6. CASE q \in Rules \ (begins \cup resolves)
      BY <3>1, <3>2, <3>3, <3>6, <1>8
    <3> QED
      BY <3>1, <3>4, <3>5, <3>6
  <2>2. CASE i \notin 1..n
    <3>1. PICK k \in 1..m : i = n + k
      <4>1. i - n \in 1..m /\ i = n + (i - n)
        BY <2>2, <1>0, <1>6
      <4> QED
        BY <4>1
    <3>2. alerts'[i].active = TRUE /\ alerts'[i].rule = rs[k]
      BY <3>1, <1>9
    <3>3. activeAlerts'[rs[k]] = n + k
      BY <1>5, <1>8
    <3> QED
      BY <3>1, <3>2, <3>3
  <2> QED
    BY <2>1, <2>2
<1>13. ASSUME NEW r \in Rules, activeAlerts'[r] # 0
       PROVE  alerts'[activeAlerts'[r]].rule = r
  <2>1. CASE r \in begins
    BY <2>1, <1>4, <1>8, <1>9
  <2>2. CASE r \in Rules \ (begins \cup resolves)
    <3>1. activeAlerts'[r] = activeAlerts[r] /\ activeAlerts[r] \in 1..n
      BY <2>2, <1>6, <1>7, <1>8, <1>13
    <3> QED
      BY <3>1, <1>6, <1>7, <1>13
  <2> QED
    BY <2>1, <2>2, <1>8, <1>13
<1>14. HistoryAgrees'
  <2>1. DOMAIN alerts' = 1..(n + m)
    BY <1>6
  <2> QED
    BY <2>1, <1>12, <1>13 DEF HistoryAgrees
<1> QED
  BY <1>6, <1>11, <1>14 DEF AlertInv

LEMMA AlertStep == AlertInv /\ [Next]_vars => AlertInv'
<1> SUFFICES ASSUME AlertInv, [Next]_vars PROVE AlertInv'
  OBVIOUS
<1>1. CASE UNCHANGED <<alerts, activeAlerts>>
  BY <1>1 DEF AlertInv, HistoryAgrees
<1>2. CASE ~Evaluate
  BY <1>1, <1>2 DEF Next, SystemChanges, LiveChanges, vars, alertVars
<1> QED
  BY <1>2, AlertEvaluate

(* GET /dashboard's active alerts and its history never disagree, however   *)
(* many rules begin and cease to fire in one evaluation.                    *)
THEOREM TheListsAgree == Spec => []HistoryAgrees
<1>1. AlertInv => HistoryAgrees
  BY DEF AlertInv
<1> QED
  BY AlertInit, AlertStep, <1>1, PTL DEF Spec

----------------------------------------------------------------------------
(* The telemetry of one session, for any number of requests under way,      *)
(* events, broken connections and failing inserts.  It shares no variable   *)
(* with the aggregator.                                                     *)

(* What sequences of events hold.                                           *)
LEMMA EventsOf ==
  ASSUME NEW s \in Seq(Nat), NEW t \in Seq(Nat), NEW e \in Nat
  PROVE  /\ ToSet(<<>>) = {}
         /\ ToSet(Append(s, e)) = ToSet(s) \cup {e}
         /\ ToSet(s \o t) = ToSet(s) \cup ToSet(t)
<1>1. ToSet(<<>>) = {}
  BY DEF ToSet
<1>2. ToSet(Append(s, e)) = ToSet(s) \cup {e}
  <2>1. /\ DOMAIN Append(s, e) = 1..(Len(s) + 1) /\ DOMAIN s = 1..Len(s) /\ Len(s) \in Nat
        /\ \A i \in 1..Len(s) : Append(s, e)[i] = s[i]
        /\ Append(s, e)[Len(s) + 1] = e
    OBVIOUS
  <2> QED
    BY <2>1 DEF ToSet
<1>3. ToSet(s \o t) = ToSet(s) \cup ToSet(t)
  <2> DEFINE n == Len(s)
             m == Len(t)
             h == s \o t
  <2>1. /\ DOMAIN h = 1..(n + m) /\ DOMAIN s = 1..n /\ DOMAIN t = 1..m
        /\ n \in Nat /\ m \in Nat
        /\ \A i \in 1..n : h[i] = s[i]
        /\ \A i \in (n + 1)..(n + m) : h[i] = t[i - n]
    OBVIOUS
  <2> HIDE DEF h, n, m
  <2>2. \A i \in 1..m : n + i \in (n + 1)..(n + m) /\ (n + i) - n = i
    BY <2>1
  <2>3. \A i \in 1..m : h[n + i] = t[i]
    BY <2>1, <2>2
  <2>4. \A i \in 1..(n + m) : i \in 1..n \/ (i - n \in 1..m /\ h[i] = t[i - n])
    BY <2>1
  <2>5. \A x \in ToSet(h) : x \in ToSet(s) \cup ToSet(t)
    BY <2>1, <2>4 DEF ToSet
  <2>6. \A x \in ToSet(s) : x \in ToSet(h)
    BY <2>1 DEF ToSet
  <2>7. ASSUME NEW x \in ToSet(t) PROVE x \in ToSet(h)
    <3>1. PICK i \in 1..m : x = t[i]
      BY <2>1 DEF ToSet
    <3>2. n + i \in DOMAIN h /\ h[n + i] = x
      BY <3>1, <2>1, <2>3
    <3> QED
      BY <3>2 DEF ToSet
  <2> QED
    BY <2>5, <2>6, <2>7 DEF h
<1> QED
  BY <1>1, <1>2, <1>3

TelType ==
  /\ recorded \in Nat
  /\ buffer \in Seq(Nat) /\ stored \in Seq(Nat) /\ batch \in [Flights -> Seq(Nat)]
  /\ tab \in [Flights -> {"idle", "waiting", "over"}]
  /\ srv \in [Flights -> {"none", "sent", "checked", "ok", "error"}]

LEMMA TelTypeInit == TelInit => TelType
  BY DEF TelInit, TelType

(* What the actions do to the events, and where they leave them alone.      *)
LEMMA TelSend ==
  ASSUME TelType, NEW f \in Flights, Flush(f) \/ PlaybackEnd(f)
  PROVE  /\ TelType' /\ srv[f] = "none" /\ buffer' = <<>> /\ (open' => open)
         /\ \/ recorded' = recorded /\ batch' = [batch EXCEPT ![f] = buffer]
            \/ /\ recorded' = recorded + 1
               /\ batch' = [batch EXCEPT ![f] = Append(buffer, recorded + 1)]
         /\ tab[f] = "idle"
         /\ tab' = [tab EXCEPT ![f] = "waiting"] /\ srv' = [srv EXCEPT ![f] = "sent"]
         /\ UNCHANGED <<session, stored, refused, resent>>
<1> DEFINE B(events) == /\ srv[f] = "none" /\ buffer' = <<>> /\ tab[f] = "idle"
                        /\ batch' = [batch EXCEPT ![f] = events]
                        /\ tab' = [tab EXCEPT ![f] = "waiting"] /\ srv' = [srv EXCEPT ![f] = "sent"]
                        /\ UNCHANGED <<session, stored, refused, resent>>
<1>1. CASE Flush(f)
  <2>1. open' = open /\ recorded' = recorded /\ B(buffer)
    BY <1>1 DEF Flush, Send
  <2> QED
    BY <2>1 DEF TelType
<1>2. CASE PlaybackEnd(f)
  <2>1. open /\ recorded' = recorded + 1 /\ B(Append(buffer, recorded + 1))
    BY <1>2 DEF PlaybackEnd, Send
  <2>2. Append(buffer, recorded + 1) \in Seq(Nat) /\ recorded + 1 \in Nat
    BY DEF TelType
  <2>3. TelType'
    BY <2>1, <2>2 DEF TelType
  <2> QED
    BY <2>1, <2>3
<1> QED
  BY <1>1, <1>2

LEMMA TelRecord ==
  ASSUME TelType, Record
  PROVE  /\ TelType' /\ open' = open
         /\ recorded' = recorded + 1 /\ buffer' = Append(buffer, recorded + 1)
         /\ UNCHANGED <<batch, tab, srv, session, stored, refused, resent>>
  BY DEF Record, TelType

LEMMA TelBreak ==
  ASSUME TelType, NEW f \in Flights, Break(f)
  PROVE  /\ TelType' /\ open' = open
         /\ tab[f] = "waiting" /\ tab' = [tab EXCEPT ![f] = "over"]
         /\ srv' = srv \/ srv' = [srv EXCEPT ![f] = "error"]
         /\ buffer' = batch[f] \o buffer \/ (~open /\ buffer' = buffer)
         /\ resent' = resent \cup ToSet(batch[f])
         /\ UNCHANGED <<recorded, batch, session, stored, refused>>
<1>1. /\ open' = open
      /\ tab[f] = "waiting" /\ tab' = [tab EXCEPT ![f] = "over"]
      /\ buffer' = IF open THEN batch[f] \o buffer ELSE buffer
      /\ resent' = resent \cup ToSet(batch[f])
      /\ UNCHANGED <<recorded, batch, session, stored, refused>>
  BY DEF Break
<1>2. srv' = srv \/ srv' = [srv EXCEPT ![f] = "error"]
  <2>1. srv' \in {srv, [srv EXCEPT ![f] = IF @ = "sent" THEN "error" ELSE @]}
    BY DEF Break
  <2>2. srv[f] # "sent" => [srv EXCEPT ![f] = IF @ = "sent" THEN "error" ELSE @] = srv
    BY DEF TelType
  <2> QED
    BY <2>1, <2>2
<1>3. batch[f] \o buffer \in Seq(Nat)
  BY DEF TelType
<1>4. TelType'
  BY <1>1, <1>2, <1>3 DEF TelType
<1> QED
  BY <1>1, <1>2, <1>4

LEMMA TelInsert ==
  ASSUME TelType, NEW f \in Flights, Insert(f)
  PROVE  /\ TelType' /\ open' = open
         /\ srv[f] = "checked" /\ srv' = [srv EXCEPT ![f] = "ok"]
         /\ stored' = stored \o batch[f]
         /\ UNCHANGED <<recorded, buffer, batch, tab, session, refused, resent>>
<1>1. stored \o batch[f] \in Seq(Nat)
  BY DEF TelType
<1> QED
  BY <1>1 DEF Insert, tabVars, TelType

(* The answer of a request that is refused, at the check or by the insert.  *)
LEMMA TelFail ==
  ASSUME TelType, NEW f \in Flights, Check(f) \/ InsertFails(f)
  PROVE  /\ TelType' /\ open' = open /\ srv[f] \in {"sent", "checked"}
         /\ \/ srv' = [srv EXCEPT ![f] = "checked"] /\ refused' = refused
            \/ /\ srv' = [srv EXCEPT ![f] = "error"]
               /\ refused' = IF tab[f] = "waiting" THEN refused \cup ToSet(batch[f]) ELSE refused
         /\ UNCHANGED <<recorded, buffer, batch, tab, session, stored, resent>>
<1> DEFINE F == /\ srv' = [srv EXCEPT ![f] = "error"]
                /\ refused' = IF tab[f] = "waiting" THEN refused \cup ToSet(batch[f]) ELSE refused
           U == UNCHANGED <<open, recorded, buffer, batch, tab, session, stored, resent>>
<1>1. CASE Check(f)
  <2>1. /\ srv[f] = "sent" /\ U
        /\ F \/ (srv' = [srv EXCEPT ![f] = "checked"] /\ refused' = refused)
    BY <1>1 DEF Check, Fail, tabVars
  <2>2. TelType'
    BY <2>1 DEF TelType
  <2> QED
    BY <2>1, <2>2
<1>2. CASE InsertFails(f)
  <2>1. srv[f] = "checked" /\ U /\ F
    BY <1>2 DEF InsertFails, Fail, tabVars
  <2>2. TelType'
    BY <2>1 DEF TelType
  <2> QED
    BY <2>1, <2>2
<1> QED
  BY <1>1, <1>2

LEMMA TelOver ==
  ASSUME TelType, NEW f \in Flights, Resolve(f) \/ Free(f)
  PROVE  /\ TelType' /\ open' = open
         /\ \/ /\ tab[f] = "waiting" /\ srv[f] \in {"ok", "error"}
               /\ tab' = [tab EXCEPT ![f] = "over"] /\ UNCHANGED <<srv, batch>>
            \/ /\ tab[f] = "over" /\ srv[f] \in {"ok", "error"}
               /\ tab' = [tab EXCEPT ![f] = "idle"] /\ srv' = [srv EXCEPT ![f] = "none"]
               /\ batch' = [batch EXCEPT ![f] = <<>>]
         /\ UNCHANGED <<recorded, buffer, session, stored, refused, resent>>
<1> DEFINE U == UNCHANGED <<open, recorded, buffer, session, stored, refused, resent>>
<1>1. CASE Resolve(f)
  <2>1. /\ tab[f] = "waiting" /\ srv[f] \in {"ok", "error"}
        /\ tab' = [tab EXCEPT ![f] = "over"] /\ UNCHANGED <<srv, batch>> /\ U
    BY <1>1 DEF Resolve, tabVars
  <2>2. TelType'
    BY <2>1 DEF TelType
  <2> QED
    BY <2>1, <2>2
<1>2. CASE Free(f)
  <2>1. /\ tab[f] = "over" /\ srv[f] \in {"ok", "error"}
        /\ tab' = [tab EXCEPT ![f] = "idle"] /\ srv' = [srv EXCEPT ![f] = "none"]
        /\ batch' = [batch EXCEPT ![f] = <<>>] /\ U
    BY <1>2 DEF Free, tabVars
  <2>2. TelType'
    BY <2>1 DEF TelType
  <2> QED
    BY <2>1, <2>2
<1> QED
  BY <1>1, <1>2

LEMMA TelDelete ==
  ASSUME TelType, DeleteVideo
  PROVE  /\ TelType' /\ open' = open /\ session' = "deleted" /\ stored' = <<>>
         /\ UNCHANGED <<recorded, buffer, batch, tab, srv, refused, resent>>
  BY DEF DeleteVideo, tabVars, TelType

LEMMA TelMark ==
  ASSUME TelType, (\E f \in Flights : Mark(f)) \/ UNCHANGED telVars
  PROVE  /\ TelType' /\ open' = open
         /\ session' # session => session' = "ended" /\ session = "active"
         /\ UNCHANGED <<recorded, buffer, batch, tab, srv, stored, refused, resent>>
  BY DEF Mark, MarkEnded, MarkCancelled, telVars, tabVars, TelType

(* Where the page's event e is while nobody has taken it away.              *)
Accounted(e) ==
  \/ e \in ToSet(buffer) \/ e \in ToSet(stored) \/ e \in refused
  \/ \E f \in Flights : tab[f] = "waiting" /\ e \in ToSet(batch[f])

(* What the page has not been told yet, the server has done already.        *)
AnswerIsTrue(f) ==
  tab[f] = "waiting" =>
    /\ srv[f] = "ok" /\ session # "deleted" => ToSet(batch[f]) \subseteq ToSet(stored)
    /\ srv[f] = "error" => ToSet(batch[f]) \subseteq refused

VanishInv ==
  /\ TelType
  /\ \A f \in Flights : AnswerIsTrue(f)
  /\ open /\ session # "deleted" => \A e \in 1..recorded : Accounted(e)

LEMMA VanishInvIs == VanishInv => NoEventVanishes
<1> SUFFICES ASSUME VanishInv, open, session # "deleted", NEW e \in 1..recorded
             PROVE  e \in ToSet(buffer) \cup UnderWay \cup ToSet(stored) \cup refused
  BY DEF NoEventVanishes
<1>1. ASSUME NEW f \in Flights, tab[f] = "waiting", e \in ToSet(batch[f])
      PROVE  e \in UnderWay
  BY <1>1 DEF UnderWay
<1> QED
  BY <1>1 DEF VanishInv, Accounted

LEMMA VanishInit == TelInit => VanishInv
  BY TelTypeInit DEF TelInit, VanishInv, AnswerIsTrue

LEMMA VanishRecord ==
  ASSUME VanishInv, Record
  PROVE  VanishInv'
<1>1. /\ TelType /\ TelType' /\ open' = open
      /\ recorded' = recorded + 1 /\ buffer' = Append(buffer, recorded + 1)
      /\ UNCHANGED <<batch, tab, srv, session, stored, refused, resent>>
  BY TelRecord DEF VanishInv
<1>2. recorded \in Nat /\ ToSet(buffer') = ToSet(buffer) \cup {recorded + 1}
  BY <1>1, EventsOf DEF TelType
<1>3. \A f \in Flights : AnswerIsTrue(f)'
  BY <1>1 DEF VanishInv, AnswerIsTrue
<1>4. ASSUME open', session' # "deleted", NEW e \in 1..recorded' PROVE Accounted(e)'
  <2>1. CASE e = recorded + 1
    BY <2>1, <1>2 DEF Accounted
  <2>2. CASE e \in 1..recorded
    <3>1. Accounted(e)
      BY <2>2, <1>1, <1>4 DEF VanishInv
    <3> QED
      BY <3>1, <1>1, <1>2 DEF Accounted
  <2> QED
    BY <2>1, <2>2, <1>1, <1>2
<1> QED
  BY <1>1, <1>3, <1>4 DEF VanishInv

(* The events move from the buffer to the request, with one that is new.    *)
LEMMA VanishSend ==
  ASSUME VanishInv, NEW f \in Flights, Flush(f) \/ PlaybackEnd(f)
  PROVE  VanishInv'
<1>1. /\ TelType /\ TelType' /\ buffer' = <<>> /\ (open' => open)
      /\ \/ recorded' = recorded /\ batch' = [batch EXCEPT ![f] = buffer]
         \/ /\ recorded' = recorded + 1
            /\ batch' = [batch EXCEPT ![f] = Append(buffer, recorded + 1)]
      /\ tab[f] = "idle"
      /\ tab' = [tab EXCEPT ![f] = "waiting"] /\ srv' = [srv EXCEPT ![f] = "sent"]
      /\ UNCHANGED <<session, stored, refused>>
  BY TelSend DEF VanishInv
<1>2. /\ recorded \in Nat
      /\ \/ recorded' = recorded /\ ToSet(batch'[f]) = ToSet(buffer)
         \/ recorded' = recorded + 1 /\ ToSet(batch'[f]) = ToSet(buffer) \cup {recorded + 1}
  <2>1. recorded \in Nat /\ recorded + 1 \in Nat /\ buffer \in Seq(Nat) /\ f \in DOMAIN batch
    BY <1>1 DEF TelType
  <2>2. ToSet(Append(buffer, recorded + 1)) = ToSet(buffer) \cup {recorded + 1}
    BY <2>1, EventsOf
  <2>3. \/ recorded' = recorded /\ batch'[f] = buffer
        \/ recorded' = recorded + 1 /\ batch'[f] = Append(buffer, recorded + 1)
    BY <1>1, <2>1
  <2> QED
    BY <2>1, <2>2, <2>3
<1>3. /\ tab'[f] = "waiting" /\ srv'[f] = "sent"
      /\ \A g \in Flights \ {f} : tab'[g] = tab[g] /\ srv'[g] = srv[g] /\ batch'[g] = batch[g]
  BY <1>1 DEF TelType
<1>4. \A g \in Flights : AnswerIsTrue(g)'
  BY <1>1, <1>3 DEF VanishInv, AnswerIsTrue
<1>5. ASSUME open', session' # "deleted", NEW e \in 1..recorded' PROVE Accounted(e)'
  <2>1. CASE e \in ToSet(batch'[f])
    BY <2>1, <1>3 DEF Accounted
  <2>2. CASE e \notin ToSet(batch'[f])
    <3>1. e \in 1..recorded /\ e \notin ToSet(buffer)
      BY <2>2, <1>2
    <3>2. Accounted(e)
      BY <3>1, <1>1, <1>5 DEF VanishInv
    <3> QED
      BY <3>1, <3>2, <1>1, <1>3 DEF Accounted
  <2> QED
    BY <2>1, <2>2
<1> QED
  BY <1>1, <1>4, <1>5 DEF VanishInv

(* A page that is still there puts the events of a broken request back.     *)
LEMMA VanishBreak ==
  ASSUME VanishInv, NEW f \in Flights, Break(f)
  PROVE  VanishInv'
<1>1. /\ TelType /\ TelType' /\ open' = open
      /\ tab' = [tab EXCEPT ![f] = "over"]
      /\ srv' = srv \/ srv' = [srv EXCEPT ![f] = "error"]
      /\ buffer' = batch[f] \o buffer \/ (~open /\ buffer' = buffer)
      /\ UNCHANGED <<recorded, batch, session, stored, refused>>
  BY TelBreak DEF VanishInv
<1>2. open => ToSet(buffer') = ToSet(batch[f]) \cup ToSet(buffer)
  BY <1>1, EventsOf DEF TelType
<1>3. /\ tab'[f] = "over"
      /\ \A g \in Flights \ {f} : tab'[g] = tab[g] /\ srv'[g] = srv[g]
  BY <1>1 DEF TelType
<1>4. \A g \in Flights : AnswerIsTrue(g)'
  BY <1>1, <1>3 DEF VanishInv, AnswerIsTrue
<1>5. ASSUME open', session' # "deleted", NEW e \in 1..recorded' PROVE Accounted(e)'
  <2>1. Accounted(e)
    BY <1>1, <1>5 DEF VanishInv
  <2> QED
    BY <2>1, <1>1, <1>2, <1>3, <1>5 DEF Accounted
<1> QED
  BY <1>1, <1>4, <1>5 DEF VanishInv

LEMMA VanishInsert ==
  ASSUME VanishInv, NEW f \in Flights, Insert(f)
  PROVE  VanishInv'
<1>1. /\ TelType /\ TelType' /\ open' = open
      /\ srv' = [srv EXCEPT ![f] = "ok"] /\ stored' = stored \o batch[f]
      /\ UNCHANGED <<recorded, buffer, batch, tab, session, refused>>
  BY TelInsert DEF VanishInv
<1>2. ToSet(stored') = ToSet(stored) \cup ToSet(batch[f])
  BY <1>1, EventsOf DEF TelType
<1>3. srv'[f] = "ok" /\ \A g \in Flights \ {f} : srv'[g] = srv[g]
  BY <1>1 DEF TelType
<1>4. \A g \in Flights : AnswerIsTrue(g)'
  BY <1>1, <1>2, <1>3 DEF VanishInv, AnswerIsTrue
<1>5. ASSUME open', session' # "deleted", NEW e \in 1..recorded' PROVE Accounted(e)'
  BY <1>1, <1>2, <1>5 DEF VanishInv, Accounted
<1> QED
  BY <1>1, <1>4, <1>5 DEF VanishInv

LEMMA VanishFail ==
  ASSUME VanishInv, NEW f \in Flights, Check(f) \/ InsertFails(f)
  PROVE  VanishInv'
<1>1. /\ TelType /\ TelType' /\ open' = open
      /\ \/ srv' = [srv EXCEPT ![f] = "checked"] /\ refused' = refused
         \/ /\ srv' = [srv EXCEPT ![f] = "error"]
            /\ refused' = IF tab[f] = "waiting" THEN refused \cup ToSet(batch[f]) ELSE refused
      /\ UNCHANGED <<recorded, buffer, batch, tab, session, stored>>
  BY TelFail DEF VanishInv
<1>2. /\ refused \subseteq refused'
      /\ srv'[f] = "checked" \/ (tab[f] = "waiting" => ToSet(batch[f]) \subseteq refused')
      /\ srv'[f] \in {"checked", "error"} /\ \A g \in Flights \ {f} : srv'[g] = srv[g]
  BY <1>1 DEF TelType
<1>3. \A g \in Flights : AnswerIsTrue(g)'
  BY <1>1, <1>2 DEF VanishInv, AnswerIsTrue
<1>4. ASSUME open', session' # "deleted", NEW e \in 1..recorded' PROVE Accounted(e)'
  BY <1>1, <1>2, <1>4 DEF VanishInv, Accounted
<1> QED
  BY <1>1, <1>3, <1>4 DEF VanishInv

(* The answer the page gets is true: what was under way is settled.         *)
LEMMA VanishOver ==
  ASSUME VanishInv, NEW f \in Flights, Resolve(f) \/ Free(f)
  PROVE  VanishInv'
<1>1. /\ TelType /\ TelType' /\ open' = open
      /\ \/ /\ tab[f] = "waiting" /\ srv[f] \in {"ok", "error"}
            /\ tab' = [tab EXCEPT ![f] = "over"] /\ UNCHANGED <<srv, batch>>
         \/ /\ tab[f] = "over" /\ srv[f] \in {"ok", "error"}
            /\ tab' = [tab EXCEPT ![f] = "idle"] /\ srv' = [srv EXCEPT ![f] = "none"]
            /\ batch' = [batch EXCEPT ![f] = <<>>]
      /\ UNCHANGED <<recorded, buffer, session, stored, refused>>
  BY TelOver DEF VanishInv
<1>2. /\ tab'[f] # "waiting"
      /\ \A g \in Flights \ {f} : tab'[g] = tab[g] /\ srv'[g] = srv[g] /\ batch'[g] = batch[g]
  BY <1>1 DEF TelType
<1>3. tab[f] = "waiting" => srv[f] \in {"ok", "error"}
  BY <1>1
<1>4. \A g \in Flights : AnswerIsTrue(g)'
  BY <1>1, <1>2 DEF VanishInv, AnswerIsTrue
<1>5. ASSUME open', session' # "deleted", NEW e \in 1..recorded' PROVE Accounted(e)'
  <2>1. Accounted(e)
    BY <1>1, <1>5 DEF VanishInv
  <2>2. tab[f] = "waiting" /\ e \in ToSet(batch[f]) => e \in ToSet(stored) \/ e \in refused
    BY <1>1, <1>3, <1>5 DEF VanishInv, AnswerIsTrue
  <2> QED
    BY <2>1, <2>2, <1>1, <1>2 DEF Accounted
<1> QED
  BY <1>1, <1>4, <1>5 DEF VanishInv

LEMMA VanishStep == VanishInv /\ [TelNext]_telVars => VanishInv'
<1> SUFFICES ASSUME VanishInv, [TelNext]_telVars PROVE VanishInv'
  OBVIOUS
<1>1. CASE (\E f \in Flights : Mark(f)) \/ UNCHANGED telVars
  BY <1>1, TelMark DEF VanishInv, AnswerIsTrue, Accounted
<1>2. CASE DeleteVideo
  BY <1>2, TelDelete DEF VanishInv, AnswerIsTrue
<1> QED
  BY <1>1, <1>2, VanishRecord, VanishSend, VanishBreak, VanishInsert, VanishFail, VanishOver
     DEF TelNext, Handle

(* While the page is open and its video exists, an event it recorded is in  *)
(* the buffer, on its way, stored, or answered with an HTTP error.          *)
THEOREM NoTelemetryVanishes == TelSpec => []NoEventVanishes
  BY VanishInit, VanishStep, VanishInvIs, PTL DEF TelSpec

----------------------------------------------------------------------------
(* No event is twice in s, nor both in s and t, except those in R.          *)
Once(s, R)     == \A i, j \in 1..Len(s) : i # j /\ s[i] = s[j] => s[i] \in R
Apart(s, t, R) == ToSet(s) \cap ToSet(t) \subseteq R

LEMMA OnceAppend ==
  ASSUME NEW s \in Seq(Nat), NEW e \in Nat, NEW R, Once(s, R), e \notin ToSet(s)
  PROVE  Once(Append(s, e), R)
<1> DEFINE h == Append(s, e)
           n == Len(s)
<1>1. /\ n \in Nat /\ Len(h) = n + 1 /\ h[n + 1] = e /\ \A i \in 1..n : h[i] = s[i] /\ s[i] # e
  BY DEF ToSet
<1>2. \A i, j \in 1..n : i # j /\ s[i] = s[j] => s[i] \in R
  BY DEF Once
<1> HIDE DEF h, n
<1>3. ASSUME NEW i \in 1..(n + 1), NEW j \in 1..(n + 1), i # j, h[i] = h[j] PROVE h[i] \in R
  <2>1. i \in 1..n /\ j \in 1..n
    BY <1>1, <1>3
  <2> QED
    BY <2>1, <1>1, <1>2, <1>3
<1> QED
  BY <1>1, <1>3 DEF Once, h

LEMMA OnceConcat ==
  ASSUME NEW s \in Seq(Nat), NEW t \in Seq(Nat), NEW R,
         Once(s, R), Once(t, R), Apart(s, t, R)
  PROVE  Once(s \o t, R)
<1> DEFINE h == s \o t
           n == Len(s)
           m == Len(t)
<1>1. /\ n \in Nat /\ m \in Nat /\ Len(h) = n + m
      /\ \A i \in 1..n : h[i] = s[i]
      /\ \A i \in (n + 1)..(n + m) : h[i] = t[i - n]
  OBVIOUS
<1>2. /\ \A i, j \in 1..n : i # j /\ s[i] = s[j] => s[i] \in R
      /\ \A i, j \in 1..m : i # j /\ t[i] = t[j] => t[i] \in R
  BY DEF Once
<1>3. \A i \in 1..n, j \in 1..m : s[i] = t[j] => s[i] \in R
  <2>1. \A i \in 1..n : s[i] \in ToSet(s)
    BY DEF ToSet
  <2>2. \A j \in 1..m : t[j] \in ToSet(t)
    BY DEF ToSet
  <2> QED
    BY <2>1, <2>2 DEF Apart
<1> HIDE DEF h, n, m
<1>4. \A i \in 1..(n + m) : i \in 1..n \/ (i \in (n + 1)..(n + m) /\ i - n \in 1..m)
  BY <1>1
<1>5. ASSUME NEW i \in 1..(n + m), NEW j \in 1..(n + m), i # j, h[i] = h[j] PROVE h[i] \in R
  <2>1. CASE i \in 1..n /\ j \in 1..n
    BY <2>1, <1>1, <1>2, <1>5
  <2>2. CASE i \in 1..n /\ j \notin 1..n
    <3>1. j - n \in 1..m /\ h[j] = t[j - n] /\ h[i] = s[i]
      BY <2>2, <1>1, <1>4
    <3> QED
      BY <3>1, <2>2, <1>3, <1>5
  <2>3. CASE i \notin 1..n /\ j \in 1..n
    <3>1. i - n \in 1..m /\ h[i] = t[i - n] /\ h[j] = s[j]
      BY <2>3, <1>1, <1>4
    <3> QED
      BY <3>1, <2>3, <1>3, <1>5
  <2>4. CASE i \notin 1..n /\ j \notin 1..n
    <3>1. /\ i - n \in 1..m /\ h[i] = t[i - n]
          /\ j - n \in 1..m /\ h[j] = t[j - n] /\ i - n # j - n
      BY <2>4, <1>1, <1>4, <1>5
    <3> QED
      BY <3>1, <1>2, <1>5
  <2> QED
    BY <2>1, <2>2, <2>3, <2>4
<1> QED
  BY <1>1, <1>5 DEF Once, h

(* An event the page has not put back is in one place only: the buffer, one *)
(* request that the server has not answered, or the table.                  *)
Unanswered(f) == srv[f] \in {"sent", "checked"}

TwiceInv ==
  /\ TelType
  /\ ToSet(buffer) \subseteq 1..recorded /\ ToSet(stored) \subseteq 1..recorded
  /\ Once(buffer, resent) /\ Once(stored, resent) /\ Apart(buffer, stored, resent)
  /\ \A f \in Flights :
       /\ ToSet(batch[f]) \subseteq 1..recorded
       /\ Unanswered(f) => /\ Once(batch[f], resent)
                           /\ Apart(batch[f], buffer, resent) /\ Apart(batch[f], stored, resent)
  /\ \A f, g \in Flights : f # g /\ Unanswered(f) /\ Unanswered(g) => Apart(batch[f], batch[g], resent)

LEMMA TwiceInvIs == TwiceInv => TwiceOnlyIfResent
<1> SUFFICES ASSUME TwiceInv PROVE TwiceOnlyIfResent
  OBVIOUS
<1>1. DOMAIN stored = 1..Len(stored)
  BY DEF TwiceInv, TelType
<1> QED
  BY <1>1 DEF TwiceInv, Once, TwiceOnlyIfResent

LEMMA TwiceInit == TelInit => TwiceInv
<1> SUFFICES ASSUME TelInit PROVE TwiceInv
  OBVIOUS
<1>1. /\ buffer = <<>> /\ stored = <<>> /\ \A f \in Flights : batch[f] = <<>> /\ srv[f] = "none"
  BY DEF TelInit
<1>2. ToSet(<<>>) = {} /\ Len(<<>>) = 0
  BY DEF ToSet
<1> QED
  BY <1>1, <1>2, TelTypeInit DEF TwiceInv, Once, Apart, Unanswered

(* With more events put back, what held still does.                         *)
LEMMA MoreResent ==
  ASSUME NEW s, NEW t, NEW R, NEW Q, R \subseteq Q
  PROVE  (Once(s, R) => Once(s, Q)) /\ (Apart(s, t, R) => Apart(s, t, Q))
  BY DEF Once, Apart

LEMMA TwiceRecord ==
  ASSUME TwiceInv, Record
  PROVE  TwiceInv'
<1> DEFINE e == recorded + 1
<1>1. /\ TelType /\ TelType' /\ recorded' = e /\ buffer' = Append(buffer, e)
      /\ UNCHANGED <<batch, srv, stored, resent>>
  BY TelRecord DEF TwiceInv
<1>2. /\ recorded \in Nat /\ e \in Nat /\ e \notin 1..recorded /\ 1..e = (1..recorded) \cup {e}
      /\ buffer \in Seq(Nat)
  BY <1>1 DEF TelType
<1> HIDE DEF e
<1>3. ToSet(buffer') = ToSet(buffer) \cup {e}
  BY <1>1, <1>2, EventsOf
<1>4. Once(buffer', resent)
  BY <1>1, <1>2, OnceAppend DEF TwiceInv
<1>5. Apart(buffer', stored, resent)
  BY <1>2, <1>3 DEF TwiceInv, Apart
<1>6. ASSUME NEW f \in Flights, Unanswered(f) PROVE Apart(batch[f], buffer', resent)
  BY <1>2, <1>3, <1>6 DEF TwiceInv, Apart
<1> QED
  BY <1>1, <1>2, <1>3, <1>4, <1>5, <1>6 DEF TwiceInv, Unanswered

LEMMA TwiceSend ==
  ASSUME TwiceInv, NEW f \in Flights, Flush(f) \/ PlaybackEnd(f)
  PROVE  TwiceInv'
<1>1. /\ TelType /\ TelType' /\ buffer' = <<>> /\ srv[f] = "none"
      /\ \/ recorded' = recorded /\ batch' = [batch EXCEPT ![f] = buffer]
         \/ /\ recorded' = recorded + 1
            /\ batch' = [batch EXCEPT ![f] = Append(buffer, recorded + 1)]
      /\ srv' = [srv EXCEPT ![f] = "sent"]
      /\ UNCHANGED <<stored, resent>>
  BY TelSend DEF TwiceInv
<1>2. /\ recorded \in Nat /\ recorded + 1 \in Nat /\ recorded + 1 \notin 1..recorded
      /\ buffer \in Seq(Nat) /\ f \in DOMAIN batch
      /\ 1..(recorded + 1) = (1..recorded) \cup {recorded + 1}
  <2>1. recorded \in Nat /\ buffer \in Seq(Nat) /\ f \in DOMAIN batch
    BY <1>1 DEF TelType
  <2> QED
    BY <2>1
<1>3. \A g \in Flights \ {f} : batch'[g] = batch[g] /\ srv'[g] = srv[g]
  BY <1>1 DEF TelType
<1>4. 1..recorded \subseteq 1..recorded' /\ ToSet(buffer) \subseteq 1..recorded
  BY <1>1, <1>2 DEF TwiceInv
<1>5. /\ Once(batch'[f], resent)
      /\ \A x \in ToSet(batch'[f]) : x \in ToSet(buffer) \/ (x \notin 1..recorded /\ x \in 1..recorded')
  <2>1. CASE recorded' = recorded /\ batch' = [batch EXCEPT ![f] = buffer]
    BY <2>1, <1>2 DEF TwiceInv
  <2>2. CASE recorded' = recorded + 1 /\ batch' = [batch EXCEPT ![f] = Append(buffer, recorded + 1)]
    <3>1. batch'[f] = Append(buffer, recorded + 1)
      BY <2>2, <1>2
    <3>2. ToSet(batch'[f]) = ToSet(buffer) \cup {recorded + 1}
      BY <3>1, <1>2, EventsOf
    <3>3. Once(batch'[f], resent)
      BY <3>1, <1>2, <1>4, OnceAppend DEF TwiceInv
    <3> QED
      BY <2>2, <3>2, <3>3, <1>2
  <2> QED
    BY <2>1, <2>2, <1>1
<1>6. ToSet(buffer') = {} /\ Len(buffer') = 0
  BY <1>1 DEF ToSet
<1>7. /\ Once(buffer', resent) /\ Apart(buffer', stored, resent)
      /\ \A g \in Flights : Apart(batch'[g], buffer', resent)
  BY <1>6 DEF Once, Apart
<1>8. Apart(batch'[f], stored, resent)
  BY <1>4, <1>5 DEF TwiceInv, Apart
<1>9. ASSUME NEW g \in Flights, g # f, Unanswered(g)
      PROVE  Apart(batch'[f], batch[g], resent) /\ Apart(batch[g], batch'[f], resent)
  BY <1>4, <1>5, <1>9 DEF TwiceInv, Apart
<1>10. \A g \in Flights : ToSet(batch'[g]) \subseteq 1..recorded'
  BY <1>3, <1>4, <1>5 DEF TwiceInv
<1>11. \A g \in Flights \ {f} : Unanswered(g)' <=> Unanswered(g)
  BY <1>3 DEF Unanswered
<1>12. ASSUME NEW g \in Flights, Unanswered(g)'
       PROVE  Once(batch'[g], resent) /\ Apart(batch'[g], stored, resent)
  BY <1>3, <1>5, <1>8, <1>11, <1>12 DEF TwiceInv
<1>13. ASSUME NEW g \in Flights, NEW h \in Flights, g # h, Unanswered(g)', Unanswered(h)'
       PROVE  Apart(batch'[g], batch'[h], resent)
  BY <1>3, <1>9, <1>11, <1>13 DEF TwiceInv
<1>14. ToSet(stored) \subseteq 1..recorded'
  BY <1>4 DEF TwiceInv
<1> QED
  BY <1>1, <1>4, <1>6, <1>7, <1>10, <1>12, <1>13, <1>14 DEF TwiceInv

LEMMA TwiceBreak ==
  ASSUME TwiceInv, NEW f \in Flights, Break(f)
  PROVE  TwiceInv'
<1>1. /\ TelType /\ TelType'
      /\ srv' = srv \/ srv' = [srv EXCEPT ![f] = "error"]
      /\ buffer' = batch[f] \o buffer \/ buffer' = buffer
      /\ resent' = resent \cup ToSet(batch[f])
      /\ UNCHANGED <<recorded, batch, stored>>
  BY TelBreak DEF TwiceInv
<1>2. \A g \in Flights : Unanswered(g)' => Unanswered(g)
  BY <1>1 DEF Unanswered, TelType
<1>3. /\ buffer \in Seq(Nat) /\ batch[f] \in Seq(Nat)
      /\ ToSet(batch[f]) \subseteq resent' /\ resent \subseteq resent'
  BY <1>1 DEF TelType
<1>4. ToSet(buffer') \subseteq ToSet(buffer) \cup ToSet(batch[f])
  <2>1. ToSet(batch[f] \o buffer) = ToSet(batch[f]) \cup ToSet(buffer)
    BY <1>1, <1>3, EventsOf DEF TelType
  <2> QED
    BY <2>1, <1>1
<1>5. Once(buffer', resent')
  <2>1. Once(buffer, resent')
    BY <1>3, MoreResent DEF TwiceInv
  <2>2. Once(batch[f], resent') /\ Apart(batch[f], buffer, resent')
    <3>1. \A i \in 1..Len(batch[f]) : batch[f][i] \in ToSet(batch[f])
      BY <1>3 DEF ToSet
    <3> QED
      BY <3>1, <1>3 DEF Once, Apart
  <2>3. Once(batch[f] \o buffer, resent')
    BY <2>1, <2>2, <1>3, OnceConcat
  <2> QED
    BY <2>1, <2>3, <1>1
<1>6. Apart(buffer', stored', resent')
  BY <1>1, <1>3, <1>4 DEF TwiceInv, Apart
<1>7. Once(stored', resent')
  BY <1>1, <1>3, MoreResent DEF TwiceInv
<1>8. ASSUME NEW g \in Flights, Unanswered(g)'
      PROVE  /\ Once(batch'[g], resent')
             /\ Apart(batch'[g], buffer', resent') /\ Apart(batch'[g], stored', resent')
  <2>1. /\ Once(batch[g], resent) /\ Apart(batch[g], buffer, resent) /\ Apart(batch[g], stored, resent)
    BY <1>2, <1>8 DEF TwiceInv
  <2>2. Once(batch[g], resent')
    BY <2>1, <1>3, MoreResent
  <2> QED
    BY <2>1, <2>2, <1>1, <1>3, <1>4 DEF Apart
<1>9. ASSUME NEW g \in Flights, NEW h \in Flights, g # h, Unanswered(g)', Unanswered(h)'
      PROVE  Apart(batch'[g], batch'[h], resent')
  BY <1>1, <1>2, <1>3, <1>9, MoreResent DEF TwiceInv
<1>10. ToSet(buffer') \subseteq 1..recorded'
  BY <1>1, <1>4 DEF TwiceInv
<1> QED
  BY <1>1, <1>5, <1>6, <1>7, <1>8, <1>9, <1>10 DEF TwiceInv

(* The insert is the answer: the events move from the request to the table. *)
LEMMA TwiceInsert ==
  ASSUME TwiceInv, NEW f \in Flights, Insert(f)
  PROVE  TwiceInv'
<1>1. /\ TelType /\ TelType' /\ srv[f] = "checked" /\ srv' = [srv EXCEPT ![f] = "ok"]
      /\ stored' = stored \o batch[f]
      /\ UNCHANGED <<recorded, buffer, batch, resent>>
  BY TelInsert DEF TwiceInv
<1>2. ~Unanswered(f)' /\ Unanswered(f) /\ \A g \in Flights : Unanswered(g)' => Unanswered(g)
  BY <1>1 DEF Unanswered, TelType
<1>3. stored \in Seq(Nat) /\ batch[f] \in Seq(Nat)
  BY <1>1 DEF TelType
<1>4. ToSet(stored') = ToSet(stored) \cup ToSet(batch[f])
  BY <1>1, <1>3, EventsOf
<1>5. /\ Once(batch[f], resent) /\ Once(stored, resent)
      /\ Apart(batch[f], buffer, resent) /\ Apart(batch[f], stored, resent)
  BY <1>2 DEF TwiceInv
<1>6. Once(stored', resent)
  <2>1. Apart(stored, batch[f], resent)
    BY <1>5 DEF Apart
  <2> QED
    BY <2>1, <1>1, <1>3, <1>5, OnceConcat
<1>7. Apart(buffer, stored', resent)
  BY <1>4, <1>5 DEF TwiceInv, Apart
<1>8. ASSUME NEW g \in Flights, Unanswered(g)' PROVE Apart(batch[g], stored', resent)
  <2>1. g # f /\ Apart(batch[g], stored, resent) /\ Apart(batch[g], batch[f], resent)
    BY <1>2, <1>8 DEF TwiceInv
  <2> QED
    BY <2>1, <1>4 DEF Apart
<1>9. ToSet(stored') \subseteq 1..recorded
  BY <1>4 DEF TwiceInv
<1> QED
  BY <1>1, <1>2, <1>6, <1>7, <1>8, <1>9 DEF TwiceInv

(* The other steps of a request neither copy nor move an event.             *)
LEMMA TwiceOthers ==
  ASSUME TwiceInv, TelType', UNCHANGED <<recorded, buffer, stored, resent>>,
         \A f \in Flights : /\ Unanswered(f)' => Unanswered(f)
                            /\ batch'[f] = batch[f] \/ (batch'[f] = <<>> /\ ~Unanswered(f))
  PROVE  TwiceInv'
<1>1. ToSet(<<>>) = {}
  BY DEF ToSet
<1>2. \A f \in Flights : ToSet(batch'[f]) \subseteq 1..recorded
  BY <1>1 DEF TwiceInv
<1>3. \A f \in Flights : Unanswered(f)' => Unanswered(f) /\ batch'[f] = batch[f]
  OBVIOUS
<1> QED
  BY <1>2, <1>3 DEF TwiceInv

LEMMA TwiceStep == TwiceInv /\ [TelNext]_telVars => TwiceInv'
<1> SUFFICES ASSUME TwiceInv, [TelNext]_telVars PROVE TwiceInv'
  OBVIOUS
<1>1. ASSUME NEW f \in Flights, Check(f) \/ InsertFails(f) PROVE TwiceInv'
  <2>1. /\ TelType /\ TelType' /\ srv[f] \in {"sent", "checked"}
        /\ srv' = [srv EXCEPT ![f] = "checked"] \/ srv' = [srv EXCEPT ![f] = "error"]
        /\ UNCHANGED <<recorded, buffer, batch, stored, resent>>
    BY <1>1, TelFail DEF TwiceInv
  <2>2. \A g \in Flights : Unanswered(g)' => Unanswered(g)
    BY <2>1 DEF Unanswered, TelType
  <2> QED
    BY <2>1, <2>2, TwiceOthers
<1>2. ASSUME NEW f \in Flights, Resolve(f) \/ Free(f) PROVE TwiceInv'
  <2>1. /\ TelType /\ TelType' /\ srv[f] \in {"ok", "error"}
        /\ \/ UNCHANGED <<srv, batch>>
           \/ srv' = [srv EXCEPT ![f] = "none"] /\ batch' = [batch EXCEPT ![f] = <<>>]
        /\ UNCHANGED <<recorded, buffer, stored, resent>>
    BY <1>2, TelOver DEF TwiceInv
  <2>2. \A g \in Flights : /\ Unanswered(g)' => Unanswered(g)
                           /\ batch'[g] = batch[g] \/ (batch'[g] = <<>> /\ ~Unanswered(g))
    BY <2>1 DEF Unanswered, TelType
  <2> QED
    BY <2>1, <2>2, TwiceOthers
<1>3. CASE (\E f \in Flights : Mark(f)) \/ UNCHANGED telVars
  BY <1>3, TelMark, TwiceOthers DEF TwiceInv, Unanswered
<1>4. CASE DeleteVideo
  <2>1. /\ TelType' /\ stored' = <<>>
        /\ UNCHANGED <<recorded, buffer, batch, srv, resent>>
    BY <1>4, TelDelete DEF TwiceInv
  <2>2. ToSet(stored') = {} /\ Len(stored') = 0
    BY <2>1 DEF ToSet
  <2> QED
    BY <2>1, <2>2 DEF TwiceInv, Once, Apart, Unanswered
<1> QED
  BY <1>1, <1>2, <1>3, <1>4, TwiceRecord, TwiceSend, TwiceBreak, TwiceInsert
     DEF TelNext, Handle

(* An event is in the table twice only if a broken connection made the page *)
(* send it again: no overlap of requests stores anything else twice.        *)
THEOREM TwiceOnlyWhenSentAgain == TelSpec => []TwiceOnlyIfResent
  BY TwiceInit, TwiceStep, TwiceInvIs, PTL DEF TelSpec

============================================================================
