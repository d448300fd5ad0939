--------------------------- MODULE QoeAggregator ---------------------------
(***************************************************************************)
(* The QoE aggregator (qoe/aggregator.go) and the dashboard streams it      *)
(* feeds (dashboard_handler.go): telemetry handlers ingest events, one      *)
(* background goroutine computes a snapshot, publishes it, offers it to the *)
(* subscribers, and prunes; goroutines of their own fetch video titles.     *)
(*                                                                          *)
(* A batch is one event, a heartbeat or a rebuffer_start (the others touch  *)
(* the same maps as a rebuffer_start).  Of a snapshot the model keeps the   *)
(* counts; medians, percentiles, bitrates and throughputs are averages over *)
(* the same window of events.                                               *)
(***************************************************************************)
EXTENDS Integers, Sequences, SequencesExt, FiniteSets, FiniteSetsExt

CONSTANTS Sessions,     \* playback sessions that report
          VideoOf,      \* the video each of them plays
          Streams,      \* dashboard pages that stream the metrics
          SessionLife,  \* 60 s without a heartbeat end a session
          EventWindow,  \* 5 min of events are kept
          Buffer,       \* capacity of a subscriber's channel (2 in the code)
          MaxEvents,    \* bound: events ingested
          MaxTime,      \* bound: where the clock stops
          MaxFailures   \* bound: title queries that fail

Videos == {VideoOf[s] : s \in Sessions}

ASSUME AggregatorAssumption ==
  /\ SessionLife \in Nat \ {0} /\ EventWindow \in Nat /\ Buffer \in Nat \ {0}
  /\ MaxEvents \in Nat /\ MaxTime \in Nat /\ MaxFailures \in Nat

Never == -1                 \* no entry in activeSessions
Absent == "absent"          \* no entry in videoTitles
Placeholder == ""           \* the empty title
Title == "title"            \* what the videos table says

VARIABLES
  now,
  arriving,       \* Ingest calls that have read the clock and wait for the lock
  activeSessions, \* activeSessions[s]: the last heartbeat, or Never
  tracked,        \* the sessions in sessionToVideo
  videoTitles,    \* videoTitles[v]: Absent, Placeholder or Title
  recentEvents,   \* the window, in the order of arrival
  fetches,        \* fetchTitle goroutines: the video and what the query returned
  unfetched,      \* history variable: videos whose title a query did not bring
  live,           \* ActiveCount() of the live manager
  loop,           \* the background goroutine: "idle", "published"
  metrics,        \* currentMetrics
  page,           \* page[d]: "away", "open", "leaving", "closed"
  subscribers,    \* the channels in the subscribers map (a page has one)
  waiting,        \* waiting[d]: snapshots in the channel
  ingested, failures

titleVars == <<fetches, unfetched, failures>>
pageVars  == <<page, subscribers, waiting>>
loopVars  == <<loop, metrics>>
cacheVars == <<activeSessions, tracked, videoTitles>>
qoeVars   == <<now, arriving, cacheVars, recentEvents, titleVars, live, loopVars, pageVars, ingested>>

NoMetrics == [active |-> 0, perVideo |-> [v \in Videos |-> 0], sessions |-> 0,
              rebuffering |-> 0, live |-> 0]

QoeInit ==
  /\ now = 0 /\ arriving = {} /\ recentEvents = <<>>
  /\ activeSessions = [s \in Sessions |-> Never] /\ tracked = {}
  /\ videoTitles = [v \in Videos |-> Absent]
  /\ fetches = {} /\ unfetched = {} /\ failures = 0
  /\ live = 0 /\ loop = "idle" /\ metrics = NoMetrics
  /\ page = [d \in Streams |-> "away"] /\ subscribers = {} /\ waiting = [d \in Streams |-> 0]
  /\ ingested = 0

Tick == /\ now < MaxTime
        /\ now' = now + 1
        /\ UNCHANGED <<arriving, cacheVars, recentEvents, titleVars, live, loopVars, pageVars, ingested>>

----------------------------------------------------------------------------
(* Ingest reads the clock first and takes the lock after: two handlers may  *)
(* apply their events in the other order.                                   *)

Kinds == {"heartbeat", "rebuffer"}

IngestStarts(s, kind) ==
  /\ ingested < MaxEvents
  /\ ingested' = ingested + 1
  /\ arriving' = arriving \cup {[at |-> now, session |-> s, kind |-> kind]}
  /\ UNCHANGED <<now, cacheVars, recentEvents, titleVars, live, loopVars, pageVars>>

Ingest(e) ==
  LET v == VideoOf[e.session] IN
  /\ e \in arriving
  /\ arriving' = arriving \ {e}
  /\ recentEvents' = Append(recentEvents, e)
  /\ tracked' = tracked \cup {e.session}
  /\ activeSessions' = IF e.kind = "heartbeat" THEN [activeSessions EXCEPT ![e.session] = e.at]
                       ELSE activeSessions
  /\ IF videoTitles[v] = Absent
     THEN /\ videoTitles' = [videoTitles EXCEPT ![v] = Placeholder]
          /\ fetches' = fetches \cup {<<v, Absent>>}
     ELSE UNCHANGED <<videoTitles, fetches>>
  /\ UNCHANGED <<now, unfetched, failures, live, loopVars, pageVars, ingested>>

(* fetchTitle: the query, outside the lock; then the cache, under it.  A    *)
(* query that fails yields an empty title, one that finds no row (the video *)
(* was deleted) stores nothing, and no other is made.                       *)
QueryTitle(v) ==
  LET others == fetches \ {<<v, Absent>>} IN
  /\ <<v, Absent>> \in fetches
  /\ \/ /\ fetches' = others \cup {<<v, Title>>}
        /\ UNCHANGED <<unfetched, failures>>
     \/ /\ failures < MaxFailures
        /\ failures' = failures + 1
        /\ fetches' \in {others, others \cup {<<v, Placeholder>>}}
        /\ unfetched' = unfetched \cup {v}
  /\ UNCHANGED <<now, arriving, cacheVars, recentEvents, live, loopVars, pageVars, ingested>>

StoreTitle(f) ==
  /\ f \in fetches /\ f[2] # Absent
  /\ fetches' = fetches \ {f}
  /\ videoTitles' = [videoTitles EXCEPT ![f[1]] = f[2]]
  /\ UNCHANGED <<now, arriving, activeSessions, tracked, recentEvents, unfetched,
                 failures, live, loopVars, pageVars, ingested>>

----------------------------------------------------------------------------
(* The background goroutine.  It reads the clock beside the lock, not under *)
(* it; the model takes the two for one moment.                              *)

IsActive(s) == activeSessions[s] # Never /\ now - activeSessions[s] < SessionLife
Seen(kinds) == {recentEvents[i].session : i \in {j \in DOMAIN recentEvents : recentEvents[j].kind \in kinds}}

PerVideo(v) == Cardinality({s \in tracked : IsActive(s) /\ VideoOf[s] = v})

(* recalculate: everything is copied under the read lock, and counted.      *)
Snapshot ==
  [active      |-> Cardinality({s \in Sessions : IsActive(s)}),
   perVideo    |-> [v \in Videos |-> PerVideo(v)],
   sessions    |-> Cardinality(Seen(Kinds)),
   rebuffering |-> Cardinality(Seen({"rebuffer"})),
   live        |-> live]

(* The snapshot replaces the published one in a second critical section,    *)
(* which no other writer shares: until then everybody sees the old one.     *)
Recalculate ==
  /\ loop = "idle"
  /\ loop' = "published" /\ metrics' = Snapshot
  /\ UNCHANGED <<now, arriving, cacheVars, recentEvents, titleVars, live, pageVars, ingested>>

(* Under subMu from the first channel to the last; a full one is skipped.   *)
Broadcast ==
  /\ loop = "published"
  /\ loop' = "idle"
  /\ waiting' = [d \in Streams |-> IF d \in subscribers /\ waiting[d] < Buffer
                                   THEN waiting[d] + 1 ELSE waiting[d]]
  /\ UNCHANGED <<now, arriving, cacheVars, recentEvents, titleVars, live, metrics,
                 page, subscribers, ingested>>

(* From the front, up to the first event that is young enough.              *)
PruneEvents ==
  /\ loop = "idle"
  /\ recentEvents' = LET young == {i \in DOMAIN recentEvents : recentEvents[i].at >= now - EventWindow}
                     IN IF young = {} THEN <<>>
                        ELSE SubSeq(recentEvents, Min(young), Len(recentEvents))
  /\ UNCHANGED <<now, arriving, cacheVars, titleVars, live, loopVars, pageVars, ingested>>

(* Mutants: the tick of 30 s taken for the threshold; titles emptied        *)
(* instead of removed.                                                      *)
PruneSessions_Early ==
  LET gone == {s \in Sessions : activeSessions[s] # Never /\ activeSessions[s] <= now - SessionLife \div 2}
      kept == tracked \ gone
  IN
  /\ loop = "idle"
  /\ activeSessions' = [s \in Sessions |-> IF s \in gone THEN Never ELSE activeSessions[s]]
  /\ tracked' = kept
  /\ UNCHANGED <<now, arriving, videoTitles, recentEvents, titleVars, live, loopVars, pageVars, ingested>>
PruneSessions_Empties ==
  /\ loop = "idle"
  /\ videoTitles' = [v \in Videos |-> IF videoTitles[v] = Absent \/ \E s \in tracked : VideoOf[s] = v
                                      THEN videoTitles[v] ELSE Placeholder]
  /\ tracked' = {s \in tracked : activeSessions[s] = Never \/ activeSessions[s] >= now - SessionLife}
  /\ UNCHANGED <<now, arriving, activeSessions, recentEvents, titleVars, live, loopVars, pageVars, ingested>>

PruneSessions ==
  LET gone == {s \in Sessions : activeSessions[s] # Never /\ activeSessions[s] < now - SessionLife}
      kept == tracked \ gone
  IN
  /\ loop = "idle"
  /\ activeSessions' = [s \in Sessions |-> IF s \in gone THEN Never ELSE activeSessions[s]]
  /\ tracked' = kept
  /\ videoTitles' = [v \in Videos |-> IF \E s \in kept : VideoOf[s] = v THEN videoTitles[v] ELSE Absent]
  /\ UNCHANGED <<now, arriving, recentEvents, titleVars, live, loopVars, pageVars, ingested>>

----------------------------------------------------------------------------
(* StatsStream: the current metrics at once, then what the channel brings.  *)

Subscribe(d) ==
  /\ page[d] = "away"
  /\ page' = [page EXCEPT ![d] = "open"]
  /\ subscribers' = subscribers \cup {d}
  /\ UNCHANGED <<now, arriving, cacheVars, recentEvents, titleVars, live, loopVars, waiting, ingested>>

Receive(d) ==
  /\ page[d] = "open" /\ waiting[d] > 0
  /\ waiting' = [waiting EXCEPT ![d] = @ - 1]
  /\ UNCHANGED <<now, arriving, cacheVars, recentEvents, titleVars, live, loopVars, page, subscribers, ingested>>

(* Mutant: the channel is closed while it is in the map.                    *)
Unsubscribe_ClosesFirst(d) ==
  /\ page[d] = "open"
  /\ page' = [page EXCEPT ![d] = "leaving"]
  /\ UNCHANGED <<now, arriving, cacheVars, recentEvents, titleVars, live, loopVars, waiting, subscribers, ingested>>

(* Unsubscribe: out of the map under subMu, closed after it is released.    *)
Unsubscribe(d) ==
  /\ page[d] = "open"
  /\ page' = [page EXCEPT ![d] = "leaving"]
  /\ subscribers' = subscribers \ {d}
  /\ UNCHANGED <<now, arriving, cacheVars, recentEvents, titleVars, live, loopVars, waiting, ingested>>

CloseChannel(d) ==
  /\ page[d] = "leaving"
  /\ page' = [page EXCEPT ![d] = "closed"]
  /\ waiting' = [waiting EXCEPT ![d] = 0]
  /\ UNCHANGED <<now, arriving, cacheVars, recentEvents, titleVars, live, loopVars, subscribers, ingested>>

Stream(d) == Subscribe(d) \/ Receive(d) \/ Unsubscribe(d) \/ CloseChannel(d)

QoeNext ==
  \/ Tick
  \/ \E s \in Sessions, k \in Kinds : IngestStarts(s, k)
  \/ \E e \in arriving : Ingest(e)
  \/ \E v \in Videos : QueryTitle(v)
  \/ \E f \in fetches : StoreTitle(f)
  \/ Recalculate \/ Broadcast \/ PruneEvents \/ PruneSessions
  \/ \E d \in Streams : Stream(d)

----------------------------------------------------------------------------
QoeTypeOK ==
  /\ now \in 0..MaxTime
  /\ activeSessions \in [Sessions -> Never..MaxTime] /\ tracked \subseteq Sessions
  /\ videoTitles \in [Videos -> {Absent, Placeholder, Title}]
  /\ fetches \subseteq Videos \X {Absent, Placeholder, Title}
  /\ loop \in {"idle", "published"}
  /\ page \in [Streams -> {"away", "open", "leaving", "closed"}] /\ subscribers \subseteq Streams
  /\ waiting \in [Streams -> 0..Buffer]

(* Pruning sessions frees memory and changes no number of the dashboard.    *)
PruneChangesNothing ==
  [][tracked' # tracked /\ ingested' = ingested /\ arriving' = arriving
       => Snapshot'.active = Snapshot.active /\ Snapshot'.perVideo = Snapshot.perVideo]_qoeVars

(* An empty title in the cache is being fetched, unless a query failed:     *)
(* no pruning between the two halves of a fetch strands it.                 *)
EmptyTitleIsFetched ==
  \A v \in Videos : videoTitles[v] = Placeholder => v \in unfetched \/ \E f \in fetches : f[1] = v

(* A broadcast never meets a closed channel: unlike ChatHub's, it holds the *)
(* lock while it sends, and Unsubscribe deletes before it closes.           *)
SendsOnlyToOpen == \A d \in subscribers : page[d] = "open"

(* The comment in pruneSessions: cache entries no session refers to are     *)
(* removed.  A pruning leaves only the sessions that have a heartbeat or an *)
(* event in the window.                                                     *)
OnlyLiveSessionsKept ==
  [][PruneSessions => \A s \in tracked' : activeSessions'[s] # Never \/ s \in Seen(Kinds)]_qoeVars
============================================================================
