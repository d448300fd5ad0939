------------------------- MODULE LiveManagerProofs -------------------------
(***************************************************************************)
(* Theorems of LiveManager, for every set of connections and API calls,    *)
(* every limit, and every number of failed statements.                     *)
(***************************************************************************)
EXTENDS LiveManager, TLAPS, FiniteSetTheorems

LEMMA ThreadsOK ==
  /\ NoStream \notin Streams /\ Streams \subseteq Threads /\ ApiCalls \subseteq Threads
  /\ Watchdog \in Threads \ Streams /\ Main \in Threads \ Streams
  /\ Streams \cap ApiCalls = {} /\ MaxFaults \in Nat
  BY ThreadsAssumption, LiveFlagsAssumption DEF Threads

\* What holds of every stream, without the gauge.
StreamInv == TypeOK /\ StartInv /\ CallerInv /\ StopInv /\ CloseInv /\ OnceInv

LEMMA StreamInit == Init => StreamInv
<1> SUFFICES ASSUME Init PROVE StreamInv OBVIOUS
<1> USE ThreadsOK DEF Init
<1>1. TypeOK BY DEF TypeOK
<1>2. StartInv /\ CallerInv BY DEF StartInv, CallerInv, Known
<1>3. StopInv BY DEF StopInv, NoStrayProcess, Stopping
<1>4. CloseInv /\ OnceInv BY DEF CloseInv, OnceInv, Known
<1> QED BY <1>1, <1>2, <1>3, <1>4 DEF StreamInv

-----------------------------------------------------------------------------
(* StartStream: until Track nobody else sees the stream.                    *)

LEMMA StartStreamKeeps ==
  ASSUME StreamInv, NEW s \in Streams, StartStream(s)
  PROVE  StreamInv'
<1> USE ThreadsOK DEF StreamInv, TypeOK, NoFault, DbFault, Alive, procVars, endVars,
        watchVars, histVars, Known
<1>1. CASE CheckLimit(s)
  <2>1. TypeOK' /\ StartInv' BY <1>1 DEF CheckLimit, StartInv
  <2>2. CallerInv' /\ CloseInv' BY <1>1 DEF CheckLimit, CallerInv, CloseInv
  <2>3. StopInv' BY <1>1 DEF CheckLimit, StopInv, NoStrayProcess, Stopping
  <2>4. OnceInv' BY <1>1 DEF CheckLimit, OnceInv
  <2> QED BY <2>1, <2>2, <2>3, <2>4
<1>2. CASE CreateRow(s)
  <2>1. TypeOK' /\ StartInv' BY <1>2 DEF CreateRow, StartInv
  <2>2. CallerInv' /\ CloseInv' BY <1>2 DEF CreateRow, CallerInv, CloseInv
  <2>3. StopInv' BY <1>2 DEF CreateRow, StopInv, NoStrayProcess, Stopping
  <2>4. OnceInv' BY <1>2 DEF CreateRow, OnceInv
  <2> QED BY <2>1, <2>2, <2>3, <2>4
<1>3. CASE Spawn(s)
  <2>1. TypeOK' /\ StartInv' BY <1>3 DEF Spawn, StartInv
  <2>2. CallerInv' /\ CloseInv' BY <1>3 DEF Spawn, CallerInv, CloseInv
  <2>3. StopInv'
    <3>1. /\ pub'[s] # "spawned" => ffmpeg' = ffmpeg /\ ffmpeg[s] = "none"
          /\ \A r \in Streams \ {s} : ffmpeg'[r] = ffmpeg[r] /\ pub'[r] = pub[r]
          /\ UNCHANGED <<server, sessions, closed, at, on>>
      BY <1>3 DEF Spawn, StartInv
    <3>2. NoStrayProcess' BY <3>1 DEF StopInv, NoStrayProcess
    <3> QED BY <3>1, <3>2 DEF StopInv, Stopping
  <2>4. OnceInv' BY <1>3 DEF Spawn, OnceInv, StartInv
  <2> QED BY <2>1, <2>2, <2>3, <2>4
<1>4. CASE Track(s)
  <2>1. TypeOK' /\ StartInv' BY <1>4 DEF Track, StartInv
  <2>2. CallerInv' /\ CloseInv' BY <1>4 DEF Track, CallerInv, CloseInv
  <2>3. StopInv' BY <1>4 DEF Track, StopInv, NoStrayProcess, Stopping, StartInv
  <2>4. OnceInv' BY <1>4 DEF Track, OnceInv, StartInv
  <2> QED BY <2>1, <2>2, <2>3, <2>4
<1>5. CASE CountStart(s)
  <2>1. TypeOK' /\ StartInv' BY <1>5 DEF CountStart, StartInv
  <2>2. CallerInv' /\ CloseInv' BY <1>5 DEF CountStart, CallerInv, CloseInv
  <2>3. StopInv' BY <1>5 DEF CountStart, StopInv, NoStrayProcess, Stopping
  <2>4. OnceInv' BY <1>5 DEF CountStart, OnceInv
  <2> QED BY <2>1, <2>2, <2>3, <2>4
<1>6. CASE UpdateStarted(s)
  <2>1. TypeOK' /\ StartInv' BY <1>6 DEF UpdateStarted, StartInv
  <2>2. CallerInv' /\ CloseInv' BY <1>6 DEF UpdateStarted, CallerInv, CloseInv
  <2>3. StopInv' BY <1>6 DEF UpdateStarted, StopInv, NoStrayProcess, Stopping
  <2>4. OnceInv' BY <1>6 DEF UpdateStarted, OnceInv
  <2> QED BY <2>1, <2>2, <2>3, <2>4
<1> QED BY <1>1, <1>2, <1>3, <1>4, <1>5, <1>6 DEF StartStream

-----------------------------------------------------------------------------
(* The calls of EndStream.  Every caller has the stream's id from the map,  *)
(* from its row or from its own OnPublish, so the stream is known.          *)

LEMMA CallKeeps ==
  ASSUME StreamInv, NEW t \in Threads, NEW s \in Streams, Calls(t, s), Known(s),
         Alive, UNCHANGED <<sessions, row, procVars, vod, gauge, faults, server>>,
         toEnd' \subseteq toEnd, pids' \subseteq pids,
         watch' = watch, listed' = listed,
         IF t \in Streams
           THEN /\ t = s /\ pub[s] = "publishing"
                /\ pub' = [pub EXCEPT ![s] = "closed"]
           ELSE pub' = pub
  PROVE  StreamInv'
<1> USE ThreadsOK DEF StreamInv, Known
<1>1. /\ UNCHANGED <<sessions, row, ffmpeg, closed, vod, faults, server>>
      /\ at[t] = "idle" /\ at'[t] = "take" /\ on'[t] = s
      /\ \A u \in Threads \ {t} : at'[u] = at[u] /\ on'[u] = on[u]
      /\ calls'[s] \in {1, 2}
      /\ calls'[s] = 1 => calls[s] = 0
      /\ \A r \in Streams \ {s} : calls'[r] = calls[r] /\ pub'[r] = pub[r]
      /\ IF t \in Streams THEN t = s /\ pub'[s] = "closed" ELSE pub' = pub
      /\ Known(s)'
  BY DEF Calls, TypeOK, procVars
<1>2. TypeOK' BY DEF Calls, TypeOK, procVars
<1>3. StartInv' BY <1>1 DEF StartInv
<1>4. CallerInv' BY <1>1 DEF CallerInv
<1>5. StopInv' BY <1>1 DEF StopInv, NoStrayProcess, Stopping, Alive
<1>6. CloseInv' BY <1>1 DEF CloseInv, CallerInv
<1>7. OnceInv' BY <1>1 DEF OnceInv, StartInv
<1> QED BY <1>2, <1>3, <1>4, <1>5, <1>6, <1>7

LEMMA CallersKeep ==
  ASSUME StreamInv, NEW s \in Streams,
         OnClose(s) \/ EndNext(s) \/ CheckTranscoder(s) \/ \E a \in ApiCalls : ApiEnd(a, s)
  PROVE  StreamInv'
<1> USE ThreadsOK DEF StreamInv, Alive, pubVars, watchVars, endVars
<1>1. CASE OnClose(s) BY <1>1, CallKeeps DEF OnClose, Known
<1>2. CASE EndNext(s) BY <1>2, CallKeeps DEF EndNext, StartInv
<1>3. CASE CheckTranscoder(s)
  <2>1. CASE Calls(Watchdog, s)
    BY <1>3, <2>1, CallKeeps DEF CheckTranscoder, StartInv
  <2>2. CASE UNCHANGED <<endVars, calls>>
    BY <1>3, <2>2 DEF CheckTranscoder, TypeOK, StartInv, CallerInv, StopInv, CloseInv,
       OnceInv, NoStrayProcess, Stopping, Known, procVars
  <2> QED BY <1>3, <2>1, <2>2 DEF CheckTranscoder
<1>4. ASSUME NEW a \in ApiCalls, ApiEnd(a, s) PROVE StreamInv'
  <2>1. Known(s) BY <1>4 DEF ApiEnd, StartInv, Known
  <2> QED BY <1>4, <2>1, CallKeeps DEF ApiEnd
<1> QED BY <1>1, <1>2, <1>3, <1>4

-----------------------------------------------------------------------------
(* EndStream: each step moves one thread, and touches only its stream.      *)

LEMMA EndStreamKeeps ==
  ASSUME StreamInv, NEW t \in Threads, EndStream(t)
  PROVE  StreamInv'
<1> USE ThreadsOK DEF StreamInv, Step, pubVars, procVars, watchVars, histVars, Known
<1>0. PICK s \in Streams : s = on[t]
  BY DEF EndStream, Take, Stop, Wait, CountEnd, UpdateEnded, Record, CallerInv
<1>1. /\ on' = on /\ \A u \in Threads \ {t} : at'[u] = at[u]
      /\ UNCHANGED <<server, pub, calls, toEnd, pids>> /\ Alive
  BY DEF EndStream, Take, Stop, Wait, CountEnd, UpdateEnded, Record, TypeOK
<1>2. TypeOK'
  <2>1. CASE Take(t) \/ Stop(t) \/ Wait(t) BY <1>0, <2>1 DEF Take, Stop, Wait, TypeOK
  <2>2. CASE CountEnd(t) \/ UpdateEnded(t)
    BY <2>2 DEF CountEnd, UpdateEnded, NoFault, DbFault, TypeOK
  <2>3. CASE Record(t) BY <2>3 DEF Record, NoFault, DbFault, TypeOK
  <2> QED BY <2>1, <2>2, <2>3 DEF EndStream
<1>3. CallerInv'
  BY <1>0, <1>1 DEF CallerInv
\* The session leaves the map with the thread that is to stop it.
<1>4. CASE Take(t)
  <2>1. /\ at[t] = "take" /\ at'[t] = (IF s \in sessions THEN "stop" ELSE "gauge")
        /\ sessions' = sessions \ {s}
        /\ UNCHANGED <<row, ffmpeg, closed, vod, faults>>
    BY <1>0, <1>4 DEF Take, TypeOK
  <2>2. StartInv' BY <1>1, <2>1 DEF StartInv
  <2>3. NoStrayProcess'
    <3>1. SUFFICES ASSUME NEW r \in Streams, ffmpeg[r] \in {"running", "zombie"},
                          r \notin sessions', pub[r] # "spawned"
                   PROVE  \E x \in Threads : /\ on'[x] = r /\ at'[x] \in {"stop", "wait"}
                                            /\ \A u \in Threads :
                                                 on'[u] = r /\ at'[u] \in {"stop", "wait"} => u = x
      BY <1>1, <2>1 DEF NoStrayProcess, Alive
    <3>2. CASE r \in sessions
      BY <1>0, <1>1, <2>1, <3>1, <3>2 DEF StopInv, Stopping
    <3>3. CASE r \notin sessions
      <4>1. PICK x \in Threads : /\ on[x] = r /\ at[x] \in {"stop", "wait"}
                                 /\ \A u \in Threads :
                                      on[u] = r /\ at[u] \in {"stop", "wait"} => u = x
        BY <1>1, <3>1, <3>3 DEF StopInv, NoStrayProcess, Alive
      <4> QED BY <1>0, <1>1, <2>1, <3>3, <4>1
    <3> QED BY <3>2, <3>3
  <2>4. StopInv' BY <1>0, <1>1, <2>1, <2>3 DEF StopInv, Stopping
  <2>5. CloseInv' BY <1>0, <1>1, <2>1 DEF CloseInv, CallerInv
  <2>6. OnceInv' BY <1>0, <1>1, <2>1 DEF OnceInv, StartInv
  <2> QED BY <1>2, <1>3, <2>2, <2>4, <2>5, <2>6
\* What was in the map was not stopped before.
<1>5. CASE Stop(t)
  <2>1. /\ at[t] = "stop" /\ at'[t] = (IF s \in closed THEN "gauge" ELSE "wait")
        /\ closed' = closed \cup {s}
        /\ UNCHANGED <<row, ffmpeg, sessions, vod, faults>>
    BY <1>0, <1>5 DEF Stop, TypeOK
  <2>2. s \notin closed /\ s \notin sessions
    BY <1>0, <2>1 DEF StopInv, Stopping
  <2>3. StartInv' BY <1>0, <1>1, <2>1 DEF StartInv
  <2>4. \A x \in Threads : at'[x] \in {"stop", "wait"} <=> at[x] \in {"stop", "wait"}
    BY <1>1, <2>1, <2>2
  <2>5. NoStrayProcess' BY <1>1, <2>1, <2>4 DEF StopInv, NoStrayProcess, Alive
  <2>6. StopInv' BY <1>0, <1>1, <2>1, <2>2, <2>5 DEF StopInv, Stopping
  <2>7. CloseInv' BY <1>0, <1>1, <2>1, <2>2 DEF CloseInv, CallerInv
  <2>8. OnceInv' BY <1>0, <1>1, <2>1, <2>2 DEF OnceInv
  <2> QED BY <1>2, <1>3, <2>3, <2>6, <2>7, <2>8
<1>6. CASE Wait(t)
  <2>1. /\ at[t] = "wait" /\ at'[t] = "gauge" /\ ffmpeg[s] = "zombie"
        /\ ffmpeg'[s] = "reaped" /\ \A r \in Streams \ {s} : ffmpeg'[r] = ffmpeg[r]
        /\ UNCHANGED <<row, closed, sessions, vod, faults>>
    BY <1>0, <1>6 DEF Wait, TypeOK
  <2>2. StartInv' BY <1>0, <1>1, <2>1 DEF StartInv
  <2>3. NoStrayProcess' BY <1>0, <1>1, <2>1 DEF StopInv, NoStrayProcess, Alive
  <2>4. StopInv' BY <1>0, <1>1, <2>1, <2>3 DEF StopInv, Stopping
  <2>5. CloseInv' BY <1>0, <1>1, <2>1 DEF CloseInv, CallerInv
  <2>6. OnceInv' BY <1>0, <1>1, <2>1 DEF OnceInv
  <2> QED BY <1>2, <1>3, <2>2, <2>4, <2>5, <2>6
<1>7. CASE CountEnd(t) \/ UpdateEnded(t) \/ Record(t)
  <2>1. /\ at[t] \in {"gauge", "row", "record"} /\ at'[t] \in {"row", "record", "idle"}
        /\ UNCHANGED <<sessions, ffmpeg, closed>>
        /\ at'[t] = "row" <=> at[t] = "gauge"
        /\ at'[t] = "record" <=> at[t] = "row"
    BY <1>7 DEF CountEnd, UpdateEnded, Record, TypeOK
  <2>2. /\ \A r \in Streams \ {s} : row'[r] = row[r]
        /\ row'[s] = row[s] \/ (row'[s] = "ended" /\ at[t] = "row")
        /\ faults' \in {faults, faults + 1}
        /\ at[t] = "row" => row'[s] = "ended" \/ faults' # 0
    BY <1>0, <1>7 DEF CountEnd, UpdateEnded, Record, NoFault, DbFault, TypeOK
  <2>3. \A u \in Threads, r \in Streams :
          vod'[<<u, r>>] = vod[<<u, r>>] \/ (u = t /\ r = s /\ at[t] = "record")
    BY <1>0, <1>7 DEF CountEnd, UpdateEnded, Record, TypeOK
  <2>4. calls[s] # 0 BY <1>0 DEF StartInv
  <2>5. StartInv' BY <1>0, <1>1, <2>1, <2>2, <2>4 DEF StartInv, TypeOK
  <2>6. NoStrayProcess' BY <1>1, <2>1 DEF StopInv, NoStrayProcess, Alive
  <2>7. StopInv' BY <1>0, <1>1, <2>1, <2>6 DEF StopInv, Stopping
  <2>8. CloseInv' BY <1>0, <1>1, <2>1, <2>2 DEF CloseInv, CallerInv, TypeOK
  <2>9. OnceInv'
    <3>1. \A u \in Threads :
            /\ at'[u] = "take" <=> at[u] = "take"
            /\ at'[u] \in {"gauge", "row", "record"} => at[u] \in {"gauge", "row", "record"}
      BY <1>1, <2>1
    <3>2. \A u \in Threads, r \in Streams :
            vod'[<<u, r>>] # vod[<<u, r>>] => r = s /\ calls[s] # 0
                                             /\ (calls[s] = 1 => ffmpeg[s] = "reaped")
      BY <1>0, <2>3, <2>4 DEF OnceInv
    <3> QED BY <1>1, <2>1, <3>1, <3>2 DEF OnceInv
  <2> QED BY <1>2, <1>3, <2>5, <2>7, <2>8, <2>9
<1> QED BY <1>4, <1>5, <1>6, <1>7 DEF EndStream

-----------------------------------------------------------------------------
(* Everything else: conversions, ffmpeg, the shutdown and the watchdog.     *)

LEMMA ConvertKeeps == ASSUME StreamInv, ConvertToVOD PROVE StreamInv'
<1> USE ThreadsOK DEF StreamInv, NoFault, DbFault, pubVars, procVars, endVars, watchVars
<1>1. PICK t \in Threads, s \in Streams : CreateVideo(t, s) \/ SetPath(t, s)
  BY DEF ConvertToVOD
<1>2. TypeOK' BY <1>1 DEF CreateVideo, SetPath, TypeOK
<1>3. /\ UNCHANGED <<server, pub, sessions, row, ffmpeg, closed, at, on, toEnd, pids, calls>>
      /\ faults' = faults \/ faults' = faults + 1
      /\ \A u \in Threads, r \in Streams :
           vod'[<<u, r>>] # vod[<<u, r>>] => vod[<<u, r>>] # "none"
  BY <1>1 DEF CreateVideo, SetPath, TypeOK
<1>4. StartInv' /\ CallerInv' BY <1>3 DEF StartInv, CallerInv, Known
<1>5. StopInv' BY <1>3 DEF StopInv, NoStrayProcess, Stopping, Alive
<1>6. CloseInv' BY <1>3 DEF CloseInv, TypeOK
<1>7. OnceInv' BY <1>3 DEF OnceInv, Known
<1> QED BY <1>2, <1>4, <1>5, <1>6, <1>7

LEMMA FFmpegExitsKeeps ==
  ASSUME StreamInv, NEW s \in Streams, FFmpegExits(s)
  PROVE  StreamInv'
<1> USE DEF StreamInv, pubVars, endVars, watchVars, histVars
<1>1. TypeOK' BY DEF FFmpegExits, TypeOK
<1>2. /\ UNCHANGED <<server, pub, sessions, row, closed, at, on, vod, toEnd, pids,
                     faults, calls>>
      /\ ffmpeg[s] = "running" /\ ffmpeg'[s] \in {"zombie", "reaped"}
      /\ \A r \in Streams \ {s} : ffmpeg'[r] = ffmpeg[r]
  BY DEF FFmpegExits, TypeOK
<1>3. StartInv' /\ CallerInv' BY <1>2 DEF StartInv, CallerInv, Known
<1>4. StopInv' BY <1>2 DEF StopInv, NoStrayProcess, Stopping, Alive
<1>5. CloseInv' BY <1>2 DEF CloseInv
<1>6. OnceInv' BY <1>2 DEF OnceInv, Known
<1> QED BY <1>1, <1>3, <1>4, <1>5, <1>6

LEMMA WatchersKeep ==
  ASSUME StreamInv, \/ EndAllStreams \/ StopServing \/ Exit
                    \/ Tick \/ ListProcesses \/ KillOrphans \/ UNCHANGED vars
  PROVE  StreamInv'
<1> USE DEF StreamInv, pubVars, procVars, endVars, watchVars, histVars
<1>1. TypeOK'
  BY DEF EndAllStreams, StopServing, Exit, Tick, ListProcesses, KillOrphans, vars, TypeOK
<1>2. /\ UNCHANGED <<pub, sessions, row, ffmpeg, closed, at, on, vod, faults, calls>>
      /\ toEnd' \in {toEnd, sessions} /\ pids' \in {pids, sessions}
      /\ Alive' => Alive
  BY DEF EndAllStreams, StopServing, Exit, Tick, ListProcesses, KillOrphans, vars, Alive
<1>3. StartInv' /\ CallerInv' BY <1>2 DEF StartInv, CallerInv, Known
<1>4. StopInv' BY <1>2 DEF StopInv, NoStrayProcess, Stopping
<1>5. CloseInv' /\ OnceInv' BY <1>2 DEF CloseInv, OnceInv, Known
<1> QED BY <1>1, <1>3, <1>4, <1>5

LEMMA StreamStep == StreamInv /\ [Next]_vars => StreamInv'
BY StartStreamKeeps, CallersKeep, EndStreamKeeps, ConvertKeeps, FFmpegExitsKeeps,
   WatchersKeep DEF Next, Shutdown, WatchdogStep

LEMMA StreamInvariant == Spec => []StreamInv
BY StreamInit, StreamStep, PTL DEF Spec

\* No ffmpeg is left behind while the server runs: every process that was not
\* waited for is in the map, about to be, or with the one thread that stops it,
\* whoever of connection, owner, watchdog and shutdown call EndStream at once.
THEOREM NoProcessIsLost == Spec => []NoStrayProcess
BY StreamInvariant, PTL DEF StreamInv, StopInv

\* After its OnClose returned, a connection has left no session, no ffmpeg and
\* no row that says "live", whoever ended the stream before it.
THEOREM ClosingIsFinal == Spec => []CloseIsFinal
<1>1. StreamInv => CloseIsFinal
  <2> SUFFICES ASSUME StreamInv, NEW s \in Streams, Alive, pub[s] = "closed",
                      \A t \in Threads : ~Ending(t, s)
               PROVE  s \notin sessions /\ ffmpeg[s] = "reaped"
                      /\ (row[s] = "ended" \/ faults > 0)
    BY DEF CloseIsFinal
  <2>1. at[s] = "idle" BY ThreadsOK DEF StreamInv, CallerInv, Ending
  <2>2. s \notin sessions /\ (row[s] = "ended" \/ faults > 0)
    BY <2>1 DEF StreamInv, CloseInv, TypeOK
  <2>3. ffmpeg[s] \notin {"running", "zombie", "none"}
    BY <2>2 DEF StreamInv, StopInv, StartInv, NoStrayProcess, Ending
  <2> QED BY <2>2, <2>3 DEF StreamInv, TypeOK
<1> QED BY <1>1, StreamInvariant, PTL

\* A stream that was ended once is in its owner's library only after ffmpeg has
\* exited and its playlists were closed.
THEOREM RecordingFollowsFFmpeg == Spec => []OnceRecordedIsFinal
<1>1. StreamInv => OnceRecordedIsFinal
  BY DEF StreamInv, TypeOK, OnceInv, OnceRecordedIsFinal
<1> QED BY <1>1, StreamInvariant, PTL

-----------------------------------------------------------------------------
(* The gauge: CountStart adds a stream to Up, CountEnd one to Down, and no  *)
(* other step changes either.                                               *)

OnceCalled == \A s \in Streams : calls[s] <= 1

LEMMA GaugeFrame ==
  ASSUME GaugeInv, gauge' = gauge, Up' = Up, OnceCalled' => OnceCalled /\ Down' = Down
  PROVE  GaugeInv'
BY DEF GaugeInv, OnceCalled

LEMMA GaugeStart ==
  ASSUME StreamInv, GaugeInv, NEW s \in Streams, StartStream(s)
  PROVE  GaugeInv'
<1> USE DEF StreamInv
<1>1. UNCHANGED <<calls, at, on>> /\ \A r \in Streams \ {s} : pub'[r] = pub[r]
  BY DEF StartStream, CheckLimit, CreateRow, Spawn, Track, CountStart, UpdateStarted, TypeOK,
         histVars, endVars
<1>2. Down' = Down BY <1>1 DEF Down
<1>3. CASE CountStart(s)
  <2>1. pub[s] = "tracked" /\ pub'[s] = "counted" /\ gauge' = gauge + 1 /\ gauge \in Int
    BY <1>3 DEF CountStart, TypeOK
  <2>2. Up' = Up \cup {s} /\ s \notin Up BY <1>1, <2>1 DEF Up
  <2>3. IsFiniteSet(Up) BY DEF GaugeInv
  <2>4. IsFiniteSet(Up') /\ Cardinality(Up') = Cardinality(Up) + 1
    BY <2>2, <2>3, FS_AddElement
  <2>5. Cardinality(Up) \in Nat /\ (IsFiniteSet(Down) => Cardinality(Down) \in Nat)
    BY <2>3, FS_CardinalityType
  <2> QED BY <1>1, <1>2, <2>1, <2>4, <2>5 DEF GaugeInv
<1>4. CASE ~CountStart(s)
  <2>1. gauge' = gauge /\ (pub'[s] \in {"counted", "publishing", "closed"}
                            <=> pub[s] \in {"counted", "publishing", "closed"})
    BY <1>4 DEF StartStream, CheckLimit, CreateRow, Spawn, Track, UpdateStarted, TypeOK
  <2>2. Up' = Up BY <1>1, <2>1 DEF Up
  <2> QED BY <1>1, <1>2, <2>1, <2>2, GaugeFrame DEF OnceCalled
<1> QED BY <1>3, <1>4

\* A first call of EndStream takes its stream from outside Down to outside Down.
LEMMA GaugeCall ==
  ASSUME StreamInv, GaugeInv, NEW t \in Threads, NEW s \in Streams, Calls(t, s),
         gauge' = gauge, pub' = pub \/ (pub[s] = "publishing" /\ pub' = [pub EXCEPT ![s] = "closed"])
  PROVE  GaugeInv'
<1> USE DEF StreamInv
<1>1. Up' = Up BY DEF Up, TypeOK
<1>2. ASSUME OnceCalled' PROVE OnceCalled /\ Down' = Down
  <2>1. calls'[s] = (IF calls[s] = 2 THEN 2 ELSE calls[s] + 1) /\ calls[s] \in 0..2
        /\ \A r \in Streams \ {s} : calls'[r] = calls[r]
    BY DEF Calls, TypeOK
  <2>2. calls[s] = 0 /\ calls'[s] = 1 BY <1>2, <2>1 DEF OnceCalled
  <2>3. OnceCalled BY <1>2, <2>1, <2>2 DEF OnceCalled
  <2>4. /\ at[t] = "idle" /\ at'[t] = "take" /\ on'[t] = s
        /\ \A u \in Threads \ {t} : at'[u] = at[u] /\ on'[u] = on[u]
    BY DEF Calls, TypeOK
  <2>5. s \notin Down /\ s \notin Down' BY <2>2, <2>4 DEF Down
  <2>6. \A r \in Streams \ {s} : r \in Down' <=> r \in Down BY <2>1, <2>4 DEF Down
  <2>7. Down \subseteq Streams /\ Down' \subseteq Streams BY DEF Down
  <2> QED BY <2>3, <2>5, <2>6, <2>7
<1> QED BY <1>1, <1>2, GaugeFrame

\* EndStream: the one call of a stream passes CountEnd once.
LEMMA GaugeEnd ==
  ASSUME StreamInv, GaugeInv, NEW t \in Threads, EndStream(t)
  PROVE  GaugeInv'
<1> USE DEF StreamInv, Step
<1>0. PICK s \in Streams : s = on[t]
  BY DEF EndStream, Take, Stop, Wait, CountEnd, UpdateEnded, Record, CallerInv
<1>1. /\ on' = on /\ \A u \in Threads \ {t} : at'[u] = at[u]
      /\ UNCHANGED <<pub, calls>> /\ at[t] # "idle"
  BY DEF EndStream, Take, Stop, Wait, CountEnd, UpdateEnded, Record, TypeOK, pubVars, histVars
<1>2. Up' = Up BY <1>1 DEF Up
<1>3. CASE CountEnd(t)
  <2>1. at[t] = "gauge" /\ at'[t] = "row" /\ gauge' = gauge - 1 /\ gauge \in Int
    BY <1>3 DEF CountEnd, TypeOK
  <2>2. SUFFICES ASSUME OnceCalled
                 PROVE  IsFiniteSet(Down)' /\ gauge' = Cardinality(Up') - Cardinality(Down')
    BY <1>1, <1>2 DEF GaugeInv, OnceCalled
  <2>3. calls[s] = 1
    BY <1>0, <2>2 DEF OnceCalled, StartInv, TypeOK
  <2>4. \A u \in Threads : on[u] = s => u = t BY <1>0, <2>3 DEF OnceInv
  <2>5. s \notin Down /\ s \in Down' BY <1>0, <1>1, <2>1, <2>3, <2>4 DEF Down
  <2>6. \A r \in Streams \ {s} : r \in Down' <=> r \in Down BY <1>0, <1>1 DEF Down
  <2>7. Down' = Down \cup {s} BY <2>5, <2>6 DEF Down
  <2>8. IsFiniteSet(Up) /\ IsFiniteSet(Down) /\ gauge = Cardinality(Up) - Cardinality(Down)
    BY <2>2 DEF GaugeInv, OnceCalled
  <2>9. IsFiniteSet(Down') /\ Cardinality(Down') = Cardinality(Down) + 1
    BY <2>5, <2>7, <2>8, FS_AddElement
  <2>10. Cardinality(Up) \in Nat /\ Cardinality(Down) \in Nat
    BY <2>8, FS_CardinalityType
  <2> QED BY <1>2, <2>1, <2>8, <2>9, <2>10
<1>4. CASE ~CountEnd(t)
  <2>1. gauge' = gauge
    BY <1>4 DEF EndStream, Take, Stop, Wait, UpdateEnded, Record
  <2>2. at'[t] \in {"take", "stop", "wait", "gauge"} <=> at[t] \in {"take", "stop", "wait", "gauge"}
    BY <1>4 DEF EndStream, Take, Stop, Wait, UpdateEnded, Record, TypeOK
  <2>3. Down' = Down BY <1>1, <2>2 DEF Down
  <2> QED BY <1>1, <1>2, <2>1, <2>3, GaugeFrame DEF OnceCalled
<1> QED BY <1>3, <1>4

LEMMA GaugeStep == ASSUME StreamInv, GaugeInv, [Next]_vars PROVE GaugeInv'
<1> USE ThreadsOK
<1>1. ASSUME NEW s \in Streams, OnClose(s) \/ EndNext(s) \/ CheckTranscoder(s)
                                \/ \E a \in ApiCalls : ApiEnd(a, s)
      PROVE  GaugeInv'
  <2>1. CASE \E t \in Threads : Calls(t, s)
    BY <1>1, <2>1, GaugeCall DEF OnClose, EndNext, CheckTranscoder, ApiEnd, pubVars
  <2>2. CASE ~\E t \in Threads : Calls(t, s)
    <3>1. UNCHANGED <<pub, gauge, at, on, calls>>
      BY <1>1, <2>2 DEF OnClose, EndNext, CheckTranscoder, ApiEnd, pubVars, endVars
    <3> QED BY <3>1, GaugeFrame DEF Up, Down, OnceCalled
  <2> QED BY <2>1, <2>2
<1>2. CASE ConvertToVOD \/ (\E s \in Streams : FFmpegExits(s)) \/ EndAllStreams \/ StopServing
           \/ Exit \/ Tick \/ ListProcesses \/ KillOrphans \/ UNCHANGED vars
  <2>1. UNCHANGED <<pub, gauge, at, on, calls>>
    BY <1>2 DEF ConvertToVOD, CreateVideo, SetPath, FFmpegExits, EndAllStreams, StopServing, Exit,
       Tick, ListProcesses, KillOrphans, vars, pubVars, endVars, histVars
  <2> QED BY <2>1, GaugeFrame DEF Up, Down, OnceCalled
<1> QED BY <1>1, <1>2, GaugeStart, GaugeEnd DEF Next, Shutdown, WatchdogStep

LEMMA GaugeInit == Init => GaugeInv
<1> SUFFICES ASSUME Init PROVE GaugeInv OBVIOUS
<1>1. Up = {} /\ Down = {} /\ gauge = 0 BY DEF Init, Up, Down
<1> QED BY <1>1, FS_EmptySet DEF GaugeInv

LEMMA LiveInvariant == Spec => []LiveInv
<1>1. StreamInv /\ GaugeInv <=> LiveInv BY DEF StreamInv, LiveInv
<1> QED BY <1>1, StreamInit, StreamStep, GaugeInit, GaugeStep, PTL DEF Spec

\* While every stream was ended at most once, the gauge is the size of the map
\* whenever no stream is being started or ended.
THEOREM GaugeIsExact == Spec => []OnceGaugeCounts
<1>1. ASSUME LiveInv PROVE OnceGaugeCounts
  <2> SUFFICES ASSUME \A s \in Streams : /\ calls[s] <= 1 /\ ~Starting(s)
                                          /\ ~(\E t \in Threads : Ending(t, s))
               PROVE  gauge = Cardinality(sessions)
    BY DEF OnceGaugeCounts
  <2> USE <1>1 DEF LiveInv
  <2>1. /\ IsFiniteSet(Up) /\ IsFiniteSet(Down) /\ gauge = Cardinality(Up) - Cardinality(Down)
    BY DEF GaugeInv
  <2>2. \A s \in Streams : s \in sessions <=> s \in Up /\ calls[s] = 0
    BY DEF StartInv, OnceInv, TypeOK, Known, Starting, Ending, Up
  <2>3. \A s \in Streams : s \in Down <=> s \in Up /\ calls[s] # 0
    BY DEF StartInv, TypeOK, Known, Starting, Ending, Up, Down
  <2>4. Up = sessions \cup Down /\ sessions \cap Down = {}
    BY <2>2, <2>3 DEF Up, Down, TypeOK
  <2>5. IsFiniteSet(sessions) BY <2>1, <2>4, FS_Subset
  <2>6. Cardinality(sessions \cup Down)
          = Cardinality(sessions) + Cardinality(Down) - Cardinality(sessions \cap Down)
    BY <2>1, <2>5, FS_Union
  <2>7. Cardinality(sessions) \in Nat /\ Cardinality(Down) \in Nat
    BY <2>1, <2>5, FS_CardinalityType
  <2>8. Cardinality(sessions \cap Down) = 0 BY <2>4, FS_EmptySet
  <2>9. Cardinality(Up) = Cardinality(sessions) + Cardinality(Down)
    BY <2>4, <2>6, <2>7, <2>8
  <2> QED BY <2>1, <2>7, <2>9
<1> QED BY <1>1, LiveInvariant, PTL
=============================================================================
