---------------------------- MODULE LiveManager ----------------------------
(***************************************************************************)
(* The live streams of the server: the RTMP connections that publish, the  *)
(* sessions map of live.Manager, the live_streams rows, the ffmpeg         *)
(* processes, everyone who may call EndStream (the connection's OnClose,   *)
(* the owner's API call, the watchdog, the shutdown), the recording made   *)
(* after it, and the watchdog's hunt for orphaned processes.               *)
(*                                                                         *)
(* A connection publishes once and is identified with its stream.  Threads *)
(* are those that run EndStream.  A session's stop() always gets the       *)
(* session's mutex here: TranscodeSession is about when it does not.       *)
(***************************************************************************)
EXTENDS Integers, FiniteSets

CONSTANTS Streams,     \* publishing connections
          ApiCalls,    \* POST /live/{id}/end requests
          Watchdog,    \* the watchdog's goroutine
          Main,        \* the goroutine of main
          NoStream,    \* what an idle thread works on
          Recorded,    \* streams whose key has record_vod
          MaxStreams,  \* maxLiveStreams (10 in manager.go)
          Watching,    \* does the watchdog tick?
          MayStop,     \* may the server be asked to stop?
          MayDie,      \* may ffmpeg exit by itself?
          MaxFaults    \* bound: statements that fail

Threads == Streams \cup ApiCalls \cup {Watchdog, Main}

ASSUME ThreadsAssumption ==
  /\ NoStream \notin Streams
  /\ Streams \cap ApiCalls = {} /\ Watchdog # Main
  /\ {Watchdog, Main} \cap (Streams \cup ApiCalls) = {}
ASSUME LiveFlagsAssumption ==
  /\ Recorded \subseteq Streams /\ MaxStreams \in Nat \ {0}
  /\ {Watching, MayStop, MayDie} \subseteq BOOLEAN /\ MaxFaults \in Nat

VARIABLES server,    \* up, ending (EndAllStreams), draining, exited
          pub,       \* where a connection stands in OnPublish
          sessions,  \* keys of Manager.sessions
          row,       \* live_streams.status, "none" when there is no row
          ffmpeg,    \* none, running, zombie (exited, not waited for), reaped
          closed,    \* streams whose session has closed ffmpeg's stdin
          termed,    \* processes the watchdog sent SIGTERM
          gauge,     \* LiveStreamsActive
          at,        \* where a thread stands in EndStream
          on,        \* the stream it ends
          vod,       \* convertToVOD goroutines, by caller and stream
          toEnd,     \* streams main still has to end
          watch,     \* rest, live (checkLiveTranscoders), orphans
          pids,      \* streams of the tick's GetPIDs still to be checked
          listed,    \* processes that pgrep listed
          faults,    \* statements that failed so far
          calls      \* calls of EndStream for a stream; two stands for more

pubVars   == <<pub, sessions>>
procVars  == <<ffmpeg, closed, termed>>
endVars   == <<at, on>>
watchVars == <<watch, pids, listed>>
histVars  == <<faults, calls>>
vars == <<server, pubVars, row, procVars, gauge, endVars, vod, toEnd, watchVars,
          histVars>>

Init == /\ server = "up"
        /\ pub = [s \in Streams |-> "idle"]
        /\ sessions = {}
        /\ row = [s \in Streams |-> "none"]
        /\ ffmpeg = [s \in Streams |-> "none"]
        /\ closed = {} /\ termed = {}
        /\ gauge = 0
        /\ at = [t \in Threads |-> "idle"]
        /\ on = [t \in Threads |-> NoStream]
        /\ vod = [c \in Threads \X Streams |-> "none"]
        /\ toEnd = {}
        /\ watch = "rest" /\ pids = {} /\ listed = {}
        /\ faults = 0 /\ calls = [s \in Streams |-> 0]

Alive == server # "exited"

NoFault == UNCHANGED faults
DbFault == faults < MaxFaults /\ faults' = faults + 1

-----------------------------------------------------------------------------
(* StartStream, in the goroutine of the RTMP connection.  The listener      *)
(* accepts connections until the process exits.                             *)

\* len(sessions) is read, the lock released.
CheckLimit(s) ==
  /\ Alive /\ pub[s] = "idle"
  /\ pub' = [pub EXCEPT ![s] =
               IF Cardinality(sessions) >= MaxStreams THEN "rejected" ELSE "checked"]
  /\ UNCHANGED <<server, sessions, row, procVars, gauge, endVars, vod, toEnd,
                 watchVars, histVars>>

\* The key is unknown or inactive, or a statement fails: nothing is created.
CreateRow(s) ==
  /\ Alive /\ pub[s] = "checked"
  /\ \/ pub' = [pub EXCEPT ![s] = "rejected"] /\ UNCHANGED row
     \/ /\ pub' = [pub EXCEPT ![s] = "created"]
        /\ row' = [row EXCEPT ![s] = "waiting"]
  /\ UNCHANGED <<server, sessions, procVars, gauge, endVars, vod, toEnd,
                 watchVars, histVars>>

\* newTranscodeSession: directories, playlist, ffmpeg; or an error.
Spawn(s) ==
  /\ Alive /\ pub[s] = "created"
  /\ \/ /\ pub' = [pub EXCEPT ![s] = "spawned"]
        /\ ffmpeg' = [ffmpeg EXCEPT ![s] = "running"]
        /\ NoFault /\ UNCHANGED row
     \/ /\ pub' = [pub EXCEPT ![s] = "rejected"]
        /\ \/ NoFault /\ row' = [row EXCEPT ![s] = "ended"]
           \/ DbFault /\ UNCHANGED row
        /\ UNCHANGED ffmpeg
  /\ UNCHANGED <<server, sessions, closed, termed, gauge, endVars, vod, toEnd,
                 watchVars, calls>>

\* The session enters the map.
Track(s) ==
  /\ Alive /\ pub[s] = "spawned"
  /\ sessions' = sessions \cup {s}
  /\ pub' = [pub EXCEPT ![s] = "tracked"]
  /\ UNCHANGED <<server, row, procVars, gauge, endVars, vod, toEnd, watchVars,
                 histVars>>

\* Mutant: every rendition is counted.
CountStart_Renditions(s) ==
  /\ Alive /\ pub[s] = "tracked"
  /\ gauge' = gauge + 3
  /\ pub' = [pub EXCEPT ![s] = "counted"]
  /\ UNCHANGED <<server, sessions, row, procVars, endVars, vod, toEnd,
                 watchVars, histVars>>

CountStart(s) ==
  /\ Alive /\ pub[s] = "tracked"
  /\ gauge' = gauge + 1
  /\ pub' = [pub EXCEPT ![s] = "counted"]
  /\ UNCHANGED <<server, sessions, row, procVars, endVars, vod, toEnd,
                 watchVars, histVars>>

\* UpdateStarted, whatever the row says by now; an error is only logged.  The
\* handler then has its stream id.
UpdateStarted(s) ==
  /\ Alive /\ pub[s] = "counted"
  /\ \/ NoFault /\ row' = [row EXCEPT ![s] = "live"]
     \/ DbFault /\ UNCHANGED row
  /\ pub' = [pub EXCEPT ![s] = "publishing"]
  /\ UNCHANGED <<server, sessions, procVars, gauge, endVars, vod, toEnd,
                 watchVars, calls>>

-----------------------------------------------------------------------------
(* The callers of EndStream.                                                *)

Calls(t, s) == /\ at[t] = "idle"
               /\ at' = [at EXCEPT ![t] = "take"]
               /\ on' = [on EXCEPT ![t] = s]
               /\ calls' = [calls EXCEPT ![s] = IF @ = 2 THEN 2 ELSE @ + 1]

\* The publisher disconnects.  A stream that was ended by someone else stays
\* published until then: nothing closes its connection.
OnClose(s) ==
  /\ Alive /\ pub[s] = "publishing"
  /\ pub' = [pub EXCEPT ![s] = "closed"]
  /\ Calls(s, s)
  /\ UNCHANGED <<server, sessions, row, procVars, gauge, vod, toEnd, watchVars,
                 faults>>

\* The owner, who has the id from the list of live streams (one that was rejected
\* is never listed); the handler asks for the owner and not for the status.
ApiEnd(a, s) ==
  /\ server \in {"up", "ending"}
  /\ on[a] = NoStream /\ row[s] \in {"live", "ended"} /\ pub[s] # "rejected"
  /\ Calls(a, s)
  /\ UNCHANGED <<server, pubVars, row, procVars, gauge, vod, toEnd, watchVars,
                 faults>>

\* main: EndAllStreams copies the keys and ends one stream after the other.
EndAllStreams ==
  /\ MayStop /\ server = "up"
  /\ server' = "ending"
  /\ toEnd' = sessions
  /\ UNCHANGED <<pubVars, row, procVars, gauge, endVars, vod, watchVars,
                 histVars>>

EndNext(s) ==
  /\ server = "ending" /\ s \in toEnd
  /\ Calls(Main, s)
  /\ toEnd' = toEnd \ {s}
  /\ UNCHANGED <<server, pubVars, row, procVars, gauge, vod, watchVars, faults>>

\* HTTP handlers are waited for, then the workers.
StopServing ==
  /\ server = "ending" /\ toEnd = {} /\ at[Main] = "idle"
  /\ server' = "draining"
  /\ UNCHANGED <<pubVars, row, procVars, gauge, endVars, vod, toEnd, watchVars,
                 histVars>>

\* main returns: every goroutine is gone.
Exit ==
  /\ server = "draining"
  /\ server' = "exited"
  /\ UNCHANGED <<pubVars, row, procVars, gauge, endVars, vod, toEnd, watchVars,
                 histVars>>

-----------------------------------------------------------------------------
(* EndStream.                                                               *)

Step(t, from, to) == Alive /\ at[t] = from /\ at' = [at EXCEPT ![t] = to]

\* Under the lock: the session is read and deleted.
Take(t) ==
  /\ Step(t, "take", IF on[t] \in sessions THEN "stop" ELSE "gauge")
  /\ sessions' = sessions \ {on[t]}
  /\ UNCHANGED <<server, pub, row, procVars, gauge, on, vod, toEnd, watchVars,
                 histVars>>

\* Mutant: stdin is closed and ffmpeg left to itself.
Stop_NoWait(t) ==
  /\ Step(t, "stop", "gauge")
  /\ closed' = closed \cup {on[t]}
  /\ UNCHANGED <<server, pubVars, row, ffmpeg, termed, gauge, on, vod, toEnd,
                 watchVars, histVars>>

\* stop(): closed is set, stdin closed.
Stop(t) ==
  /\ Step(t, "stop", IF on[t] \in closed THEN "gauge" ELSE "wait")
  /\ closed' = closed \cup {on[t]}
  /\ UNCHANGED <<server, pubVars, row, ffmpeg, termed, gauge, on, vod, toEnd,
                 watchVars, histVars>>

\* cmd.Wait returns; #EXT-X-ENDLIST is appended.
Wait(t) ==
  /\ Step(t, "wait", "gauge") /\ ffmpeg[on[t]] = "zombie"
  /\ ffmpeg' = [ffmpeg EXCEPT ![on[t]] = "reaped"]
  /\ UNCHANGED <<server, pubVars, row, closed, termed, gauge, on, vod, toEnd,
                 watchVars, histVars>>

\* Mutant: the gauge does not go down.
CountEnd_Skips(t) ==
  /\ Step(t, "gauge", "row")
  /\ UNCHANGED <<server, pubVars, row, procVars, gauge, on, vod, toEnd,
                 watchVars, histVars>>

\* The gauge goes down, session or not.
CountEnd(t) ==
  /\ Step(t, "gauge", "row")
  /\ gauge' = gauge - 1
  /\ UNCHANGED <<server, pubVars, row, procVars, on, vod, toEnd, watchVars,
                 histVars>>

\* Mutant: the row of a stream that has no session left is not written.
UpdateEnded_OnlyTracked(t) ==
  /\ Step(t, "row", "record")
  /\ row' = IF on[t] \in sessions THEN [row EXCEPT ![on[t]] = "ended"] ELSE row
  /\ UNCHANGED <<server, pubVars, procVars, gauge, on, vod, toEnd, watchVars,
                 histVars>>

UpdateEnded(t) ==
  /\ Step(t, "row", "record")
  /\ \/ NoFault /\ row' = [row EXCEPT ![on[t]] = "ended"]
     \/ DbFault /\ UNCHANGED row
  /\ UNCHANGED <<server, pubVars, procVars, gauge, on, vod, toEnd, watchVars,
                 calls>>

\* GetByID; record_vod starts the conversion.
Record(t) ==
  /\ Step(t, "record", "idle")
  /\ \/ NoFault /\ vod' = IF on[t] \in Recorded THEN [vod EXCEPT ![<<t, on[t]>>] = "create"]
                                                ELSE vod
     \/ DbFault /\ UNCHANGED vod
  /\ UNCHANGED <<server, pubVars, row, procVars, gauge, on, toEnd, watchVars,
                 calls>>

\* convertToVOD: a video that is "ready" at once, then its path and the link.
CreateVideo(t, s) ==
  /\ Alive /\ vod[<<t, s>>] = "create"
  /\ \/ NoFault /\ vod' = [vod EXCEPT ![<<t, s>>] = "path"]
     \/ DbFault /\ vod' = [vod EXCEPT ![<<t, s>>] = "failed"]
  /\ UNCHANGED <<server, pubVars, row, procVars, gauge, endVars, toEnd,
                 watchVars, calls>>

SetPath(t, s) ==
  /\ Alive /\ vod[<<t, s>>] = "path"
  /\ \/ NoFault /\ vod' = [vod EXCEPT ![<<t, s>>] = "done"]
     \/ DbFault /\ vod' = [vod EXCEPT ![<<t, s>>] = "nopath"]
  /\ UNCHANGED <<server, pubVars, row, procVars, gauge, endVars, toEnd,
                 watchVars, calls>>

-----------------------------------------------------------------------------
(* ffmpeg and the watchdog.                                                 *)

\* At the end of its input, on SIGTERM, or by itself.
FFmpegExits(s) ==
  /\ ffmpeg[s] = "running"
  /\ s \in closed \/ s \in termed \/ MayDie \/ ~Alive
  /\ ffmpeg' = [ffmpeg EXCEPT ![s] = IF Alive THEN "zombie" ELSE "reaped"]
  /\ UNCHANGED <<server, pubVars, row, closed, termed, gauge, endVars, vod,
                 toEnd, watchVars, histVars>>

\* A tick: GetPIDs.
Tick ==
  /\ Watching /\ server = "up" /\ watch = "rest" /\ at[Watchdog] = "idle"
  /\ watch' = "live"
  /\ pids' = sessions
  /\ UNCHANGED <<server, pubVars, row, procVars, gauge, endVars, vod, toEnd,
                 listed, histVars>>

\* kill(pid, 0) fails only once the process was waited for: a zombie answers.
\* Media, and so a segment, can only come once OnPublish has returned.
FoundDead(s)    == ffmpeg[s] = "reaped"
MaybeStalled(s) == pub[s] \in {"publishing", "closed"}

CheckTranscoder(s) ==
  /\ Alive /\ watch = "live" /\ s \in pids /\ at[Watchdog] = "idle"
  /\ pids' = pids \ {s}
  /\ \/ (FoundDead(s) \/ MaybeStalled(s)) /\ Calls(Watchdog, s)
     \/ ~FoundDead(s) /\ UNCHANGED <<endVars, calls>>
  /\ UNCHANGED <<server, pubVars, row, procVars, gauge, vod, toEnd, watch,
                 listed, faults>>

\* pgrep lists the live processes...
ListProcesses ==
  /\ Alive /\ watch = "live" /\ pids = {} /\ at[Watchdog] = "idle"
  /\ watch' = "orphans"
  /\ listed' = {s \in Streams : ffmpeg[s] = "running"}
  /\ UNCHANGED <<server, pubVars, row, procVars, gauge, endVars, vod, toEnd,
                 pids, histVars>>

\* ... and those that are not in the map are sent SIGTERM.
KillOrphans ==
  /\ Alive /\ watch = "orphans"
  /\ watch' = "rest"
  /\ listed' = {}
  /\ termed' = termed \cup {s \in listed \ sessions : ffmpeg[s] = "running"}
  /\ UNCHANGED <<server, pubVars, row, ffmpeg, closed, gauge, endVars, vod,
                 toEnd, pids, histVars>>

StartStream(s) == CheckLimit(s) \/ CreateRow(s) \/ Spawn(s) \/ Track(s)
                  \/ CountStart(s) \/ UpdateStarted(s)
EndStream(t)   == Take(t) \/ Stop(t) \/ Wait(t) \/ CountEnd(t) \/ UpdateEnded(t)
                  \/ Record(t)
ConvertToVOD   == \E t \in Threads, s \in Streams : CreateVideo(t, s) \/ SetPath(t, s)
Shutdown       == EndAllStreams \/ (\E s \in Streams : EndNext(s)) \/ StopServing \/ Exit
WatchdogStep   == Tick \/ (\E s \in Streams : CheckTranscoder(s)) \/ ListProcesses
                  \/ KillOrphans

Next == \/ \E s \in Streams : StartStream(s) \/ OnClose(s) \/ FFmpegExits(s)
        \/ \E a \in ApiCalls, s \in Streams : ApiEnd(a, s)
        \/ \E t \in Threads : EndStream(t)
        \/ ConvertToVOD \/ Shutdown \/ WatchdogStep

Spec == Init /\ [][Next]_vars

\* Goroutines run on, and ffmpeg exits once its input has ended.  Nothing makes
\* a publisher disconnect, an owner call or the server stop.
FairSpec == /\ Spec
            /\ \A s \in Streams : /\ WF_vars(StartStream(s))
                                  /\ WF_vars(s \in closed /\ FFmpegExits(s))
            /\ \A t \in Threads : WF_vars(EndStream(t))
            /\ WF_vars(ConvertToVOD)

-----------------------------------------------------------------------------
(* Properties.                                                              *)

TypeOK ==
  /\ server \in {"up", "ending", "draining", "exited"}
  /\ pub \in [Streams -> {"idle", "checked", "created", "spawned", "tracked",
                          "counted", "publishing", "closed", "rejected"}]
  /\ sessions \subseteq Streams
  /\ row \in [Streams -> {"none", "waiting", "live", "ended"}]
  /\ ffmpeg \in [Streams -> {"none", "running", "zombie", "reaped"}]
  /\ closed \subseteq Streams /\ termed \subseteq Streams
  /\ gauge \in Int
  /\ at \in [Threads -> {"idle", "take", "stop", "wait", "gauge", "row", "record"}]
  /\ on \in [Threads -> Streams \cup {NoStream}]
  /\ vod \in [Threads \X Streams ->
                {"none", "create", "path", "done", "failed", "nopath"}]
  /\ toEnd \subseteq Streams
  /\ watch \in {"rest", "live", "orphans"}
  /\ pids \subseteq Streams /\ listed \subseteq Streams
  /\ faults \in 0..MaxFaults /\ calls \in [Streams -> 0..2]

Starting(s) == pub[s] \in {"checked", "created", "spawned", "tracked", "counted"}
Ending(t, s) == on[t] = s /\ at[t] # "idle"

\* No ffmpeg is ever left behind: while the server runs, a process that was not
\* waited for has its session in the map, is about to be put there, or is being
\* stopped by exactly one thread.
NoStrayProcess ==
  \A s \in Streams : Alive /\ ffmpeg[s] \in {"running", "zombie"} =>
    \/ s \in sessions \/ pub[s] = "spawned"
    \/ \E t \in Threads : /\ on[t] = s /\ at[t] \in {"stop", "wait"}
                          /\ \A u \in Threads :
                               on[u] = s /\ at[u] \in {"stop", "wait"} => u = t

\* A connection whose OnClose has returned leaves nothing behind, whoever else
\* ended its stream: no session, no process, and (statements that failed aside)
\* no row that still says "live".
CloseIsFinal ==
  \A s \in Streams :
    Alive /\ pub[s] = "closed" /\ ~(\E t \in Threads : Ending(t, s)) =>
      s \notin sessions /\ ffmpeg[s] = "reaped" /\ (row[s] = "ended" \/ faults > 0)

\* A stream that EndStream is called for once appears in its owner's library only
\* after ffmpeg has exited and its playlists were closed with #EXT-X-ENDLIST,
\* however it ended: by its connection, its owner, the watchdog or the shutdown.
OnceRecordedIsFinal ==
  \A t \in Threads, s \in Streams :
    calls[s] <= 1 /\ vod[<<t, s>>] \in {"path", "done"} => ffmpeg[s] = "reaped"

\* While EndStream has been called at most once for every stream, the gauge
\* LiveStreamsActive is the size of the sessions map, up to the streams that
\* are being started or ended.
OnceGaugeCounts ==
  (Alive /\ \A s \in Streams : /\ calls[s] <= 1 /\ ~Starting(s)
                               /\ ~(\E t \in Threads : Ending(t, s)))
    => gauge = Cardinality(sessions)

\* The stream of a publisher that disconnected ends, and if its key asks for it
\* a recording of it is made, unless statements fail or the process exits first.
ClosedIsRecorded ==
  \A s \in Streams : (pub[s] = "closed") ~>
    \/ ~Alive \/ faults > 0
    \/ /\ row[s] = "ended"
       /\ s \in Recorded => \E t \in Threads : vod[<<t, s>>] = "done"

-----------------------------------------------------------------------------
(* What the documentation promises, and EndStream and the watchdog do not   *)
(* keep (README.md of this project has the counterexamples).                *)

\* A recorded stream is recorded at most once (README.md: "On stream end, a VOD
\* recording is automatically created in the library").
OneRecording ==
  \A s \in Streams :
    Cardinality({t \in Threads : vod[<<t, s>>] \in {"path", "done", "nopath"}}) <= 1

\* A stream is in the library only after ffmpeg has exited and the playlists
\* were closed, which docs/README.md puts before convertToVOD.
RecordingIsFinal ==
  \A t \in Threads, s \in Streams : vod[<<t, s>>] \in {"path", "done"} => ffmpeg[s] = "reaped"

\* LiveStreamsActive, "number of currently active live streams" (metrics.go):
\* the size of the map whenever no stream is being started or ended.
GaugeCountsSessions ==
  (Alive /\ ~(\E s \in Streams : Starting(s) \/ \E t \in Threads : Ending(t, s)))
    => gauge = Cardinality(sessions)

\* No more than maxLiveStreams sessions ("max concurrent streams reached").
AtMostMaxStreams == Cardinality(sessions) <= MaxStreams

\* EndAllStreams "gracefully terminates every active live stream": after a
\* shutdown that ran to its end no row says "live".
ShutdownEndsAll == server = "exited" => \A s \in Streams : row[s] # "live"

\* The watchdog's SIGTERM goes to processes that are "no longer tracked by the
\* live manager", never to one whose stream is only being started.
OnlyOrphansAreKilled ==
  [][\A s \in Streams : s \in termed' \ termed => ~Starting(s)]_vars

-----------------------------------------------------------------------------
(* The inductive invariant of the proofs.                                   *)

Known(s)       == pub[s] \in {"tracked", "counted", "publishing", "closed"}
Stopping(t, s) == on[t] = s /\ at[t] \in {"stop", "wait"}

\* Nobody knows of a stream before Track: nothing can end it, and its row is
\* not among those an owner sees.
StartInv ==
  \A s \in Streams :
    /\ pub[s] \in {"idle", "checked", "created", "rejected"} <=> ffmpeg[s] = "none"
    /\ ~Known(s) => /\ s \notin sessions \cup toEnd \cup pids \cup closed
                    /\ calls[s] = 0
    /\ calls[s] = 0 => \A t \in Threads : on[t] # s
    /\ row[s] = "live" => pub[s] \in {"publishing", "closed"}
    /\ row[s] = "ended" => pub[s] = "rejected" \/ calls[s] > 0

\* Who calls EndStream: a connection only from its own OnClose.
CallerInv ==
  /\ \A t \in Threads : at[t] # "idle" => on[t] \in Streams
  /\ \A s \in Streams : on[s] = IF pub[s] = "closed" THEN s ELSE NoStream

\* The map hands a session to one caller, who closes and waits for ffmpeg.
StopInv ==
  /\ NoStrayProcess
  /\ \A s \in Streams, t, u \in Threads : Stopping(t, s) /\ Stopping(u, s) => t = u
  /\ \A s \in Streams :
       /\ s \in sessions => s \notin closed
       /\ \A t \in Threads : Stopping(t, s) =>
            s \notin sessions /\ (s \in closed <=> at[t] = "wait")

\* How far the OnClose of a stream has come.
CloseInv ==
  \A s \in Streams : pub[s] = "closed" =>
    /\ s \in sessions => at[s] = "take"
    /\ faults = 0 => \/ row[s] = "ended"
                     \/ at[s] \in {"take", "stop", "wait", "gauge", "row"}

\* A stream that was never ended is in the map; one that was ended once was
\* taken out of it by that call, which waited for ffmpeg before it went on.
OnceInv ==
  \A s \in Streams :
    /\ calls[s] = 0 => /\ Known(s) => s \in sessions
                       /\ \A t \in Threads : vod[<<t, s>>] = "none"
    /\ calls[s] = 1 =>
         /\ \A t, u \in Threads : on[t] = s /\ on[u] = s => t = u
         /\ s \in sessions => \E t \in Threads : on[t] = s /\ at[t] = "take"
         /\ \A t \in Threads :
              /\ on[t] = s /\ at[t] = "take" => s \in sessions
              /\ on[t] = s /\ at[t] \in {"gauge", "row", "record"} => ffmpeg[s] = "reaped"
              /\ vod[<<t, s>>] # "none" => ffmpeg[s] = "reaped"

\* The gauge went up for the streams in Up and down for those in Down.
Up   == {s \in Streams : pub[s] \in {"counted", "publishing", "closed"}}
Down == {s \in Streams :
           /\ calls[s] > 0
           /\ \A t \in Threads : on[t] = s => at[t] \notin {"take", "stop", "wait", "gauge"}}

GaugeInv ==
  /\ IsFiniteSet(Up)
  /\ (\A s \in Streams : calls[s] <= 1) =>
       IsFiniteSet(Down) /\ gauge = Cardinality(Up) - Cardinality(Down)

LiveInv == TypeOK /\ StartInv /\ CallerInv /\ StopInv /\ CloseInv /\ OnceInv
           /\ GaugeInv
=============================================================================
