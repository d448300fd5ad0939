-------------------------- MODULE TranscodeSession --------------------------
(***************************************************************************)
(* One live transcodeSession: the connection's goroutine that writes FLV   *)
(* tags, the io.Pipe between it and the goroutine os/exec starts to feed   *)
(* ffmpeg's stdin, ffmpeg, and the one caller of EndStream that took the   *)
(* session out of the map and stops it.                                    *)
(*                                                                         *)
(* writeTag holds the session's mutex while it writes, and a write to an   *)
(* io.Pipe returns when the other side has read all of it.                 *)
(***************************************************************************)
EXTENDS Naturals

CONSTANTS Parts,    \* reads it takes to empty one tag
          PipeCap,  \* parts the kernel's pipe to ffmpeg holds
          MaxTags,  \* bound: tags the publisher sends
          MayFail,  \* may ffmpeg stop reading or exit by itself?
          Watching  \* does the watchdog tick?

ASSUME SessionAssumption == /\ {Parts, PipeCap, MaxTags} \subseteq Nat \ {0}
                            /\ {MayFail, Watching} \subseteq BOOLEAN

VARIABLES writer,    \* the RTMP connection: idle, lock, write, closed
          stopper,   \* EndStream's stop(): none, lock, wait, done
          inTick,    \* is it the watchdog's goroutine that runs it?
          mu,        \* who holds ts.mu
          closed,    \* ts.closed; the io.Pipe's writing end is closed with it
          pending,   \* parts of the tag under way that nobody has read yet
          feeder,    \* os/exec's copy: read, hold (a part in hand), done
          pipe,      \* parts in the kernel's pipe
          ffmpeg,    \* running, stalled, dead (or SIGTERM), finished (end of input)
          segments,  \* has ffmpeg written a segment?
          sent,      \* tags whose write has returned
          eaten,     \* parts ffmpeg has read
          endlist    \* times #EXT-X-ENDLIST was appended

goVars == <<writer, stopper, inTick, mu, closed>>
ioVars == <<pending, feeder, pipe>>
vars == <<goVars, ioVars, ffmpeg, segments, sent, eaten, endlist>>

Init == /\ writer = "idle" /\ stopper = "none" /\ inTick = FALSE
        /\ mu = "free" /\ closed = FALSE
        /\ pending = 0 /\ feeder = "read" /\ pipe = 0
        /\ ffmpeg = "running" /\ segments = FALSE
        /\ sent = 0 /\ eaten = 0 /\ endlist = 0

Gone == ffmpeg \in {"dead", "finished"}

-----------------------------------------------------------------------------
(* The connection's goroutine.                                              *)

\* OnVideo or OnAudio: the session was looked up before EndStream took it, or
\* is looked up now.
OnPacket ==
  /\ writer = "idle" /\ sent < MaxTags
  /\ writer' = "lock"
  /\ UNCHANGED <<stopper, inTick, mu, closed, ioVars, ffmpeg, segments, sent, eaten, endlist>>

\* Mutant: a closed session is written to.
WriteTag_Closed ==
  /\ writer = "lock" /\ mu = "free"
  /\ writer' = "write" /\ mu' = "writer" /\ pending' = Parts
  /\ UNCHANGED <<stopper, inTick, closed, feeder, pipe, ffmpeg, segments, sent, eaten, endlist>>

\* The mutex; then the write starts, or nothing happens on a closed session.
WriteTag ==
  /\ writer = "lock" /\ mu = "free"
  /\ IF closed
        THEN writer' = "idle" /\ UNCHANGED <<mu, pending>>
        ELSE writer' = "write" /\ mu' = "writer" /\ pending' = Parts
  /\ UNCHANGED <<stopper, inTick, closed, feeder, pipe, ffmpeg, segments, sent, eaten, endlist>>

\* Mutant: the mutex is kept.
Written_KeepsLock ==
  /\ writer = "write" /\ pending = 0
  /\ writer' = "idle"
  /\ sent' = sent + 1
  /\ UNCHANGED <<stopper, inTick, mu, closed, ioVars, ffmpeg, segments, eaten, endlist>>

\* The tag has been read to its end: Write returns, the mutex is released.
Written ==
  /\ writer = "write" /\ pending = 0
  /\ writer' = "idle" /\ mu' = "free"
  /\ sent' = sent + 1
  /\ UNCHANGED <<stopper, inTick, closed, ioVars, ffmpeg, segments, eaten, endlist>>

\* The publisher disconnects: OnClose runs in the same goroutine.
Disconnect ==
  /\ writer = "idle"
  /\ writer' = "closed"
  /\ stopper' = IF stopper = "none" THEN "lock" ELSE stopper
  /\ UNCHANGED <<inTick, mu, closed, ioVars, ffmpeg, segments, sent, eaten, endlist>>

-----------------------------------------------------------------------------
(* stop().                                                                  *)

\* The owner's call or the shutdown.
Ask ==
  /\ stopper = "none"
  /\ stopper' = "lock"
  /\ UNCHANGED <<writer, inTick, mu, closed, ioVars, ffmpeg, segments, sent, eaten, endlist>>

\* checkLiveTranscoders: the newest segment is older than 10 s, because ffmpeg
\* stalled or died, or because a healthy one had nothing to read.  Without any
\* segment the check finds nothing, not even an exit: nobody has waited for the
\* process, and signal 0 still reaches it.
WatchdogEnds ==
  /\ Watching
  /\ stopper = "none" /\ segments
  /\ stopper' = "lock" /\ inTick' = TRUE
  /\ UNCHANGED <<writer, mu, closed, ioVars, ffmpeg, segments, sent, eaten, endlist>>

\* Mutant: stdin is closed without the mutex, under a write.
CloseInput_NoLock ==
  /\ stopper = "lock"
  /\ stopper' = "wait" /\ closed' = TRUE
  /\ pending' = 0
  /\ UNCHANGED <<writer, inTick, mu, feeder, pipe, ffmpeg, segments, sent, eaten, endlist>>

\* Lock, closed = true, stdin.Close, Unlock.
CloseInput ==
  /\ stopper = "lock" /\ mu = "free"
  /\ stopper' = "wait" /\ closed' = TRUE
  /\ UNCHANGED <<writer, inTick, mu, ioVars, ffmpeg, segments, sent, eaten, endlist>>

\* Mutant: the playlists are finalised while ffmpeg still flushes.
Finalise_Early ==
  /\ stopper = "wait"
  /\ stopper' = "done"
  /\ endlist' = endlist + 1
  /\ UNCHANGED <<writer, inTick, mu, closed, ioVars, ffmpeg, segments, sent, eaten>>

\* Mutant: stop() may run again.
Finalise_Again ==
  /\ stopper = "wait" /\ Gone /\ feeder = "done"
  /\ stopper' = "none"
  /\ endlist' = endlist + 1
  /\ UNCHANGED <<writer, inTick, mu, closed, ioVars, ffmpeg, segments, sent, eaten>>

\* cmd.Wait returns when ffmpeg has exited and its feeder has ended.
Finalise ==
  /\ stopper = "wait" /\ Gone /\ feeder = "done"
  /\ stopper' = "done"
  /\ endlist' = endlist + 1
  /\ UNCHANGED <<writer, inTick, mu, closed, ioVars, ffmpeg, segments, sent, eaten>>

-----------------------------------------------------------------------------
(* os/exec and ffmpeg.                                                      *)

\* A part of the tag, or the end of the input.
FeederReads ==
  /\ feeder = "read"
  /\ \/ pending > 0 /\ feeder' = "hold" /\ pending' = pending - 1
     \/ pending = 0 /\ closed /\ feeder' = "done" /\ UNCHANGED pending
  /\ UNCHANGED <<goVars, pipe, ffmpeg, segments, sent, eaten, endlist>>

\* Into the kernel's pipe.  EPIPE ends the copy; nobody closes the io.Pipe's
\* reading end, so what is written to it afterwards is never read.
FeederWrites ==
  /\ feeder = "hold"
  /\ \/ ~Gone /\ pipe < PipeCap /\ pipe' = pipe + 1 /\ feeder' = "read"
     \/ Gone /\ feeder' = "done" /\ UNCHANGED pipe
  /\ UNCHANGED <<goVars, pending, ffmpeg, segments, sent, eaten, endlist>>

FFmpegReads ==
  /\ ffmpeg = "running" /\ pipe > 0
  /\ pipe' = pipe - 1 /\ eaten' = eaten + 1
  /\ segments' \in {segments, TRUE}
  /\ UNCHANGED <<goVars, pending, feeder, ffmpeg, sent, endlist>>

FFmpegEnds ==
  /\ ffmpeg = "running" /\ pipe = 0 /\ feeder = "done"
  /\ ffmpeg' = "finished"
  /\ UNCHANGED <<goVars, ioVars, segments, sent, eaten, endlist>>

\* checkOrphanedFFmpeg: the session left the map before stop() began.  The tick
\* that runs stop() itself does not get here.
KillOrphan ==
  /\ Watching /\ stopper \in {"lock", "wait"} /\ ~inTick
  /\ ~Gone
  /\ ffmpeg' = "dead"
  /\ UNCHANGED <<goVars, ioVars, segments, sent, eaten, endlist>>

FFmpegFails ==
  /\ MayFail /\ ffmpeg = "running"
  /\ ffmpeg' \in {"stalled", "dead"}
  /\ UNCHANGED <<goVars, ioVars, segments, sent, eaten, endlist>>

Writer  == WriteTag \/ Written
Stopper == CloseInput \/ Finalise
Feeder  == FeederReads \/ FeederWrites
FFmpeg  == FFmpegReads \/ FFmpegEnds

Next == OnPacket \/ Writer \/ Disconnect \/ Ask \/ WatchdogEnds \/ KillOrphan
        \/ Stopper \/ Feeder \/ FFmpeg \/ FFmpegFails

Spec == Init /\ [][Next]_vars

\* Goroutines and a healthy ffmpeg run on.  No fairness for the publisher, the
\* owner, the failures and the watchdog, whose ticks are far apart: a stop must
\* not need its SIGTERM.
FairSpec == /\ Spec
            /\ WF_vars(Writer) /\ WF_vars(Stopper) /\ WF_vars(Feeder)
            /\ WF_vars(FFmpeg)

\* The watchdog ticks for as long as it takes: the segments of an ffmpeg that
\* failed grow old.
WatchedSpec == /\ FairSpec
               /\ WF_vars(ffmpeg \in {"stalled", "dead"} /\ WatchdogEnds)
               /\ WF_vars(KillOrphan)

-----------------------------------------------------------------------------
(* Properties.                                                              *)

TypeOK ==
  /\ writer \in {"idle", "lock", "write", "closed"}
  /\ stopper \in {"none", "lock", "wait", "done"}
  /\ inTick \in BOOLEAN
  /\ mu \in {"free", "writer"} /\ closed \in BOOLEAN
  /\ pending \in 0..Parts /\ feeder \in {"read", "hold", "done"}
  /\ pipe \in 0..PipeCap
  /\ ffmpeg \in {"running", "stalled", "dead", "finished"} /\ segments \in BOOLEAN
  /\ sent \in 0..MaxTags /\ eaten \in Nat /\ endlist \in {0, 1}

\* Nothing is written to a pipe that was closed: the write would fail in the
\* middle of a tag.
NoWriteAfterClose == closed => pending = 0 /\ writer # "write"

\* Every tag whose write returned was read by ffmpeg before the playlists were
\* closed with #EXT-X-ENDLIST, unless ffmpeg failed or was sent SIGTERM.
NothingCutOff == endlist = 1 /\ ffmpeg # "dead" => eaten = Parts * sent

\* No part is lost or duplicated on its way to an ffmpeg that reads on.
PartsAreConserved ==
  ~Gone => eaten + pipe + (IF feeder = "hold" THEN 1 ELSE 0)
             = Parts * sent + (IF writer = "write" THEN Parts - pending ELSE 0)

\* Once EndStream has the session, its stop() returns, whatever the publisher
\* sends meanwhile: a healthy ffmpeg empties the pipe under the pending write,
\* the mutex comes free and the process exits.  Only an ffmpeg that stopped
\* reading, by itself or by the watchdog's SIGTERM, prevents it.
StopReturns ==
  (stopper = "lock") ~> (stopper = "done" \/ ffmpeg \in {"stalled", "dead"})

\* "EndStream stops transcoding, marks stream ended" (manager.go): the same
\* without the exception.
StopAlwaysReturns == (stopper = "lock") ~> (stopper = "done")

\* "Stalled or dead sessions are ended": the watchdog's promise, for a session
\* that has written segments before.
FailedIsEnded ==
  (segments /\ stopper = "none" /\ ffmpeg \in {"stalled", "dead"}) ~> (stopper = "done")

\* Shutdown and owner: once asked for, the stop of a session whose ffmpeg has
\* died comes to its end.
DeadStopReturns == (stopper = "lock" /\ ffmpeg = "dead") ~> (stopper = "done")

-----------------------------------------------------------------------------
(* The inductive invariant of the proofs.                                   *)

\* The mutex is the writer's exactly during a write, and stop() has closed the
\* input exactly when it waits or is over.
LockInv == /\ mu = "writer" <=> writer = "write"
           /\ writer # "write" => pending = 0
           /\ writer \in {"lock", "write"} => sent < MaxTags
           /\ closed <=> stopper \in {"wait", "done"}
           /\ closed => writer # "write"
           /\ endlist = IF stopper = "done" THEN 1 ELSE 0
           /\ stopper = "done" => Gone

\* ffmpeg comes to the end of its input only after the feeder, the feeder only
\* after the last tag, and neither while a part is on its way.
FlowInv == /\ PartsAreConserved
           /\ feeder = "done" /\ ffmpeg # "dead" => closed
           /\ ffmpeg = "finished" =>
                feeder = "done" /\ closed /\ eaten = Parts * sent

SessionInv == TypeOK /\ LockInv /\ FlowInv
=============================================================================
