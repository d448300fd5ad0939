--------------------------- MODULE TranscodeQueue ---------------------------
(***************************************************************************)
(* The transcode queue of the server: the transcode_jobs and videos rows,  *)
(* the buffered channel jobCh, the worker pool, the watchdog that resets   *)
(* stuck jobs, the tail of an upload's assembly (the channel's producer),  *)
(* video deletion, the graceful shutdown of main and its crash.            *)
(*                                                                         *)
(* A job is identified with the assembly goroutine that creates it: asm[j] *)
(* is where that goroutine stands.  VideoOf says which video it assembled; *)
(* it is injective unless an upload is assembled twice.                    *)
(***************************************************************************)
EXTENDS Naturals, Sequences, FiniteSets

CONSTANTS Videos,     \* uploaded videos
          Jobs,       \* transcode jobs, one per run of assemble
          VideoOf,    \* the video of each job
          Workers,    \* the WorkerCount goroutines
          NoJob,      \* what an idle worker holds
          QueueCap,   \* capacity of jobCh (100 in main.go)
          Profiles,   \* renditions of the ladder
          Deletable,  \* videos whose owner may delete them
          MediaFails, \* may ffprobe or ffmpeg reject the media?
          MayHang,    \* may an ffprobe or ffmpeg run never end by itself?
          MaxFaults,  \* bound: statements and file operations that may fail
          MaxRuns     \* bound: times the server is started

ASSUME VideoOfAssumption == VideoOf \in [Jobs -> Videos]
ASSUME NoJobAssumption   == NoJob \notin Jobs
ASSUME BoundsAssumption  == /\ QueueCap \in Nat \ {0}
                            /\ Profiles \in Nat \ {0}
                            /\ MaxFaults \in Nat
                            /\ MaxRuns \in Nat
ASSUME FlagsAssumption   == /\ Deletable \subseteq Videos
                            /\ MediaFails \in BOOLEAN /\ MayHang \in BOOLEAN

VARIABLES server,    \* where main stands
          runs,      \* times the server was started
          boot,      \* queued rows main still has to re-enqueue
          ch,        \* jobCh
          job,       \* transcode_jobs.status, "none" when there is no row
          stale,     \* rows whose updated_at is older than 30 minutes
          video,     \* videos.status, "deleted" when the row is gone
          raw,       \* is data/raw/<video> there, complete?
          hls,       \* data/hls/<video>: absent, without manifest, complete
          leftover,  \* raw directories that Process could not remove
          asm,       \* assembly goroutines
          wpc,       \* where a worker stands in Process
          wjob,      \* the job it holds
          left,      \* profiles it still has to encode
          found,     \* stuck rows the watchdog read and has not reset yet
          del,       \* DeleteVideo handlers
          faults,    \* failures so far
          resets,    \* history: rows the watchdog reset in this run of the server
          abandoned, \* history: rows whose last worker is gone and left unfinished
          unlisted   \* history: queued rows this start of main could not list

mainVars   == <<server, runs, boot>>
rowVars    == <<job, stale, video>>
fileVars   == <<raw, hls, leftover>>
workerVars == <<wpc, wjob, left>>
histVars   == <<resets, abandoned, unlisted>>
vars == <<mainVars, ch, rowVars, fileVars, asm, workerVars, found, del,
          faults, histVars>>

ServerStates == {"down", "boot", "up", "stopping", "cancelled", "draining"}
JobStates    == {"none", "queued", "running", "completed", "failed"}
VideoStates  == {"uploading", "processing", "ready", "failed", "deleted"}
AsmStates    == {"idle", "raw", "created", "sending", "done", "failing",
                 "failed", "lost"}
InProgress   == {"raw", "created", "sending", "failing"}
Stages       == {"got", "load", "probe", "encode", "hung", "package", "cleanup",
                 "publish", "complete", "failing", "failvideo"}
WorkerStates == Stages \cup {"idle", "exited"}

Init == /\ server = "down" /\ runs = 0 /\ boot = {}
        /\ ch = << >>
        /\ job = [j \in Jobs |-> "none"]
        /\ stale = {}
        /\ video = [v \in Videos |-> "uploading"]
        /\ raw = [v \in Videos |-> FALSE]
        /\ hls = [v \in Videos |-> "none"]
        /\ leftover = {}
        /\ asm = [j \in Jobs |-> "idle"]
        /\ wpc = [w \in Workers |-> "idle"]
        /\ wjob = [w \in Workers |-> NoJob]
        /\ left = [w \in Workers |-> 0]
        /\ found = {}
        /\ del = [v \in Videos |-> "none"]
        /\ faults = 0
        /\ resets = {} /\ abandoned = {} /\ unlisted = {}

InChannel(j) == \E i \in 1..Len(ch) : ch[i] = j
Held(j)      == \E w \in Workers : wjob[w] = j
Alive        == server # "down"
Serving      == server \in {"up", "stopping"}          \* HTTP handlers run
CtxCancelled == server \in {"cancelled", "draining"}   \* workerCancel ran
ChanClosed   == server = "draining"                    \* close(jobCh) ran

Waiting(j)   == j \in boot \/ InChannel(j)
Delivered(j) == Waiting(j) \/ Held(j)
OncePerChannel == \A a, b \in 1..Len(ch) : ch[a] = ch[b] => a = b
OneWorker == \A w1, w2 \in Workers :
               wjob[w1] = wjob[w2] /\ wjob[w1] # NoJob => w1 = w2

-----------------------------------------------------------------------------
(* Statements on rows.  An UPDATE of a row that is gone changes nothing.    *)

SetJob(j, s) == /\ job' = IF job[j] = "none" THEN job
                                             ELSE [job EXCEPT ![j] = s]
                /\ stale' = stale \ {j}

Touch(j)     == stale' = stale \ {j}                   \* jobs.UpdateProgress

SetVideo(v, s) == video' = IF video[v] = "deleted" THEN video
                                          ELSE [video EXCEPT ![v] = s]

NoFault  == UNCHANGED faults
Fault  == faults < MaxFaults /\ faults' = faults + 1

-----------------------------------------------------------------------------
(* main: start, graceful shutdown, crash.                                   *)

Queued == {j \in Jobs : job[j] = "queued"}

\* Workers start, then ListQueued is read once.  When it fails, main warns and
\* serves without the rows it could not list.
Start == /\ server = "down" /\ runs < MaxRuns
         /\ server' = "boot"
         /\ runs' = runs + 1
         /\ \/ boot' = Queued /\ UNCHANGED unlisted /\ NoFault
            \/ boot' = {} /\ unlisted' = Queued /\ Fault
         /\ UNCHANGED <<ch, rowVars, fileVars, asm, workerVars, found, del,
                        resets, abandoned>>

\* main sends the listed jobs before it serves anything; the send blocks
\* while the channel is full.
Reenqueue(j) == /\ server = "boot" /\ j \in boot
                /\ Len(ch) < QueueCap
                /\ ch' = Append(ch, j)
                /\ boot' = boot \ {j}
                /\ UNCHANGED <<server, runs, rowVars, fileVars, asm,
                               workerVars, found, del, faults, histVars>>

Serve == /\ server = "boot" /\ boot = {}
         /\ server' = "up"
         /\ UNCHANGED <<runs, boot, ch, rowVars, fileVars, asm, workerVars,
                        found, del, faults, histVars>>

\* SIGTERM cancels ctx: the watchdog's remaining statements fail.
Signal == /\ server = "up"
          /\ server' = "stopping"
          /\ found' = {}
          /\ UNCHANGED <<runs, boot, ch, rowVars, fileVars, asm, workerVars,
                         del, faults, histVars>>

CancelWorkers == /\ server = "stopping"
                 /\ server' = "cancelled"
                 /\ UNCHANGED <<runs, boot, ch, rowVars, fileVars, asm,
                                workerVars, found, del, faults, histVars>>

CloseQueue == /\ server = "cancelled"
              /\ server' = "draining"
              /\ UNCHANGED <<runs, boot, ch, rowVars, fileVars, asm,
                             workerVars, found, del, faults, histVars>>

Running == {j \in Jobs : job[j] = "running"}

\* The process ends: what is in memory is lost, rows and files stay.
Halt(orphans) ==
  /\ server' = "down"
  /\ boot' = {} /\ ch' = << >> /\ found' = {}
  /\ wpc' = [w \in Workers |-> "idle"]
  /\ wjob' = [w \in Workers |-> NoJob]
  /\ left' = [w \in Workers |-> 0]
  /\ asm' = [j \in Jobs |-> IF asm[j] \in InProgress THEN "lost" ELSE asm[j]]
  /\ del' = [v \in Videos |-> IF del[v] = "rows" THEN "lost" ELSE del[v]]
  /\ abandoned' = abandoned \cup orphans
  /\ resets' = {} /\ unlisted' = {}
  /\ UNCHANGED <<runs, rowVars, fileVars, faults>>

\* w.Wait returned before the 60 s were over.
WorkersDone == /\ server = "draining"
               /\ \A w \in Workers : wpc[w] = "exited"
               /\ Halt({})

DrainTimeout == server = "draining" /\ Halt(Running)

Crash == Alive /\ Halt(Running)

-----------------------------------------------------------------------------
(* assemble: the raw file, the job row, the video's status, the send.       *)

AssembleFile(j) ==
  /\ Serving /\ asm[j] = "idle"
  /\ \/ /\ video[VideoOf[j]] # "deleted"
        /\ asm' = [asm EXCEPT ![j] = "raw"]
        /\ raw' = [raw EXCEPT ![VideoOf[j]] = TRUE]
        /\ NoFault
     \/ /\ asm' = [asm EXCEPT ![j] = "failing"]
        /\ \/ video[VideoOf[j]] = "deleted" /\ NoFault
           \/ Fault
        /\ UNCHANGED raw
  /\ UNCHANGED <<mainVars, ch, rowVars, hls, leftover, workerVars, found, del,
                 histVars>>

\* The foreign key refuses a job of a video that was deleted.
CreateJob(j) ==
  /\ Alive /\ asm[j] = "raw"
  /\ \/ /\ video[VideoOf[j]] # "deleted"
        /\ job' = [job EXCEPT ![j] = "queued"]
        /\ stale' = stale \ {j}
        /\ asm' = [asm EXCEPT ![j] = "created"]
        /\ NoFault
     \/ /\ asm' = [asm EXCEPT ![j] = "failing"]
        /\ \/ video[VideoOf[j]] = "deleted" /\ NoFault
           \/ Fault
        /\ UNCHANGED <<job, stale>>
  /\ UNCHANGED <<mainVars, ch, video, fileVars, workerVars, found, del, histVars>>

MarkProcessing(j) ==
  /\ Alive /\ asm[j] = "created"
  /\ \/ /\ SetVideo(VideoOf[j], "processing")
        /\ asm' = [asm EXCEPT ![j] = "sending"]
        /\ NoFault
     \/ /\ asm' = [asm EXCEPT ![j] = "failing"]
        /\ Fault
        /\ UNCHANGED video
  /\ UNCHANGED <<mainVars, ch, job, stale, fileVars, workerVars, found, del,
                 histVars>>

\* Mutants: a send that ignores the capacity; a send that gives up when the
\* channel is full.
Send_NoCap(j) == /\ Alive /\ ~ChanClosed /\ asm[j] = "sending"
                 /\ ch' = Append(ch, j)
                 /\ asm' = [asm EXCEPT ![j] = "done"]
                 /\ UNCHANGED <<mainVars, rowVars, fileVars, workerVars, found,
                                del, faults, histVars>>
Send_DropWhenFull(j) ==
  /\ Alive /\ ~ChanClosed /\ asm[j] = "sending"
  /\ ch' = IF Len(ch) < QueueCap THEN Append(ch, j) ELSE ch
  /\ asm' = [asm EXCEPT ![j] = "done"]
  /\ UNCHANGED <<mainVars, rowVars, fileVars, workerVars, found, del, faults,
                 histVars>>

Send(j) == /\ Alive /\ ~ChanClosed /\ asm[j] = "sending"
           /\ Len(ch) < QueueCap
           /\ ch' = Append(ch, j)
           /\ asm' = [asm EXCEPT ![j] = "done"]
           /\ UNCHANGED <<mainVars, rowVars, fileVars, workerVars, found, del,
                          faults, histVars>>

\* A send on the closed channel panics and takes the process down.
SendPanics(j) == ChanClosed /\ asm[j] = "sending" /\ Halt(Running)

AssembleFailed(j) ==
  /\ Alive /\ asm[j] = "failing"
  /\ asm' = [asm EXCEPT ![j] = "failed"]
  /\ \/ SetVideo(VideoOf[j], "failed") /\ NoFault
     \/ Fault /\ UNCHANGED video
  /\ UNCHANGED <<mainVars, ch, job, stale, fileVars, workerVars, found, del,
                 histVars>>

-----------------------------------------------------------------------------
(* A worker's loop and Process, one action per database statement or        *)
(* ffmpeg run.  Stages that take ctx fail once the workers are cancelled.   *)

Goto(w, stage) == wpc' = [wpc EXCEPT ![w] = stage] /\ UNCHANGED <<wjob, left>>
GiveUp(w)      == Goto(w, "failing")
Done(w)        == /\ wpc' = [wpc EXCEPT ![w] = "idle"]
                  /\ wjob' = [wjob EXCEPT ![w] = NoJob]
                  /\ left' = [left EXCEPT ![w] = 0]
At(w, stage)   == Alive /\ wpc[w] = stage
VideoOn(w)     == VideoOf[wjob[w]]

\* select: when the channel is not empty and ctx is done, either is chosen.
Take(w) == /\ At(w, "idle") /\ ch # << >>
           /\ ch' = Tail(ch)
           /\ wjob' = [wjob EXCEPT ![w] = Head(ch)]
           /\ wpc' = [wpc EXCEPT ![w] = "got"]
           /\ UNCHANGED <<mainVars, rowVars, fileVars, asm, left, found, del,
                          faults, histVars>>

Exit(w) == /\ At(w, "idle") /\ CtxCancelled
           /\ wpc' = [wpc EXCEPT ![w] = "exited"]
           /\ UNCHANGED <<mainVars, ch, rowVars, fileVars, asm, wjob, left,
                          found, del, faults, histVars>>

\* jobs.GetByID and jobs.UpdateRunning.
BeginJob(w) ==
  /\ At(w, "got")
  /\ \/ /\ job[wjob[w]] # "none"
        /\ SetJob(wjob[w], "running")
        /\ Goto(w, "load")
        /\ abandoned' = abandoned \ {wjob[w]}
        /\ NoFault
     \/ /\ GiveUp(w)
        /\ \/ job[wjob[w]] = "none" /\ NoFault
           \/ Fault
        /\ UNCHANGED <<job, stale, abandoned>>
  /\ UNCHANGED <<mainVars, ch, video, fileVars, asm, found, del, resets, unlisted>>

\* Mutant: an HLS directory left by an earlier attempt is taken as finished.
LoadInput_Resume(w) ==
  /\ At(w, "load")
  /\ CASE video[VideoOn(w)] = "deleted" \/ ~raw[VideoOn(w)] ->
              GiveUp(w) /\ UNCHANGED stale
       [] hls[VideoOn(w)] # "none" -> Goto(w, "publish") /\ UNCHANGED stale
       [] OTHER -> Goto(w, "probe") /\ Touch(wjob[w])
  /\ UNCHANGED <<mainVars, ch, job, video, fileVars, asm, found, del, faults,
                 histVars>>

\* videos.GetByID, the input file, stage "probe".
LoadInput(w) ==
  /\ At(w, "load")
  /\ \/ /\ video[VideoOn(w)] # "deleted" /\ raw[VideoOn(w)]
        /\ Goto(w, "probe") /\ Touch(wjob[w])
        /\ NoFault
     \/ /\ GiveUp(w) /\ UNCHANGED stale
        /\ \/ (video[VideoOn(w)] = "deleted" \/ ~raw[VideoOn(w)]) /\ NoFault
           \/ Fault
  /\ UNCHANGED <<mainVars, ch, job, video, fileVars, asm, found, del, histVars>>

\* ffprobe, stage "prepare", the HLS directory.
Probe(w) ==
  /\ At(w, "probe")
  /\ \/ /\ ~CtxCancelled /\ raw[VideoOn(w)]
        /\ wpc' = [wpc EXCEPT ![w] = "encode"]
        /\ left' = [left EXCEPT ![w] = Profiles]
        /\ hls' = [hls EXCEPT ![VideoOn(w)] = IF @ = "none" THEN "partial" ELSE @]
        /\ Touch(wjob[w])
        /\ UNCHANGED wjob
     \/ /\ CtxCancelled \/ ~raw[VideoOn(w)] \/ MediaFails
        /\ GiveUp(w)
        /\ UNCHANGED <<hls, stale>>
  /\ UNCHANGED <<mainVars, ch, job, video, raw, leftover, asm, found, del, faults,
                 histVars>>

\* Encode and segment the next profile into the HLS directory.
EncodeProfile(w) ==
  /\ At(w, "encode")
  /\ \/ /\ ~CtxCancelled /\ raw[VideoOn(w)] /\ hls[VideoOn(w)] # "none"
        /\ hls' = [hls EXCEPT ![VideoOn(w)] = "partial"]
        /\ left' = [left EXCEPT ![w] = @ - 1]
        /\ wpc' = [wpc EXCEPT ![w] = IF left[w] = 1 THEN "package" ELSE "encode"]
        /\ Touch(wjob[w])
        /\ UNCHANGED wjob
     \/ /\ \/ CtxCancelled \/ MediaFails
           \/ ~raw[VideoOn(w)] \/ hls[VideoOn(w)] = "none"
        /\ GiveUp(w)
        /\ UNCHANGED <<hls, stale>>
  /\ UNCHANGED <<mainVars, ch, job, video, raw, leftover, asm, found, del, faults,
                 histVars>>

\* An ffprobe or ffmpeg run has no deadline: one that hangs holds its worker
\* until the workers' context is cancelled, which kills it.
Hang(w) ==
  /\ MayHang /\ (At(w, "probe") \/ At(w, "encode"))
  /\ Goto(w, "hung")
  /\ UNCHANGED <<mainVars, ch, rowVars, fileVars, asm, found, del, faults,
                 histVars>>

KillHung(w) ==
  /\ At(w, "hung") /\ CtxCancelled
  /\ GiveUp(w)
  /\ UNCHANGED <<mainVars, ch, rowVars, fileVars, asm, found, del, faults,
                 histVars>>

\* Stage "packaging": the master manifest.
Package(w) ==
  /\ At(w, "package")
  /\ Touch(wjob[w])
  /\ \/ /\ hls[VideoOn(w)] # "none"
        /\ hls' = [hls EXCEPT ![VideoOn(w)] = "complete"]
        /\ Goto(w, "cleanup")
        /\ NoFault
     \/ /\ GiveUp(w) /\ UNCHANGED hls
        /\ \/ hls[VideoOn(w)] = "none" /\ NoFault
           \/ Fault
  /\ UNCHANGED <<mainVars, ch, job, video, raw, leftover, asm, found, del, histVars>>

\* When the removal fails, Process warns and goes on with the raw file there.
RemoveRaw(w) ==
  /\ At(w, "cleanup")
  /\ Goto(w, "publish")
  /\ \/ /\ raw' = [raw EXCEPT ![VideoOn(w)] = FALSE]
        /\ leftover' = leftover \ {VideoOn(w)}
        /\ NoFault
     \/ /\ Fault
        /\ leftover' = leftover \cup {VideoOn(w)}
        /\ UNCHANGED raw
  /\ UNCHANGED <<mainVars, ch, rowVars, hls, asm, found, del, histVars>>

\* Mutant: the error of UpdateStatus(ready) is dropped like UpdateHLSPath's.
Publish_IgnoreError(w) ==
  /\ At(w, "publish")
  /\ Goto(w, "complete")
  /\ \/ SetVideo(VideoOn(w), "ready") /\ NoFault
     \/ UNCHANGED video /\ Fault
  /\ UNCHANGED <<mainVars, ch, job, stale, fileVars, asm, found, del, histVars>>

\* videos.UpdateHLSPath and videos.UpdateStatus(ready).
Publish(w) ==
  /\ At(w, "publish")
  /\ \/ SetVideo(VideoOn(w), "ready") /\ Goto(w, "complete") /\ NoFault
     \/ UNCHANGED video /\ GiveUp(w) /\ Fault
  /\ UNCHANGED <<mainVars, ch, job, stale, fileVars, asm, found, del, histVars>>

\* Mutant: Process returns without jobs.Complete.
CompleteJob_Unrecorded(w) ==
  /\ At(w, "complete")
  /\ Done(w)
  /\ UNCHANGED <<mainVars, ch, rowVars, fileVars, asm, found, del, faults,
                 histVars>>

CompleteJob(w) ==
  /\ At(w, "complete")
  /\ \/ SetJob(wjob[w], "completed") /\ Done(w) /\ NoFault
     \/ UNCHANGED <<job, stale>> /\ GiveUp(w) /\ Fault
  /\ UNCHANGED <<mainVars, ch, video, fileVars, asm, found, del, histVars>>

\* Mutants: no jobs.Fail when the error is the cancelled context; a cleanup
\* that removes the raw file on failure too.
FailJob_SkipCancelled(w) ==
  /\ At(w, "failing")
  /\ Goto(w, "failvideo")
  /\ IF CtxCancelled THEN UNCHANGED <<job, stale>> ELSE SetJob(wjob[w], "failed")
  /\ UNCHANGED <<mainVars, ch, video, fileVars, asm, found, del, faults, histVars>>
FailJob_RemovesRaw(w) ==
  /\ At(w, "failing")
  /\ Goto(w, "failvideo")
  /\ SetJob(wjob[w], "failed")
  /\ raw' = [raw EXCEPT ![VideoOn(w)] = FALSE]
  /\ UNCHANGED <<mainVars, ch, video, hls, leftover, asm, found, del, faults,
                 histVars>>

\* jobs.Fail; its error is dropped.
FailJob(w) ==
  /\ At(w, "failing")
  /\ Goto(w, "failvideo")
  /\ \/ SetJob(wjob[w], "failed") /\ NoFault /\ UNCHANGED abandoned
     \/ /\ Fault
        /\ abandoned' = abandoned \cup {wjob[w]}
        /\ UNCHANGED <<job, stale>>
  /\ UNCHANGED <<mainVars, ch, video, fileVars, asm, found, del, resets,
                 unlisted>>

\* Mutant: the worker returns after an error instead of going on.
FailVideo_WorkerReturns(w) ==
  /\ At(w, "failvideo")
  /\ wpc' = [wpc EXCEPT ![w] = "exited"]
  /\ wjob' = [wjob EXCEPT ![w] = NoJob]
  /\ left' = [left EXCEPT ![w] = 0]
  /\ \/ job[wjob[w]] # "none" /\ SetVideo(VideoOn(w), "failed")
     \/ job[wjob[w]] = "none" /\ UNCHANGED video
  /\ UNCHANGED <<mainVars, ch, job, stale, fileVars, asm, found, del, faults,
                 histVars>>

\* jobs.GetByID and videos.UpdateStatus(failed); their errors are dropped.
FailVideo(w) ==
  /\ At(w, "failvideo")
  /\ Done(w)
  /\ \/ job[wjob[w]] # "none" /\ SetVideo(VideoOn(w), "failed") /\ NoFault
     \/ job[wjob[w]] = "none" /\ UNCHANGED <<video, faults>>
     \/ Fault /\ UNCHANGED video
  /\ UNCHANGED <<mainVars, ch, job, stale, fileVars, asm, found, del, histVars>>

-----------------------------------------------------------------------------
(* The watchdog's checkStuckJobs.                                           *)

\* Thirty minutes pass without an update of the row.
Age(j) == /\ job[j] = "running" /\ j \notin stale
          /\ stale' = stale \cup {j}
          /\ UNCHANGED <<mainVars, ch, job, video, fileVars, asm, workerVars,
                         found, del, faults, histVars>>

FindStuck == /\ server = "up" /\ found = {}
             /\ Running \cap stale # {}
             /\ found' = Running \cap stale
             /\ UNCHANGED <<mainVars, ch, rowVars, fileVars, asm, workerVars,
                            del, faults, histVars>>

\* Mutant: the reset job is sent to the workers again, whoever holds it.
ResetToQueued_Resend(j) ==
  /\ server = "up" /\ j \in found
  /\ found' = found \ {j}
  /\ SetJob(j, "queued")
  /\ resets' = IF job[j] = "none" THEN resets ELSE resets \cup {j}
  /\ Len(ch) < QueueCap /\ ch' = Append(ch, j)
  /\ UNCHANGED <<mainVars, video, fileVars, asm, workerVars, del, faults,
                 abandoned, unlisted>>

\* One row of the list read by FindStuck: reset, and the channel is not told.
ResetToQueued(j) ==
  /\ server = "up" /\ j \in found
  /\ found' = found \ {j}
  /\ \/ /\ SetJob(j, "queued")
        /\ resets' = IF job[j] = "none" THEN resets ELSE resets \cup {j}
        /\ NoFault
     \/ Fault /\ UNCHANGED <<job, stale, resets>>
  /\ UNCHANGED <<mainVars, ch, video, fileVars, asm, workerVars, del, abandoned,
                 unlisted>>

-----------------------------------------------------------------------------
(* DeleteVideo: the rows in one transaction, then the HLS directory.        *)

DeleteRows(v) ==
  /\ Serving /\ v \in Deletable /\ video[v] # "deleted"
  /\ video' = [video EXCEPT ![v] = "deleted"]
  /\ job' = [j \in Jobs |-> IF VideoOf[j] = v THEN "none" ELSE job[j]]
  /\ stale' = {j \in stale : VideoOf[j] # v}
  /\ del' = [del EXCEPT ![v] = "rows"]
  /\ UNCHANGED <<mainVars, ch, fileVars, asm, workerVars, found, faults, histVars>>

DeleteFiles(v) ==
  /\ Alive /\ del[v] = "rows"
  /\ hls' = [hls EXCEPT ![v] = "none"]
  /\ del' = [del EXCEPT ![v] = "done"]
  /\ UNCHANGED <<mainVars, ch, rowVars, raw, leftover, asm, workerVars, found,
                 faults, histVars>>

-----------------------------------------------------------------------------
Main == Start \/ Serve \/ Signal \/ CancelWorkers \/ CloseQueue \/ WorkersDone
        \/ DrainTimeout \/ Crash \/ (\E j \in Jobs : Reenqueue(j))

Assemble(j) == AssembleFile(j) \/ CreateJob(j) \/ MarkProcessing(j) \/ Send(j)
               \/ SendPanics(j) \/ AssembleFailed(j)

Process(w) == BeginJob(w) \/ LoadInput(w) \/ Probe(w) \/ EncodeProfile(w)
              \/ KillHung(w) \/ Package(w) \/ RemoveRaw(w) \/ Publish(w)
              \/ CompleteJob(w) \/ FailJob(w) \/ FailVideo(w)

Worker(w) == Take(w) \/ Exit(w) \/ Process(w) \/ Hang(w)

Watchdog == FindStuck \/ \E j \in Jobs : Age(j) \/ ResetToQueued(j)

DeleteVideo(v) == DeleteRows(v) \/ DeleteFiles(v)

Next == Main \/ Watchdog \/ (\E j \in Jobs : Assemble(j))
        \/ (\E w \in Workers : Worker(w)) \/ (\E v \in Videos : DeleteVideo(v))

Spec == Init /\ [][Next]_vars

\* Goroutines that can run do, and an ffmpeg run that does not hang ends; time
\* passes; an operator may stop the server or not, and crashes are never due.
Fairness == /\ \A w \in Workers : WF_vars(Process(w)) /\ WF_vars(Take(w))
                                  /\ WF_vars(Exit(w))
            /\ \A j \in Jobs : WF_vars(Reenqueue(j)) /\ WF_vars(Age(j))
                               /\ WF_vars(ResetToQueued(j))
                               /\ WF_vars(Send(j)) /\ WF_vars(CreateJob(j))
                               /\ WF_vars(MarkProcessing(j))
                               /\ WF_vars(AssembleFailed(j))
            /\ WF_vars(Serve) /\ WF_vars(FindStuck)
            /\ WF_vars(CancelWorkers) /\ WF_vars(CloseQueue)
            /\ WF_vars(WorkersDone) /\ WF_vars(DrainTimeout)
FairSpec == Spec /\ Fairness

-----------------------------------------------------------------------------
(* Properties.                                                              *)

MainType == server \in ServerStates /\ runs \in 0..MaxRuns /\ boot \subseteq Jobs
ChanType == ch \in Seq(Jobs) /\ Len(ch) <= QueueCap
RowType  == /\ job \in [Jobs -> JobStates] /\ stale \subseteq Jobs
            /\ video \in [Videos -> VideoStates]
FileType == /\ raw \in [Videos -> BOOLEAN]
            /\ hls \in [Videos -> {"none", "partial", "complete"}]
            /\ leftover \subseteq Videos
AsmType  == asm \in [Jobs -> AsmStates]
WorkerType ==
  /\ wpc \in [Workers -> WorkerStates]
  /\ wjob \in [Workers -> Jobs \cup {NoJob}]
  /\ left \in [Workers -> 0..Profiles]
  /\ \A w \in Workers : /\ wjob[w] = NoJob <=> wpc[w] \in {"idle", "exited"}
                        /\ wpc[w] = "encode" => left[w] > 0
OtherType == /\ found \subseteq Jobs
             /\ del \in [Videos -> {"none", "rows", "done", "lost"}]
             /\ faults \in 0..MaxFaults
             /\ resets \subseteq Jobs /\ abandoned \subseteq Jobs
             /\ unlisted \subseteq Jobs

TypeOK == /\ MainType /\ ChanType /\ RowType /\ FileType /\ AsmType
          /\ WorkerType /\ OtherType

\* No two jobs are assembled from the same upload.
OneAssembly == \A i, j \in Jobs : VideoOf[i] = VideoOf[j] => i = j

\* A job is handed out at most once in a run of the server, whatever crashes,
\* resets and re-enqueues came before: it is never twice in the channel, never
\* both waiting and being processed, and never processed by two workers, which
\* would write the same HLS directory (main's re-enqueue, assemble's send and
\* the workers' receive).
SingleDelivery ==
  /\ OncePerChannel
  /\ OneWorker
  /\ \A j \in Jobs : /\ InChannel(j) => j \notin boot /\ ~Held(j)
                     /\ j \in boot => ~Held(j)
                     /\ asm[j] \in InProgress => ~Delivered(j)

Expected(j) == \/ Delivered(j) \/ asm[j] \in {"created", "sending"}
               \/ j \in resets \cup abandoned \cup unlisted
               \/ asm[j] \in {"failing", "failed"}

\* While the server serves, a queued row will reach a worker (it is listed,
\* in the channel, held, or about to be sent) unless the watchdog reset it, its
\* assembly failed between the insert and the send, a worker could write
\* neither the start nor the failure of the job, or the row was already queued
\* when the ListQueued of this start failed.
QueuedIsDelivered ==
  Serving \/ server = "boot" => \A j \in Jobs : job[j] = "queued" => Expected(j)

\* A running row without a worker comes only from a process that ended with
\* the work in progress, or from a jobs.Fail that was lost: a worker never
\* leaves its job running, and a shutdown that waited for the workers leaves
\* nothing running.
RunningIsHeld == \A j \in Jobs : job[j] = "running" => Held(j) \/ j \in abandoned

\* The upload is never without a complete copy: from its assembly until it is
\* deleted, the raw file or the complete HLS rendition is on disk, whatever
\* fails or crashes in Process.
NeverWithoutCopy ==
  \A j \in Jobs : job[j] # "none" \/ asm[j] \in {"raw", "created", "sending"} =>
     \/ video[VideoOf[j]] = "deleted"
     \/ raw[VideoOf[j]] \/ hls[VideoOf[j]] = "complete"

\* A video is offered for playback only with its complete HLS rendition.  The
\* exception is a video whose raw directory Process could not remove: a reset
\* after the job ended and a restart deliver it again, the input is found, and
\* the rendition of a ready video is written over.
ReadyIsComplete ==
  \A v \in Videos : video[v] = "ready" => hls[v] = "complete" \/ v \in leftover

\* A job is recorded as completed only while its video is published: no
\* failure, reset or second delivery leaves a completed job over a video that
\* players cannot open.
CompletedIsReady ==
  \A j \in Jobs : job[j] = "completed" => video[VideoOf[j]] = "ready"

HungOn(j) == \E w \in Workers : wjob[w] = j /\ wpc[w] = "hung"

\* A job that main listed or an assembly sent leaves the channel: it reaches a
\* worker, or the server stops first, or every worker waits for an ffmpeg run
\* that hangs.
EveryJobIsTaken ==
  \A j \in Jobs : Waiting(j) ~> ~Waiting(j) \/ \A w \in Workers : wpc[w] = "hung"

\* While the statements succeed, every job that a worker takes comes to an end
\* and is recorded, or the server stops first, or its ffmpeg run hangs, for
\* which the code has no deadline: Process itself cannot stop between its stages.
EveryJobEnds ==
  \A j \in Jobs : Held(j) ~> \/ ~Held(j) /\ job[j] # "running"
                             \/ j \in abandoned \/ HungOn(j)

\* The form in which an upload is kept, from its status and its files.  The
\* complete rendition counts once Process has tried to remove the raw file.
Replaced(v) == hls[v] = "complete" /\ (~raw[v] \/ v \in leftover)
FormOf(v) == CASE video[v] = "deleted" -> "deleted"
               [] video[v] = "ready" /\ Replaced(v) -> "watchable"
               [] video[v] \notin {"deleted", "ready"} /\ Replaced(v) -> "rendition"
               [] OTHER -> IF raw[v] THEN "raw" ELSE "none"

Kept == {v \in Videos : v \in leftover /\ video[v] # "deleted"}

Life == INSTANCE VideoLifecycle
          WITH form <- [v \in Videos |-> FormOf(v)], kept <- Kept

\* Workers, assemblies, resets, restarts and deletions together are one life
\* per video: each step moves at most one video to its next form, the raw file
\* goes only once the rendition is complete, and no retry or second delivery
\* takes a video back, except while a raw directory is left that Process could
\* not remove.
IsLifecycle == Life!Spec

-----------------------------------------------------------------------------
(* The inductive invariants of the proofs.                                 *)

\* What the handing out of jobs rests on: rows exist only once inserted, a
\* stopped process holds nothing, and what is not inserted is nowhere.
DeliveryInv ==
  /\ SingleDelivery
  /\ \A j \in Jobs : asm[j] \in {"idle", "raw"} => job[j] = "none"
  /\ \A j \in Jobs : asm[j] = "idle" => ~Delivered(j)
  /\ server = "down" => /\ ch = << >> /\ boot = {}
                        /\ \A w \in Workers : wjob[w] = NoJob
                        /\ \A j \in Jobs : asm[j] \notin InProgress

\* What the account of the rows rests on: a worker that is about to let a job
\* go has written its failure, unless the statement was lost or the watchdog
\* reset the row meanwhile.
RecordInv ==
  /\ QueuedIsDelivered /\ RunningIsHeld
  /\ \A w \in Workers : wpc[w] = "failvideo" =>
       /\ job[wjob[w]] = "queued" => wjob[w] \in resets \cup abandoned
       /\ job[wjob[w]] = "running" => wjob[w] \in abandoned

\* A published video has no raw file unless its removal failed, a deleted one
\* has no jobs, and only deletion takes the rendition of a video away.
FilesAndRows ==
  /\ \A v \in Videos : /\ video[v] = "ready" => ~raw[v] \/ v \in leftover
                       /\ v \in leftover => raw[v]
                       /\ del[v] = "rows" => video[v] = "deleted"
  /\ \A j \in Jobs : video[VideoOf[j]] = "deleted" => job[j] = "none"

\* What is still ahead of a job: no file is there before its assembly, its
\* video is not published before it reached a worker, and it is not completed
\* before it left one.
StillAhead ==
  \A j \in Jobs :
    /\ asm[j] = "idle" => ~raw[VideoOf[j]] /\ hls[VideoOf[j]] = "none"
    /\ asm[j] \in {"idle", "raw", "created", "sending"} => video[VideoOf[j]] # "ready"
    /\ asm[j] \in InProgress \/ Delivered(j) => job[j] # "completed"

\* The files that a worker's stage in Process relies on or has made.
StageHasFiles(w) ==
  /\ wpc[w] \in {"probe", "encode", "package", "cleanup"} => raw[VideoOn(w)]
  /\ wpc[w] \in {"cleanup", "publish", "complete"} =>
       video[VideoOn(w)] = "deleted" \/ hls[VideoOn(w)] = "complete"
  /\ wpc[w] = "publish" => ~raw[VideoOn(w)] \/ VideoOn(w) \in leftover
  /\ wpc[w] = "complete" => video[VideoOn(w)] \in {"ready", "deleted"}

\* What the copy of an upload rests on, stage by stage of Process.
CopyInv == /\ NeverWithoutCopy /\ ReadyIsComplete /\ CompletedIsReady
           /\ FilesAndRows /\ StillAhead
           /\ \A w \in Workers : StageHasFiles(w)
=============================================================================
