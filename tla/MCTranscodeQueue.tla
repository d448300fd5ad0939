-------------------------- MODULE MCTranscodeQueue --------------------------
(***************************************************************************)
(* Instances of TranscodeQueue for TLC: two uploads, each assembled once.  *)
(***************************************************************************)
EXTENDS TranscodeQueue, TLC

CONSTANTS v1, v2, w1, w2

\* A job and the video it was assembled for share a name.
Identity2 == [j \in {v1, v2} |-> j]
Identity1 == [j \in {v1} |-> j]

Symmetry == Permutations({w1, w2})

-----------------------------------------------------------------------------
(* What the repository says of the queue and the code does not do.          *)

\* watchdog.go: checkStuckJobs "resets them to queued so they can be retried":
\* a row that was reset is taken up again while the server runs.
ResetIsRetried ==
  \A j \in Jobs : (j \in resets /\ job[j] = "queued" /\ server = "up")
                     ~> (job[j] # "queued" \/ server # "up")

\* job_repo.go: "ResetToQueued resets a job from 'running' back to 'queued'":
\* a job that has ended is not put back.
OnlyRunningIsReset ==
  [][\A j \in Jobs : job[j] \in {"completed", "failed"} => job'[j] # "queued"]_vars

\* watchdog.go: a stuck job is reset "so they can be retried": the input that
\* a retry reads is still there when the watchdog resets the row.
RetryHasInput ==
  [][\A j \in resets' \ resets : raw[VideoOf[j]]]_vars

\* main.go: "Drain transcode workers gracefully": with media that transcodes
\* and a database that answers, the shutdown makes no job fail.
DrainFailsNoJob ==
  [][CtxCancelled => \A j \in Jobs : job'[j] = "failed" => job[j] = "failed"]_vars

\* README.md: "Graceful shutdown -- worker drain": when main closes jobCh no
\* assembly is about to send on it, which would panic.
NoSendOnClosedChannel == ChanClosed => \A j \in Jobs : asm[j] # "sending"

\* video_service.go: "DeleteVideo removes a video and its HLS files": once the
\* handler is done and no worker holds the video, no HLS directory is left.
DeleteRemovesHls ==
  \A v \in Videos :
    del[v] = "done" /\ (\A j \in Jobs : VideoOf[j] = v => ~Held(j))
       => hls[v] = "none"
=============================================================================
