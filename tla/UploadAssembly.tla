--------------------------- MODULE UploadAssembly ---------------------------
(***************************************************************************)
(* One upload: the handlers that receive its chunks and the goroutines     *)
(* that assemble them (ReceiveChunk and assemble of UploadService), with   *)
(* the chunk rows, the chunk files, the raw file, the owner's charge, the  *)
(* ActiveUploads gauge, failing statements and file operations, and a      *)
(* crash of the server.                                                    *)
(*                                                                         *)
(* A request stands for one PUT of a chunk; the assembly it may spawn has  *)
(* the request's name.  The transcode of a job is external: it reads the   *)
(* raw file for a while and removes it.                                    *)
(***************************************************************************)
EXTENDS Integers, FiniteSets

CONSTANTS NChunks,     \* total_chunks of the upload
          Requests,    \* PUT requests that may be sent
          Clients,     \* kinds of client: "page", "retrying", "parallel"
          NetFails,    \* may a body break off or an answer be lost?
          MaxCrashes,  \* bound: crashes of the server
          MaxFaults    \* bound: statements and file operations that fail

ASSUME NChunksAssumption == NChunks \in Nat \ {0}
ASSUME ClientAssumption  == /\ Clients \subseteq {"page", "retrying", "parallel"}
                            /\ NetFails \in BOOLEAN /\ MaxCrashes \in Nat /\ MaxFaults \in Nat

Chunks == 1..NChunks

VARIABLES client,    \* the kind of this upload's client
          crashes,   \* crashes so far
          faults,    \* failed statements and file operations so far
          missed,    \* history: requests whose count failed over complete rows
          unsaid,    \* history: requests whose final status could not be written
          req,       \* where a request's handler stands
          sent,      \* the chunk it carries
          acked,     \* chunks answered with 204
          received,  \* upload_chunks rows with received = true
          file,      \* chunk files: absent, cut short, whole
          chunkDir,  \* is data/chunks/<id> there?
          asm,       \* where an assembly goroutine stands
          pos,       \* the next chunk it copies
          raw,       \* per chunk: what the raw file holds in its place
          rawDir,    \* is data/raw/<id> there?
          video,     \* videos.status
          charges,   \* times the size was added to users.used_bytes
          gauge,     \* ActiveUploads
          job        \* transcode of the job that an assembly created

reqVars == <<req, sent, acked>>
asmVars == <<asm, pos>>
histVars == <<missed, unsaid>>
vars == <<client, crashes, faults, histVars, reqVars, received, file, chunkDir, asmVars, raw,
          rawDir, video, charges, gauge, job>>

\* InitUpload has run: rows, directory, and the gauge of the upload.
Init == /\ client \in Clients
        /\ crashes = 0 /\ faults = 0
        /\ missed = {} /\ unsaid = {}
        /\ req = [r \in Requests |-> "idle"]
        /\ sent = [r \in Requests |-> 1]
        /\ acked = {} /\ received = {}
        /\ file = [c \in Chunks |-> "none"]
        /\ chunkDir = TRUE
        /\ asm = [r \in Requests |-> "none"]
        /\ pos = [r \in Requests |-> 1]
        /\ raw = [c \in Chunks |-> "none"]
        /\ rawDir = FALSE
        /\ video = "uploading"
        /\ charges = 0
        /\ gauge = 1
        /\ job = [r \in Requests |-> "none"]

InFlight(r) == req[r] \in {"body", "mark", "count", "answer"}
Sent        == {r \in Requests : req[r] # "idle"}

-----------------------------------------------------------------------------
(* The client and ReceiveChunk.                                             *)

\* The upload page sends chunk after chunk, waits for each answer and stops at
\* the first error.  A retrying client sends the chunk again after an error; a
\* parallel one does not wait and may send a chunk twice.
MaySend(c) ==
  \/ client = "parallel"
  \/ /\ \A r \in Requests : ~InFlight(r)
     /\ c \notin acked /\ \A d \in 1..(c - 1) : d \in acked
     /\ client = "page" => \A r \in Sent : req[r] = "done"

\* Bound: a parallel client has its many schedules, but no broken request, no
\* crash, and of the failing statements only the count of its chunks.
Calm   == client = "parallel"
Breaks == NetFails /\ ~Calm

\* A statement or a file operation succeeds, or fails.
NoFault    == UNCHANGED faults
CountFault == faults < MaxFaults /\ faults' = faults + 1
Fault      == CountFault /\ ~Calm

\* os.Create cuts a file that is there; it fails without the directory.
Send(r, c) ==
  /\ req[r] = "idle" /\ MaySend(c)
  /\ sent' = [sent EXCEPT ![r] = c]
  /\ \/ /\ chunkDir /\ NoFault
        /\ req' = [req EXCEPT ![r] = "body"]
        /\ file' = [file EXCEPT ![c] = "cut"]
     \/ /\ IF chunkDir THEN Fault ELSE NoFault
        /\ req' = [req EXCEPT ![r] = "error"] /\ UNCHANGED file
  /\ UNCHANGED <<client, crashes, histVars, acked, received, chunkDir, asmVars, raw, rawDir,
                 video, charges, gauge, job>>

\* io.Copy: the whole body, or an error that leaves what was written.  Once
\* the directory is gone the open file is written but nobody will read it.
WriteBody(r) ==
  /\ req[r] = "body"
  /\ \/ /\ req' = [req EXCEPT ![r] = "mark"]
        /\ file' = IF chunkDir THEN [file EXCEPT ![sent[r]] = "whole"] ELSE file
        /\ NoFault
     \/ /\ (Breaks /\ NoFault) \/ Fault
        /\ req' = [req EXCEPT ![r] = "error"]
        /\ UNCHANGED file
  /\ UNCHANGED <<client, crashes, histVars, sent, acked, received, chunkDir, asmVars, raw,
                 rawDir, video, charges, gauge, job>>

\* Mutant: the row after the chunk's is marked.
MarkChunkReceived_Next(r) ==
  /\ req[r] = "mark" /\ NoFault
  /\ received' = received \cup {sent[r] + 1}
  /\ req' = [req EXCEPT ![r] = "count"]
  /\ UNCHANGED <<client, crashes, histVars, sent, acked, file, chunkDir, asmVars, raw, rawDir,
                 video, charges, gauge, job>>

MarkChunkReceived(r) ==
  /\ req[r] = "mark"
  /\ \/ /\ NoFault
        /\ received' = received \cup {sent[r]}
        /\ req' = [req EXCEPT ![r] = "count"]
     \/ Fault /\ req' = [req EXCEPT ![r] = "error"] /\ UNCHANGED received
  /\ UNCHANGED <<client, crashes, histVars, sent, acked, file, chunkDir, asmVars, raw, rawDir,
                 video, charges, gauge, job>>

\* GetProgress fails: the handler answers with an error and starts nothing.
CountFails(r) ==
  /\ req[r] = "count" /\ CountFault
  /\ req' = [req EXCEPT ![r] = "error"]
  /\ missed' = IF received = Chunks THEN missed \cup {r} ELSE missed
  /\ UNCHANGED <<client, crashes, unsaid, sent, acked, received, file, chunkDir, asmVars,
                 raw, rawDir, video, charges, gauge, job>>

\* Mutants: the assembly is started by the handler of the last chunk number;
\* it is started one chunk early.
CountChunks_ByNumber(r) ==
  \/ CountFails(r)
  \/ /\ req[r] = "count" /\ NoFault
     /\ req' = [req EXCEPT ![r] = "answer"]
     /\ asm' = IF received = Chunks /\ sent[r] = NChunks
                  THEN [asm EXCEPT ![r] = "begin"] ELSE asm
     /\ UNCHANGED <<client, crashes, histVars, sent, acked, received, file, chunkDir, pos,
                    raw, rawDir, video, charges, gauge, job>>
CountChunks_Early(r) ==
  \/ CountFails(r)
  \/ /\ req[r] = "count" /\ NoFault
     /\ req' = [req EXCEPT ![r] = "answer"]
     /\ asm' = IF Cardinality(received) >= NChunks - 1
                  THEN [asm EXCEPT ![r] = "begin"] ELSE asm
     /\ UNCHANGED <<client, crashes, histVars, sent, acked, received, file, chunkDir, pos,
                    raw, rawDir, video, charges, gauge, job>>

\* GetProgress after the mark: the handler that counts every chunk as received
\* starts the assembly.
CountChunks(r) ==
  \/ CountFails(r)
  \/ /\ req[r] = "count" /\ NoFault
     /\ req' = [req EXCEPT ![r] = "answer"]
     /\ asm' = IF received = Chunks THEN [asm EXCEPT ![r] = "begin"] ELSE asm
     /\ UNCHANGED <<client, crashes, histVars, sent, acked, received, file, chunkDir, pos,
                    raw, rawDir, video, charges, gauge, job>>

\* 204, or an answer that does not reach the client.
Answer(r) ==
  /\ req[r] = "answer" /\ NoFault
  /\ \/ req' = [req EXCEPT ![r] = "done"] /\ acked' = acked \cup {sent[r]}
     \/ Breaks /\ req' = [req EXCEPT ![r] = "error"] /\ UNCHANGED acked
  /\ UNCHANGED <<client, crashes, histVars, sent, received, file, chunkDir, asmVars, raw,
                 rawDir, video, charges, gauge, job>>

-----------------------------------------------------------------------------
(* assemble.  Its statements and file operations may fail: most failures    *)
(* end it, those of the accounting and of RemoveAll are only logged.        *)

\* GetByID, MkdirAll and os.Create of the raw file, which cuts one that is there.
CreateRaw(r) ==
  /\ asm[r] = "begin"
  /\ \/ /\ NoFault
        /\ rawDir' = TRUE
        /\ raw' = [c \in Chunks |-> "none"]
        /\ asm' = [asm EXCEPT ![r] = "copy"]
     \/ /\ Fault
        /\ rawDir' \in {rawDir, TRUE} /\ UNCHANGED raw
        /\ asm' = [asm EXCEPT ![r] = "failing"]
  /\ UNCHANGED <<client, crashes, histVars, reqVars, received, file, chunkDir, pos, video,
                 charges, gauge, job>>

\* Chunk after chunk at the goroutine's own offset; a missing file is an error,
\* and a copy that fails leaves a part.
CopyChunk(r) ==
  /\ asm[r] = "copy"
  /\ \/ /\ file[pos[r]] # "none" /\ NoFault
        /\ raw' = IF rawDir THEN [raw EXCEPT ![pos[r]] = file[pos[r]]] ELSE raw
        /\ pos' = [pos EXCEPT ![r] = @ + 1]
        /\ asm' = [asm EXCEPT ![r] = IF pos[r] = NChunks THEN "account" ELSE "copy"]
     \/ /\ IF file[pos[r]] = "none" THEN NoFault ELSE Fault
        /\ raw' = IF rawDir /\ file[pos[r]] # "none"
                     THEN [raw EXCEPT ![pos[r]] = "cut"] ELSE raw
        /\ asm' = [asm EXCEPT ![r] = "failing"] /\ UNCHANGED pos
  /\ UNCHANGED <<client, crashes, histVars, reqVars, received, file, chunkDir, rawDir, video,
                 charges, gauge, job>>

\* Stat, UpdateSizeBytes, IncUsedBytes: skipped when the raw file is gone; an
\* error is only logged.
ChargeOwner(r) ==
  /\ asm[r] = "account"
  /\ \/ NoFault /\ charges' = IF rawDir THEN charges + 1 ELSE charges
     \/ Fault /\ UNCHANGED charges
  /\ asm' = [asm EXCEPT ![r] = "clean"]
  /\ UNCHANGED <<client, crashes, histVars, reqVars, received, file, chunkDir, pos, raw,
                 rawDir, video, gauge, job>>

\* os.RemoveAll: an error leaves the directory and some of the files.
RemoveChunks(r) ==
  /\ asm[r] = "clean"
  /\ \/ NoFault /\ chunkDir' = FALSE /\ file' = [c \in Chunks |-> "none"]
     \/ /\ Fault /\ UNCHANGED chunkDir
        /\ \E left \in SUBSET Chunks :
             file' = [c \in Chunks |-> IF c \in left THEN file[c] ELSE "none"]
  /\ asm' = [asm EXCEPT ![r] = "job"]
  /\ UNCHANGED <<client, crashes, histVars, reqVars, received, pos, raw, rawDir, video,
                 charges, gauge, job>>

CreateJob(r) ==
  /\ asm[r] = "job"
  /\ \/ /\ NoFault
        /\ job' = [job EXCEPT ![r] = "queued"]
        /\ asm' = [asm EXCEPT ![r] = "status"]
     \/ Fault /\ asm' = [asm EXCEPT ![r] = "failing"] /\ UNCHANGED job
  /\ UNCHANGED <<client, crashes, histVars, reqVars, received, file, chunkDir, pos, raw,
                 rawDir, video, charges, gauge>>

\* UpdateStatus(processing), the send, and the caller's bookkeeping; without
\* the update the job's row stays queued, and nobody sends it.
FinishAssembly(r) ==
  /\ asm[r] = "status"
  /\ \/ /\ NoFault
        /\ video' = "processing"
        /\ job' = [job EXCEPT ![r] = "sent"]
        /\ gauge' = gauge - 1
        /\ asm' = [asm EXCEPT ![r] = "done"]
     \/ /\ Fault /\ UNCHANGED <<video, job, gauge>>
        /\ asm' = [asm EXCEPT ![r] = "failing"]
  /\ UNCHANGED <<client, crashes, histVars, reqVars, received, file, chunkDir, pos, raw,
                 rawDir, charges>>

\* The error of UpdateStatus(failed) is dropped.
AssemblyFailed(r) ==
  /\ asm[r] = "failing"
  /\ \/ NoFault /\ video' = "failed" /\ UNCHANGED unsaid
     \/ Fault /\ unsaid' = unsaid \cup {r} /\ UNCHANGED video
  /\ gauge' = gauge - 1
  /\ asm' = [asm EXCEPT ![r] = "failed"]
  /\ UNCHANGED <<client, crashes, missed, reqVars, received, file, chunkDir, pos, raw, rawDir,
                 charges, job>>

-----------------------------------------------------------------------------
(* The transcode of the job: it reads the raw file from its start to its    *)
(* end, publishes the video and removes the file.                           *)

RawWhole == rawDir /\ \A c \in Chunks : raw[c] = "whole"

\* UpdateStatus(failed) of the job's failure, whose error is only logged.
TranscodeFails(r) ==
  /\ job' = [job EXCEPT ![r] = "ended"]
  /\ \/ NoFault /\ video' = "failed" /\ UNCHANGED unsaid
     \/ Fault /\ unsaid' = unsaid \cup {r} /\ UNCHANGED video

TranscodeStart(r) ==
  /\ job[r] = "sent"
  /\ IF rawDir
        THEN job' = [job EXCEPT ![r] = "reading"] /\ NoFault /\ UNCHANGED <<video, unsaid>>
        ELSE TranscodeFails(r)
  /\ UNCHANGED <<client, crashes, missed, reqVars, received, file, chunkDir, asmVars, raw,
                 rawDir, charges, gauge>>

\* ffmpeg may fail over a damaged input or make a damaged video of it.
TranscodeEnd(r) ==
  /\ job[r] = "reading"
  /\ \/ /\ job' = [job EXCEPT ![r] = "ended"]
        /\ video' = IF RawWhole THEN "ready" ELSE "damaged"
        /\ UNCHANGED unsaid
        /\ \/ NoFault /\ rawDir' = FALSE /\ raw' = [c \in Chunks |-> "none"]
           \/ Fault /\ UNCHANGED <<raw, rawDir>>
     \/ TranscodeFails(r) /\ UNCHANGED <<raw, rawDir>>
  /\ UNCHANGED <<client, crashes, missed, reqVars, received, file, chunkDir, asmVars, charges,
                 gauge>>

\* The process ends and is started again: handlers, goroutines and the gauge
\* are lost; a queued row is sent again, a running one is not.
Crash ==
  /\ crashes < MaxCrashes /\ ~Calm
  /\ crashes' = crashes + 1
  /\ req' = [r \in Requests |-> IF InFlight(r) THEN "error" ELSE req[r]]
  /\ asm' = [r \in Requests |->
               IF asm[r] \in {"none", "done", "failed"} THEN asm[r] ELSE "lost"]
  /\ job' = [r \in Requests |-> IF job[r] = "queued" THEN "sent"
                                ELSE IF job[r] = "reading" THEN "stuck" ELSE job[r]]
  /\ gauge' = 0
  /\ NoFault
  /\ UNCHANGED <<client, histVars, sent, acked, received, file, chunkDir, pos, raw, rawDir,
                 video, charges>>

Handler(r)   == WriteBody(r) \/ MarkChunkReceived(r) \/ CountChunks(r) \/ Answer(r)
Assembly(r)  == CreateRaw(r) \/ CopyChunk(r) \/ ChargeOwner(r) \/ RemoveChunks(r)
                \/ CreateJob(r) \/ FinishAssembly(r) \/ AssemblyFailed(r)
Transcode(r) == TranscodeStart(r) \/ TranscodeEnd(r)

Next == \/ \E r \in Requests : \/ \E c \in Chunks : Send(r, c)
                               \/ Handler(r) \/ Assembly(r) \/ Transcode(r)
        \/ Crash

Spec == Init /\ [][Next]_vars

\* Handlers and goroutines run on; the client may stop sending.
FairSpec == Spec /\ \A r \in Requests : /\ WF_vars(Handler(r))
                                        /\ WF_vars(Assembly(r))
                                        /\ WF_vars(Transcode(r))

-----------------------------------------------------------------------------
(* Properties.                                                              *)

TypeOK ==
  /\ crashes \in 0..MaxCrashes /\ faults \in 0..MaxFaults
  /\ missed \subseteq Requests /\ unsaid \subseteq Requests
  /\ req \in [Requests -> {"idle", "body", "mark", "count", "answer", "done", "error"}]
  /\ sent \in [Requests -> Chunks]
  /\ acked \subseteq Chunks /\ received \subseteq Chunks
  /\ file \in [Chunks -> {"none", "cut", "whole"}] /\ chunkDir \in BOOLEAN
  /\ asm \in [Requests -> {"none", "begin", "copy", "account", "clean", "job",
                           "status", "done", "failing", "failed", "lost"}]
  /\ pos \in [Requests -> 1..NChunks + 1]
  /\ raw \in [Chunks -> {"none", "cut", "whole"}] /\ rawDir \in BOOLEAN
  /\ video \in {"uploading", "processing", "ready", "damaged", "failed"}
  /\ charges \in Nat /\ gauge \in Int
  /\ job \in [Requests -> {"none", "queued", "sent", "reading", "ended", "stuck"}]

\* When the last chunk lands, assemble runs: once (docs/README.md).  Neither the
\* charge to the owner's quota nor the job nor the gauge's decrement happens again.
AssembledOnce == Cardinality({r \in Requests : asm[r] # "none"}) <= 1

\* No chunk that was answered with 204 is lost before the upload has been
\* transcoded: it is still a file, or whole in the raw file (docs/README.md).
AckedIsKept ==
  \A c \in acked : (\E r \in Requests : job[r] \in {"ended", "stuck"})
                     \/ file[c] = "whole" \/ (rawDir /\ raw[c] = "whole")

\* The page waits for each answer and stops at an error, and that alone keeps
\* ReceiveChunk, which counts without a lock, from assembling an upload twice:
\* with broken requests, failing statements and a restart in between, too.
PageAssemblesOnce == client = "page" => AssembledOnce

\* What the page was told is stored stays stored: a broken request, a crash or
\* a failure in the middle of an assembly takes no chunk away before the raw
\* file has it.
PageAckedIsKept == client = "page" => AckedIsKept

\* A video of the page that players are offered was transcoded from the whole
\* upload: no handler or second assembly writes a chunk or the raw file under
\* the feet of the copy or of the transcode.
PageNeverDamaged == client = "page" => video # "damaged"

\* Whatever the order in which concurrent handlers mark and count their chunks,
\* the one whose count comes last after all marks starts an assembly: once every
\* chunk is received and no handler is still to count, one was started, or a
\* handler could not count the complete rows (its GetProgress failed).
LastCountAssembles ==
  (received = Chunks /\ crashes = 0 /\ \A r \in Requests : req[r] # "count")
     => \E r \in Requests : asm[r] # "none" \/ r \in missed

\* Every count over the complete rows failed: nothing is left that would
\* assemble the upload, unless its client sends a chunk again.
NobodyCounted == missed # {} /\ \A r \in Requests : asm[r] = "none"


-----------------------------------------------------------------------------
(* The inductive invariant of the proofs.                                   *)

\* A goroutine's offset: an assembly starts once per request, at the first chunk.
PosInv ==
  \A r \in Requests :
    /\ asm[r] # "none" => req[r] \in {"answer", "done", "error"}
    /\ asm[r] \in {"none", "begin"} => pos[r] = 1
    /\ asm[r] = "copy" => pos[r] <= NChunks

\* A complete upload has its assembly, a handler that is still to count, or one
\* that could not.
CountInv == received = Chunks /\ crashes = 0 =>
              \E r \in Requests : asm[r] # "none" \/ req[r] = "count" \/ r \in missed

\* The page's requests: one after the other, chunk after chunk, until an error.
PageOrder ==
  /\ \A r \in Sent : /\ req[r] = "done" <=> sent[r] \in acked
                     /\ \A d \in 1..(sent[r] - 1) : d \in acked
  /\ \A r, q \in Sent : r # q => sent[r] # sent[q] /\ "done" \in {req[r], req[q]}
  /\ \A c \in acked \cup received : \E r \in Sent : sent[r] = c

\* The raw file is whole until its transcode has ended; chunk files go only
\* after that copy, and are whole before it.
Copied == \E r \in Requests : asm[r] # "none" /\ (RawWhole \/ job[r] \in {"ended", "stuck"})

PageFiles ==
  Copied \/ /\ chunkDir
            /\ \A r \in Sent : req[r] \in {"mark", "count", "answer", "done"}
                                 => file[sent[r]] = "whole"

\* Only the request of the last chunk can find every chunk received; its
\* assembly copies whole chunks, and its transcode reads the whole copy.
PageStage(r) ==
  /\ asm[r] # "none" => sent[r] = NChunks
  /\ asm[r] \in {"begin", "copy", "account", "clean"} =>
       chunkDir /\ \A c \in Chunks : file[c] = "whole"
  /\ asm[r] = "copy" => rawDir /\ \A c \in 1..(pos[r] - 1) : raw[c] = "whole"
  /\ asm[r] \in {"account", "clean", "job"} => RawWhole
  /\ asm[r] = "status" => job[r] = "queued"
  /\ job[r] # "none" => asm[r] \in {"status", "done", "failing", "failed", "lost"}
  /\ job[r] \in {"queued", "sent", "reading"} => RawWhole

PageCopies == PageFiles /\ video # "damaged" /\ \A r \in Requests : PageStage(r)

PageInv == client = "page" => PageOrder /\ PageCopies

UploadInv == TypeOK /\ PosInv /\ CountInv /\ PageInv
=============================================================================
