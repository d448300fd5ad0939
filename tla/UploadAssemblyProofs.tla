------------------------ MODULE UploadAssemblyProofs ------------------------
(***************************************************************************)
(* Theorems of UploadAssembly, for every number of chunks and requests,    *)
(* with broken requests, lost answers, failing statements and crashes.     *)
(***************************************************************************)
EXTENDS UploadAssembly, TLAPS, FiniteSetTheorems

LEMMA UploadInit == Init => UploadInv
<1> SUFFICES ASSUME Init PROVE UploadInv OBVIOUS
<1> USE NChunksAssumption, ClientAssumption DEF Init, Chunks
<1>1. TypeOK
  <2>1. chunkDir \in BOOLEAN /\ rawDir \in BOOLEAN BY Zenon
  <2> QED BY <2>1 DEF TypeOK
<1>2. PosInv /\ CountInv BY DEF PosInv, CountInv
<1>3. PageInv BY DEF PageInv, PageOrder, PageCopies, PageFiles, PageStage, Sent
<1> QED BY <1>1, <1>2, <1>3 DEF UploadInv

-----------------------------------------------------------------------------
(* What holds for every client.                                             *)

LEMMA TypeStep == TypeOK /\ PosInv /\ [Next]_vars => TypeOK' /\ PosInv'
<1> SUFFICES ASSUME TypeOK, PosInv, [Next]_vars PROVE TypeOK' /\ PosInv' OBVIOUS
<1> USE NChunksAssumption, ClientAssumption DEF Chunks, reqVars, asmVars, histVars
<1>1. chunkDir' \in BOOLEAN /\ rawDir' \in BOOLEAN
  <2>1. chunkDir' \in {chunkDir, FALSE} /\ rawDir' \in {rawDir, TRUE, FALSE}
    BY Zenon DEF Next, vars, Handler, Assembly, Transcode, Send, WriteBody, MarkChunkReceived,
       CountChunks, CountFails, Answer, CreateRaw, CopyChunk, ChargeOwner, RemoveChunks, CreateJob,
       FinishAssembly, AssemblyFailed, TranscodeStart, TranscodeEnd, TranscodeFails, Crash
  <2> QED BY <2>1, Zenon DEF TypeOK
<1>0. /\ faults' \in 0..MaxFaults /\ crashes' \in 0..MaxCrashes
      /\ missed' \subseteq Requests /\ unsaid' \subseteq Requests
  <2>1. faults' = faults \/ (faults < MaxFaults /\ faults' = faults + 1)
    BY Zenon DEF Next, vars, Handler, Assembly, Transcode, Send, WriteBody, MarkChunkReceived,
       CountChunks, CountFails, Answer, CreateRaw, CopyChunk, ChargeOwner, RemoveChunks,
       CreateJob, FinishAssembly, AssemblyFailed, TranscodeStart, TranscodeEnd,
       TranscodeFails, Crash, NoFault, Fault, CountFault
  <2>2. \/ missed' = missed
        \/ \E r \in Requests : missed' = missed \cup {r}
    BY Zenon DEF Next, vars, Handler, Assembly, Transcode, Send, WriteBody, MarkChunkReceived,
       CountChunks, CountFails, Answer, CreateRaw, CopyChunk, ChargeOwner, RemoveChunks,
       CreateJob, FinishAssembly, AssemblyFailed, TranscodeStart, TranscodeEnd, Crash
  <2>3. \/ unsaid' = unsaid
        \/ \E r \in Requests : unsaid' = unsaid \cup {r}
    BY Zenon DEF Next, vars, Handler, Assembly, Transcode, Send, WriteBody, MarkChunkReceived,
       CountChunks, CountFails, Answer, CreateRaw, CopyChunk, ChargeOwner, RemoveChunks,
       CreateJob, FinishAssembly, AssemblyFailed, TranscodeStart, TranscodeEnd,
       TranscodeFails, Crash
  <2>4. crashes' = crashes \/ (crashes < MaxCrashes /\ crashes' = crashes + 1)
    BY Zenon DEF Next, vars, Handler, Assembly, Transcode, Send, WriteBody, MarkChunkReceived,
       CountChunks, CountFails, Answer, CreateRaw, CopyChunk, ChargeOwner, RemoveChunks,
       CreateJob, FinishAssembly, AssemblyFailed, TranscodeStart, TranscodeEnd, Crash
  <2> QED BY <2>1, <2>2, <2>3, <2>4 DEF TypeOK
<1> USE <1>0
<1> USE <1>1 DEF TypeOK
<1>2. ASSUME NEW r \in Requests, NEW c \in Chunks, Send(r, c) PROVE TypeOK' /\ PosInv'
  <2>1. TypeOK' BY <1>2 DEF Send
  <2>2. PosInv' BY <1>2 DEF Send, PosInv
  <2> QED BY <2>1, <2>2
<1>3. ASSUME NEW r \in Requests, Handler(r) PROVE TypeOK' /\ PosInv'
  <2>1. CASE WriteBody(r)
    <3>1. TypeOK' BY <2>1 DEF WriteBody
    <3>2. PosInv' BY <2>1 DEF WriteBody, PosInv
    <3> QED BY <3>1, <3>2
  <2>2. CASE MarkChunkReceived(r)
    <3>1. \E a \in {"count", "error"} : req' = [req EXCEPT ![r] = a]
      BY <2>2 DEF MarkChunkReceived
    <3>2. received' \in {received, received \cup {sent[r]}} BY <2>2 DEF MarkChunkReceived
    <3>3. UNCHANGED <<sent, acked, file, asm, pos, raw, video, charges, gauge, job>>
      BY <2>2 DEF MarkChunkReceived
    <3>4. TypeOK' BY <3>1, <3>2, <3>3
    <3>5. PosInv' BY <2>2, <3>1, <3>3 DEF MarkChunkReceived, PosInv
    <3> QED BY <3>4, <3>5
  <2>3. CASE CountChunks(r)
    <3>1. CASE CountFails(r)
      <4>1. TypeOK' BY <3>1 DEF CountFails
      <4>2. PosInv' BY <3>1 DEF CountFails, PosInv
      <4> QED BY <4>1, <4>2
    <3>2. CASE ~CountFails(r)
      <4>1. req[r] = "count" /\ req' = [req EXCEPT ![r] = "answer"]
        BY <2>3, <3>2 DEF CountChunks
      <4>2. asm' = asm \/ asm' = [asm EXCEPT ![r] = "begin"] BY <2>3, <3>2 DEF CountChunks
      <4>3. UNCHANGED <<sent, acked, received, file, pos, raw, video, charges, gauge, job>>
        BY <2>3, <3>2 DEF CountChunks
      <4>4. TypeOK' BY <4>1, <4>2, <4>3
      <4>5. PosInv' BY <4>1, <4>2, <4>3 DEF PosInv
      <4> QED BY <4>4, <4>5
    <3> QED BY <3>1, <3>2
  <2>4. CASE Answer(r)
    <3>1. /\ \E a \in {"done", "error"} : req' = [req EXCEPT ![r] = a]
          /\ acked' \in {acked, acked \cup {sent[r]}}
          /\ UNCHANGED <<sent, received, file, asm, pos, raw, video, charges, gauge, job>>
      BY <2>4 DEF Answer
    <3>3. TypeOK' BY <3>1
    <3>2. PosInv' BY <2>4, <3>1 DEF PosInv
    <3> QED BY <3>2, <3>3
  <2> QED BY <1>3, <2>1, <2>2, <2>3, <2>4 DEF Handler
<1>4. ASSUME NEW r \in Requests, Assembly(r) PROVE TypeOK' /\ PosInv'
  <2>1. CASE CreateRaw(r)
    <3>1. /\ \E a \in {"copy", "failing"} : asm' = [asm EXCEPT ![r] = a]
          /\ raw' \in {raw, [c \in Chunks |-> "none"]} /\ asm[r] = "begin"
          /\ UNCHANGED <<req, sent, acked, received, file, pos, video, charges, gauge, job>>
      BY <2>1 DEF CreateRaw
    <3>2. TypeOK' BY <3>1
    <3>3. PosInv' BY <3>1 DEF PosInv
    <3> QED BY <3>2, <3>3
  <2>2. CASE CopyChunk(r)
    <3> DEFINE stages == {"none", "begin", "copy", "account", "clean", "job", "status",
                          "done", "failing", "failed", "lost"}
    <3>1. /\ pos[r] \in 1..NChunks /\ asm[r] = "copy"
          /\ UNCHANGED <<crashes, req, sent, acked, received, file, video, charges, gauge, job>>
      BY <2>2 DEF CopyChunk, PosInv
    <3>2. \E a \in stages : asm' = [asm EXCEPT ![r] = a]
      BY <2>2 DEF CopyChunk
    <3>3. \E f \in {"cut", file[pos[r]]} : raw' = raw \/ raw' = [raw EXCEPT ![pos[r]] = f]
      BY <2>2 DEF CopyChunk
    <3>4. pos' = pos \/ pos' = [pos EXCEPT ![r] = pos[r] + 1] BY <2>2 DEF CopyChunk
    <3>5. asm' \in [Requests -> stages] BY <3>2
    <3>6. raw' \in [Chunks -> {"none", "cut", "whole"}]
      <4> DEFINE c == pos[r]
      <4>1. c \in Chunks /\ file[c] \in {"none", "cut", "whole"} BY <3>1
      <4>2. PICK f \in {"none", "cut", "whole"} : raw' = raw \/ raw' = [raw EXCEPT ![c] = f]
        BY <3>3, <4>1
      <4> HIDE DEF c
      <4> QED BY <4>1, <4>2
    <3>7. pos' \in [Requests -> 1..NChunks + 1]
      <4> DEFINE n == pos[r] + 1
      <4>1. n \in 1..NChunks + 1 BY <3>1
      <4>2. pos' = pos \/ pos' = [pos EXCEPT ![r] = n] BY <3>4
      <4> HIDE DEF n
      <4> QED BY <4>1, <4>2
    <3>8. TypeOK' BY <3>1, <3>5, <3>6, <3>7
    <3>9. PosInv' BY <2>2 DEF CopyChunk, PosInv
    <3> QED BY <3>8, <3>9
  <2>3. CASE ChargeOwner(r)
    <3>1. TypeOK' BY <2>3 DEF ChargeOwner
    <3>2. PosInv' BY <2>3 DEF ChargeOwner, PosInv
    <3> QED BY <3>1, <3>2
  <2>4. CASE RemoveChunks(r)
    <3>1. TypeOK' BY <2>4 DEF RemoveChunks
    <3>2. PosInv' BY <2>4 DEF RemoveChunks, PosInv
    <3> QED BY <3>1, <3>2
  <2>5. CASE CreateJob(r)
    <3>1. TypeOK' BY <2>5 DEF CreateJob
    <3>2. PosInv' BY <2>5 DEF CreateJob, PosInv
    <3> QED BY <3>1, <3>2
  <2>6. CASE FinishAssembly(r)
    <3>1. /\ \E a \in {"done", "failing"} : asm' = [asm EXCEPT ![r] = a]
          /\ job' = job \/ job' = [job EXCEPT ![r] = "sent"]
          /\ gauge' \in {gauge, gauge - 1} /\ video' \in {video, "processing"}
          /\ UNCHANGED <<req, sent, acked, received, file, pos, raw, charges>>
          /\ asm[r] = "status"
      BY <2>6 DEF FinishAssembly
    <3>4. /\ asm' \in [Requests -> {"none", "begin", "copy", "account", "clean", "job",
                                    "status", "done", "failing", "failed", "lost"}]
          /\ job' \in [Requests -> {"none", "queued", "sent", "reading", "ended", "stuck"}]
          /\ gauge' \in Int
      BY <3>1
    <3>2. TypeOK' BY <3>1, <3>4
    <3>3. PosInv' BY <3>1 DEF PosInv
    <3> QED BY <3>2, <3>3
  <2>7. CASE AssemblyFailed(r)
    <3>1. TypeOK' BY <2>7 DEF AssemblyFailed
    <3>2. PosInv' BY <2>7 DEF AssemblyFailed, PosInv
    <3> QED BY <3>1, <3>2
  <2> QED BY <1>4, <2>1, <2>2, <2>3, <2>4, <2>5, <2>6, <2>7 DEF Assembly
<1>5. ASSUME NEW r \in Requests, Transcode(r) PROVE TypeOK' /\ PosInv'
  <2>3. /\ \E j \in {"reading", "ended"} : job' = [job EXCEPT ![r] = j]
        /\ video' \in {video, "failed", "ready", "damaged"}
        /\ raw' \in {raw, [c \in Chunks |-> "none"]}
        /\ UNCHANGED <<req, sent, acked, received, file, asm, pos, charges, gauge>>
    BY <1>5 DEF Transcode, TranscodeStart, TranscodeEnd, TranscodeFails
  <2>1. TypeOK' BY <2>3
  <2>2. PosInv' BY <1>5 DEF Transcode, TranscodeStart, TranscodeEnd, TranscodeFails, PosInv
  <2> QED BY <2>1, <2>2
<1>6. CASE Crash
  <2>1. TypeOK' BY <1>6 DEF Crash
  <2>2. PosInv' BY <1>6 DEF Crash, PosInv, InFlight
  <2> QED BY <2>1, <2>2
<1>7. CASE UNCHANGED vars BY <1>7 DEF vars, PosInv
<1> QED BY <1>2, <1>3, <1>4, <1>5, <1>6, <1>7 DEF Next

\* The count follows the mark: of the handlers that mark the last chunks, the
\* last to count finds all of them received.
LEMMA CountStep == TypeOK /\ PosInv /\ CountInv /\ [Next]_vars => CountInv'
<1> SUFFICES ASSUME TypeOK, PosInv, CountInv, [Next]_vars, (received = Chunks /\ crashes = 0)'
             PROVE  \E r \in Requests : asm'[r] # "none" \/ req'[r] = "count" \/ r \in missed'
  BY DEF CountInv
<1> USE DEF TypeOK, Chunks
<1>1. crashes = 0 /\ ~Crash
  <2>1. crashes' = crashes \/ Crash
    BY Zenon DEF Next, vars, Handler, Assembly, Transcode, Send, WriteBody, MarkChunkReceived,
       CountChunks, CountFails, Answer, CreateRaw, CopyChunk, ChargeOwner, RemoveChunks,
       CreateJob, FinishAssembly, AssemblyFailed, TranscodeStart, TranscodeEnd
  <2>2. Crash => crashes' = crashes + 1 BY DEF Crash
  <2>3. crashes \in Nat /\ crashes' = 0 OBVIOUS
  <2> QED BY <2>1, <2>2, <2>3
<1>2. ASSUME NEW r \in Requests, MarkChunkReceived(r), UNCHANGED received
      PROVE  /\ UNCHANGED <<asm, missed>>
             /\ \A q \in Requests : req[q] = "count" => req'[q] = "count"
  BY <1>2 DEF MarkChunkReceived, asmVars, histVars
<1>3. ASSUME NEW r \in Requests, MarkChunkReceived(r), received' # received
      PROVE  req'[r] = "count"
  BY <1>3 DEF MarkChunkReceived
<1>4. ASSUME NEW r \in Requests, CountChunks(r)
      PROVE  asm'[r] # "none" \/ r \in missed'
  BY <1>4 DEF CountChunks, CountFails
<1>5. ASSUME NEW r \in Requests, Answer(r) \/ WriteBody(r) \/ Transcode(r)
                                  \/ \E c \in Chunks : Send(r, c)
      PROVE  /\ UNCHANGED <<received, asm, missed>>
             /\ \A q \in Requests : req[q] = "count" => req'[q] = "count"
  BY <1>5 DEF Answer, WriteBody, Transcode, TranscodeStart, TranscodeEnd, Send, asmVars,
     histVars, reqVars
<1>6. ASSUME NEW r \in Requests, Assembly(r)
      PROVE  /\ UNCHANGED <<received, req, missed>>
             /\ \A q \in Requests : asm[q] # "none" => asm'[q] # "none"
  <2>1. UNCHANGED <<received, req, missed>>
    BY <1>6 DEF Assembly, CreateRaw, CopyChunk, ChargeOwner, RemoveChunks, CreateJob,
       FinishAssembly, AssemblyFailed, histVars, reqVars
  <2>2. \E a \in {"copy", "account", "clean", "job", "status", "done", "failing", "failed"} :
          asm' = [asm EXCEPT ![r] = a]
    BY <1>6 DEF Assembly, CreateRaw, CopyChunk, ChargeOwner, RemoveChunks, CreateJob,
       FinishAssembly, AssemblyFailed
  <2> QED BY <2>1, <2>2
<1>7. CASE UNCHANGED vars
  BY <1>1, <1>7 DEF CountInv, vars, reqVars, asmVars, histVars
<1>8. CASE Next
  <2>1. PICK r \in Requests : \/ \E c \in Chunks : Send(r, c)
                              \/ Handler(r) \/ Assembly(r) \/ Transcode(r)
    BY <1>1, <1>8 DEF Next
  <2>2. CASE MarkChunkReceived(r) BY <1>1, <1>2, <1>3, <2>2 DEF CountInv
  <2>3. CASE CountChunks(r) BY <1>4, <2>3
  <2>4. CASE Answer(r) \/ WriteBody(r) \/ Transcode(r) \/ \E c \in Chunks : Send(r, c)
    BY <1>1, <1>5, <2>4 DEF CountInv
  <2>5. CASE Assembly(r) BY <1>1, <1>6, <2>5 DEF CountInv
  <2> QED BY <2>1, <2>2, <2>3, <2>4, <2>5 DEF Handler
<1> QED BY <1>7, <1>8

-----------------------------------------------------------------------------
(* The page.                                                                *)

PageState == client = "page" /\ TypeOK /\ PosInv /\ PageOrder /\ PageCopies

\* The chunks below one that was sent are acknowledged, so a handler that finds
\* every chunk received carries the last.
LEMMA LastCounts ==
  ASSUME PageState, NEW r \in Requests, req[r] = "count", received = Chunks
  PROVE  /\ sent[r] = NChunks
         /\ \A q \in Sent : q # r => req[q] = "done"
         /\ (\A q \in Requests : asm[q] = "none") =>
               chunkDir /\ \A c \in Chunks : file[c] = "whole"
<1> USE NChunksAssumption DEF PageState, TypeOK, Chunks
<1>1. r \in Sent /\ sent[r] \notin acked BY DEF Sent, PageOrder
<1>2. \A q \in Sent : q # r => req[q] = "done" BY <1>1 DEF PageOrder
<1>3. sent[r] = NChunks
  <2>1. PICK q \in Sent : sent[q] = NChunks BY DEF PageOrder
  <2>2. CASE q # r
    <3>1. sent[r] \in 1..(NChunks - 1) BY <1>1, <2>1, <2>2 DEF PageOrder
    <3> QED BY <1>1, <2>1, <3>1 DEF PageOrder
  <2> QED BY <2>1, <2>2
<1>4. ASSUME \A q \in Requests : asm[q] = "none" PROVE chunkDir
  BY <1>4 DEF PageCopies, PageFiles, Copied
<1>5. ASSUME \A q \in Requests : asm[q] = "none", NEW c \in Chunks PROVE file[c] = "whole"
  <2>1. PICK q \in Sent : sent[q] = c BY DEF PageOrder
  <2>2. req[q] \in {"count", "done"} BY <1>2
  <2> QED BY <1>5, <2>1, <2>2 DEF PageCopies, PageFiles, Copied
<1> QED BY <1>2, <1>3, <1>4, <1>5

\* Once an assembly was started there is no other, and nothing more is sent.
LEMMA OneAssembly ==
  ASSUME PageState, NEW r \in Requests, asm[r] # "none"
  PROVE  /\ \A q \in Requests : q # r => asm[q] = "none" /\ job[q] = "none"
         /\ \A q \in Sent : q # r => req[q] = "done"
         /\ r \in Sent /\ req[r] \in {"answer", "done", "error"}
         /\ \A q \in Requests, c \in Chunks : ~Send(q, c)
<1> USE NChunksAssumption DEF PageState, TypeOK, Chunks
<1>1. r \in Sent /\ sent[r] = NChunks /\ req[r] \in {"answer", "done", "error"}
  BY DEF PosInv, PageCopies, PageStage, Sent
<1>2. \A q \in Requests : asm[q] # "none" => q \in Sent /\ sent[q] = NChunks
  BY DEF PosInv, PageCopies, PageStage, Sent
<1>3. ASSUME NEW q \in Requests, q # r PROVE asm[q] = "none" /\ job[q] = "none"
  <2>1. asm[q] = "none" BY <1>1, <1>2, <1>3 DEF PageOrder
  <2> QED BY <2>1 DEF PageCopies, PageStage
<1>4. ASSUME NEW q \in Sent, q # r PROVE req[q] = "done"
  <2>1. sent[q] \in 1..(NChunks - 1) BY <1>1, <1>4 DEF PageOrder, Sent
  <2> QED BY <1>1, <2>1 DEF PageOrder
<1>5. ASSUME NEW q \in Requests, NEW c \in Chunks, Send(q, c) PROVE FALSE
  <2>1. c \notin acked /\ \A x \in Sent : req[x] = "done" BY <1>5 DEF Send, MaySend
  <2>2. NChunks \in acked /\ \A d \in 1..(NChunks - 1) : d \in acked
    BY <1>1, <2>1 DEF PageOrder
  <2> QED BY <2>1, <2>2
<1> QED BY <1>1, <1>3, <1>4, <1>5

LEMMA PageSend ==
  ASSUME PageState, NEW r \in Requests, NEW c \in Chunks, Send(r, c)
  PROVE  PageOrder' /\ PageCopies'
<1> USE NChunksAssumption DEF PageState, TypeOK, Chunks, asmVars
<1>1. /\ req[r] = "idle" /\ req'[r] \in {"body", "error"} /\ sent'[r] = c
      /\ \A q \in Requests \ {r} : req'[q] = req[q] /\ sent'[q] = sent[q]
      /\ \A d \in Chunks \ {c} : file'[d] = file[d]
      /\ c \notin acked /\ (\A d \in 1..(c - 1) : d \in acked) /\ \A q \in Sent : req[q] = "done"
      /\ UNCHANGED <<acked, received, chunkDir, asm, pos, raw, rawDir, video, job>>
  BY DEF Send, MaySend
<1>2. Sent' = Sent \cup {r} /\ r \notin Sent BY <1>1 DEF Sent
<1>3. \A q \in Sent : sent[q] \in acked BY <1>1 DEF PageOrder
<1>4. PageOrder'
  <2>1. ASSUME NEW q \in Sent'
        PROVE  (req'[q] = "done" <=> sent'[q] \in acked') /\ \A d \in 1..(sent'[q] - 1) : d \in acked'
    <3>1. CASE q = r BY <1>1, <3>1
    <3>2. CASE q # r BY <1>1, <1>2, <3>2 DEF PageOrder, Sent
    <3> QED BY <3>1, <3>2
  <2>2. ASSUME NEW p \in Sent', NEW q \in Sent', p # q
        PROVE  sent'[p] # sent'[q] /\ "done" \in {req'[p], req'[q]}
    <3>1. CASE p \in Sent /\ q \in Sent BY <1>1, <1>2, <2>2, <3>1 DEF PageOrder, Sent
    <3>2. CASE p = r BY <1>1, <1>2, <1>3, <2>2, <3>2 DEF Sent
    <3>3. CASE q = r BY <1>1, <1>2, <1>3, <2>2, <3>3 DEF Sent
    <3> QED BY <1>2, <3>1, <3>2, <3>3
  <2>3. ASSUME NEW d \in acked' \cup received' PROVE \E q \in Sent' : sent'[q] = d
    <3>1. PICK q \in Sent : sent[q] = d BY <1>1 DEF PageOrder
    <3> QED BY <1>1, <1>2, <3>1 DEF Sent
  <2> QED BY <2>1, <2>2, <2>3 DEF PageOrder
<1>5. \A q \in Requests : asm[q] = "none" BY OneAssembly
<1>6. \A q \in Requests : job[q] = "none" BY <1>5 DEF PageCopies, PageStage
<1>7. /\ chunkDir
      /\ \A q \in Sent : req[q] \in {"mark", "count", "answer", "done"} => file[sent[q]] = "whole"
  BY <1>5 DEF PageCopies, PageFiles, Copied
<1>8. PageFiles'
  <2>1. ASSUME NEW q \in Sent, q # r PROVE file'[sent'[q]] = "whole"
    <3>1. q \in Requests /\ sent[q] # c /\ req[q] = "done" BY <1>1, <1>3 DEF Sent
    <3>2. file[sent[q]] = "whole" BY <1>7, <2>1, <3>1
    <3> QED BY <1>1, <2>1, <3>1, <3>2
  <2>2. req'[r] \in {"body", "error"} BY <1>1
  <2> QED BY <1>1, <1>2, <1>7, <2>1, <2>2 DEF PageFiles
<1>9. \A q \in Requests : PageStage(q)' BY <1>1, <1>5, <1>6 DEF PageStage
<1>10. video' # "damaged" BY <1>1 DEF PageCopies
<1> QED BY <1>4, <1>8, <1>9, <1>10 DEF PageCopies

LEMMA PageHandler ==
  ASSUME PageState, NEW r \in Requests, Handler(r)
  PROVE  PageOrder' /\ PageCopies'
<1> USE NChunksAssumption DEF PageState, TypeOK, Chunks, asmVars
<1>1. /\ InFlight(r) /\ \A q \in Requests \ {r} : req'[q] = req[q]
      /\ UNCHANGED <<sent, chunkDir, pos, raw, rawDir, video, job>>
      /\ req'[r] \in {"mark", "count", "answer", "done", "error"}
      /\ r \in Sent
  BY DEF Handler, WriteBody, MarkChunkReceived, CountChunks, CountFails, Answer, InFlight, Sent
<1>2. Sent' = Sent BY <1>1 DEF Sent
<1>3. /\ req[r] # "done" /\ sent[r] \notin acked
      /\ \A q \in Sent : q # r => req[q] = "done" /\ sent[q] # sent[r]
  BY <1>1 DEF InFlight, PageOrder
<1>4. RawWhole' = RawWhole BY <1>1 DEF RawWhole
<1>5. PageOrder'
  <2>1. \/ acked' = acked \cup {sent[r]} /\ req'[r] = "done"
        \/ acked' = acked /\ req'[r] # "done"
    BY DEF Handler, WriteBody, MarkChunkReceived, CountChunks, CountFails, Answer
  <2>2. received' \subseteq received \cup {sent[r]}
    BY DEF Handler, WriteBody, MarkChunkReceived, CountChunks, CountFails, Answer
  <2>3. ASSUME NEW q \in Sent
        PROVE  (req'[q] = "done" <=> sent[q] \in acked') /\ \A d \in 1..(sent[q] - 1) : d \in acked'
    BY <1>1, <1>3, <2>1 DEF PageOrder, Sent
  <2>4. ASSUME NEW p \in Sent, NEW q \in Sent, p # q
        PROVE  sent[p] # sent[q] /\ "done" \in {req'[p], req'[q]}
    <3>1. CASE p # r /\ q # r BY <1>1, <2>4, <3>1 DEF PageOrder, Sent
    <3>2. CASE p = r \/ q = r BY <1>1, <1>3, <2>4, <3>2 DEF Sent
    <3> QED BY <3>1, <3>2
  <2>5. \A d \in acked' \cup received' : \E q \in Sent : sent[q] = d
    <3>1. acked' \cup received' \subseteq acked \cup received \cup {sent[r]} BY <2>1, <2>2
    <3> QED BY <1>1, <3>1 DEF PageOrder
  <2> QED BY <1>1, <1>2, <2>3, <2>4, <2>5 DEF PageOrder
<1>6. CASE asm' # asm
  <2>1. /\ req'[r] = "answer" /\ req[r] = "count" /\ asm' = [asm EXCEPT ![r] = "begin"]
        /\ received = Chunks /\ UNCHANGED <<acked, received, file>>
    BY <1>6 DEF Handler, WriteBody, MarkChunkReceived, CountChunks, CountFails, Answer
  <2>2. asm[r] = "none" /\ job[r] = "none" BY <2>1 DEF PosInv, PageCopies, PageStage
  <2>3. \A q \in Requests : asm[q] = "none" BY <1>1, <2>1, <2>2, OneAssembly
  <2>4. \A q \in Requests : job[q] = "none" BY <2>3 DEF PageCopies, PageStage
  <2>5. sent[r] = NChunks BY <2>1, LastCounts
  <2>6. chunkDir /\ \A c \in Chunks : file[c] = "whole" BY <2>1, <2>3, LastCounts
  <2>7. asm'[r] = "begin" /\ \A q \in Requests \ {r} : asm'[q] = asm[q] BY <2>1
  <2>8. PageFiles'
    <3>1. \A q \in Sent : sent[q] \in Chunks BY DEF Sent
    <3> QED BY <1>1, <1>2, <2>1, <2>6, <3>1 DEF PageFiles
  <2>9. \A q \in Requests : PageStage(q)'
    BY <1>1, <2>1, <2>3, <2>4, <2>5, <2>6, <2>7 DEF PageStage
  <2> QED BY <1>1, <1>5, <2>8, <2>9 DEF PageCopies
<1>7. CASE asm' = asm
  <2>1. \A c \in Chunks : file'[c] = file[c] \/ file'[c] = "whole"
    BY DEF Handler, WriteBody, MarkChunkReceived, CountChunks, CountFails, Answer
  <2>2. Copied => Copied' BY <1>1, <1>4, <1>7 DEF Copied
  <2>3. ASSUME ~Copied PROVE PageFiles'
    <3>1. ASSUME req'[r] # "error" PROVE file'[sent[r]] = "whole"
      <4>1. CASE WriteBody(r)
        BY <2>3, <3>1, <4>1 DEF WriteBody, PageCopies, PageFiles
      <4>2. CASE ~WriteBody(r)
        <5>1. file' = file /\ req[r] \in {"mark", "count", "answer"}
          BY <4>2 DEF Handler, MarkChunkReceived, CountChunks, CountFails, Answer
        <5> QED BY <1>1, <2>3, <5>1 DEF PageCopies, PageFiles
      <4> QED BY <4>1, <4>2
    <3>2. ASSUME NEW q \in Sent, q # r, req[q] \in {"mark", "count", "answer", "done"}
          PROVE  file'[sent[q]] = "whole"
      BY <2>1, <2>3, <3>2 DEF PageCopies, PageFiles, Sent
    <3>3. chunkDir BY <2>3 DEF PageCopies, PageFiles
    <3> QED BY <1>1, <1>2, <3>1, <3>2, <3>3 DEF PageFiles, Sent
  <2>4. PageFiles' BY <2>2, <2>3 DEF PageFiles
  <2>5. ASSUME NEW q \in Requests PROVE PageStage(q)'
    BY <1>1, <1>4, <1>7, <2>1 DEF PageCopies, PageStage
  <2> QED BY <1>1, <1>5, <2>4, <2>5 DEF PageCopies
<1> QED BY <1>6, <1>7

\* The one assembly finds every chunk whole and nobody else at the raw file.
LEMMA PageAssembly ==
  ASSUME PageState, NEW r \in Requests, Assembly(r)
  PROVE  PageOrder' /\ PageCopies'
<1> USE NChunksAssumption DEF PageState, TypeOK, Chunks, reqVars
<1>1. /\ asm[r] \in {"begin", "copy", "account", "clean", "job", "status", "failing"}
      /\ UNCHANGED <<req, sent, acked, received>>
      /\ \A q \in Requests \ {r} : asm'[q] = asm[q] /\ pos'[q] = pos[q] /\ job'[q] = job[q]
  BY DEF Assembly, CreateRaw, CopyChunk, ChargeOwner, RemoveChunks, CreateJob, FinishAssembly,
     AssemblyFailed
<1>2. asm[r] # "none" BY <1>1
<1>3. \A q \in Requests : q # r => asm[q] = "none" /\ job[q] = "none"
  BY <1>2, OneAssembly
<1>4. PageStage(r) /\ sent[r] = NChunks BY <1>2 DEF PageCopies, PageStage
<1>5. Sent' = Sent BY <1>1 DEF Sent
<1>6. PageOrder' BY <1>1, <1>5 DEF PageOrder
<1>7. \A q \in Requests : q # r => PageStage(q)'
  BY <1>1, <1>3 DEF PageStage
<1>8. \A q \in Sent : sent[q] \in Chunks BY DEF Sent
<1>9. ASSUME chunkDir', \A c \in Chunks : file'[c] = "whole" PROVE PageFiles'
  BY <1>1, <1>5, <1>8, <1>9 DEF PageFiles
<1>10. ASSUME RawWhole', asm'[r] # "none" PROVE PageFiles'
  BY <1>10 DEF PageFiles, Copied
<1>11. CASE CreateRaw(r)
  <2>1. /\ asm[r] = "begin" /\ asm'[r] \in {"copy", "failing"}
        /\ asm'[r] = "copy" => rawDir'
        /\ UNCHANGED <<file, chunkDir, video, pos, job>>
    BY <1>11 DEF CreateRaw
  <2>2. /\ pos[r] = 1 /\ job[r] = "none"
        /\ chunkDir /\ \A c \in Chunks : file[c] = "whole"
    BY <1>4, <2>1 DEF PosInv, PageStage
  <2>3. 1..(pos'[r] - 1) = {} BY <2>1, <2>2
  <2>4. PageStage(r)' BY <1>1, <1>4, <2>1, <2>2, <2>3 DEF PageStage
  <2>5. PageFiles' BY <1>9, <2>1, <2>2
  <2> QED BY <1>6, <1>7, <2>1, <2>4, <2>5 DEF PageCopies
<1>12. CASE CopyChunk(r)
  <2>1. asm[r] = "copy" /\ pos[r] \in 1..NChunks BY <1>12 DEF CopyChunk, PosInv
  <2>2. /\ chunkDir /\ rawDir /\ job[r] = "none"
        /\ (\A c \in Chunks : file[c] = "whole") /\ \A c \in 1..(pos[r] - 1) : raw[c] = "whole"
    BY <1>4, <2>1 DEF PageStage
  <2>3. UNCHANGED <<file, chunkDir, rawDir, video, job>> BY <1>12 DEF CopyChunk
  <2>4. PageFiles' BY <1>9, <2>2, <2>3
  <2>5. PageStage(r)'
    <3>1. CASE asm'[r] = "failing" BY <1>1, <1>4, <2>2, <2>3, <3>1 DEF PageStage
    <3>2. CASE asm'[r] # "failing"
      <4>1. /\ raw' = [raw EXCEPT ![pos[r]] = "whole"] /\ pos'[r] = pos[r] + 1
            /\ asm'[r] = IF pos[r] = NChunks THEN "account" ELSE "copy"
        BY <1>12, <2>1, <2>2, <3>2 DEF CopyChunk
      <4>2. \A c \in 1..(pos'[r] - 1) : raw'[c] = "whole" BY <2>1, <2>2, <4>1
      <4>3. asm'[r] = "account" => RawWhole' BY <2>1, <2>2, <2>3, <4>1, <4>2 DEF RawWhole
      <4> QED BY <1>1, <1>4, <2>1, <2>2, <2>3, <4>1, <4>2, <4>3 DEF PageStage
    <3> QED BY <3>1, <3>2
  <2> QED BY <1>6, <1>7, <2>3, <2>4, <2>5 DEF PageCopies
<1>13. CASE ChargeOwner(r)
  <2>1. /\ asm[r] = "account" /\ asm'[r] = "clean"
        /\ UNCHANGED <<raw, rawDir, video, pos, job, file, chunkDir>>
    BY <1>13 DEF ChargeOwner
  <2>2. PageStage(r)' BY <1>1, <1>4, <2>1 DEF PageStage, RawWhole
  <2>3. chunkDir /\ \A c \in Chunks : file[c] = "whole" BY <1>4, <2>1 DEF PageStage
  <2>4. PageFiles' BY <1>9, <2>1, <2>3
  <2> QED BY <1>6, <1>7, <2>1, <2>2, <2>4 DEF PageCopies
<1>14. CASE RemoveChunks(r)
  <2>1. /\ asm[r] = "clean" /\ asm'[r] = "job" /\ UNCHANGED <<raw, rawDir, video, pos, job>>
    BY <1>14 DEF RemoveChunks
  <2>2. RawWhole /\ RawWhole' BY <1>4, <2>1 DEF PageStage, RawWhole
  <2>3. PageStage(r)' BY <1>1, <1>4, <2>1, <2>2 DEF PageStage
  <2>4. PageFiles' BY <1>10, <2>1, <2>2
  <2> QED BY <1>6, <1>7, <2>1, <2>3, <2>4 DEF PageCopies
<1>15. CASE CreateJob(r)
  <2>1. /\ asm[r] = "job"
        /\ \/ asm'[r] = "status" /\ job'[r] = "queued"
           \/ asm'[r] = "failing" /\ job'[r] = job[r]
        /\ UNCHANGED <<raw, rawDir, video, pos, file, chunkDir>>
    BY <1>15 DEF CreateJob
  <2>2. RawWhole /\ RawWhole' BY <1>4, <2>1 DEF PageStage, RawWhole
  <2>3. PageStage(r)' BY <1>1, <1>4, <2>1, <2>2 DEF PageStage
  <2>4. PageFiles' BY <1>10, <2>1, <2>2
  <2> QED BY <1>6, <1>7, <2>1, <2>3, <2>4 DEF PageCopies
<1>16. CASE FinishAssembly(r)
  <2>1. /\ asm[r] = "status"
        /\ \/ asm'[r] = "done" /\ job'[r] = "sent" /\ video' = "processing"
           \/ asm'[r] = "failing" /\ job'[r] = job[r] /\ video' = video
        /\ UNCHANGED <<raw, rawDir, pos, file, chunkDir>>
    BY <1>16 DEF FinishAssembly
  <2>2. RawWhole /\ RawWhole' BY <1>4, <2>1 DEF PageStage, RawWhole
  <2>3. PageStage(r)' BY <1>1, <1>4, <2>1, <2>2 DEF PageStage
  <2>4. PageFiles' BY <1>10, <2>1, <2>2
  <2> QED BY <1>6, <1>7, <2>1, <2>3, <2>4 DEF PageCopies
<1>17. CASE AssemblyFailed(r)
  <2>1. /\ asm[r] = "failing" /\ asm'[r] = "failed" /\ video' \in {"failed", video}
        /\ UNCHANGED <<raw, rawDir, pos, file, chunkDir, job>>
    BY <1>17 DEF AssemblyFailed
  <2>2. RawWhole' = RawWhole BY <2>1 DEF RawWhole
  <2>3. PageStage(r)' BY <1>1, <1>4, <2>1, <2>2 DEF PageStage
  <2>4. Copied => Copied' BY <1>1, <2>1, <2>2 DEF Copied
  <2>5. PageFiles' BY <1>1, <1>5, <2>1, <2>4 DEF PageCopies, PageFiles
  <2> QED BY <1>6, <1>7, <2>1, <2>3, <2>5 DEF PageCopies
<1> QED BY <1>11, <1>12, <1>13, <1>14, <1>15, <1>16, <1>17 DEF Assembly

\* The transcode of the one job reads the whole upload.
LEMMA PageTranscode ==
  ASSUME PageState, NEW r \in Requests, Transcode(r)
  PROVE  PageOrder' /\ PageCopies'
<1> USE NChunksAssumption DEF PageState, TypeOK, Chunks, reqVars, asmVars
<1>1. /\ job[r] \in {"sent", "reading"} /\ job'[r] \in {"reading", "ended"}
      /\ UNCHANGED <<req, sent, acked, received, asm, pos, file, chunkDir>>
      /\ \A q \in Requests \ {r} : job'[q] = job[q]
      /\ job'[r] = "reading" => UNCHANGED <<raw, rawDir, video>>
  BY DEF Transcode, TranscodeStart, TranscodeEnd, TranscodeFails
<1>2. RawWhole /\ asm[r] \in {"done", "failing", "failed", "lost"} /\ sent[r] = NChunks
  BY <1>1 DEF PageCopies, PageStage
<1>3. \A q \in Requests : q # r => asm[q] = "none" /\ job[q] = "none"
  BY <1>2, OneAssembly
<1>4. Sent' = Sent BY <1>1 DEF Sent
<1>5. PageOrder' BY <1>1, <1>4 DEF PageOrder
<1>6. video' # "damaged" BY <1>2 DEF Transcode, TranscodeStart, TranscodeEnd, TranscodeFails, PageCopies
<1>7. job'[r] = "reading" => RawWhole' BY <1>1, <1>2 DEF RawWhole
<1>8. PageStage(r)' BY <1>1, <1>2, <1>7 DEF PageStage
<1>9. \A q \in Requests : q # r => PageStage(q)' BY <1>1, <1>3 DEF PageCopies, PageStage
<1>10. PageFiles' BY <1>1, <1>2, <1>7 DEF PageFiles, Copied
<1> QED BY <1>5, <1>6, <1>8, <1>9, <1>10 DEF PageCopies

\* A crash forgets the handlers and the assembly; the files stay.
LEMMA PageCrash ==
  ASSUME PageState, Crash
  PROVE  PageOrder' /\ PageCopies'
<1> USE NChunksAssumption DEF PageState, TypeOK, Chunks
<1>1. /\ UNCHANGED <<sent, acked, received, file, chunkDir, pos, raw, rawDir, video>>
      /\ \A r \in Requests :
           /\ req'[r] = IF InFlight(r) THEN "error" ELSE req[r]
           /\ asm'[r] \in {asm[r], "lost"} /\ asm'[r] \in {"none", "done", "failed", "lost"}
           /\ asm'[r] = "none" <=> asm[r] = "none"
           /\ job'[r] = IF job[r] = "queued" THEN "sent"
                        ELSE IF job[r] = "reading" THEN "stuck" ELSE job[r]
  BY DEF Crash
<1>2. \A r \in Requests : (req'[r] = "done" <=> req[r] = "done")
                            /\ (req'[r] = "idle" <=> req[r] = "idle")
  BY <1>1 DEF InFlight
<1>3. RawWhole' = RawWhole BY <1>1 DEF RawWhole
<1>4. Sent' = Sent BY <1>2 DEF Sent
<1>5. PageOrder'
  <2>1. \A p, q \in Sent : p # q => sent[p] # sent[q] /\ "done" \in {req'[p], req'[q]}
    BY <1>2 DEF PageOrder, Sent
  <2>2. \A q \in Sent : (req'[q] = "done" <=> sent[q] \in acked)
                            /\ \A d \in 1..(sent[q] - 1) : d \in acked
    BY <1>2 DEF PageOrder, Sent
  <2>3. \A c \in acked \cup received : \E q \in Sent : sent[q] = c BY DEF PageOrder
  <2> QED BY <1>1, <1>4, <2>1, <2>2, <2>3 DEF PageOrder
<1>6. Copied => Copied'
  <2>1. \A r \in Requests : job[r] \in {"ended", "stuck"} => job'[r] = job[r] BY <1>1
  <2> QED BY <1>1, <1>3, <2>1 DEF Copied
<1>7. PageFiles'
  <2>1. \A r \in Sent : req'[r] \in {"mark", "count", "answer", "done"} => req[r] = "done"
    BY <1>1 DEF Sent, InFlight
  <2> QED BY <1>1, <1>4, <1>6, <2>1 DEF PageCopies, PageFiles
<1>8. ASSUME NEW r \in Requests PROVE PageStage(r)'
  BY <1>1, <1>3 DEF PageCopies, PageStage
<1> QED BY <1>1, <1>5, <1>7, <1>8 DEF PageCopies

LEMMA UploadStep == UploadInv /\ [Next]_vars => UploadInv'
<1> SUFFICES ASSUME UploadInv, [Next]_vars PROVE UploadInv' OBVIOUS
<1>1. TypeOK' /\ PosInv' BY TypeStep DEF UploadInv
<1>2. CountInv' BY CountStep DEF UploadInv
<1>3. client' = client
  BY DEF Next, vars, Handler, Assembly, Transcode, Send, WriteBody, MarkChunkReceived,
     CountChunks, CountFails, Answer, CreateRaw, CopyChunk, ChargeOwner, RemoveChunks, CreateJob,
     FinishAssembly, AssemblyFailed, TranscodeStart, TranscodeEnd, TranscodeFails, Crash
<1>4. ASSUME PageState PROVE PageOrder' /\ PageCopies'
  <2>1. CASE UNCHANGED vars
    <3>1. UNCHANGED <<req, sent, acked, received, asm, pos, file, chunkDir, raw, rawDir, video, job>>
      BY <2>1 DEF vars, reqVars, asmVars
    <3> QED BY <1>4, <3>1 DEF PageState, PageOrder, PageCopies, PageFiles, Copied, PageStage, Sent, RawWhole
  <2> QED BY <1>4, <2>1, PageSend, PageHandler, PageAssembly, PageTranscode, PageCrash DEF Next
<1> QED BY <1>1, <1>2, <1>3, <1>4 DEF UploadInv, PageInv, PageState

LEMMA UploadInvariant == Spec => []UploadInv
BY UploadInit, UploadStep, PTL DEF Spec

-----------------------------------------------------------------------------
\* Whatever concurrent handlers mark and count, and however chunks are sent
\* again: once every chunk is received and no handler is still to count, an
\* assembly was started, or the count of a handler failed over complete rows.
THEOREM LastCountStarts == Spec => []LastCountAssembles
<1>1. UploadInv => LastCountAssembles BY DEF UploadInv, CountInv, LastCountAssembles
<1> QED BY <1>1, UploadInvariant, PTL

\* The page's upload is assembled at most once, though ReceiveChunk counts
\* without a lock.
THEOREM PageIsAssembledOnce == Spec => []PageAssemblesOnce
<1>1. ASSUME UploadInv, client = "page" PROVE AssembledOnce
  <2> DEFINE started == {r \in Requests : asm[r] # "none"}
  <2>1. \A r, q \in started : r = q
    BY <1>1, OneAssembly DEF UploadInv, PageInv, PageState
  <2>2. started = {} \/ \E r \in started : started = {r} BY <2>1
  <2>3. Cardinality(started) \in {0, 1} BY <2>2, FS_EmptySet, FS_Singleton
  <2> QED BY <2>3 DEF AssembledOnce
<1> QED BY <1>1, UploadInvariant, PTL DEF PageAssemblesOnce

\* No chunk the page was told is stored is lost before the upload was
\* transcoded, whatever breaks or crashes.
THEOREM PageLosesNothing == Spec => []PageAckedIsKept
<1>1. ASSUME UploadInv, client = "page" PROVE AckedIsKept
  <2> SUFFICES ASSUME NEW c \in acked
               PROVE  (\E r \in Requests : job[r] \in {"ended", "stuck"})
                        \/ file[c] = "whole" \/ (rawDir /\ raw[c] = "whole")
    BY DEF AckedIsKept
  <2> USE <1>1 DEF UploadInv, PageInv
  <2>1. CASE Copied
    BY <2>1 DEF Copied, RawWhole, TypeOK
  <2>2. CASE ~Copied
    <3>1. PICK r \in Sent : sent[r] = c BY DEF PageOrder
    <3>2. req[r] = "done" BY <3>1 DEF PageOrder
    <3> QED BY <2>2, <3>1, <3>2 DEF PageCopies, PageFiles
  <2> QED BY <2>1, <2>2
<1> QED BY <1>1, UploadInvariant, PTL DEF PageAckedIsKept

\* Players are offered only what was transcoded from the whole upload.
THEOREM PageIsNeverDamaged == Spec => []PageNeverDamaged
<1>1. UploadInv => PageNeverDamaged
  BY DEF UploadInv, PageInv, PageCopies, PageNeverDamaged
<1> QED BY <1>1, UploadInvariant, PTL
=============================================================================
