------------------------ MODULE TranscodeQueueProofs ------------------------
(***************************************************************************)
(* Theorems of TranscodeQueue, for every number of videos, jobs, workers,  *)
(* channel slots, profiles, faults and restarts.                           *)
(***************************************************************************)
EXTENDS TranscodeQueue, TLAPS, SequenceTheorems

Assumptions == /\ VideoOf \in [Jobs -> Videos] /\ NoJob \notin Jobs
               /\ QueueCap \in Nat \ {0} /\ Profiles \in Nat \ {0}
               /\ MaxFaults \in Nat /\ MaxRuns \in Nat
               /\ Deletable \subseteq Videos
               /\ MediaFails \in BOOLEAN /\ MayHang \in BOOLEAN

LEMMA ConstantsOK == Assumptions
  BY VideoOfAssumption, NoJobAssumption, BoundsAssumption, FlagsAssumption
     DEF Assumptions

\* The states the actions assign, without expanding the sets everywhere.
StateNames ==
  /\ {"none", "queued", "running", "completed", "failed"} \subseteq JobStates
  /\ {"processing", "ready", "failed", "deleted"} \subseteq VideoStates
  /\ AsmStates \ {"idle"} = {"raw", "created", "sending", "done", "failing",
                             "failed", "lost"}
  /\ WorkerStates = Stages \cup {"idle", "exited"}
  /\ "idle" \notin Stages /\ "exited" \notin Stages
  /\ {"got", "load", "probe", "encode", "hung", "package", "cleanup", "publish",
      "complete", "failing", "failvideo"} = Stages

LEMMA StateNamesOK == StateNames
  BY DEF StateNames, JobStates, VideoStates, AsmStates, WorkerStates, Stages

\* The channel as a sequence: a send adds one element at the end, a receive
\* takes the first and keeps the others in order.
LEMMA SendToChannel ==
  ASSUME NEW s \in Seq(Jobs), NEW j \in Jobs
  PROVE  /\ Append(s, j) \in Seq(Jobs)
         /\ Len(Append(s, j)) = Len(s) + 1
         /\ \A i \in 1..Len(s) : Append(s, j)[i] = s[i]
         /\ Append(s, j)[Len(s) + 1] = j
  OBVIOUS

LEMMA TakeFromChannel ==
  ASSUME NEW s \in Seq(Jobs), s # << >>
  PROVE  /\ Head(s) \in Jobs /\ Head(s) = s[1] /\ Len(s) \in Nat \ {0}
         /\ Tail(s) \in Seq(Jobs)
         /\ Len(Tail(s)) = Len(s) - 1
         /\ \A i \in 1..Len(Tail(s)) : Tail(s)[i] = s[i + 1]
  OBVIOUS

-----------------------------------------------------------------------------
(* Typing, part by part: what the statements and the worker's moves keep.   *)

LEMMA SetJobType ==
  ASSUME RowType, NEW j \in Jobs, NEW s \in JobStates, SetJob(j, s)
  PROVE  job' \in [Jobs -> JobStates] /\ stale' \subseteq Jobs
  BY DEF RowType, SetJob

LEMMA SetVideoType ==
  ASSUME RowType, NEW v \in Videos, NEW s \in VideoStates, SetVideo(v, s)
  PROVE  video' \in [Videos -> VideoStates]
  BY DEF RowType, SetVideo

LEMMA FaultType == ASSUME OtherType, NoFault \/ Fault PROVE faults' \in 0..MaxFaults
  BY ConstantsOK DEF OtherType, NoFault, Fault, Assumptions

LEMMA BusyHolds ==
  ASSUME WorkerType, NEW w \in Workers, wpc[w] \in Stages
  PROVE  wjob[w] \in Jobs /\ VideoOn(w) \in Videos
  BY ConstantsOK, StateNamesOK DEF WorkerType, StateNames, Assumptions, VideoOn

LEMMA GotoType ==
  ASSUME WorkerType, NEW w \in Workers, NEW s \in Stages \ {"encode"},
         wpc[w] \in Stages, Goto(w, s)
  PROVE  WorkerType'
  BY BusyHolds, ConstantsOK, StateNamesOK
     DEF WorkerType, StateNames, Goto, Assumptions

LEMMA DoneType ==
  ASSUME WorkerType, NEW w \in Workers, Done(w) PROVE WorkerType'
  BY ConstantsOK, StateNamesOK DEF WorkerType, StateNames, Done, Assumptions

LEMMA TypeInit == Init => TypeOK
  BY ConstantsOK DEF Init, TypeOK, MainType, ChanType, RowType, FileType, AsmType,
     WorkerType, OtherType, Assumptions, ServerStates, JobStates, VideoStates,
     AsmStates, WorkerStates, Stages

LEMMA TypeHalt ==
  ASSUME TypeOK, NEW orphans \in SUBSET Jobs, Halt(orphans)
  PROVE  TypeOK'
<1>1. MainType' BY DEF Halt, TypeOK, MainType, ServerStates
<1>2. ChanType' BY ConstantsOK DEF Halt, ChanType, Assumptions
<1>3. RowType' /\ FileType' BY DEF Halt, TypeOK, RowType, FileType, rowVars, fileVars
<1>4. AsmType' BY StateNamesOK DEF Halt, TypeOK, AsmType, StateNames
<1>5. WorkerType'
  BY ConstantsOK, StateNamesOK DEF Halt, WorkerType, StateNames, Assumptions
<1>6. OtherType' BY DEF Halt, TypeOK, OtherType
<1> QED BY <1>1, <1>2, <1>3, <1>4, <1>5, <1>6 DEF TypeOK

LEMMA TypeMain == ASSUME TypeOK, Main PROVE TypeOK'
<1> USE DEF rowVars, fileVars, workerVars, histVars
<1>1. ASSUME Start PROVE TypeOK'
  <2>1. faults' \in 0..MaxFaults BY <1>1, FaultType DEF Start, TypeOK
  <2> QED BY <1>1, <2>1, ConstantsOK
          DEF Start, Queued, TypeOK, MainType, ChanType, RowType, FileType, AsmType,
              WorkerType, OtherType, ServerStates, Assumptions
<1>2. ASSUME Serve \/ Signal \/ CancelWorkers \/ CloseQueue PROVE TypeOK'
  BY <1>2 DEF Serve, Signal, CancelWorkers, CloseQueue, TypeOK, MainType, ChanType,
     RowType, FileType, AsmType, WorkerType, OtherType, ServerStates
<1>3. ASSUME WorkersDone PROVE TypeOK' BY <1>3, TypeHalt DEF WorkersDone
<1>4. ASSUME DrainTimeout \/ Crash PROVE TypeOK'
  BY <1>4, TypeHalt DEF DrainTimeout, Crash, Running
<1>5. ASSUME NEW j \in Jobs, Reenqueue(j) PROVE TypeOK'
  <2>1. ChanType'
    BY <1>5, SendToChannel, ConstantsOK DEF Reenqueue, TypeOK, ChanType, Assumptions
  <2> QED BY <1>5, <2>1 DEF Reenqueue, TypeOK, MainType, RowType, FileType,
             AsmType, WorkerType, OtherType
<1> QED BY <1>1, <1>2, <1>3, <1>4, <1>5 DEF Main

LEMMA TypeAssemble == ASSUME TypeOK, NEW j \in Jobs, Assemble(j) PROVE TypeOK'
<1> USE DEF mainVars, rowVars, fileVars, workerVars, histVars
<1>0. VideoOf[j] \in Videos BY ConstantsOK DEF Assumptions
<1>1. ASSUME AssembleFile(j) PROVE TypeOK'
  <2>1. AsmType' BY <1>1, StateNamesOK DEF AssembleFile, TypeOK, AsmType, StateNames
  <2>2. FileType' BY <1>1, <1>0 DEF AssembleFile, TypeOK, FileType
  <2>3. faults' \in 0..MaxFaults BY <1>1, FaultType DEF AssembleFile, TypeOK
  <2> QED BY <1>1, <2>1, <2>2, <2>3 DEF AssembleFile, TypeOK, MainType, ChanType,
             RowType, WorkerType, OtherType
<1>2. ASSUME CreateJob(j) PROVE TypeOK'
  <2>1. AsmType' BY <1>2, StateNamesOK DEF CreateJob, TypeOK, AsmType, StateNames
  <2>2. RowType' BY <1>2, StateNamesOK DEF CreateJob, TypeOK, RowType, StateNames
  <2>3. faults' \in 0..MaxFaults BY <1>2, FaultType DEF CreateJob, TypeOK
  <2> QED BY <1>2, <2>1, <2>2, <2>3 DEF CreateJob, TypeOK, MainType, ChanType,
             FileType, WorkerType, OtherType
<1>3. ASSUME MarkProcessing(j) PROVE TypeOK'
  <2>1. AsmType' BY <1>3, StateNamesOK DEF MarkProcessing, TypeOK, AsmType, StateNames
  <2>2. RowType'
    BY <1>3, <1>0, SetVideoType, StateNamesOK
       DEF MarkProcessing, TypeOK, RowType, StateNames
  <2>3. faults' \in 0..MaxFaults BY <1>3, FaultType DEF MarkProcessing, TypeOK
  <2> QED BY <1>3, <2>1, <2>2, <2>3 DEF MarkProcessing, TypeOK, MainType, ChanType,
             FileType, WorkerType, OtherType
<1>4. ASSUME Send(j) PROVE TypeOK'
  <2>1. AsmType' BY <1>4, StateNamesOK DEF Send, TypeOK, AsmType, StateNames
  <2>2. ChanType'
    BY <1>4, SendToChannel, ConstantsOK DEF Send, TypeOK, ChanType, Assumptions
  <2> QED BY <1>4, <2>1, <2>2 DEF Send, TypeOK, MainType, RowType, FileType,
             WorkerType, OtherType
<1>5. ASSUME SendPanics(j) PROVE TypeOK' BY <1>5, TypeHalt DEF SendPanics, Running
<1>6. ASSUME AssembleFailed(j) PROVE TypeOK'
  <2>1. AsmType' BY <1>6, StateNamesOK DEF AssembleFailed, TypeOK, AsmType, StateNames
  <2>2. RowType'
    BY <1>6, <1>0, SetVideoType, StateNamesOK
       DEF AssembleFailed, TypeOK, RowType, StateNames
  <2>3. faults' \in 0..MaxFaults BY <1>6, FaultType DEF AssembleFailed, TypeOK
  <2> QED BY <1>6, <2>1, <2>2, <2>3 DEF AssembleFailed, TypeOK, MainType, ChanType,
             FileType, WorkerType, OtherType
<1> QED BY <1>1, <1>2, <1>3, <1>4, <1>5, <1>6 DEF Assemble

LEMMA TypeWorker == ASSUME TypeOK, NEW w \in Workers, Worker(w) PROVE TypeOK'
<1> USE DEF mainVars, rowVars, fileVars, histVars, At, GiveUp, Touch
<1>1. ASSUME Take(w) PROVE TypeOK'
  <2>1. ChanType' BY <1>1, TakeFromChannel, ConstantsOK DEF Take, TypeOK, ChanType, Assumptions
  <2>2. WorkerType'
    BY <1>1, TakeFromChannel, ConstantsOK, StateNamesOK
       DEF Take, TypeOK, ChanType, WorkerType, StateNames, Assumptions
  <2> QED BY <1>1, <2>1, <2>2 DEF Take, TypeOK, MainType, RowType, FileType,
             AsmType, OtherType
<1>2. ASSUME Exit(w) PROVE TypeOK'
  <2>1. WorkerType' BY <1>2, StateNamesOK DEF Exit, TypeOK, WorkerType, StateNames
  <2> QED BY <1>2, <2>1 DEF Exit, TypeOK, MainType, ChanType, RowType, FileType,
             AsmType, OtherType
<1>3. ASSUME Process(w) PROVE TypeOK'
  <2>0. wpc[w] \in Stages /\ wjob[w] \in Jobs /\ VideoOn(w) \in Videos
    BY <1>3, BusyHolds, StateNamesOK DEF TypeOK, Process, BeginJob, LoadInput, Probe,
       EncodeProfile, KillHung, Package, RemoveRaw, Publish, CompleteJob, FailJob,
       FailVideo, StateNames
  <2>1. WorkerType'
    <3>1. CASE Probe(w)
      BY <3>1, <2>0, GotoType, ConstantsOK, StateNamesOK
         DEF Probe, TypeOK, WorkerType, StateNames, Assumptions
    <3>2. CASE EncodeProfile(w)
      BY <3>2, <2>0, GotoType, ConstantsOK, StateNamesOK
         DEF EncodeProfile, TypeOK, WorkerType, StateNames, Assumptions
    <3>3. CASE BeginJob(w) \/ LoadInput(w) \/ KillHung(w) \/ Package(w) \/ RemoveRaw(w)
      BY <3>3, <2>0, GotoType, StateNamesOK
         DEF BeginJob, LoadInput, KillHung, Package, RemoveRaw, TypeOK, StateNames
    <3>4. CASE Publish(w) \/ CompleteJob(w) \/ FailJob(w) \/ FailVideo(w)
      BY <3>4, <2>0, GotoType, DoneType, StateNamesOK
         DEF Publish, CompleteJob, FailJob, FailVideo, TypeOK, StateNames
    <3> QED BY <1>3, <3>1, <3>2, <3>3, <3>4 DEF Process
  <2>2. RowType'
    BY <1>3, <2>0, SetJobType, SetVideoType, StateNamesOK
       DEF Process, BeginJob, LoadInput, Probe, EncodeProfile, KillHung, Package,
           RemoveRaw, Publish, CompleteJob, FailJob, FailVideo, TypeOK, RowType, StateNames
  <2>3. FileType'
    BY <1>3, <2>0
       DEF Process, BeginJob, LoadInput, Probe, EncodeProfile, KillHung, Package,
           RemoveRaw, Publish, CompleteJob, FailJob, FailVideo, TypeOK, FileType
  <2>4. OtherType'
    BY <1>3, <2>0, FaultType
       DEF Process, BeginJob, LoadInput, Probe, EncodeProfile, KillHung, Package,
           RemoveRaw, Publish, CompleteJob, FailJob, FailVideo, TypeOK, OtherType
  <2>5. MainType' /\ ChanType' /\ AsmType'
    BY <1>3 DEF Process, BeginJob, LoadInput, Probe, EncodeProfile, KillHung, Package,
       RemoveRaw, Publish, CompleteJob, FailJob, FailVideo, TypeOK, MainType,
       ChanType, AsmType
  <2> QED BY <2>1, <2>2, <2>3, <2>4, <2>5 DEF TypeOK
<1>4. ASSUME Hang(w) PROVE TypeOK'
  <2>1. WorkerType'
    BY <1>4, GotoType, StateNamesOK DEF Hang, TypeOK, StateNames
  <2> QED BY <1>4, <2>1 DEF Hang, TypeOK, MainType, ChanType, RowType, FileType,
             AsmType, OtherType
<1> QED BY <1>1, <1>2, <1>3, <1>4 DEF Worker

LEMMA TypeOther ==
  ASSUME TypeOK, Watchdog \/ \E v \in Videos : DeleteVideo(v)
  PROVE  TypeOK'
<1> USE DEF mainVars, rowVars, fileVars, workerVars, histVars
<1>1. ASSUME FindStuck PROVE TypeOK'
  BY <1>1 DEF FindStuck, Running, TypeOK, MainType, ChanType, RowType, FileType,
     AsmType, WorkerType, OtherType
<1>2. ASSUME NEW j \in Jobs, Age(j) PROVE TypeOK'
  BY <1>2 DEF Age, TypeOK, MainType, ChanType, RowType, FileType, AsmType,
     WorkerType, OtherType
<1>3. ASSUME NEW j \in Jobs, ResetToQueued(j) PROVE TypeOK'
  <2>1. RowType'
    BY <1>3, SetJobType, StateNamesOK DEF ResetToQueued, TypeOK, RowType, StateNames
  <2>2. OtherType' BY <1>3, FaultType DEF ResetToQueued, TypeOK, OtherType
  <2> QED BY <1>3, <2>1, <2>2 DEF ResetToQueued, TypeOK, MainType, ChanType,
             FileType, AsmType, WorkerType
<1>4. ASSUME NEW v \in Videos, DeleteRows(v) PROVE TypeOK'
  <2>1. RowType' BY <1>4, StateNamesOK DEF DeleteRows, TypeOK, RowType, StateNames
  <2> QED BY <1>4, <2>1 DEF DeleteRows, TypeOK, MainType, ChanType, FileType,
             AsmType, WorkerType, OtherType
<1>5. ASSUME NEW v \in Videos, DeleteFiles(v) PROVE TypeOK'
  BY <1>5 DEF DeleteFiles, TypeOK, MainType, ChanType, RowType, FileType, AsmType,
     WorkerType, OtherType
<1> QED BY <1>1, <1>2, <1>3, <1>4, <1>5 DEF Watchdog, DeleteVideo

LEMMA TypeStutter == ASSUME TypeOK, UNCHANGED vars PROVE TypeOK'
  BY DEF TypeOK, MainType, ChanType, RowType, FileType, AsmType, WorkerType,
     OtherType, vars, mainVars, rowVars, fileVars, workerVars, histVars

\* Every reachable state is well typed; in particular the channel never holds
\* more than its capacity, and a worker holds a job exactly while it is inside
\* Process.
THEOREM TypeCorrect == Spec => []TypeOK
<1>1. TypeOK /\ [Next]_vars => TypeOK'
  BY TypeMain, TypeAssemble, TypeWorker, TypeOther, TypeStutter DEF Next
<1> QED BY TypeInit, <1>1, PTL DEF Spec

-----------------------------------------------------------------------------
(* A job is handed out at most once.                                        *)

LEMMA ChannelSame ==
  ASSUME ch' = ch
  PROVE  /\ \A j \in Jobs : InChannel(j)' <=> InChannel(j)
         /\ OncePerChannel' <=> OncePerChannel
  BY DEF InChannel, OncePerChannel

LEMMA ChannelSend ==
  ASSUME ChanType, OncePerChannel, NEW j \in Jobs, ~InChannel(j), ch' = Append(ch, j)
  PROVE  /\ \A k \in Jobs : InChannel(k)' <=> InChannel(k) \/ k = j
         /\ OncePerChannel'
<1>1. /\ Len(ch) \in Nat /\ Len(ch') = Len(ch) + 1
      /\ \A i \in 1..Len(ch) : ch'[i] = ch[i]
      /\ ch'[Len(ch) + 1] = j
  BY SendToChannel DEF ChanType
<1>2. \A i \in 1..Len(ch') : i \in 1..Len(ch) \/ i = Len(ch) + 1 BY <1>1
<1>3. ASSUME NEW k \in Jobs PROVE InChannel(k)' <=> InChannel(k) \/ k = j
  <2>1. ASSUME InChannel(k) PROVE InChannel(k)'
    BY <1>1, <2>1 DEF InChannel
  <2>2. InChannel(j)' BY <1>1 DEF InChannel
  <2>3. ASSUME InChannel(k)', k # j PROVE InChannel(k)
    BY <1>1, <1>2, <2>3 DEF InChannel
  <2> QED BY <2>1, <2>2, <2>3
<1>4. OncePerChannel' BY <1>1, <1>2 DEF OncePerChannel, InChannel
<1> QED BY <1>3, <1>4

LEMMA ChannelTake ==
  ASSUME ChanType, OncePerChannel, ch # << >>, ch' = Tail(ch)
  PROVE  /\ Head(ch) \in Jobs /\ InChannel(Head(ch))
         /\ \A k \in Jobs : InChannel(k)' <=> InChannel(k) /\ k # Head(ch)
         /\ OncePerChannel'
<1>1. /\ Head(ch) \in Jobs /\ Head(ch) = ch[1] /\ Len(ch) \in Nat \ {0}
      /\ Len(ch') = Len(ch) - 1
      /\ \A i \in 1..Len(ch') : ch'[i] = ch[i + 1]
  BY TakeFromChannel DEF ChanType
<1>2. InChannel(Head(ch)) BY <1>1 DEF InChannel
<1>3. ASSUME NEW k \in Jobs PROVE InChannel(k)' <=> InChannel(k) /\ k # Head(ch)
  <2>1. ASSUME InChannel(k)' PROVE InChannel(k) /\ k # Head(ch)
    <3>1. PICK i \in 1..Len(ch') : ch'[i] = k BY <2>1 DEF InChannel
    <3>2. i + 1 \in 1..Len(ch) /\ ch[i + 1] = k /\ i + 1 # 1 BY <1>1, <3>1
    <3> QED BY <1>1, <3>2 DEF InChannel, OncePerChannel
  <2>2. ASSUME InChannel(k), k # Head(ch) PROVE InChannel(k)'
    <3>1. PICK i \in 1..Len(ch) : ch[i] = k BY <2>2 DEF InChannel
    <3>2. i - 1 \in 1..Len(ch') /\ ch'[i - 1] = k BY <1>1, <2>2, <3>1
    <3> QED BY <3>2 DEF InChannel
  <2> QED BY <2>1, <2>2
<1>4. OncePerChannel' BY <1>1 DEF OncePerChannel
<1> QED BY <1>1, <1>2, <1>3, <1>4

LEMMA DeliveryInit == Init => DeliveryInv
  BY ConstantsOK, StateNamesOK DEF Init, DeliveryInv, SingleDelivery, OncePerChannel,
     OneWorker, InChannel, Held, Waiting, Delivered, InProgress, Assumptions

\* Steps that leave the channel, the list of main and the workers' jobs alone,
\* insert no row and start no assembly.
LEMMA DeliveryFrame ==
  ASSUME DeliveryInv,
         UNCHANGED <<ch, boot, wjob>>, server' = "down" => server = "down",
         \A j \in Jobs : /\ asm'[j] \in InProgress => asm[j] \in InProgress \cup {"idle"}
                         /\ asm'[j] \in {"idle", "raw"} => asm[j] \in {"idle", "raw"}
                         /\ asm'[j] = "idle" => asm[j] = "idle"
                         /\ asm'[j] \in {"idle", "raw"} /\ job[j] = "none" =>
                              job'[j] = "none",
         server = "down" => asm' = asm
  PROVE  DeliveryInv'
<1>1. /\ \A j \in Jobs : InChannel(j)' <=> InChannel(j)
      /\ OncePerChannel' <=> OncePerChannel
  BY ChannelSame
<1>2. \A j \in Jobs : Held(j)' <=> Held(j) BY DEF Held
<1>3. \A j \in Jobs : Delivered(j)' <=> Delivered(j)
  BY <1>1, <1>2 DEF Delivered, Waiting
<1>4. OneWorker' BY DEF DeliveryInv, SingleDelivery, OneWorker
<1>5. SingleDelivery'
  BY <1>1, <1>2, <1>3, <1>4 DEF DeliveryInv, SingleDelivery
<1>6. \A j \in Jobs : asm'[j] \in {"idle", "raw"} => job'[j] = "none" BY DEF DeliveryInv
<1>7. \A j \in Jobs : asm'[j] = "idle" => ~Delivered(j)' BY <1>3 DEF DeliveryInv
<1>8. server' = "down" => /\ ch' = << >> /\ boot' = {}
                          /\ \A w \in Workers : wjob'[w] = NoJob
                          /\ \A j \in Jobs : asm'[j] \notin InProgress
  BY DEF DeliveryInv
<1> QED BY <1>5, <1>6, <1>7, <1>8 DEF DeliveryInv

\* Steps that put a job that is nowhere into the channel or the list of main.
LEMMA DeliveryHalt ==
  ASSUME TypeOK, DeliveryInv, NEW orphans, Halt(orphans) PROVE DeliveryInv'
<1>1. /\ ch' = << >> /\ boot' = {} /\ job' = job
      /\ \A w \in Workers : wjob'[w] = NoJob
      /\ \A j \in Jobs : asm'[j] = IF asm[j] \in InProgress THEN "lost" ELSE asm[j]
  BY DEF Halt, rowVars
<1>2. \A j \in Jobs : ~Held(j)' BY <1>1, ConstantsOK DEF Held, Assumptions
<1>3. \A j \in Jobs : ~InChannel(j)' BY <1>1 DEF InChannel
<1>4. \A j \in Jobs : ~Delivered(j)' BY <1>1, <1>2, <1>3 DEF Delivered, Waiting
<1>5. OncePerChannel' /\ OneWorker' BY <1>1 DEF OncePerChannel, OneWorker
<1>6. \A j \in Jobs : /\ asm'[j] \notin InProgress
                      /\ asm'[j] \in {"idle", "raw"} => asm[j] = "idle"
  BY <1>1 DEF InProgress
<1>7. SingleDelivery' BY <1>1, <1>2, <1>3, <1>4, <1>5 DEF SingleDelivery
<1> QED BY <1>1, <1>4, <1>6, <1>7 DEF DeliveryInv

LEMMA DeliveryMain == ASSUME TypeOK, DeliveryInv, Main PROVE DeliveryInv'
<1>1. ASSUME Start PROVE DeliveryInv'
  <2>1. /\ ch' = ch /\ ch = << >> /\ wjob' = wjob /\ asm' = asm /\ job' = job
        /\ boot' \subseteq {j \in Jobs : job[j] = "queued"} /\ server' # "down"
        /\ \A j \in Jobs : ~Held(j) /\ asm[j] \notin InProgress
    BY <1>1, ConstantsOK DEF Start, Queued, DeliveryInv, rowVars, workerVars, Held, Assumptions
  <2>2. \A j \in Jobs : Held(j)' <=> Held(j) BY <2>1 DEF Held
  <2>3. \A j \in Jobs : ~InChannel(j)' BY <2>1 DEF InChannel
  <2>4. OncePerChannel' /\ OneWorker'
    BY <2>1 DEF DeliveryInv, SingleDelivery, OncePerChannel, OneWorker
  <2> QED BY <2>1, <2>2, <2>3, <2>4
          DEF DeliveryInv, SingleDelivery, Delivered, Waiting
<1>2. ASSUME Serve \/ Signal \/ CancelWorkers \/ CloseQueue PROVE DeliveryInv'
  BY <1>2, DeliveryFrame
     DEF Serve, Signal, CancelWorkers, CloseQueue, rowVars, workerVars
<1>3. ASSUME WorkersDone \/ DrainTimeout \/ Crash PROVE DeliveryInv'
  BY <1>3, DeliveryHalt DEF WorkersDone, DrainTimeout, Crash
<1>4. ASSUME NEW j \in Jobs, Reenqueue(j) PROVE DeliveryInv'
  <2>1. /\ wjob' = wjob /\ asm' = asm /\ job' = job /\ boot' = boot \ {j}
        /\ ch' = Append(ch, j) /\ j \in boot /\ server' # "down"
    BY <1>4 DEF Reenqueue, rowVars, workerVars
  <2>2. \A k \in Jobs : Held(k)' <=> Held(k) BY <2>1 DEF Held
  <2>3. OncePerChannel' /\ \A k \in Jobs : InChannel(k)' <=> InChannel(k) \/ k = j
    BY <2>1, ChannelSend DEF TypeOK, DeliveryInv, SingleDelivery
  <2>4. OneWorker' BY <2>1 DEF DeliveryInv, SingleDelivery, OneWorker
  <2> QED BY <2>1, <2>2, <2>3, <2>4
          DEF DeliveryInv, SingleDelivery, Delivered, Waiting
<1> QED BY <1>1, <1>2, <1>3, <1>4 DEF Main

LEMMA DeliveryAssemble ==
  ASSUME TypeOK, DeliveryInv, NEW j \in Jobs, Assemble(j) PROVE DeliveryInv'
<1> USE DEF mainVars, rowVars, workerVars
<1>1. ASSUME AssembleFile(j) PROVE DeliveryInv'
  <2>1. asm \in [Jobs -> AsmStates] BY DEF TypeOK, AsmType
  <2>2. /\ UNCHANGED <<ch, boot, wjob, server, job>> /\ server # "down"
        /\ asm[j] = "idle" /\ asm'[j] \in {"raw", "failing"}
        /\ \A k \in Jobs \ {j} : asm'[k] = asm[k]
    BY <1>1, <2>1 DEF AssembleFile, Serving
  <2> QED BY <2>2, DeliveryFrame DEF InProgress
<1>2. ASSUME CreateJob(j) PROVE DeliveryInv'
  <2>1. asm \in [Jobs -> AsmStates] /\ job \in [Jobs -> JobStates]
    BY DEF TypeOK, AsmType, RowType
  <2>2. /\ UNCHANGED <<ch, boot, wjob, server>> /\ server # "down"
        /\ asm[j] = "raw" /\ asm'[j] \in {"created", "failing"}
        /\ \A k \in Jobs \ {j} : asm'[k] = asm[k] /\ job'[k] = job[k]
    BY <1>2, <2>1 DEF CreateJob, Alive
  <2> QED BY <2>2, DeliveryFrame DEF InProgress
<1>3. ASSUME MarkProcessing(j) \/ AssembleFailed(j) PROVE DeliveryInv'
  <2>1. asm \in [Jobs -> AsmStates] BY DEF TypeOK, AsmType
  <2>2. /\ UNCHANGED <<ch, boot, wjob, server, job>> /\ server # "down"
        /\ asm[j] \in {"created", "failing"}
        /\ asm'[j] \in {"sending", "failing", "failed"}
        /\ \A k \in Jobs \ {j} : asm'[k] = asm[k]
    BY <1>3, <2>1 DEF MarkProcessing, AssembleFailed, Alive
  <2> QED BY <2>2, DeliveryFrame DEF InProgress
<1>4. ASSUME Send(j) PROVE DeliveryInv'
  <2>1. asm \in [Jobs -> AsmStates] BY DEF TypeOK, AsmType
  <2>2. /\ UNCHANGED <<boot, wjob, server, job>> /\ server # "down"
        /\ ch' = Append(ch, j) /\ asm[j] = "sending" /\ asm'[j] = "done"
        /\ \A k \in Jobs \ {j} : asm'[k] = asm[k]
    BY <1>4, <2>1 DEF Send, Alive
  <2>3. ~Delivered(j) /\ ~InChannel(j)
    BY <2>2 DEF DeliveryInv, SingleDelivery, InProgress, Delivered, Waiting
  <2>4. OncePerChannel' /\ \A k \in Jobs : InChannel(k)' <=> InChannel(k) \/ k = j
    BY <2>2, <2>3, ChannelSend DEF TypeOK, DeliveryInv, SingleDelivery
  <2>5. (\A k \in Jobs : Held(k)' <=> Held(k)) /\ OneWorker'
    BY <2>2 DEF Held, DeliveryInv, SingleDelivery, OneWorker
  <2> QED BY <2>2, <2>3, <2>4, <2>5
          DEF DeliveryInv, SingleDelivery, Delivered, Waiting, InProgress
<1>5. ASSUME SendPanics(j) PROVE DeliveryInv'
  BY <1>5, DeliveryHalt DEF SendPanics
<1>6. AssembleFile(j) \/ CreateJob(j) \/ MarkProcessing(j) \/ Send(j)
      \/ SendPanics(j) \/ AssembleFailed(j)
  BY DEF Assemble
<1> QED BY <1>1, <1>2, <1>3, <1>4, <1>5, <1>6

LEMMA DeliveryWorker ==
  ASSUME TypeOK, DeliveryInv, NEW w \in Workers, Worker(w) PROVE DeliveryInv'
<1> USE DEF mainVars, rowVars
<1>0. /\ wjob \in [Workers -> Jobs \cup {NoJob}] /\ job \in [Jobs -> JobStates]
      /\ wpc[w] = "idle" => wjob[w] = NoJob
      /\ NoJob \notin Jobs
  BY ConstantsOK DEF TypeOK, WorkerType, RowType, Assumptions
<1>1. ASSUME Take(w) PROVE DeliveryInv'
  <2> DEFINE h == Head(ch)
  <2>1. /\ UNCHANGED <<boot, server, job, asm>> /\ server # "down"
        /\ ch # << >> /\ ch' = Tail(ch) /\ wjob[w] = NoJob /\ wjob'[w] = h
        /\ \A x \in Workers \ {w} : wjob'[x] = wjob[x]
    BY <1>0, <1>1 DEF Take, At, Alive
  <2>2. /\ h \in Jobs /\ InChannel(h) /\ OncePerChannel'
        /\ \A k \in Jobs : InChannel(k)' <=> InChannel(k) /\ k # h
    BY <2>1, ChannelTake DEF TypeOK, DeliveryInv, SingleDelivery
  <2>3. ~Held(h) /\ h \notin boot BY <2>2 DEF DeliveryInv, SingleDelivery
  <2>4. \A k \in Jobs : Held(k)' <=> Held(k) \/ k = h
    BY <1>0, <2>1, <2>2 DEF Held
  <2>5. OneWorker'
    BY <1>0, <2>1, <2>2, <2>3 DEF DeliveryInv, SingleDelivery, OneWorker, Held
  <2>6. \A k \in Jobs : Delivered(k)' <=> Delivered(k)
    BY <2>1, <2>2, <2>4 DEF Delivered, Waiting
  <2> HIDE DEF h
  <2> QED BY <2>1, <2>2, <2>3, <2>4, <2>5, <2>6 DEF DeliveryInv, SingleDelivery
<1>2. ASSUME Exit(w) PROVE DeliveryInv'
  BY <1>2, DeliveryFrame DEF Exit, At, Alive
<1>3. ASSUME Process(w) PROVE DeliveryInv'
  <2>1. /\ UNCHANGED <<ch, boot, server, asm>> /\ server # "down"
        /\ \A k \in Jobs : job[k] = "none" => job'[k] = "none"
        /\ wjob' = wjob \/ Done(w)
    BY <1>0, <1>3 DEF Process, BeginJob, LoadInput, Probe, EncodeProfile, KillHung,
       Package, RemoveRaw, Publish, CompleteJob, FailJob, FailVideo, At, Alive, Goto, GiveUp,
       SetJob
  <2>2. CASE wjob' = wjob BY <2>1, <2>2, DeliveryFrame
  <2>3. CASE Done(w)
    <3>1. wjob'[w] = NoJob /\ \A x \in Workers \ {w} : wjob'[x] = wjob[x]
      BY <1>0, <2>3 DEF Done
    <3>2. \A k \in Jobs : Held(k)' => Held(k) BY <1>0, <3>1 DEF Held
    <3>3. OneWorker' BY <1>0, <3>1 DEF DeliveryInv, SingleDelivery, OneWorker
    <3>4. OncePerChannel' /\ \A k \in Jobs : InChannel(k)' <=> InChannel(k)
      BY <2>1, ChannelSame DEF DeliveryInv, SingleDelivery
    <3> QED BY <2>1, <3>2, <3>3, <3>4
            DEF DeliveryInv, SingleDelivery, Delivered, Waiting
  <2> QED BY <2>1, <2>2, <2>3
<1>4. ASSUME Hang(w) PROVE DeliveryInv'
  BY <1>4, DeliveryFrame DEF Hang, Goto
<1> QED BY <1>1, <1>2, <1>3, <1>4 DEF Worker

LEMMA DeliveryOther ==
  ASSUME TypeOK, DeliveryInv, Watchdog \/ \E v \in Videos : DeleteVideo(v)
  PROVE  DeliveryInv'
<1> USE DEF mainVars, rowVars, workerVars
<1>0. job \in [Jobs -> JobStates] BY DEF TypeOK, RowType
<1>1. ASSUME FindStuck PROVE DeliveryInv' BY <1>1, DeliveryFrame DEF FindStuck
<1>2. ASSUME NEW j \in Jobs, Age(j) PROVE DeliveryInv' BY <1>2, DeliveryFrame DEF Age
<1>3. ASSUME NEW j \in Jobs, ResetToQueued(j) PROVE DeliveryInv'
  <2>1. /\ UNCHANGED <<ch, boot, wjob, server, asm>>
        /\ \A k \in Jobs : job[k] = "none" => job'[k] = "none"
    BY <1>0, <1>3 DEF ResetToQueued, SetJob
  <2> QED BY <2>1, DeliveryFrame
<1>4. ASSUME NEW v \in Videos, DeleteRows(v) PROVE DeliveryInv'
  <2>1. /\ UNCHANGED <<ch, boot, wjob, server, asm>>
        /\ \A k \in Jobs : job[k] = "none" => job'[k] = "none"
    BY <1>0, <1>4 DEF DeleteRows
  <2> QED BY <2>1, DeliveryFrame
<1>5. ASSUME NEW v \in Videos, DeleteFiles(v) PROVE DeliveryInv'
  BY <1>5, DeliveryFrame DEF DeleteFiles
<1> QED BY <1>1, <1>2, <1>3, <1>4, <1>5 DEF Watchdog, DeleteVideo

LEMMA DeliveryStutter == ASSUME DeliveryInv, UNCHANGED vars PROVE DeliveryInv'
  BY DeliveryFrame DEF vars, mainVars, rowVars, workerVars

LEMMA DeliveryInvariant == Spec => [](TypeOK /\ DeliveryInv)
<1>1. TypeOK /\ DeliveryInv /\ [Next]_vars => DeliveryInv'
  BY DeliveryMain, DeliveryAssemble, DeliveryWorker, DeliveryOther, DeliveryStutter
     DEF Next
<1> QED BY DeliveryInit, TypeCorrect, <1>1, PTL DEF Spec

\* In one run of the server a job is never handed out twice: not twice in the
\* channel, not to two workers, and not while its assembly still has to send it,
\* whatever the watchdog resets and however often the server restarts.
THEOREM HandedOutOnce == Spec => []SingleDelivery
  BY DeliveryInvariant, PTL DEF DeliveryInv
-----------------------------------------------------------------------------
(* Where the queued and the running rows come from.                         *)

LEMMA RecordInit == Init => RecordInv
  BY StateNamesOK DEF Init, RecordInv, QueuedIsDelivered, RunningIsHeld, Serving

LEMMA RecordHalt ==
  ASSUME RecordInv, NEW orphans, Halt(orphans),
         \A j \in Jobs : job[j] = "running" => j \in abandoned \cup orphans
  PROVE  RecordInv'
<1>1. /\ server' = "down" /\ job' = job /\ abandoned' = abandoned \cup orphans
      /\ \A w \in Workers : wpc'[w] = "idle"
  BY DEF Halt, rowVars
<1> QED BY <1>1 DEF RecordInv, QueuedIsDelivered, RunningIsHeld, Serving

\* Steps after which every row has the status it had, or one that needs no
\* account, and after which nothing that a row was accounted for by is gone.
LEMMA RecordFrame ==
  ASSUME RecordInv,
         server' = server \/ (server = "up" /\ server' = "stopping")
           \/ (server = "boot" /\ server' = "up")
           \/ server' \in {"down", "cancelled", "draining"},
         \A j \in Jobs : /\ job'[j] \in {"queued", "running"} => job'[j] = job[j]
                         /\ Delivered(j) => Delivered(j)'
                         /\ Held(j) => Held(j)'
                         /\ asm[j] \in {"created", "sending", "failing", "failed"} =>
                              asm'[j] \in {"created", "sending", "failing", "failed"}
                              \/ Delivered(j)',
         resets \subseteq resets', abandoned \subseteq abandoned',
         unlisted \subseteq unlisted',
         \A w \in Workers : wpc'[w] = "failvideo" =>
           /\ wpc[w] = "failvideo" /\ wjob'[w] = wjob[w] /\ wjob[w] \in Jobs
  PROVE  RecordInv'
<1>1. ASSUME NEW j \in Jobs, Expected(j) PROVE Expected(j)'
  BY <1>1 DEF Expected
<1>2. QueuedIsDelivered' BY <1>1 DEF RecordInv, QueuedIsDelivered, Serving
<1>3. RunningIsHeld' BY DEF RecordInv, RunningIsHeld
<1> QED BY <1>2, <1>3 DEF RecordInv

LEMMA RecordMain ==
  ASSUME TypeOK, DeliveryInv, RecordInv, Main PROVE RecordInv'
<1> USE DEF rowVars, workerVars, histVars
<1>0. \A w \in Workers : wpc[w] = "failvideo" => wjob[w] \in Jobs
  BY BusyHolds, StateNamesOK DEF TypeOK, StateNames
<1>1. ASSUME Start PROVE RecordInv'
  <2>1. /\ {j \in Jobs : job[j] = "queued"} \subseteq boot' \cup unlisted'
        /\ UNCHANGED <<job, wpc, wjob, resets, abandoned>>
    BY <1>1 DEF Start, Queued
  <2>2. QueuedIsDelivered'
    BY <2>1 DEF QueuedIsDelivered, Expected, Delivered, Waiting
  <2>3. RunningIsHeld' BY <2>1 DEF RecordInv, RunningIsHeld, Held
  <2> QED BY <2>1, <2>2, <2>3 DEF RecordInv
<1>2. ASSUME Serve \/ Signal \/ CancelWorkers \/ CloseQueue PROVE RecordInv'
  <2>1. /\ UNCHANGED <<ch, job, wpc, wjob, asm, boot, resets, abandoned, unlisted>>
        /\ \/ server = "up" /\ server' = "stopping"
           \/ server = "boot" /\ server' = "up"
           \/ server' \in {"cancelled", "draining"}
    BY <1>2 DEF Serve, Signal, CancelWorkers, CloseQueue
  <2>2. \A j \in Jobs : (Delivered(j) <=> Delivered(j)') /\ (Held(j) <=> Held(j)')
    BY <2>1, ChannelSame DEF Delivered, Waiting, Held
  <2> QED BY <1>0, <2>1, <2>2, RecordFrame
<1>3. ASSUME WorkersDone PROVE RecordInv'
  <2>1. \A w \in Workers : wjob[w] = NoJob
    BY <1>3 DEF WorkersDone, TypeOK, WorkerType
  <2>2. \A j \in Jobs : ~Held(j) BY <2>1, ConstantsOK DEF Held, Assumptions
  <2> QED BY <1>3, <2>2, RecordHalt DEF WorkersDone, RecordInv, RunningIsHeld
<1>4. ASSUME DrainTimeout \/ Crash PROVE RecordInv'
  BY <1>4, RecordHalt DEF DrainTimeout, Crash, Running
<1>5. ASSUME NEW j \in Jobs, Reenqueue(j) PROVE RecordInv'
  <2>1. /\ UNCHANGED <<server, job, wpc, wjob, asm, resets, abandoned, unlisted>>
        /\ ch' = Append(ch, j) /\ j \in boot /\ boot' = boot \ {j}
    BY <1>5 DEF Reenqueue
  <2>2. \A k \in Jobs : InChannel(k)' <=> InChannel(k) \/ k = j
    BY <2>1, ChannelSend DEF TypeOK, DeliveryInv, SingleDelivery
  <2>3. \A k \in Jobs : (Delivered(k) => Delivered(k)') /\ (Held(k) <=> Held(k)')
    BY <2>1, <2>2 DEF Delivered, Waiting, Held
  <2> QED BY <1>0, <2>1, <2>3, RecordFrame
<1> QED BY <1>1, <1>2, <1>3, <1>4, <1>5 DEF Main

LEMMA RecordAssemble ==
  ASSUME TypeOK, DeliveryInv, RecordInv, NEW j \in Jobs, Assemble(j)
  PROVE  RecordInv'
<1> USE DEF mainVars, rowVars, workerVars, histVars
<1>0. /\ \A w \in Workers : wpc[w] = "failvideo" => wjob[w] \in Jobs
      /\ asm \in [Jobs -> AsmStates] /\ job \in [Jobs -> JobStates]
  BY BusyHolds, StateNamesOK DEF TypeOK, StateNames, AsmType, RowType
<1>1. ASSUME AssembleFile(j) \/ MarkProcessing(j) \/ AssembleFailed(j)
      PROVE  RecordInv'
  <2>1. /\ UNCHANGED <<server, job, wpc, wjob, ch, boot, resets, abandoned, unlisted>>
        /\ \A k \in Jobs : asm[k] \in {"created", "sending", "failing", "failed"} =>
             asm'[k] \in {"created", "sending", "failing", "failed"}
    BY <1>0, <1>1 DEF AssembleFile, MarkProcessing, AssembleFailed
  <2>2. \A k \in Jobs : (Delivered(k) <=> Delivered(k)') /\ (Held(k) <=> Held(k)')
    BY <2>1, ChannelSame DEF Delivered, Waiting, Held
  <2> QED BY <1>0, <2>1, <2>2, RecordFrame
<1>2. ASSUME CreateJob(j) PROVE RecordInv'
  <2>1. /\ UNCHANGED <<server, wpc, wjob, ch, boot, resets, abandoned, unlisted>>
        /\ asm[j] = "raw" /\ asm'[j] \in {"created", "failing"}
        /\ job' = job \/ job'[j] = "queued"
        /\ \A k \in Jobs \ {j} : asm'[k] = asm[k] /\ job'[k] = job[k]
    BY <1>0, <1>2 DEF CreateJob
  <2>2. \A k \in Jobs : (Delivered(k) <=> Delivered(k)') /\ (Held(k) <=> Held(k)')
    BY <2>1, ChannelSame DEF Delivered, Waiting, Held
  <2>3. ~Delivered(j) BY <2>1 DEF DeliveryInv, SingleDelivery, InProgress
  <2>4. \A w \in Workers : wjob[w] # j BY <2>3 DEF Delivered, Held
  <2>5. QueuedIsDelivered'
    BY <2>1, <2>2 DEF RecordInv, QueuedIsDelivered, Expected, Serving
  <2>6. RunningIsHeld' BY <2>1, <2>2 DEF RecordInv, RunningIsHeld
  <2> QED BY <1>0, <2>1, <2>4, <2>5, <2>6 DEF RecordInv
<1>3. ASSUME Send(j) PROVE RecordInv'
  <2>1. /\ UNCHANGED <<server, job, wpc, wjob, boot, resets, abandoned, unlisted>>
        /\ ch' = Append(ch, j) /\ asm[j] = "sending"
        /\ \A k \in Jobs \ {j} : asm'[k] = asm[k]
    BY <1>0, <1>3 DEF Send
  <2>2. ~InChannel(j)
    BY <2>1 DEF DeliveryInv, SingleDelivery, InProgress, Delivered, Waiting
  <2>3. \A k \in Jobs : InChannel(k)' <=> InChannel(k) \/ k = j
    BY <2>1, <2>2, ChannelSend DEF TypeOK, DeliveryInv, SingleDelivery
  <2>4. \A k \in Jobs : /\ Delivered(k) => Delivered(k)'
                        /\ Held(k) <=> Held(k)'
    BY <2>1, <2>3 DEF Delivered, Waiting, Held
  <2>5. Delivered(j)' BY <2>3 DEF Delivered, Waiting
  <2> QED BY <1>0, <2>1, <2>4, <2>5, RecordFrame
<1>4. ASSUME SendPanics(j) PROVE RecordInv'
  BY <1>4, RecordHalt DEF SendPanics, Running
<1> QED BY <1>1, <1>2, <1>3, <1>4 DEF Assemble

LEMMA RecordWorker ==
  ASSUME TypeOK, DeliveryInv, RecordInv, NEW w \in Workers, Worker(w)
  PROVE  RecordInv'
<1> USE DEF mainVars, rowVars, histVars, At
<1>0. /\ \A x \in Workers : wpc[x] = "failvideo" => wjob[x] \in Jobs
      /\ wpc \in [Workers -> WorkerStates] /\ wjob \in [Workers -> Jobs \cup {NoJob}]
      /\ job \in [Jobs -> JobStates] /\ NoJob \notin Jobs
      /\ wpc[w] = "idle" => wjob[w] = NoJob
      /\ wpc[w] \in Stages => wjob[w] \in Jobs
      /\ \A x \in Workers \ {w} : wjob[w] \in Jobs => wjob[x] # wjob[w]
  BY BusyHolds, StateNamesOK, ConstantsOK DEF TypeOK, StateNames, WorkerType, RowType,
     DeliveryInv, SingleDelivery, OneWorker, Assumptions
<1>1. ASSUME Take(w) PROVE RecordInv'
  <2>1. /\ UNCHANGED <<server, job, asm, boot, resets, abandoned, unlisted>>
        /\ ch # << >> /\ ch' = Tail(ch) /\ wjob[w] = NoJob /\ wjob'[w] = Head(ch)
        /\ \A x \in Workers \ {w} : wjob'[x] = wjob[x] /\ wpc'[x] = wpc[x]
        /\ wpc'[w] = "got"
    BY <1>0, <1>1 DEF Take
  <2>2. /\ Head(ch) \in Jobs
        /\ \A k \in Jobs : InChannel(k)' <=> InChannel(k) /\ k # Head(ch)
    BY <2>1, ChannelTake DEF TypeOK, DeliveryInv, SingleDelivery
  <2>3. \A k \in Jobs : Held(k)' <=> Held(k) \/ k = Head(ch)
    BY <1>0, <2>1, <2>2 DEF Held
  <2>4. \A k \in Jobs : Delivered(k) => Delivered(k)'
    BY <2>1, <2>2, <2>3 DEF Delivered, Waiting
  <2> QED BY <1>0, <2>1, <2>3, <2>4, RecordFrame
<1>2. ASSUME Exit(w) PROVE RecordInv'
  <2>1. /\ UNCHANGED <<server, job, asm, ch, wjob, boot, resets, abandoned, unlisted>>
        /\ \A x \in Workers : wpc'[x] = "failvideo" => wpc[x] = "failvideo"
    BY <1>0, <1>2 DEF Exit
  <2>2. \A k \in Jobs : (Delivered(k) <=> Delivered(k)') /\ (Held(k) <=> Held(k)')
    BY <2>1, ChannelSame DEF Delivered, Waiting, Held
  <2> QED BY <1>0, <2>1, <2>2, RecordFrame
<1>3. ASSUME Process(w) PROVE RecordInv'
  <2>0. wjob[w] \in Jobs /\ UNCHANGED <<server, asm, ch, boot, resets, unlisted>>
    BY <1>0, <1>3, StateNamesOK DEF Process, BeginJob, LoadInput, Probe, EncodeProfile,
       KillHung, Package, RemoveRaw, Publish, CompleteJob, FailJob, FailVideo, StateNames
  <2>a. ASSUME wjob' = wjob
        PROVE  \A k \in Jobs : (Delivered(k) <=> Delivered(k)')
                               /\ (Held(k) <=> Held(k)')
    BY <2>0, <2>a, ChannelSame DEF Delivered, Waiting, Held
  <2>b. Held(wjob[w]) /\ Delivered(wjob[w]) BY <2>0 DEF Delivered, Held
  <2>1. CASE LoadInput(w) \/ Probe(w) \/ EncodeProfile(w) \/ KillHung(w)
             \/ Package(w) \/ RemoveRaw(w) \/ Publish(w)
    <3>1. /\ UNCHANGED <<job, wjob, abandoned>>
          /\ \A x \in Workers : wpc'[x] = "failvideo" => wpc[x] = "failvideo"
      BY <1>0, <2>1 DEF LoadInput, Probe, EncodeProfile, KillHung, Package, RemoveRaw,
         Publish, Goto, GiveUp
    <3> QED BY <1>0, <2>0, <2>a, <3>1, RecordFrame
  <2>2. CASE BeginJob(w)
    <3>a. /\ wjob' = wjob
          /\ \A k \in Jobs : k \in abandoned /\ k # wjob[w] => k \in abandoned'
      BY <2>2 DEF BeginJob, Goto, GiveUp
    <3>b. \A x \in Workers : wpc'[x] = "failvideo" => wpc[x] = "failvideo" /\ x # w
      BY <1>0, <2>2 DEF BeginJob, Goto, GiveUp
    <3>c. \A k \in Jobs : job'[k] = job[k] \/ (k = wjob[w] /\ job'[k] = "running")
      BY <1>0, <2>0, <2>2 DEF BeginJob, SetJob
    <3>d. Expected(wjob[w])' BY <2>0, <2>a, <2>b, <3>a DEF Expected
    <3>e. \A k \in Jobs : Expected(k) /\ k # wjob[w] => Expected(k)'
      BY <2>0, <2>a, <3>a DEF Expected
    <3>2. QueuedIsDelivered'
      BY <2>0, <3>a, <3>c, <3>d, <3>e DEF RecordInv, QueuedIsDelivered, Serving
    <3>3. RunningIsHeld' BY <2>a, <2>b, <3>a, <3>b, <3>c DEF RecordInv, RunningIsHeld
    <3> QED BY <1>0, <2>0, <3>a, <3>b, <3>c, <3>2, <3>3 DEF RecordInv
  <2>3. CASE CompleteJob(w)
    <3>1. CASE wpc' = [wpc EXCEPT ![w] = "failing"] /\ UNCHANGED <<job, wjob, abandoned>>
      BY <1>0, <2>0, <2>a, <3>1, RecordFrame
    <3>2. CASE SetJob(wjob[w], "completed") /\ Done(w) /\ UNCHANGED abandoned
      <4>1. /\ \A x \in Workers \ {w} : wjob'[x] = wjob[x] /\ wpc'[x] = wpc[x]
            /\ wpc'[w] = "idle" /\ wjob'[w] = NoJob
            /\ job'[wjob[w]] \in {"none", "completed"}
            /\ \A k \in Jobs \ {wjob[w]} : job'[k] = job[k]
        BY <1>0, <2>0, <3>2 DEF SetJob, Done
      <4>2. \A k \in Jobs \ {wjob[w]} : Held(k)' <=> Held(k)
        BY <1>0, <4>1 DEF Held
      <4>3. \A k \in Jobs \ {wjob[w]} : Delivered(k)' <=> Delivered(k)
        BY <2>0, <4>2, ChannelSame DEF Delivered, Waiting
      <4>4. QueuedIsDelivered'
        BY <2>0, <3>2, <4>1, <4>3 DEF RecordInv, QueuedIsDelivered, Expected, Serving
      <4>5. RunningIsHeld' BY <3>2, <4>1, <4>2 DEF RecordInv, RunningIsHeld
      <4> QED BY <1>0, <2>0, <3>2, <4>1, <4>4, <4>5 DEF RecordInv
    <3> QED BY <2>3, <3>1, <3>2 DEF CompleteJob, Goto, GiveUp
  <2>4. CASE FailJob(w)
    <3>a. wjob' = wjob /\ \A x \in Workers \ {w} : wpc'[x] = wpc[x]
      BY <1>0, <2>4 DEF FailJob, Goto
    <3>b. abandoned \subseteq abandoned' BY <2>4 DEF FailJob
    <3>c. /\ \A k \in Jobs \ {wjob[w]} : job'[k] = job[k]
          /\ \/ job'[wjob[w]] \in {"none", "failed"}
             \/ job' = job /\ wjob[w] \in abandoned'
      BY <1>0, <2>0, <2>4 DEF FailJob, SetJob
    <3>2. QueuedIsDelivered'
      BY <2>0, <2>a, <3>a, <3>b, <3>c DEF RecordInv, QueuedIsDelivered, Expected, Serving
    <3>3. RunningIsHeld' BY <2>a, <3>a, <3>b, <3>c DEF RecordInv, RunningIsHeld
    <3>4. \A x \in Workers \ {w} : wpc'[x] = "failvideo" => job'[wjob[x]] = job[wjob[x]]
      BY <1>0, <2>0, <3>a, <3>b, <3>c
    <3> QED BY <1>0, <2>0, <3>a, <3>b, <3>c, <3>2, <3>3, <3>4 DEF RecordInv
  <2>5. CASE FailVideo(w)
    <3>1. /\ \A x \in Workers \ {w} : wjob'[x] = wjob[x] /\ wpc'[x] = wpc[x]
          /\ wpc'[w] = "idle" /\ wjob'[w] = NoJob /\ UNCHANGED <<job, abandoned>>
          /\ wpc[w] = "failvideo"
      BY <1>0, <2>5 DEF FailVideo, Done
    <3>2. \A k \in Jobs \ {wjob[w]} : Held(k)' <=> Held(k)
      BY <1>0, <3>1 DEF Held
    <3>3. \A k \in Jobs \ {wjob[w]} : Delivered(k)' <=> Delivered(k)
      BY <2>0, <3>2, ChannelSame DEF Delivered, Waiting
    <3>4. /\ job[wjob[w]] = "queued" => wjob[w] \in resets \cup abandoned
          /\ job[wjob[w]] = "running" => wjob[w] \in abandoned
      BY <3>1 DEF RecordInv
    <3>5. QueuedIsDelivered'
      BY <2>0, <3>1, <3>3, <3>4 DEF RecordInv, QueuedIsDelivered, Expected, Serving
    <3>6. RunningIsHeld' BY <3>1, <3>2, <3>4 DEF RecordInv, RunningIsHeld
    <3> QED BY <1>0, <2>0, <3>1, <3>5, <3>6 DEF RecordInv
  <2> QED BY <1>3, <2>1, <2>2, <2>3, <2>4, <2>5 DEF Process
<1>4. ASSUME Hang(w) PROVE RecordInv'
  <2>1. /\ UNCHANGED <<server, job, asm, ch, wjob, boot, resets, abandoned, unlisted>>
        /\ \A x \in Workers : wpc'[x] = "failvideo" => wpc[x] = "failvideo"
    BY <1>0, <1>4 DEF Hang, Goto
  <2>2. \A k \in Jobs : (Delivered(k) <=> Delivered(k)') /\ (Held(k) <=> Held(k)')
    BY <2>1, ChannelSame DEF Delivered, Waiting, Held
  <2> QED BY <1>0, <2>1, <2>2, RecordFrame
<1> QED BY <1>1, <1>2, <1>3, <1>4 DEF Worker

LEMMA RecordOther ==
  ASSUME TypeOK, RecordInv, Watchdog \/ \E v \in Videos : DeleteVideo(v)
  PROVE  RecordInv'
<1> USE DEF mainVars, rowVars, workerVars, histVars
<1>0. /\ \A w \in Workers : wpc[w] = "failvideo" => wjob[w] \in Jobs
      /\ job \in [Jobs -> JobStates]
  BY BusyHolds, StateNamesOK DEF TypeOK, StateNames, RowType
<1>a. ASSUME UNCHANGED <<ch, boot, wjob>>
      PROVE  \A k \in Jobs : (Delivered(k) <=> Delivered(k)') /\ (Held(k) <=> Held(k)')
  BY <1>a, ChannelSame DEF Delivered, Waiting, Held
<1>1. ASSUME FindStuck PROVE RecordInv'
  BY <1>0, <1>a, <1>1, RecordFrame DEF FindStuck
<1>2. ASSUME NEW j \in Jobs, Age(j) PROVE RecordInv'
  BY <1>0, <1>a, <1>2, RecordFrame DEF Age
<1>3. ASSUME NEW j \in Jobs, ResetToQueued(j) PROVE RecordInv'
  <2>a. /\ UNCHANGED <<server, ch, boot, wjob, wpc, asm, abandoned, unlisted>>
        /\ resets \subseteq resets'
    BY <1>3 DEF ResetToQueued
  <2>b. \A k \in Jobs : \/ job'[k] = job[k]
                        \/ k = j /\ job'[k] = "queued" /\ j \in resets'
    BY <1>0, <1>3 DEF ResetToQueued, SetJob
  <2>2. QueuedIsDelivered'
    BY <1>a, <2>a, <2>b DEF RecordInv, QueuedIsDelivered, Expected, Serving
  <2>3. RunningIsHeld' BY <1>a, <2>a, <2>b DEF RecordInv, RunningIsHeld
  <2> QED BY <1>0, <2>a, <2>b, <2>2, <2>3 DEF RecordInv
<1>4. ASSUME NEW v \in Videos, DeleteRows(v) PROVE RecordInv'
  <2>1. /\ UNCHANGED <<server, ch, boot, wjob, wpc, asm, abandoned, resets, unlisted>>
        /\ \A k \in Jobs : job'[k] = job[k] \/ job'[k] = "none"
    BY <1>0, <1>4 DEF DeleteRows
  <2> QED BY <1>0, <1>a, <2>1, RecordFrame
<1>5. ASSUME NEW v \in Videos, DeleteFiles(v) PROVE RecordInv'
  BY <1>0, <1>a, <1>5, RecordFrame DEF DeleteFiles
<1> QED BY <1>1, <1>2, <1>3, <1>4, <1>5 DEF Watchdog, DeleteVideo

LEMMA RecordStutter == ASSUME TypeOK, RecordInv, UNCHANGED vars PROVE RecordInv'
<1>1. UNCHANGED <<server, ch, boot, job, wjob, wpc, asm, abandoned, resets, unlisted>>
  BY DEF vars, mainVars, rowVars, workerVars, histVars
<1>2. \A k \in Jobs : (Delivered(k) <=> Delivered(k)') /\ (Held(k) <=> Held(k)')
  BY <1>1, ChannelSame DEF Delivered, Waiting, Held
<1>3. \A w \in Workers : wpc[w] = "failvideo" => wjob[w] \in Jobs
  BY BusyHolds, StateNamesOK DEF TypeOK, StateNames
<1> QED BY <1>1, <1>2, <1>3, RecordFrame

LEMMA RecordInvariant == Spec => []RecordInv
<1>1. TypeOK /\ DeliveryInv /\ RecordInv /\ [Next]_vars => RecordInv'
  BY RecordMain, RecordAssemble, RecordWorker, RecordOther, RecordStutter DEF Next
<1> QED BY RecordInit, DeliveryInvariant, <1>1, PTL DEF Spec

\* A queued row that no worker will see while the server serves can only be one
\* the watchdog reset in this run of the server, one whose assembly failed before
\* its send, one whose start and failure could not be written, or one that was
\* queued when the ListQueued of this start failed: the queue itself strands
\* nothing.
THEOREM NothingStranded == Spec => []QueuedIsDelivered
  BY RecordInvariant, PTL DEF RecordInv

\* A worker never leaves its job running, and a shutdown that waited for the
\* workers leaves no running row that an earlier end of the process did not.
THEOREM NoAbandonedRow == Spec => []RunningIsHeld
  BY RecordInvariant, PTL DEF RecordInv

-----------------------------------------------------------------------------
(* The copy of an upload, when every upload is assembled once.              *)

LEMMA CopyInit == Init => CopyInv
  BY ConstantsOK, StateNamesOK DEF Init, CopyInv, NeverWithoutCopy, ReadyIsComplete,
     CompletedIsReady, FilesAndRows, StillAhead, StageHasFiles, Delivered, Waiting, Held,
     InChannel, InProgress, Assumptions

\* When every upload is assembled once, the job of a busy worker is the only one
\* of its video, and no other worker or assembly is busy with either.
LEMMA SoleOwner ==
  ASSUME OneAssembly, TypeOK, DeliveryInv, NEW w \in Workers, wpc[w] \in Stages
  PROVE  /\ wjob[w] \in Jobs /\ VideoOn(w) \in Videos
         /\ \A j \in Jobs \ {wjob[w]} : VideoOf[j] # VideoOn(w)
         /\ \A x \in Workers \ {w} : wpc[x] \in Stages =>
              wjob[x] \in Jobs \ {wjob[w]} /\ VideoOn(x) # VideoOn(w)
         /\ asm[wjob[w]] \notin InProgress \cup {"idle"}
         /\ Delivered(wjob[w])
<1>1. wjob[w] \in Jobs /\ VideoOn(w) \in Videos /\ NoJob \notin Jobs
  BY BusyHolds, ConstantsOK DEF TypeOK, Assumptions
<1>2. \A j \in Jobs \ {wjob[w]} : VideoOf[j] # VideoOn(w)
  BY <1>1 DEF OneAssembly, VideoOn
<1>3. ASSUME NEW x \in Workers \ {w}, wpc[x] \in Stages
      PROVE  wjob[x] \in Jobs \ {wjob[w]} /\ VideoOn(x) # VideoOn(w)
  <2>1. wjob[x] \in Jobs BY <1>3, BusyHolds DEF TypeOK
  <2>2. wjob[x] # wjob[w]
    BY <1>1, <1>3, <2>1 DEF DeliveryInv, SingleDelivery, OneWorker
  <2> QED BY <1>2, <2>1, <2>2 DEF VideoOn
<1>4. Delivered(wjob[w]) BY <1>1 DEF Delivered, Held
<1>5. asm[wjob[w]] \notin InProgress \cup {"idle"}
  BY <1>1, <1>4 DEF DeliveryInv, SingleDelivery
<1> QED BY <1>1, <1>2, <1>3, <1>4, <1>5

\* The end of the process loses what is in memory and no file or row.
LEMMA CopyHalt == ASSUME TypeOK, CopyInv, NEW orphans, Halt(orphans) PROVE CopyInv'
<1>1. /\ UNCHANGED <<job, video, raw, hls, leftover>> /\ ch' = << >> /\ boot' = {}
      /\ wpc' = [w \in Workers |-> "idle"] /\ wjob' = [w \in Workers |-> NoJob]
      /\ asm' = [j \in Jobs |-> IF asm[j] \in InProgress THEN "lost" ELSE asm[j]]
      /\ del' = [v \in Videos |-> IF del[v] = "rows" THEN "lost" ELSE del[v]]
  BY DEF Halt, rowVars, fileVars
<1>2. \A j \in Jobs : ~Delivered(j)'
  BY <1>1, ConstantsOK DEF Delivered, Waiting, InChannel, Held, Assumptions
<1>3. \A j \in Jobs : asm'[j] \notin InProgress /\ (asm'[j] = asm[j] \/ asm'[j] = "lost")
  BY <1>1 DEF InProgress
<1>4. StillAhead' BY <1>1, <1>2, <1>3 DEF CopyInv, StillAhead
<1>5. FilesAndRows' BY <1>1 DEF CopyInv, FilesAndRows
<1>6. NeverWithoutCopy' BY <1>1, <1>3 DEF CopyInv, NeverWithoutCopy
<1>7. (\A w \in Workers : StageHasFiles(w))' BY <1>1 DEF StageHasFiles
<1> QED BY <1>1, <1>4, <1>5, <1>6, <1>7 DEF CopyInv, ReadyIsComplete, CompletedIsReady

\* Steps that leave the files and the videos alone and touch no row of a job
\* that is completed.
LEMMA CopyFrame ==
  ASSUME CopyInv, UNCHANGED <<video, raw, hls, leftover, del>>,
         \A j \in Jobs : /\ job'[j] # job[j] => job'[j] # "completed" /\ job[j] # "none"
                         /\ Delivered(j)' => Delivered(j) \/ job'[j] # "completed"
                         /\ asm'[j] # asm[j] => asm'[j] \notin InProgress \cup {"idle"},
         \A w \in Workers : \/ wpc'[w] = wpc[w] /\ wjob'[w] = wjob[w]
                            \/ wpc'[w] \in {"idle", "exited", "got", "load", "hung", "failing"}
  PROVE  CopyInv'
<1>1. StillAhead' BY DEF CopyInv, StillAhead, InProgress
<1>2. FilesAndRows' BY DEF CopyInv, FilesAndRows
<1>3. NeverWithoutCopy' BY DEF CopyInv, NeverWithoutCopy, InProgress
<1>4. ASSUME NEW w \in Workers PROVE StageHasFiles(w)'
  BY DEF CopyInv, StageHasFiles, VideoOn
<1> QED BY <1>1, <1>2, <1>3, <1>4 DEF CopyInv, ReadyIsComplete, CompletedIsReady

LEMMA CopyMain == ASSUME TypeOK, DeliveryInv, CopyInv, Main PROVE CopyInv'
<1> USE DEF mainVars, rowVars, fileVars, workerVars, histVars
<1>1. ASSUME Start PROVE CopyInv'
  <2>1. UNCHANGED <<video, raw, hls, leftover, del, job, asm, wpc, wjob, ch>>
        /\ boot' \subseteq {j \in Jobs : job[j] = "queued"}
    BY <1>1 DEF Start, Queued
  <2>2. \A j \in Jobs : Delivered(j)' => Delivered(j) \/ job'[j] # "completed"
    BY <2>1, ChannelSame DEF Delivered, Waiting, Held
  <2> QED BY <2>1, <2>2, CopyFrame
<1>2. ASSUME Serve \/ Signal \/ CancelWorkers \/ CloseQueue PROVE CopyInv'
  <2>1. UNCHANGED <<video, raw, hls, leftover, del, job, asm, wpc, wjob, ch, boot>>
    BY <1>2 DEF Serve, Signal, CancelWorkers, CloseQueue
  <2>2. \A j \in Jobs : Delivered(j)' => Delivered(j)
    BY <2>1, ChannelSame DEF Delivered, Waiting, Held
  <2> QED BY <2>1, <2>2, CopyFrame
<1>3. ASSUME WorkersDone \/ DrainTimeout \/ Crash PROVE CopyInv'
  BY <1>3, CopyHalt DEF WorkersDone, DrainTimeout, Crash
<1>4. ASSUME NEW j \in Jobs, Reenqueue(j) PROVE CopyInv'
  <2>1. /\ UNCHANGED <<video, raw, hls, leftover, del, job, asm, wpc, wjob>>
        /\ ch' = Append(ch, j) /\ j \in boot /\ boot' = boot \ {j}
    BY <1>4 DEF Reenqueue
  <2>2. \A k \in Jobs : InChannel(k)' <=> InChannel(k) \/ k = j
    BY <2>1, ChannelSend DEF TypeOK, DeliveryInv, SingleDelivery
  <2>3. \A k \in Jobs : Delivered(k)' => Delivered(k)
    BY <2>1, <2>2 DEF Delivered, Waiting, Held
  <2> QED BY <2>1, <2>3, CopyFrame
<1> QED BY <1>1, <1>2, <1>3, <1>4 DEF Main

LEMMA CopyAssemble ==
  ASSUME OneAssembly, TypeOK, DeliveryInv, CopyInv, NEW j \in Jobs, Assemble(j)
  PROVE  CopyInv'
<1> USE DEF mainVars, rowVars, fileVars, workerVars, histVars
<1>0. /\ VideoOf[j] \in Videos /\ \A k \in Jobs \ {j} : VideoOf[k] # VideoOf[j]
      /\ \A w \in Workers : wpc[w] \in Stages => VideoOn(w) \in Videos
      /\ asm[j] \in InProgress \cup {"idle"} =>
           /\ ~Delivered(j)
           /\ \A w \in Workers : wpc[w] \in Stages => VideoOn(w) # VideoOf[j]
      /\ asm \in [Jobs -> AsmStates] /\ job \in [Jobs -> JobStates]
      /\ raw \in [Videos -> BOOLEAN] /\ video \in [Videos -> VideoStates]
  <2>1. VideoOf[j] \in Videos /\ \A k \in Jobs \ {j} : VideoOf[k] # VideoOf[j]
    BY ConstantsOK DEF OneAssembly, Assumptions
  <2>2. asm[j] \in InProgress \cup {"idle"} => ~Delivered(j)
    BY DEF DeliveryInv, SingleDelivery
  <2>3. \A w \in Workers : wpc[w] \in Stages =>
          VideoOn(w) \in Videos /\ Delivered(wjob[w]) /\ wjob[w] \in Jobs
    BY SoleOwner
  <2> QED BY <2>1, <2>2, <2>3 DEF VideoOn, TypeOK, AsmType, RowType, FileType
<1>1. ASSUME AssembleFile(j) PROVE CopyInv'
  <2>1. /\ UNCHANGED <<video, hls, leftover, del, job, wpc, wjob, ch, boot>>
        /\ asm[j] = "idle" /\ asm'[j] \in {"raw", "failing"}
        /\ asm'[j] = "raw" => raw'[VideoOf[j]]
        /\ \A k \in Jobs \ {j} : asm'[k] = asm[k]
        /\ \A v \in Videos \ {VideoOf[j]} : raw'[v] = raw[v]
        /\ raw[VideoOf[j]] => raw'[VideoOf[j]]
    BY <1>0, <1>1 DEF AssembleFile
  <2>2. \A k \in Jobs : Delivered(k)' <=> Delivered(k)
    BY <2>1, ChannelSame DEF Delivered, Waiting, Held
  <2>3. job[j] = "none" BY <2>1 DEF DeliveryInv
  <2>4. StillAhead'
    BY <1>0, <2>1, <2>2, <2>3, ConstantsOK
       DEF CopyInv, StillAhead, InProgress, Assumptions
  <2>5. FilesAndRows' BY <2>1 DEF CopyInv, FilesAndRows, StillAhead
  <2>6. NeverWithoutCopy'
    BY <2>1, <2>3, ConstantsOK DEF CopyInv, NeverWithoutCopy, Assumptions
  <2>7. ASSUME NEW w \in Workers PROVE StageHasFiles(w)'
    <3>1. wpc[w] \in {"probe", "encode", "package", "cleanup", "publish", "complete"} =>
             raw'[VideoOn(w)] = raw[VideoOn(w)]
      BY <1>0, <2>1, StateNamesOK DEF StateNames
    <3> QED BY <2>1, <3>1 DEF CopyInv, StageHasFiles, VideoOn
  <2> QED BY <2>1, <2>4, <2>5, <2>6, <2>7 DEF CopyInv, ReadyIsComplete, CompletedIsReady
<1>2. ASSUME CreateJob(j) PROVE CopyInv'
  <2>1. /\ UNCHANGED <<video, raw, hls, leftover, del, wpc, wjob, ch, boot>>
        /\ asm[j] = "raw" /\ asm'[j] \in {"created", "failing"}
        /\ job' = job \/ (job'[j] = "queued" /\ video[VideoOf[j]] # "deleted")
        /\ \A k \in Jobs \ {j} : asm'[k] = asm[k] /\ job'[k] = job[k]
    BY <1>0, <1>2 DEF CreateJob
  <2>2. \A k \in Jobs : Delivered(k)' <=> Delivered(k)
    BY <2>1, ChannelSame DEF Delivered, Waiting, Held
  <2>3. StillAhead' BY <2>1, <2>2 DEF CopyInv, StillAhead, InProgress
  <2>4. FilesAndRows' BY <2>1 DEF CopyInv, FilesAndRows
  <2>5. NeverWithoutCopy' BY <2>1 DEF CopyInv, NeverWithoutCopy
  <2>6. CompletedIsReady' BY <2>1 DEF CopyInv, CompletedIsReady
  <2>7. ASSUME NEW w \in Workers PROVE StageHasFiles(w)'
    BY <2>1 DEF CopyInv, StageHasFiles, VideoOn
  <2> QED BY <2>1, <2>3, <2>4, <2>5, <2>6, <2>7 DEF CopyInv, ReadyIsComplete
<1>3. ASSUME MarkProcessing(j) \/ AssembleFailed(j) PROVE CopyInv'
  <2>1. /\ UNCHANGED <<raw, hls, leftover, del, job, wpc, wjob, ch, boot>>
        /\ asm[j] \in {"created", "failing"}
        /\ asm'[j] \in {"sending", "failing", "failed"}
        /\ asm'[j] = "sending" => asm[j] = "created"
        /\ \A k \in Jobs \ {j} : asm'[k] = asm[k]
        /\ \/ video' = video
           \/ /\ video' = [video EXCEPT ![VideoOf[j]] = video'[VideoOf[j]]]
              /\ video[VideoOf[j]] # "deleted"
              /\ video'[VideoOf[j]] \in {"processing", "failed"}
    BY <1>0, <1>3 DEF MarkProcessing, AssembleFailed, SetVideo
  <2>2. \A k \in Jobs : Delivered(k)' <=> Delivered(k)
    BY <2>1, ChannelSame DEF Delivered, Waiting, Held
  <2>3. job[j] # "completed" /\ \A k \in Jobs \ {j} : video'[VideoOf[k]] = video[VideoOf[k]]
    BY <1>0, <2>1, ConstantsOK DEF CopyInv, StillAhead, InProgress, Assumptions
  <2>4. \A v \in Videos : /\ video'[v] = "ready" => video[v] = "ready"
                          /\ video'[v] = "deleted" <=> video[v] = "deleted"
    BY <1>0, <2>1
  <2>5. StillAhead' BY <2>1, <2>2, <2>4, ConstantsOK
     DEF CopyInv, StillAhead, InProgress, Assumptions
  <2>6. FilesAndRows' BY <2>1, <2>4, ConstantsOK DEF CopyInv, FilesAndRows, Assumptions
  <2>7. NeverWithoutCopy'
    BY <2>1, <2>4, ConstantsOK DEF CopyInv, NeverWithoutCopy, Assumptions
  <2>8. ReadyIsComplete' /\ CompletedIsReady'
    BY <2>1, <2>3, <2>4 DEF CopyInv, ReadyIsComplete, CompletedIsReady
  <2>9. ASSUME NEW w \in Workers PROVE StageHasFiles(w)'
    <3>1. wpc[w] \in {"probe", "encode", "package", "cleanup", "publish", "complete"} =>
             video'[VideoOn(w)] = video[VideoOn(w)]
      BY <1>0, <2>1, StateNamesOK DEF StateNames, InProgress
    <3> QED BY <2>1, <3>1 DEF CopyInv, StageHasFiles, VideoOn
  <2> QED BY <2>5, <2>6, <2>7, <2>8, <2>9 DEF CopyInv
<1>4. ASSUME Send(j) PROVE CopyInv'
  <2>1. /\ UNCHANGED <<video, raw, hls, leftover, del, job, wpc, wjob, boot>>
        /\ ch' = Append(ch, j) /\ asm[j] = "sending" /\ asm'[j] = "done"
        /\ \A k \in Jobs \ {j} : asm'[k] = asm[k]
    BY <1>0, <1>4 DEF Send
  <2>2. ~InChannel(j) /\ job[j] # "completed"
    BY <1>0, <2>1 DEF InProgress, Delivered, Waiting, CopyInv, StillAhead
  <2>3. \A k \in Jobs : InChannel(k)' <=> InChannel(k) \/ k = j
    BY <2>1, <2>2, ChannelSend DEF TypeOK, DeliveryInv, SingleDelivery
  <2>4. \A k \in Jobs : Delivered(k)' => Delivered(k) \/ k = j
    BY <2>1, <2>3 DEF Delivered, Waiting, Held
  <2> QED BY <2>1, <2>2, <2>4, CopyFrame DEF InProgress
<1>5. ASSUME SendPanics(j) PROVE CopyInv' BY <1>5, CopyHalt DEF SendPanics
<1> QED BY <1>1, <1>2, <1>3, <1>4, <1>5 DEF Assemble

\* Process touches only the video and the job that its worker holds.
LEMMA CopyProcess ==
  ASSUME OneAssembly, TypeOK, DeliveryInv, CopyInv, NEW w \in Workers, Process(w)
  PROVE  CopyInv'
<1> USE DEF mainVars, rowVars, fileVars, histVars, At
<1> DEFINE j == wjob[w]
           v == VideoOn(w)
           FileStages == {"probe", "encode", "package", "cleanup", "publish", "complete"}
<1>0. wpc[w] \in Stages
  BY StateNamesOK DEF Process, BeginJob, LoadInput, Probe, EncodeProfile, KillHung,
     Package, RemoveRaw, Publish, CompleteJob, FailJob, FailVideo, StateNames
<1>1. /\ j \in Jobs /\ v \in Videos /\ v = VideoOf[j]
      /\ \A k \in Jobs \ {j} : VideoOf[k] # v
      /\ \A k \in Jobs : VideoOf[k] \in Videos
      /\ \A x \in Workers \ {w} : wpc[x] \in FileStages =>
           wjob[x] \in Jobs \ {j} /\ VideoOn(x) # v /\ VideoOn(x) \in Videos
      /\ asm[j] \notin InProgress \cup {"idle"} /\ job[j] # "completed"
      /\ j # NoJob
  BY <1>0, SoleOwner, BusyHolds, ConstantsOK, StateNamesOK
     DEF VideoOn, TypeOK, StateNames, Assumptions, CopyInv, StillAhead
<1>2. /\ wpc \in [Workers -> WorkerStates] /\ wjob \in [Workers -> Jobs \cup {NoJob}]
      /\ job \in [Jobs -> JobStates] /\ video \in [Videos -> VideoStates]
      /\ raw \in [Videos -> BOOLEAN]
      /\ hls \in [Videos -> {"none", "partial", "complete"}]
  BY DEF TypeOK, WorkerType, RowType, FileType
<1>3. UNCHANGED <<ch, boot, asm, del>>
  BY DEF Process, BeginJob, LoadInput, Probe, EncodeProfile, KillHung, Package,
     RemoveRaw, Publish, CompleteJob, FailJob, FailVideo
<1>4. \A k \in Jobs : Delivered(k)' => Delivered(k)
  <2>1. wjob' = wjob \/ wjob' = [wjob EXCEPT ![w] = NoJob]
    BY DEF Process, BeginJob, LoadInput, Probe, EncodeProfile, KillHung, Package,
       RemoveRaw, Publish, CompleteJob, FailJob, FailVideo, Goto, GiveUp, Done
  <2>2. \A k \in Jobs : Held(k)' => Held(k) BY <1>2, <2>1, ConstantsOK DEF Held, Assumptions
  <2> QED BY <1>3, <2>2, ChannelSame DEF Delivered, Waiting
<1>5. \A x \in Workers \ {w} : wpc'[x] = wpc[x] /\ wjob'[x] = wjob[x]
  BY <1>2 DEF Process, BeginJob, LoadInput, Probe, EncodeProfile, KillHung, Package,
     RemoveRaw, Publish, CompleteJob, FailJob, FailVideo, Goto, GiveUp, Done
\* The stages of the other workers see none of this.
<1>6. ASSUME \A u \in Videos \ {v} : /\ raw'[u] = raw[u] /\ video'[u] = video[u]
                                     /\ hls'[u] = hls[u],
             \A u \in leftover \ {v} : u \in leftover',
             NEW x \in Workers \ {w}
      PROVE  StageHasFiles(x)'
  BY <1>1, <1>5, <1>6 DEF CopyInv, StageHasFiles, VideoOn
<1>a. CASE BeginJob(w) \/ LoadInput(w) \/ KillHung(w) \/ FailJob(w)
  <2>1. UNCHANGED <<video, raw, hls, leftover, del>>
    BY <1>a DEF BeginJob, LoadInput, KillHung, FailJob
  <2>2. \A k \in Jobs : job'[k] # job[k] => job'[k] # "completed" /\ job[k] # "none"
    BY <1>1, <1>2, <1>a DEF BeginJob, LoadInput, KillHung, FailJob, SetJob
  <2>3. CASE BeginJob(w) \/ KillHung(w) \/ (LoadInput(w) /\ GiveUp(w))
    <3>1. wjob' = wjob /\ wpc'[w] \in {"load", "failing"}
      BY <1>2, <2>3 DEF BeginJob, KillHung, Goto, GiveUp
    <3> QED BY <1>3, <1>4, <1>5, <2>1, <2>2, <3>1, CopyFrame
  <2>4. CASE LoadInput(w) \/ FailJob(w)
    <3>1. /\ wpc'[w] \in {"probe", "failing", "failvideo"} /\ wjob' = wjob
          /\ wpc'[w] = "probe" => raw[v]
      BY <1>2, <2>4 DEF LoadInput, FailJob, Goto, GiveUp
    <3>2. StageHasFiles(w)' BY <2>1, <3>1 DEF StageHasFiles, VideoOn
    <3>3. StillAhead' BY <1>3, <1>4, <2>1, <2>2 DEF CopyInv, StillAhead
    <3>4. FilesAndRows' BY <2>1, <2>2 DEF CopyInv, FilesAndRows
    <3>5. NeverWithoutCopy' /\ ReadyIsComplete' /\ CompletedIsReady'
      BY <1>3, <2>1, <2>2 DEF CopyInv, NeverWithoutCopy, ReadyIsComplete, CompletedIsReady
    <3> QED BY <1>6, <2>1, <3>2, <3>3, <3>4, <3>5 DEF CopyInv
  <2> QED BY <1>a, <2>3, <2>4
\* The raw file is there while the rendition is being written.
<1>b. CASE Probe(w) \/ EncodeProfile(w) \/ Package(w)
  <2>1. /\ UNCHANGED <<video, raw, leftover, job>> /\ wjob' = wjob
        /\ \A u \in Videos \ {v} : hls'[u] = hls[u]
        /\ wpc'[w] \in {"encode", "package", "cleanup", "failing"}
        /\ wpc'[w] = "cleanup" => hls'[v] = "complete"
    BY <1>1, <1>2, <1>b DEF Probe, EncodeProfile, Package, Goto, GiveUp
  <2>2. raw[v] BY <1>b DEF Probe, EncodeProfile, Package, CopyInv, StageHasFiles, Goto, GiveUp
  <2>3. video[v] = "ready" => v \in leftover BY <1>1, <2>2 DEF CopyInv, FilesAndRows
  <2>4. StageHasFiles(w)' BY <1>1, <2>1, <2>2 DEF StageHasFiles, VideoOn
  <2>5. StillAhead' BY <1>1, <1>3, <1>4, <2>1 DEF CopyInv, StillAhead
  <2>6. FilesAndRows' BY <1>3, <2>1 DEF CopyInv, FilesAndRows
  <2>7. NeverWithoutCopy'
    BY <1>1, <1>3, <2>1, <2>2 DEF CopyInv, NeverWithoutCopy
  <2>8. ReadyIsComplete' BY <2>1, <2>3 DEF CopyInv, ReadyIsComplete
  <2>9. CompletedIsReady' BY <2>1 DEF CopyInv, CompletedIsReady
  <2> QED BY <1>6, <2>1, <2>4, <2>5, <2>6, <2>7, <2>8, <2>9 DEF CopyInv
\* The raw file goes once the rendition is complete, or its removal fails.
<1>c. CASE RemoveRaw(w)
  <2>1. /\ UNCHANGED <<video, hls, job>> /\ wjob' = wjob
        /\ \/ ~raw'[v] /\ leftover' = leftover \ {v}
           \/ raw'[v] = raw[v] /\ leftover' = leftover \cup {v}
        /\ \A u \in Videos \ {v} : raw'[u] = raw[u]
        /\ wpc'[w] = "publish"
    BY <1>1, <1>2, <1>c DEF RemoveRaw, Goto
  <2>2. raw[v] /\ (video[v] = "deleted" \/ hls[v] = "complete")
    BY <1>c DEF RemoveRaw, CopyInv, StageHasFiles
  <2>4. StageHasFiles(w)' BY <1>1, <1>2, <2>1, <2>2 DEF StageHasFiles, VideoOn
  <2>3. \A k \in Jobs : asm[k] = "idle" => raw'[VideoOf[k]] = raw[VideoOf[k]]
    BY <1>1, <2>1
  <2>5. StillAhead' BY <1>3, <1>4, <2>1, <2>3 DEF CopyInv, StillAhead
  <2>6. FilesAndRows' BY <1>1, <1>2, <1>3, <2>1, <2>2 DEF CopyInv, FilesAndRows
  <2>7. NeverWithoutCopy'
    BY <1>1, <1>2, <1>3, <2>1, <2>2 DEF CopyInv, NeverWithoutCopy
  <2>8. ReadyIsComplete' /\ CompletedIsReady'
    BY <2>1, <2>2 DEF CopyInv, ReadyIsComplete, CompletedIsReady
  <2> QED BY <1>6, <2>1, <2>4, <2>5, <2>6, <2>7, <2>8 DEF CopyInv
\* The video is published with the rendition complete and the raw file gone or
\* left over.
<1>d. CASE Publish(w)
  <2>1. /\ UNCHANGED <<raw, hls, leftover, job>> /\ wjob' = wjob
        /\ \A u \in Videos \ {v} : video'[u] = video[u]
        /\ \/ video'[v] = video[v] /\ wpc'[w] = "failing"
           \/ video'[v] \in {"ready", "deleted"} /\ wpc'[w] = "complete"
        /\ video'[v] = "deleted" <=> video[v] = "deleted"
    BY <1>1, <1>2, <1>d DEF Publish, SetVideo, Goto, GiveUp
  <2>2. (~raw[v] \/ v \in leftover) /\ (video[v] = "deleted" \/ hls[v] = "complete")
    BY <1>d DEF Publish, CopyInv, StageHasFiles
  <2>4. StageHasFiles(w)' BY <1>1, <2>1, <2>2 DEF StageHasFiles, VideoOn
  <2>5. StillAhead' BY <1>1, <1>3, <1>4, <2>1 DEF CopyInv, StillAhead, InProgress
  <2>6. FilesAndRows' BY <1>1, <1>3, <2>1, <2>2 DEF CopyInv, FilesAndRows
  <2>7. NeverWithoutCopy' BY <1>1, <1>3, <2>1 DEF CopyInv, NeverWithoutCopy
  <2>8. ReadyIsComplete' BY <2>1, <2>2 DEF CopyInv, ReadyIsComplete
  <2>9. CompletedIsReady' BY <1>1, <2>1 DEF CopyInv, CompletedIsReady
  <2> QED BY <1>6, <2>1, <2>4, <2>5, <2>6, <2>7, <2>8, <2>9 DEF CopyInv
\* The job is completed only now, and its worker lets it go.
<1>e. CASE CompleteJob(w)
  <2>1. /\ UNCHANGED <<video, raw, hls, leftover>>
        /\ wpc'[w] \in {"idle", "failing"}
        /\ \A k \in Jobs \ {j} : job'[k] = job[k]
        /\ \/ job'[j] = job[j]
           \/ job'[j] = "completed" /\ job[j] # "none" /\ wjob' = [wjob EXCEPT ![w] = NoJob]
    BY <1>1, <1>2, <1>e DEF CompleteJob, SetJob, Done, Goto, GiveUp
  <2>2. video[v] \in {"ready", "deleted"}
    BY <1>e DEF CompleteJob, CopyInv, StageHasFiles
  <2>3. \A k \in Jobs : k = j /\ job'[k] = "completed" => ~Delivered(k)'
    <3>1. SUFFICES ASSUME NEW k \in Jobs, k = j, wjob' = [wjob EXCEPT ![w] = NoJob]
                   PROVE  ~Delivered(k)'
      BY <1>1, <2>1
    <3>2. /\ ~InChannel(k) /\ k \notin boot
          /\ \A x \in Workers \ {w} : wjob[x] # k
      BY <1>0, <1>1, <3>1 DEF DeliveryInv, SingleDelivery, OneWorker, Held
    <3>3. ~Held(k)' BY <1>1, <1>2, <3>1, <3>2 DEF Held
    <3> QED BY <1>1, <1>3, <3>2, <3>3, ChannelSame DEF Delivered, Waiting
  <2>4. StageHasFiles(w)' BY <2>1 DEF StageHasFiles
  <2>5. StillAhead' BY <1>1, <1>3, <1>4, <2>1, <2>3 DEF CopyInv, StillAhead
  <2>6. FilesAndRows' BY <1>1, <1>3, <2>1 DEF CopyInv, FilesAndRows
  <2>7. NeverWithoutCopy' BY <1>1, <1>3, <2>1 DEF CopyInv, NeverWithoutCopy
  <2>8. ReadyIsComplete' BY <2>1 DEF CopyInv, ReadyIsComplete
  <2>9. CompletedIsReady'
    BY <1>1, <2>1, <2>2 DEF CopyInv, CompletedIsReady, FilesAndRows
  <2> QED BY <1>6, <2>1, <2>4, <2>5, <2>6, <2>7, <2>8, <2>9 DEF CopyInv
\* The job of a failed run was not completed, so its video may be marked.
<1>f. CASE FailVideo(w)
  <2>1. /\ UNCHANGED <<raw, hls, leftover, job>> /\ wpc'[w] = "idle"
        /\ \A u \in Videos \ {v} : video'[u] = video[u]
        /\ video'[v] = video[v] \/ (video[v] # "deleted" /\ video'[v] = "failed")
    BY <1>1, <1>2, <1>f DEF FailVideo, SetVideo, Done
  <2>4. StageHasFiles(w)' BY <2>1 DEF StageHasFiles
  <2>5. StillAhead' BY <1>1, <1>3, <1>4, <2>1 DEF CopyInv, StillAhead
  <2>6. FilesAndRows' BY <1>1, <1>3, <2>1 DEF CopyInv, FilesAndRows
  <2>7. NeverWithoutCopy' BY <1>1, <1>3, <2>1 DEF CopyInv, NeverWithoutCopy
  <2>8. ReadyIsComplete' BY <2>1 DEF CopyInv, ReadyIsComplete
  <2>9. CompletedIsReady' BY <1>1, <2>1 DEF CopyInv, CompletedIsReady
  <2> QED BY <1>6, <2>1, <2>4, <2>5, <2>6, <2>7, <2>8, <2>9 DEF CopyInv
<1> QED BY <1>a, <1>b, <1>c, <1>d, <1>e, <1>f DEF Process

LEMMA CopyWorker ==
  ASSUME OneAssembly, TypeOK, DeliveryInv, CopyInv, NEW w \in Workers, Worker(w)
  PROVE  CopyInv'
<1> USE DEF mainVars, rowVars, fileVars, histVars, At
<1>0. wpc \in [Workers -> WorkerStates] /\ wjob \in [Workers -> Jobs \cup {NoJob}]
  BY DEF TypeOK, WorkerType
<1>1. ASSUME Take(w) PROVE CopyInv'
  <2>1. /\ UNCHANGED <<video, raw, hls, leftover, del, job, asm, boot>>
        /\ ch # << >> /\ ch' = Tail(ch) /\ wjob'[w] = Head(ch) /\ wpc'[w] = "got"
        /\ \A x \in Workers \ {w} : wjob'[x] = wjob[x] /\ wpc'[x] = wpc[x]
    BY <1>0, <1>1 DEF Take
  <2>2. /\ InChannel(Head(ch))
        /\ \A k \in Jobs : InChannel(k)' <=> InChannel(k) /\ k # Head(ch)
    BY <2>1, ChannelTake DEF TypeOK, DeliveryInv, SingleDelivery
  <2>3. \A k \in Jobs : Delivered(k)' => Delivered(k)
    BY <2>1, <2>2 DEF Delivered, Waiting, Held
  <2> QED BY <2>1, <2>3, CopyFrame
<1>2. ASSUME Exit(w) PROVE CopyInv'
  <2>1. /\ UNCHANGED <<video, raw, hls, leftover, del, job, asm, ch, boot, wjob>>
        /\ \A x \in Workers : wpc'[x] = wpc[x] \/ wpc'[x] = "exited"
    BY <1>0, <1>2 DEF Exit
  <2>2. \A k \in Jobs : Delivered(k)' => Delivered(k)
    BY <2>1, ChannelSame DEF Delivered, Waiting, Held
  <2> QED BY <2>1, <2>2, CopyFrame
<1>3. ASSUME Hang(w) PROVE CopyInv'
  <2>1. /\ UNCHANGED <<video, raw, hls, leftover, del, job, asm, ch, boot, wjob>>
        /\ \A x \in Workers : wpc'[x] = wpc[x] \/ wpc'[x] = "hung"
    BY <1>0, <1>3 DEF Hang, Goto
  <2>2. \A k \in Jobs : Delivered(k)' => Delivered(k)
    BY <2>1, ChannelSame DEF Delivered, Waiting, Held
  <2> QED BY <2>1, <2>2, CopyFrame
<1> QED BY <1>1, <1>2, <1>3, CopyProcess DEF Worker

LEMMA CopyOther ==
  ASSUME TypeOK, CopyInv, Watchdog \/ \E v \in Videos : DeleteVideo(v)
  PROVE  CopyInv'
<1> USE DEF mainVars, rowVars, fileVars, workerVars, histVars
<1>0. /\ job \in [Jobs -> JobStates] /\ video \in [Videos -> VideoStates]
      /\ hls \in [Videos -> {"none", "partial", "complete"}]
      /\ del \in [Videos -> {"none", "rows", "done", "lost"}]
  BY DEF TypeOK, RowType, FileType, OtherType
<1>1. UNCHANGED <<ch, boot, wjob, wpc, asm, raw, leftover>>
  BY DEF Watchdog, DeleteVideo, FindStuck, Age, ResetToQueued, DeleteRows, DeleteFiles
<1>2. \A k \in Jobs : Delivered(k)' <=> Delivered(k)
  BY <1>1, ChannelSame DEF Delivered, Waiting, Held
<1>3. ASSUME Watchdog PROVE CopyInv'
  <2>1. UNCHANGED <<video, hls, del>>
    BY <1>3 DEF Watchdog, FindStuck, Age, ResetToQueued
  <2>2. \A k \in Jobs : job'[k] = job[k] \/ (job'[k] = "queued" /\ job[k] # "none")
    BY <1>0, <1>3 DEF Watchdog, FindStuck, Age, ResetToQueued, SetJob
  <2> QED BY <1>1, <1>2, <2>1, <2>2, CopyFrame
<1>4. ASSUME NEW v \in Videos, DeleteRows(v) PROVE CopyInv'
  <2>1. /\ hls' = hls /\ video'[v] = "deleted" /\ \A u \in Videos \ {v} : video'[u] = video[u]
        /\ \A j \in Jobs : IF VideoOf[j] = v THEN job'[j] = "none" ELSE job'[j] = job[j]
        /\ \A u \in Videos \ {v} : del'[u] = del[u]
    BY <1>0, <1>4 DEF DeleteRows
  <2>2. \A j \in Jobs : VideoOf[j] \in Videos BY ConstantsOK DEF Assumptions
  <2>3. StillAhead' BY <1>1, <1>2, <2>1, <2>2 DEF CopyInv, StillAhead
  <2>4. FilesAndRows' BY <1>1, <2>1, <2>2 DEF CopyInv, FilesAndRows
  <2>5. NeverWithoutCopy' BY <1>1, <2>1, <2>2 DEF CopyInv, NeverWithoutCopy
  <2>6. ReadyIsComplete' /\ CompletedIsReady'
    BY <1>1, <2>1, <2>2 DEF CopyInv, ReadyIsComplete, CompletedIsReady
  <2>7. ASSUME NEW w \in Workers PROVE StageHasFiles(w)'
    <3>1. wpc[w] \in Stages => VideoOn(w) \in Videos BY BusyHolds DEF TypeOK
    <3> QED BY <1>1, <2>1, <3>1, StateNamesOK DEF CopyInv, StageHasFiles, VideoOn, StateNames
  <2> QED BY <2>3, <2>4, <2>5, <2>6, <2>7 DEF CopyInv
<1>5. ASSUME NEW v \in Videos, DeleteFiles(v) PROVE CopyInv'
  <2>1. /\ UNCHANGED <<video, job>> /\ \A u \in Videos \ {v} : hls'[u] = hls[u]
        /\ hls'[v] = "none"
        /\ \A u \in Videos : del'[u] = "rows" => del[u] = "rows"
        /\ video[v] = "deleted"
    BY <1>0, <1>5 DEF DeleteFiles, CopyInv, FilesAndRows
  <2>2. \A j \in Jobs : VideoOf[j] \in Videos BY ConstantsOK DEF Assumptions
  <2>3. StillAhead' BY <1>1, <1>2, <2>1, <2>2 DEF CopyInv, StillAhead
  <2>4. FilesAndRows' BY <1>1, <2>1 DEF CopyInv, FilesAndRows
  <2>5. NeverWithoutCopy' BY <1>1, <2>1, <2>2 DEF CopyInv, NeverWithoutCopy
  <2>6. ReadyIsComplete' /\ CompletedIsReady'
    BY <1>1, <2>1 DEF CopyInv, ReadyIsComplete, CompletedIsReady
  <2>7. ASSUME NEW w \in Workers PROVE StageHasFiles(w)'
    <3>1. wpc[w] \in Stages => VideoOn(w) \in Videos BY BusyHolds DEF TypeOK
    <3> QED BY <1>1, <2>1, <3>1, StateNamesOK DEF CopyInv, StageHasFiles, VideoOn, StateNames
  <2> QED BY <2>3, <2>4, <2>5, <2>6, <2>7 DEF CopyInv
<1> QED BY <1>3, <1>4, <1>5 DEF DeleteVideo

LEMMA CopyStutter == ASSUME CopyInv, UNCHANGED vars PROVE CopyInv'
<1>1. UNCHANGED <<video, raw, hls, leftover, del, job, asm, wpc, wjob, ch, boot>>
  BY DEF vars, mainVars, rowVars, fileVars, workerVars
<1>2. \A k \in Jobs : Delivered(k)' => Delivered(k)
  BY <1>1, ChannelSame DEF Delivered, Waiting, Held
<1> QED BY <1>1, <1>2, CopyFrame

LEMMA CopyInvariant == ASSUME OneAssembly PROVE Spec => []CopyInv
<1>1. TypeOK /\ DeliveryInv /\ CopyInv /\ [Next]_vars => CopyInv'
  BY CopyMain, CopyAssemble, CopyWorker, CopyOther, CopyStutter DEF Next
<1> QED BY CopyInit, TypeCorrect, DeliveryInvariant, <1>1, PTL DEF Spec

\* The upload is never lost: from its assembly until it is deleted there is the
\* raw file or the complete rendition, whatever Process was doing when a
\* statement failed or the server died.
THEOREM CopyIsKept == ASSUME OneAssembly PROVE Spec => []NeverWithoutCopy
BY CopyInvariant, PTL DEF CopyInv

\* A video is offered for playback only with its complete rendition, unless its
\* raw directory could not be removed.
THEOREM ReadyHasRendition == ASSUME OneAssembly PROVE Spec => []ReadyIsComplete
BY CopyInvariant, PTL DEF CopyInv

\* No failure, reset or second delivery leaves a completed job over a video
\* that is not published.
THEOREM CompletedIsPublished == ASSUME OneAssembly PROVE Spec => []CompletedIsReady
BY CopyInvariant, PTL DEF CopyInv

-----------------------------------------------------------------------------
(* The life of a video.                                                     *)

\* A step that moves at most one video, to the next form of its life.
Moves(v) ==
  \/ FormOf(v)' = FormOf(v) /\ (v \in Kept' <=> v \in Kept)
  \/ /\ v \in Kept' <=> v \in Kept
     /\ \/ FormOf(v) = "none" /\ FormOf(v)' = "raw"
        \/ FormOf(v) = "rendition" /\ FormOf(v)' = "watchable"
        \/ FormOf(v) = "watchable" /\ FormOf(v)' = "rendition"
  \/ FormOf(v) = "raw" /\ FormOf(v)' = "rendition" /\ v \notin Kept
  \/ /\ v \in Kept /\ v \in Kept'
     /\ \/ FormOf(v) \in {"rendition", "watchable"} /\ FormOf(v)' = "raw"
        \/ FormOf(v) = "raw" /\ FormOf(v)' \in {"rendition", "watchable"}
  \/ /\ v \in Kept /\ v \notin Kept'
     /\ FormOf(v) \in {"rendition", "watchable"} /\ FormOf(v)' = FormOf(v)
  \/ v \in Deletable /\ FormOf(v) # "deleted" /\ FormOf(v)' = "deleted" /\ v \notin Kept'

LEMMA LifeStep ==
  ASSUME NEW v \in Videos, Moves(v),
         \A u \in Videos \ {v} : /\ UNCHANGED <<video[u], raw[u], hls[u]>>
                                 /\ u \in leftover' <=> u \in leftover
  PROVE  [Life!Next]_(Life!vars)
<1> DEFINE F == [u \in Videos |-> FormOf(u)]
<1>1. \A u \in Videos \ {v} : /\ FormOf(u)' = FormOf(u)
                              /\ u \in Kept' <=> u \in Kept
  BY DEF FormOf, Replaced, Kept
<1>2. F' = [F EXCEPT ![v] = FormOf(v)'] BY <1>1
<1>3. FormOf(v) = F[v] /\ FormOf(v)' = F'[v] OBVIOUS
<1>a. Kept \subseteq Videos /\ Kept' \subseteq Videos BY DEF Kept
<1>b. (v \in Kept' <=> v \in Kept) => Kept' = Kept BY <1>1, <1>a
<1>c. v \in Kept' => Kept' = Kept \cup {v} BY <1>1, <1>a
<1>d. v \notin Kept' => Kept' = Kept \ {v} BY <1>1, <1>a
<1>4. CASE FormOf(v)' = FormOf(v) /\ (v \in Kept' <=> v \in Kept)
  <2>1. F' = F BY <1>2, <1>3, <1>4
  <2> QED BY <1>4, <1>b, <2>1 DEF Life!vars
<1>5. CASE /\ v \in Kept' <=> v \in Kept
           /\ FormOf(v) = "none" /\ FormOf(v)' = "raw"
  BY <1>2, <1>3, <1>b, <1>5 DEF Life!Next, Life!Assemble, Life!Become
<1>6. CASE FormOf(v) = "raw" /\ FormOf(v)' = "rendition" /\ v \notin Kept
  <2>1. Kept' = Kept \/ Kept' = Kept \cup {v} BY <1>6, <1>b, <1>c
  <2> QED BY <1>2, <1>3, <1>6, <2>1 DEF Life!Next, Life!Transcode, Life!Become
<1>7. CASE /\ v \in Kept' <=> v \in Kept
           /\ FormOf(v) = "rendition" /\ FormOf(v)' = "watchable"
  BY <1>2, <1>3, <1>b, <1>7 DEF Life!Next, Life!Publish, Life!Become
<1>8. CASE /\ v \in Kept' <=> v \in Kept
           /\ FormOf(v) = "watchable" /\ FormOf(v)' = "rendition"
  BY <1>2, <1>3, <1>b, <1>8 DEF Life!Next, Life!Withdraw, Life!Become
<1>9. CASE /\ v \in Kept /\ v \in Kept'
           /\ FormOf(v) \in {"rendition", "watchable"} /\ FormOf(v)' = "raw"
  BY <1>2, <1>3, <1>b, <1>9 DEF Life!Next, Life!Restart, Life!Become
<1>10. CASE /\ v \in Kept /\ v \in Kept'
            /\ FormOf(v) = "raw" /\ FormOf(v)' \in {"rendition", "watchable"}
  BY <1>2, <1>3, <1>b, <1>10 DEF Life!Next, Life!Redo, Life!Become
<1>11. CASE /\ v \in Kept /\ v \notin Kept'
            /\ FormOf(v) \in {"rendition", "watchable"} /\ FormOf(v)' = FormOf(v)
  <2>1. F' = F /\ Kept' # Kept BY <1>2, <1>3, <1>11
  <2> QED BY <1>3, <1>d, <1>11, <2>1 DEF Life!Next, Life!Clean
<1>12. CASE /\ v \in Deletable /\ FormOf(v) # "deleted" /\ FormOf(v)' = "deleted"
            /\ v \notin Kept'
  BY <1>2, <1>3, <1>d, <1>12 DEF Life!Next, Life!Delete, Life!Become
<1> HIDE DEF F
<1> QED BY <1>4, <1>5, <1>6, <1>7, <1>8, <1>9, <1>10, <1>11, <1>12 DEF Moves

LEMMA LifeStays ==
  ASSUME UNCHANGED <<video, raw, hls, leftover>> PROVE [Life!Next]_(Life!vars)
<1>1. \A u \in Videos : FormOf(u)' = FormOf(u) /\ (u \in Kept' <=> u \in Kept)
  BY DEF FormOf, Replaced, Kept
<1>2. Kept' = Kept BY <1>1 DEF Kept
<1> QED BY <1>1, <1>2 DEF Life!vars

LEMMA LifeAssemble ==
  ASSUME TypeOK, CopyInv, NEW j \in Jobs, Assemble(j)
  PROVE  [Life!Next]_(Life!vars)
<1> USE DEF rowVars, fileVars
<1>0. /\ VideoOf[j] \in Videos /\ raw \in [Videos -> BOOLEAN]
      /\ video \in [Videos -> VideoStates]
  BY ConstantsOK DEF TypeOK, FileType, RowType, Assumptions
<1>1. ASSUME CreateJob(j) \/ Send(j) \/ SendPanics(j) PROVE [Life!Next]_(Life!vars)
  BY <1>1, LifeStays DEF CreateJob, Send, SendPanics, Halt
<1>2. ASSUME AssembleFile(j) PROVE [Life!Next]_(Life!vars)
  <2>1. /\ UNCHANGED <<video, hls, leftover>> /\ asm[j] = "idle"
        /\ \A u \in Videos \ {VideoOf[j]} : raw'[u] = raw[u]
        /\ \/ raw' = raw
           \/ video[VideoOf[j]] # "deleted" /\ raw'[VideoOf[j]]
    BY <1>0, <1>2 DEF AssembleFile
  <2>2. /\ ~raw[VideoOf[j]] /\ hls[VideoOf[j]] = "none" /\ video[VideoOf[j]] # "ready"
        /\ VideoOf[j] \notin leftover
    BY <1>0, <2>1 DEF CopyInv, StillAhead, FilesAndRows
  <2>3. Moves(VideoOf[j]) BY <2>1, <2>2 DEF Moves, FormOf, Replaced, Kept
  <2> QED BY <1>0, <2>1, <2>3, LifeStep
\* A video marked as failed keeps the form that its files give it.
<1>3. ASSUME MarkProcessing(j) \/ AssembleFailed(j) PROVE [Life!Next]_(Life!vars)
  <2>1. /\ UNCHANGED <<raw, hls, leftover>>
        /\ \A u \in Videos \ {VideoOf[j]} : video'[u] = video[u]
        /\ \/ video' = video
           \/ /\ video[VideoOf[j]] # "deleted"
              /\ video'[VideoOf[j]] \in {"processing", "failed"}
    BY <1>0, <1>3 DEF MarkProcessing, AssembleFailed, SetVideo
  <2>2. /\ video[VideoOf[j]] = "ready" =>
             \/ ~raw[VideoOf[j]] /\ hls[VideoOf[j]] = "complete"
             \/ VideoOf[j] \in leftover
        /\ VideoOf[j] \in leftover => raw[VideoOf[j]]
    BY <1>0 DEF CopyInv, FilesAndRows, ReadyIsComplete
  <2>3. Moves(VideoOf[j]) BY <2>1, <2>2 DEF Moves, FormOf, Replaced, Kept
  <2> QED BY <1>0, <2>1, <2>3, LifeStep
<1> QED BY <1>1, <1>2, <1>3 DEF Assemble

LEMMA LifeProcess ==
  ASSUME TypeOK, CopyInv, NEW w \in Workers, Process(w)
  PROVE  [Life!Next]_(Life!vars)
<1> USE DEF rowVars, fileVars, At
<1> DEFINE v == VideoOn(w)
<1>0. wpc[w] \in Stages
  BY StateNamesOK DEF Process, BeginJob, LoadInput, Probe, EncodeProfile, KillHung,
     Package, RemoveRaw, Publish, CompleteJob, FailJob, FailVideo, StateNames
<1>1. /\ v \in Videos /\ raw \in [Videos -> BOOLEAN] /\ video \in [Videos -> VideoStates]
      /\ hls \in [Videos -> {"none", "partial", "complete"}]
  BY <1>0, BusyHolds DEF TypeOK, FileType, RowType
<1>2. /\ video[v] = "ready" => (~raw[v] /\ hls[v] = "complete") \/ v \in leftover
      /\ v \in leftover => raw[v]
  BY <1>1 DEF CopyInv, FilesAndRows, ReadyIsComplete
<1>a. CASE BeginJob(w) \/ LoadInput(w) \/ KillHung(w) \/ CompleteJob(w) \/ FailJob(w)
  BY <1>a, LifeStays DEF BeginJob, LoadInput, KillHung, CompleteJob, FailJob
\* Whatever is written of the rendition, the upload is still in its raw form; a
\* leftover one goes back to it.
<1>b. CASE Probe(w) \/ EncodeProfile(w) \/ Package(w)
  <2>1. /\ UNCHANGED <<video, raw, leftover>> /\ \A u \in Videos \ {v} : hls'[u] = hls[u]
    BY <1>1, <1>b DEF Probe, EncodeProfile, Package
  <2>2. raw[v] BY <1>b DEF Probe, EncodeProfile, Package, CopyInv, StageHasFiles
  <2>3. PICK u \in Videos : u = v BY <1>1
  <2>4. Moves(u) BY <1>2, <2>1, <2>2, <2>3 DEF Moves, FormOf, Replaced, Kept
  <2> QED BY <2>1, <2>3, <2>4, LifeStep
<1>c. CASE RemoveRaw(w) \/ Publish(w) \/ FailVideo(w)
  <2>1. PICK u \in Videos : u = v BY <1>1
  <2>2. CASE RemoveRaw(w)
    <3>1. /\ UNCHANGED <<video, hls>>
          /\ \A x \in Videos \ {u} : raw'[x] = raw[x] /\ (x \in leftover' <=> x \in leftover)
          /\ \/ ~raw'[u] /\ u \notin leftover'
             \/ raw'[u] = raw[u] /\ u \in leftover'
      BY <1>1, <2>1, <2>2 DEF RemoveRaw
    <3>2. raw[u] /\ (video[u] = "deleted" \/ hls[u] = "complete")
      BY <2>1, <2>2 DEF RemoveRaw, CopyInv, StageHasFiles
    <3>3. Moves(u) BY <1>2, <2>1, <3>1, <3>2 DEF Moves, FormOf, Replaced, Kept
    <3> QED BY <3>1, <3>3, LifeStep
  <2>3. CASE Publish(w)
    <3>1. /\ UNCHANGED <<raw, hls, leftover>> /\ \A x \in Videos \ {u} : video'[x] = video[x]
          /\ video'[u] = video[u] \/ (video[u] # "deleted" /\ video'[u] = "ready")
      BY <1>1, <2>1, <2>3 DEF Publish, SetVideo
    <3>2. (~raw[u] \/ u \in leftover) /\ (video[u] = "deleted" \/ hls[u] = "complete")
      BY <2>1, <2>3 DEF Publish, CopyInv, StageHasFiles
    <3>3. Moves(u) BY <1>2, <2>1, <3>1, <3>2 DEF Moves, FormOf, Replaced, Kept
    <3> QED BY <3>1, <3>3, LifeStep
  <2>4. CASE FailVideo(w)
    <3>1. /\ UNCHANGED <<raw, hls, leftover>> /\ \A x \in Videos \ {u} : video'[x] = video[x]
          /\ video'[u] = video[u] \/ (video[u] # "deleted" /\ video'[u] = "failed")
      BY <1>1, <2>1, <2>4 DEF FailVideo, SetVideo
    <3>2. Moves(u) BY <1>2, <2>1, <3>1 DEF Moves, FormOf, Replaced, Kept
    <3> QED BY <3>1, <3>2, LifeStep
  <2> QED BY <1>c, <2>2, <2>3, <2>4
<1> QED BY <1>a, <1>b, <1>c DEF Process

LEMMA LifeDelete ==
  ASSUME TypeOK, CopyInv, NEW v \in Videos, DeleteVideo(v)
  PROVE  [Life!Next]_(Life!vars)
<1>1. video \in [Videos -> VideoStates] /\ hls \in [Videos -> {"none", "partial", "complete"}]
  BY DEF TypeOK, RowType, FileType
<1>2. CASE DeleteRows(v)
  <2>1. /\ UNCHANGED <<raw, hls, leftover>> /\ v \in Deletable /\ video'[v] = "deleted"
        /\ video[v] # "deleted" /\ \A u \in Videos \ {v} : video'[u] = video[u]
    BY <1>1, <1>2 DEF DeleteRows, fileVars
  <2>2. Moves(v) BY <2>1 DEF Moves, FormOf, Replaced, Kept
  <2> QED BY <2>1, <2>2, LifeStep
<1>3. CASE DeleteFiles(v)
  <2>1. /\ UNCHANGED <<raw, leftover, video>> /\ video[v] = "deleted"
        /\ \A u \in Videos \ {v} : hls'[u] = hls[u]
    BY <1>1, <1>3 DEF DeleteFiles, rowVars, CopyInv, FilesAndRows
  <2>2. Moves(v) BY <2>1 DEF Moves, FormOf, Replaced, Kept
  <2> QED BY <2>1, <2>2, LifeStep
<1> QED BY <1>2, <1>3 DEF DeleteVideo

LEMMA LifeRest ==
  ASSUME \/ Main \/ Watchdog \/ UNCHANGED vars
         \/ \E w \in Workers : Take(w) \/ Exit(w) \/ Hang(w)
  PROVE  [Life!Next]_(Life!vars)
<1>1. UNCHANGED <<video, raw, hls, leftover>>
  BY DEF Main, Start, Serve, Signal, CancelWorkers, CloseQueue, WorkersDone,
     DrainTimeout, Crash, Reenqueue, Halt, Watchdog, FindStuck, Age, ResetToQueued,
     Take, Exit, Hang, vars, rowVars, fileVars
<1> QED BY <1>1, LifeStays

LEMMA LifeNext ==
  TypeOK /\ CopyInv /\ [Next]_vars => [Life!Next]_(Life!vars)
BY LifeAssemble, LifeProcess, LifeDelete, LifeRest DEF Next, Worker

\* The queue implements the life of a video: workers, assemblies, resets,
\* restarts and deletions together never leave an upload without a form, and
\* take it back to an earlier one only while a raw directory that Process could
\* not remove is kept beside the rendition.
THEOREM QueueIsLifecycle == ASSUME OneAssembly PROVE Spec => IsLifecycle
<1>1. Init => Life!Init
  BY DEF Init, Life!Init, FormOf, Replaced, Kept
<1> QED
  BY <1>1, TypeCorrect, CopyInvariant, LifeNext, PTL DEF Spec, IsLifecycle, Life!Spec
=============================================================================
