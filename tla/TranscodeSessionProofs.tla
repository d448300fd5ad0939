----------------------- MODULE TranscodeSessionProofs -----------------------
(***************************************************************************)
(* Theorems of TranscodeSession, for every size of the tags and of the     *)
(* kernel's pipe, and every number of tags.                                *)
(***************************************************************************)
EXTENDS TranscodeSession, TLAPS

LEMMA ParametersOK ==
  /\ Parts \in Nat \ {0} /\ PipeCap \in Nat \ {0} /\ MaxTags \in Nat \ {0}
  BY SessionAssumption

LEMMA NextTag == ASSUME NEW n \in Nat PROVE Parts * (n + 1) = Parts * n + Parts
  BY ParametersOK

LEMMA SessionInit == Init => SessionInv
<1> SUFFICES ASSUME Init PROVE SessionInv OBVIOUS
<1>0. {inTick, closed, segments} \subseteq BOOLEAN BY DEF Init
<1>1. TypeOK BY <1>0, ParametersOK DEF Init, TypeOK
<1>2. LockInv BY ParametersOK DEF Init, LockInv
<1>3. Parts * sent = 0 BY ParametersOK DEF Init
<1>4. FlowInv BY <1>3 DEF Init, FlowInv, PartsAreConserved
<1> QED BY <1>1, <1>2, <1>4 DEF SessionInv

\* The connection's goroutine: a tag is under way only between its lock and its
\* unlock, and counts as sent when its last part was read.
LEMMA WriterKeeps ==
  ASSUME SessionInv, OnPacket \/ Writer \/ Disconnect
  PROVE  SessionInv'
<1> USE ParametersOK DEF goVars, ioVars, SessionInv
<1>1. CASE OnPacket
  BY <1>1 DEF OnPacket, TypeOK, LockInv, FlowInv, PartsAreConserved, Gone
<1>2. CASE Disconnect
  BY <1>2 DEF Disconnect, TypeOK, LockInv, FlowInv, PartsAreConserved, Gone
<1>3. CASE WriteTag
  BY <1>3 DEF WriteTag, TypeOK, LockInv, FlowInv, PartsAreConserved, Gone
<1>4. CASE Written
  <2>1. sent \in Nat /\ sent < MaxTags /\ sent' = sent + 1
    BY <1>4 DEF Written, TypeOK, LockInv
  <2>2. Parts * sent' = Parts * sent + Parts BY <2>1, NextTag
  <2>3. TypeOK' /\ LockInv' BY <1>4, <2>1 DEF Written, TypeOK, LockInv, Gone
  <2>4. FlowInv' BY <1>4, <2>1, <2>2
                 DEF Written, TypeOK, LockInv, FlowInv, PartsAreConserved, Gone
  <2> QED BY <2>3, <2>4
<1> QED BY <1>1, <1>2, <1>3, <1>4 DEF Writer

\* stop() closes the input between two tags, and is over once ffmpeg has exited.
LEMMA StopperKeeps ==
  ASSUME SessionInv, Ask \/ WatchdogEnds \/ Stopper
  PROVE  SessionInv'
<1> USE ParametersOK DEF ioVars, SessionInv
<1>1. CASE Ask BY <1>1 DEF Ask, TypeOK, LockInv, FlowInv, PartsAreConserved, Gone
<1>2. CASE WatchdogEnds
  BY <1>2 DEF WatchdogEnds, TypeOK, LockInv, FlowInv, PartsAreConserved, Gone
<1>3. CASE CloseInput
  BY <1>3 DEF CloseInput, TypeOK, LockInv, FlowInv, PartsAreConserved, Gone
<1>4. CASE Finalise
  BY <1>4 DEF Finalise, TypeOK, LockInv, FlowInv, PartsAreConserved, Gone
<1> QED BY <1>1, <1>2, <1>3, <1>4 DEF Stopper

\* A part is always in exactly one place: in the tag, in the feeder's hand, in
\* the kernel's pipe, or read.
LEMMA FeederKeeps == ASSUME SessionInv, Feeder PROVE SessionInv'
<1> USE ParametersOK DEF goVars, SessionInv
<1>1. CASE FeederReads
  BY <1>1 DEF FeederReads, TypeOK, LockInv, FlowInv, PartsAreConserved, Gone
<1>2. CASE FeederWrites
  BY <1>2 DEF FeederWrites, TypeOK, LockInv, FlowInv, PartsAreConserved, Gone
<1> QED BY <1>1, <1>2 DEF Feeder

LEMMA FFmpegKeeps ==
  ASSUME SessionInv, FFmpeg \/ FFmpegFails \/ KillOrphan
  PROVE  SessionInv'
<1> USE ParametersOK DEF goVars, ioVars, SessionInv
<1>1. CASE FFmpegReads
  <2>1. segments \in BOOLEAN /\ segments' \in {segments, TRUE}
    BY <1>1 DEF FFmpegReads, TypeOK
  <2>2. segments' \in BOOLEAN BY <2>1, Zenon
  <2> QED BY <1>1, <2>2 DEF FFmpegReads, TypeOK, LockInv, FlowInv, PartsAreConserved, Gone
<1>2. CASE FFmpegEnds
  BY <1>2 DEF FFmpegEnds, TypeOK, LockInv, FlowInv, PartsAreConserved, Gone
<1>3. CASE FFmpegFails
  BY <1>3 DEF FFmpegFails, TypeOK, LockInv, FlowInv, PartsAreConserved, Gone
<1>4. CASE KillOrphan
  BY <1>4 DEF KillOrphan, TypeOK, LockInv, FlowInv, PartsAreConserved, Gone
<1> QED BY <1>1, <1>2, <1>3, <1>4 DEF FFmpeg

LEMMA SessionInvariant == Spec => []SessionInv
<1>1. SessionInv /\ UNCHANGED vars => SessionInv'
  BY DEF SessionInv, TypeOK, LockInv, FlowInv, PartsAreConserved, Gone, vars, goVars,
     ioVars
<1>2. SessionInv /\ [Next]_vars => SessionInv'
  BY <1>1, WriterKeeps, StopperKeeps, FeederKeeps, FFmpegKeeps DEF Next
<1> QED BY SessionInit, <1>2, PTL DEF Spec

\* stop() never closes the input under a tag: closed is set and read under the
\* mutex that a write holds to its end.
THEOREM InputIsClosedBetweenTags == Spec => []NoWriteAfterClose
<1>1. SessionInv => NoWriteAfterClose
  BY DEF SessionInv, LockInv, NoWriteAfterClose
<1> QED BY <1>1, SessionInvariant, PTL

\* No part of a tag is lost, duplicated or invented between the connection and
\* an ffmpeg that has not exited, for any capacity of the kernel's pipe.
THEOREM FlowIsConserved == Spec => []PartsAreConserved
<1>1. SessionInv => PartsAreConserved BY DEF SessionInv, FlowInv
<1> QED BY <1>1, SessionInvariant, PTL

\* When the playlists are closed, an ffmpeg that came to the end of its input
\* has read every tag whose write returned.
THEOREM RecordingIsWhole == Spec => []NothingCutOff
<1>1. SessionInv => NothingCutOff
  BY DEF SessionInv, TypeOK, LockInv, FlowInv, Gone, NothingCutOff
<1> QED BY <1>1, SessionInvariant, PTL
=============================================================================
