---------------------------- MODULE UploadQuota ----------------------------
(***************************************************************************)
(* The storage quota of one user: InitUpload compares users.used_bytes     *)
(* with the quota, assemble adds the size of what it stored, DeleteVideo   *)
(* takes it away again.  Three pieces of state that no transaction ties    *)
(* together: the counter, the videos row, the row's size_bytes.            *)
(*                                                                         *)
(* Chunks and transcoding are the business of UploadAssembly and           *)
(* TranscodeQueue: here an upload's chunks arrive in one step, once.       *)
(***************************************************************************)
EXTENDS Integers, FiniteSets, FiniteSetsExt

CONSTANTS Uploads,      \* uploads the user starts, and their videos
          Size,         \* bytes of each, which the client declares truly
          Quota,        \* users.upload_quota_bytes, 0 when unlimited
          Deletes,      \* DELETE requests
          Habits,       \* what a user may do: "tabs", "early", "twice"
          MaxCrashes,   \* bound: crashes of the server
          MaxFaults     \* bound: statements that fail

ASSUME SizeAssumption  == Size \in [Uploads -> Nat \ {0}]
ASSUME QuotaAssumption == /\ Quota \in Nat /\ MaxCrashes \in Nat /\ MaxFaults \in Nat
                          /\ Habits \subseteq {"tabs", "early", "twice"}

\* A user with "tabs" has several uploads under way at a time, with "early"
\* deletes a video while its upload is under way, with "twice" sends a second
\* request for a video while the first is.  The habits are chosen in Init.
VARIABLES habits,    \* a subset of Habits
          used,      \* users.used_bytes
          up,        \* where an upload stands
          row,       \* the videos row: none, there, deleted
          sizeCol,   \* videos.size_bytes
          del,       \* where a DeleteVideo handler stands
          target,    \* uploads the delete requests are for
          read,      \* the SizeBytes its handler read
          crashes,
          faults,    \* statements that failed so far
          uncharged  \* history: uploads whose charge was lost, to an error or a crash

delVars  == <<del, target, read>>
troubles == <<crashes, faults, uncharged>>
vars == <<habits, used, up, row, sizeCol, delVars, troubles>>

Init == /\ habits \in SUBSET Habits
        /\ used = 0
        /\ up = [u \in Uploads |-> "idle"]
        /\ row = [u \in Uploads |-> "none"]
        /\ sizeCol = [u \in Uploads |-> 0]
        /\ del = [d \in Deletes |-> "idle"]
        /\ target = [d \in Deletes |-> {}]
        /\ read = [d \in Deletes |-> 0]
        /\ crashes = 0 /\ faults = 0 /\ uncharged = {}

NoFault == UNCHANGED faults
DbFault == faults < MaxFaults /\ faults' = faults + 1

Open == {u \in Uploads : up[u] \in {"init", "uploading", "assembling", "sized"}}

-----------------------------------------------------------------------------
(* InitUpload and assemble.                                                 *)

\* Mutant: the quota is compared with what is used already.
HasQuotaFor_IgnoresSize(u) == Quota = 0 \/ used <= Quota
HasQuotaFor(u) == Quota = 0 \/ used + Size[u] <= Quota

CheckQuota(u) ==
  /\ up[u] = "idle" /\ (Open = {} \/ "tabs" \in habits)
  /\ up' = [up EXCEPT ![u] = IF HasQuotaFor(u) THEN "init" ELSE "refused"]
  /\ UNCHANGED <<habits, used, row, sizeCol, delVars, troubles>>

CreateVideo(u) ==
  /\ up[u] = "init"
  /\ row' = [row EXCEPT ![u] = "there"]
  /\ up' = [up EXCEPT ![u] = "uploading"]
  /\ UNCHANGED <<habits, used, sizeCol, delVars, troubles>>

\* The last chunk is in: assemble reads the row, which must be there, and
\* copies the chunks.
Assemble(u) ==
  /\ up[u] = "uploading"
  /\ \/ /\ NoFault
        /\ up' = [up EXCEPT ![u] = IF row[u] = "there" THEN "assembling" ELSE "failed"]
     \/ DbFault /\ up' = [up EXCEPT ![u] = "failed"]
  /\ UNCHANGED <<habits, used, row, sizeCol, delVars, crashes, uncharged>>

\* Mutant: the size is not recorded.
UpdateSizeBytes_Lost(u) ==
  /\ up[u] = "assembling"
  /\ up' = [up EXCEPT ![u] = "sized"]
  /\ UNCHANGED <<habits, used, row, sizeCol, delVars, troubles>>

\* No row, no change, no error.  An error is only logged, here and below.
UpdateSizeBytes(u) ==
  /\ up[u] = "assembling"
  /\ \/ /\ NoFault
        /\ sizeCol' = [sizeCol EXCEPT ![u] = IF row[u] = "there" THEN Size[u] ELSE @]
     \/ DbFault /\ UNCHANGED sizeCol
  /\ up' = [up EXCEPT ![u] = "sized"]
  /\ UNCHANGED <<habits, used, row, delVars, crashes, uncharged>>

\* Row or no row.
IncUsedBytes(u) ==
  /\ up[u] = "sized"
  /\ \/ NoFault /\ used' = used + Size[u] /\ UNCHANGED uncharged
     \/ DbFault /\ uncharged' = uncharged \cup {u} /\ UNCHANGED used
  /\ up' = [up EXCEPT ![u] = "stored"]
  /\ UNCHANGED <<habits, row, sizeCol, delVars, crashes>>

-----------------------------------------------------------------------------
(* DeleteVideo.                                                             *)

\* The page lists the video from its row on, and offers to delete it.
MayDelete(u) ==
  /\ row[u] = "there"
  /\ "early" \in habits \/ up[u] \in {"stored", "failed"}
  /\ "twice" \in habits \/ \A d \in Deletes : u \in target[d] => del[d] = "done"

\* GetByIDForUser: a handler that finds no row returns.
ReadForDelete(d, u) ==
  /\ del[d] = "idle" /\ MayDelete(u)
  /\ del' = [del EXCEPT ![d] = "delete"]
  /\ target' = [target EXCEPT ![d] = {u}]
  /\ read' = [read EXCEPT ![d] = sizeCol[u]]
  /\ UNCHANGED <<habits, used, up, row, sizeCol, troubles>>

\* Delete is a no-op without error when another request was faster; an error
\* ends the handler.
DeleteRow(d) ==
  /\ del[d] = "delete"
  /\ \/ /\ NoFault
        /\ row' = [u \in Uploads |-> IF u \in target[d] THEN "deleted" ELSE row[u]]
        /\ del' = [del EXCEPT ![d] = "credit"]
     \/ DbFault /\ del' = [del EXCEPT ![d] = "done"] /\ UNCHANGED row
  /\ UNCHANGED <<habits, used, up, sizeCol, target, read, crashes, uncharged>>

\* Mutants: the declared size is credited; the counter is not clamped.
DecUsedBytes_Declared(d) ==
  /\ del[d] = "credit"
  /\ \E u \in target[d] : used' = IF used >= Size[u] THEN used - Size[u] ELSE 0
  /\ del' = [del EXCEPT ![d] = "done"]
  /\ UNCHANGED <<habits, up, row, sizeCol, target, read, troubles>>
DecUsedBytes_NoClamp(d) ==
  /\ del[d] = "credit"
  /\ used' = used - read[d]
  /\ del' = [del EXCEPT ![d] = "done"]
  /\ UNCHANGED <<habits, up, row, sizeCol, target, read, troubles>>

DecUsedBytes(d) ==
  /\ del[d] = "credit"
  /\ \/ NoFault /\ used' = IF used >= read[d] THEN used - read[d] ELSE 0
     \/ DbFault /\ UNCHANGED used
  /\ del' = [del EXCEPT ![d] = "done"]
  /\ UNCHANGED <<habits, up, row, sizeCol, target, read, crashes, uncharged>>

\* Handlers and goroutines are gone, rows stay: a size that was recorded and
\* not charged yet will not be.
Crash ==
  /\ crashes < MaxCrashes
  /\ crashes' = crashes + 1
  /\ up' = [u \in Uploads |-> IF up[u] \in {"init", "assembling", "sized"}
                                 THEN "failed" ELSE up[u]]
  /\ del' = [d \in Deletes |-> IF del[d] = "idle" THEN "idle" ELSE "done"]
  /\ uncharged' = uncharged \cup {u \in Uploads : up[u] = "sized"}
  /\ UNCHANGED <<habits, used, row, sizeCol, target, read, faults>>

Upload(u) == CheckQuota(u) \/ CreateVideo(u) \/ Assemble(u) \/ UpdateSizeBytes(u)
             \/ IncUsedBytes(u)
Delete(d) == (\E u \in Uploads : ReadForDelete(d, u)) \/ DeleteRow(d) \/ DecUsedBytes(d)

Next == (\E u \in Uploads : Upload(u)) \/ (\E d \in Deletes : Delete(d)) \/ Crash

Spec == Init /\ [][Next]_vars

-----------------------------------------------------------------------------
(* Properties.                                                              *)

\* used_bytes is never negative: DecUsedBytes clamps it, whatever races.
TypeOK ==
  /\ habits \subseteq Habits
  /\ used \in Nat
  /\ up \in [Uploads -> {"idle", "init", "refused", "uploading", "assembling",
                         "sized", "stored", "failed"}]
  /\ row \in [Uploads -> {"none", "there", "deleted"}]
  /\ sizeCol \in [Uploads -> Nat]
  /\ del \in [Deletes -> {"idle", "delete", "credit", "done"}]
  /\ target \in [Deletes -> SUBSET Uploads]
  /\ read \in [Deletes -> Nat]
  /\ crashes \in 0..MaxCrashes /\ faults \in 0..MaxFaults
  /\ uncharged \subseteq Uploads

Stored == {u \in Uploads : up[u] = "stored" /\ row[u] = "there"}
Bytes(S) == MapThenSumSet(LAMBDA u : Size[u], S)
AtRest == /\ \A u \in Uploads : up[u] \notin {"assembling", "sized"}
          /\ \A d \in Deletes : del[d] \in {"idle", "done"}

\* InitUpload "enforces the per-user quota": what a user has stored stays within it.
QuotaRespected == Quota = 0 \/ Bytes(Stored) <= Quota

\* The quota holds for a user who uploads one video at a time and sends no second
\* request for a delete under way, as long as every charge was made (none failed,
\* none was cut off by a crash): the check at InitUpload and the charge at
\* assembly, which no transaction ties together, then see the same counter.
CarefulQuota ==
  habits \cap {"tabs", "twice"} = {} /\ uncharged = {} => QuotaRespected

\* Whenever no assembly and no delete is half done, the counter is the size of the
\* videos the user has, with any number of uploads and deletes of different videos
\* at the same time: nothing leaks, nothing is credited twice.  No statement has
\* failed and no crash has come in between.
CarefulAccount ==
  habits \cap {"early", "twice"} = {} /\ crashes = 0 /\ faults = 0 /\ AtRest
    => used = Bytes(Stored)

\* The counter is too low by no more than the charges that were lost: to an
\* IncUsedBytes that failed, or to a crash between the size and the charge, after
\* which a delete credits what nobody paid.  No other crash, failed statement or
\* delete, however early, takes away more than was charged.  The one exception is
\* a second delete under way at the same time, which credits again.
NeverUndercharged ==
  "twice" \notin habits /\ AtRest => used + Bytes(uncharged) >= Bytes(Stored)

-----------------------------------------------------------------------------
(* The inductive invariant of the proofs.                                   *)

Crediting(u) == \E d \in Deletes : u \in target[d] /\ del[d] = "credit"
Gone(u)      == row[u] = "deleted" /\ ~Crediting(u)

\* Whose charge is in the counter: made, and not credited to the user yet.
Charged  == {u \in Uploads : up[u] = "stored" /\ u \notin uncharged /\ ~Gone(u)}
\* Credited perhaps before their charge, or without one.
Credited == {u \in Uploads : (up[u] = "sized" \/ u \in uncharged) /\ Gone(u)}

RowInv ==
  /\ \A u \in Uploads :
       /\ up[u] \in {"idle", "init", "refused"} => row[u] = "none"
       /\ up[u] \in {"uploading", "assembling", "sized", "stored"} => row[u] # "none"
       /\ row[u] = "deleted" => \E d \in Deletes : u \in target[d]
       /\ sizeCol[u] \in {0, Size[u]}
       /\ sizeCol[u] # 0 => up[u] \in {"sized", "stored"} \/ u \in uncharged
       /\ u \in uncharged => up[u] \in {"stored", "failed"}
  /\ IsFiniteSet({u \in Uploads : up[u] # "idle"})

\* What a delete knows of its video, and the video of its delete.
DeleteInv ==
  \A d \in Deletes :
    /\ del[d] # "idle" => target[d] # {}
    /\ \A u \in target[d] :
         /\ target[d] = {u} /\ del[d] # "idle" /\ row[u] # "none"
         /\ del[d] = "credit" => row[u] = "deleted"
         /\ read[d] \in {0, Size[u]}
         /\ read[d] # 0 => up[u] \in {"sized", "stored"} \/ u \in uncharged
         /\ "early" \notin habits => up[u] \in {"stored", "failed"}
         /\ "twice" \notin habits /\ del[d] # "done" =>
              /\ \A e \in Deletes : u \in target[e] /\ del[e] # "done" => e = d
              /\ del[d] = "delete" => row[u] = "there"

\* Without a crash and a failing statement the size is recorded before it is
\* read, and every charge is made.
SizeInv ==
  crashes = 0 /\ faults = 0 =>
    /\ uncharged = {}
    /\ "early" \notin habits =>
         /\ \A u \in Uploads : up[u] \in {"sized", "stored"} => sizeCol[u] = Size[u]
         /\ \A d \in Deletes : \A u \in target[d] : up[u] = "stored" => read[d] = Size[u]

\* The account, and an inequality that survives crashes and failing statements.
AccountInv ==
  /\ habits \cap {"early", "twice"} = {} /\ crashes = 0 /\ faults = 0 => used = Bytes(Charged)
  /\ "twice" \notin habits => used + Bytes(Credited) >= Bytes(Charged)

\* What is stored or about to be fits.
OpenInv ==
  habits \cap {"tabs", "twice"} = {} /\ uncharged = {} =>
    /\ Quota = 0 \/ Bytes(Charged \cup Open) <= Quota
    /\ \A u, v \in Open : u = v

QuotaInv == TypeOK /\ RowInv /\ DeleteInv /\ SizeInv /\ AccountInv /\ OpenInv
=============================================================================
