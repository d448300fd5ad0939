--------------------------- MODULE VideoLifecycle ---------------------------
(***************************************************************************)
(* What an upload is to its owner, whatever goroutines, rows and files are  *)
(* behind it: it arrives, it is kept as it was sent until a complete HLS    *)
(* rendition replaces it, it can be watched, and it can be deleted.  It     *)
(* never has no form again, and it goes back to an earlier one only while   *)
(* the replaced upload could not be removed and is kept beside the          *)
(* rendition: then it may be transcoded once more.                          *)
(***************************************************************************)
CONSTANTS Videos, Deletable

VARIABLES form,  \* form[v]: the form in which v is kept
          kept   \* videos kept as they were sent beside their rendition

vars == <<form, kept>>

Forms == {"none", "raw", "rendition", "watchable", "deleted"}

Init == form = [v \in Videos |-> "none"] /\ kept = {}

Become(v, f) == form' = [form EXCEPT ![v] = f]

Assemble(v)  == form[v] = "none" /\ Become(v, "raw") /\ UNCHANGED kept
Transcode(v) == /\ form[v] = "raw" /\ v \notin kept /\ Become(v, "rendition")
                /\ kept' = kept \/ kept' = kept \cup {v}
Publish(v)   == form[v] = "rendition" /\ Become(v, "watchable") /\ UNCHANGED kept

(* The job could not be completed after its video was published: the video  *)
(* is marked failed, and its rendition stays.                               *)
Withdraw(v)  == form[v] = "watchable" /\ Become(v, "rendition") /\ UNCHANGED kept

(* A kept upload may be transcoded again over its rendition, published or   *)
(* not, and the attempt to remove it may succeed this time.                 *)
Restart(v) == /\ v \in kept /\ form[v] \in {"rendition", "watchable"}
              /\ Become(v, "raw") /\ UNCHANGED kept
Redo(v)    == /\ v \in kept /\ form[v] = "raw"
              /\ Become(v, "rendition") \/ Become(v, "watchable")
              /\ UNCHANGED kept
Clean(v)   == /\ v \in kept /\ form[v] \in {"rendition", "watchable"}
              /\ kept' = kept \ {v} /\ UNCHANGED form

Delete(v)    == /\ v \in Deletable /\ form[v] # "deleted" /\ Become(v, "deleted")
                /\ kept' = kept \ {v}

(* A step gives one video a new form, or removes what was kept of it.       *)
Next == \E v \in Videos :
          /\ form'[v] # form[v] \/ kept' # kept
          /\ \/ Assemble(v) \/ Transcode(v) \/ Publish(v) \/ Withdraw(v)
             \/ Restart(v) \/ Redo(v) \/ Clean(v) \/ Delete(v)

Spec == Init /\ [][Next]_vars
=============================================================================
