----------------------------- MODULE CaptureLog -----------------------------
(***************************************************************************)
(* What the recording store promises: a list of append-only logs, and a    *)
(* saved copy of that list which is always the whole list as it was at one *)
(* moment (never a mixture of two), to which a crash takes it back.        *)
(***************************************************************************)
EXTENDS Naturals, Sequences

CONSTANTS Frames, MaxBatch

VARIABLES
    logs,   \* one [frames, closed] record per recording, in creation order
    saved   \* the list a crash falls back to

vars == <<logs, saved>>

Batches == UNION {[1..n -> Frames] : n \in 1..MaxBatch}

Init == logs = <<>> /\ saved = <<>>

Create == logs' = Append(logs, [frames |-> <<>>, closed |-> FALSE])

Accept(rid, frames) == logs' = [logs EXCEPT ![rid].frames = @ \o frames]

Close(rid) == logs' = [logs EXCEPT ![rid].closed = TRUE]

(* Saving may happen before the step's change, after it, or not at all. *)
Save == saved' \in {saved, logs, logs'}

Crash == logs' = saved /\ UNCHANGED saved

Next ==
    \/ /\ \/ Create
          \/ \E rid \in DOMAIN logs : Close(rid)
          \/ \E rid \in DOMAIN logs, frames \in Batches : Accept(rid, frames)
          \/ UNCHANGED logs
       /\ Save
    \/ Crash

Spec == Init /\ [][Next]_vars
=============================================================================
