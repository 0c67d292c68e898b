-------------------------- MODULE SequenceWindows --------------------------
(***************************************************************************)
(* vision_shark/autonomy/learning_dataset.py and training_contracts.py: the *)
(* history windows a dataset is trained on.  A sample is                    *)
(* [id, recording, time, cameras, bucket]: `cameras' are the ids of its     *)
(* frames, `bucket' is what the hash of its id puts it into.  A manifest is *)
(* [name, samples, required] as DatasetManifest.validate accepts it; its    *)
(* digest is the record itself.                                             *)
(*                                                                         *)
(* An operator whose comment begins with `Slip' is no part of the model: it *)
(* is a mistake the operator after it could have been written with, and     *)
(* which the runs tell from the model.                                      *)
(***************************************************************************)
EXTENDS Integers, Sequences, FiniteSets, SequencesExt

CONSTANTS
    History,   \* history_steps
    Stride,
    MaxGap     \* max_gap_s

ASSUME WindowAssumption ==
    History \in Nat \ {0} /\ Stride \in Nat \ {0} /\ MaxGap \in Nat \ {0}

(* DatasetManifest.validate. *)
WellFormed(m) ==
    /\ m.samples # {}
    /\ \A s \in m.samples : s.cameras # {} /\ m.required \subseteq s.cameras
    /\ \A s, t \in m.samples : s.id = t.id => s = t
    /\ IsFiniteSet(m.samples) /\ \A s \in m.samples : s.id \in Int /\ s.time \in Int

(* DatasetManifest.split: every sample falls into one bucket. *)
Split(m, name) == {s \in m.samples : s.bucket = name}

Earlier(s, t) == s.time < t.time \/ (s.time = t.time /\ s.id < t.id)

Sorted(q) == \A i, j \in DOMAIN q : i < j => Earlier(q[i], q[j])

Ordered(m, recording) ==
    CHOOSE q \in SetToSeqs({s \in m.samples : s.recording = recording}) : Sorted(q)

(* Slip: a window may not end with the last sample. *)
StartsShort(n) == {k \in 0..(n - History - 1) : k % Stride = 0}

Starts(n) == {k \in 0..(n - History) : k % Stride = 0}

Continuous(w) == \A k \in 1..Len(w) - 1 : w[k + 1].time - w[k].time <= MaxGap

SameCameras(w) == \A k \in 1..Len(w) : w[k].cameras = w[1].cameras

(* build_sequence_windows: `targets' are the samples a window may end with; what
   comes before may be any sample of the recording. *)
Windows(m, targets) ==
    UNION {LET ordered == Ordered(m, r) IN
           {w \in {SubSeq(ordered, k + 1, k + History) : k \in Starts(Len(ordered))} :
                w[History] \in targets /\ Continuous(w) /\ SameCameras(w)}
           : r \in {s.recording : s \in m.samples}}

(* SequenceWindowDataset: the cameras of every item it loads.  A window that
   lacks one of them raises when it is loaded. *)
CameraIds(m) == IF m.required # {} THEN m.required
                ELSE UNION {s.cameras : s \in m.samples}
Loadable(m, w) == \A k \in 1..Len(w) : CameraIds(m) \subseteq w[k].cameras

-----------------------------------------------------------------------------
(* "Sequence windows enforce a maximum temporal gap", "camera sets must remain
   stable", "preceding samples remain available as causal history": what a window
   is, without the sorted list and the slices the code takes of it. *)
Histories(m, targets) ==
    {w \in [1..History -> m.samples] :
        /\ w[History] \in targets
        /\ \A k \in 1..History - 1 : Earlier(w[k], w[k + 1])
        /\ \A s \in m.samples : \* none is passed over
            s.recording = w[1].recording /\ Earlier(w[1], s) /\ Earlier(s, w[History])
                => \E k \in 1..History : w[k] = s
        /\ \A k \in 1..History :
            w[k].recording = w[1].recording /\ w[k].cameras = w[1].cameras
        /\ \A k \in 1..History - 1 : w[k + 1].time - w[k].time <= MaxGap}
=============================================================================
