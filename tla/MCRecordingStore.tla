-------------------------- MODULE MCRecordingStore --------------------------
(* A small instance of RecordingStore: a batch can cross the commit threshold,
   two recordings can be open at once, the interval can elapse twice, and any
   write may fail. *)
EXTENDS RecordingStore, TLC

CONSTANTS f1, f2

MCFrames == {f1, f2}
MCSymmetry == Permutations(MCFrames)
AllFaults == FaultKinds
=============================================================================
