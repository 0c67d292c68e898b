--------------------------- MODULE MCLearningCli ---------------------------
(* Two manifests of one name and version, as a dataset has them that was changed
   without a new version: a plain one, and one with two recordings, a gap, two
   samples at one time and a camera that not all samples have. *)
EXTENDS LearningCli, TLC

CONSTANTS p1, p2, x1, a, b

MCProcesses == {p1, p2}
MCModels == {x1}
MCLosses == {1, 2}

Sample(id, recording, time, cameras, bucket) ==
    [id |-> id, recording |-> recording, time |-> time, cameras |-> cameras,
     bucket |-> bucket]

MCManifests == {
    [name |-> "d", required |-> {a}, samples |->
        {Sample(1, "r", 0, {a}, "train"), Sample(2, "r", 1, {a}, "train"),
         Sample(3, "r", 2, {a}, "validation")}],
    [name |-> "d", required |-> {}, samples |->
        {Sample(1, "r", 0, {a}, "test"), Sample(2, "r", 1, {a}, "train"),
         Sample(3, "r", 4, {a}, "validation"), Sample(4, "r", 4, {a}, "train"),
         Sample(5, "s", 1, {a, b}, "train"), Sample(6, "s", 2, {a, b}, "validation"),
         Sample(7, "s", 3, {a}, "validation")}]}

MCSymmetry == Permutations(MCProcesses)
=============================================================================
