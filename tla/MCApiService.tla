---------------------------- MODULE MCApiService ----------------------------
(* Three requests of two sessions with the same key; a cache with room for the
   key of one session, whose entries live for one tick. *)
EXTENDS ApiService, TLC

CONSTANTS r1, r2, r3, s1, s2, k1

MCRequests == {r1, r2, r3}
MCSessions == {s1, s2}
MCKeys == {k1}
MCContents == {[op |-> "enqueue"],
               [op |-> "update", id |-> 1, state |-> "completed"],
               [op |-> "update", id |-> 1, state |-> "failed"]}
MCSymmetry == Permutations(MCRequests) \cup Permutations(MCSessions)
=============================================================================
