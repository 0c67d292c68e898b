-------------------------- MODULE MCCaptureRuntime --------------------------
(* Small instances of CaptureRuntime: one operator, or two whose requests
   interleave; two connections, so that one replaces the other. *)
EXTENDS CaptureRuntime, TLC

CONSTANTS c1, c2

OneClient == {c1}
TwoClients == {c1, c2}
MCSymmetry == Permutations(TwoClients)
=============================================================================
