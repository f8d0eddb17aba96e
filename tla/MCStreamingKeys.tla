---------------------------- MODULE MCStreamingKeys ----------------------------
(* Instances of StreamingKeys for TLC.                                      *)
EXTENDS StreamingKeys, TLC

MCSymmetry == Permutations(Verifications)
================================================================================
