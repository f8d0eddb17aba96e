---------------------------- MODULE MCRefreshTokens ----------------------------
(* Instances of RefreshTokens for TLC.  Users, sessions and tokens are only *)
(* compared for equality, and no CHOOSE ranges over them.                   *)
EXTENDS RefreshTokens, TLC

MCSymmetry == Permutations(Users) \cup Permutations(Sessions)
                \cup Permutations(Tokens) \cup Permutations(Requests)
================================================================================
