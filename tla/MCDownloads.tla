------------------------------ MODULE MCDownloads ------------------------------
(* Instances of Downloads for TLC.  s1 is a source of unknown size, s2 is   *)
(* larger than declared, s3 smaller; all but s1 exceed a threshold of 1.    *)
EXTENDS Downloads, TLC

CONSTANTS s1, s2, s3
MCDeclaredSize == [s \in Sources |-> IF s = s1 THEN 0 ELSE IF s = s2 THEN 1 ELSE 2]
MCLength == [s \in Sources |-> IF s = s2 THEN 2 ELSE 1]

(* Two requests are served together only while s3 is out of the picture:   *)
(* two sources make cleanups interleave, three make one take several turns. *)
MCThirdIsAlone ==
    \/ \A r, q \in Requests : pc[r] # "idle" /\ pc[q] # "idle" => r = q
    \/ /\ ~HasRecord(s3) /\ torrent[s3] = "absent" /\ s3 \notin disk \cup removing \cup lost
       /\ \A r \in Requests : task[r] # NoTask => task[r].source # s3 /\ task[r].victim # s3

MCSymmetry == Permutations(Requests)
================================================================================
