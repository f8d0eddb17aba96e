---------------------------- MODULE MCConfiguration ----------------------------
(* Configuration alone: a variable of YTS and a secret of TRAKT.            *)
EXTENDS Configuration, TLC

CONSTANTS ytsUrl, traktSecret
MCServiceOf == ytsUrl :> "YTS" @@ traktSecret :> "TRAKT"
MCEnvironments == {[k \in Variables |-> "unset"], ytsUrl :> "b" @@ traktSecret :> "b"}
================================================================================
