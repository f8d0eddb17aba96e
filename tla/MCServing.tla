------------------------------- MODULE MCServing -------------------------------
(***************************************************************************)
(* One run over the components that serve requests and reach the network.  *)
(* They share no state, so their product says nothing that each does not   *)
(* say alone: focus names the one whose steps are taken, and the others    *)
(* keep their initial state.                                               *)
(***************************************************************************)
EXTENDS RateLimiter, DynamicRateLimit, Mirrors, HttpRequests, Scheduler,
        ChunkStore, BrowserSessions, Streaming, StreamingKeys

VARIABLE focus

CONSTANT Components
MCComponents ==
    {"rate limiter", "dynamic rate limit", "yts", "rarbg", "http requests",
     "scheduler", "chunk store", "browser sessions", "streaming", "streaming keys"}

(* The requests of a browser differ in nothing but what they were sent for. *)
MCSymmetry == Permutations(HttpCalls)

MCFallbacks == <<"yts.lt", "yts.gg">>
MCRarbgMirrors == <<"therarbg.to", "therar.site">>
MCRange(first, last) == [first |-> first, last |-> last]
MCRangeHeaders ==
    {<<>>, <<MCRange(1, 1)>>, <<MCRange(NaN, 2)>>, <<MCRange(3, NaN)>>,
     <<MCRange(0, 0), MCRange(NaN, NaN)>>}
MCSource(quality, hevc) == [quality |-> quality, hevc |-> hevc, file |-> FALSE]
MCSourceTable == <<MCSource("hd", TRUE), MCSource("sd", FALSE)>>

-----------------------------------------------------------------------------
RestRL == UNCHANGED <<drVars, mirrorVars, httpVars, schedulerVars, chunkStoreVars, browserVars, streamVars, keyVars>>
RestDR == UNCHANGED <<rlVars, mirrorVars, httpVars, schedulerVars, chunkStoreVars, browserVars, streamVars, keyVars>>
RestM  == UNCHANGED <<rlVars, drVars, httpVars, schedulerVars, chunkStoreVars, browserVars, streamVars, keyVars>>
RestH  == UNCHANGED <<rlVars, drVars, mirrorVars, schedulerVars, chunkStoreVars, browserVars, streamVars, keyVars>>
RestSc == UNCHANGED <<rlVars, drVars, mirrorVars, httpVars, chunkStoreVars, browserVars, streamVars, keyVars>>
RestCh == UNCHANGED <<rlVars, drVars, mirrorVars, httpVars, schedulerVars, browserVars, streamVars, keyVars>>
RestBr == UNCHANGED <<rlVars, drVars, mirrorVars, httpVars, schedulerVars, chunkStoreVars, streamVars, keyVars>>
RestSt == UNCHANGED <<rlVars, drVars, mirrorVars, httpVars, schedulerVars, chunkStoreVars, browserVars, keyVars>>
RestK  == UNCHANGED <<rlVars, drVars, mirrorVars, httpVars, schedulerVars, chunkStoreVars, browserVars, streamVars>>

ServingInit ==
    /\ focus \in Components
    /\ MInit(IF focus = "rarbg" THEN "rarbg" ELSE "yts")
    /\ RLInit /\ DRInit /\ HInit /\ SchInit /\ ChInit /\ BrInit /\ StInit /\ KInit
    /\ focus # "streaming keys" => <<ttl, salt>> = CHOOSE c \in TTLs \X Salts : TRUE

ServingNext ==
    /\ focus' = focus
    /\ \/ focus = "rate limiter" /\ RLNext /\ RestRL
       \/ focus = "dynamic rate limit" /\ DRNext /\ RestDR
       \/ focus \in {"yts", "rarbg"} /\ MNext /\ RestM
       \/ focus = "http requests" /\ HNext /\ RestH
       \/ focus = "scheduler" /\ SchNext /\ RestSc
       \/ focus = "chunk store" /\ ChNext /\ RestCh
       \/ focus = "browser sessions" /\ BrNext /\ RestBr
       \/ focus = "streaming" /\ StNext /\ RestSt
       \/ focus = "streaming keys" /\ KNext /\ RestK

ServingSpec == ServingInit /\ [][ServingNext]_<<focus, rlVars, drVars, mirrorVars, httpVars,
                                                schedulerVars, chunkStoreVars, browserVars,
                                                streamVars, keyVars>>

(* Every variable of the components keeps its type.                        *)
ServingTypeOK ==
    /\ RLTypeOK /\ DRTypeOK /\ MTypeOK /\ HTypeOK /\ SchTypeOK
    /\ ChTypeOK /\ BrTypeOK /\ StTypeOK /\ KTypeOK
=============================================================================
