----------------------------- MODULE MCCataloguing -----------------------------
(***************************************************************************)
(* One run over the components that keep the catalogue, the links of users *)
(* and the configuration.  They share no state, so their product says      *)
(* nothing that each does not say alone: focus names the one whose steps   *)
(* are taken, and the others keep their initial state.                     *)
(***************************************************************************)
EXTENDS SourceSearch, TitleExtraction, CatalogueSync, SeasonSync, MediaLists,
        TraktLinks, Configuration, SourceStats, TLC

VARIABLE focus

CONSTANTS Components, ytsUrl, securityKey
MCComponents ==
    {"source search", "title extraction", "catalogue", "seasons", "lists", "trakt", "configuration",
     "statistics"}
(* The accounts of Trakt are only compared with each other.                 *)
MCSymmetry == Permutations(Slugs)

MCServiceOf == ytsUrl :> "YTS" @@ securityKey :> "SOURCE"
MCEnvironments ==
    {ytsUrl :> e[1] @@ securityKey :> e[2] : e \in {<<"b", "unset">>, <<"bad", "b">>}}

-----------------------------------------------------------------------------
RestSS == UNCHANGED <<titleVars, catalogueVars, seasonVars, mediaListVars, traktVars, configVars, statsVars>>
RestTi == UNCHANGED <<ssVars, catalogueVars, seasonVars, mediaListVars, traktVars, configVars, statsVars>>
RestC  == UNCHANGED <<ssVars, titleVars, seasonVars, mediaListVars, traktVars, configVars, statsVars>>
RestSe == UNCHANGED <<ssVars, titleVars, catalogueVars, mediaListVars, traktVars, configVars, statsVars>>
RestL  == UNCHANGED <<ssVars, titleVars, catalogueVars, seasonVars, traktVars, configVars, statsVars>>
RestT  == UNCHANGED <<ssVars, titleVars, catalogueVars, seasonVars, mediaListVars, configVars, statsVars>>
RestCf == UNCHANGED <<ssVars, titleVars, catalogueVars, seasonVars, mediaListVars, traktVars, statsVars>>
RestSt == UNCHANGED <<ssVars, titleVars, catalogueVars, seasonVars, mediaListVars, traktVars, configVars>>

CataloguingInit ==
    /\ focus \in Components
    /\ SSInit /\ TiInit /\ CInit /\ SeInit /\ LInit /\ TInit /\ CfInit /\ StatsInit

CataloguingNext ==
    /\ focus' = focus
    /\ \/ focus = "source search" /\ SSNext /\ RestSS
       \/ focus = "title extraction" /\ TiNext /\ RestTi
       \/ focus = "catalogue" /\ CNext /\ RestC
       \/ focus = "seasons" /\ SeNext /\ RestSe
       \/ focus = "lists" /\ LNext /\ RestL
       \/ focus = "trakt" /\ TNext /\ RestT
       \/ focus = "configuration" /\ CfNext /\ RestCf
       \/ focus = "statistics" /\ StatsNext /\ RestSt

CataloguingSpec ==
    CataloguingInit /\ [][CataloguingNext]_<<focus, ssVars, titleVars, catalogueVars, seasonVars,
                                             mediaListVars, traktVars, configVars, statsVars>>

(* Every variable of the components keeps its type.                        *)
CataloguingTypeOK ==
    /\ SSTypeOK /\ TiTypeOK /\ CTypeOK /\ SeTypeOK /\ LTypeOK /\ TTypeOK /\ CfTypeOK
    /\ StatsTypeOK
=============================================================================
