--------------------------- MODULE MCMetadataWorkers ---------------------------
(* Instances of MetadataWorkers for TLC: the torrent client, which takes    *)
(* several requests and is not rate limited, and one cache, which is.       *)
EXTENDS MetadataWorkers, TLC

CONSTANTS webTorrent, itorrents

MCServices == <<webTorrent, itorrents>>
MCCap == webTorrent :> 2 @@ itorrents :> 1
MCCapOne == webTorrent :> 1 @@ itorrents :> 1
================================================================================
