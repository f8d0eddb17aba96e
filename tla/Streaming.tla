------------------------------ MODULE Streaming ------------------------------
(***************************************************************************)
(* A request on the stream route, from the choice of a source to the last  *)
(* byte: StreamService picks the source, DownloadService.streamFile waits  *)
(* for the client and the torrent and then pumps the blocks of the video   *)
(* file into a ReadableStream while the HTTP client reads, stalls or goes  *)
(* away.  Downloads models the start of the torrent itself.                *)
(***************************************************************************)
EXTENDS Integers, SequencesExt

CONSTANTS
    Players,        \* requests of the stream route
    FileLength,     \* bytes of the video file
    RangeHeaders,   \* the Range headers that are sent: sequences of [first, last]
    SourceTable,    \* the sources of the movie, best score first, as first found
    Qualities       \* what may be asked for

NaN == -1           \* parseInt of an empty string

\* One range of a header: a number has no sign, for "-" is what ends it.
RangeSpec == [first : Nat \cup {NaN}, last : Nat \cup {NaN}]

ASSUME StreamAssumption ==
    /\ FileLength \in Nat \ {0}
    /\ RangeHeaders \subseteq Seq(RangeSpec)

HighWaterMark == 1  \* of a ReadableStream that names no strategy

VARIABLES
    sources,        \* the movie's sources: a sequence of [quality, hevc, file]
    ready,          \* the WebTorrent client is ready
    torrent,        \* the client has the torrent of the movie
    streams         \* each request, its stream and its pump

streamVars == <<sources, ready, torrent, streams>>

NoRange == [start |-> 0, end |-> NaN]
NoStream == [stage |-> "idle", source |-> "none", header |-> <<>>, status |-> 0, range |-> NoRange,
             length |-> 0, at |-> 0, queued |-> 0, state |-> "none",
             left |-> FALSE, broken |-> FALSE]

StInit ==
    /\ sources = SourceTable
    /\ ready = FALSE /\ torrent = FALSE
    /\ streams = [p \in Players |-> NoStream]

At(p, stage) == streams[p].stage = stage
StreamBecomes(p, fields) ==
    LET s == streams[p]
    IN  streams' = [streams EXCEPT ![p] =
                       [f \in DOMAIN s |-> IF f \in DOMAIN fields THEN fields[f] ELSE s[f]]]

-----------------------------------------------------------------------------
(* The source: one with a file, of a codec that is allowed, of the quality *)
(* asked for if there is one, else the best.                               *)

Streamable(allowHevc) == SelectSeq(sources, LAMBDA s : s.file /\ (allowHevc \/ ~s.hevc))

\* Columns hold the place of a value in a list, and the first place is taken for
\* no value when a row is read: a source in SD has no quality.
AsRead(quality) == IF quality = "sd" THEN "none" ELSE quality

\* The route: an invalid key, an unknown movie or no source is an answer of
\* its own; a query without hevc is transformed to FALSE.
RefuseStream(p) ==
    /\ At(p, "idle")
    /\ StreamBecomes(p, [stage |-> "refused", status |-> 401])
    /\ UNCHANGED <<sources, ready, torrent>>

Choose(p, header, quality, hevc) ==
    /\ At(p, "idle")
    /\ LET best  == Streamable(hevc)
           exact == SelectSeq(best, LAMBDA s : AsRead(s.quality) = quality)
       IN  IF best = <<>>
           THEN StreamBecomes(p, [stage |-> "refused", status |-> 404])
           ELSE StreamBecomes(p, [stage |-> IF ready THEN "starting" ELSE "waiting", header |-> header,
                            source |-> IF exact = <<>> THEN best[1] ELSE exact[1]])
    /\ UNCHANGED <<sources, ready, torrent>>

ClientReady ==
    /\ ~ready /\ ready' = TRUE
    /\ streams' = [p \in Players |-> IF At(p, "waiting")
                                     THEN [streams[p] EXCEPT !.stage = "starting"] ELSE streams[p]]
    /\ UNCHANGED <<sources, torrent>>

\* The background task stores the file of a source.
FileFound(i) ==
    /\ ~sources[i].file
    /\ sources' = [sources EXCEPT ![i].file = TRUE]
    /\ UNCHANGED <<ready, torrent, streams>>

-----------------------------------------------------------------------------
(* parseRangeHeader                                                        *)

IsInvalid(spec) ==
    \/ spec.first = NaN /\ spec.last = NaN
    \/ spec.first # NaN /\ spec.last # NaN /\ (spec.first > spec.last \/ spec.last >= FileLength)

\* Mutation: a suffix is taken to be one byte longer than the file's last.
RangeToLength(spec) ==
    [start |-> IF spec.first # NaN THEN spec.first
               ELSE IF spec.last > FileLength THEN 0 ELSE FileLength - spec.last,
     end   |-> IF spec.first = NaN THEN FileLength - 2
               ELSE IF spec.last = NaN THEN FileLength - 1 ELSE spec.last]

RangeOf(spec) ==
    [start |-> IF spec.first # NaN THEN spec.first
               ELSE IF spec.last > FileLength THEN 0 ELSE FileLength - spec.last,
     end   |-> IF spec.first # NaN /\ spec.last # NaN THEN spec.last ELSE FileLength - 1]

\* Each of several ranges is parsed, the first one is served.
ParsedRange(header) ==
    IF header = <<>> \/ \E i \in DOMAIN header : IsInvalid(header[i]) THEN NoRange
    ELSE RangeOf(header[1])

-----------------------------------------------------------------------------
(* streamFile                                                              *)

\* The torrent is started and the response made, at once with its pump.
OpenStream(p) ==
    /\ At(p, "starting")
    /\ LET range == ParsedRange(streams[p].header)
           whole == range = NoRange
       IN  StreamBecomes(p, [stage |-> "reading", state |-> "readable", range |-> range,
                       status |-> IF whole THEN 200 ELSE 206,
                       at |-> range.start,
                       length |-> IF whole THEN FileLength ELSE range.end - range.start + 1])
    /\ torrent' = TRUE
    /\ UNCHANGED <<sources, ready>>

\* The start fails, or the torrent has no video file: nothing answers.
StartFails(p) ==
    /\ At(p, "starting")
    /\ StreamBecomes(p, [stage |-> "unanswered"])
    /\ UNCHANGED <<sources, ready, torrent>>

LastByte(p) == IF streams[p].status = 200 THEN FileLength - 1 ELSE streams[p].range.end

\* desiredSize of the controller: null on a stream that has failed, 0 on one
\* that was closed or cancelled.
Desired(p) == IF streams[p].state = "closed" THEN 0 ELSE HighWaterMark - streams[p].queued

\* Mutation: a full queue is taken for a cancelled stream.
GivesUpWhenFull(p) == streams[p].state = "errored" \/ Desired(p) <= 0

GivesUp(p) == streams[p].state = "errored"

\* iterator.next() gives a block: it is enqueued when there is room, and
\* waits for room, looking every 10 ms, when there is none.
NextBlock(p) ==
    /\ At(p, "reading") /\ ~streams[p].broken /\ streams[p].at <= LastByte(p)
    /\ IF GivesUp(p) THEN StreamBecomes(p, [stage |-> "ended"])
       ELSE IF Desired(p) <= 0 THEN StreamBecomes(p, [stage |-> "blocked"])
       ELSE StreamBecomes(p, [at |-> streams[p].at + 1, queued |-> streams[p].queued + 1])
    /\ UNCHANGED <<sources, ready, torrent>>

CheckBackpressure(p) ==
    /\ At(p, "blocked") /\ Desired(p) > 0
    /\ StreamBecomes(p, [stage |-> "reading", at |-> streams[p].at + 1, queued |-> streams[p].queued + 1])
    /\ UNCHANGED <<sources, ready, torrent>>

\* done: a stream that was cancelled meanwhile is closed already.
Finished(p) ==
    /\ At(p, "reading") /\ streams[p].at > LastByte(p)
    /\ StreamBecomes(p, [stage |-> "ended", state |-> "closed"])
    /\ UNCHANGED <<sources, ready, torrent>>

\* The torrent was destroyed: the iterator throws, and controller.error
\* drops what is queued and does nothing on a stream that is closed.
PumpFails(p) ==
    /\ At(p, "reading") /\ streams[p].broken /\ streams[p].at <= LastByte(p)
    /\ StreamBecomes(p, [stage |-> "ended", queued |-> 0,
                   state |-> IF streams[p].state = "closed" THEN "closed" ELSE "errored"])
    /\ UNCHANGED <<sources, ready, torrent>>

-----------------------------------------------------------------------------
(* The HTTP client, and the rest of the service.                           *)

ReadBlock(p) ==
    /\ streams[p].queued > 0
    /\ StreamBecomes(p, [queued |-> streams[p].queued - 1])
    /\ UNCHANGED <<sources, ready, torrent>>

\* The HTTP client goes away: the stream is closed and its queue dropped.
Cancel(p) ==
    /\ streams[p].state = "readable"
    /\ StreamBecomes(p, [state |-> "closed", queued |-> 0, left |-> TRUE])
    /\ UNCHANGED <<sources, ready, torrent>>

\* The storage of the movie is evicted: the iterators of its file are broken,
\* and the next request adds the torrent anew.
TorrentRemoved ==
    /\ torrent /\ torrent' = FALSE
    /\ streams' = [p \in Players |-> [streams[p] EXCEPT !.broken = @ \/ streams[p].state # "none"]]
    /\ UNCHANGED <<sources, ready>>

StNext ==
    \/ ClientReady \/ TorrentRemoved
    \/ \E i \in DOMAIN sources : FileFound(i)
    \/ \E p \in Players :
          \/ RefuseStream(p) \/ OpenStream(p) \/ StartFails(p) \/ ReadBlock(p) \/ Cancel(p)
          \/ \E h \in RangeHeaders, q \in Qualities, hevc \in BOOLEAN : Choose(p, h, q, hevc)
          \/ NextBlock(p) \/ CheckBackpressure(p) \/ Finished(p) \/ PumpFails(p)

StSpec == StInit /\ [][StNext]_streamVars

-----------------------------------------------------------------------------
StTypeOK ==
    /\ ready \in BOOLEAN /\ torrent \in BOOLEAN
    /\ \A p \in Players : /\ streams[p].queued \in 0..HighWaterMark
                          /\ streams[p].state \in {"none", "readable", "closed", "errored"}
                          /\ streams[p].status \in {0, 200, 206, 401, 404}

\* The bytes a range asks for, as RFC 9110 has it.
Wanted(spec) ==
    {b \in 0..(FileLength - 1) :
        IF spec.first = NaN THEN b >= FileLength - spec.last
        ELSE b >= spec.first /\ (spec.last = NaN \/ b <= spec.last)}

(***************************************************************************)
(* However slowly a client reads and whatever waits for room in between, a *)
(* stream that ends without having failed or been left has sent what was   *)
(* asked for: the bytes of the first range when the answer is a 206, else  *)
(* the whole file, and as many as its Content-Length promised - unless the *)
(* range lies beyond the file (download.service.ts:633-690,                *)
(* download.utils.ts:101-141).                                             *)
(***************************************************************************)
StreamsSendWhatWasAsked ==
    \A p \in Players :
        LET s == streams[p]
            bytes == s.range.start..(s.at - 1)
        IN  At(p, "ended") /\ s.state # "errored" /\ ~s.left /\ s.length > 0 =>
               /\ bytes = IF s.status = 206 THEN Wanted(s.header[1]) ELSE 0..(FileLength - 1)
               /\ s.at = s.range.start + s.length
==============================================================================
