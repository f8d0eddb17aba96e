--------------------------- MODULE TitleExtraction ---------------------------
(***************************************************************************)
(* extractSourceMetadata: what is known of a release is read out of its    *)
(* name, kind by kind - season and episode, year, quality, codecs, source, *)
(* languages, technical terms.  What a kind has found is removed from the  *)
(* working text, and the segments, the pieces of the name between what was *)
(* removed, are moved along; the title is put together from the segments.  *)
(* What the patterns of a kind match is left open.                         *)
(***************************************************************************)
EXTENDS Integers, FiniteSets, Sequences, SequencesExt

CONSTANTS
    Characters,
    NameLength,
    MaxMatches,    \* bound: matches of one kind
    Kinds          \* kinds of data looked for, one after another

ASSUME TitleExtractionAssumption ==
    /\ Characters \subseteq STRING /\ NameLength \in Nat \ {0}
    /\ MaxMatches \in Nat \ {0} /\ Kinds \in Nat

VARIABLES
    name,          \* the name of the release
    text,          \* workingText.title, as the places of its characters in the name
    segments,      \* workingText.titleSegments
    kind,          \* kinds that were looked for
    title          \* history: the places of the name the last title was made of

titleVars == <<name, text, segments, kind, title>>

-----------------------------------------------------------------------------
(* findMatches: an index, and the length of the match.  The patterns of a  *)
(* kind may match at one place, and their matches may overlap.             *)
LeastOf(a, b) == IF a < b THEN a ELSE b
MostOf(a, b) == IF a > b THEN a ELSE b

Matches == {m \in [index : 0..(Len(text) - 1), length : 1..Len(text)] : m.index + m.length <= Len(text)}
MatchLists ==
    {ms \in UNION {[1..n -> Matches] : n \in 1..MaxMatches} :
        \A i \in 1..(Len(ms) - 1) : ms[i].index <= ms[i + 1].index}

\* mergeOverlappingMatches, of matches in the order of their index: one that
\* begins in or right after the current one, or one character further on, is
\* put behind the first match of all.
MergeOne(first, merged, next) ==
    LET current == Last(merged)
        currentEnd == current.index + current.length
        mergedEnd == MostOf(currentEnd, next.index + next.length)
        added == LeastOf(mergedEnd - currentEnd, next.length)
    IN  IF next.index <= currentEnd + 1
        THEN Front(merged) \o <<[current EXCEPT !.length = first.length + added]>>
        ELSE Append(merged, next)
Merged(ms) ==
    LET merged[i \in 0..Len(ms)] ==
            IF i = 0 THEN <<>>
            ELSE IF i = 1 THEN <<ms[1]>>
            ELSE MergeOne(ms[1], merged[i - 1], ms[i])
    IN  merged[Len(ms)]

CharacterAt(t, i) == name[t[i + 1]]
Surrounded(t, m) ==
    /\ m.index > 0 /\ Len(t) > m.index + m.length
    /\ <<CharacterAt(t, m.index - 1), CharacterAt(t, m.index + m.length)>> \in {<<"(", ")">>, <<"[", "]">>}

\* expandMatch: the brackets around a match, as many as there are, and then
\* the character before it when the one behind it is the same.
Expanded(t, m) ==
    LET depths == {d \in 0..m.index :
                      \A e \in 0..(d - 1) : Surrounded(t, [index |-> m.index - e, length |-> m.length + 2 * e])}
        depth == CHOOSE d \in depths : \A e \in depths : e <= d
        inner == [index |-> m.index - depth, length |-> m.length + 2 * depth]
    IN  IF /\ inner.index > 0 /\ Len(t) > inner.index + inner.length
           /\ CharacterAt(t, inner.index - 1) = CharacterAt(t, inner.index + inner.length)
        THEN [index |-> inner.index - 1, length |-> inner.length + 1]
        ELSE inner

\* removeMatch; the text may have become shorter than where the match was found.
Without(t, m) == SubSeq(t, 1, LeastOf(m.index, Len(t))) \o SubSeq(t, m.index + m.length + 1, Len(t))

\* recalculateSegments, of one segment: what lies before the match stays, what lies behind it
\* moves, a segment with the match inside is split.
Kept(s, m) ==
    LET matchEnd == m.index + m.length
        before == <<[start |-> s.start, end |-> m.index]>>
        after == <<[start |-> m.index, end |-> s.end - m.length]>>
    IN  IF s.end <= m.index THEN <<s>>
        ELSE IF s.start >= matchEnd
             THEN <<[start |-> s.start - m.length, end |-> s.end - m.length]>>
        ELSE (IF s.start < m.index THEN before ELSE <<>>) \o (IF s.end > matchEnd THEN after ELSE <<>>)

Recalculated(segs, m) ==
    LET done[i \in 0..Len(segs)] ==
            IF i = 0 THEN <<>> ELSE done[i - 1] \o Kept(segs[i], m)
    IN  done[Len(segs)]

\* Mutation: the segments are moved by the match as it was found.
RemoveOneUnwidened(working, m) ==
    [text |-> Without(working.text, Expanded(working.text, m)),
     segments |-> Recalculated(working.segments, m)]

\* One match leaves the text and the segments, both with what expandMatch has
\* made of it.
RemoveOne(working, m) ==
    LET wide == Expanded(working.text, m)
    IN  [text |-> Without(working.text, wide), segments |-> Recalculated(working.segments, wide)]

\* removeMatches: from the end of the text to its start.
RemoveMatches(ms) ==
    LET list == Merged(ms)
        left[n \in 0..Len(list)] ==
            IF n = 0 THEN [text |-> text, segments |-> segments]
            ELSE RemoveOne(left[n - 1], list[Len(list) + 1 - n])
    IN  left[Len(list)]

-----------------------------------------------------------------------------
TiInit ==
    /\ name = <<>> /\ text = <<>> /\ segments = <<>> /\ kind = 0 /\ title = {}

\* extractSourceMetadata begins: one segment, the whole name.
ExtractSourceMetadata ==
    /\ name = <<>>
    /\ name' \in [1..NameLength -> Characters]
    /\ text' = [i \in 1..NameLength |-> i]
    /\ segments' = <<[start |-> 0, end |-> NameLength]>>
    /\ kind' = 0 /\ title' = {}

\* extractTvData, extractValue and applyCleanupPatterns: a kind with one value
\* removes the matches of the best value, one with several all of them.
ExtractKind ==
    /\ name # <<>> /\ kind < Kinds
    /\ kind' = kind + 1
    /\ \E ms \in MatchLists :
          LET left == RemoveMatches(ms)
          IN  /\ text' = left.text /\ segments' = left.segments
    /\ UNCHANGED <<name, title>>

\* A kind that matches nothing removes nothing.
NoTitleFound ==
    /\ name # <<>> /\ kind < Kinds
    /\ kind' = kind + 1
    /\ UNCHANGED <<name, text, segments, title>>

Places(s) == {text[i + 1] : i \in s.start..(s.end - 1)}

\* The segments that may make the title: those that are not blank.
RemainingSegments ==
    {s \in ToSet(segments) : \E i \in s.start..(s.end - 1) : CharacterAt(text, i) # " "}

\* extractCleanTitleFromSegments: without a segment the name is the title, one
\* segment is the title, and of several the best and those that name an
\* edition, if any is long enough to be looked at.
CleanTitle ==
    /\ name # <<>> /\ kind = Kinds
    /\ LET remaining == RemainingSegments
       IN  \/ remaining = {} /\ title' = 1..NameLength
           \/ /\ remaining # {}
              /\ \E chosen \in SUBSET remaining :
                    /\ Cardinality(remaining) = 1 => chosen = remaining
                    /\ title' = UNION {Places(s) : s \in chosen}
    /\ name' = <<>> /\ text' = <<>> /\ segments' = <<>> /\ kind' = 0

TiNext == ExtractSourceMetadata \/ ExtractKind \/ NoTitleFound \/ CleanTitle

TiSpec == TiInit /\ [][TiNext]_titleVars

-----------------------------------------------------------------------------
\* Types of the state of an extraction.
TiTypeOK ==
    /\ text \in Seq(1..NameLength) /\ kind \in 0..Kinds
    /\ title \subseteq 1..NameLength

\* The segments are the working text: put one after another they are all of it
\* and nothing else, however the matches that were removed overlapped, lay in
\* brackets or at the borders of earlier segments (recalculateSegments against
\* removeMatch, whose match expandMatch changes).
SegmentsCoverText ==
    /\ \A i \in 1..Len(segments) :
          /\ segments[i].start < segments[i].end
          /\ segments[i].start = IF i = 1 THEN 0 ELSE segments[i - 1].end
    /\ Len(text) = IF segments = <<>> THEN 0 ELSE Last(segments).end
=============================================================================
