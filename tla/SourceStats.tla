----------------------------- MODULE SourceStats -----------------------------
(***************************************************************************)
(* The statistics of the sources: a task asks the trackers for the peers   *)
(* of the sources that are due, the most overdue first and a few at a      *)
(* time, and puts off the next check of a source the further the less its  *)
(* numbers have changed.  A scrape that fails or times out leaves the row  *)
(* as it is.                                                               *)
(***************************************************************************)
EXTENDS Integers, SequencesExt, FiniteSets

CONSTANTS
    StatSources,    \* rows of movie_source
    Unreachable,    \* those whose scrape always fails
    StatsBatch,     \* sources asked for at a time, 5 in the code
    MinInterval,    \* 6 hours in the code
    MaxInterval,    \* 72 hours in the code
    QuietChecks     \* quiet checks that take an interval from the least to the most

ASSUME StatsAssumption ==
    /\ IsFiniteSet(StatSources) /\ Unreachable \subseteq StatSources
    /\ StatsBatch \in Nat \ {0} /\ QuietChecks \in Nat \ {0}
    /\ MinInterval \in Nat \ {0} /\ MaxInterval \in Nat /\ MinInterval <= MaxInterval

\* An interval within the bounds.
Within(i) == IF i < MinInterval THEN MinInterval ELSE IF i > MaxInterval THEN MaxInterval ELSE i

\* The least interval after n quiet checks: each doubles it, and the randomness
\* takes a fifth off.
LeastQuiet[n \in 0..QuietChecks] ==
    IF n = 0 THEN MinInterval
    ELSE Within((8 * Within(2 * LeastQuiet[n - 1]) + 9) \div 10)

ASSUME QuietAssumption == 10 * LeastQuiet[QuietChecks] >= 8 * MaxInterval

VARIABLES
    overdue,        \* the sources whose nextStatsCheckAt is past, in its order
    dueIn,          \* the time left of the others, 0 for those
    interval,       \* nextStatsCheckAt - lastStatsCheck, or NeverChecked
    scraping,       \* the sources of the batch whose scrape is awaited
    vpnConnected,   \* as SourceService was last told
    streak          \* history: quiet checks in a row, or Huge after a huge change

statsVars == <<overdue, dueIn, interval, scraping, vpnConnected, streak>>

NeverChecked == 0
Huge == -1

\* Percentages of change, one for each way to go on.
Changes == {0, 5, 20, 50, 100}

\* A source is stored due (in an order of nextStatsCheckAt that may be any).
StatsInit ==
    /\ overdue \in SetToSeqs(StatSources)
    /\ dueIn = [s \in StatSources |-> 0]
    /\ interval = [s \in StatSources |-> NeverChecked]
    /\ scraping = {}
    /\ vpnConnected = FALSE
    /\ streak = [s \in StatSources |-> 0]

-----------------------------------------------------------------------------
\* Mutation: the newest first.
NewestDue == {overdue[i] : i \in {j \in DOMAIN overdue : j > Len(overdue) - StatsBatch}}

\* findSourceThatNeedsStatsUpdate
MostOverdue == {overdue[i] : i \in {j \in DOMAIN overdue : j <= StatsBatch}}

\* syncStatsForSources.  The scheduler starts it again only when it has ended;
\* without the VPN it does nothing.
SyncStatsForSources ==
    /\ scraping = {} /\ overdue # <<>>
    /\ vpnConnected
    /\ scraping' = MostOverdue
    /\ UNCHANGED <<overdue, dueIn, interval, vpnConnected, streak>>

\* Mutation: more than 20 is asked before more than 50.
HalvedWhateverTheChange(last, change) ==
    LET i == IF last = NeverChecked THEN MinInterval ELSE last
    IN  Within(CASE change < 5        -> 2 * i
                 [] change \in 5..9   -> i
                 [] change \in 10..20 -> (3 * i) \div 4
                 [] change > 20       -> i \div 2)

\* calculateBackoffInterval before it adds randomness.
BackoffInterval(last, change) ==
    LET i == IF last = NeverChecked THEN MinInterval ELSE last
    IN  Within(CASE change < 5        -> 2 * i
                 [] change \in 5..9   -> i
                 [] change \in 10..20 -> (3 * i) \div 4
                 [] change \in 21..50 -> i \div 2
                 [] change > 50       -> MinInterval)

\* Up to a fifth less or more, within the bounds.
Randomised(i) == {Within(x) : x \in (8 * i + 9) \div 10 .. (12 * i) \div 10}

\* scheduleNextCheck and updateStats.
Scraped(s, change) ==
    /\ s \in scraping \ Unreachable
    /\ \E i \in Randomised(BackoffInterval(interval[s], change)) :
          /\ interval' = [interval EXCEPT ![s] = i]
          /\ dueIn' = [dueIn EXCEPT ![s] = i]
    /\ overdue' = RemoveAt(overdue, CHOOSE i \in DOMAIN overdue : overdue[i] = s)
    /\ scraping' = scraping \ {s}
    /\ streak' = [streak EXCEPT ![s] =
                    CASE change > 50 -> Huge
                      [] change < 5  -> IF @ = Huge THEN 1 ELSE IF @ < QuietChecks THEN @ + 1 ELSE @
                      [] OTHER       -> 0]
    /\ UNCHANGED vpnConnected

\* The tracker fails, or 5 s have passed: the error is logged.
ScrapeFails(s) ==
    /\ s \in scraping
    /\ scraping' = scraping \ {s}
    /\ UNCHANGED <<overdue, dueIn, interval, vpnConnected, streak>>

-----------------------------------------------------------------------------
\* The next source becomes due, or several in an order of their own.
StatsTimePasses ==
    LET left == {dueIn[s] : s \in {t \in StatSources : dueIn[t] > 0}}
    IN  /\ left # {}
        /\ LET d    == CHOOSE x \in left : \A y \in left : x <= y
               next == {s \in StatSources : dueIn[s] = d}
           IN  /\ dueIn' = [s \in StatSources |-> IF dueIn[s] = 0 THEN 0 ELSE dueIn[s] - d]
               /\ \E order \in SetToSeqs(next) : overdue' = overdue \o order
        /\ UNCHANGED <<interval, scraping, vpnConnected, streak>>

VpnMoves ==
    /\ vpnConnected' = ~vpnConnected
    /\ UNCHANGED <<overdue, dueIn, interval, scraping, streak>>

Answered(s) == \E change \in Changes : Scraped(s, change)

StatsNext ==
    \/ SyncStatsForSources
    \/ \E s \in StatSources : Answered(s) \/ ScrapeFails(s)
    \/ StatsTimePasses
    \/ VpnMoves

StatsSpec == StatsInit /\ [][StatsNext]_statsVars

\* The VPN comes back, and the task, which looks every few seconds, finds it up
\* time and again; a scrape settles within its 5 s; a tracker that can be reached
\* answers now and then.
StatsFairness ==
    /\ WF_statsVars(~vpnConnected /\ VpnMoves)
    /\ SF_statsVars(SyncStatsForSources)
    /\ \A s \in StatSources : WF_statsVars(Answered(s) \/ ScrapeFails(s))
    /\ \A s \in StatSources \ Unreachable : SF_statsVars(Answered(s))

StatsFairSpec == StatsSpec /\ StatsFairness

-----------------------------------------------------------------------------
\* Types of the state of the statistics; the sources that are due are those
\* with no time left, each once.
StatsTypeOK ==
    /\ \A i, j \in DOMAIN overdue : overdue[i] = overdue[j] => i = j
    /\ {overdue[i] : i \in DOMAIN overdue} = {s \in StatSources : dueIn[s] = 0}
    /\ scraping \subseteq {s \in StatSources : dueIn[s] = 0}
    /\ interval \in [StatSources -> {NeverChecked} \cup MinInterval..MaxInterval]
    /\ vpnConnected \in BOOLEAN
    /\ streak \in [StatSources -> Huge..QuietChecks]

\* Whatever came before, a source that has been quiet for a few checks is asked
\* at nearly the longest interval, and one whose numbers have moved a lot at
\* nearly the shortest, though each interval is computed from the last one with
\* its randomness (scheduling.util.ts:22-48), which it never exceeds.
IntervalsAdapt ==
    \A s \in StatSources : interval[s] # NeverChecked =>
        /\ dueIn[s] <= interval[s]
        /\ streak[s] = QuietChecks => 10 * interval[s] >= 8 * MaxInterval
        /\ streak[s] = Huge => 10 * interval[s] <= 12 * MinInterval

\* No source starves as long as fewer sources than a batch takes are out of
\* reach: failed scrapes leave their sources in front of all others
\* (source.service.ts:353-388), so as many as a batch would take it for ever.
ReachableSourcesAreChecked ==
    Cardinality(Unreachable) < StatsBatch =>
        \A s \in StatSources \ Unreachable : dueIn[s] = 0 ~> dueIn[s] > 0

=============================================================================
