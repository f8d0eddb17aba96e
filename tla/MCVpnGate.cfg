\* Two checks that can overlap, and a restart of SourceService with its probe.
\* Liveness is checked, so there is no symmetry.
SPECIFICATION FairSpec
CONSTANTS
    Checks = {c1, c2}
    Searches = {q1}
    MaxProbes = 2
    NoTask = NoTask
INVARIANTS
    TypeOK
PROPERTIES
    NoBlindSearch
    MonitorConverges
